---------------------------- MODULE StartupProofs ----------------------------
(***************************************************************************)
(* Proofs about Startup: any number of containers, operators, accounts,    *)
(* crashes and orders.  Only that every statement finds what it needs is   *)
(* about the scripts of Schema as they are; the rest holds for any scripts *)
(* that SchemaAssumption describes.                                        *)
(***************************************************************************)
EXTENDS Startup, TLAPS

-----------------------------------------------------------------------------
(* The revisions.                                                          *)

TablesOf(n) == {s.table : s \in ToSet(Creations[n])}

LEMMA ScriptsTyped ==
  ASSUME NEW n \in 1 .. Latest
  PROVE  /\ Creations[n] \in Seq(Statements) /\ Drops[n] \in Seq(Tables)
         /\ Len(Creations[n]) \in Nat /\ Len(Drops[n]) \in Nat
         /\ \A k \in 1 .. Len(Creations[n]) : /\ Creations[n][k] \in ToSet(Creations[n])
                                              /\ Creations[n][k].table \in TablesOf(n)
                                              /\ Creations[n][k].table \in Tables
                                              /\ Creations[n][k].types \subseteq Types
         /\ \A k \in 1 .. Len(Drops[n]) : Drops[n][k] \in TablesOf(n)
<1>1. Creations[n] \in Seq(Statements) /\ Drops[n] \in Seq(Tables)
  BY SchemaAssumption
<1>2. \A k \in 1 .. Len(Creations[n]) : /\ Creations[n][k] \in ToSet(Creations[n])
                                        /\ Creations[n][k] \in Statements
  BY <1>1 DEF ToSet
<1>3. \A s \in Statements : s.table \in Tables /\ s.types \subseteq Types
  BY DEF Tables, Types
<1>4. \A k \in 1 .. Len(Drops[n]) : Drops[n][k] \in TablesOf(n)
  <2>1. ToSet(Drops[n]) = TablesOf(n)
    BY SchemaAssumption DEF TablesOf
  <2> QED
    BY <1>1, <2>1 DEF ToSet
<1> QED
  BY <1>1, <1>2, <1>3, <1>4 DEF TablesOf

\* What a revision creates, and what its downgrade drops, statement by statement.
LEMMA WholeScript ==
  ASSUME NEW n \in 1 .. Latest
  PROVE  /\ {Creations[n][k].table : k \in 1 .. Len(Creations[n])} = TablesOf(n)
         /\ {Drops[n][k] : k \in 1 .. Len(Drops[n])} = TablesOf(n)
<1>1. Creations[n] \in Seq(Statements) /\ Drops[n] \in Seq(Tables)
  BY SchemaAssumption
<1>2. ToSet(Creations[n]) = {Creations[n][k] : k \in 1 .. Len(Creations[n])}
  BY <1>1 DEF ToSet
<1>3. ToSet(Drops[n]) = {Drops[n][k] : k \in 1 .. Len(Drops[n])}
  BY <1>1 DEF ToSet
<1>4. ToSet(Drops[n]) = TablesOf(n)
  BY SchemaAssumption DEF TablesOf
<1>5. {Creations[n][k].table : k \in 1 .. Len(Creations[n])} = TablesOf(n)
  <2>1. \A x : (\E s \in ToSet(Creations[n]) : x = s.table)
               <=> \E k \in 1 .. Len(Creations[n]) : x = Creations[n][k].table
    BY <1>2
  <2> QED
    BY <2>1, Zenon DEF TablesOf
<1> QED
  BY <1>3, <1>4, <1>5

LEMMA TablesSum ==
  ASSUME NEW n \in 0 .. Latest
  PROVE  /\ \A x : x \in TablesAt(n) <=> \E k \in 1 .. n : x \in TablesOf(k)
         /\ TablesAt(n) \subseteq Tables
<1>1. Latest \in Nat
  BY SchemaAssumption
<1>2. \A x : x \in TablesAt(n) <=> \E k \in 1 .. n : x \in TablesOf(k)
  BY DEF TablesAt, TablesOf
<1>3. \A k \in 1 .. n : TablesOf(k) \subseteq Tables
  BY <1>1 DEF TablesOf, Tables, Statements
<1> QED
  BY <1>2, <1>3

\* Revisions are about different tables.
LEMMA TablesApart ==
  ASSUME NEW m \in 1 .. Latest, NEW n \in 1 .. Latest, m # n
  PROVE  TablesOf(m) \cap TablesOf(n) = {}
BY SchemaAssumption DEF TablesOf

\* Up and down one revision.
LEMMA TablesStep ==
  ASSUME NEW m \in 0 .. Latest, NEW n \in 0 .. Latest - 1, m <= n
  PROVE  /\ TablesAt(n + 1) = TablesAt(n) \cup TablesOf(n + 1)
         /\ TablesOf(n + 1) \cap TablesAt(n) = {}
         /\ TablesAt(m) \subseteq TablesAt(n)
         /\ TablesOf(n + 1) \cap TablesAt(m) = {}
<1>1. Latest \in Nat
  BY SchemaAssumption
<1>2. \A k : k \in 1 .. n + 1 <=> k \in 1 .. n \/ k = n + 1
  BY <1>1
<1>3. TablesAt(n + 1) = TablesAt(n) \cup TablesOf(n + 1)
  <2>1. n + 1 \in 0 .. Latest /\ n \in 0 .. Latest
    BY <1>1
  <2>2. \A x : x \in TablesAt(n + 1) <=> x \in TablesAt(n) \/ x \in TablesOf(n + 1)
    BY <1>2, <2>1, TablesSum
  <2> QED
    BY <2>2
<1>4. \A k \in 1 .. n : TablesOf(n + 1) \cap TablesOf(k) = {}
  BY <1>1, TablesApart
<1>5. TablesOf(n + 1) \cap TablesAt(n) = {}
  <2>1. n \in 0 .. Latest
    BY <1>1
  <2> QED
    BY <1>4, <2>1, TablesSum
<1>6. TablesAt(m) \subseteq TablesAt(n)
  <2>1. n \in 0 .. Latest /\ \A k \in 1 .. m : k \in 1 .. n
    BY <1>1
  <2> QED
    BY <2>1, TablesSum
<1> QED
  BY <1>3, <1>5, <1>6

LEMMA TablesGrow ==
  ASSUME NEW m \in 0 .. Latest, NEW n \in 0 .. Latest, m <= n
  PROVE  TablesAt(m) \subseteq TablesAt(n)
<1>1. Latest \in Nat /\ \A k \in 1 .. m : k \in 1 .. n
  BY SchemaAssumption
<1> QED
  BY <1>1, TablesSum

-----------------------------------------------------------------------------
(* Runs of alembic.                                                        *)

\* The tables that the first k statements of a revision create, or drop.
Created(n, k) == {Creations[n][j].table : j \in 1 .. k}
Removed(n, k) == {Drops[n][j] : j \in 1 .. k}

\* An upgrade has added the tables of the revisions it has been through, and
\* those of the statements since; once it has stamped, nobody else can change
\* the revision it started from.
UpgradeRight(r, revision) ==
  /\ r.from <= r.at /\ r.from < Latest
  /\ r.at = Latest => r.done = 0
  /\ r.at < Latest => r.done <= Len(Creations[r.at + 1])
  /\ r.names \cap Tables = (TablesAt(r.at) \ TablesAt(r.from)) \cup Created(r.at + 1, r.done)
  /\ r.at # r.from => revision = r.from

\* And a downgrade has taken them away.
DowngradeRight(r, to, revision) ==
  /\ to <= r.at /\ r.at <= r.from /\ to < r.from
  /\ r.at = to => r.done = 0
  /\ r.at > to => r.done <= Len(Drops[r.at])
  /\ r.names \cap Tables = (TablesAt(r.from) \ TablesAt(r.at)) \cup Removed(r.at, r.done)
  /\ r.at # r.from => revision = r.from

LEMMA MigrationTyped ==
  ASSUME NEW r \in Migration
  PROVE  /\ Latest \in Nat /\ r.from \in 0 .. Latest /\ r.at \in 0 .. Latest /\ r.done \in Nat
         /\ r.names \subseteq Names
BY SchemaAssumption DEF Migration

LEMMA StartRight ==
  ASSUME NEW n \in 0 .. Latest, NEW revision
  PROVE  /\ Start(n) \in Migration /\ Start(n).from = n /\ Start(n).at = n
         /\ n < Latest => UpgradeRight(Start(n), revision)
         /\ \A to \in 0 .. Latest : to < n => DowngradeRight(Start(n), to, revision)
<1>1. Latest \in Nat
  BY SchemaAssumption
<1>2. /\ Start(n) \in Migration /\ Start(n).from = n /\ Start(n).at = n /\ Start(n).done = 0
      /\ Start(n).names = {}
  BY DEF Start, Migration
<1>3. \A m : Created(m, 0) = {} /\ Removed(m, 0) = {}
  BY DEF Created, Removed
<1>4. n < Latest => UpgradeRight(Start(n), revision)
  <2>1. n < Latest => n + 1 \in 1 .. Latest /\ Len(Creations[n + 1]) \in Nat
    BY <1>1, ScriptsTyped
  <2> QED
    BY <1>1, <1>2, <1>3, <2>1 DEF UpgradeRight
<1>5. ASSUME NEW to \in 0 .. Latest, to < n PROVE DowngradeRight(Start(n), to, revision)
  <2>1. n \in 1 .. Latest /\ Len(Drops[n]) \in Nat
    BY <1>1, <1>5, ScriptsTyped
  <2> QED
    BY <1>1, <1>2, <1>3, <1>5, <2>1 DEF DowngradeRight
<1> QED
  BY <1>2, <1>4, <1>5

\* An upgrade's next statement, and its run when that is done.
CreationDue(r) == r.at # Latest /\ r.done < Len(Creations[r.at + 1])

AfterCreation(r) ==
  [r EXCEPT !.done = @ + 1,
            !.names = @ \cup ({Creations[r.at + 1][r.done + 1].table}
                                \cup Creations[r.at + 1][r.done + 1].types)]

\* A downgrade's next statement, and its run when that is done.
DropDue(r, to) == to \in 0 .. Latest /\ r.at # to /\ r.done < Len(Drops[r.at])

AfterDrop(r) == [r EXCEPT !.done = @ + 1, !.names = @ \cup {Drops[r.at][r.done + 1]}]

LEMMA UpgradeStatement ==
  ASSUME NEW r \in Migration, NEW revision, UpgradeRight(r, revision), CreationDue(r),
         NEW s, s = AfterCreation(r)
  PROVE  s \in Migration /\ UpgradeRight(s, revision) /\ s.at = r.at /\ s.from = r.from
<1> USE DEF CreationDue, AfterCreation
<1> DEFINE n == r.at + 1
           k == r.done + 1
           c == Creations[n][k]
           new == r.names \cup ({c.table} \cup c.types)
<1>1. n \in 1 .. Latest /\ r.at < Latest /\ k \in Nat /\ r.done \in Nat
  BY MigrationTyped
<1>2. k \in 1 .. Len(Creations[n]) /\ c.table \in Tables /\ c.types \subseteq Types
  BY <1>1, ScriptsTyped
<1>3. new \subseteq Names
  BY <1>2, MigrationTyped DEF Names
<1>4. new \cap Tables = (r.names \cap Tables) \cup {c.table}
  BY <1>2, SchemaAssumption
<1>5. Created(n, k) = Created(n, r.done) \cup {c.table}
  <2>1. \A j : j \in 1 .. k <=> j \in 1 .. r.done \/ j = k
    BY <1>1
  <2> QED
    BY <2>1 DEF Created
<1>6. s = [r EXCEPT !.done = k, !.names = new]
  OBVIOUS
<1>7. k <= Len(Creations[r.at + 1])
  BY <1>2, <1>1, ScriptsTyped
<1> HIDE DEF new, k, c
<1>8. /\ s \in Migration /\ s.done = k /\ s.names = new /\ s.at = r.at /\ s.from = r.from
  BY <1>1, <1>3, <1>6 DEF Migration
<1>9. s.names \cap Tables = (TablesAt(s.at) \ TablesAt(s.from)) \cup Created(s.at + 1, s.done)
  BY <1>4, <1>5, <1>8 DEF UpgradeRight
<1> QED
  BY <1>1, <1>7, <1>8, <1>9, MigrationTyped DEF UpgradeRight

LEMMA UpgradeStamp ==
  ASSUME NEW r \in Migration, NEW revision, UpgradeRight(r, revision),
         r.at # Latest, ~(r.done < Len(Creations[r.at + 1])),
         r.at # r.from \/ revision = r.from,
         NEW s, s = [r EXCEPT !.at = @ + 1, !.done = 0]
  PROVE  s \in Migration /\ UpgradeRight(s, revision) /\ revision = s.from
<1> DEFINE n == r.at + 1
<1>1. /\ n \in 1 .. Latest /\ n \in 0 .. Latest /\ r.at \in 0 .. Latest - 1 /\ r.from \in 0 .. Latest
      /\ Latest \in Nat /\ r.from <= r.at /\ r.from < n
  BY MigrationTyped DEF UpgradeRight
<1>2. s \in Migration /\ s.at = n /\ s.done = 0 /\ s.from = r.from /\ s.names = r.names
  BY <1>1 DEF Migration
<1>3. r.done = Len(Creations[n])
  BY <1>1, MigrationTyped, ScriptsTyped DEF UpgradeRight
<1>4. Created(n, r.done) = TablesOf(n)
  BY <1>1, <1>3, WholeScript DEF Created
<1>5. r.names \cap Tables = (TablesAt(r.at) \ TablesAt(r.from)) \cup TablesOf(n)
  BY <1>4 DEF UpgradeRight
<1>6. TablesAt(n) = TablesAt(r.at) \cup TablesOf(n) /\ TablesOf(n) \cap TablesAt(r.from) = {}
  BY <1>1, TablesStep
<1>7. s.names \cap Tables = (TablesAt(s.at) \ TablesAt(s.from)) \cup Created(s.at + 1, s.done)
  <2>1. Created(s.at + 1, s.done) = {}
    BY <1>2 DEF Created
  <2>2. s.names \cap Tables = TablesAt(n) \ TablesAt(r.from)
    BY <1>2, <1>5, <1>6
  <2> QED
    BY <1>2, <2>1, <2>2
<1>8. s.at < Latest => s.done <= Len(Creations[s.at + 1])
  <2>1. n < Latest => n + 1 \in 1 .. Latest /\ Len(Creations[n + 1]) \in Nat
    BY <1>1, ScriptsTyped
  <2> QED
    BY <1>2, <2>1
<1>9. revision = s.from
  BY <1>2 DEF UpgradeRight
<1>10. s.from <= s.at /\ s.from < Latest /\ s.done = 0
  BY <1>1, <1>2
<1> HIDE DEF n
<1> QED
  BY <1>2, <1>7, <1>8, <1>9, <1>10 DEF UpgradeRight

LEMMA DowngradeStatement ==
  ASSUME NEW r \in Migration, NEW to, NEW revision, DowngradeRight(r, to, revision),
         DropDue(r, to), NEW s, s = AfterDrop(r)
  PROVE  s \in Migration /\ DowngradeRight(s, to, revision) /\ s.at = r.at /\ s.from = r.from
<1> USE DEF DropDue, AfterDrop
<1> DEFINE n == r.at
           k == r.done + 1
           new == r.names \cup {Drops[n][k]}
<1>1. n \in 1 .. Latest /\ n > to /\ k \in Nat /\ r.done \in Nat
  BY MigrationTyped DEF DowngradeRight
<1>2. k \in 1 .. Len(Drops[n]) /\ Drops[n] \in Seq(Tables) /\ Len(Drops[n]) \in Nat
  BY <1>1, ScriptsTyped
<1>3. Drops[n][k] \in Tables
  BY <1>2
<1>4. new \subseteq Names /\ new \cap Tables = (r.names \cap Tables) \cup {Drops[n][k]}
  BY <1>3, MigrationTyped DEF Names
<1>5. Removed(n, k) = Removed(n, r.done) \cup {Drops[n][k]}
  <2>1. \A j : j \in 1 .. k <=> j \in 1 .. r.done \/ j = k
    BY <1>1
  <2> QED
    BY <2>1 DEF Removed
<1>6. s = [r EXCEPT !.done = k, !.names = new]
  OBVIOUS
<1>7. k <= Len(Drops[r.at])
  BY <1>2
<1> HIDE DEF new, k
<1>8. /\ s \in Migration /\ s.done = k /\ s.names = new /\ s.at = r.at /\ s.from = r.from
  BY <1>1, <1>4, <1>6 DEF Migration
<1>9. s.names \cap Tables = (TablesAt(s.from) \ TablesAt(s.at)) \cup Removed(s.at, s.done)
  BY <1>4, <1>5, <1>8 DEF DowngradeRight
<1> QED
  BY <1>1, <1>7, <1>8, <1>9, MigrationTyped DEF DowngradeRight

LEMMA DowngradeStamp ==
  ASSUME NEW r \in Migration, NEW to \in 0 .. Latest, NEW revision, DowngradeRight(r, to, revision),
         r.at # to, ~(r.done < Len(Drops[r.at])),
         r.at # r.from \/ revision = r.from,
         NEW s, s = [r EXCEPT !.at = @ - 1, !.done = 0]
  PROVE  s \in Migration /\ DowngradeRight(s, to, revision) /\ revision = s.from
<1> DEFINE n == r.at - 1
<1>1. /\ r.at \in 1 .. Latest /\ n \in 0 .. Latest - 1 /\ n \in 0 .. Latest /\ r.from \in 0 .. Latest
      /\ Latest \in Nat /\ r.at <= r.from /\ n < r.from /\ to <= n /\ r.at = n + 1 /\ r.at > to
      /\ n + 1 \in 0 .. Latest
  BY MigrationTyped DEF DowngradeRight
<1>2. s \in Migration /\ s.at = n /\ s.done = 0 /\ s.from = r.from /\ s.names = r.names
  BY <1>1 DEF Migration
<1>3. r.done = Len(Drops[r.at])
  BY <1>1, MigrationTyped, ScriptsTyped DEF DowngradeRight
<1>4. Removed(r.at, r.done) = TablesOf(r.at)
  BY <1>1, <1>3, WholeScript DEF Removed
<1>5. r.names \cap Tables = (TablesAt(r.from) \ TablesAt(r.at)) \cup TablesOf(r.at)
  BY <1>4 DEF DowngradeRight
<1>6. TablesAt(r.at) = TablesAt(n) \cup TablesOf(r.at) /\ TablesOf(r.at) \cap TablesAt(n) = {}
  BY <1>1, TablesStep
<1>7. TablesAt(r.at) \subseteq TablesAt(r.from)
  BY <1>1, TablesGrow
<1>8. s.names \cap Tables = (TablesAt(s.from) \ TablesAt(s.at)) \cup Removed(s.at, s.done)
  <2>1. Removed(s.at, s.done) = {}
    BY <1>2 DEF Removed
  <2>2. s.names \cap Tables = TablesAt(r.from) \ TablesAt(n)
    BY <1>2, <1>5, <1>6, <1>7
  <2> QED
    BY <1>2, <2>1, <2>2
<1>9. s.at > to => s.done <= Len(Drops[s.at])
  <2>1. n > to => n \in 1 .. Latest /\ Len(Drops[n]) \in Nat
    BY <1>1, ScriptsTyped
  <2> QED
    BY <1>2, <2>1
<1>10. revision = s.from
  BY <1>2 DEF DowngradeRight
<1>11. to <= s.at /\ s.at <= s.from /\ to < s.from /\ s.done = 0
  BY <1>1, <1>2
<1> HIDE DEF n
<1> QED
  BY <1>2, <1>8, <1>9, <1>10, <1>11 DEF DowngradeRight

\* What a finished run leaves when it commits.
LEMMA Outcome ==
  ASSUME NEW r \in Migration, NEW revision, NEW names, names \cap Tables = TablesAt(revision),
         revision \in 0 .. Latest
  PROVE  /\ UpgradeRight(r, revision) /\ r.at = Latest =>
              revision = r.from /\ (names \cup r.names) \cap Tables = TablesAt(r.at)
         /\ \A to \in 0 .. Latest : DowngradeRight(r, to, revision) /\ r.at = to =>
              revision = r.from /\ (names \ r.names) \cap Tables = TablesAt(r.at)
<1>1. \A m : Created(m, 0) = {} /\ Removed(m, 0) = {}
  BY DEF Created, Removed
<1>2. ASSUME UpgradeRight(r, revision), r.at = Latest
      PROVE  revision = r.from /\ (names \cup r.names) \cap Tables = TablesAt(r.at)
  <2>1. revision = r.from /\ r.names \cap Tables = TablesAt(r.at) \ TablesAt(r.from)
    BY <1>1, <1>2, MigrationTyped DEF UpgradeRight
  <2>2. TablesAt(r.from) \subseteq TablesAt(r.at)
    BY <1>2, MigrationTyped, TablesGrow DEF UpgradeRight
  <2> QED
    BY <2>1, <2>2
<1>3. ASSUME NEW to \in 0 .. Latest, DowngradeRight(r, to, revision), r.at = to
      PROVE  revision = r.from /\ (names \ r.names) \cap Tables = TablesAt(r.at)
  <2>1. revision = r.from /\ r.names \cap Tables = TablesAt(r.from) \ TablesAt(r.at)
    BY <1>1, <1>3, MigrationTyped DEF DowngradeRight
  <2>2. TablesAt(r.at) \subseteq TablesAt(r.from)
    BY <1>3, MigrationTyped, TablesGrow DEF DowngradeRight
  <2> QED
    BY <2>1, <2>2
<1> QED
  BY <1>2, <1>3

-----------------------------------------------------------------------------
(* The invariant.                                                          *)

\* Every advertised account signs in with its role, no retired one does.
LoginsRight(accounts) ==
  /\ \A a \in Login : accounts[a].email = "demo" /\ accounts[a].usable /\ accounts[a].branch
                      /\ accounts[a].own > 0 /\ ~accounts[a].other
  /\ \A a \in Retired : ~accounts[a].usable

Simple == {"down", "wipe", "seed", "permissions", "serving", "over"}
AtHead == {"seed", "permissions", "claim", "provision", "history", "reconcile", "serving"}

\* What a process may rely on, given the revision, how often operators have
\* interfered, and the accounts.  Retired accounts only ever lose their access,
\* so one that was found without it has none.
ProcRight(u, revision, interfered, accounts) ==
  /\ u.pc = "upgrade" => UpgradeRight(u.run, revision)
  /\ u.pc = "downgrade" => DowngradeRight(u.run, u.to, revision)
  /\ interfered = 0 => /\ u.pc \notin {"downgrade", "wipe"}
                       /\ u.pc \in AtHead => revision = Latest
                       /\ u.pc \in {"history", "serving"} => LoginsRight(accounts)
  /\ u.pc = "reconcile" => \A a \in Retired : accounts[a].usable => u.seen[a].usable

StampedBy(u) == u.pc \in {"upgrade", "downgrade"} /\ u.run.at # u.run.from

\* The row of alembic_version is written by one transaction at a time.
OneStamps == \A p, q \in Process : p # q => ~(StampedBy(proc[p]) /\ StampedBy(proc[q]))

StartupInv ==
  /\ StartupTypeOK /\ SchemaIsRevision /\ OneStamps
  /\ \A p \in Process : ProcRight(proc[p], schema.revision, orders, logins)

LEMMA SimpleProc ==
  ASSUME NEW pc \in Simple
  PROVE  [pc |-> pc] \in Processes
BY DEF Simple, Processes

LEMMA Granted ==
  ASSUME NEW a \in Accounts, NEW b,
         b = [a EXCEPT !.email = "demo", !.usable = TRUE, !.own = 1, !.branch = TRUE]
  PROVE  b = [email |-> "demo", usable |-> TRUE, own |-> 1, other |-> a.other, branch |-> TRUE,
              version |-> a.version]
BY DEF Accounts

LEMMA AbsentTyped ==
  /\ Absent \in Accounts /\ ~Absent.usable
  /\ Advertised \in Accounts
  /\ Advertised.email = "demo" /\ Advertised.usable /\ Advertised.branch /\ Advertised.own = 1
  /\ ~Advertised.other
<1>1. Absent \in Accounts /\ ~Absent.usable /\ ~Absent.other /\ Absent.other \in BOOLEAN
      /\ Absent.version \in Nat
  BY DEF Absent, Accounts
<1>2. Advertised = [email |-> "demo", usable |-> TRUE, own |-> 1, other |-> Absent.other,
                    branch |-> TRUE, version |-> Absent.version]
  BY <1>1, Granted DEF Advertised
<1>3. Advertised \in Accounts
  BY <1>1, <1>2 DEF Accounts
<1> QED
  BY <1>1, <1>2, <1>3

LEMMA InitInv == StartupInit => StartupInv
<1> SUFFICES ASSUME StartupInit PROVE StartupInv
  OBVIOUS
<1>1. PICK n \in 0 .. Latest : schema = [names |-> TablesAt(n) \cup TypesAt(n), revision |-> n]
  BY DEF StartupInit
<1>2. TablesAt(n) \subseteq Tables
  BY TablesSum
<1>3. TypesAt(n) \subseteq Types
  BY SchemaAssumption DEF TypesAt, Types, Statements
<1>4. schema \in [names : SUBSET Names, revision : 0 .. Latest]
  BY <1>1, <1>2, <1>3 DEF Names
<1>5. SchemaIsRevision
  BY <1>1, <1>2, <1>3, SchemaAssumption DEF SchemaIsRevision
<1>6. \A p \in Process : proc[p] = [pc |-> "down"]
  BY DEF StartupInit, Off
<1>7. proc \in [Process -> Processes]
  BY SimpleProc DEF StartupInit, Off, Simple
<1>8. logins \in [Login \cup Retired -> Accounts]
  BY AbsentTyped, StartupAssumption DEF StartupInit
<1>9. founded \in Nat /\ orgs \subseteq [id : 1 .. founded, parts : 1 .. Parts]
  BY StartupAssumption DEF StartupInit
<1>10. StartupTypeOK
  BY <1>4, <1>7, <1>8, <1>9, StartupAssumption DEF StartupInit, StartupTypeOK
<1>11. OneStamps
  BY <1>6 DEF OneStamps, StampedBy
<1>12. \A p \in Process : ProcRight(proc[p], schema.revision, orders, logins)
  BY <1>6 DEF ProcRight, AtHead
<1> QED
  BY <1>5, <1>10, <1>11, <1>12 DEF StartupInv

-----------------------------------------------------------------------------
(* Steps in general.                                                       *)

\* One process goes on to u; neither the schema nor the demo changes.
LEMMA QuietStep ==
  ASSUME StartupInv, NEW p \in Process, NEW u \in Processes, To(p, u),
         UNCHANGED schema, UNCHANGED Demo,
         orders' \in 0 .. MaxOrders, orders' \in {orders, orders + 1}, crashes' \in 0 .. MaxCrashes,
         ProcRight(u, schema.revision, orders', logins),
         StampedBy(u) => \A q \in Process \ {p} : ~StampedBy(proc[q])
  PROVE  StartupInv'
<1>1. UNCHANGED <<orgs, founded, permissions, logins>>
  BY DEF Demo
<1>2. orders' = 0 => orders = 0
  BY DEF StartupInv, StartupTypeOK
<1>3. proc' \in [Process -> Processes] /\ proc'[p] = u /\ \A q \in Process : q # p => proc'[q] = proc[q]
  BY DEF StartupInv, StartupTypeOK, To
<1>4. StartupTypeOK'
  BY <1>1, <1>3 DEF StartupInv, StartupTypeOK
<1>5. SchemaIsRevision'
  BY DEF StartupInv, SchemaIsRevision
<1>6. OneStamps'
  BY <1>3 DEF StartupInv, OneStamps
<1>7. \A q \in Process : ProcRight(proc[q], schema.revision, orders', logins)
  BY <1>2 DEF StartupInv, ProcRight
<1>8. \A q \in Process : ProcRight(proc'[q], schema'.revision, orders', logins')
  BY <1>1, <1>3, <1>7
<1> QED
  BY <1>4, <1>5, <1>6, <1>8 DEF StartupInv

\* A process that migrates.
LEMMA RunTyped ==
  ASSUME StartupInv, NEW p \in Process, Migrating(p)
  PROVE  /\ Run(p) \in Migration
         /\ proc[p].pc = "upgrade" => proc[p] = [pc |-> "upgrade", run |-> Run(p)]
                                      /\ UpgradeRight(Run(p), schema.revision)
         /\ proc[p].pc = "downgrade" =>
              /\ proc[p] = [pc |-> "downgrade", run |-> Run(p), to |-> proc[p].to]
              /\ proc[p].to \in 0 .. Latest /\ DowngradeRight(Run(p), proc[p].to, schema.revision)
         /\ proc[p].pc \in {"upgrade", "downgrade"}
<1>1. proc[p] \in Processes /\ ProcRight(proc[p], schema.revision, orders, logins)
  BY DEF StartupInv, StartupTypeOK
<1>2. proc[p] \in [pc : {"upgrade"}, run : Migration]
        \/ proc[p] \in [pc : {"downgrade"}, run : Migration, to : 0 .. Latest]
  <2>1. proc[p].pc \in {"upgrade", "downgrade"}
    BY DEF Migrating
  <2> QED
    BY <1>1, <2>1 DEF Processes
<1>3. CASE proc[p] \in [pc : {"upgrade"}, run : Migration]
  BY <1>1, <1>3 DEF ProcRight, Run
<1>4. CASE proc[p] \in [pc : {"downgrade"}, run : Migration, to : 0 .. Latest]
  BY <1>1, <1>4 DEF ProcRight, Run
<1> QED
  BY <1>2, <1>3, <1>4

LEMMA UpgradeProc ==
  ASSUME NEW r \in Migration
  PROVE  [pc |-> "upgrade", run |-> r] \in Processes
BY DEF Processes

LEMMA DowngradeProc ==
  ASSUME NEW r \in Migration, NEW to \in 0 .. Latest
  PROVE  [pc |-> "downgrade", run |-> r, to |-> to] \in Processes
BY DEF Processes

\* Ends, errors and crashes: whoever is down or over relies on nothing.
LEMMA StepEnd ==
  ASSUME StartupInv, NEW p \in Process, NEW pc \in {"down", "over"}, Go(p, pc),
         UNCHANGED schema, UNCHANGED Demo, UNCHANGED orders, crashes' \in 0 .. MaxCrashes
  PROVE  StartupInv'
<1> DEFINE u == [pc |-> pc]
<1>1. u \in Processes /\ u.pc = pc /\ To(p, u)
  BY SimpleProc DEF Simple, Go
<1>2. orders' \in 0 .. MaxOrders
  BY DEF StartupInv, StartupTypeOK
<1> HIDE DEF u
<1>3. ProcRight(u, schema.revision, orders', logins) /\ ~StampedBy(u)
  BY <1>1 DEF ProcRight, StampedBy, AtHead
<1> QED
  BY <1>1, <1>2, <1>3, QuietStep

\* Steps that change only the process, and neither rely on a run nor on accounts.
LEMMA StepOnward ==
  ASSUME StartupInv, NEW p \in Process, NEW u \in Processes, To(p, u),
         UNCHANGED <<schema, Demo, Counts>>,
         u.pc \in {"permissions", "claim", "provision", "seed"},
         orders = 0 => schema.revision = Latest
  PROVE  StartupInv'
<1>1. ProcRight(u, schema.revision, orders, logins) /\ ~StampedBy(u)
  BY DEF ProcRight, StampedBy
<1>2. orders \in 0 .. MaxOrders /\ crashes \in 0 .. MaxCrashes
  BY DEF StartupInv, StartupTypeOK
<1> QED
  BY <1>1, <1>2, QuietStep DEF Counts

-----------------------------------------------------------------------------
(* alembic.                                                                *)

LEMMA StepBoot ==
  ASSUME StartupInv, NEW c \in Container, Boot(c)
  PROVE  StartupInv'
<1>1. c \in Process /\ schema.revision \in 0 .. Latest /\ Latest \in Nat
  BY SchemaAssumption DEF Process, StartupInv, StartupTypeOK
<1>2. CASE schema.revision = Latest
  <2> DEFINE u == [pc |-> "seed"]
  <2>1. To(c, u) /\ u \in Processes /\ u.pc = "seed"
    BY <1>2, SimpleProc DEF Boot, Simple
  <2> HIDE DEF u
  <2> QED
    BY <1>1, <1>2, <2>1, StepOnward DEF Boot
<1>3. CASE schema.revision # Latest
  <2> DEFINE r == Start(schema.revision)
             u == [pc |-> "upgrade", run |-> r]
  <2>1. To(c, u)
    BY <1>3 DEF Boot
  <2>2. r \in Migration /\ r.at = r.from /\ UpgradeRight(r, schema.revision)
    BY <1>1, <1>3, StartRight
  <2>3. u \in Processes
    BY <2>2, UpgradeProc
  <2>4. ProcRight(u, schema.revision, orders, logins) /\ ~StampedBy(u)
    BY <2>2 DEF ProcRight, AtHead, StampedBy
  <2>5. orders \in 0 .. MaxOrders /\ crashes \in 0 .. MaxCrashes
    BY DEF StartupInv, StartupTypeOK
  <2>6. UNCHANGED <<schema, Demo, orders, crashes>>
    BY DEF Boot, Counts
  <2> HIDE DEF u
  <2> QED
    BY <1>1, <2>1, <2>3, <2>4, <2>5, <2>6, QuietStep
<1> QED
  BY <1>2, <1>3

LEMMA StepBeginDowngrade ==
  ASSUME StartupInv, NEW p \in Process, BeginDowngrade(p)
  PROVE  StartupInv'
<1>1. /\ schema.revision \in 0 .. Latest /\ Latest \in Nat /\ orders \in 0 .. MaxOrders
      /\ crashes \in 0 .. MaxCrashes /\ MaxOrders \in Nat
  BY SchemaAssumption, StartupAssumption DEF StartupInv, StartupTypeOK
<1>2. orders' = orders + 1 /\ orders' \in 0 .. MaxOrders /\ orders' # 0
      /\ UNCHANGED <<schema, Demo, crashes>>
  BY <1>1 DEF BeginDowngrade
<1> DEFINE r == Start(schema.revision)
<1>3. PICK n \in {0, schema.revision - 1} : To(p, [pc |-> "downgrade", run |-> r, to |-> n])
  BY DEF BeginDowngrade
<1>4. n \in 0 .. Latest /\ n < schema.revision
  BY <1>1, <1>3 DEF BeginDowngrade
<1>5. r \in Migration /\ r.at = r.from /\ DowngradeRight(r, n, schema.revision)
  BY <1>1, <1>4, StartRight
<1> DEFINE u == [pc |-> "downgrade", run |-> r, to |-> n]
<1>6. u \in Processes
  BY <1>4, <1>5, DowngradeProc
<1>7. ProcRight(u, schema.revision, orders', logins) /\ ~StampedBy(u)
  BY <1>2, <1>5 DEF ProcRight, StampedBy
<1>8. To(p, u)
  BY <1>3
<1> HIDE DEF u
<1> QED
  BY <1>1, <1>2, <1>6, <1>7, <1>8, QuietStep

\* A step of a run to r, which is stamped only if nobody else's is.
LEMMA StepRun ==
  ASSUME StartupInv, NEW p \in Process, Migrating(p), NEW r \in Migration,
         proc' = [proc EXCEPT ![p].run = r], UNCHANGED <<schema, Demo, Counts>>,
         proc[p].pc = "upgrade" => UpgradeRight(r, schema.revision),
         proc[p].pc = "downgrade" => DowngradeRight(r, proc[p].to, schema.revision),
         r.at # r.from => \A q \in Process \ {p} : ~StampedBy(proc[q])
  PROVE  StartupInv'
<1>1. /\ orders \in 0 .. MaxOrders /\ crashes \in 0 .. MaxCrashes /\ UNCHANGED <<orders, crashes>>
      /\ UNCHANGED schema /\ UNCHANGED Demo
      /\ proc \in [Process -> Processes] /\ ProcRight(proc[p], schema.revision, orders, logins)
  BY DEF StartupInv, StartupTypeOK, Counts
<1>2. CASE proc[p].pc = "upgrade"
  <2> DEFINE u == [pc |-> "upgrade", run |-> r]
  <2>1. proc[p] = [pc |-> "upgrade", run |-> Run(p)]
    BY <1>2, RunTyped
  <2>2. To(p, u)
    <3>1. proc' = [proc EXCEPT ![p] = [proc[p] EXCEPT !.run = r]]
      BY <1>1
    <3>2. [proc[p] EXCEPT !.run = r] = u
      BY <2>1
    <3> QED
      BY <3>1, <3>2 DEF To
  <2>3. u \in Processes
    BY UpgradeProc
  <2>4. ProcRight(u, schema.revision, orders, logins)
    BY <1>2 DEF ProcRight, AtHead
  <2>5. StampedBy(u) => \A q \in Process \ {p} : ~StampedBy(proc[q])
    BY DEF StampedBy
  <2> HIDE DEF u
  <2> QED
    BY <1>1, <2>2, <2>3, <2>4, <2>5, QuietStep
<1>3. CASE proc[p].pc = "downgrade"
  <2> DEFINE to == proc[p].to
             u == [pc |-> "downgrade", run |-> r, to |-> to]
  <2>1. proc[p] = [pc |-> "downgrade", run |-> Run(p), to |-> to] /\ to \in 0 .. Latest
    BY <1>3, RunTyped
  <2> HIDE DEF to
  <2>2. To(p, u)
    <3>1. proc' = [proc EXCEPT ![p] = [proc[p] EXCEPT !.run = r]]
      BY <1>1
    <3>2. [proc[p] EXCEPT !.run = r] = u
      BY <2>1
    <3> QED
      BY <3>1, <3>2 DEF To
  <2>3. u \in Processes
    BY <2>1, DowngradeProc
  <2>4. ProcRight(u, schema.revision, orders, logins)
    BY <1>1, <1>3 DEF ProcRight, AtHead, to
  <2>5. StampedBy(u) => \A q \in Process \ {p} : ~StampedBy(proc[q])
    BY DEF StampedBy
  <2> HIDE DEF u
  <2> QED
    BY <1>1, <2>2, <2>3, <2>4, <2>5, QuietStep
<1> QED
  BY <1>2, <1>3, RunTyped

LEMMA StepRunStatement ==
  ASSUME StartupInv, NEW p \in Process, RunStatement(p)
  PROVE  StartupInv'
<1> DEFINE r == Stated(p)
<1>1. /\ Migrating(p) /\ Busy(p) /\ proc' = [proc EXCEPT ![p].run = r]
      /\ UNCHANGED <<schema, Demo, Counts>>
  BY DEF RunStatement
<1>2. Run(p) \in Migration /\ proc[p].pc \in {"upgrade", "downgrade"}
  BY <1>1, RunTyped
<1>3. CASE proc[p].pc = "upgrade"
  <2>1. Run(p).at # Latest /\ Run(p).done < Len(Creations[Run(p).at + 1])
    BY <1>1, <1>3 DEF Busy, Finished, Script
  <2>2. r = [Run(p) EXCEPT !.done = @ + 1,
              !.names = @ \cup ({Creations[Run(p).at + 1][Run(p).done + 1].table}
                                  \cup Creations[Run(p).at + 1][Run(p).done + 1].types)]
    BY <1>3 DEF Stated, Creation, Script
  <2> HIDE DEF r
  <2>3. r \in Migration /\ UpgradeRight(r, schema.revision) /\ r.at = Run(p).at /\ r.from = Run(p).from
    <3> DEFINE old == Run(p)
    <3>1. old \in Migration /\ CreationDue(old) /\ r = AfterCreation(old)
      BY <1>2, <2>1, <2>2 DEF CreationDue, AfterCreation
    <3>2. UpgradeRight(old, schema.revision)
      BY <1>1, <1>3, RunTyped
    <3> HIDE DEF old
    <3>3. r \in Migration /\ UpgradeRight(r, schema.revision) /\ r.at = old.at /\ r.from = old.from
      BY ONLY <3>1, <3>2, UpgradeStatement, Zenon
    <3> QED
      BY <3>3 DEF old
  <2>4. r.at # r.from => \A q \in Process \ {p} : ~StampedBy(proc[q])
    BY <1>2, <2>3 DEF StartupInv, OneStamps, StampedBy, Run
  <2> QED
    BY <1>1, <1>3, <2>3, <2>4, StepRun
<1>4. CASE proc[p].pc = "downgrade"
  <2>1. Run(p).at # proc[p].to /\ Run(p).done < Len(Drops[Run(p).at])
    BY <1>1, <1>4 DEF Busy, Finished, Script
  <2> DEFINE to == proc[p].to
  <2>2. to \in 0 .. Latest /\ DowngradeRight(Run(p), to, schema.revision)
    BY <1>1, <1>4, RunTyped
  <2>3. /\ r \in Migration /\ DowngradeRight(r, to, schema.revision)
        /\ r.at = Run(p).at /\ r.from = Run(p).from
    <3>1. r = [Run(p) EXCEPT !.done = @ + 1, !.names = @ \cup {Drops[Run(p).at][Run(p).done + 1]}]
      BY <1>4 DEF Stated, Dropped, Script
    <3>2. Run(p).at # to
      BY <2>1
    <3> DEFINE old == Run(p)
    <3>3. old \in Migration /\ DropDue(old, to) /\ r = AfterDrop(old)
      BY <1>2, <2>1, <2>2, <3>1, <3>2 DEF DropDue, AfterDrop
    <3>4. DowngradeRight(old, to, schema.revision)
      BY <2>2
    <3> HIDE DEF r, to, old
    <3>5. /\ r \in Migration /\ DowngradeRight(r, to, schema.revision)
          /\ r.at = old.at /\ r.from = old.from
      BY ONLY <3>3, <3>4, DowngradeStatement, Zenon
    <3> QED
      BY <3>5 DEF old
  <2> HIDE DEF r
  <2>4. r.at # r.from => \A q \in Process \ {p} : ~StampedBy(proc[q])
    BY <1>2, <2>3 DEF StartupInv, OneStamps, StampedBy, Run
  <2> QED
    BY <1>1, <1>4, <2>3, <2>4, StepRun
<1> QED
  BY <1>2, <1>3, <1>4

LEMMA StepStamp ==
  ASSUME StartupInv, NEW p \in Process, Stamp(p)
  PROVE  StartupInv'
<1>1. /\ Migrating(p) /\ ~Finished(p) /\ ~Busy(p) /\ ~VersionHeld(p) /\ Moved(p)
      /\ UNCHANGED <<schema, Demo, Counts>>
  BY DEF Stamp
<1>2. Run(p) \in Migration /\ proc[p].pc \in {"upgrade", "downgrade"}
  BY <1>1, RunTyped
<1>3. \A q \in Process \ {p} : ~StampedBy(proc[q])
  BY <1>1 DEF VersionHeld, Others, Migrating, Stamped, StampedBy, Run
<1>4. Run(p).at # Run(p).from \/ schema.revision = Run(p).from
  BY <1>1 DEF Moved, Stamped
<1>5. CASE proc[p].pc = "upgrade"
  <2> DEFINE r == [Run(p) EXCEPT !.at = @ + 1, !.done = 0]
  <2>1. Run(p).at # Latest /\ ~(Run(p).done < Len(Creations[Run(p).at + 1]))
    BY <1>1, <1>5 DEF Busy, Finished, Script
  <2>2. proc' = [proc EXCEPT ![p].run = r]
    BY <1>5 DEF Stamp, Run, StartupInv, StartupTypeOK
  <2>3. \A s : s = r => s \in Migration /\ UpgradeRight(s, schema.revision)
    BY <1>1, <1>2, <1>4, <1>5, <2>1, RunTyped, UpgradeStamp
  <2>4. r \in Migration /\ UpgradeRight(r, schema.revision)
    BY <2>3
  <2> HIDE DEF r
  <2> QED
    BY <1>1, <1>3, <1>5, <2>2, <2>4, StepRun
<1>6. CASE proc[p].pc = "downgrade"
  <2> DEFINE r == [Run(p) EXCEPT !.at = @ - 1, !.done = 0]
             to == proc[p].to
  <2>1. Run(p).at # to /\ ~(Run(p).done < Len(Drops[Run(p).at]))
    BY <1>1, <1>6 DEF Busy, Finished, Script
  <2>2. proc' = [proc EXCEPT ![p].run = r]
    BY <1>6 DEF Stamp, Run, StartupInv, StartupTypeOK
  <2>3. to \in 0 .. Latest /\ DowngradeRight(Run(p), to, schema.revision)
    BY <1>1, <1>6, RunTyped
  <2>4. \A s : s = r => s \in Migration /\ DowngradeRight(s, to, schema.revision)
    BY <1>1, <1>2, <1>4, <1>6, <2>1, <2>3, DowngradeStamp
  <2>5. r \in Migration /\ DowngradeRight(r, proc[p].to, schema.revision)
    BY <2>4
  <2> HIDE DEF r
  <2> QED
    BY <1>1, <1>3, <1>6, <2>2, <2>5, StepRun
<1> QED
  BY <1>2, <1>5, <1>6

LEMMA StepCommitMigration ==
  ASSUME StartupInv, NEW p \in Process, CommitMigration(p)
  PROVE  StartupInv'
<1> DEFINE r == Run(p)
           pc == IF proc[p].pc = "upgrade" THEN "seed" ELSE "over"
           u == [pc |-> pc]
<1>1. /\ Migrating(p) /\ Finished(p) /\ schema' = [names |-> View(p), revision |-> r.at]
      /\ To(p, u) /\ UNCHANGED <<orgs, founded, permissions, logins, crashes, orders>>
  BY DEF CommitMigration, Go, Demo, Counts
<1>2. r \in Migration /\ proc[p].pc \in {"upgrade", "downgrade"} /\ Latest \in Nat
  BY <1>1, RunTyped, SchemaAssumption
<1>3. schema.names \subseteq Names /\ schema.revision \in 0 .. Latest
      /\ schema.names \cap Tables = TablesAt(schema.revision)
  BY DEF StartupInv, StartupTypeOK, SchemaIsRevision
<1>4. /\ StampedBy(proc[p]) /\ View(p) \cap Tables = TablesAt(r.at)
      /\ View(p) \subseteq Names /\ r.at \in 0 .. Latest
  <2>1. r.at \in 0 .. Latest /\ r.names \subseteq Names
    BY <1>2, MigrationTyped
  <2>2. CASE proc[p].pc = "upgrade"
    <3>1. r.at = Latest /\ UpgradeRight(r, schema.revision) /\ View(p) = schema.names \cup r.names
      BY <1>1, <2>2, RunTyped DEF Finished, View
    <3>2. r.at # r.from
      BY <1>2, <3>1, MigrationTyped DEF UpgradeRight
    <3>3. View(p) \cap Tables = TablesAt(r.at)
      BY <1>2, <1>3, <3>1, Outcome
    <3> QED
      BY <1>3, <2>1, <2>2, <3>1, <3>2, <3>3 DEF StampedBy, Run
  <2>3. CASE proc[p].pc = "downgrade"
    <3> DEFINE to == proc[p].to
    <3>1. to \in 0 .. Latest /\ r.at = to /\ DowngradeRight(r, to, schema.revision)
          /\ View(p) = schema.names \ r.names
      BY <1>1, <2>3, RunTyped DEF Finished, View
    <3>2. r.at # r.from
      BY <1>2, <3>1, MigrationTyped DEF DowngradeRight
    <3> HIDE DEF to
    <3>3. View(p) \cap Tables = TablesAt(r.at)
      BY <1>2, <1>3, <3>1, Outcome
    <3> QED
      BY <1>3, <2>1, <2>3, <3>1, <3>2, <3>3 DEF StampedBy, Run
  <2> QED
    BY <1>2, <2>2, <2>3
<1>5. pc \in Simple /\ (pc = "seed" <=> proc[p].pc = "upgrade") /\ pc \in {"seed", "over"}
  BY DEF Simple
<1>6. orders = 0 => proc[p].pc = "upgrade" /\ r.at = Latest
  BY <1>1, <1>2 DEF StartupInv, ProcRight, Finished
<1> HIDE DEF pc
<1>7. u \in Processes /\ u.pc = pc
  BY <1>5, SimpleProc
<1> HIDE DEF u, r
<1>8. proc' \in [Process -> Processes] /\ proc'[p] = u /\ \A q \in Process : q # p => proc'[q] = proc[q]
  BY <1>1, <1>7 DEF StartupInv, StartupTypeOK, To
<1>9. StartupTypeOK'
  BY <1>1, <1>4, <1>8 DEF StartupInv, StartupTypeOK
<1>10. SchemaIsRevision'
  BY <1>1, <1>4 DEF SchemaIsRevision
<1>11. OneStamps'
  BY <1>5, <1>7, <1>8 DEF StartupInv, OneStamps, StampedBy
<1>12. ASSUME NEW q \in Process PROVE ProcRight(proc'[q], r.at, orders, logins)
  <2>1. CASE q = p
    BY <1>5, <1>6, <1>7, <1>8, <2>1 DEF ProcRight
  <2>2. CASE q # p
    <3>1. ~StampedBy(proc[q]) /\ proc'[q] = proc[q] /\ ProcRight(proc[q], schema.revision, orders, logins)
      BY <1>4, <1>8, <2>2 DEF StartupInv, OneStamps
    <3>2. proc[q].pc \in {"upgrade", "downgrade"} => proc[q].run.at = proc[q].run.from
      BY <3>1 DEF StampedBy
    <3> QED
      BY <1>6, <3>1, <3>2 DEF ProcRight, UpgradeRight, DowngradeRight
  <2> QED
    BY <2>1, <2>2
<1>13. \A q \in Process : ProcRight(proc'[q], schema'.revision, orders', logins')
  BY <1>1, <1>12
<1> QED
  BY <1>9, <1>10, <1>11, <1>13 DEF StartupInv

LEMMA StepFailMigration ==
  ASSUME StartupInv, NEW p \in Process, FailMigration(p)
  PROVE  StartupInv'
<1>1. AfterError(p) \in {"down", "over"} /\ crashes \in 0 .. MaxCrashes
  BY DEF AfterError, StartupInv, StartupTypeOK
<1> QED
  BY <1>1, StepEnd DEF FailMigration, Counts

LEMMA StepCrash ==
  ASSUME StartupInv, NEW p \in Process, Crash(p)
  PROVE  StartupInv'
<1>1. crashes' \in 0 .. MaxCrashes
  BY StartupAssumption DEF Crash, StartupInv, StartupTypeOK
<1> QED
  BY <1>1, StepEnd DEF Crash

-----------------------------------------------------------------------------
(* The seed.                                                               *)

LEMMA StepBeginReset ==
  ASSUME StartupInv, NEW p \in Process, BeginReset(p)
  PROVE  StartupInv'
<1> DEFINE u == [pc |-> "wipe"]
<1>1. To(p, u) /\ u \in Processes /\ u.pc = "wipe"
  BY SimpleProc DEF BeginReset, Go, Simple
<1>2. /\ orders' = orders + 1 /\ orders' \in 0 .. MaxOrders /\ orders' # 0
      /\ crashes' \in 0 .. MaxCrashes /\ UNCHANGED schema /\ UNCHANGED Demo
  BY StartupAssumption DEF BeginReset, StartupInv, StartupTypeOK
<1> HIDE DEF u
<1>3. ProcRight(u, schema.revision, orders', logins) /\ ~StampedBy(u)
  BY <1>1, <1>2 DEF ProcRight, StampedBy
<1> QED
  BY <1>1, <1>2, <1>3, QuietStep

\* A commit of the seed: the accounts are right afterwards, the same as before,
\* or an operator has interfered; no retired one gets its access back.
LEMMA StepDemo ==
  ASSUME StartupInv, NEW p \in Process, NEW u \in Processes, To(p, u),
         UNCHANGED <<schema, Counts>>,
         orgs' \subseteq [id : 1 .. founded', parts : 1 .. Parts], founded' \in Nat,
         permissions' \in BOOLEAN, logins' \in [Login \cup Retired -> Accounts],
         LoginsRight(logins') \/ orders # 0 \/ logins' = logins,
         \A a \in Retired : logins'[a].usable => logins[a].usable,
         u.pc \notin {"upgrade", "downgrade"}, ProcRight(u, schema.revision, orders, logins')
  PROVE  StartupInv'
<1>1. UNCHANGED <<schema, crashes, orders>>
  BY DEF Counts
<1>2. proc' \in [Process -> Processes] /\ proc'[p] = u /\ \A q \in Process : q # p => proc'[q] = proc[q]
  BY DEF StartupInv, StartupTypeOK, To
<1>3. StartupTypeOK'
  BY <1>1, <1>2 DEF StartupInv, StartupTypeOK
<1>4. SchemaIsRevision'
  BY <1>1 DEF StartupInv, SchemaIsRevision
<1>5. OneStamps'
  BY <1>2 DEF StartupInv, OneStamps, StampedBy
<1>6. ASSUME NEW q \in Process PROVE ProcRight(proc'[q], schema'.revision, orders', logins')
  <2>1. CASE q = p
    BY <1>1, <1>2, <2>1
  <2>2. CASE q # p
    <3>1. ProcRight(proc[q], schema.revision, orders, logins) /\ proc'[q] = proc[q]
      BY <1>2, <2>2 DEF StartupInv
    <3>2. orders = 0 /\ proc[q].pc \in {"history", "serving"} => LoginsRight(logins')
      BY <3>1 DEF ProcRight
    <3> QED
      BY <1>1, <3>1, <3>2 DEF ProcRight
  <2> QED
    BY <2>1, <2>2
<1> QED
  BY <1>3, <1>4, <1>5, <1>6 DEF StartupInv

LEMMA StepWipe ==
  ASSUME StartupInv, NEW p \in Process, Wipe(p)
  PROVE  StartupInv'
<1> DEFINE u == [pc |-> "seed"]
<1>1. To(p, u) /\ u \in Processes /\ u.pc = "seed"
  BY SimpleProc DEF Wipe, Go, Simple
<1>2. /\ proc[p].pc = "wipe" /\ orgs' = {} /\ permissions' = FALSE
      /\ logins' = [a \in Login \cup Retired |-> Absent] /\ UNCHANGED <<schema, founded, Counts>>
  BY DEF Wipe
<1>3. orders # 0 /\ founded' \in Nat
  BY <1>2 DEF StartupInv, StartupTypeOK, ProcRight
<1>4. logins' \in [Login \cup Retired -> Accounts] /\ \A a \in Retired : ~logins'[a].usable
  BY <1>2, AbsentTyped
<1> HIDE DEF u
<1>5. ProcRight(u, schema.revision, orders, logins')
  BY <1>1, <1>3 DEF ProcRight
<1> QED
  BY <1>1, <1>2, <1>3, <1>4, <1>5, StepDemo

\* Whoever seeds is at the head, unless an operator has interfered.
LEMMA SeedAtHead ==
  ASSUME StartupInv, NEW p \in Process, proc[p].pc \in AtHead
  PROVE  orders = 0 => schema.revision = Latest
BY DEF StartupInv, ProcRight

LEMMA StepLookForOrganization ==
  ASSUME StartupInv, NEW p \in Process, LookForOrganization(p)
  PROVE  StartupInv'
<1>1. orders = 0 => schema.revision = Latest
  BY SeedAtHead DEF LookForOrganization, AtHead
<1>2. CASE orgs = {}
  <2> DEFINE u == [pc |-> "permissions"]
  <2>1. To(p, u) /\ u \in Processes /\ u.pc = "permissions"
    BY <1>2, SimpleProc DEF LookForOrganization, Simple
  <2> HIDE DEF u
  <2> QED
    BY <1>1, <2>1, StepOnward DEF LookForOrganization
<1>3. CASE orgs # {}
  <2> DEFINE u == [pc |-> "reconcile", seen |-> logins]
  <2>1. To(p, u) /\ u.pc = "reconcile" /\ u.seen = logins
    BY <1>3 DEF LookForOrganization
  <2>2. u \in Processes
    BY DEF Processes, StartupInv, StartupTypeOK
  <2>3. /\ orders \in 0 .. MaxOrders /\ crashes \in 0 .. MaxCrashes
        /\ UNCHANGED <<schema, Demo, orders, crashes>>
    BY DEF LookForOrganization, Counts, StartupInv, StartupTypeOK
  <2> HIDE DEF u
  <2>4. ProcRight(u, schema.revision, orders, logins) /\ ~StampedBy(u)
    BY <1>1, <2>1 DEF ProcRight, StampedBy
  <2> QED
    BY <2>1, <2>2, <2>3, <2>4, QuietStep
<1> QED
  BY <1>2, <1>3

LEMMA MissingTyped ==
  ASSUME StartupInv, NEW p \in Process, proc[p].pc \in {"claim", "provision"}
  PROVE  proc[p].missing \in BOOLEAN
<1>1. proc[p] \in Processes
  BY DEF StartupInv, StartupTypeOK
<1>2. proc[p] \in [pc : {"claim", "provision"}, missing : BOOLEAN]
  BY <1>1 DEF Processes
<1> QED
  BY <1>2, Zenon

LEMMA MissingProc ==
  ASSUME NEW pc \in {"claim", "provision"}, NEW m \in BOOLEAN
  PROVE  [pc |-> pc, missing |-> m] \in Processes
<1>1. [pc |-> pc, missing |-> m] \in [pc : {"claim", "provision"}, missing : BOOLEAN]
  BY Zenon
<1> QED
  BY <1>1, Zenon DEF Processes

LEMMA StepReadPermissions ==
  ASSUME StartupInv, NEW p \in Process, ReadPermissions(p)
  PROVE  StartupInv'
<1> DEFINE m == ~permissions
           u == [pc |-> "claim", missing |-> m]
<1>1. To(p, u) /\ u.pc = "claim"
  BY DEF ReadPermissions
<1>2. m \in BOOLEAN
  OBVIOUS
<1> HIDE DEF m
<1>3. u \in Processes
  BY <1>2, MissingProc
<1>4. orders = 0 => schema.revision = Latest
  BY SeedAtHead DEF ReadPermissions, AtHead
<1> HIDE DEF u
<1> QED
  BY <1>1, <1>3, <1>4, StepOnward DEF ReadPermissions

LEMMA StepClaimPermissions ==
  ASSUME StartupInv, NEW p \in Process, ClaimPermissions(p)
  PROVE  StartupInv'
<1> DEFINE m == proc[p].missing
           u == [pc |-> "provision", missing |-> m]
<1>1. To(p, u) /\ u.pc = "provision"
  BY DEF ClaimPermissions
<1>2. m \in BOOLEAN
  BY MissingTyped DEF ClaimPermissions
<1> HIDE DEF m
<1>3. u \in Processes
  BY <1>2, MissingProc
<1>4. orders = 0 => schema.revision = Latest
  BY SeedAtHead DEF ClaimPermissions, AtHead
<1> HIDE DEF u
<1> QED
  BY <1>1, <1>3, <1>4, StepOnward DEF ClaimPermissions

LEMMA StepCommitOrganization ==
  ASSUME StartupInv, NEW p \in Process, CommitOrganization(p)
  PROVE  StartupInv'
<1> DEFINE u == [pc |-> "history", org |-> founded']
           o == [id |-> founded', parts |-> 1]
<1>1. /\ proc[p].pc = "provision" /\ founded' = founded + 1 /\ orgs' = orgs \cup {o}
      /\ permissions' = TRUE
      /\ logins' = [a \in Login \cup Retired |-> IF a \in Login THEN Advertised ELSE Absent]
      /\ To(p, u) /\ UNCHANGED <<schema, Counts>>
  BY DEF CommitOrganization
<1>2. founded \in Nat /\ orgs \subseteq [id : 1 .. founded, parts : 1 .. Parts]
  BY DEF StartupInv, StartupTypeOK
<1>3. founded' \in Nat /\ orgs' \subseteq [id : 1 .. founded', parts : 1 .. Parts]
  <2>1. o \in [id : 1 .. founded', parts : 1 .. Parts]
    BY <1>1, <1>2, StartupAssumption
  <2>2. [id : 1 .. founded, parts : 1 .. Parts] \subseteq [id : 1 .. founded', parts : 1 .. Parts]
    BY <1>1, <1>2
  <2> HIDE DEF o
  <2> QED
    BY <1>1, <1>2, <2>1, <2>2
<1>4. logins' \in [Login \cup Retired -> Accounts] /\ LoginsRight(logins')
  <2>1. logins' \in [Login \cup Retired -> Accounts]
    BY <1>1, AbsentTyped
  <2>2. \A a \in Login : logins'[a] = Advertised
    BY <1>1
  <2>3. \A a \in Retired : logins'[a] = Absent
    BY <1>1, StartupAssumption
  <2> QED
    BY <2>1, <2>2, <2>3, AbsentTyped DEF LoginsRight
<1>5. u \in Processes /\ u.pc = "history"
  BY <1>3 DEF Processes
<1>6. orders = 0 => schema.revision = Latest
  BY <1>1, SeedAtHead DEF AtHead
<1> HIDE DEF u
<1>7. ProcRight(u, schema.revision, orders, logins')
  BY <1>4, <1>5, <1>6 DEF ProcRight
<1> QED
  BY <1>1, <1>3, <1>4, <1>5, <1>7, StepDemo DEF LoginsRight

LEMMA StepCommitPart ==
  ASSUME StartupInv, NEW p \in Process, CommitPart(p)
  PROVE  StartupInv'
<1>1. PICK o \in Own(p) :
        IF o.parts < Parts
        THEN orgs' = (orgs \ {o}) \cup {[o EXCEPT !.parts = @ + 1]} /\ UNCHANGED proc
        ELSE Go(p, AfterSeed(p)) /\ UNCHANGED orgs
  BY DEF CommitPart
<1>2. proc[p].pc = "history" /\ UNCHANGED <<schema, founded, permissions, logins, Counts>>
  BY DEF CommitPart
<1>3. /\ o \in [id : 1 .. founded, parts : 1 .. Parts] /\ founded \in Nat /\ permissions \in BOOLEAN
      /\ orgs \subseteq [id : 1 .. founded, parts : 1 .. Parts]
      /\ logins \in [Login \cup Retired -> Accounts] /\ proc \in [Process -> Processes]
      /\ ProcRight(proc[p], schema.revision, orders, logins)
  BY DEF Own, StartupInv, StartupTypeOK
<1>4. orgs' \subseteq [id : 1 .. founded', parts : 1 .. Parts]
  <2>1. CASE o.parts < Parts
    <3> DEFINE n == [o EXCEPT !.parts = @ + 1]
    <3>1. o.parts + 1 \in 1 .. Parts
      BY <1>3, <2>1, StartupAssumption
    <3>2. n \in [id : 1 .. founded, parts : 1 .. Parts]
      BY <1>3, <3>1
    <3>3. orgs' = (orgs \ {o}) \cup {n}
      BY <1>1, <2>1
    <3> HIDE DEF n
    <3> QED
      BY <1>2, <1>3, <3>2, <3>3
  <2>2. CASE ~(o.parts < Parts)
    BY <1>1, <1>2, <1>3, <2>2
  <2> QED
    BY <2>1, <2>2
<1>5. PICK u \in Processes :
        To(p, u) /\ u.pc \in {"history", "serving", "over"}
  <2>1. CASE o.parts < Parts
    BY <1>1, <1>2, <1>3, <2>1 DEF To
  <2>2. CASE ~(o.parts < Parts)
    <3>1. AfterSeed(p) \in {"serving", "over"}
      BY DEF AfterSeed
    <3>2. [pc |-> AfterSeed(p)] \in Processes
      BY <3>1, SimpleProc DEF Simple
    <3> QED
      BY <1>1, <2>2, <3>1, <3>2 DEF Go
  <2> QED
    BY <2>1, <2>2
<1>6. orders = 0 => schema.revision = Latest /\ LoginsRight(logins)
  BY <1>2, <1>3 DEF ProcRight, AtHead
<1>7. ProcRight(u, schema.revision, orders, logins)
  BY <1>5, <1>6 DEF ProcRight
<1>8. founded' \in Nat /\ permissions' \in BOOLEAN /\ logins' \in [Login \cup Retired -> Accounts]
      /\ logins' = logins /\ UNCHANGED <<schema, Counts>>
  BY <1>2, <1>3
<1> QED
  BY <1>4, <1>5, <1>7, <1>8, StepDemo

-----------------------------------------------------------------------------
(* _reconcile_demo_users.                                                  *)

LEMMA AccountFields ==
  ASSUME NEW a \in Accounts
  PROVE  /\ a.email \in {"none", "legacy", "demo"} /\ a.usable \in BOOLEAN /\ a.own \in Nat
         /\ a.other \in BOOLEAN /\ a.branch \in BOOLEAN /\ a.version \in Nat
BY Zenon DEF Accounts

LEMMA RenamedTyped ==
  ASSUME NEW a \in Accounts
  PROVE  /\ Renamed(a) \in Accounts
         /\ Renamed(a).email = "demo" /\ Renamed(a).usable /\ Renamed(a).own = a.own
<1> DEFINE v == IF a.email = "demo" /\ a.usable THEN a.version ELSE a.version + 1
<1>1. v \in Nat
  BY AccountFields
<1>2. Renamed(a) = [a EXCEPT !.email = "demo", !.usable = TRUE, !.version = v]
  BY DEF Renamed
<1> HIDE DEF v
<1>3. Renamed(a) = [email |-> "demo", usable |-> TRUE, own |-> a.own, other |-> a.other,
                    branch |-> a.branch, version |-> v]
  BY <1>2 DEF Accounts
<1>4. [email |-> "demo", usable |-> TRUE, own |-> a.own, other |-> a.other,
       branch |-> a.branch, version |-> v] \in Accounts
  BY <1>1, AccountFields, Zenon DEF Accounts
<1> QED
  BY <1>3, <1>4

LEMMA ReconciledTyped ==
  ASSUME NEW a \in Accounts
  PROVE  /\ Reconciled(a) \in Accounts
         /\ Reconciled(a).email = "demo" /\ Reconciled(a).usable /\ Reconciled(a).branch
         /\ Reconciled(a).own > 0 /\ ~Reconciled(a).other
<1>1. CASE a.email = "none"
  BY <1>1, AbsentTyped DEF Reconciled
<1>2. CASE a.email # "none"
  <2> DEFINE b == Renamed(a)
             n == IF b.own = 0 THEN 1 ELSE b.own
  <2>1. b \in Accounts /\ b.email = "demo" /\ b.usable /\ b.version \in Nat
    BY RenamedTyped, AccountFields
  <2>2. n \in Nat /\ n > 0
    BY <2>1, AccountFields
  <2>3. Reconciled(a) = [b EXCEPT !.own = n, !.other = FALSE, !.branch = TRUE]
    BY <1>2 DEF Reconciled
  <2> HIDE DEF b, n
  <2>4. Reconciled(a) = [email |-> b.email, usable |-> b.usable, own |-> n, other |-> FALSE,
                         branch |-> TRUE, version |-> b.version]
    BY <2>1, <2>3 DEF Accounts
  <2>5. b.usable \in BOOLEAN /\ b.email \in {"none", "legacy", "demo"}
    BY <2>1, AccountFields
  <2>6. [email |-> b.email, usable |-> b.usable, own |-> n, other |-> FALSE,
         branch |-> TRUE, version |-> b.version] \in Accounts
    BY <2>1, <2>2, <2>5, Zenon DEF Accounts
  <2> QED
    BY <2>1, <2>2, <2>4, <2>6
<1> QED
  BY <1>1, <1>2

\* Whatever it has seen, what it leaves is an account that works.
LEMMA MergedTyped ==
  ASSUME NEW now \in Accounts, NEW seen \in Accounts
  PROVE  /\ Merged(now, seen) \in Accounts
         /\ Merged(now, seen).email = "demo" /\ Merged(now, seen).usable
         /\ Merged(now, seen).branch /\ Merged(now, seen).own > 0 /\ ~Merged(now, seen).other
<1> DEFINE b == Reconciled(seen)
           n == IF seen.own = 0 /\ now # Absent THEN now.own + 1 ELSE b.own
           m == Merged(now, seen)
<1>1. b \in Accounts /\ b.email = "demo" /\ b.usable /\ b.branch /\ b.own > 0 /\ ~b.other
  BY ReconciledTyped
<1>2. n \in Nat /\ n > 0
  BY <1>1, AccountFields
<1>3. m = [b EXCEPT !.own = n]
  BY DEF Merged
<1> HIDE DEF b, n, m
<1>4. m = [email |-> b.email, usable |-> b.usable, own |-> n, other |-> b.other,
           branch |-> b.branch, version |-> b.version]
  BY <1>1, <1>3 DEF Accounts
<1>5. [email |-> b.email, usable |-> b.usable, own |-> n, other |-> b.other,
       branch |-> b.branch, version |-> b.version] \in Accounts
  BY <1>1, <1>2, AccountFields, Zenon DEF Accounts
<1>6. /\ m \in Accounts /\ m.email = "demo" /\ m.usable /\ m.branch /\ m.own > 0 /\ ~m.other
  BY <1>1, <1>2, <1>4, <1>5
<1> QED
  BY <1>6 DEF m

LEMMA DeactivatedTyped ==
  ASSUME NEW a \in Accounts
  PROVE  Deactivated(a) \in Accounts /\ ~Deactivated(a).usable
<1>1. CASE a.usable
  <2> DEFINE v == a.version + 1
  <2>1. v \in Nat
    BY AccountFields
  <2>2. Deactivated(a) = [a EXCEPT !.usable = FALSE, !.version = v]
    BY <1>1 DEF Deactivated
  <2> HIDE DEF v
  <2>3. Deactivated(a) = [email |-> a.email, usable |-> FALSE, own |-> a.own, other |-> a.other,
                          branch |-> a.branch, version |-> v]
    BY <2>2 DEF Accounts
  <2>4. [email |-> a.email, usable |-> FALSE, own |-> a.own, other |-> a.other,
         branch |-> a.branch, version |-> v] \in Accounts
    BY <2>1, AccountFields, Zenon DEF Accounts
  <2> QED
    BY <2>3, <2>4
<1>2. CASE ~a.usable
  BY <1>2 DEF Deactivated
<1> QED
  BY <1>1, <1>2

LEMMA StepCommitReconcile ==
  ASSUME StartupInv, NEW p \in Process, CommitReconcile(p)
  PROVE  StartupInv'
<1> DEFINE seen == proc[p].seen
           u == [pc |-> AfterSeed(p)]
<1>1. /\ proc[p].pc = "reconcile"
      /\ logins' = [a \in Login \cup Retired |->
           IF a \in Retired THEN (IF seen[a].usable THEN Deactivated(logins[a]) ELSE logins[a])
           ELSE Merged(logins[a], seen[a])]
      /\ To(p, u) /\ UNCHANGED <<schema, orgs, founded, permissions, Counts>>
  BY DEF CommitReconcile, Go
<1>2. /\ proc[p] \in Processes /\ ProcRight(proc[p], schema.revision, orders, logins)
      /\ logins \in [Login \cup Retired -> Accounts] /\ founded \in Nat /\ permissions \in BOOLEAN
      /\ orgs \subseteq [id : 1 .. founded, parts : 1 .. Parts]
  BY DEF StartupInv, StartupTypeOK
<1>3. seen \in [Login \cup Retired -> Accounts]
  <2>1. proc[p] \in [pc : {"reconcile"}, seen : [Login \cup Retired -> Accounts]]
    BY <1>1, <1>2 DEF Processes
  <2> QED
    BY <2>1
<1>4. \A a \in Retired : logins[a].usable => seen[a].usable
  BY <1>1, <1>2 DEF ProcRight
<1> HIDE DEF seen
<1>5. ASSUME NEW a \in Retired
      PROVE  logins'[a] \in Accounts /\ ~logins'[a].usable
  <2>1. logins'[a] = IF seen[a].usable THEN Deactivated(logins[a]) ELSE logins[a]
    BY <1>1
  <2>2. logins[a] \in Accounts
    BY <1>2
  <2> QED
    BY <1>4, <2>1, <2>2, DeactivatedTyped
<1>6. ASSUME NEW a \in Login
      PROVE  /\ logins'[a] \in Accounts /\ logins'[a].email = "demo" /\ logins'[a].usable
             /\ logins'[a].branch /\ logins'[a].own > 0 /\ ~logins'[a].other
  <2>1. logins'[a] = Merged(logins[a], seen[a])
    BY <1>1, StartupAssumption
  <2>2. logins[a] \in Accounts /\ seen[a] \in Accounts
    BY <1>2, <1>3
  <2> QED
    BY <2>1, <2>2, MergedTyped
<1>7. logins' \in [Login \cup Retired -> Accounts]
  <2>1. \A a \in Login \cup Retired : logins'[a] \in Accounts
    BY <1>5, <1>6
  <2>2. logins' = [a \in Login \cup Retired |-> logins'[a]]
    BY <1>1
  <2> QED
    BY <2>1, <2>2
<1>8. LoginsRight(logins')
  BY <1>5, <1>6 DEF LoginsRight
<1>9. u \in Processes /\ u.pc \in {"serving", "over"}
  BY SimpleProc DEF AfterSeed, Simple
<1>10. orders = 0 => schema.revision = Latest
  BY <1>1, SeedAtHead DEF AtHead
<1> HIDE DEF u
<1>11. ProcRight(u, schema.revision, orders, logins')
  BY <1>8, <1>9, <1>10 DEF ProcRight
<1> QED
  BY <1>1, <1>2, <1>5, <1>7, <1>8, <1>9, <1>11, StepDemo

LEMMA StepFailSeed ==
  ASSUME StartupInv, NEW p \in Process, FailSeed(p)
  PROVE  StartupInv'
<1>1. AfterError(p) \in {"down", "over"} /\ crashes \in 0 .. MaxCrashes
  BY DEF AfterError, StartupInv, StartupTypeOK
<1> QED
  BY <1>1, StepEnd DEF FailSeed, Counts

-----------------------------------------------------------------------------
LEMMA NextInv == StartupInv /\ [StartupNext]_startupVars => StartupInv'
<1> SUFFICES ASSUME StartupInv, [StartupNext]_startupVars PROVE StartupInv'
  OBVIOUS
<1>1. ASSUME NEW c \in Container, Boot(c) PROVE StartupInv'
  BY <1>1, StepBoot
<1>2. ASSUME NEW p \in Operator, BeginDowngrade(p) \/ BeginReset(p) \/ Wipe(p) PROVE StartupInv'
  BY <1>2, StepBeginDowngrade, StepBeginReset, StepWipe DEF Process
<1>3. ASSUME NEW p \in Process, Work(p) PROVE StartupInv'
  <2>1. CASE RunStatement(p) \/ Stamp(p) \/ CommitMigration(p) \/ FailMigration(p)
    BY <2>1, StepRunStatement, StepStamp, StepCommitMigration, StepFailMigration
  <2>2. CASE LookForOrganization(p) \/ ReadPermissions(p) \/ ClaimPermissions(p)
    BY <2>2, StepLookForOrganization, StepReadPermissions, StepClaimPermissions
  <2>3. CASE CommitOrganization(p) \/ CommitPart(p) \/ CommitReconcile(p) \/ FailSeed(p)
    BY <2>3, StepCommitOrganization, StepCommitPart, StepCommitReconcile, StepFailSeed
  <2> QED
    BY <1>3, <2>1, <2>2, <2>3 DEF Work
<1>4. ASSUME NEW p \in Process, Crash(p) PROVE StartupInv'
  BY <1>4, StepCrash
<1>5. CASE UNCHANGED startupVars
  BY <1>5 DEF startupVars, StartupInv, StartupTypeOK, SchemaIsRevision, OneStamps
<1> QED
  BY <1>1, <1>2, <1>3, <1>4, <1>5 DEF StartupNext

\* The invariant the properties below rest on: what every run of alembic has
\* added or taken away, that one run at a time stamps, and what a process that
\* seeds or serves may rely on.
THEOREM StartupInvariant == StartupSpec => []StartupInv
BY InitInv, NextInv, PTL DEF StartupSpec

\* The schema, the demo and all processes keep their types.
THEOREM StartupTypeCorrect == StartupSpec => []StartupTypeOK
<1>1. StartupInv => StartupTypeOK
  BY DEF StartupInv
<1> QED
  BY <1>1, StartupInvariant, PTL

\* However many containers and operators migrate at once and wherever they
\* crash, the tables are those of the revision in alembic_version (env.py:42-43).
THEOREM SchemaKept == StartupSpec => []SchemaIsRevision
<1>1. StartupInv => SchemaIsRevision
  BY DEF StartupInv
<1> QED
  BY <1>1, StartupInvariant, PTL

\* A server that runs has the schema of the last revision of its code, whichever of the
\* earlier ones the database was at (docker-entrypoint.sh:39-43)
\* and demo logins that work (seed.py:679-680), however many containers seed
\* and reconcile at once, as long as no operator interferes.
THEOREM ServersAlwaysWork == StartupSpec => []ServersWork
<1>1. StartupInv => ServersWork
  <2> SUFFICES ASSUME StartupInv, orders = 0, NEW c \in Container, proc[c].pc = "serving"
               PROVE  schema.revision = Latest /\ LoginsRight(logins)
    BY DEF ServersWork, ServesAtHead, LoginsWork, LoginsRight
  <2> QED
    BY DEF StartupInv, ProcRight, Process, AtHead
<1> QED
  BY <1>1, StartupInvariant, PTL

-----------------------------------------------------------------------------
(* The scripts as they are: every statement finds what it needs.           *)

TypesOf(n) == UNION {s.types : s \in ToSet(Creations[n])}

\* The tables, and the types, of the first k statements of C.
Before(C, k) == {C[j].table : j \in 1 .. k}
BeforeTypes(C, k) == UNION {C[j].types : j \in 1 .. k}

\* Where there are the tables R, the statements C create nothing twice and refer
\* to nothing that is not there.
Fitting(C, R) ==
  \A k \in 1 .. Len(C) :
    /\ C[k].table \notin Before(C, k - 1)
    /\ C[k].refs \subseteq R \cup Before(C, k - 1) \cup {C[k].table}
    /\ C[k].types \cap BeforeTypes(C, k - 1) = {}

\* The statements D drop each table once, after those that refer to it.
Leaving(C, D) ==
  \A k \in 1 .. Len(D) :
    /\ \A i \in 1 .. k - 1 : D[i] # D[k]
    /\ \A j \in 1 .. Len(C) : D[k] \in C[j].refs => \E i \in 1 .. k : D[i] = C[j].table

LEMMA TenRevisions == Latest = 10
BY DEF Latest, Creations

\* Tables and types by revision, as far as later ones refer to them.
LEMMA TablesKnown ==
  /\ {"organizations", "branches", "users", "warehouses"} \subseteq TablesOf(1)
  /\ {"products", "batches", "serial_numbers", "stock_movements"} \subseteq TablesOf(2)
  /\ {"suppliers"} \subseteq TablesOf(3)
  /\ {"customers", "sales_invoices"} \subseteq TablesOf(4)
<1>1. \A n \in 1 .. 10 : TablesOf(n) = ToSet(Drops[n])
  BY SchemaAssumption, TenRevisions DEF TablesOf
<1>2. /\ TablesOf(1) = ToSet(Phase1Drops) /\ TablesOf(2) = ToSet(Phase2Drops)
      /\ TablesOf(3) = ToSet(Phase3Drops) /\ TablesOf(4) = ToSet(Phase4Drops)
  BY <1>1 DEF Drops
<1> QED
  BY <1>2 DEF ToSet, Phase1Drops, Phase2Drops, Phase3Drops, Phase4Drops

LEMMA TypesKnown ==
  /\ TypesOf(1) = {"warehouse_type"}
  /\ TypesOf(2) = {"product_category_kind", "stock_movement_type"}
  /\ TypesOf(3) = {"purchase_order_status"}
  /\ TypesOf(4) = {"customer_type", "payment_direction", "payment_method", "sale_channel",
                   "sales_payment_status"}
  /\ TypesOf(5) = {"sales_order_status"}
  /\ TypesOf(6) = {"account_type"}
  /\ TypesOf(7) = {"repair_status", "warranty_claim_status"}
  /\ TypesOf(8) = {} /\ TypesOf(9) = {} /\ TypesOf(10) = {}
<1>1. TypesOf(1) = {"warehouse_type"}
  BY DEF TypesOf, ToSet, Creations, OrganizationTables, MembershipTables, WarehouseTables, Create
<1>2. TypesOf(2) = {"product_category_kind", "stock_movement_type"}
  BY DEF TypesOf, ToSet, Creations, CatalogueTables, ProductTables, BatchTables, StockTables, Create
<1>3. TypesOf(3) = {"purchase_order_status"}
  BY DEF TypesOf, ToSet, Creations, SupplierTables, ReceiptTables, ReceiptItemTables, Create
<1>4. TypesOf(4) = {"customer_type", "payment_direction", "payment_method", "sale_channel",
                    "sales_payment_status"}
  BY DEF TypesOf, ToSet, Creations, CustomerTables, SaleTables, SaleItemTables, Create
<1>5. TypesOf(5) = {"sales_order_status"}
  BY DEF TypesOf, ToSet, Creations, OrderTables, Create
<1>6. TypesOf(6) = {"account_type"}
  BY DEF TypesOf, ToSet, Creations, AccountTables, Create
<1>7. TypesOf(7) = {"repair_status", "warranty_claim_status"}
  BY DEF TypesOf, ToSet, Creations, WarrantyTables, RepairTables, RepairPartTables, Create
<1>8. TypesOf(8) = {} /\ TypesOf(9) = {}
  BY DEF TypesOf, ToSet, Creations, DocumentTables, Create
<1>9. TypesOf(10) = {}
  BY DEF TypesOf, ToSet, Creations, CustomerAddress, AddColumn, Create
<1> QED
  BY <1>1, <1>2, <1>3, <1>4, <1>5, <1>6, <1>7, <1>8, <1>9

LEMMA Down ==
  /\ Leaving(Creations[1], Drops[1]) /\ Leaving(Creations[2], Drops[2])
  /\ Leaving(Creations[3], Drops[3]) /\ Leaving(Creations[4], Drops[4])
  /\ Leaving(Creations[5], Drops[5]) /\ Leaving(Creations[6], Drops[6])
  /\ Leaving(Creations[7], Drops[7]) /\ Leaving(Creations[8], Drops[8])
  /\ Leaving(Creations[9], Drops[9]) /\ Leaving(Creations[10], Drops[10])
<1>1. Leaving(Creations[1], Drops[1])
  BY DEF Leaving, Creations, Drops, Phase1Drops, OrganizationTables, MembershipTables,
         WarehouseTables, Create
<1>2. Leaving(Creations[2], Drops[2])
  BY DEF Leaving, Creations, Drops, Phase2Drops, CatalogueTables, ProductTables, BatchTables,
         StockTables, Create
<1>3. Leaving(Creations[3], Drops[3])
  BY DEF Leaving, Creations, Drops, Phase3Drops, SupplierTables, ReceiptTables,
         ReceiptItemTables, Create
<1>4. Leaving(Creations[4], Drops[4])
  BY DEF Leaving, Creations, Drops, Phase4Drops, CustomerTables, SaleTables, SaleItemTables, Create
<1>5. Leaving(Creations[5], Drops[5])
  BY DEF Leaving, Creations, Drops, Phase5Drops, OrderTables, Create
<1>6. Leaving(Creations[6], Drops[6])
  BY DEF Leaving, Creations, Drops, Phase6Drops, AccountTables, Create
<1>7. Leaving(Creations[7], Drops[7])
  BY DEF Leaving, Creations, Drops, Phase7Drops, WarrantyTables, RepairTables, RepairPartTables,
         Create
<1>8. Leaving(Creations[8], Drops[8])
  BY DEF Leaving, Creations, Drops, Phase8Drops, DocumentTables, Create
<1>9. Leaving(Creations[9], Drops[9])
  BY DEF Leaving, Creations, Drops
<1>10. Leaving(Creations[10], Drops[10])
  BY DEF Leaving, Creations, Drops, Phase10Drops, CustomerAddress, AddColumn, Create
<1> QED
  BY <1>1, <1>2, <1>3, <1>4, <1>5, <1>6, <1>7, <1>8, <1>9, <1>10

LEMMA TypesSum ==
  ASSUME NEW n \in 0 .. Latest
  PROVE  \A x : x \in TypesAt(n) <=> \E k \in 1 .. n : x \in TypesOf(k)
BY DEF TypesAt, TypesOf

\* One revision after the others: what it refers to is there, what it creates is new.
LEMMA UpFrom ==
  ASSUME NEW n \in 1 .. 10
  PROVE  /\ TablesAt(n - 1) \cap TablesOf(n) = {}
         /\ \A k \in 1 .. n - 1 : TablesOf(k) \subseteq TablesAt(n - 1)
         /\ \A k \in 1 .. Len(Creations[n]) : Creations[n][k].table \in TablesOf(n)
<1>1. n \in 1 .. Latest /\ n - 1 \in 0 .. Latest
  BY TenRevisions
<1>2. TablesOf((n - 1) + 1) \cap TablesAt(n - 1) = {}
  <2>1. n - 1 \in 0 .. Latest - 1
    BY TenRevisions
  <2> QED
    BY <2>1, <1>1, TablesStep
<1> QED
  BY <1>1, <1>2, TablesSum, ScriptsTyped

LEMMA FittingMore ==
  ASSUME NEW C, NEW R, NEW B, Fitting(C, R), R \subseteq B
  PROVE  Fitting(C, B)
BY DEF Fitting

LEMMA FitsAfter ==
  ASSUME NEW n \in 1 .. 10
  PROVE  Fitting(Creations[n], TablesAt(n - 1))
<1>1. CASE n = 1
  <2>1. Fitting(Creations[1], {})
    BY DEF Fitting, Before, BeforeTypes, Creations, OrganizationTables, MembershipTables, WarehouseTables, Create
  <2>2. {} \subseteq TablesAt(n - 1)
    BY <1>1, UpFrom, TablesKnown
  <2> QED
    BY <1>1, <2>1, <2>2, FittingMore
<1>2. CASE n = 2
  <2>1. Fitting(Creations[2], {"organizations", "branches", "users", "warehouses"})
    BY DEF Fitting, Before, BeforeTypes, Creations, CatalogueTables, ProductTables, BatchTables, StockTables, Create
  <2>2. {"organizations", "branches", "users", "warehouses"} \subseteq TablesAt(n - 1)
    BY <1>2, UpFrom, TablesKnown
  <2> QED
    BY <1>2, <2>1, <2>2, FittingMore
<1>3. CASE n = 3
  <2>1. Fitting(Creations[3], {"organizations", "branches", "users", "warehouses", "products", "batches", "stock_movements"})
    BY DEF Fitting, Before, BeforeTypes, Creations, SupplierTables, ReceiptTables, ReceiptItemTables, Create
  <2>2. {"organizations", "branches", "users", "warehouses", "products", "batches", "stock_movements"} \subseteq TablesAt(n - 1)
    BY <1>3, UpFrom, TablesKnown
  <2> QED
    BY <1>3, <2>1, <2>2, FittingMore
<1>4. CASE n = 4
  <2>1. Fitting(Creations[4], {"organizations", "branches", "users", "warehouses", "products", "batches"})
    BY DEF Fitting, Before, BeforeTypes, Creations, CustomerTables, SaleTables, SaleItemTables, Create
  <2>2. {"organizations", "branches", "users", "warehouses", "products", "batches"} \subseteq TablesAt(n - 1)
    BY <1>4, UpFrom, TablesKnown
  <2> QED
    BY <1>4, <2>1, <2>2, FittingMore
<1>5. CASE n = 5
  <2>1. Fitting(Creations[5], {"organizations", "branches", "users", "warehouses", "products", "customers", "sales_invoices"})
    BY DEF Fitting, Before, BeforeTypes, Creations, OrderTables, Create
  <2>2. {"organizations", "branches", "users", "warehouses", "products", "customers", "sales_invoices"} \subseteq TablesAt(n - 1)
    BY <1>5, UpFrom, TablesKnown
  <2> QED
    BY <1>5, <2>1, <2>2, FittingMore
<1>6. CASE n = 6
  <2>1. Fitting(Creations[6], {"organizations", "branches", "users"})
    BY DEF Fitting, Before, BeforeTypes, Creations, AccountTables, Create
  <2>2. {"organizations", "branches", "users"} \subseteq TablesAt(n - 1)
    BY <1>6, UpFrom, TablesKnown
  <2> QED
    BY <1>6, <2>1, <2>2, FittingMore
<1>7. CASE n = 7
  <2>1. Fitting(Creations[7], {"organizations", "branches", "users", "warehouses", "products", "serial_numbers", "stock_movements", "customers", "sales_invoices"})
    BY DEF Fitting, Before, BeforeTypes, Creations, WarrantyTables, RepairTables, RepairPartTables, Create
  <2>2. {"organizations", "branches", "users", "warehouses", "products", "serial_numbers", "stock_movements", "customers", "sales_invoices"} \subseteq TablesAt(n - 1)
    BY <1>7, UpFrom, TablesKnown
  <2> QED
    BY <1>7, <2>1, <2>2, FittingMore
<1>8. CASE n = 8
  <2>1. Fitting(Creations[8], {"organizations", "users"})
    BY DEF Fitting, Before, BeforeTypes, Creations, DocumentTables, Create
  <2>2. {"organizations", "users"} \subseteq TablesAt(n - 1)
    BY <1>8, UpFrom, TablesKnown
  <2> QED
    BY <1>8, <2>1, <2>2, FittingMore
<1>9. CASE n = 9
  <2>1. Fitting(Creations[9], {})
    BY DEF Fitting, Before, BeforeTypes, Creations
  <2>2. {} \subseteq TablesAt(n - 1)
    BY <1>9, UpFrom, TablesKnown
  <2> QED
    BY <1>9, <2>1, <2>2, FittingMore
<1>10. CASE n = 10
  <2>1. Fitting(Creations[10], {"customers", "sales_invoices"})
    BY DEF Fitting, Before, BeforeTypes, Creations, CustomerAddress, AddColumn, Create
  <2>2. {"customers", "sales_invoices"} \subseteq TablesAt(n - 1)
    BY <1>10, UpFrom, TablesKnown
  <2> QED
    BY <1>10, <2>1, <2>2, FittingMore
<1> QED
  BY <1>1, <1>2, <1>3, <1>4, <1>5, <1>6, <1>7, <1>8, <1>9, <1>10

LEMMA TypesApart ==
  ASSUME NEW n \in 1 .. 10
  PROVE  TypesAt(n - 1) \cap TypesOf(n) = {}
<1>1. n - 1 \in 0 .. Latest /\ n \in {1, 2, 3, 4, 5, 6, 7, 8, 9, 10}
  BY TenRevisions
<1>2. ASSUME NEW k \in 1 .. n - 1 PROVE TypesOf(k) \cap TypesOf(n) = {}
  <2>1. k \in {1, 2, 3, 4, 5, 6, 7, 8, 9} /\ k < n
    OBVIOUS
  <2> QED
    BY ONLY <1>1, <2>1, TypesKnown
<1> QED
  BY <1>1, <1>2, TypesSum

-----------------------------------------------------------------------------
(* A run of alembic that nobody disturbs.                                  *)

\* A run that upgrades has added the types of the revisions and the statements it
\* has been through, if any.
TypesRight(u) ==
  u.pc = "upgrade" =>
    u.run.names \cap Types \subseteq
      TypesAt(u.run.at) \cup BeforeTypes(Creations[u.run.at + 1], u.run.done)

RunsTyped == \A p \in Process : TypesRight(proc[p])

LEMMA OneRuns ==
  ASSUME RunsTyped, NEW p \in Process, NEW u, TypesRight(u), StartupInv,
         proc' = [proc EXCEPT ![p] = u]
  PROVE  RunsTyped'
BY DEF RunsTyped, StartupInv, StartupTypeOK

\* Whoever does not upgrade has nothing to show.
LEMMA OtherRuns ==
  ASSUME RunsTyped, NEW p \in Process, NEW u, u.pc # "upgrade", StartupInv, To(p, u)
  PROVE  RunsTyped'
BY OneRuns DEF TypesRight, To

\* A run goes on to r.
LEMMA RunOn ==
  ASSUME StartupInv, RunsTyped, NEW p \in Process, Migrating(p), NEW r,
         proc' = [proc EXCEPT ![p].run = r],
         proc[p].pc = "upgrade" =>
           r.names \cap Types \subseteq TypesAt(r.at) \cup BeforeTypes(Creations[r.at + 1], r.done)
  PROVE  RunsTyped'
<1> DEFINE u == [proc[p] EXCEPT !.run = r]
<1>1. proc' = [proc EXCEPT ![p] = u]
  BY DEF StartupInv, StartupTypeOK
<1>2. u.pc = proc[p].pc /\ u.run = r
  BY RunTyped
<1> HIDE DEF u
<1>3. TypesRight(u)
  BY <1>2 DEF TypesRight
<1> QED
  BY <1>1, <1>3, OneRuns

LEMMA StatementTypes ==
  ASSUME StartupInv, RunsTyped, NEW p \in Process, RunStatement(p)
  PROVE  RunsTyped'
<1> DEFINE r == Run(p)
           s == Stated(p)
<1>1. /\ Migrating(p) /\ Busy(p) /\ proc' = [proc EXCEPT ![p].run = s]
  BY DEF RunStatement
<1>2. r \in Migration
  BY <1>1, RunTyped
<1>3. ASSUME proc[p].pc = "upgrade"
      PROVE  s.names \cap Types \subseteq TypesAt(s.at) \cup BeforeTypes(Creations[s.at + 1], s.done)
  <2>1. r.at # Latest /\ r.done < Len(Creations[r.at + 1])
    BY <1>1, <1>3 DEF Busy, Finished, Script
  <2>2. r.at \in 0 .. Latest /\ r.done \in Nat /\ Latest \in Nat
    BY <1>2, MigrationTyped
  <2> DEFINE C == Creations[r.at + 1]
             k == r.done + 1
  <2>3. s.names = r.names \cup ({C[k].table} \cup C[k].types) /\ s.at = r.at /\ s.done = k
    BY <1>2, <1>3 DEF Stated, Creation, Script, Migration
  <2>4. C[k].table \in Tables
    <3>1. r.at + 1 \in 1 .. Latest
      BY <2>1, <2>2
    <3>2. k \in 1 .. Len(C)
      BY <2>1, <2>2, <3>1, ScriptsTyped
    <3> QED
      BY <3>1, <3>2, ScriptsTyped
  <2>5. C[k].table \notin Types
    BY <2>4, SchemaAssumption
  <2>6. r.names \cap Types \subseteq TypesAt(r.at) \cup BeforeTypes(C, r.done)
    BY <1>3 DEF RunsTyped, TypesRight, Run
  <2>7. BeforeTypes(C, k) = BeforeTypes(C, r.done) \cup C[k].types
    <3> HIDE DEF C
    <3> QED
      BY <2>2 DEF BeforeTypes
  <2>8. Creations[s.at + 1] = C
    BY <2>3
  <2> HIDE DEF C, k, r, s
  <2> QED
    BY <2>3, <2>5, <2>6, <2>7, <2>8
<1> HIDE DEF s
<1> QED
  BY <1>1, <1>3, RunOn

LEMMA StampTypes ==
  ASSUME StartupInv, RunsTyped, NEW p \in Process, Stamp(p)
  PROVE  RunsTyped'
<1> DEFINE r == Run(p)
           n == IF proc[p].pc = "upgrade" THEN r.at + 1 ELSE r.at - 1
           s == [r EXCEPT !.at = n, !.done = 0]
<1>1. Migrating(p) /\ ~Finished(p) /\ ~Busy(p)
  BY DEF Stamp
<1>2. r \in Migration
  BY <1>1, RunTyped
<1>3. proc' = [proc EXCEPT ![p].run = s]
  BY DEF Stamp, Run, StartupInv, StartupTypeOK
<1>4. ASSUME proc[p].pc = "upgrade"
      PROVE  s.names \cap Types \subseteq TypesAt(s.at) \cup BeforeTypes(Creations[s.at + 1], s.done)
  <2>1. r.at # Latest
    BY <1>1, <1>4 DEF Finished
  <2>2. UpgradeRight(r, schema.revision)
    BY <1>1, <1>4, RunTyped
  <2>3. r.names \cap Types \subseteq TypesAt(r.at) \cup BeforeTypes(Creations[r.at + 1], r.done)
    BY <1>4 DEF RunsTyped, TypesRight, Run
  <2>4. s.names = r.names /\ s.at = r.at + 1
    BY <1>2, <1>4 DEF Migration
  <2> HIDE DEF r, s, n
  <2>5. r.at \in 0 .. Latest /\ r.done \in Nat /\ Latest \in Nat /\ r.at < Latest
        /\ r.at + 1 \in 1 .. Latest /\ r.at + 1 \in 0 .. Latest
    BY <1>2, <2>1, MigrationTyped
  <2>6. r.done <= Len(Creations[r.at + 1])
    BY <2>2, <2>5 DEF UpgradeRight
  <2>7. BeforeTypes(Creations[r.at + 1], r.done) \subseteq TypesAt(r.at + 1)
    <3>1. \A j \in 1 .. r.done : Creations[r.at + 1][j] \in ToSet(Creations[r.at + 1])
      BY <2>5, <2>6, ScriptsTyped
    <3>2. \A j \in 1 .. r.done : Creations[r.at + 1][j].types \subseteq TypesOf(r.at + 1)
      BY <3>1 DEF TypesOf
    <3>3. TypesOf(r.at + 1) \subseteq TypesAt(r.at + 1)
      BY <2>5, TypesSum
    <3> QED
      BY <3>2, <3>3 DEF BeforeTypes
  <2>8. TypesAt(r.at) \subseteq TypesAt(r.at + 1)
    BY <2>5, TypesSum
  <2> QED
    BY <2>3, <2>4, <2>7, <2>8
<1> HIDE DEF s
<1> QED
  BY <1>1, <1>3, <1>4, RunOn

\* The other steps leave a process that does not upgrade, or has not begun to.
LEMMA BootTypes ==
  ASSUME StartupInv, RunsTyped, NEW c \in Container, Boot(c)
  PROVE  RunsTyped'
<1>1. c \in Process
  BY DEF Process
<1>2. CASE schema.revision = Latest
  BY <1>1, <1>2, OtherRuns DEF Boot
<1>3. CASE schema.revision # Latest
  <2> DEFINE u == [pc |-> "upgrade", run |-> Start(schema.revision)]
  <2>1. To(c, u)
    BY <1>3 DEF Boot
  <2>2. TypesRight(u)
    BY DEF TypesRight, Start
  <2> HIDE DEF u
  <2> QED
    BY <1>1, <2>1, <2>2, OneRuns DEF To
<1> QED
  BY <1>2, <1>3

\* A process that goes somewhere else than into an upgrade.
LEMMA GoTypes ==
  ASSUME StartupInv, RunsTyped, NEW p \in Process, NEW pc, pc # "upgrade", Go(p, pc)
  PROVE  RunsTyped'
<1> DEFINE u == [pc |-> pc]
<1>1. u.pc # "upgrade" /\ To(p, u)
  BY DEF Go
<1> HIDE DEF u
<1> QED
  BY <1>1, OtherRuns

LEMMA SeedTypes ==
  ASSUME StartupInv, RunsTyped, NEW p \in Process,
         LookForOrganization(p) \/ ReadPermissions(p) \/ ClaimPermissions(p)
           \/ CommitOrganization(p) \/ CommitPart(p) \/ CommitReconcile(p) \/ FailSeed(p)
  PROVE  RunsTyped'
<1>1. CASE LookForOrganization(p)
  <2>1. CASE orgs = {}
    BY <1>1, <2>1, OtherRuns DEF LookForOrganization
  <2>2. CASE orgs # {}
    BY <1>1, <2>2, OtherRuns DEF LookForOrganization
  <2> QED
    BY <2>1, <2>2
<1>2. CASE ReadPermissions(p)
  BY <1>2, OtherRuns DEF ReadPermissions
<1>3. CASE ClaimPermissions(p)
  BY <1>3, OtherRuns DEF ClaimPermissions
<1>4. CASE CommitOrganization(p)
  BY <1>4, OtherRuns DEF CommitOrganization
<1>5. CASE CommitPart(p)
  <2>1. CASE UNCHANGED proc
    BY <2>1 DEF RunsTyped
  <2>2. CASE Go(p, AfterSeed(p))
    BY <2>2, GoTypes DEF AfterSeed
  <2> QED
    BY <1>5, <2>1, <2>2 DEF CommitPart
<1>6. CASE CommitReconcile(p)
  BY <1>6, GoTypes DEF CommitReconcile, AfterSeed
<1>7. CASE FailSeed(p)
  BY <1>7, GoTypes DEF FailSeed, AfterError
<1> QED
  BY <1>1, <1>2, <1>3, <1>4, <1>5, <1>6, <1>7

LEMMA NextTypes == StartupInv /\ RunsTyped /\ [StartupNext]_startupVars => RunsTyped'
<1> SUFFICES ASSUME StartupInv, RunsTyped, [StartupNext]_startupVars PROVE RunsTyped'
  OBVIOUS
<1>1. ASSUME NEW c \in Container, Boot(c) PROVE RunsTyped'
  BY <1>1, BootTypes
<1>2. ASSUME NEW p \in Operator, BeginDowngrade(p) \/ BeginReset(p) \/ Wipe(p) PROVE RunsTyped'
  <2>1. p \in Process
    BY DEF Process
  <2>2. CASE BeginDowngrade(p)
    <3>1. PICK n : To(p, [pc |-> "downgrade", run |-> Start(schema.revision), to |-> n])
      BY <2>2 DEF BeginDowngrade
    <3> QED
      BY <2>1, <3>1, OtherRuns
  <2>3. CASE BeginReset(p)
    BY <2>1, <2>3, GoTypes DEF BeginReset
  <2>4. CASE Wipe(p)
    BY <2>1, <2>4, GoTypes DEF Wipe
  <2> QED
    BY <1>2, <2>2, <2>3, <2>4
<1>3. ASSUME NEW p \in Process, Work(p) PROVE RunsTyped'
  <2>1. CASE RunStatement(p) \/ Stamp(p)
    BY <2>1, StatementTypes, StampTypes
  <2>2. CASE CommitMigration(p)
    BY <2>2, GoTypes DEF CommitMigration
  <2>3. CASE FailMigration(p)
    BY <2>3, GoTypes DEF FailMigration, AfterError
  <2> QED
    BY <1>3, <2>1, <2>2, <2>3, SeedTypes DEF Work
<1>4. ASSUME NEW p \in Process, Crash(p) PROVE RunsTyped'
  BY <1>4, GoTypes DEF Crash
<1>5. CASE UNCHANGED startupVars
  BY <1>5 DEF startupVars, RunsTyped
<1> QED
  BY <1>1, <1>2, <1>3, <1>4, <1>5 DEF StartupNext

-----------------------------------------------------------------------------
(* Its next statement.                                                     *)

\* No table refers to one of a later revision.
LEMMA RefersBack ==
  ASSUME NEW n \in 1 .. 10, NEW q \in ToSet(Creations[n])
  PROVE  q.refs \subseteq TablesAt(n)
<1> DEFINE C == Creations[n]
<1>1. n \in 1 .. Latest /\ n - 1 \in 0 .. Latest - 1 /\ n \in 0 .. Latest
  BY TenRevisions
<1>2. PICK k \in 1 .. Len(C) : q = C[k]
  BY <1>1, ScriptsTyped DEF ToSet
<1>3. Fitting(C, TablesAt(n - 1)) /\ Len(C) \in Nat /\ \A j \in 1 .. Len(C) : C[j].table \in TablesOf(n)
  BY <1>1, FitsAfter, ScriptsTyped
<1> HIDE DEF C
<1>4. q.refs \subseteq TablesAt(n - 1) \cup Before(C, k - 1) \cup {C[k].table}
  BY <1>2, <1>3 DEF Fitting
<1>5. Before(C, k - 1) \subseteq TablesOf(n)
  BY <1>2, <1>3 DEF Before
<1>6. TablesAt(n - 1) \subseteq TablesAt(n) /\ TablesOf(n) \subseteq TablesAt(n)
  <2>1. n - 1 \in 0 .. Latest /\ n - 1 <= n /\ n \in 1 .. n
    BY <1>1, TenRevisions
  <2> QED
    BY <1>1, <2>1, TablesGrow, TablesSum
<1> QED
  BY <1>2, <1>3, <1>4, <1>5, <1>6

LEMMA UpgradeFits ==
  ASSUME StartupInv, RunsTyped, NEW p \in Process, Migrating(p), Busy(p), proc[p].pc = "upgrade",
         schema.revision = Run(p).from
  PROVE  Fits(p) <=> ~Recreates(p)
<1> DEFINE r == Run(p)
           C == Creations[r.at + 1]
           k == r.done + 1
           s == C[k]
<1>1. r \in Migration /\ UpgradeRight(r, schema.revision)
  BY RunTyped
<1>2. r.at # Latest /\ r.done < Len(C)
  BY DEF Busy, Finished, Script
<1>3. /\ Creation(p) = s /\ View(p) = schema.names \cup r.names
  BY DEF Creation, Script, View
<1>4. r.names \cap Types \subseteq TypesAt(r.at) \cup BeforeTypes(C, r.done)
  BY DEF RunsTyped, TypesRight, Run
<1>5. schema.names \cap Tables = TablesAt(r.from)
  BY DEF StartupInv, SchemaIsRevision
<1>6. /\ Recreates(p) <=> s.types \cap Leftover # {}
      /\ Leftover = (schema.names \cap Types) \ TypesAt(r.from)
  BY <1>3 DEF Recreates, Leftover
<1> HIDE DEF r
<1>7. /\ r.at \in 0 .. Latest /\ r.done \in Nat /\ r.from \in 0 .. Latest /\ r.at < Latest
      /\ r.at + 1 \in 1 .. Latest /\ r.at + 1 \in 1 .. 10 /\ (r.at + 1) - 1 = r.at
      /\ r.from <= r.at
  BY <1>1, <1>2, TenRevisions, MigrationTyped DEF UpgradeRight
<1>8. k \in 1 .. Len(C) /\ k - 1 = r.done
  BY <1>2, <1>7, ScriptsTyped
<1>9. /\ s.table \in TablesOf(r.at + 1) /\ s.table \in Tables
      /\ s.types \subseteq Types /\ s.types \subseteq TypesOf(r.at + 1)
  BY <1>7, <1>8, ScriptsTyped DEF TypesOf
<1>10. /\ s.table \notin Before(C, r.done)
       /\ s.refs \subseteq TablesAt(r.at) \cup Before(C, r.done) \cup {s.table}
       /\ s.types \cap BeforeTypes(C, r.done) = {}
  <2>1. Fitting(C, TablesAt(r.at))
    BY <1>7, FitsAfter
  <2> QED
    BY <1>8, <2>1 DEF Fitting
<1>11. TablesAt(r.at) \cap TablesOf(r.at + 1) = {} /\ TypesAt(r.at) \cap TypesOf(r.at + 1) = {}
  BY <1>7, UpFrom, TypesApart
<1>12. (schema.names \cup r.names) \cap Tables = TablesAt(r.at) \cup Before(C, r.done)
  <2>1. r.names \cap Tables = (TablesAt(r.at) \ TablesAt(r.from)) \cup Before(C, r.done)
    BY <1>1 DEF UpgradeRight, Created, Before
  <2>2. TablesAt(r.from) \subseteq TablesAt(r.at)
    BY <1>7, TablesGrow
  <2> HIDE DEF C
  <2> QED
    BY <1>5, <2>1, <2>2
<1>13. TypesAt(r.from) \subseteq TypesAt(r.at)
  BY <1>7, TypesSum
<1> HIDE DEF C, s
<1>14. s.table \notin schema.names \cup r.names
  BY <1>9, <1>10, <1>11, <1>12
<1>15. s.types \cap (schema.names \cup r.names) = {} <=> s.types \cap Leftover = {}
  BY <1>4, <1>6, <1>9, <1>10, <1>11, <1>13
<1>16. s.refs \subseteq schema.names \cup r.names \cup {s.table}
  BY <1>10, <1>12
<1> QED
  BY <1>3, <1>6, <1>14, <1>15, <1>16 DEF Fits

LEMMA LeavingAll ==
  ASSUME NEW n \in 1 .. 10
  PROVE  Leaving(Creations[n], Drops[n])
<1>1. n \in {1, 2, 3, 4, 5, 6, 7, 8, 9, 10}
  OBVIOUS
<1> QED
  BY ONLY <1>1, Down

LEMMA DowngradeFits ==
  ASSUME StartupInv, NEW p \in Process, Migrating(p), Busy(p), proc[p].pc = "downgrade",
         schema.revision = Run(p).from
  PROVE  Fits(p)
<1> DEFINE r == Run(p)
           to == proc[p].to
           n == r.at
           D == Drops[n]
           k == r.done + 1
           d == D[k]
           view == schema.names \ r.names
<1>1. r \in Migration /\ to \in 0 .. Latest /\ DowngradeRight(r, to, schema.revision)
  BY RunTyped
<1>2. n # to /\ r.done < Len(D)
  BY DEF Busy, Finished, Script
<1>3. Dropped(p) = d /\ View(p) = view
  BY DEF Dropped, Script, View
<1>4. schema.names \cap Tables = TablesAt(r.from)
  BY DEF StartupInv, SchemaIsRevision
<1> HIDE DEF r, to
<1>5. /\ n \in 0 .. Latest /\ r.done \in Nat /\ r.from \in 0 .. Latest /\ Latest \in Nat
      /\ n \in 1 .. Latest /\ n \in 1 .. 10 /\ n - 1 \in 0 .. Latest /\ n <= r.from
  BY <1>1, <1>2, TenRevisions, MigrationTyped DEF DowngradeRight
<1>6. k \in 1 .. Len(D) /\ k - 1 = r.done
  <2>1. Len(D) \in Nat
    BY <1>5, ScriptsTyped
  <2> QED
    <3> DEFINE done == r.done
               len == Len(D)
    <3>1. done \in Nat /\ len \in Nat /\ done < len
      BY <1>2, <1>5, <2>1
    <3> HIDE DEF done, len
    <3>2. done + 1 \in 1 .. len /\ (done + 1) - 1 = done
      BY ONLY <3>1
    <3> QED
      BY <3>2 DEF done, len
<1>7. d \in TablesOf(n) /\ d \in TablesAt(n) /\ d \in Tables
  <2>1. d \in TablesOf(n)
    BY <1>5, <1>6, ScriptsTyped
  <2> QED
    BY <1>5, <2>1, TablesSum
<1>8. Leaving(Creations[n], D)
  BY <1>5, LeavingAll
<1>9. view \cap Tables = TablesAt(n) \ Removed(n, r.done)
  <2>1. r.names \cap Tables = (TablesAt(r.from) \ TablesAt(n)) \cup Removed(n, r.done)
    BY <1>1 DEF DowngradeRight
  <2>2. TablesAt(n) \subseteq TablesAt(r.from)
    BY <1>5, TablesGrow
  <2> QED
    BY <1>4, <2>1, <2>2
<1>10. d \in view
  <2>1. d \notin Removed(n, r.done)
    BY <1>6, <1>8 DEF Leaving, Removed
  <2> QED
    BY <1>7, <1>9, <2>1
<1>11. ASSUME NEW t \in view \cap Tables, d \in RefersTo(t) PROVE t = d
  <2>1. PICK q \in Statements : q.table = t /\ d \in q.refs
    BY <1>11 DEF RefersTo
  <2>2. PICK m \in 1 .. Latest : q \in ToSet(Creations[m])
    BY <2>1 DEF Statements
  <2>3. t \in TablesOf(m)
    BY <2>1, <2>2 DEF TablesOf
  <2>4. t \in TablesAt(n) /\ t \notin Removed(n, r.done)
    BY <1>9
  <2>5. m \in 1 .. n
    <3>1. PICK j \in 1 .. n : t \in TablesOf(j)
      BY <1>5, <2>4, TablesSum
    <3>2. j \in 1 .. Latest
      BY <1>5, <3>1
    <3> QED
      BY <2>3, <3>1, <3>2, TablesApart
  <2>6. CASE m = n
    <3>1. PICK j \in 1 .. Len(Creations[n]) : q = Creations[n][j]
      BY <1>5, <2>2, <2>6, ScriptsTyped DEF ToSet
    <3>2. PICK i \in 1 .. k : D[i] = t
      <4>1. D[k] \in Creations[n][j].refs /\ Creations[n][j].table = t
        BY <2>1, <3>1
      <4>2. \E i \in 1 .. k : D[i] = Creations[n][j].table
        BY ONLY <1>6, <1>8, <3>1, <4>1 DEF Leaving
      <4> QED
        BY <4>1, <4>2
    <3>3. i = k \/ i \in 1 .. r.done
      BY <1>5, <3>2
    <3> QED
      BY <2>4, <3>2, <3>3 DEF Removed
  <2>7. CASE m # n
    <3>1. m \in 1 .. 10 /\ m \in 0 .. Latest /\ m <= n - 1
      BY <1>5, <2>5, <2>7, TenRevisions
    <3>2. d \in TablesAt(m)
      BY <2>1, <2>2, <3>1, RefersBack
    <3>3. d \in TablesAt(n - 1)
      BY <1>5, <3>1, <3>2, TablesGrow
    <3>4. TablesAt(n - 1) \cap TablesOf(n) = {}
      BY <1>5, UpFrom
    <3> QED
      BY ONLY <1>7, <3>3, <3>4
  <2> QED
    BY <2>6, <2>7
<1> HIDE DEF d, view
<1> QED
  BY <1>3, <1>10, <1>11 DEF Fits

\* The revision in alembic_version says which tables there are, and it can be left
\* both ways: an upgrade or a downgrade from any of the ten revisions, alone on the
\* database, finds every table its next statement refers to, none that it creates,
\* and none that still refers to what it drops.  Only an upgrade fails, and exactly
\* when its next statement creates an enumerated type that an earlier downgrade has
\* left (env.py:42-43 and the scripts of migrations/versions as they are).
THEOREM SchemaStands == StartupSpec => []SchemaHolds
<1>1. StartupInit => RunsTyped
  BY DEF StartupInit, Off, RunsTyped, TypesRight
<1>2. StartupInv /\ RunsTyped => SchemaHolds
  <2> SUFFICES ASSUME StartupInv, RunsTyped PROVE SchemaIsRevision /\ UndisturbedRunsFit
    BY DEF SchemaHolds
  <2>1. ASSUME NEW p \in Process, Migrating(p), schema.revision = Run(p).from, Busy(p)
        PROVE  Fits(p) <=> ~Recreates(p)
    <3>1. CASE proc[p].pc = "upgrade"
      BY <2>1, <3>1, UpgradeFits
    <3>2. CASE proc[p].pc = "downgrade"
      <4>1. ~Recreates(p)
        BY <3>2 DEF Recreates
      <4> QED
        BY <2>1, <3>2, <4>1, DowngradeFits
    <3> QED
      BY <2>1, <3>1, <3>2 DEF Migrating
  <2> QED
    BY <2>1 DEF UndisturbedRunsFit, StartupInv
<1> QED
  BY <1>1, <1>2, StartupInvariant, NextTypes, PTL DEF StartupSpec
=============================================================================
