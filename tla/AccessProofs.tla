---------------------------- MODULE AccessProofs ----------------------------
(***************************************************************************)
(* Proofs about Sessions, Directory and RoleUpgrade, and last about the    *)
(* composition of the three: any number of handlers, people, roles,        *)
(* sessions and tokens, of desks, codes and fields, of organizations.      *)
(*                                                                         *)
(* A handler decides on what it has read and commits later; Right says     *)
(* what its reading is still worth by then.  CodesOnce speaks of committed *)
(* rows, and the constraint that keeps it also of rows that are not        *)
(* committed yet: Claims closes the gap.                                   *)
(*                                                                         *)
(* What normalisePhone makes of a complete number is a number of the right *)
(* length: induction over what was typed, by the shortest prefix of which  *)
(* it would be false.                                                      *)
(*                                                                         *)
(* The migration of roles never has two roles of one code because a role   *)
(* keeps its id, and its codes are of one family: Lineage says so.         *)
(***************************************************************************)
EXTENDS MCAccess, TLAPS, WellFoundedInduction

-----------------------------------------------------------------------------
(* Sessions: what a handler has read.                                      *)

\* A login has read an account that was not locked, and active if the password
\* was good; as long as the version is the same, it still is that account.
\* What a handler holds of a token: it is there, and was late only if its
\* session is closed, in which case the handler does not get past the session.
\* An update deletes only roles of its user.
Right(c) ==
  /\ c.pc \in {"failed", "passed"} =>
       /\ ~c.seen.locked /\ (c.pc = "passed" => c.seen.active)
       /\ c.seen.version <= users[c.user].version
       /\ c.seen.version = users[c.user].version => c.seen = users[c.user]
  /\ c.pc \in {"session", "user", "mint", "reuse", "logout", "revoke"} =>
       /\ c.token \in DOMAIN tokens
       /\ c.late => tokens[c.token].session \in closed
       /\ c.pc \in {"user", "mint"} => ~c.late
  /\ c.pc \in {"roles", "delete", "save"} => \A r \in c.gone : r.user = c.update.user

ClosedIsRevoked == \A n \in closed : sessions[n].revoked

SessionsInv ==
  /\ SessionsTypeOK
  /\ FailuresAreCounted /\ LastRoleHeld /\ ClosedIsRevoked
  /\ \A h \in Handler : Right(calls[h])

-----------------------------------------------------------------------------
(* What every step does to the rows others have read.                      *)

\* A user's row stays, gets a newer version, or its lockout ends.
UsersForward ==
  \A u \in User : \/ users'[u] = users[u]
                  \/ users'[u].version > users[u].version
                  \/ users[u].locked /\ users'[u].version = users[u].version

\* Tokens stay, in their session, and closed sessions stay closed.
TokensForward ==
  /\ \A t \in DOMAIN tokens : t \in DOMAIN tokens' /\ tokens'[t].session = tokens[t].session
  /\ closed \subseteq closed'

LEMMA InitInv == SessionsInit => SessionsInv
<1> SUFFICES ASSUME SessionsInit PROVE SessionsInv
  OBVIOUS
<1> USE SessionsAssumption DEF SessionsInit
<1>1. users \in [User -> Account]
  BY DEF Account
<1>2. roles \subseteq RoleRow /\ LastRoleHeld
  <2>1. assigned \in [User -> Role]
    OBVIOUS
  <2>2. roles \subseteq RoleRow
    BY <2>1 DEF RoleRow
  <2>3. \A u \in User : LET r == [user |-> u, role |-> assigned[u], by |-> Seeded] IN
          r \in roles /\ r.user = u /\ r.role = assigned[u]
    OBVIOUS
  <2> QED
    BY <2>2, <2>3 DEF LastRoleHeld
<1>3. calls \in [Handler -> Calls]
  BY DEF Calls
<1>4. SessionsTypeOK
  BY <1>1, <1>2, <1>3 DEF SessionsTypeOK
<1>5. FailuresAreCounted /\ ClosedIsRevoked
  BY DEF FailuresAreCounted, ClosedIsRevoked
<1>6. \A h \in Handler : Right(calls[h])
  BY DEF Right, Waiting
<1> QED
  BY <1>2, <1>4, <1>5, <1>6 DEF SessionsInv

\* What a handler has read keeps its worth while others go on.
LEMMA StayRight ==
  ASSUME SessionsInv, NEW c \in Calls, Right(c), UsersForward, TokensForward,
         users' \in [User -> Account]
  PROVE  Right(c)'
<1>1. ASSUME c.pc \in {"failed", "passed"}
      PROVE  /\ ~c.seen.locked /\ (c.pc = "passed" => c.seen.active)
             /\ c.seen.version <= users'[c.user].version
             /\ c.seen.version = users'[c.user].version => c.seen = users'[c.user]
  <2>1. c.user \in User /\ c.seen \in Account
    BY <1>1 DEF Calls, Waiting
  <2>2. c.seen.version \in Nat /\ users[c.user].version \in Nat /\ users'[c.user].version \in Nat
    BY <2>1 DEF SessionsInv, SessionsTypeOK, Account
  <2>3. /\ ~c.seen.locked /\ (c.pc = "passed" => c.seen.active)
        /\ c.seen.version <= users[c.user].version
        /\ c.seen.version = users[c.user].version => c.seen = users[c.user]
    BY <1>1 DEF Right
  <2>4. CASE users'[c.user] = users[c.user]
    BY <2>3, <2>4
  <2>5. CASE users'[c.user].version > users[c.user].version
    BY <2>2, <2>3, <2>5
  <2>6. CASE users[c.user].locked /\ users'[c.user].version = users[c.user].version
    BY <2>2, <2>3, <2>6
  <2> QED
    BY <2>1, <2>4, <2>5, <2>6 DEF UsersForward
<1>2. c.pc \in {"session", "user", "mint", "reuse", "logout", "revoke"} =>
       /\ c.token \in DOMAIN tokens'
       /\ c.late => tokens'[c.token].session \in closed'
       /\ c.pc \in {"user", "mint"} => ~c.late
  BY DEF Right, TokensForward
<1>3. c.pc \in {"roles", "delete", "save"} => \A r \in c.gone : r.user = c.update.user
  BY DEF Right
<1> QED
  BY <1>1, <1>2, <1>3 DEF Right

\* One handler goes on to c, the others stay where they are.
LEMMA OwnStep ==
  ASSUME SessionsInv, NEW h \in Handler, NEW c \in Calls, Turn(h, c),
         Right(c)', UsersForward, TokensForward, users' \in [User -> Account]
  PROVE  /\ calls' \in [Handler -> Calls]
         /\ \A g \in Handler : Right(calls[g])'
<1>1. calls \in [Handler -> Calls]
  BY DEF SessionsInv, SessionsTypeOK
<1>2. calls' \in [Handler -> Calls] /\ calls'[h] = c /\ \A g \in Handler \ {h} : calls'[g] = calls[g]
  BY <1>1 DEF Turn
<1>3. ASSUME NEW g \in Handler PROVE Right(calls[g])'
  <2>1. CASE g = h
    BY <1>2, <2>1 DEF Right
  <2>2. CASE g # h
    <3>1. calls[g] \in Calls /\ Right(calls[g]) /\ calls'[g] = calls[g]
      BY <1>1, <1>2, <2>2 DEF SessionsInv
    <3> DEFINE d == calls[g]
    <3>2. \A e \in Calls : Right(e) => Right(e)'
      BY StayRight
    <3>3. d \in Calls /\ Right(d)
      BY <3>1
    <3> QED
      BY <3>1, <3>2
  <2> QED
    BY <2>1, <2>2
<1> QED
  BY <1>2, <1>3

\* A step that writes no row.
LEMMA QuietStep ==
  ASSUME SessionsInv, NEW h \in Handler, NEW c \in Calls, Turn(h, c), Right(c),
         UNCHANGED People, UNCHANGED Tokens
  PROVE  SessionsInv'
<1>1. UNCHANGED <<users, roles, sessions, tokens, misses, closed, assigned>>
  BY DEF People, Tokens
<1>2. UsersForward /\ TokensForward /\ users' \in [User -> Account]
  BY <1>1 DEF UsersForward, TokensForward, SessionsInv, SessionsTypeOK
<1>3. Right(c)'
  BY <1>1 DEF Right
<1>4. calls' \in [Handler -> Calls] /\ \A g \in Handler : Right(calls[g])'
  BY <1>2, <1>3, OwnStep
<1>5. SessionsTypeOK' /\ (FailuresAreCounted /\ LastRoleHeld /\ ClosedIsRevoked)'
  BY <1>1, <1>4 DEF SessionsInv, SessionsTypeOK, FailuresAreCounted, LastRoleHeld, ClosedIsRevoked
<1> QED
  BY <1>4, <1>5 DEF SessionsInv

\* A handler that has nothing to do.
LEMMA Idle == Waiting \in Calls /\ Right(Waiting) /\ Right(Waiting)'
BY DEF Calls, Waiting, Right

LEMMA StepGoOff ==
  ASSUME SessionsInv, NEW h \in Handler, Deny(h) \/ Vanish(h)
  PROVE  SessionsInv'
BY Idle, QuietStep DEF Deny, Vanish

-----------------------------------------------------------------------------
(* What the types say of a call.                                           *)

LEMMA LoginTyped ==
  ASSUME SessionsInv, NEW h \in Handler, calls[h].pc \in {"failed", "passed"}
  PROVE  /\ calls[h].user \in User /\ calls[h].seen \in Account
         /\ calls[h].seen.version = users[calls[h].user].version =>
              calls[h].seen = users[calls[h].user] /\ ~users[calls[h].user].locked
         /\ calls[h].pc = "passed" => calls[h].seen.active
<1>1. calls[h] \in Calls /\ Right(calls[h])
  BY DEF SessionsInv, SessionsTypeOK
<1>2. calls[h].user \in User /\ calls[h].seen \in Account
  BY <1>1 DEF Calls, Waiting
<1> QED
  BY <1>1, <1>2 DEF Right

LEMMA Elements ==
  ASSUME NEW S, NEW s \in Seq(S), NEW n \in DOMAIN s
  PROVE  s[n] \in S
OBVIOUS

LEMMA TokensTyped ==
  ASSUME SessionsInv, NEW t \in DOMAIN tokens
  PROVE  tokens[t] \in [session : DOMAIN sessions, used : BOOLEAN, revoked : BOOLEAN]
<1>1. tokens \in Seq([session : DOMAIN sessions, used : BOOLEAN, revoked : BOOLEAN])
  BY DEF SessionsInv, SessionsTypeOK
<1> QED
  BY <1>1, Elements

LEMMA TokenTyped ==
  ASSUME SessionsInv, NEW h \in Handler,
         calls[h].pc \in {"session", "user", "mint", "reuse", "logout", "revoke"}
  PROVE  /\ calls[h].token \in DOMAIN tokens /\ calls[h].late \in BOOLEAN
         /\ TokenOf(h).session \in DOMAIN sessions
         /\ calls[h].late => TokenOf(h).session \in closed
         /\ calls[h].pc \in {"user", "mint"} => ~calls[h].late
<1>1. calls[h] \in Calls /\ Right(calls[h])
  BY DEF SessionsInv, SessionsTypeOK
<1>2. calls[h].late \in BOOLEAN
  <2>1. \/ calls[h] \in [pc : {"session", "user", "mint", "reuse", "logout"},
                         token : Nat \ {0}, late : BOOLEAN]
        \/ calls[h] \in [pc : {"revoke"}, token : Nat \ {0}, late : BOOLEAN,
                         gone : SUBSET (Nat \ {0})]
    BY <1>1 DEF Calls, Waiting
  <2>2. CASE calls[h] \in [pc : {"session", "user", "mint", "reuse", "logout"},
                           token : Nat \ {0}, late : BOOLEAN]
    BY <2>2, Zenon
  <2>3. CASE calls[h] \in [pc : {"revoke"}, token : Nat \ {0}, late : BOOLEAN,
                           gone : SUBSET (Nat \ {0})]
    BY <2>3, Zenon
  <2> QED
    BY <2>1, <2>2, <2>3
<1>3. calls[h].token \in DOMAIN tokens
  BY <1>1 DEF Right
<1>4. TokenOf(h).session \in DOMAIN sessions
  BY <1>3, TokensTyped DEF TokenOf
<1> QED
  BY <1>1, <1>2, <1>3, <1>4 DEF Right, TokenOf

LEMMA UpdateTyped ==
  ASSUME SessionsInv, NEW h \in Handler, calls[h].pc \in {"roles", "delete", "save"}
  PROVE  /\ Update(h) \in Updates /\ calls[h].seen \in Account
         /\ calls[h].gone \in SUBSET RoleRow
         /\ \A r \in calls[h].gone : r.user = Update(h).user
         /\ calls[h] \in [pc : {"roles", "delete", "save"}, update : Updates, seen : Account,
                          gone : SUBSET RoleRow]
<1>1. calls[h] \in Calls /\ Right(calls[h])
  BY DEF SessionsInv, SessionsTypeOK
<1>2. calls[h] \in [pc : {"roles", "delete", "save"}, update : Updates, seen : Account,
                    gone : SUBSET RoleRow]
  BY <1>1 DEF Calls, Waiting
<1> QED
  BY <1>1, <1>2 DEF Right, Update

-----------------------------------------------------------------------------
(* authenticate.                                                           *)

LEMMA StepBeginLogin ==
  ASSUME SessionsInv, NEW h \in Handler, NEW u \in User, BeginLogin(h, u)
  PROVE  SessionsInv'
<1>1. PICK good \in BOOLEAN :
        Turn(h, [pc |-> IF good /\ users[u].active THEN "passed" ELSE "failed",
                 user |-> u, seen |-> users[u]])
  BY DEF BeginLogin
<1> DEFINE pc == IF good /\ users[u].active THEN "passed" ELSE "failed"
           c == [pc |-> pc, user |-> u, seen |-> users[u]]
<1>2. users[u] \in Account /\ users[u].version \in Nat
  BY DEF SessionsInv, SessionsTypeOK, Account
<1>3. pc \in {"failed", "passed"} /\ (pc = "passed" => users[u].active) /\ ~users[u].locked
  BY DEF BeginLogin
<1>4. Turn(h, c)
  BY <1>1
<1> HIDE DEF pc
<1>5. c \in Calls
  BY <1>2, <1>3 DEF Calls
<1>6. Right(c)
  BY <1>2, <1>3 DEF Right
<1> QED
  BY <1>4, <1>5, <1>6, QuietStep DEF BeginLogin

\* What a failed attempt makes of the account.
LEMMA MissedTyped ==
  ASSUME NEW a \in Account
  PROVE  /\ Missed(a) \in Account /\ Missed(a).version = a.version + 1
         /\ Missed(a).failed \in {0, a.failed + 1}
<1> USE SessionsAssumption DEF Account
<1>1. CASE a.failed + 1 >= MaxFailedLogins
  <2>1. Missed(a) = [a EXCEPT !.failed = 0, !.locked = TRUE, !.version = @ + 1]
    BY <1>1 DEF Missed
  <2>2. Missed(a) = [active |-> a.active, locked |-> TRUE, failed |-> 0, version |-> a.version + 1]
    BY <2>1
  <2> QED
    BY <2>2
<1>2. CASE ~(a.failed + 1 >= MaxFailedLogins)
  <2>1. Missed(a) = [a EXCEPT !.failed = @ + 1, !.version = @ + 1]
    BY <1>2 DEF Missed
  <2>2. Missed(a) = [active |-> a.active, locked |-> a.locked, failed |-> a.failed + 1,
                     version |-> a.version + 1]
    BY <2>1
  <2> QED
    BY <1>2, <2>2
<1> QED
  BY <1>1, <1>2

LEMMA StepCommitFailure ==
  ASSUME SessionsInv, NEW h \in Handler, CommitFailure(h)
  PROVE  SessionsInv'
<1> DEFINE u == calls[h].user
           a == users[u]
<1>1. u \in User /\ a \in Account /\ calls[h].seen = a
  BY LoginTyped DEF CommitFailure, Outdated, SessionsInv, SessionsTypeOK
<1>2. /\ users' = [users EXCEPT ![u] = Missed(a)]
      /\ misses' = [misses EXCEPT ![u] = IF users'[u].failed = 0 THEN 0 ELSE @ + 1]
      /\ Turn(h, Waiting)
      /\ UNCHANGED <<roles, assigned, sessions, tokens, closed>>
  BY <1>1 DEF CommitFailure, Tokens
<1>3. Missed(a) \in Account /\ Missed(a).version = a.version + 1 /\ a.version \in Nat
      /\ Missed(a).failed \in {0, a.failed + 1}
  BY <1>1, MissedTyped DEF Account
<1>4. /\ users' \in [User -> Account] /\ users'[u] = Missed(a)
      /\ \A v \in User : v # u => users'[v] = users[v]
  BY <1>1, <1>2, <1>3 DEF SessionsInv, SessionsTypeOK
<1>5. UsersForward /\ TokensForward
  BY <1>2, <1>3, <1>4 DEF UsersForward, TokensForward
<1>6. calls' \in [Handler -> Calls] /\ \A g \in Handler : Right(calls[g])'
  BY <1>2, <1>4, <1>5, Idle, OwnStep
<1>7. misses' \in [User -> Nat] /\ FailuresAreCounted'
  BY <1>1, <1>2, <1>3, <1>4 DEF SessionsInv, SessionsTypeOK, FailuresAreCounted
<1>8. SessionsTypeOK' /\ (LastRoleHeld /\ ClosedIsRevoked)'
  BY <1>2, <1>4, <1>6, <1>7 DEF SessionsInv, SessionsTypeOK, LastRoleHeld, ClosedIsRevoked
<1> QED
  BY <1>6, <1>7, <1>8 DEF SessionsInv

LEMMA Widened ==
  ASSUME NEW S, NEW T, S \subseteq T, NEW s \in Seq(S)
  PROVE  s \in Seq(T)
OBVIOUS

\* What a change of is_active makes of the account.
LEMMA ActiveTyped ==
  ASSUME NEW a \in Account, NEW x \in BOOLEAN, NEW b,
         b = [a EXCEPT !.active = x, !.version = @ + 1]
  PROVE  b \in Account /\ b.version = a.version + 1 /\ b.failed = a.failed
<1>1. b = [active |-> x, locked |-> a.locked, failed |-> a.failed, version |-> a.version + 1]
  BY DEF Account
<1>2. a.locked \in BOOLEAN /\ a.failed \in 0 .. MaxFailedLogins - 1 /\ a.version \in Nat
  BY Zenon DEF Account
<1>3. a.version + 1 \in Nat
  BY <1>2
<1> QED
  BY <1>1, <1>2, <1>3, Zenon DEF Account

\* What a login makes of the account.
LEMMA WelcomeTyped ==
  ASSUME NEW a \in Account, NEW b,
         b = [a EXCEPT !.failed = 0, !.locked = FALSE, !.version = @ + 1]
  PROVE  /\ b \in Account /\ b.version = a.version + 1 /\ b.failed = 0
         /\ b.active = a.active /\ ~b.locked
<1>1. b = [active |-> a.active, locked |-> FALSE, failed |-> 0, version |-> a.version + 1]
  BY DEF Account
<1>2. 0 \in 0 .. MaxFailedLogins - 1
  BY SessionsAssumption
<1>3. a.active \in BOOLEAN /\ a.version \in Nat
  BY Zenon DEF Account
<1>4. b \in Account
  <2>1. a.version + 1 \in Nat /\ FALSE \in BOOLEAN
    BY <1>3
  <2> QED
    BY <1>1, <1>2, <1>3, <2>1, Zenon DEF Account
<1>5. b.version = a.version + 1 /\ b.failed = 0 /\ b.active = a.active
  BY <1>1
<1>6. ~b.locked
  BY <1>1
<1> QED
  BY <1>4, <1>5, <1>6

LEMMA StepCommitLogin ==
  ASSUME SessionsInv, NEW h \in Handler, CommitLogin(h)
  PROVE  SessionsInv'
<1> DEFINE u == calls[h].user
           a == users[u]
           b == [a EXCEPT !.failed = 0, !.locked = FALSE, !.version = @ + 1]
           m == Len(sessions) + 1
<1>1. u \in User /\ a \in Account /\ calls[h].seen = a
  BY LoginTyped DEF CommitLogin, Outdated, SessionsInv, SessionsTypeOK
<1>2. /\ users' = [users EXCEPT ![u] = b]
      /\ misses' = [misses EXCEPT ![u] = 0]
      /\ sessions' = Append(sessions, [user |-> u, revoked |-> FALSE])
      /\ tokens' = Append(tokens, [session |-> Len(sessions'), used |-> FALSE, revoked |-> FALSE])
      /\ Turn(h, Waiting)
      /\ UNCHANGED <<roles, assigned, closed>>
  BY <1>1 DEF CommitLogin
<1>3. b \in Account /\ b.version = a.version + 1 /\ a.version \in Nat /\ b.failed = 0
  BY <1>1, WelcomeTyped DEF Account
<1> HIDE DEF b
<1>4. /\ users' \in [User -> Account] /\ users'[u] = b
      /\ \A v \in User : v # u => users'[v] = users[v]
  BY <1>1, <1>2, <1>3 DEF SessionsInv, SessionsTypeOK
<1>5. /\ sessions' \in Seq([user : User, revoked : BOOLEAN])
      /\ DOMAIN sessions = 1 .. (m - 1) /\ DOMAIN sessions' = 1 .. m /\ Len(sessions') = m
      /\ m \in Nat \ {0}
      /\ \A n \in DOMAIN sessions : sessions'[n] = sessions[n]
  BY <1>1, <1>2 DEF SessionsInv, SessionsTypeOK
<1>6. /\ tokens' \in Seq([session : DOMAIN sessions', used : BOOLEAN, revoked : BOOLEAN])
      /\ \A t \in DOMAIN tokens : t \in DOMAIN tokens' /\ tokens'[t] = tokens[t]
  <2>1. tokens \in Seq([session : 1 .. m, used : BOOLEAN, revoked : BOOLEAN])
    <3>1. [session : DOMAIN sessions, used : BOOLEAN, revoked : BOOLEAN]
            \subseteq [session : 1 .. m, used : BOOLEAN, revoked : BOOLEAN]
      BY <1>5
    <3>2. tokens \in Seq([session : DOMAIN sessions, used : BOOLEAN, revoked : BOOLEAN])
      BY DEF SessionsInv, SessionsTypeOK
    <3> QED
      BY <3>1, <3>2, Widened
  <2>2. tokens' = Append(tokens, [session |-> m, used |-> FALSE, revoked |-> FALSE])
    BY <1>2, <1>5
  <2>3. [session |-> m, used |-> FALSE, revoked |-> FALSE]
          \in [session : 1 .. m, used : BOOLEAN, revoked : BOOLEAN]
    BY <1>5
  <2>4. tokens' \in Seq([session : 1 .. m, used : BOOLEAN, revoked : BOOLEAN])
    BY <2>1, <2>2, <2>3
  <2>5. \A t \in DOMAIN tokens : t \in DOMAIN tokens' /\ tokens'[t] = tokens[t]
    BY <2>1, <2>2, <2>3
  <2> QED
    BY <1>5, <2>4, <2>5
<1>7. UsersForward /\ TokensForward
  BY <1>2, <1>3, <1>4, <1>6 DEF UsersForward, TokensForward
<1>8. calls' \in [Handler -> Calls] /\ \A g \in Handler : Right(calls[g])'
  BY <1>2, <1>4, <1>7, Idle, OwnStep
<1>9. misses' \in [User -> Nat] /\ FailuresAreCounted'
  BY <1>1, <1>2, <1>3, <1>4 DEF SessionsInv, SessionsTypeOK, FailuresAreCounted
<1>10. closed' \subseteq DOMAIN sessions' /\ ClosedIsRevoked'
  BY <1>2, <1>5 DEF SessionsInv, SessionsTypeOK, ClosedIsRevoked
<1>11. SessionsTypeOK' /\ LastRoleHeld'
  BY <1>2, <1>4, <1>5, <1>6, <1>8, <1>9, <1>10 DEF SessionsInv, SessionsTypeOK, LastRoleHeld
<1> QED
  BY <1>8, <1>9, <1>10, <1>11 DEF SessionsInv

LEMMA StepLockoutEnds ==
  ASSUME SessionsInv, NEW u \in User, LockoutEnds(u)
  PROVE  SessionsInv'
<1> DEFINE b == [users[u] EXCEPT !.locked = FALSE]
<1>1. users \in [User -> Account] /\ users[u] \in Account /\ users[u].locked
  BY DEF SessionsInv, SessionsTypeOK, LockoutEnds
<1>2. b \in Account /\ b.version = users[u].version /\ b.failed = users[u].failed
  BY <1>1 DEF Account
<1>3. users' = [users EXCEPT ![u] = b]
  BY <1>1 DEF LockoutEnds
<1>4. UNCHANGED <<roles, misses, assigned, calls, sessions, tokens, closed>>
  BY DEF LockoutEnds, Tokens
<1> HIDE DEF b
<1>5. /\ users' \in [User -> Account] /\ users'[u] = b
      /\ \A v \in User : v # u => users'[v] = users[v]
  BY <1>1, <1>2, <1>3
<1>6. UsersForward /\ TokensForward
  BY <1>1, <1>2, <1>4, <1>5 DEF UsersForward, TokensForward
<1>7. \A g \in Handler : Right(calls[g])'
  <2>1. \A e \in Calls : Right(e) => Right(e)'
    BY <1>5, <1>6, StayRight
  <2>2. \A g \in Handler : calls[g] \in Calls /\ Right(calls[g]) /\ calls'[g] = calls[g]
    BY <1>4 DEF SessionsInv, SessionsTypeOK
  <2> QED
    BY <2>1, <2>2
<1>8. SessionsTypeOK' /\ (FailuresAreCounted /\ LastRoleHeld /\ ClosedIsRevoked)'
  BY <1>2, <1>4, <1>5
  DEF SessionsInv, SessionsTypeOK, FailuresAreCounted, LastRoleHeld, ClosedIsRevoked
<1> QED
  BY <1>7, <1>8 DEF SessionsInv

-----------------------------------------------------------------------------
(* refresh and logout.                                                     *)

LEMMA StepPresent ==
  ASSUME SessionsInv, NEW h \in Handler, NEW t \in DOMAIN tokens,
         NEW pc \in {"session", "reuse", "logout"}, Present(h, t, pc)
  PROVE  SessionsInv'
<1> DEFINE late == tokens[t].session \in closed
           c == [pc |-> pc, token |-> t, late |-> late]
<1>1. t \in Nat \ {0} /\ late \in BOOLEAN
  BY DEF SessionsInv, SessionsTypeOK
<1>2. c.pc = pc /\ c.token = t /\ (c.late => tokens[t].session \in closed)
  OBVIOUS
<1> HIDE DEF late
<1>3. c \in Calls
  BY <1>1, Zenon DEF Calls
<1>4. Right(c)
  BY <1>2 DEF Right
<1> QED
  BY <1>3, <1>4, QuietStep DEF Present, late

LEMMA StepBegin ==
  ASSUME SessionsInv, NEW h \in Handler, NEW t \in DOMAIN tokens,
         BeginRefresh(h, t) \/ BeginLogout(h, t)
  PROVE  SessionsInv'
BY StepPresent DEF BeginRefresh, BeginLogout

\* A handler that moves on with the token it holds.
LEMMA MoveOn ==
  ASSUME SessionsInv, NEW h \in Handler, calls[h].pc \in {"session", "user"},
         NEW pc \in {"user", "mint"}, To(h, pc), ~calls[h].late,
         UNCHANGED People, UNCHANGED Tokens
  PROVE  SessionsInv'
<1> DEFINE c == [pc |-> pc, token |-> calls[h].token, late |-> calls[h].late]
<1>1. calls \in [Handler -> Calls]
  BY DEF SessionsInv, SessionsTypeOK
<1>2. calls[h] \in [pc : {"session", "user", "mint", "reuse", "logout"}, token : Nat \ {0},
                    late : BOOLEAN]
  BY <1>1 DEF Calls, Waiting
<1>3. [calls[h] EXCEPT !.pc = pc] = c
  BY <1>2
<1>4. calls' = [calls EXCEPT ![h] = [calls[h] EXCEPT !.pc = pc]]
  BY DEF To
<1>5. Turn(h, c)
  BY <1>3, <1>4 DEF Turn
<1>6. c \in Calls
  BY <1>2, Zenon DEF Calls
<1>7. Right(c)
  BY TokenTyped DEF Right
<1> QED
  BY <1>5, <1>6, <1>7, QuietStep

\* A closed session is revoked, so a late handler stops here.
LEMMA StepReadSession ==
  ASSUME SessionsInv, NEW h \in Handler, ReadSession(h)
  PROVE  SessionsInv'
<1>1. ~calls[h].late
  BY TokenTyped DEF ReadSession, SessionsInv, ClosedIsRevoked, SessionOf
<1> QED
  BY <1>1, MoveOn DEF ReadSession

LEMMA StepReadUser ==
  ASSUME SessionsInv, NEW h \in Handler, ReadUser(h)
  PROVE  SessionsInv'
<1>1. ~calls[h].late
  BY TokenTyped DEF ReadUser
<1> QED
  BY <1>1, MoveOn DEF ReadUser

LEMMA StepRevokeTokens ==
  ASSUME SessionsInv, NEW h \in Handler, RevokeTokens(h)
  PROVE  SessionsInv'
<1> DEFINE gone == {n \in DOMAIN tokens : tokens[n].session = TokenOf(h).session}
           c == [pc |-> "revoke", token |-> calls[h].token, late |-> calls[h].late, gone |-> gone]
<1>1. /\ calls[h].token \in DOMAIN tokens /\ calls[h].late \in BOOLEAN
      /\ calls[h].late => tokens[calls[h].token].session \in closed
  BY TokenTyped DEF RevokeTokens, TokenOf
<1>2. DOMAIN tokens \subseteq Nat \ {0}
  BY DEF SessionsInv, SessionsTypeOK
<1>3. gone \in SUBSET (Nat \ {0}) /\ calls[h].token \in Nat \ {0}
  BY <1>1, <1>2
<1> HIDE DEF gone
<1>4. c \in Calls
  BY <1>1, <1>3, Zenon DEF Calls
<1>5. Right(c)
  BY <1>1 DEF Right
<1> QED
  BY <1>4, <1>5, QuietStep DEF RevokeTokens, gone

\* A step of a handler that writes tokens and sessions, and ends its request.
LEMMA TokenStep ==
  ASSUME SessionsInv, NEW h \in Handler, Turn(h, Waiting), UNCHANGED People,
         sessions' \in Seq([user : User, revoked : BOOLEAN]),
         tokens' \in Seq([session : DOMAIN sessions', used : BOOLEAN, revoked : BOOLEAN]),
         closed' \subseteq DOMAIN sessions', ClosedIsRevoked', TokensForward
  PROVE  SessionsInv'
<1>1. UNCHANGED <<users, roles, misses, assigned>>
  BY DEF People
<1>2. UsersForward /\ users' \in [User -> Account]
  BY <1>1 DEF UsersForward, SessionsInv, SessionsTypeOK
<1>3. calls' \in [Handler -> Calls] /\ \A g \in Handler : Right(calls[g])'
  BY <1>2, Idle, OwnStep
<1>4. (FailuresAreCounted /\ LastRoleHeld)'
  BY <1>1 DEF SessionsInv, FailuresAreCounted, LastRoleHeld
<1>5. SessionsTypeOK'
  BY <1>1, <1>2, <1>3 DEF SessionsInv, SessionsTypeOK
<1> QED
  BY <1>3, <1>4, <1>5 DEF SessionsInv

LEMMA StepMint ==
  ASSUME SessionsInv, NEW h \in Handler, Mint(h)
  PROVE  SessionsInv'
<1> DEFINE Token == [session : DOMAIN sessions, used : BOOLEAN, revoked : BOOLEAN]
           t == calls[h].token
           old == [tokens[t] EXCEPT !.used = TRUE]
           new == [session |-> TokenOf(h).session, used |-> FALSE, revoked |-> FALSE]
           spent == [tokens EXCEPT ![t] = old]
<1>1. t \in DOMAIN tokens /\ TokenOf(h).session \in DOMAIN sessions
  BY TokenTyped DEF Mint
<1>2. tokens \in Seq(Token) /\ tokens[t] \in Token
  BY <1>1, TokensTyped DEF SessionsInv, SessionsTypeOK
<1>3. new \in Token
  BY <1>1, Zenon
<1>4. old \in Token /\ old.session = tokens[t].session
  BY <1>2
<1>5. tokens' = Append(spent, new)
  BY DEF Mint
<1> HIDE DEF Token, old, new
<1>6. /\ spent \in Seq(Token) /\ DOMAIN spent = DOMAIN tokens
      /\ \A n \in DOMAIN tokens : spent[n].session = tokens[n].session
  BY <1>1, <1>2, <1>4
<1> HIDE DEF spent
<1>7. tokens' \in Seq(Token) /\ \A n \in DOMAIN spent : n \in DOMAIN tokens' /\ tokens'[n] = spent[n]
  BY <1>3, <1>5, <1>6
<1>8. UNCHANGED <<sessions, closed>> /\ UNCHANGED People /\ Turn(h, Waiting)
  BY DEF Mint
<1>9. TokensForward
  BY <1>6, <1>7, <1>8 DEF TokensForward
<1>10. /\ sessions' \in Seq([user : User, revoked : BOOLEAN])
       /\ closed' \subseteq DOMAIN sessions' /\ ClosedIsRevoked'
  BY <1>8 DEF SessionsInv, SessionsTypeOK, ClosedIsRevoked
<1>11. tokens' \in Seq([session : DOMAIN sessions', used : BOOLEAN, revoked : BOOLEAN])
  BY <1>7, <1>8 DEF Token
<1> QED
  BY <1>8, <1>9, <1>10, <1>11, TokenStep

\* What a revocation makes of a token, and of a session.
LEMMA RevokedTyped ==
  ASSUME NEW S, NEW t \in [session : S, used : BOOLEAN, revoked : BOOLEAN],
         NEW x \in BOOLEAN, NEW b, b = [t EXCEPT !.revoked = x]
  PROVE  b \in [session : S, used : BOOLEAN, revoked : BOOLEAN] /\ b.session = t.session
<1>1. b = [session |-> t.session, used |-> t.used, revoked |-> x]
  OBVIOUS
<1>2. t.session \in S /\ t.used \in BOOLEAN
  BY Zenon
<1> QED
  BY <1>1, <1>2, Zenon

LEMMA StepCommitRevocation ==
  ASSUME SessionsInv, NEW h \in Handler, CommitRevocation(h)
  PROVE  SessionsInv'
<1> DEFINE Session == [user : User, revoked : BOOLEAN]
           Token == [session : DOMAIN sessions, used : BOOLEAN, revoked : BOOLEAN]
           s == TokenOf(h).session
           ended == [sessions[s] EXCEPT !.revoked = TRUE]
           after(n) == [tokens[n] EXCEPT !.revoked = tokens[n].revoked \/ n \in calls[h].gone]
<1>1. s \in DOMAIN sessions
  BY TokenTyped DEF CommitRevocation
<1>2. sessions \in Seq(Session) /\ sessions[s] \in Session /\ tokens \in Seq(Token)
  BY <1>1, Elements DEF SessionsInv, SessionsTypeOK
<1>3. ended \in Session /\ ended.revoked
  BY <1>2
<1>4. sessions' = [sessions EXCEPT ![s] = ended]
  BY <1>1, <1>2 DEF CommitRevocation
<1>5. ASSUME NEW n \in DOMAIN tokens
      PROVE  after(n) \in Token /\ after(n).session = tokens[n].session
  <2> DEFINE x == tokens[n].revoked \/ n \in calls[h].gone
  <2>1. x \in BOOLEAN
    OBVIOUS
  <2>2. tokens[n] \in Token
    BY TokensTyped
  <2> HIDE DEF x
  <2>3. \A b : b = [tokens[n] EXCEPT !.revoked = x] =>
                 b \in Token /\ b.session = tokens[n].session
    BY <2>1, <2>2, RevokedTyped
  <2> QED
    BY <2>3 DEF x
<1>6. tokens' = [n \in DOMAIN tokens |-> after(n)]
  BY DEF CommitRevocation
<1>7. closed' = closed \cup {s} /\ Turn(h, Waiting) /\ UNCHANGED People
  BY DEF CommitRevocation
<1> HIDE DEF Session, ended
<1>8. /\ sessions' \in Seq(Session) /\ DOMAIN sessions' = DOMAIN sessions
      /\ sessions'[s] = ended
      /\ \A n \in DOMAIN sessions : n # s => sessions'[n] = sessions[n]
  BY <1>1, <1>2, <1>3, <1>4
<1> HIDE DEF Token, after
<1>9. /\ tokens' \in Seq(Token) /\ DOMAIN tokens' = DOMAIN tokens
      /\ \A n \in DOMAIN tokens : tokens'[n].session = tokens[n].session
  BY <1>2, <1>5, <1>6
<1>10. TokensForward
  BY <1>7, <1>9 DEF TokensForward
<1>11. closed' \subseteq DOMAIN sessions' /\ ClosedIsRevoked'
  BY <1>1, <1>3, <1>7, <1>8 DEF SessionsInv, SessionsTypeOK, ClosedIsRevoked
<1>12. tokens' \in Seq([session : DOMAIN sessions', used : BOOLEAN, revoked : BOOLEAN])
  BY <1>8, <1>9 DEF Token
<1>13. sessions' \in Seq([user : User, revoked : BOOLEAN])
  BY <1>8 DEF Session
<1> QED
  BY <1>7, <1>10, <1>11, <1>12, <1>13, TokenStep

-----------------------------------------------------------------------------
(* update_user.                                                            *)

LEMMA StepBeginUpdate ==
  ASSUME SessionsInv, NEW h \in Handler, NEW q \in Request, BeginUpdate(h, q)
  PROVE  SessionsInv'
<1> DEFINE pc == IF q.role = Keep THEN "save" ELSE "roles"
           c == [pc |-> pc, update |-> q, seen |-> users[q.user], gone |-> {}]
<1>1. q \in Updates /\ q.user \in User
  BY SessionsAssumption DEF Updates
<1>2. users[q.user] \in Account
  BY <1>1 DEF SessionsInv, SessionsTypeOK
<1>3. pc \in {"roles", "delete", "save"}
  OBVIOUS
<1>4. Turn(h, c)
  BY DEF BeginUpdate
<1> HIDE DEF pc
<1>5. c \in Calls
  BY <1>1, <1>2, <1>3 DEF Calls
<1>6. Right(c)
  BY <1>3 DEF Right
<1> QED
  BY <1>4, <1>5, <1>6, QuietStep DEF BeginUpdate

\* An update that goes on with another set of rows to delete.
LEMMA GoOn ==
  ASSUME SessionsInv, NEW h \in Handler, calls[h].pc \in {"roles", "delete"},
         NEW pc \in {"delete", "save"}, NEW gone \in SUBSET RoleRow,
         \A r \in gone : r.user = Update(h).user,
         calls' = [calls EXCEPT ![h].pc = pc, ![h].gone = gone],
         UNCHANGED People, UNCHANGED Tokens
  PROVE  SessionsInv'
<1> DEFINE c == [pc |-> pc, update |-> Update(h), seen |-> calls[h].seen, gone |-> gone]
<1>1. /\ Update(h) \in Updates /\ calls[h].seen \in Account
      /\ calls[h] \in [pc : {"roles", "delete", "save"}, update : Updates, seen : Account,
                       gone : SUBSET RoleRow]
  BY UpdateTyped
<1>2. ASSUME NEW b, b = [calls[h] EXCEPT !.pc = pc, !.gone = gone] PROVE b = c
  BY <1>1, <1>2 DEF Update
<1>3. calls \in [Handler -> Calls]
  BY DEF SessionsInv, SessionsTypeOK
<1>4. calls' = [calls EXCEPT ![h] = [calls[h] EXCEPT !.pc = pc, !.gone = gone]]
  BY <1>3
<1>5. Turn(h, c)
  BY <1>2, <1>4 DEF Turn
<1>6. c \in Calls
  BY <1>1 DEF Calls
<1>7. Right(c)
  BY DEF Right
<1> QED
  BY <1>5, <1>6, <1>7, QuietStep

LEMMA StepPickRoles ==
  ASSUME SessionsInv, NEW h \in Handler, PickRoles(h)
  PROVE  SessionsInv'
<1> DEFINE gone == {r \in roles : r.user = Update(h).user}
<1>1. gone \in SUBSET RoleRow /\ \A r \in gone : r.user = Update(h).user
  BY DEF SessionsInv, SessionsTypeOK
<1>2. calls' = [calls EXCEPT ![h].pc = "delete", ![h].gone = gone]
  BY DEF PickRoles
<1> HIDE DEF gone
<1> QED
  BY <1>1, <1>2, GoOn DEF PickRoles

LEMMA StepDeleteRoles ==
  ASSUME SessionsInv, NEW h \in Handler, DeleteRoles(h)
  PROVE  SessionsInv'
<1> DEFINE gone == calls[h].gone \cap roles
<1>1. gone \in SUBSET RoleRow /\ \A r \in gone : r.user = Update(h).user
  BY UpdateTyped DEF DeleteRoles
<1>2. calls' = [calls EXCEPT ![h].pc = "save", ![h].gone = gone]
  BY DEF DeleteRoles, SessionsInv, SessionsTypeOK
<1> HIDE DEF gone
<1> QED
  <2>1. calls[h].pc \in {"roles", "delete"} /\ UNCHANGED People /\ UNCHANGED Tokens
    BY DEF DeleteRoles
  <2> QED
    BY <1>1, <1>2, <2>1, GoOn

LEMMA StepSaveUpdate ==
  ASSUME SessionsInv, NEW h \in Handler, SaveUpdate(h)
  PROVE  SessionsInv'
<1> DEFINE q == Update(h)
           u == q.user
           b == [users[u] EXCEPT !.active = q.active, !.version = @ + 1]
<1>1. /\ q \in Updates /\ u \in User /\ q.active \in BOOLEAN \cup {Keep}
      /\ q.role \in Role \cup {Keep}
      /\ calls[h].gone \in SUBSET RoleRow /\ \A r \in calls[h].gone : r.user = u
  BY UpdateTyped DEF SaveUpdate, Updates
<1>2. users \in [User -> Account] /\ users[u] \in Account /\ users[u].version \in Nat
  BY <1>1 DEF SessionsInv, SessionsTypeOK, Account
<1>3. Turn(h, Waiting) /\ UNCHANGED <<misses, sessions, tokens, closed>>
  BY DEF SaveUpdate, Tokens
<1>4. /\ users' \in [User -> Account]
      /\ \A v \in User : /\ users'[v] = users[v] \/ users'[v].version > users[v].version
                         /\ users'[v].failed = users[v].failed
  <2>1. CASE ~Changes(h)
    BY <1>2, <2>1 DEF SaveUpdate
  <2>2. CASE Changes(h)
    <3>1. users' = [users EXCEPT ![u] = b]
      BY <1>1, <1>2, <2>2 DEF SaveUpdate
    <3>2. q.active \in BOOLEAN
      BY <1>1, <2>2 DEF Changes
    <3>3. \A x \in BOOLEAN : \A y : y = [users[u] EXCEPT !.active = x, !.version = @ + 1] =>
            y \in Account /\ y.version = users[u].version + 1 /\ y.failed = users[u].failed
      BY <1>2, ActiveTyped
    <3>4. b \in Account /\ b.version = users[u].version + 1 /\ b.failed = users[u].failed
      BY <3>2, <3>3
    <3> HIDE DEF b
    <3> QED
      BY <1>1, <1>2, <3>1, <3>4
  <2> QED
    BY <2>1, <2>2
<1>5. UsersForward /\ TokensForward
  BY <1>3, <1>4 DEF UsersForward, TokensForward
<1>6. calls' \in [Handler -> Calls] /\ \A g \in Handler : Right(calls[g])'
  BY <1>3, <1>4, <1>5, Idle, OwnStep
<1>7. /\ roles' \subseteq RoleRow /\ assigned' \in [User -> Role] /\ LastRoleHeld'
  <2>1. CASE q.role = Keep
    BY <2>1 DEF SaveUpdate, SessionsInv, SessionsTypeOK, LastRoleHeld
  <2>2. CASE q.role # Keep
    <3> DEFINE row == RowOf(h)
    <3>1. row \in RoleRow /\ row.user = u /\ row.role = q.role
      BY <1>1, <2>2 DEF RowOf, RoleRow
    <3> HIDE DEF row
    <3>2. /\ roles' = (roles \ calls[h].gone) \cup {row}
          /\ assigned' = [assigned EXCEPT ![u] = q.role]
      BY <2>2 DEF SaveUpdate, RolesAfter, row
    <3>3. roles' \subseteq RoleRow /\ assigned' \in [User -> Role]
      BY <1>1, <2>2, <3>1, <3>2 DEF SessionsInv, SessionsTypeOK
    <3>4. ASSUME NEW v \in User PROVE \E r \in roles' : r.user = v /\ r.role = assigned'[v]
      <4>1. CASE v = u
        BY <1>1, <3>1, <3>2, <4>1 DEF SessionsInv, SessionsTypeOK
      <4>2. CASE v # u
        <5>1. PICK r \in roles : r.user = v /\ r.role = assigned[v]
          BY DEF SessionsInv, LastRoleHeld
        <5>2. r \notin calls[h].gone
          BY <1>1, <4>2, <5>1
        <5> QED
          BY <3>2, <4>2, <5>1, <5>2 DEF SessionsInv, SessionsTypeOK
      <4> QED
        BY <4>1, <4>2
    <3> QED
      BY <3>3, <3>4 DEF LastRoleHeld
  <2> QED
    BY <2>1, <2>2
<1>8. (FailuresAreCounted /\ ClosedIsRevoked)'
  BY <1>3, <1>4 DEF SessionsInv, FailuresAreCounted, ClosedIsRevoked
<1>9. SessionsTypeOK'
  BY <1>3, <1>4, <1>6, <1>7 DEF SessionsInv, SessionsTypeOK
<1> QED
  BY <1>6, <1>7, <1>8, <1>9 DEF SessionsInv

-----------------------------------------------------------------------------
LEMMA SessionsNextInv == SessionsInv /\ [SessionsNext]_sessionVars => SessionsInv'
<1> SUFFICES ASSUME SessionsInv, [SessionsNext]_sessionVars PROVE SessionsInv'
  OBVIOUS
<1>1. CASE UNCHANGED sessionVars
  BY <1>1 DEF sessionVars, SessionsInv, SessionsTypeOK, FailuresAreCounted, LastRoleHeld,
              ClosedIsRevoked, Right
<1>2. CASE SessionsNext
  BY <1>2, StepLockoutEnds, StepBeginLogin, StepBegin, StepBeginUpdate, StepCommitFailure,
     StepCommitLogin, StepReadSession, StepReadUser, StepMint, StepRevokeTokens,
     StepCommitRevocation, StepPickRoles, StepDeleteRoles, StepSaveUpdate, StepGoOff
  DEF SessionsNext
<1> QED
  BY <1>1, <1>2

\* The invariant, for any people, handlers and roles.
THEOREM SessionsInvariant == SessionsSpec => []SessionsInv
BY InitInv, SessionsNextInv, PTL DEF SessionsSpec

\* Rows and requests keep their types (auth/models.py, users/models.py).
THEOREM SessionsTypeCorrect == SessionsSpec => []SessionsTypeOK
<1>1. SessionsInv => SessionsTypeOK
  BY DEF SessionsInv
<1> QED
  BY <1>1, SessionsInvariant, PTL

\* However many logins and updates of one user run at once, no answered failure
\* is lost to the lockout and the last role given is held.
THEOREM AccountsAddUp == SessionsSpec => [](FailuresAreCounted /\ LastRoleHeld)
<1>1. SessionsInv => FailuresAreCounted /\ LastRoleHeld
  BY DEF SessionsInv
<1> QED
  BY <1>1, SessionsInvariant, PTL

\* Nobody who was deactivated or locked out enters, and no session that was
\* closed gets another token, whatever a handler had read before.
THEOREM NobodyReturns == SessionsSpec => ShutOutStaysOut
<1>1. SessionsInv /\ [SessionsNext]_sessionVars =>
        [Len(sessions') > Len(sessions) =>
           LET u == sessions'[Len(sessions')].user IN users[u].active /\ ~users[u].locked]_sessionVars
  <2> SUFFICES ASSUME SessionsInv, [SessionsNext]_sessionVars, Len(sessions') > Len(sessions)
               PROVE  LET u == sessions'[Len(sessions')].user IN
                      users[u].active /\ ~users[u].locked
    OBVIOUS
  <2>1. Len(sessions) \in Nat /\ sessions \in Seq([user : User, revoked : BOOLEAN])
    BY DEF SessionsInv, SessionsTypeOK
  <2>2. sessions' # sessions
    BY <2>1
  <2>3. ASSUME NEW h \in Handler, CommitRevocation(h) PROVE Len(sessions') = Len(sessions)
    <3>1. DOMAIN sessions' = DOMAIN sessions
      BY <2>3 DEF CommitRevocation
    <3>2. sessions' \in Seq([user : User, revoked : BOOLEAN])
      BY <2>3, StepCommitRevocation DEF SessionsInv, SessionsTypeOK
    <3> QED
      BY <2>1, <3>1, <3>2
  <2>4. PICK h \in Handler : CommitLogin(h)
    <3>1. SessionsNext
      BY <2>2 DEF sessionVars
    <3>2. ASSUME NEW u \in User, LockoutEnds(u) PROVE sessions' = sessions
      BY <3>2 DEF LockoutEnds, Tokens
    <3>3. ASSUME NEW h \in Handler,
                 \/ \E u \in User : BeginLogin(h, u)
                 \/ \E t \in DOMAIN tokens : BeginRefresh(h, t) \/ BeginLogout(h, t)
                 \/ \E q \in Request : BeginUpdate(h, q)
          PROVE  sessions' = sessions
      BY <3>3 DEF BeginLogin, BeginRefresh, BeginLogout, Present, BeginUpdate, Tokens
    <3>4. ASSUME NEW h \in Handler,
                 \/ CommitFailure(h) \/ ReadSession(h) \/ ReadUser(h) \/ Mint(h)
                 \/ RevokeTokens(h)
          PROVE  sessions' = sessions
      BY <3>4 DEF CommitFailure, ReadSession, ReadUser, Mint, RevokeTokens, Tokens
    <3>5. ASSUME NEW h \in Handler,
                 PickRoles(h) \/ DeleteRoles(h) \/ SaveUpdate(h) \/ Deny(h) \/ Vanish(h)
          PROVE  sessions' = sessions
      BY <3>5 DEF PickRoles, DeleteRoles, SaveUpdate, Deny, Vanish, Tokens
    <3> QED
      BY <2>1, <2>2, <2>3, <3>1, <3>2, <3>3, <3>4, <3>5 DEF SessionsNext
  <2> DEFINE u == calls[h].user
  <2>5. calls[h].seen = users[u] /\ ~users[u].locked /\ calls[h].seen.active
    BY <2>4, LoginTyped DEF CommitLogin, Outdated
  <2>6. sessions' = Append(sessions, [user |-> u, revoked |-> FALSE])
    BY <2>4 DEF CommitLogin
  <2>7. sessions'[Len(sessions')].user = u
    BY <2>1, <2>6
  <2> QED
    BY <2>5, <2>7
<1>2. SessionsInv /\ [SessionsNext]_sessionVars =>
        [\A h \in Handler : Mint(h) => ~calls[h].late]_sessionVars
  <2> SUFFICES ASSUME SessionsInv, NEW h \in Handler, Mint(h) PROVE ~calls[h].late
    OBVIOUS
  <2> QED
    BY TokenTyped DEF Mint
<1> QED
  BY <1>1, <1>2, SessionsInvariant, PTL
  DEF SessionsSpec, ShutOutStaysOut, NobodyShutOutEnters, LoggedOutStaysOut

-----------------------------------------------------------------------------
(* Directory: what normalisePhone makes of what was typed.                 *)

\* A set of numbers has a least one.
LEMMA LeastNat ==
  ASSUME NEW T, T \subseteq Nat, T # {}
  PROVE  \E n \in T : \A m \in T : n <= m
<1>1. PICK n \in T : \A m \in T : ~ (<<m, n>> \in OpToRel(<, Nat))
  BY WFMin, NatLessThanWellFounded
<1>2. ASSUME NEW m \in T PROVE n <= m
  <2>1. ~ (<<m, n>> \in OpToRel(<, Nat))
    BY <1>1
  <2>2. m \in Nat /\ n \in Nat
    OBVIOUS
  <2>3. ~ (m < n)
    BY <2>1, <2>2 DEF OpToRel
  <2> QED
    BY <2>2, <2>3
<1> QED
  BY <1>2

\* What is kept of the first n characters.
Round(s, f, n) == IF n = 0 THEN <<>>
                  ELSE IF s[n] \in 0 .. 9 THEN Append(f[n - 1], s[n]) ELSE f[n - 1]

\* There is such a function.
LEMMA SiftedThere ==
  ASSUME NEW s, NEW L \in Nat
  PROVE  \E f : f = [n \in 0 .. L |-> Round(s, f, n)]
<1> DEFINE T == {k \in Nat : ~ \E f : f = [n \in 0 .. k |-> Round(s, f, n)]}
<1> SUFFICES T = {}
  OBVIOUS
<1> SUFFICES ASSUME T # {} PROVE FALSE
  OBVIOUS
<1>1. PICK k \in T : \A m \in T : k <= m
  BY LeastNat
<1>2. k # 0
  <2> DEFINE f == [n \in 0 .. 0 |-> <<>>]
  <2>1. f = [n \in 0 .. 0 |-> Round(s, f, n)]
    BY DEF Round
  <2> HIDE DEF f
  <2> QED
    BY <2>1
<1>3. k - 1 \in Nat /\ k - 1 \notin T
  BY <1>1, <1>2
<1>4. PICK f : f = [n \in 0 .. (k - 1) |-> Round(s, f, n)]
  BY <1>3
<1> DEFINE g == [n \in 0 .. k |-> IF n = k THEN Round(s, f, k) ELSE f[n]]
<1>5. g = [n \in 0 .. k |-> Round(s, g, n)]
  <2>1. ASSUME NEW n \in 0 .. k PROVE g[n] = Round(s, g, n)
    <3>1. n # 0 => n - 1 \in 0 .. (k - 1) /\ g[n - 1] = f[n - 1]
      BY <1>3
    <3>2. Round(s, g, n) = Round(s, f, n)
      BY <3>1 DEF Round
    <3>3. CASE n = k
      BY <3>2, <3>3
    <3>4. CASE n # k
      <4>1. n \in 0 .. (k - 1) /\ g[n] = f[n]
        BY <3>4, <1>3
      <4>2. f[n] = Round(s, f, n)
        BY <1>4, <4>1, Zenon
      <4> QED
        BY <4>1, <4>2, <3>2
    <3> QED
      BY <3>3, <3>4
  <2> HIDE DEF g
  <2>2. \E h : g = [n \in 0 .. k |-> h[n]]
    <3>1. g = [n \in 0 .. k |-> g[n]]
      BY DEF g
    <3> QED
      BY <3>1
  <2>3. g = [n \in 0 .. k |-> g[n]]
    BY DEF g
  <2>4. [n \in 0 .. k |-> g[n]] = [n \in 0 .. k |-> Round(s, g, n)]
    BY <2>1
  <2> QED
    BY <2>3, <2>4, Zenon
<1> HIDE DEF g
<1> QED
  BY <1>1, <1>5

\* DigitsOf keeps digits and nothing else.
LEMMA DigitsTyped ==
  ASSUME NEW s \in Seq(Nat)
  PROVE  DigitsOf(s) \in Seq(0 .. 9)
<1> DEFINE L == Len(s)
           Sifted == CHOOSE f : f = [n \in 0 .. L |-> Round(s, f, n)]
<1>1. L \in Nat
  OBVIOUS
<1>2. Sifted = [n \in 0 .. L |-> Round(s, Sifted, n)]
  BY <1>1, SiftedThere
<1>3. DigitsOf(s) = Sifted[L]
  BY Zenon DEF DigitsOf, Round
<1> HIDE DEF Sifted, L
<1>4. \A n \in 0 .. L : Sifted[n] \in Seq(0 .. 9)
  <2> DEFINE T == {n \in 0 .. L : Sifted[n] \notin Seq(0 .. 9)}
  <2> SUFFICES ASSUME T # {} PROVE FALSE
    OBVIOUS
  <2>1. T \subseteq Nat
    BY <1>1
  <2>2. PICK n \in T : \A m \in T : n <= m
    BY <2>1, LeastNat
  <2>3. n \in 0 .. L /\ Sifted[n] \notin Seq(0 .. 9)
    OBVIOUS
  <2>4. Sifted[n] = Round(s, Sifted, n)
    BY <1>2, <2>3, Zenon
  <2>5. <<>> \in Seq(0 .. 9)
    OBVIOUS
  <2>6. n # 0
    BY <2>3, <2>4, <2>5, Zenon DEF Round
  <2>7. n - 1 \in 0 .. L /\ n - 1 \notin T
    BY <1>1, <2>2, <2>3, <2>6
  <2>8. Sifted[n - 1] \in Seq(0 .. 9)
    BY <2>7
  <2>9. ASSUME s[n] \in 0 .. 9 PROVE Append(Sifted[n - 1], s[n]) \in Seq(0 .. 9)
    BY <2>8, <2>9
  <2> HIDE DEF T
  <2> QED
    BY <2>3, <2>4, <2>6, <2>8, <2>9, Zenon DEF Round
<1> QED
  BY <1>1, <1>3, <1>4

\* A complete number becomes a number of the right length.
LEMMA NumbersTyped ==
  ASSUME NEW s \in Seq(Nat), Len(DigitsOf(s)) >= Digits
  PROVE  NormalisePhone(s) \in Numbers
<1> DEFINE d == DigitsOf(s)
           m == IF Len(d) > Digits THEN Len(d) - Digits + 1 ELSE 1
<1>1. d \in Seq(0 .. 9)
  BY DigitsTyped
<1>2. NormalisePhone(s) = SubSeq(d, m, Len(d))
  BY Zenon DEF NormalisePhone
<1>3. Len(d) >= Digits
  OBVIOUS
<1> HIDE DEF d
<1>4. m \in 1 .. Len(d) /\ Len(d) - m + 1 = Digits
  BY <1>1, <1>3, DirectoryAssumption
<1> HIDE DEF m
<1>5. SubSeq(d, m, Len(d)) = [i \in 1 .. Digits |-> d[i + m - 1]]
  BY <1>1, <1>4
<1>6. \A i \in 1 .. Digits : d[i + m - 1] \in 0 .. 9
  BY <1>1, <1>4, DirectoryAssumption
<1> QED
  BY <1>2, <1>5, <1>6 DEF Numbers

-----------------------------------------------------------------------------
(* Directory: records that are not committed yet.                          *)

KeyAsked(ask) == IF ask.kind = "counter" THEN CodeFor[ask.phone] ELSE ask.key

LEMMA NumbersAreTexts == Numbers \subseteq Seq(Nat) /\ Blank \notin Numbers
<1>1. ASSUME NEW m \in Numbers PROVE m \in Seq(Nat)
  <2>1. m \in [1 .. Digits -> 0 .. 9] /\ Digits \in Nat
    BY DirectoryAssumption, Zenon DEF Numbers
  <2> QED
    BY <2>1
<1> QED
  BY <1>1, DirectoryAssumption

\* An account a counter has opened has the code of the number it was told.
Opened == \A n \in DOMAIN records : records[n].told # Blank =>
                                      records[n].key = CodeFor[records[n].told]

\* The phone of a row is one of those it has had.
Holding == \A n \in DOMAIN records : records[n].fields["phone"] # Blank =>
                                       records[n].fields["phone"] \in records[n].phones

\* A code that is inserted and not committed is in no row, and nobody else's.
Claims ==
  \A d \in Desk : desks[d].pc = "inserted" =>
    /\ \A n \in DOMAIN records : records[n].key # KeyAsked(desks[d].ask)
    /\ \A e \in Desk \ {d} : desks[e].pc = "inserted" =>
                               KeyAsked(desks[e].ask) # KeyAsked(desks[d].ask)

\* What a desk refers to is there, and a counter names whom it was told.
Refers(x) ==
  /\ x.pc = "named" =>
       /\ x.record \in DOMAIN records
       /\ x.ask.kind = "counter" => \/ \E p \in records[x.record].phones : NormalisePhone(p) = x.ask.phone
                                    \/ records[x.record].key = CodeFor[x.ask.phone]
  /\ x.pc \in {"edit", "save"} =>
       /\ x.change.record \in DOMAIN records
       /\ x.change.field = "phone" => x.change.value \in Seq(Nat)

DirectoryInv ==
  /\ DirectoryTypeOK
  /\ CodesOnce /\ Opened /\ Holding /\ NoEditLost
  /\ Claims
  /\ \A d \in Desk : Refers(desks[d])

-----------------------------------------------------------------------------
LEMMA DirectoryInitInv == DirectoryInit => DirectoryInv
BY DEF DirectoryInit, DirectoryInv, DirectoryTypeOK, Desks, NobodyYet, CodesOnce, Opened,
       Holding, NoEditLost, Claims, Refers

\* Steps that write no row: what is left to show is what they make of the desk.
LEMMA QuietDesk ==
  ASSUME DirectoryInv, NEW d \in Desk, NEW x \in Desks, Sit(d, x), UNCHANGED Rows,
         Refers(x),
         x.pc = "inserted" =>
           /\ \A n \in DOMAIN records : records[n].key # KeyAsked(x.ask)
           /\ \A e \in Desk \ {d} : desks[e].pc = "inserted" =>
                                      KeyAsked(desks[e].ask) # KeyAsked(x.ask)
  PROVE  DirectoryInv'
<1> USE DEF Sit, Rows
<1>1. desks' \in [Desk -> Desks] /\ desks'[d] = x /\ \A e \in Desk \ {d} : desks'[e] = desks[e]
  BY DEF DirectoryInv, DirectoryTypeOK
<1>2. records' = records /\ edits' = edits
  OBVIOUS
<1>3. DirectoryTypeOK'
  BY <1>1, <1>2 DEF DirectoryInv, DirectoryTypeOK
<1>4. (CodesOnce /\ Opened /\ Holding /\ NoEditLost)'
  BY <1>2 DEF DirectoryInv, CodesOnce, Opened, Holding, NoEditLost
<1>5. Claims'
  BY <1>1, <1>2 DEF DirectoryInv, Claims
<1>6. \A e \in Desk : Refers(desks[e])'
  BY <1>1, <1>2 DEF DirectoryInv, Refers
<1> QED
  BY <1>3, <1>4, <1>5, <1>6 DEF DirectoryInv

\* What the types say of one desk.
LEMMA AskTyped ==
  ASSUME DirectoryInv, NEW d \in Desk,
         desks[d].pc \in {"lookup", "check", "insert", "inserted", "conflict", "error", "named"}
  PROVE  /\ desks[d].ask \in Asking
         /\ KeyOf(d) = KeyAsked(desks[d].ask)
BY DEF DirectoryInv, DirectoryTypeOK, Desks, NobodyYet, KeyOf, KeyAsked, Ask

LEMMA StepBeginCreate ==
  ASSUME DirectoryInv, NEW d \in Desk, NEW k \in Wanted, BeginCreate(d, k)
  PROVE  DirectoryInv'
<1>1. PICK p \in {Blank} \cup (IF k \in CustomerKey THEN Given["phone"] ELSE {}) :
        Sit(d, [pc |-> IF k \in LookedUp THEN "check" ELSE "insert",
                ask |-> [kind |-> "create", key |-> k, phone |-> p]])
  BY DEF BeginCreate
<1> DEFINE x == [pc |-> IF k \in LookedUp THEN "check" ELSE "insert",
                 ask |-> [kind |-> "create", key |-> k, phone |-> p]]
<1>2. p \in {Blank} \cup Seq(Nat) /\ k \in Key
  BY DirectoryAssumption
<1>3. x.ask \in Asking
  BY <1>2 DEF Asking
<1>4. x \in Desks /\ x.pc \in {"check", "insert"}
  BY <1>3 DEF Desks
<1>5. Refers(x)
  BY <1>4 DEF Refers
<1>6. UNCHANGED Rows
  BY DEF BeginCreate
<1> HIDE DEF x
<1> QED
  BY <1>1, <1>4, <1>5, <1>6, QuietDesk DEF x

LEMMA StepBeginCounter ==
  ASSUME DirectoryInv, NEW d \in Desk, NEW s \in Typed, BeginCounter(d, s)
  PROVE  DirectoryInv'
<1> DEFINE x == [pc |-> "lookup", ask |-> [kind |-> "counter", phone |-> NormalisePhone(s)]]
<1>1. NormalisePhone(s) \in Numbers
  BY NumbersTyped, DirectoryAssumption DEF BeginCounter
<1>2. x \in Desks
  BY <1>1 DEF Desks, Asking
<1>3. Refers(x)
  BY DEF Refers
<1> QED
  BY <1>2, <1>3, QuietDesk DEF BeginCounter

\* A step that only moves a desk on, without naming a row.
LEMMA DeskMovesOn ==
  ASSUME DirectoryInv, NEW d \in Desk, UNCHANGED Rows,
         desks[d].pc \in {"lookup", "check", "insert"},
         NEW pc \in {"check", "insert", "conflict", "error", "inserted"}, Step(d, pc),
         pc = "inserted" => Coded(KeyOf(d)) = {} /\ ~Pending(d)
  PROVE  DirectoryInv'
<1> DEFINE x == [pc |-> pc, ask |-> desks[d].ask]
<1>1. desks[d].ask \in Asking /\ KeyOf(d) = KeyAsked(desks[d].ask)
  BY AskTyped
<1>2. desks[d] = [pc |-> desks[d].pc, ask |-> desks[d].ask]
  BY DEF DirectoryInv, DirectoryTypeOK, Desks, NobodyYet
<1>3. Sit(d, x)
  <2>1. [desks[d] EXCEPT !.pc = pc] = x
    BY <1>2
  <2>2. desks' = [desks EXCEPT ![d] = [desks[d] EXCEPT !.pc = pc]]
    BY DEF Step
  <2> QED
    BY <2>1, <2>2 DEF Sit
<1>4. x \in Desks /\ Refers(x)
  BY <1>1 DEF Desks, Refers
<1>5. ASSUME pc = "inserted", NEW e \in Desk \ {d}, desks[e].pc = "inserted"
      PROVE  KeyAsked(desks[e].ask) # KeyAsked(desks[d].ask)
  BY <1>1, <1>5, AskTyped DEF Pending
<1>6. pc = "inserted" => \A n \in DOMAIN records : records[n].key # KeyAsked(desks[d].ask)
  BY <1>1 DEF Coded
<1> QED
  BY <1>3, <1>4, <1>5, <1>6, QuietDesk

\* A desk that names the row it has found.
LEMMA Naming ==
  ASSUME DirectoryInv, NEW d \in Desk, UNCHANGED Rows,
         desks[d].pc \in {"lookup", "conflict"}, NEW n \in DOMAIN records, Name(d, n),
         desks[d].ask.kind = "counter" => \/ n \in Found(desks[d].ask.phone)
                                          \/ n \in Coded(KeyOf(d))
  PROVE  DirectoryInv'
<1> DEFINE x == [pc |-> "named", ask |-> desks[d].ask, record |-> n]
<1>1. desks[d].ask \in Asking /\ KeyOf(d) = KeyAsked(desks[d].ask)
  BY AskTyped
<1>2. n \in Nat \ {0}
  BY DEF DirectoryInv, DirectoryTypeOK
<1>3. x \in Desks
  BY <1>1, <1>2 DEF Desks
<1>4. ASSUME desks[d].ask.kind = "counter"
      PROVE  \/ \E p \in records[n].phones : NormalisePhone(p) = desks[d].ask.phone
             \/ records[n].key = CodeFor[desks[d].ask.phone]
  <2>1. CASE n \in Found(desks[d].ask.phone)
    <3>1. /\ records[n].fields["phone"] # Blank
          /\ NormalisePhone(records[n].fields["phone"]) = desks[d].ask.phone
      BY <2>1 DEF Found, HasPhone
    <3>2. records[n].fields["phone"] \in records[n].phones
      BY <3>1 DEF DirectoryInv, Holding
    <3> QED
      BY <3>1, <3>2
  <2>2. CASE n \in Coded(KeyOf(d))
    BY <1>1, <1>4, <2>2 DEF Coded, KeyAsked
  <2> QED
    BY <1>4, <2>1, <2>2
<1>5. Refers(x)
  BY <1>4 DEF Refers
<1> QED
  BY <1>3, <1>5, QuietDesk DEF Name, Ask

LEMMA StepLookUp ==
  ASSUME DirectoryInv, NEW d \in Desk, LookUp(d)
  PROVE  DirectoryInv'
<1>1. CASE Found(Ask(d).phone) = {}
  BY <1>1, DeskMovesOn DEF LookUp
<1>2. CASE Found(Ask(d).phone) # {}
  BY <1>2, Naming DEF LookUp, Found, Searched, Ask
<1> QED
  BY <1>1, <1>2

LEMMA StepCheck ==
  ASSUME DirectoryInv, NEW d \in Desk, Check(d)
  PROVE  DirectoryInv'
BY DeskMovesOn DEF Check

LEMMA StepInsert ==
  ASSUME DirectoryInv, NEW d \in Desk, Insert(d)
  PROVE  DirectoryInv'
BY DeskMovesOn DEF Insert

LEMMA StepReadBack ==
  ASSUME DirectoryInv, NEW d \in Desk, ReadBack(d)
  PROVE  DirectoryInv'
BY Naming DEF ReadBack, Found, Searched, Coded, Ask

LEMMA StepCommitRecord ==
  ASSUME DirectoryInv, NEW d \in Desk, CommitRecord(d)
  PROVE  DirectoryInv'
<1> DEFINE r == NewRecord(d)
           N == Len(records) + 1
           x == [pc |-> "named", ask |-> desks[d].ask, record |-> N]
<1>1. desks[d].ask \in Asking /\ KeyOf(d) = KeyAsked(desks[d].ask)
  BY AskTyped DEF CommitRecord
<1>2. desks[d].ask.kind = "counter" =>
        desks[d].ask.phone \in Numbers /\ desks[d].ask.phone # Blank
  BY <1>1, NumbersAreTexts DEF Asking
<1>3. /\ r \in Record
      /\ r.key = KeyAsked(desks[d].ask)
      /\ r.version = 1
      /\ r.told # Blank => r.key = CodeFor[r.told]
      /\ r.fields["phone"] # Blank => r.fields["phone"] \in r.phones
      /\ desks[d].ask.kind = "counter" => r.key = CodeFor[desks[d].ask.phone]
  <2>1. KeyOf(d) \in Key
    BY <1>1, <1>2, DirectoryAssumption DEF Asking, KeyAsked
  <2>2. desks[d].ask.phone \in {Blank} \cup Seq(Nat)
    BY <1>1, NumbersAreTexts DEF Asking
  <2>3. "phone" \in Field
    BY DirectoryAssumption
  <2>4. r \in Record
    <3> DEFINE A == Ask(d)
               told == IF A.kind = "counter" THEN A.phone ELSE Blank
               phones == {A.phone} \ {Blank}
               V == (UNION {Given[f] : f \in Field}) \cup {Blank} \cup Seq(Nat)
               fields == [f \in Field |-> IF f = "phone" THEN A.phone ELSE Blank]
    <3>1. told \in Numbers \cup {Blank} /\ phones \in SUBSET Seq(Nat)
      BY <1>2, <2>2 DEF Ask
    <3>2. fields \in [Field -> V]
      <4>1. A.phone \in V /\ Blank \in V
        BY <2>2 DEF Ask
      <4>2. \A f \in Field : (IF f = "phone" THEN A.phone ELSE Blank) \in V
        BY <4>1
      <4> HIDE DEF V, A
      <4> QED
        BY <4>2
    <3>3. r = [key |-> KeyOf(d), told |-> told, phones |-> phones, fields |-> fields,
               version |-> 1]
      BY DEF NewRecord
    <3> HIDE DEF told, phones, fields, V
    <3>4. [key |-> KeyOf(d), told |-> told, phones |-> phones, fields |-> fields, version |-> 1]
            \in [key : Key, told : Numbers \cup {Blank}, phones : SUBSET Seq(Nat),
                fields : [Field -> V], version : Nat]
      BY <2>1, <3>1, <3>2
    <3> QED
      BY <3>3, <3>4 DEF Record, V
  <2>5. r.key = KeyAsked(desks[d].ask) /\ r.version = 1
    BY <1>1 DEF NewRecord
  <2>6. r.told # Blank => r.key = CodeFor[r.told]
    BY <1>1 DEF NewRecord, Ask, KeyAsked
  <2>7. r.fields["phone"] = desks[d].ask.phone /\ r.phones = {desks[d].ask.phone} \ {Blank}
    BY <2>3 DEF NewRecord, Ask
  <2>8. desks[d].ask.kind = "counter" => r.key = CodeFor[desks[d].ask.phone]
    BY <2>5 DEF KeyAsked
  <2> QED
    BY <2>4, <2>5, <2>6, <2>7, <2>8
<1> HIDE DEF r
<1>4. /\ records \in Seq(Record) /\ Len(records) \in Nat
      /\ records' = Append(records, r)
      /\ N \in Nat \ {0}
      /\ Len(records') = N /\ DOMAIN records' = 1 .. N
      /\ DOMAIN records = 1 .. Len(records)
      /\ records'[N] = r
      /\ \A n \in DOMAIN records : records'[n] = records[n]
      /\ records' \in Seq(Record)
  BY <1>3 DEF CommitRecord, DirectoryInv, DirectoryTypeOK, r
<1>5. edits' = [n \in DOMAIN records' |-> IF n = N THEN 0 ELSE edits[n]]
  <2>1. edits \in [1 .. Len(records) -> Nat]
    BY <1>4 DEF DirectoryInv, DirectoryTypeOK
  <2>2. edits \in Seq(Nat) /\ Len(edits) = Len(records)
    BY <1>4, <2>1
  <2>3. edits' = Append(edits, 0)
    BY DEF CommitRecord
  <2>4. /\ edits' \in Seq(Nat) /\ Len(edits') = N /\ edits'[N] = 0
        /\ \A n \in 1 .. Len(edits) : edits'[n] = edits[n]
    BY <2>2, <2>3
  <2>5. edits' = [n \in 1 .. N |-> edits'[n]]
    BY <2>4
  <2>6. \A n \in 1 .. N : edits'[n] = IF n = N THEN 0 ELSE edits[n]
    BY <1>4, <2>2, <2>4
  <2> QED
    BY <1>4, <2>5, <2>6
<1>6. desks' = [desks EXCEPT ![d] = x]
  BY <1>4 DEF CommitRecord, Name, Sit, Ask
<1>7. x \in Desks
  BY <1>1, <1>4 DEF Desks
<1>8. /\ desks' \in [Desk -> Desks] /\ desks'[d] = x
      /\ \A e \in Desk \ {d} : desks'[e] = desks[e]
  BY <1>6, <1>7 DEF DirectoryInv, DirectoryTypeOK
<1>9. DirectoryTypeOK'
  <2>1. edits' \in [DOMAIN records' -> Nat]
    BY <1>4, <1>5 DEF DirectoryInv, DirectoryTypeOK
  <2> QED
    BY <1>4, <1>8, <2>1 DEF DirectoryTypeOK
<1>10. \A n \in DOMAIN records : records[n].key # r.key
  BY <1>3 DEF DirectoryInv, Claims, CommitRecord
<1>11. CodesOnce'
  BY <1>4, <1>10 DEF DirectoryInv, CodesOnce
<1>12. (Opened /\ Holding)'
  BY <1>3, <1>4 DEF DirectoryInv, Opened, Holding
<1>13. NoEditLost'
  BY <1>3, <1>4, <1>5 DEF DirectoryInv, NoEditLost
<1>14. Claims'
  <2> SUFFICES ASSUME NEW e \in Desk, desks'[e].pc = "inserted"
               PROVE  /\ \A n \in DOMAIN records' : records'[n].key # KeyAsked(desks[e].ask)
                      /\ \A f \in Desk \ {e} : desks'[f].pc = "inserted" =>
                            KeyAsked(desks[f].ask) # KeyAsked(desks[e].ask)
    BY <1>8 DEF Claims
  <2>1. e # d /\ desks[e].pc = "inserted" /\ desks[d].pc = "inserted"
    BY <1>8 DEF CommitRecord
  <2>2. r.key # KeyAsked(desks[e].ask)
    BY <1>3, <2>1 DEF DirectoryInv, Claims
  <2>3. \A n \in DOMAIN records' : records'[n].key # KeyAsked(desks[e].ask)
    BY <1>4, <2>1, <2>2 DEF DirectoryInv, Claims
  <2>4. ASSUME NEW f \in Desk \ {e}, desks'[f].pc = "inserted"
        PROVE  KeyAsked(desks[f].ask) # KeyAsked(desks[e].ask)
    BY <1>8, <2>1, <2>4 DEF DirectoryInv, Claims
  <2> QED
    BY <2>3, <2>4
<1>15. ASSUME NEW e \in Desk PROVE Refers(desks[e])'
  <2>1. CASE e = d
    <3>1. desks'[e] = x /\ records'[N] = r /\ N \in DOMAIN records'
      BY <1>4, <1>8, <2>1
    <3>2. x.ask.kind = "counter" => records'[N].key = CodeFor[x.ask.phone]
      BY <1>3, <3>1
    <3> QED
      BY <3>1, <3>2 DEF Refers
  <2>2. CASE e # d
    <3>1. desks'[e] = desks[e] /\ Refers(desks[e])
      BY <1>8, <2>2 DEF DirectoryInv
    <3> QED
      BY <1>4, <3>1 DEF Refers
  <2> QED
    BY <2>1, <2>2
<1> QED
  BY <1>9, <1>11, <1>12, <1>13, <1>14, <1>15 DEF DirectoryInv

-----------------------------------------------------------------------------
\* What the types and references say of a desk that edits.
LEMMA EditTyped ==
  ASSUME DirectoryInv, NEW d \in Desk, desks[d].pc \in {"edit", "save"}
  PROVE  /\ Edit(d) \in Changing
         /\ Edit(d).record \in DOMAIN records
         /\ Edit(d).field = "phone" => Edit(d).value \in Seq(Nat)
         /\ desks[d].pc = "save" => desks[d].seen \in Record
<1>1. desks[d] \in Desks /\ Refers(desks[d])
  BY DEF DirectoryInv, DirectoryTypeOK
<1>2. \/ desks[d] \in [pc : {"edit"}, change : Changing]
      \/ desks[d] \in [pc : {"save"}, change : Changing, seen : Record]
  BY <1>1 DEF Desks, NobodyYet
<1>3. desks[d].change \in Changing /\ (desks[d].pc = "save" => desks[d].seen \in Record)
  BY <1>2
<1> QED
  BY <1>1, <1>3 DEF Refers, Edit

LEMMA StepBeginEdit ==
  ASSUME DirectoryInv, NEW d \in Desk, BeginEdit(d)
  PROVE  DirectoryInv'
<1>1. PICK n \in DOMAIN records, f \in Field : \E v \in Given[f] :
        Sit(d, [pc |-> "edit", change |-> [record |-> n, field |-> f, value |-> v]])
  BY DEF BeginEdit
<1>2. PICK v \in Given[f] :
        Sit(d, [pc |-> "edit", change |-> [record |-> n, field |-> f, value |-> v]])
  BY <1>1
<1> DEFINE x == [pc |-> "edit", change |-> [record |-> n, field |-> f, value |-> v]]
<1>3. n \in Nat \ {0}
  BY DEF DirectoryInv, DirectoryTypeOK
<1>4. x.change \in Changing
  BY <1>3 DEF Changing
<1>5. x \in Desks
  BY <1>4 DEF Desks
<1>6. Refers(x)
  BY DirectoryAssumption DEF Refers
<1> QED
  BY <1>2, <1>5, <1>6, QuietDesk DEF BeginEdit

LEMMA StepReadRecord ==
  ASSUME DirectoryInv, NEW d \in Desk, ReadRecord(d)
  PROVE  DirectoryInv'
<1> DEFINE x == [pc |-> "save", change |-> Edit(d), seen |-> records[Edit(d).record]]
<1>1. /\ Edit(d) \in Changing /\ Edit(d).record \in DOMAIN records
      /\ Edit(d).field = "phone" => Edit(d).value \in Seq(Nat)
  BY EditTyped DEF ReadRecord
<1>2. records[Edit(d).record] \in Record
  BY <1>1 DEF DirectoryInv, DirectoryTypeOK
<1>3. x \in Desks
  BY <1>1, <1>2 DEF Desks
<1>4. Refers(x)
  BY <1>1 DEF Refers
<1> QED
  BY <1>3, <1>4, QuietDesk DEF ReadRecord

\* A desk that is done, or asks for nothing.
LEMMA Rest ==
  ASSUME DirectoryInv, NEW d \in Desk, UNCHANGED Rows, Sit(d, NobodyYet)
  PROVE  DirectoryInv'
<1>1. NobodyYet \in Desks /\ Refers(NobodyYet) /\ NobodyYet.pc # "inserted"
  BY DEF Desks, NobodyYet, Refers
<1> QED
  BY <1>1, QuietDesk

LEMMA StepSaveEdit ==
  ASSUME DirectoryInv, NEW d \in Desk, SaveEdit(d)
  PROVE  DirectoryInv'
<1>1. CASE ~Alters(d)
  BY <1>1, Rest DEF SaveEdit
<1>2. CASE Alters(d)
  <2> DEFINE n == Edit(d).record
             f == Edit(d).field
             v == Edit(d).value
             r == [records[n] EXCEPT !.fields[f] = v,
                                     !.phones = IF f = "phone" THEN @ \cup {v} ELSE @,
                                     !.version = desks[d].seen.version + 1]
  <2>1. /\ Edit(d) \in Changing /\ n \in DOMAIN records
        /\ f = "phone" => v \in Seq(Nat)
        /\ desks[d].seen \in Record
    BY EditTyped DEF SaveEdit
  <2>2. records[n] \in Record /\ edits[n] \in Nat
    BY <2>1 DEF DirectoryInv, DirectoryTypeOK
  <2>3. f \in Field /\ v \in UNION {Given[g] : g \in Field}
    BY <2>1 DEF Changing
  <2>4. /\ records[n].version = desks[d].seen.version
        /\ records' = [records EXCEPT ![n] = r]
        /\ edits' = [edits EXCEPT ![n] = @ + 1]
        /\ desks' = [desks EXCEPT ![d] = NobodyYet]
    <3>1. records[n].version = desks[d].seen.version
      BY <1>2 DEF SaveEdit, Overwritten
    <3>2. records' = [records EXCEPT ![n].fields[f] = v,
                                     ![n].phones = IF f = "phone" THEN @ \cup {v} ELSE @,
                                     ![n].version = desks[d].seen.version + 1]
      BY <1>2 DEF SaveEdit
    <3>3. edits' = [edits EXCEPT ![n] = @ + 1] /\ desks' = [desks EXCEPT ![d] = NobodyYet]
      BY <1>2 DEF SaveEdit, Sit
    <3> QED
      BY <2>1, <2>2, <3>1, <3>2, <3>3 DEF DirectoryInv, DirectoryTypeOK
  <2>5. /\ r \in Record
        /\ r.key = records[n].key /\ r.told = records[n].told
        /\ records[n].phones \subseteq r.phones
        /\ r.version = records[n].version + 1
    <3> DEFINE R == records[n]
               V == (UNION {Given[g] : g \in Field}) \cup {Blank} \cup Seq(Nat)
               fields == [R.fields EXCEPT ![f] = v]
               phones == IF f = "phone" THEN R.phones \cup {v} ELSE R.phones
    <3>1. R \in [key : Key, told : Numbers \cup {Blank}, phones : SUBSET Seq(Nat),
                fields : [Field -> V], version : Nat]
      BY <2>2 DEF Record
    <3> HIDE DEF V
    <3>2. R.fields \in [Field -> V] /\ v \in V
      BY <2>3, <3>1 DEF V
    <3>3. fields \in [Field -> V]
      BY <3>2
    <3>4. phones \in SUBSET Seq(Nat) /\ R.phones \subseteq phones
      BY <2>1, <3>1
    <3>5. desks[d].seen.version \in Nat
      BY <2>4, <3>1
    <3>6. r = [R EXCEPT !.fields = fields, !.phones = phones,
                        !.version = desks[d].seen.version + 1]
      OBVIOUS
    <3> HIDE DEF R, fields, phones, r
    <3>7. r = [key |-> R.key, told |-> R.told, phones |-> phones, fields |-> fields,
               version |-> desks[d].seen.version + 1]
      BY <3>1, <3>6
    <3>8. r \in [key : Key, told : Numbers \cup {Blank}, phones : SUBSET Seq(Nat),
                fields : [Field -> V], version : Nat]
      BY <3>1, <3>3, <3>4, <3>5, <3>7
    <3> QED
      BY <2>4, <3>4, <3>7, <3>8 DEF Record, V, R
  <2>6. r.fields["phone"] # Blank => r.fields["phone"] \in r.phones
    <3>1. "phone" \in Field
      BY DirectoryAssumption
    <3>2. records[n].fields["phone"] # Blank => records[n].fields["phone"] \in records[n].phones
      BY <2>1 DEF DirectoryInv, Holding
    <3>3. CASE f = "phone"
      BY <2>2, <3>1, <3>3 DEF Record
    <3>4. CASE f # "phone"
      BY <2>2, <3>1, <3>2, <3>4 DEF Record
    <3> QED
      BY <3>3, <3>4
  <2> HIDE DEF r
  <2>7. /\ records' \in Seq(Record) /\ DOMAIN records' = DOMAIN records
        /\ records'[n] = r
        /\ \A m \in DOMAIN records : m # n => records'[m] = records[m]
    BY <2>1, <2>4, <2>5 DEF DirectoryInv, DirectoryTypeOK
  <2>8. /\ desks' \in [Desk -> Desks] /\ desks'[d] = NobodyYet
        /\ \A e \in Desk \ {d} : desks'[e] = desks[e]
    BY <2>4 DEF DirectoryInv, DirectoryTypeOK, Desks
  <2>9. DirectoryTypeOK'
    BY <2>1, <2>4, <2>7, <2>8 DEF DirectoryInv, DirectoryTypeOK
  <2>10. \A m \in DOMAIN records : /\ records'[m].key = records[m].key
                                   /\ records'[m].told = records[m].told
                                   /\ records[m].phones \subseteq records'[m].phones
    BY <2>5, <2>7
  <2>11. (CodesOnce /\ Opened)'
    BY <2>7, <2>10 DEF DirectoryInv, CodesOnce, Opened
  <2>12. Holding'
    BY <2>6, <2>7 DEF DirectoryInv, Holding
  <2>13. NoEditLost'
    BY <2>1, <2>2, <2>4, <2>5, <2>7 DEF DirectoryInv, NoEditLost, DirectoryTypeOK
  <2>14. Claims'
    BY <2>7, <2>8, <2>10 DEF DirectoryInv, Claims, NobodyYet
  <2>15. ASSUME NEW e \in Desk PROVE Refers(desks[e])'
    <3>1. CASE e = d
      BY <2>8, <3>1 DEF Refers, NobodyYet
    <3>2. CASE e # d
      <4>1. desks'[e] = desks[e] /\ Refers(desks[e])
        BY <2>8, <3>2 DEF DirectoryInv
      <4> QED
        BY <2>7, <2>10, <4>1 DEF Refers
    <3> QED
      BY <3>1, <3>2
  <2> QED
    BY <2>9, <2>11, <2>12, <2>13, <2>14, <2>15 DEF DirectoryInv
<1> QED
  BY <1>1, <1>2

LEMMA StepRise ==
  ASSUME DirectoryInv, NEW d \in Desk, Rise(d)
  PROVE  DirectoryInv'
BY Rest DEF Rise

-----------------------------------------------------------------------------
LEMMA DirectoryNextInv == DirectoryInv /\ [DirectoryNext]_directoryVars => DirectoryInv'
<1> SUFFICES ASSUME DirectoryInv, [DirectoryNext]_directoryVars PROVE DirectoryInv'
  OBVIOUS
<1>1. CASE UNCHANGED directoryVars
  BY <1>1 DEF directoryVars, DirectoryInv, DirectoryTypeOK, CodesOnce, Opened, Holding,
              NoEditLost, Claims, Refers
<1>2. CASE DirectoryNext
  BY <1>2, StepBeginCreate, StepBeginCounter, StepLookUp, StepCheck, StepInsert,
     StepCommitRecord, StepReadBack, StepBeginEdit, StepReadRecord, StepSaveEdit, StepRise
  DEF DirectoryNext
<1> QED
  BY <1>1, <1>2

\* The invariant, for any desks, codes and numbers.
THEOREM DirectoryInvariant == DirectorySpec => []DirectoryInv
BY DirectoryInitInv, DirectoryNextInv, PTL DEF DirectorySpec

\* Rows, counts of edits and desks keep their types (models.py, api.py).
THEOREM DirectoryTypeCorrect == DirectorySpec => []DirectoryTypeOK
<1>1. DirectoryInv => DirectoryTypeOK
  BY DEF DirectoryInv
<1> QED
  BY <1>1, DirectoryInvariant, PTL

\* However many desks create, look up and edit at once, a code names one
\* record, a number that counters are told opens one account, and a counter names
\* a customer who has or had that number for a phone, or who has its code.  The
\* phones of the office are any texts.
THEOREM OneRecordEach == DirectorySpec => []RecordsOnce
<1>1. DirectoryInv => RecordsOnce
  <2> SUFFICES ASSUME DirectoryInv PROVE CodesOnce /\ OneCustomerPerNumber
    BY DEF RecordsOnce
  <2>1. CodesOnce /\ Opened
    BY DEF DirectoryInv
  <2>2. \A m, n \in DOMAIN records :
          records[m].told = records[n].told /\ records[m].told # Blank => m = n
    BY <2>1 DEF CodesOnce, Opened
  <2>3. \A d \in Desk : Refers(desks[d])
    BY DEF DirectoryInv
  <2> QED
    BY <2>1, <2>2, <2>3 DEF OneCustomerPerNumber, Refers, Ask
<1> QED
  BY <1>1, DirectoryInvariant, PTL

\* No accepted edit of a record writes over one it has not seen.
THEOREM EditsAddUp == DirectorySpec => []NoEditLost
<1>1. DirectoryInv => NoEditLost
  BY DEF DirectoryInv
<1> QED
  BY <1>1, DirectoryInvariant, PTL

-----------------------------------------------------------------------------
(* RoleUpgrade: where each role comes from.                                *)

AllCodes == Retired \cup Kept

UpgradeRow == [id : Id \X {"old", "new", "back"}, org : Org, code : AllCodes]

\* A role keeps its id; its first code and its code are the same, or two that
\* the migration makes one of and divides again.
Family(first, code) ==
  \/ first = code
  \/ {first, code} \subseteq {"billing_operator", "counter_sales"}
  \/ {first, code} \subseteq {"inventory_manager", "store_inventory"}

MarksAt(a) == IF a \in {"rename", "retire", "create"} THEN {"old"}
              ELSE IF a \in {"back_sync", "back_revoke", "over"} THEN {"old", "new", "back"}
              ELSE {"old", "new"}

Descends(r, marks) ==
  \E first \in AllCodes, mark \in marks : r.id = <<<<r.org, first>>, mark>> /\ Family(first, r.code)

IdsOnce == \A q, r \in roleRows : q.id = r.id => q = r

\* The codes an organization has, statement by statement.
Within(codes) == \A r \in roleRows : r.code \in codes
Complete(codes) == Within(codes) /\ \A o \in Org : \A c \in codes : Has(o, c)

Synced == \A r \in roleRows : Granted(r.id) = PermissionsOf(r.code) \cap Catalogue

\* Every grant and every user has a role.
NoneDangles == /\ \A g \in grants : \E r \in roleRows : r.id = g[1]
               /\ \A i \in holder : i[2] = "old" /\ \E r \in roleRows : r.id = i

\* What every statement keeps, with the ids that are there by then.
Lineage(marks) ==
  /\ roleRows \subseteq UpgradeRow /\ RoleCodesOnce /\ IdsOnce
  /\ \A r \in roleRows : Descends(r, marks)

UpgradeInv ==
  /\ at \in Statements /\ live \in BOOLEAN
  /\ Lineage(MarksAt(at)) /\ NoneDangles
  /\ at = "create" => Within(Kept)
  /\ at \in {"sync", "revoke", "done", "back_rename"} => Complete(Kept)
  /\ at = "back_create" => Within(Legacy)
  /\ at \in {"back_sync", "back_revoke", "over"} => Complete(Legacy)
  /\ at \in {"revoke", "done", "back_revoke", "over"} => Synced

-----------------------------------------------------------------------------
LEMMA UpgradeInitInv == UpgradeInit => UpgradeInv
<1> SUFFICES ASSUME UpgradeInit PROVE UpgradeInv
  OBVIOUS
<1>1. PICK had \in [Org -> SUBSET Code] :
        roleRows = {[id |-> <<i, "old">>, org |-> i[1], code |-> i[2]] :
                      i \in {j \in Id : j[2] \in had[j[1]]}}
  BY DEF UpgradeInit
<1>2. /\ at = "rename" /\ live = TRUE /\ holder = {r.id : r \in roleRows}
      /\ grants = UNION {{<<r.id, p>> : p \in PermissionsOf(r.code) \cap Catalogue} : r \in roleRows}
  BY DEF UpgradeInit
<1>3. \A r \in roleRows : \E o \in Org, c \in AllCodes :
         r = [id |-> <<<<o, c>>, "old">>, org |-> o, code |-> c]
  BY <1>1 DEF Id, AllCodes
<1>4. ASSUME NEW r \in roleRows
      PROVE  /\ r \in UpgradeRow /\ r.id = <<<<r.org, r.code>>, "old">> /\ r.code \in AllCodes
             /\ Descends(r, {"old"})
  <2>1. PICK o \in Org, c \in AllCodes : r = [id |-> <<<<o, c>>, "old">>, org |-> o, code |-> c]
    BY <1>3
  <2>2. r \in UpgradeRow
    BY <2>1 DEF UpgradeRow, Id, AllCodes
  <2>3. r.id = <<<<r.org, r.code>>, "old">> /\ r.code \in AllCodes
    BY <2>1
  <2> QED
    BY <2>2, <2>3 DEF Descends, Family
<1>5. \A q, r \in roleRows : q.org = r.org /\ q.code = r.code => q = r
  BY <1>3
<1>6. \A q, r \in roleRows : q.id = r.id => q = r
  BY <1>3
<1>7. Lineage(MarksAt(at))
  BY <1>2, <1>4, <1>5, <1>6 DEF Lineage, RoleCodesOnce, IdsOnce, MarksAt
<1>8. NoneDangles
  BY <1>2, <1>4 DEF NoneDangles
<1> QED
  BY <1>2, <1>7, <1>8 DEF UpgradeInv, Statements

\* The codes that a migration renames: each to one code, no two to the same.
Back == {<<p[2], p[1]>> : p \in Renames}

LEMMA RenamesFacts ==
  ASSUME NEW renames \in {Renames, Back}
  PROVE  /\ \A p \in renames : p[1] \in AllCodes /\ p[2] \in AllCodes /\ p = <<p[1], p[2]>>
         /\ \A p, q \in renames : (p[1] = q[1] \/ p[2] = q[2]) => p = q
         /\ \A p \in renames : \A c : Family(c, p[1]) => Family(c, p[2])
BY DEF Renames, Back, AllCodes, Kept, Retired, Family

LEMMA RenameKeeps ==
  ASSUME NEW marks, Lineage(marks), NoneDangles, NEW renames \in {Renames, Back}, Rename(renames)
  PROVE  Lineage(marks)' /\ NoneDangles'
<1> DEFINE Free(r, p) == p[1] = r.code /\ ~Has(r.org, p[2])
           code(r) == IF \E p \in renames : Free(r, p)
                      THEN (CHOOSE p \in renames : p[1] = r.code)[2] ELSE r.code
           new(r) == [r EXCEPT !.code = code(r)]
<1>1. roleRows' = {new(r) : r \in roleRows} /\ UNCHANGED <<grants, holder>>
  BY DEF Rename, Renamed
<1>2. ASSUME NEW r \in roleRows
      PROVE  \/ code(r) = r.code
             \/ \E p \in renames : p[1] = r.code /\ p[2] = code(r) /\ ~Has(r.org, p[2])
  <2>1. CASE \E p \in renames : Free(r, p)
    <3>1. PICK p \in renames : Free(r, p)
      BY <2>1
    <3>2. (CHOOSE q \in renames : q[1] = r.code) = p
      BY <3>1, RenamesFacts
    <3> QED
      BY <2>1, <3>1, <3>2
  <2>2. CASE ~\E p \in renames : Free(r, p)
    BY <2>2
  <2> QED
    BY <2>1, <2>2
<1> HIDE DEF code
<1>3. \A r \in roleRows : r \in UpgradeRow /\ code(r) \in AllCodes
  BY <1>2, RenamesFacts DEF Lineage, UpgradeRow
<1>4. \A r \in roleRows : /\ new(r) \in UpgradeRow /\ new(r).id = r.id /\ new(r).org = r.org
                          /\ new(r).code = code(r)
  BY <1>3 DEF UpgradeRow
<1> HIDE DEF new
<1>5. roleRows' \subseteq UpgradeRow
  BY <1>1, <1>4
<1>6. IdsOnce'
  BY <1>1, <1>4 DEF Lineage, IdsOnce
<1>7. ASSUME NEW q \in roleRows, NEW r \in roleRows, q.org = r.org, code(q) = code(r)
      PROVE  q = r
  <2>1. q.code = r.code => q = r
    BY <1>7 DEF Lineage, RoleCodesOnce
  <2>2. CASE code(q) = q.code /\ code(r) = r.code
    BY <1>7, <2>1, <2>2
  <2>3. CASE code(q) = q.code /\ code(r) # r.code
    BY <1>2, <1>7, <2>3 DEF Has
  <2>4. CASE code(q) # q.code /\ code(r) = r.code
    BY <1>2, <1>7, <2>4 DEF Has
  <2>5. CASE code(q) # q.code /\ code(r) # r.code
    <3>1. PICK p \in renames : p[1] = q.code /\ p[2] = code(q)
      BY <1>2, <2>5
    <3>2. PICK u \in renames : u[1] = r.code /\ u[2] = code(r)
      BY <1>2, <2>5
    <3>3. p = u
      BY <1>7, <3>1, <3>2, RenamesFacts
    <3> QED
      BY <2>1, <3>1, <3>2, <3>3
  <2> QED
    BY <2>2, <2>3, <2>4, <2>5
<1>8. RoleCodesOnce'
  BY <1>1, <1>4, <1>7 DEF RoleCodesOnce
<1>9. ASSUME NEW s \in roleRows' PROVE Descends(s, marks)
  <2>1. PICK r \in roleRows : s = new(r)
    BY <1>1
  <2>2. PICK first \in AllCodes, mark \in marks :
          r.id = <<<<r.org, first>>, mark>> /\ Family(first, r.code)
    BY DEF Lineage, Descends
  <2>3. Family(first, code(r))
    BY <1>2, <2>2, RenamesFacts
  <2> QED
    BY <1>4, <2>1, <2>2, <2>3 DEF Descends
<1>10. NoneDangles'
  BY <1>1, <1>4 DEF NoneDangles
<1> QED
  BY <1>5, <1>6, <1>8, <1>9, <1>10 DEF Lineage

LEMMA RetireKeeps ==
  ASSUME NEW marks, Lineage(marks), NoneDangles, NEW codes, Retire(codes)
  PROVE  Lineage(marks)' /\ NoneDangles' /\ Within(AllCodes \ codes)'
<1>1. roleRows' \subseteq roleRows
  BY DEF Retire
<1>2. \A r \in roleRows' : r.code \notin codes
  BY DEF Retire
<1>3. /\ \A g \in grants' : g \in grants /\ \A r \in roleRows : r.id = g[1] => r.code \notin codes
      /\ \A i \in holder' : i \in holder /\ \A r \in roleRows : r.id = i => r.code \notin codes
  BY DEF Retire
<1>4. \A r \in roleRows : r.code \notin codes => r \in roleRows'
  BY DEF Lineage, IdsOnce, Retire
<1>5. Lineage(marks)'
  BY <1>1 DEF Lineage, RoleCodesOnce, IdsOnce
<1>6. NoneDangles'
  BY <1>3, <1>4 DEF NoneDangles
<1>7. Within(AllCodes \ codes)'
  BY <1>1, <1>2 DEF Within, Lineage, UpgradeRow
<1> QED
  BY <1>5, <1>6, <1>7

\* Rows are created with a mark of their own, so that their ids are new.
LEMMA CreateKeeps ==
  ASSUME NEW marks, Lineage(marks), NoneDangles, NEW codes, codes \subseteq AllCodes, Within(codes),
         NEW mark, mark \in {"new", "back"}, mark \notin marks, Create(codes, mark),
         NEW all, all = marks \cup {mark}
  PROVE  Lineage(all)' /\ NoneDangles' /\ Complete(codes)'
<1> DEFINE fresh == {[id |-> <<i, mark>>, org |-> i[1], code |-> i[2]] :
                       i \in {j \in Id : j[2] \in codes /\ ~Has(j[1], j[2])}}
<1>1. roleRows' = roleRows \cup fresh /\ UNCHANGED <<grants, holder>>
  BY DEF Create
<1>2. \A r \in fresh : \E o \in Org, c \in codes :
        ~Has(o, c) /\ r = [id |-> <<<<o, c>>, mark>>, org |-> o, code |-> c]
  BY DEF Id
<1>3. \A o \in Org, c \in codes :
        ~Has(o, c) => [id |-> <<<<o, c>>, mark>>, org |-> o, code |-> c] \in fresh
  <2> SUFFICES ASSUME NEW o \in Org, NEW c \in codes, ~Has(o, c)
               PROVE  [id |-> <<<<o, c>>, mark>>, org |-> o, code |-> c] \in fresh
    OBVIOUS
  <2>1. <<o, c>> \in Id /\ <<o, c>>[1] = o /\ <<o, c>>[2] = c
    BY DEF Id, AllCodes
  <2> QED
    BY <2>1
<1> HIDE DEF fresh
<1>4. ASSUME NEW r \in fresh
      PROVE  /\ r \in UpgradeRow /\ Descends(r, marks \cup {mark}) /\ r.code \in codes
             /\ ~Has(r.org, r.code) /\ r.id = <<<<r.org, r.code>>, mark>>
  <2>1. PICK o \in Org, c \in codes :
          ~Has(o, c) /\ r = [id |-> <<<<o, c>>, mark>>, org |-> o, code |-> c]
    BY <1>2
  <2>2. r \in UpgradeRow
    BY <2>1 DEF UpgradeRow, Id, AllCodes
  <2>3. Descends(r, marks \cup {mark})
    BY <2>1 DEF Descends, Family
  <2> QED
    BY <2>1, <2>2, <2>3
<1>5. \A r \in roleRows : r \in UpgradeRow /\ Descends(r, marks \cup {mark}) /\ r.id[2] # mark
  BY DEF Lineage, Descends
<1>6. \A r \in fresh : r.id[2] = mark
  BY <1>4
<1>7. \A q, r \in fresh : q.id = r.id => q = r
  BY <1>2
<1>8. \A q, r \in fresh : q.org = r.org /\ q.code = r.code => q = r
  BY <1>2
<1>9. IdsOnce'
  BY <1>1, <1>5, <1>6, <1>7 DEF IdsOnce, Lineage
<1>10. RoleCodesOnce'
  BY <1>1, <1>4, <1>8 DEF RoleCodesOnce, Lineage, Has
<1>11. Lineage(marks \cup {mark})'
  BY <1>1, <1>4, <1>5, <1>9, <1>10 DEF Lineage
<1>12. NoneDangles'
  BY <1>1 DEF NoneDangles
<1>13. Within(codes)'
  BY <1>1, <1>4 DEF Within
<1>14. ASSUME NEW o \in Org, NEW c \in codes PROVE Has(o, c)'
  <2>1. CASE Has(o, c)
    BY <1>1, <2>1 DEF Has
  <2>2. CASE ~Has(o, c)
    <3> DEFINE r == [id |-> <<<<o, c>>, mark>>, org |-> o, code |-> c]
    <3>1. r \in roleRows' /\ r.org = o /\ r.code = c
      BY <1>1, <1>3, <2>2
    <3> QED
      BY <3>1 DEF Has
  <2> QED
    BY <2>1, <2>2
<1> QED
  BY <1>11, <1>12, <1>13, <1>14 DEF Complete

LEMMA SyncKeeps ==
  ASSUME NEW marks, Lineage(marks), NoneDangles, NEW codes, Complete(codes), Sync(codes)
  PROVE  Lineage(marks)' /\ NoneDangles' /\ Complete(codes)' /\ Synced'
<1>1. roleRows' = roleRows /\ holder' = holder
  BY DEF Sync
<1>2. {r \in roleRows : r.code \in codes} = roleRows
  BY DEF Complete, Within
<1>3. grants' = {g \in grants : \A r \in roleRows : r.id # g[1]}
                \cup UNION {{<<r.id, p>> : p \in PermissionsOf(r.code) \cap Catalogue} : r \in roleRows}
  BY <1>2 DEF Sync
<1>4. Lineage(marks)' /\ Complete(codes)'
  BY <1>1 DEF Lineage, RoleCodesOnce, IdsOnce, Complete, Within, Has
<1>5. \A g \in grants' : \E r \in roleRows : r.id = g[1] /\ g[2] \in PermissionsOf(r.code) \cap Catalogue
                                            /\ g = <<r.id, g[2]>>
  BY <1>3 DEF NoneDangles
<1>6. NoneDangles'
  BY <1>1, <1>5 DEF NoneDangles
<1>7. ASSUME NEW r \in roleRows
      PROVE  Granted(r.id)' = PermissionsOf(r.code) \cap Catalogue
  <2>1. \A p \in PermissionsOf(r.code) \cap Catalogue : <<r.id, p>> \in grants'
    BY <1>3
  <2>2. \A g \in grants' : g[1] = r.id => g[2] \in PermissionsOf(r.code) \cap Catalogue
    BY <1>5 DEF Lineage, IdsOnce
  <2>3. {g[2] : g \in {h \in grants' : h[1] = r.id}} = PermissionsOf(r.code) \cap Catalogue
    <3>1. \A p \in PermissionsOf(r.code) \cap Catalogue :
            p \in {g[2] : g \in {h \in grants' : h[1] = r.id}}
      <4> TAKE p \in PermissionsOf(r.code) \cap Catalogue
      <4>1. <<r.id, p>> \in grants' /\ <<r.id, p>>[1] = r.id /\ <<r.id, p>>[2] = p
        BY <2>1
      <4> QED
        BY <4>1
    <3> QED
      BY <2>2, <3>1
  <2> QED
    BY <2>3 DEF Granted
<1> QED
  BY <1>1, <1>4, <1>6, <1>7 DEF Synced

\* One lemma for the way there and one for the way back.
LEMMA UpgradeKeeps ==
  ASSUME UpgradeInv, Upgrade
  PROVE  UpgradeInv'
<1> USE DEF Statement, Statements
<1>1. CASE Statement("rename", "retire") /\ Rename(Renames)
  <2>1. at = "rename" /\ at' = "retire" /\ live' = live
    BY <1>1 DEF Rename
  <2>2. Lineage({"old"})' /\ NoneDangles'
    BY <1>1, <2>1, RenameKeeps DEF UpgradeInv, MarksAt
  <2> QED
    BY <2>1, <2>2 DEF UpgradeInv, MarksAt
<1>2. CASE Statement("retire", "create") /\ Retire(Retired)
  <2>1. at = "retire" /\ at' = "create" /\ live' = live
    BY <1>2 DEF Retire
  <2>2. Lineage({"old"})' /\ NoneDangles' /\ Within(AllCodes \ Retired)'
    BY <1>2, <2>1, RetireKeeps DEF UpgradeInv, MarksAt
  <2>3. Within(Kept)'
    BY <2>2 DEF Within, AllCodes
  <2> QED
    BY <2>1, <2>2, <2>3 DEF UpgradeInv, MarksAt
<1>3. CASE Statement("create", "sync") /\ Create(Kept, "new")
  <2>1. at = "create" /\ at' = "sync" /\ live' = live
    BY <1>3 DEF Create
  <2>2. Lineage({"old"}) /\ NoneDangles /\ Within(Kept) /\ Kept \subseteq AllCodes
    BY <2>1 DEF UpgradeInv, MarksAt, AllCodes
  <2>3. Lineage({"old", "new"})' /\ NoneDangles' /\ Complete(Kept)'
    <3>1. /\ Create(Kept, "new") /\ "new" \in {"new", "back"} /\ "new" \notin {"old"}
          /\ {"old", "new"} = {"old"} \cup {"new"}
      BY <1>3
    <3> QED
      BY ONLY <2>2, <3>1, CreateKeeps
  <2> QED
    BY <2>1, <2>3 DEF UpgradeInv, MarksAt
<1>4. CASE Statement("sync", "revoke") /\ Sync(Kept)
  <2>1. at = "sync" /\ at' = "revoke" /\ live' = live
    BY <1>4 DEF Sync
  <2>2. Lineage({"old", "new"})' /\ NoneDangles' /\ Complete(Kept)' /\ Synced'
    BY <1>4, <2>1, SyncKeeps DEF UpgradeInv, MarksAt
  <2> QED
    BY <2>1, <2>2 DEF UpgradeInv, MarksAt
<1>5. CASE Statement("revoke", "done") /\ Revoke
  <2>1. at = "revoke" /\ at' = "done" /\ live' = FALSE
        /\ UNCHANGED <<roleRows, grants, holder>>
    BY <1>5 DEF Revoke
  <2>2. Lineage({"old", "new"})' /\ NoneDangles' /\ Complete(Kept)' /\ Synced'
    BY <2>1 DEF UpgradeInv, MarksAt, Lineage, RoleCodesOnce, IdsOnce, NoneDangles,
                Complete, Within, Has, Synced, Granted
  <2> QED
    BY <2>1, <2>2 DEF UpgradeInv, MarksAt
<1> QED
  BY <1>1, <1>2, <1>3, <1>4, <1>5 DEF Upgrade

LEMMA DowngradeKeeps ==
  ASSUME UpgradeInv, Downgrade
  PROVE  UpgradeInv'
<1> USE DEF Statement, Statements
<1>1. CASE Statement("done", "back_rename") /\ UNCHANGED <<roleRows, grants, holder>> /\ live' = TRUE
  <2>1. at = "done" /\ at' = "back_rename"
    BY <1>1
  <2>2. Lineage({"old", "new"})' /\ NoneDangles' /\ Complete(Kept)'
    BY <1>1, <2>1 DEF UpgradeInv, MarksAt, Lineage, RoleCodesOnce, IdsOnce, NoneDangles,
                      Complete, Within, Has
  <2> QED
    BY <1>1, <2>1, <2>2 DEF UpgradeInv, MarksAt
<1>2. CASE Statement("back_rename", "back_retire") /\ Rename({<<p[2], p[1]>> : p \in Renames})
  <2>1. at = "back_rename" /\ at' = "back_retire" /\ live' = live /\ Rename(Back)
    BY <1>2 DEF Rename, Back
  <2>2. Lineage({"old", "new"})' /\ NoneDangles'
    BY <2>1, RenameKeeps DEF UpgradeInv, MarksAt
  <2> QED
    BY <2>1, <2>2 DEF UpgradeInv, MarksAt
<1>3. CASE Statement("back_retire", "back_create") /\ Retire(Kept \ {"owner"})
  <2>1. at = "back_retire" /\ at' = "back_create" /\ live' = live
    BY <1>3 DEF Retire
  <2>2. Lineage({"old", "new"})' /\ NoneDangles' /\ Within(AllCodes \ (Kept \ {"owner"}))'
    BY <1>3, <2>1, RetireKeeps DEF UpgradeInv, MarksAt
  <2>3. Within(Legacy)'
    BY <2>2 DEF Within, AllCodes, Legacy
  <2> QED
    BY <2>1, <2>2, <2>3 DEF UpgradeInv, MarksAt
<1>4. CASE Statement("back_create", "back_sync") /\ Create(Legacy, "back")
  <2>1. at = "back_create" /\ at' = "back_sync" /\ live' = live
    BY <1>4 DEF Create
  <2>2. Lineage({"old", "new"}) /\ NoneDangles /\ Within(Legacy) /\ Legacy \subseteq AllCodes
    BY <2>1 DEF UpgradeInv, MarksAt, AllCodes, Legacy, Kept
  <2>3. Lineage({"old", "new", "back"})' /\ NoneDangles' /\ Complete(Legacy)'
    <3>1. /\ Create(Legacy, "back") /\ "back" \in {"new", "back"} /\ "back" \notin {"old", "new"}
          /\ {"old", "new", "back"} = {"old", "new"} \cup {"back"}
      BY <1>4
    <3> QED
      BY ONLY <2>2, <3>1, CreateKeeps
  <2> QED
    BY <2>1, <2>3 DEF UpgradeInv, MarksAt
<1>5. CASE Statement("back_sync", "back_revoke") /\ Sync(Legacy)
  <2>1. at = "back_sync" /\ at' = "back_revoke" /\ live' = live
    BY <1>5 DEF Sync
  <2>2. Lineage({"old", "new", "back"})' /\ NoneDangles' /\ Complete(Legacy)' /\ Synced'
    BY <1>5, <2>1, SyncKeeps DEF UpgradeInv, MarksAt
  <2> QED
    BY <2>1, <2>2 DEF UpgradeInv, MarksAt
<1>6. CASE Statement("back_revoke", "over") /\ Revoke
  <2>1. at = "back_revoke" /\ at' = "over" /\ live' = FALSE
        /\ UNCHANGED <<roleRows, grants, holder>>
    BY <1>6 DEF Revoke
  <2>2. Lineage({"old", "new", "back"})' /\ NoneDangles' /\ Complete(Legacy)' /\ Synced'
    BY <2>1 DEF UpgradeInv, MarksAt, Lineage, RoleCodesOnce, IdsOnce, NoneDangles,
                Complete, Within, Has, Synced, Granted
  <2> QED
    BY <2>1, <2>2 DEF UpgradeInv, MarksAt
<1> QED
  BY <1>1, <1>2, <1>3, <1>4, <1>5, <1>6 DEF Downgrade

LEMMA UpgradeNextInv == UpgradeInv /\ [UpgradeNext]_upgradeVars => UpgradeInv'
<1> SUFFICES ASSUME UpgradeInv, [UpgradeNext]_upgradeVars PROVE UpgradeInv'
  OBVIOUS
<1>1. CASE UNCHANGED upgradeVars
  BY <1>1 DEF upgradeVars, UpgradeInv, Lineage, RoleCodesOnce, IdsOnce, NoneDangles,
              Complete, Within, Has, Synced, Granted
<1> QED
  BY <1>1, UpgradeKeeps, DowngradeKeeps DEF UpgradeNext

LEMMA UpgradeInvTypes == UpgradeInv => UpgradeTypeOK
BY DEF UpgradeInv, Lineage, NoneDangles, UpgradeTypeOK, UpgradeRow, AllCodes

LEMMA UpgradeInvMatches == UpgradeInv => RolesAreTheVersions
<1> SUFFICES ASSUME UpgradeInv PROVE RolesAreTheVersions
  OBVIOUS
<1>1. RoleCodesOnce
  BY DEF UpgradeInv, Lineage
<1>2. ASSUME NEW codes, Complete(codes), NEW o \in Org
      PROVE  {r.code : r \in {q \in roleRows : q.org = o}} = codes
  <2>1. \A r \in roleRows : r.code \in codes
    BY <1>2 DEF Complete, Within
  <2>2. \A c \in codes : \E r \in roleRows : r.org = o /\ r.code = c
    BY <1>2 DEF Complete, Has
  <2> QED
    BY <2>1, <2>2
<1>3. RolesMatchVersion
  BY <1>2 DEF UpgradeInv, RolesMatchVersion, Synced
<1>4. RoundTripGivesNothing
  <2> SUFFICES ASSUME at = "over", NEW i \in holder
               PROVE  Granted(i) \subseteq PermissionsOf(i[1][2])
    BY DEF RoundTripGivesNothing
  <2>1. PICK r \in roleRows : r.id = i
    BY DEF UpgradeInv, NoneDangles
  <2>2. PICK first \in AllCodes, mark \in {"old", "new", "back"} :
          r.id = <<<<r.org, first>>, mark>> /\ Family(first, r.code)
    BY DEF UpgradeInv, Lineage, MarksAt, Descends
  <2>3. i[1][2] = first
    BY <2>1, <2>2
  <2>4. Granted(i) \subseteq PermissionsOf(r.code) /\ r.code \in Legacy
    BY <2>1 DEF UpgradeInv, Synced, Complete, Within
  <2>5. PermissionsOf(r.code) \subseteq PermissionsOf(first)
    <3>1. CASE first = r.code
      BY <3>1
    <3>2. CASE r.code = "billing_operator" /\ first = "counter_sales"
      BY <3>2 DEF PermissionsOf
    <3>3. CASE r.code = "inventory_manager" /\ first = "store_inventory"
      BY <3>3 DEF PermissionsOf
    <3> QED
      BY <2>2, <2>4, <3>1, <3>2, <3>3 DEF Family, Legacy, Retired
  <2> QED
    BY <2>3, <2>4, <2>5
<1> QED
  BY <1>1, <1>3, <1>4 DEF RolesAreTheVersions

\* Rows, grants and users of roles keep their types, and refer to rows.
THEOREM UpgradeTyped == UpgradeSpec => []UpgradeTypeOK
BY UpgradeInitInv, UpgradeNextInv, UpgradeInvTypes, PTL DEF UpgradeSpec

\* From any choice of roles in any number of organizations, the migration and
\* its way back never have two roles of one code, end with the roles of the
\* version and their permissions, and give nobody a permission he did not have.
THEOREM RolesUpgraded == UpgradeSpec => []RolesAreTheVersions
BY UpgradeInitInv, UpgradeNextInv, UpgradeInvMatches, PTL DEF UpgradeSpec

-----------------------------------------------------------------------------
(* The three together.                                                     *)

AllInv == SessionsInv /\ DirectoryInv /\ UpgradeInv

LEMMA AccessInitInv == AccessInit => AllInv
BY InitInv, DirectoryInitInv, UpgradeInitInv DEF AccessInit, AllInv

LEMMA AccessNextInv ==
  AllInv /\ [AccessNext]_<<sessionVars, directoryVars, upgradeVars, duty>> => AllInv'
<1> SUFFICES ASSUME AllInv, [AccessNext]_<<sessionVars, directoryVars, upgradeVars, duty>>
             PROVE  AllInv'
  OBVIOUS
<1>1. [SessionsNext]_sessionVars /\ [DirectoryNext]_directoryVars /\ [UpgradeNext]_upgradeVars
  BY DEF AccessNext
<1> QED
  BY <1>1, SessionsNextInv, DirectoryNextInv, UpgradeNextInv DEF AllInv

\* Accounts, records and roles keep their types.
THEOREM AccessTyped == AccessSpec => []AccessTypeOK
<1>1. AllInv => AccessTypeOK
  BY UpgradeInvTypes DEF AllInv, SessionsInv, DirectoryInv, AccessTypeOK
<1> QED
  BY <1>1, AccessInitInv, AccessNextInv, PTL DEF AccessSpec

\* Failed logins are counted, the last role given is held and no field of a
\* record goes back, whoever read the row before.
THEOREM NoRequestUndone == AccessSpec => []NothingLost
<1>1. AllInv => NothingLost
  BY DEF AllInv, SessionsInv, DirectoryInv, NothingLost
<1> QED
  BY <1>1, AccessInitInv, AccessNextInv, PTL DEF AccessSpec
=============================================================================
