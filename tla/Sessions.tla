------------------------------ MODULE Sessions ------------------------------
(***************************************************************************)
(* Signing in and out (auth/service.py) while the people who sign in are   *)
(* changed (users/api.py update_user).  A login writes the user under the  *)
(* version it has read.  Sessions, refresh tokens and roles have no        *)
(* version: a handler writes the columns it sets and no others.            *)
(*                                                                         *)
(* A client keeps the tokens it was given and may present any of them:     *)
(* answers get lost, and tabs share cookies.  Expiry of tokens and the     *)
(* limit on logins per address are left out.                               *)
(***************************************************************************)
EXTENDS Naturals, Sequences, FiniteSets

CONSTANTS
  Handler,          \* request handlers
  Seeded,           \* who assigned the roles there are at the start
  User,             \* people
  Owner,            \* those whose account is_owner
  Role,             \* role codes
  HeldFirst,        \* the role of each user at the start
  Keep,             \* a field an update leaves alone
  Request,          \* the updates that come in
  MaxFailedLogins,
  MaxSessions,      \* bound: logins come in only while there are fewer
  MaxTokens,        \* bound: refreshes come in only while there are fewer
  MaxUserVersion    \* bound: logins and updates come in only below this version

\* What update_user is asked: by whom, for whom, and what to change.
Updates == [by : User, user : User, active : BOOLEAN \cup {Keep}, role : Role \cup {Keep}]

ASSUME SessionsAssumption ==
  /\ Seeded \notin Handler /\ Keep \notin Role /\ Keep \notin BOOLEAN
  /\ Owner \subseteq User
  /\ HeldFirst \in [User -> Role]
  /\ Request \subseteq Updates
  /\ MaxFailedLogins \in Nat \ {0}
  /\ MaxSessions \in Nat /\ MaxTokens \in Nat /\ MaxUserVersion \in Nat

VARIABLES
  users,      \* the row of each user
  roles,      \* user_roles
  sessions,   \* sessions, in the order of their inserts
  tokens,     \* refresh tokens, in the order of their inserts
  misses,     \* answered failures of each user since a success or a lockout
  closed,     \* sessions whose revocation has committed
  assigned,   \* the role an update last gave to each user
  calls       \* the request of each handler

sessionVars == <<users, roles, sessions, tokens, misses, closed, assigned, calls>>

Account == [active : BOOLEAN, locked : BOOLEAN, failed : 0 .. MaxFailedLogins - 1, version : Nat]

RoleRow == [user : User, role : Role, by : Handler \cup {Seeded}]

Waiting == [pc |-> "idle"]

Calls ==
  {Waiting}
  \cup [pc : {"failed", "passed"}, user : User, seen : Account]
  \cup [pc : {"session", "user", "mint", "reuse", "logout"}, token : Nat \ {0}, late : BOOLEAN]
  \cup [pc : {"revoke"}, token : Nat \ {0}, late : BOOLEAN, gone : SUBSET (Nat \ {0})]
  \cup [pc : {"roles", "delete", "save"}, update : Updates, seen : Account, gone : SUBSET RoleRow]

SessionsTypeOK ==
  /\ users \in [User -> Account]
  /\ roles \subseteq RoleRow
  /\ sessions \in Seq([user : User, revoked : BOOLEAN])
  /\ tokens \in Seq([session : DOMAIN sessions, used : BOOLEAN, revoked : BOOLEAN])
  /\ misses \in [User -> Nat]
  /\ closed \subseteq DOMAIN sessions
  /\ assigned \in [User -> Role]
  /\ calls \in [Handler -> Calls]

SessionsInit ==
  /\ users = [u \in User |-> [active |-> TRUE, locked |-> FALSE, failed |-> 0, version |-> 0]]
  /\ assigned = HeldFirst
  /\ roles = {[user |-> u, role |-> assigned[u], by |-> Seeded] : u \in User}
  /\ sessions = <<>>
  /\ tokens = <<>>
  /\ misses = [u \in User |-> 0]
  /\ closed = {}
  /\ calls = [h \in Handler |-> Waiting]

-----------------------------------------------------------------------------
Turn(h, call) == calls' = [calls EXCEPT ![h] = call]
To(h, pc) == calls' = [calls EXCEPT ![h].pc = pc]
People == <<users, roles, misses, assigned>>
Tokens == <<sessions, tokens, closed>>

(* authenticate.                                                           *)

\* A locked account answers before the password is looked at, so its login
\* writes nothing and is left out; an inactive one fails like a bad password.
BeginLogin(h, u) ==
  /\ calls[h].pc = "idle"
  /\ Len(sessions) < MaxSessions /\ users[u].version < MaxUserVersion
  /\ ~users[u].locked
  /\ \E good \in BOOLEAN :
       Turn(h, [pc |-> IF good /\ users[u].active THEN "passed" ELSE "failed",
                user |-> u, seen |-> users[u]])
  /\ UNCHANGED People /\ UNCHANGED Tokens

\* Slip: User has no version.
OutdatedNever(u, seen) == FALSE

\* The user is no longer the version the handler has read.
Outdated(u, seen) == users[u].version # seen.version

\* Slip: one attempt more before the account is locked.
MissedLate(seen) ==
  IF seen.failed + 1 > MaxFailedLogins
  THEN [seen EXCEPT !.failed = 0, !.locked = TRUE, !.version = @ + 1]
  ELSE [seen EXCEPT !.failed = @ + 1, !.version = @ + 1]

\* The account after a failure: the last one locks it and starts the count anew.
Missed(seen) ==
  IF seen.failed + 1 >= MaxFailedLogins
  THEN [seen EXCEPT !.failed = 0, !.locked = TRUE, !.version = @ + 1]
  ELSE [seen EXCEPT !.failed = @ + 1, !.version = @ + 1]

CommitFailure(h) ==
  /\ calls[h].pc = "failed"
  /\ LET u == calls[h].user IN
     /\ ~Outdated(u, calls[h].seen)
     /\ users' = [users EXCEPT ![u] = Missed(calls[h].seen)]
     /\ misses' = [misses EXCEPT ![u] = IF users'[u].failed = 0 THEN 0 ELSE @ + 1]
  /\ Turn(h, Waiting)
  /\ UNCHANGED <<roles, assigned>> /\ UNCHANGED Tokens

\* _issue_session: a session with its first refresh token.
CommitLogin(h) ==
  /\ calls[h].pc = "passed"
  /\ LET u == calls[h].user IN
     /\ ~Outdated(u, calls[h].seen)
     /\ users' = [users EXCEPT ![u] = [calls[h].seen EXCEPT !.failed = 0, !.locked = FALSE,
                                                          !.version = @ + 1]]
     /\ misses' = [misses EXCEPT ![u] = 0]
     /\ sessions' = Append(sessions, [user |-> u, revoked |-> FALSE])
     /\ tokens' = Append(tokens, [session |-> Len(sessions'), used |-> FALSE, revoked |-> FALSE])
  /\ Turn(h, Waiting)
  /\ UNCHANGED <<roles, assigned, closed>>

\* LOCKOUT_MINUTES have passed.
LockoutEnds(u) ==
  /\ users[u].locked
  /\ users' = [users EXCEPT ![u].locked = FALSE]
  /\ UNCHANGED <<roles, misses, assigned, calls>> /\ UNCHANGED Tokens

-----------------------------------------------------------------------------
(* refresh and logout.                                                     *)

Present(h, t, pc) ==
  /\ calls[h].pc = "idle"
  /\ Turn(h, [pc |-> pc, token |-> t, late |-> tokens[t].session \in closed])
  /\ UNCHANGED People /\ UNCHANGED Tokens

\* A token that was used or revoked closes its session.
BeginRefresh(h, t) ==
  /\ Len(tokens) < MaxTokens
  /\ Present(h, t, IF tokens[t].used \/ tokens[t].revoked THEN "reuse" ELSE "session")

BeginLogout(h, t) == Present(h, t, "logout")

TokenOf(h) == tokens[calls[h].token]
SessionOf(h) == sessions[TokenOf(h).session]

\* Slip: the token alone decides.
ReadSessionUnchecked(h) ==
  /\ calls[h].pc = "session"
  /\ To(h, "user")
  /\ UNCHANGED People /\ UNCHANGED Tokens

ReadSession(h) ==
  /\ calls[h].pc = "session"
  /\ ~SessionOf(h).revoked
  /\ To(h, "user")
  /\ UNCHANGED People /\ UNCHANGED Tokens

ReadUser(h) ==
  /\ calls[h].pc = "user"
  /\ users[SessionOf(h).user].active
  /\ To(h, "mint")
  /\ UNCHANGED People /\ UNCHANGED Tokens

\* The token is used up and another takes its place.
Mint(h) ==
  /\ calls[h].pc = "mint"
  /\ tokens' = Append([tokens EXCEPT ![calls[h].token].used = TRUE],
                      [session |-> TokenOf(h).session, used |-> FALSE, revoked |-> FALSE])
  /\ Turn(h, Waiting)
  /\ UNCHANGED People /\ UNCHANGED <<sessions, closed>>

\* revoke_session_tokens: the tokens that have committed by now.
RevokeTokens(h) ==
  /\ calls[h].pc \in {"reuse", "logout"}
  /\ Turn(h, [pc |-> "revoke", token |-> calls[h].token, late |-> calls[h].late,
              gone |-> {n \in DOMAIN tokens : tokens[n].session = TokenOf(h).session}])
  /\ UNCHANGED People /\ UNCHANGED Tokens

CommitRevocation(h) ==
  /\ calls[h].pc = "revoke"
  /\ tokens' = [n \in DOMAIN tokens |->
                  [tokens[n] EXCEPT !.revoked = @ \/ n \in calls[h].gone]]
  /\ sessions' = [sessions EXCEPT ![TokenOf(h).session].revoked = TRUE]
  /\ closed' = closed \cup {TokenOf(h).session}
  /\ Turn(h, Waiting)
  /\ UNCHANGED People

-----------------------------------------------------------------------------
(* update_user.                                                            *)

\* The owner cannot be deactivated, and nobody deactivates himself: such a
\* request is refused and changes nothing.
Allowed(q) == q.active = FALSE => q.user \notin Owner /\ q.user # q.by

BeginUpdate(h, q) ==
  /\ calls[h].pc = "idle"
  /\ users[q.user].version < MaxUserVersion
  /\ Allowed(q)
  /\ Turn(h, [pc |-> IF q.role = Keep THEN "save" ELSE "roles", update |-> q,
              seen |-> users[q.user], gone |-> {}])
  /\ UNCHANGED People /\ UNCHANGED Tokens

Update(h) == calls[h].update

\* DELETE picks the rows that have committed by now ...
PickRoles(h) ==
  /\ calls[h].pc = "roles"
  /\ calls' = [calls EXCEPT ![h].pc = "delete",
                            ![h].gone = {r \in roles : r.user = Update(h).user}]
  /\ UNCHANGED People /\ UNCHANGED Tokens

\* ... and waits for those another DELETE has taken, which are gone then.
DeleteRoles(h) ==
  /\ calls[h].pc = "delete"
  /\ \A g \in Handler \ {h} : calls[g].pc = "save" => calls[g].gone \cap calls[h].gone = {}
  /\ calls' = [calls EXCEPT ![h].pc = "save", ![h].gone = @ \cap roles]
  /\ UNCHANGED People /\ UNCHANGED Tokens

Changes(h) == Update(h).active \notin {Keep, calls[h].seen.active}

RowOf(h) == [user |-> Update(h).user, role |-> Update(h).role, by |-> h]

\* Slip: the new role is there before the old ones are deleted.
RolesAfterSwapped(h) == roles \ {r \in roles \cup {RowOf(h)} : r.user = Update(h).user}

RolesAfter(h) == (roles \ calls[h].gone) \cup {RowOf(h)}

SaveUpdate(h) ==
  /\ calls[h].pc = "save"
  /\ LET u == Update(h).user IN
     /\ Changes(h) => ~Outdated(u, calls[h].seen)
     /\ users' = IF ~Changes(h) THEN users
                 ELSE [users EXCEPT ![u].active = Update(h).active, ![u].version = @ + 1]
     /\ IF Update(h).role = Keep THEN UNCHANGED <<roles, assigned>>
        ELSE roles' = RolesAfter(h) /\ assigned' = [assigned EXCEPT ![u] = Update(h).role]
  /\ Turn(h, Waiting)
  /\ UNCHANGED misses /\ UNCHANGED Tokens

-----------------------------------------------------------------------------
\* AuthenticationError, StaleDataError.
Deny(h) ==
  /\ \/ calls[h].pc \in {"failed", "passed"} /\ Outdated(calls[h].user, calls[h].seen)
     \/ calls[h].pc = "session" /\ SessionOf(h).revoked
     \/ calls[h].pc = "user" /\ ~users[SessionOf(h).user].active
     \/ calls[h].pc = "save" /\ Changes(h) /\ Outdated(Update(h).user, calls[h].seen)
  /\ Turn(h, Waiting)
  /\ UNCHANGED People /\ UNCHANGED Tokens

\* A crash or a lost connection.
Vanish(h) ==
  /\ calls[h].pc # "idle"
  /\ Turn(h, Waiting)
  /\ UNCHANGED People /\ UNCHANGED Tokens

SessionsNext ==
  \/ \E u \in User : LockoutEnds(u)
  \/ \E h \in Handler :
       \/ \E u \in User : BeginLogin(h, u)
       \/ \E t \in DOMAIN tokens : BeginRefresh(h, t) \/ BeginLogout(h, t)
       \/ \E q \in Request : BeginUpdate(h, q)
       \/ CommitFailure(h) \/ CommitLogin(h)
       \/ ReadSession(h) \/ ReadUser(h) \/ Mint(h)
       \/ RevokeTokens(h) \/ CommitRevocation(h)
       \/ PickRoles(h) \/ DeleteRoles(h) \/ SaveUpdate(h)
       \/ Deny(h) \/ Vanish(h)

SessionsSpec == SessionsInit /\ [][SessionsNext]_sessionVars

-----------------------------------------------------------------------------
(* Properties.                                                             *)

\* Every failure that was answered counts towards the lockout, however many
\* logins of one user run at once (auth/service.py:92): a failure that would
\* be counted over another one is an error of the server instead.
FailuresAreCounted == \A u \in User : users[u].failed = misses[u]

\* Whoever is locked out or deactivated gets no session, not even by a login
\* that read the account before (auth/service.py:76, 91): its commit finds
\* another version.
NobodyShutOutEnters ==
  [][Len(sessions') > Len(sessions) =>
       LET u == sessions'[Len(sessions')].user IN users[u].active /\ ~users[u].locked]_sessionVars

\* Once a logout or a reuse has committed, no refresh that comes in later gets
\* a token of that session (auth/service.py:173), although one that raced the
\* logout may have left a token that is neither used nor revoked.
LoggedOutStaysOut == [][\A h \in Handler : Mint(h) => ~calls[h].late]_sessionVars

\* The role an update gave last is held (users/api.py:202-203): no DELETE of
\* another update takes it away.  It may be held beside another one.
LastRoleHeld ==
  \A u \in User : \E r \in roles : r.user = u /\ r.role = assigned[u]

\* "the product assigns exactly one role per user today" (users/api.py:63).
\* Not so when two updates of one user give him a role at once: the DELETE of
\* the second does not see what the first has inserted.
OneRolePerUser ==
  \A u \in User : Cardinality({r.role : r \in {s \in roles : s.user = u}}) = 1

\* Whoever was deactivated, locked out or logged out stays out.
ShutOutStaysOut == NobodyShutOutEnters /\ LoggedOutStaysOut
=============================================================================
