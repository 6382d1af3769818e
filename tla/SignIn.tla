--------------------------------- MODULE SignIn ---------------------------------
(***************************************************************************)
(* Signing in with one email, and the sessions it opens: the login flow of *)
(* apps/web/src/server/auth-issuer.ts over the identity stores             *)
(* packages/db/src/pg/identity.ts and sqlite-identity.ts, and session.ts.  *)
(*                                                                         *)
(* A sign-in is a chain of separate units of work: check the password,     *)
(* bind the email's user to an OpenAuth subject (resolveAuthSuccess), note *)
(* the subject, find the user of the subject again, open the session.      *)
(* Meanwhile administrators create, disable, enable, reset and delete the  *)
(* user, hosting control provisions it, and requests resolve sessions,     *)
(* adopting those opened before their user existed.  On SQLite each unit   *)
(* has the connection to itself; on PostgreSQL others commit between its   *)
(* statements, where this module gives them a step each.                   *)
(*                                                                         *)
(* The issuer gives every sign-in a refresh token, which ends with what    *)
(* ends the sign-in: SQLite finds the tokens through the session rows,     *)
(* PostgreSQL through the subject the user is bound to.                    *)
(*                                                                         *)
(* Left out: passwords as such, the use of a refresh token, expiry, lost   *)
(* connections, the issuer's steps between the units, and who owns it all  *)
(* (an owner is disabled or deleted after handing it over only).           *)
(***************************************************************************)
EXTENDS Naturals

CONSTANTS
  Login,       \* sign-ins, also the subjects they would mint
  Request,     \* requests with a session cookie
  None,
  MaxUsers,    \* bound: users that have the email, one after the other
  MaxChanges   \* bound on administrative changes

Subject == Login

User == [id : 1..MaxUsers, status : {"pending", "active", "disabled"},
         subject : Subject \cup {None}]

\* A session row: user 0 is NULL, the email then says who may adopt it.
Session == [user : 0..MaxUsers, subject : Subject]

ASSUME SignInAssumption ==
  /\ Login \cap Request = {}
  /\ None \notin Login \cup User \cup Session
  /\ MaxUsers \in Nat
  /\ MaxChanges \in Nat

VARIABLES
  backend,     \* "sqlite" or "postgres"
  open,        \* hosted open registration is configured
  user,        \* the user with the email, None if there is none
  users,       \* history: how many users have had it
  credential,  \* openauth_kv has a password for the email
  noted,       \* openauth_kv: the subject recorded for the email
  unused,      \* purposes for which the user has an unused code
  sessions,    \* sessions[l]: the row that sign-in l opened
  tokens,      \* openauth_kv: the sign-ins with a refresh token
  at,          \* where each sign-in and request is
  seen,        \* the user its last read returned
  subjectOf,   \* the subject of sign-in l
  cookie,      \* the sign-in whose session request r presents
  changes

signInVars == <<backend, open, user, users, credential, noted, unused, sessions,
                tokens, at, seen, subjectOf, cookie, changes>>

\* What a sign-in leaves behind.
traces == <<sessions, tokens>>

SignInTypeOK ==
  /\ backend \in {"sqlite", "postgres"}
  /\ open \in BOOLEAN
  /\ user \in User \cup {None}
  /\ users \in 0..MaxUsers
  /\ credential \in BOOLEAN
  /\ noted \in Subject \cup {None}
  /\ unused \subseteq {"setup", "reset"}
  /\ sessions \in [Login -> Session \cup {None}]
  /\ tokens \subseteq Login
  /\ at \in [Login \cup Request ->
               {"start", "verified", "binding", "linked", "noted", "exchanged",
                "found", "candidate", "adopting", "in", "done"}]
  /\ seen \in [Login \cup Request -> User \cup {None}]
  /\ subjectOf \in [Login -> Subject \cup {None}]
  /\ cookie \in [Request -> Login \cup {None}]
  /\ changes \in 0..MaxChanges

\* Between two statements of one unit of work.
InUnit(a) == at[a] \in {"binding", "candidate", "adopting"}

\* On SQLite a unit of work has the connection to itself.
UnitMayBegin == backend = "sqlite" => ~\E a \in Login \cup Request : InUnit(a)

\* The row a read of the user with this id finds.
Is(id) == user # None /\ user.id = id

Active == user # None /\ user.status = "active"

Goes(a, where) == at' = [at EXCEPT ![a] = where]

Sees(a, row) == seen' = [seen EXCEPT ![a] = row]

-----------------------------------------------------------------------------
(* A sign-in.                                                              *)

\* The password provider: a known password, or a registration.
Verify(l) ==
  /\ at[l] = "start"
  /\ UnitMayBegin
  /\ credential \/ open
  /\ credential' = TRUE
  /\ Goes(l, "verified")
  /\ UNCHANGED <<backend, open, user, users, noted, unused, traces, seen, subjectOf,
                 cookie, changes>>

\* pg_advisory_xact_lock of the email, until the unit ends.
EmailFree == ~\E l \in Login : at[l] = "binding"

Linked(l, s) ==
  /\ subjectOf' = [subjectOf EXCEPT ![l] = s]
  /\ noted' = s
  /\ Goes(l, "linked")

Refused(a) == Goes(a, "done") /\ UNCHANGED <<subjectOf, noted>>

\* Without a user, open registration gives the email the subject noted earlier,
\* or a new one.
Unprovisioned(l) ==
  IF open THEN Linked(l, IF noted = None THEN l ELSE noted) ELSE Refused(l)

\* resolveAuthSuccess looks the email up.
Lookup(l) ==
  /\ at[l] = "verified"
  /\ UnitMayBegin
  /\ EmailFree
  /\ Sees(l, user)
  /\ \/ /\ user = None
        /\ Unprovisioned(l)
        /\ UNCHANGED user
     \/ /\ user # None
        /\ user.status = "disabled"
        /\ Refused(l)
        /\ UNCHANGED user
     \/ /\ user # None
        /\ user.status # "disabled"
        /\ user.subject # None
        /\ Linked(l, user.subject)
        /\ user' = [user EXCEPT !.status = "active"]
     \/ /\ user # None
        /\ user.status # "disabled"
        /\ user.subject = None
        /\ Goes(l, "binding")
        /\ UNCHANGED <<user, subjectOf, noted>>
  /\ UNCHANGED <<backend, open, users, credential, unused, traces, cookie, changes>>

\* WHERE id = .. AND auth_subject IS NULL AND status <> 'disabled'.
MayBind(id) == Is(id) /\ user.subject = None /\ user.status # "disabled"

\* Mutant: the sign-in that lost keeps the subject it minted.
MintedAnyway(l) == l

\* The subject another sign-in has bound.
Adopted(l) == user.subject

\* The UPDATE that binds the subject and activates; if it finds no row, what
\* happened instead.
Bind(l) ==
  /\ at[l] = "binding"
  /\ LET id == seen[l].id
     IN \/ /\ MayBind(id)
           /\ user' = [user EXCEPT !.subject = l, !.status = "active"]
           /\ Linked(l, l)
        \/ /\ ~MayBind(id)
           /\ Is(id)
           /\ user.status # "disabled"
           /\ Linked(l, Adopted(l))
           /\ UNCHANGED user
        \/ /\ ~MayBind(id)
           /\ Is(id) => user.status = "disabled"
           /\ Refused(l)
           /\ UNCHANGED user
  /\ UNCHANGED <<backend, open, users, credential, unused, traces, seen, cookie, changes>>

\* The issuer's success handler records the subject once more.
Note(l) ==
  /\ at[l] = "linked"
  /\ UnitMayBegin
  /\ noted' = subjectOf[l]
  /\ Goes(l, "noted")
  /\ UNCHANGED <<backend, open, user, users, credential, unused, traces, seen,
                 subjectOf, cookie, changes>>

\* exchangeCode: the issuer makes the code a pair of tokens and keeps the
\* refresh token under the subject.
Exchange(l) ==
  /\ at[l] = "noted"
  /\ UnitMayBegin
  /\ tokens' = tokens \cup {l}
  /\ Goes(l, "exchanged")
  /\ UNCHANGED <<backend, open, user, users, credential, noted, unused, sessions, seen,
                 subjectOf, cookie, changes>>

\* The user that is bound to the subject.
HasUser(s) == user # None /\ user.subject = s

\* sessionFromTokens: findUserByAuthSubject.
Find(l) ==
  /\ at[l] = "exchanged"
  /\ UnitMayBegin
  /\ LET known == HasUser(subjectOf[l])
     IN \/ known /\ Active /\ Sees(l, user) /\ Goes(l, "found")
        \/ known /\ ~Active /\ Sees(l, user) /\ Goes(l, "done")
        \/ ~known /\ Sees(l, None) /\ Goes(l, IF open THEN "found" ELSE "done")
  /\ UNCHANGED <<backend, open, user, users, credential, noted, unused, traces,
                 subjectOf, cookie, changes>>

\* createSession.  PostgreSQL refuses a row of a user that is gone.
OpenSession(l) ==
  /\ at[l] = "found"
  /\ UnitMayBegin
  /\ LET id == IF seen[l] = None THEN 0 ELSE seen[l].id
     IN IF id > 0 /\ ~Is(id) /\ backend = "postgres"
          THEN Goes(l, "done") /\ UNCHANGED sessions
          ELSE /\ Goes(l, "in")
               /\ sessions' = [sessions EXCEPT ![l] = [user |-> id, subject |-> subjectOf[l]]]
  /\ UNCHANGED <<backend, open, user, users, credential, noted, unused, tokens, seen,
                 subjectOf, cookie, changes>>

\* destroySession: the row, and the refresh token it names.
Logout(l) ==
  /\ at[l] = "in"
  /\ UnitMayBegin
  /\ sessions' = [sessions EXCEPT ![l] = None]
  /\ tokens' = IF sessions[l] = None THEN tokens ELSE tokens \ {l}
  /\ Goes(l, "done")
  /\ UNCHANGED <<backend, open, user, users, credential, noted, unused, seen,
                 subjectOf, cookie, changes>>

-----------------------------------------------------------------------------
(* A request: resolveSessionAny.                                           *)

Answers(r, row) == Goes(r, "done") /\ Sees(r, row)

\* The current user decides: only an active one is signed in.
AnswersAs(r, id) == Answers(r, IF Is(id) /\ Active THEN user ELSE None)

\* The session row.  A row with a user leads to that user; one without, to
\* whoever has the email now.
ReadSession(r) ==
  /\ at[r] = "start"
  /\ UnitMayBegin
  /\ \E l \in Login :
       /\ sessions[l] # None
       /\ cookie' = [cookie EXCEPT ![r] = l]
       /\ IF sessions[l].user = 0
            THEN Goes(r, "candidate") /\ UNCHANGED seen
            ELSE AnswersAs(r, sessions[l].user)
  /\ UNCHANGED <<backend, open, user, users, credential, noted, unused, traces,
                 subjectOf, changes>>

\* The user has bound another subject: the session can never be its.
Another(s) == user.subject # None /\ user.subject # s

\* The user with the email: none that is active, one of another subject, or
\* one that may adopt the session.
ReadCandidate(r) ==
  /\ at[r] = "candidate"
  /\ \/ /\ ~Active
        /\ Answers(r, None)
        /\ UNCHANGED sessions
     \/ /\ Active
        /\ Another(subjectOf[cookie[r]])
        /\ sessions' = [sessions EXCEPT ![cookie[r]] = None]
        /\ Answers(r, None)
     \/ /\ Active
        /\ ~Another(subjectOf[cookie[r]])
        /\ Sees(r, user)
        /\ Goes(r, "adopting")
        /\ UNCHANGED sessions
  /\ UNCHANGED <<backend, open, user, users, credential, noted, unused, tokens, subjectOf,
                 cookie, changes>>

\* WHERE id = .. AND auth_subject IS NULL.
Unbound(id) == Is(id) /\ user.subject = None

\* The session's row gets the user.  A foreign key needs the user to exist.
Upgrade(r, id) ==
  IF ~Is(id) /\ backend = "postgres"
    THEN Answers(r, None) /\ UNCHANGED sessions
    ELSE /\ AnswersAs(r, id)
         /\ sessions' = [sessions EXCEPT ![cookie[r]] =
                           IF @ = None THEN None ELSE [@ EXCEPT !.user = id]]

\* Binds the session's subject to a user that had none, unless another sign-in
\* was first.
Adopt(r) ==
  /\ at[r] = "adopting"
  /\ LET id == seen[r].id
         s == subjectOf[cookie[r]]
     IN \/ /\ seen[r].subject = None
           /\ Unbound(id)
           /\ user' = [user EXCEPT !.subject = s]
           /\ Upgrade(r, id)
        \/ /\ seen[r].subject = None
           /\ ~Unbound(id)
           /\ Is(id) => user.subject # s
           /\ sessions' = [sessions EXCEPT ![cookie[r]] = None]
           /\ Answers(r, None)
           /\ UNCHANGED user
        \/ /\ \/ seen[r].subject # None
              \/ ~Unbound(id) /\ Is(id) /\ user.subject = s
           /\ Upgrade(r, id)
           /\ UNCHANGED user
  /\ UNCHANGED <<backend, open, users, credential, noted, unused, tokens, subjectOf,
                 cookie, changes>>

-----------------------------------------------------------------------------
(* What happens to the user meanwhile.                                     *)

Changes ==
  /\ UnitMayBegin
  /\ changes < MaxChanges
  /\ changes' = changes + 1
  /\ UNCHANGED <<backend, open, at, seen, subjectOf, cookie>>

NewUser(status, s) ==
  /\ user = None
  /\ users < MaxUsers
  /\ users' = users + 1
  /\ user' = [id |-> users + 1, status |-> status, subject |-> s]
  /\ UNCHANGED <<credential, noted, traces>>

\* user.create: pending, with a setup code.
Invite ==
  /\ Changes
  /\ NewUser("pending", None)
  /\ unused' = {"setup"}

\* provisionWorkspace: active if the email has a password, and then with the
\* subject hosting control names, if it names one.
Provision ==
  /\ Changes
  /\ IF credential
       THEN /\ \E s \in {None, noted} : NewUser("active", s)
            /\ unused' = {}
       ELSE NewUser("pending", None) /\ unused' = {"setup"}

\* The rows of the user go.
SessionsEnded ==
  [l \in Login |-> IF sessions[l] # None /\ sessions[l].user = user.id
                     THEN None ELSE sessions[l]]

\* endUserSessions (SQLite) revokes the token each of these rows names.
OfItsSessions == {l \in tokens : sessions[l] # None /\ sessions[l].user = user.id}

\* The tokens under the subject the user is bound to, those of sign-ins that
\* have no session yet included.
OfItsSubject == {l \in tokens : user.subject # None /\ subjectOf[l] = user.subject}

\* deleteSessions.  PostgreSQL's deletes rows only.
EndSessions ==
  /\ sessions' = SessionsEnded
  /\ tokens' = IF backend = "sqlite" THEN tokens \ OfItsSessions ELSE tokens

\* Mutant: a reset revokes as much as disabling does.
EndSessionsOnly == EndSessions

\* A reset and a deletion end the sessions and revoke by subject.
EndSignIns ==
  /\ sessions' = SessionsEnded
  /\ tokens' = tokens \ (OfItsSubject \cup IF backend = "sqlite" THEN OfItsSessions ELSE {})

\* user.update disabled: true.
DisableUser ==
  /\ Changes
  /\ user # None
  /\ user' = [user EXCEPT !.status = "disabled"]
  /\ EndSessions
  /\ UNCHANGED <<users, credential, noted, unused>>

\* What disabled: false makes of the status: SQLite looks at the subject,
\* PostgreSQL at the status itself.
Restored ==
  CASE backend = "sqlite" -> IF user.subject = None THEN "pending" ELSE "active"
    [] backend = "postgres" -> IF user.status = "disabled" THEN "active" ELSE user.status

\* user.update disabled: false.
EnableUser ==
  /\ Changes
  /\ user # None
  /\ user' = [user EXCEPT !.status = Restored]
  /\ UNCHANGED <<users, credential, noted, unused, traces>>

\* user.resetPassword.  PostgreSQL issues no code to a disabled user.
Reset ==
  /\ Changes
  /\ user # None
  /\ user.status # "pending"
  /\ backend = "postgres" => user.status # "disabled"
  /\ unused' = unused \cup {"reset"}
  /\ EndSignIns
  /\ UNCHANGED <<user, users, credential, noted>>

\* redeemCodeAndSetPassword.
Redeem ==
  /\ Changes
  /\ user # None
  /\ backend = "postgres" => user.status # "disabled"
  /\ \E purpose \in unused :
       /\ unused' = unused \ {purpose}
       /\ IF purpose = "reset" THEN EndSignIns ELSE UNCHANGED traces
  /\ credential' = TRUE
  /\ UNCHANGED <<user, users, noted>>

\* removeOpenAuthCredential / purgeIssuerIdentity: password and noted subject.
ForgetIdentity == credential' = FALSE /\ noted' = None

\* user.delete: what the issuer keeps, sessions, tokens, codes and the row.
DeleteUser ==
  /\ Changes
  /\ user # None
  /\ user' = None
  /\ ForgetIdentity
  /\ unused' = {}
  /\ EndSignIns
  /\ UNCHANGED users

-----------------------------------------------------------------------------
SignInInit ==
  /\ backend \in {"sqlite", "postgres"}
  /\ open \in BOOLEAN
  /\ user = None
  /\ users = 0
  /\ credential = FALSE
  /\ noted = None
  /\ unused = {}
  /\ sessions = [l \in Login |-> None]
  /\ tokens = {}
  /\ at = [a \in Login \cup Request |-> "start"]
  /\ seen = [a \in Login \cup Request |-> None]
  /\ subjectOf = [l \in Login |-> None]
  /\ cookie = [r \in Request |-> None]
  /\ changes = 0

SignsIn(l) ==
  \/ Verify(l) \/ Lookup(l) \/ Bind(l) \/ Note(l)
  \/ Exchange(l) \/ Find(l) \/ OpenSession(l) \/ Logout(l)

Resolves(r) == ReadSession(r) \/ ReadCandidate(r) \/ Adopt(r)

Administers == Invite \/ Provision \/ DisableUser \/ EnableUser \/ Reset \/ Redeem \/ DeleteUser

SignInNext ==
  \/ \E l \in Login : SignsIn(l)
  \/ \E r \in Request : Resolves(r)
  \/ Administers

SignInSpec == SignInInit /\ [][SignInNext]_signInVars

-----------------------------------------------------------------------------
(* Properties.                                                             *)

\* PostgreSQL's foreign key leaves no session of a user that is gone.
SessionHasUserOnPostgres ==
  backend = "postgres" =>
    \A l \in Login :
      sessions[l] # None /\ sessions[l].user > 0 => Is(sessions[l].user)

\* "a second sign-in racing this one waits on the row, finds it already bound,
\* and adopts that subject instead of overwriting it" (pg/identity.ts:526):
\* whoever was ever linked to the present user has the subject it is bound to.
SignInsAgree ==
  \A l \in Login :
    user # None /\ seen[l] # None /\ seen[l].id = user.id /\ subjectOf[l] # None
      => user.subject = subjectOf[l]

\* "bind-once; a different pre-bound subject kills the session"
\* (docs/auth-api.md:319): a session that is a user's was opened for the subject
\* that user is bound to, however users, sign-ins and adoptions interleave.
SessionsMatch ==
  \A l \in Login :
    user # None /\ sessions[l] # None /\ sessions[l].user = user.id
      => user.subject = sessions[l].subject

\* The types; sign-ins and sessions agree with the user on the subject it is bound
\* to, and no session outlives its user.
SignInInv == SignInTypeOK /\ SignInsAgree /\ SessionsMatch /\ SessionHasUserOnPostgres

\* A disabled user becomes active by an administrator's change only, never by
\* a sign-in or an adoption that read the user before.
DisabledStaysOut ==
  user # None /\ user.status = "disabled" /\ user' # None /\ user'.id = user.id
    => user'.status = "disabled" \/ changes' = changes + 1

\* Disabling a user on PostgreSQL leaves the refresh tokens.
KeepsTokens == backend = "postgres" /\ user' # None /\ user'.status = "disabled"

\* "ends all of the user's sessions and revokes their OpenAuth refresh tokens"
\* (docs/auth-api.md:223), "Deletes the session row, revokes the session's
\* OpenAuth refresh token" (docs/auth-api.md:233): a session that a logout or a
\* change to its user ends takes its token along, whichever way the store
\* finds it.  PostgreSQL finds none whose subject is not the user's.
TokensGoWithSessions ==
  \A l \in Login :
    /\ sessions[l] # None /\ sessions[l].user > 0 /\ sessions'[l] = None
    /\ changes' = changes + 1 \/ at'[l] # at[l]
    => l \notin tokens' \/ KeepsTokens

\* What has been ended is not restored or left behind by a sign-in that was
\* under way.
EndedStaysEnded == [][DisabledStaysOut /\ TokensGoWithSessions]_signInVars
=============================================================================
