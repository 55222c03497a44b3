---------------------------- MODULE Credentials ----------------------------
(***************************************************************************)
(* What proves who a user is: passwords, sessions, MFA secrets, login      *)
(* challenges and reset links (internal/storage/auth.go, login.go, mfa.go, *)
(* password_reset.go and the handlers that call them in internal/api).     *)
(*                                                                         *)
(* An HTTP request is a sequence of statements and transactions; between   *)
(* two of them anything else may happen.  A request in flight keeps what   *)
(* it has read in req.  A transaction that begins by locking the user row  *)
(* is one step.                                                            *)
(*                                                                         *)
(* A password hash is the number of times the user's password was set:     *)
(* bcrypt salts every hash, so setting the same password again gives       *)
(* another hash.  0 is the empty hash of an SSO-only account.  A TOTP      *)
(* secret is the number of secrets generated for the user so far, 0 none.  *)
(* Rows past expires_at count as deleted: every query ignores them.        *)
(***************************************************************************)
EXTENDS Integers, FiniteSets

CONSTANTS
  User,                    \* user ids ever used; an id is never used again
  Challenge,               \* MFA challenge tokens
  Reset,                   \* password reset tokens
  Request,                 \* HTTP requests in flight at one time
  None,
  RequireMFA,              \* REQUIRE_MFA of the instance
  LoginMaxFailures,        \* 5 in AuthenticateUser
  MFAChallengeMaxFailures,
  MFAUserMaxFailures,
  MaxConcurrentResets,     \* maxConcurrentPasswordResets
  MaxHash,                 \* bound on password changes of one user
  MaxSecrets               \* bound on TOTP secrets generated for one user

ASSUME CredentialsAssumption ==
  /\ IsFiniteSet(Request)
  /\ None \notin User \cup Challenge \cup Reset
  /\ Challenge \cap Reset = {}
  /\ RequireMFA \in BOOLEAN
  /\ {LoginMaxFailures, MFAChallengeMaxFailures, MFAUserMaxFailures,
      MaxConcurrentResets, MaxHash, MaxSecrets} \subseteq Nat \ {0}

VARIABLES
  user,      \* the users table
  session,   \* the sessions: whose, and under which password hash opened
  challenge, \* the mfa_challenges table
  reset,     \* the password_reset_tokens table: the user a link is for
  req,       \* the requests in flight
  sso,       \* ssoRequired(): set at startup
  honoured   \* history: how often a challenge or a reset token was accepted

vars == <<user, session, challenge, reset, req, sso, honoured>>
tables == <<user, session, challenge, reset>>

Hash   == 0 .. MaxHash
Secret == 0 .. MaxSecrets
Token  == Challenge \cup Reset

UserRow ==
  [status : {"unborn", "live", "deleted"}, hash : Hash, enabled : BOOLEAN,
   secret : Secret, pending : Secret, minted : Secret,
   failed : 0 .. LoginMaxFailures, locked : BOOLEAN,
   mfaFailed : 0 .. (MFAUserMaxFailures - 1), mfaLocked : BOOLEAN]

\* Sessions of one user opened under the same hash are one record: it stands
\* for one or more of them.
Session == [user : User, hash : Hash]

Idle == [pc |-> "idle", user |-> None, hash |-> 0, mfa |-> FALSE,
         token |-> None, secret |-> 0]

PCs == {"idle", "password", "issue", "verify", "code", "verified", "wrong",
        "count", "reset", "stage", "confirm", "disable"}

Live(u) == user[u].status = "live"

NewUser(hash) ==
  [status |-> "live", hash |-> hash, enabled |-> FALSE, secret |-> 0,
   pending |-> 0, minted |-> 0, failed |-> 0, locked |-> FALSE,
   mfaFailed |-> 0, mfaLocked |-> FALSE]

Init ==
  /\ user = [u \in User |-> [NewUser(0) EXCEPT !.status = "unborn"]]
  /\ session = {}
  /\ challenge = [c \in Challenge |-> None]
  /\ reset = [t \in Reset |-> None]
  /\ req = [r \in Request |-> Idle]
  /\ sso \in BOOLEAN
  /\ honoured = [t \in Token |-> 0]

Done(r)      == req' = [req EXCEPT ![r] = Idle]
Goto(r, pc)  == req' = [req EXCEPT ![r].pc = pc]
InFlight(t)  == \E r \in Request : req[r].token = t
Drop(table, u) == [t \in DOMAIN table |-> IF table[t] = u THEN None ELSE table[t]]

SessionsOf(u)   == {s \in session : s.user = u}
DropChallenges(u) ==
  [c \in Challenge |->
     IF challenge[c] # None /\ challenge[c].user = u THEN None ELSE challenge[c]]

\* An UPDATE of a user row that is gone changes nothing.
Updated(u, row) == IF Live(u) THEN [user EXCEPT ![u] = row] ELSE user

(***************************************************************************)
(* Accounts come and go.  Who may create or delete one is in Membership.   *)
(***************************************************************************)

\* AcceptInviteWithSession: the account and its first session.
AcceptInvite(u) ==
  /\ ~sso
  /\ user[u].status = "unborn"
  /\ user' = [user EXCEPT ![u] = NewUser(1)]
  /\ session' = session \cup {[user |-> u, hash |-> 1]}
  /\ UNCHANGED <<challenge, reset, req, sso, honoured>>

\* "users create" of the command line.
CreateAdminUser(u) ==
  /\ user[u].status = "unborn"
  /\ user' = [user EXCEPT ![u] = NewUser(1)]
  /\ UNCHANGED <<session, challenge, reset, req, sso, honoured>>

\* FindOrCreateOAuthUser with an invitation: an account without a password.
CreateOAuthUser(u) ==
  /\ sso
  /\ user[u].status = "unborn"
  /\ user' = [user EXCEPT ![u] = NewUser(0)]
  /\ UNCHANGED <<session, challenge, reset, req, sso, honoured>>

\* DeleteUser: the foreign keys cascade.
DeleteUser(u) ==
  /\ Live(u)
  /\ user' = [user EXCEPT ![u].status = "deleted"]
  /\ session' = session \ SessionsOf(u)
  /\ challenge' = DropChallenges(u)
  /\ reset' = Drop(reset, u)
  /\ UNCHANGED <<req, sso, honoured>>

(***************************************************************************)
(* Signing in.                                                             *)
(***************************************************************************)
Snapshot(pc, u) == [Idle EXCEPT !.pc = pc, !.user = u, !.hash = user[u].hash,
                                !.mfa = user[u].enabled]

\* AuthenticateUser reads the row; a locked account gets no further.
LoginRead(r, u) ==
  /\ ~sso
  /\ req[r].pc = "idle"
  /\ Live(u) /\ ~user[u].locked
  /\ req' = [req EXCEPT ![r] = Snapshot("password", u)]
  /\ UNCHANGED <<tables, sso, honoured>>

\* A wrong password counts, and locks the account at the limit.  The count
\* stays at the limit after the lock has expired, so the next one locks again;
\* counting further would change nothing.
PasswordWrong(r) ==
  LET u == req[r].user
      n == user[u].failed + 1
  IN /\ req[r].pc = "password"
     /\ user' = Updated(u, [user[u] EXCEPT
                  !.failed = IF n > LoginMaxFailures THEN @ ELSE n,
                  !.locked = @ \/ n >= LoginMaxFailures])
     /\ Done(r)
     /\ UNCHANGED <<session, challenge, reset, sso, honoured>>

\* The password matches the hash that was read: the lockout is reset, whatever
\* other attempts have done to it meanwhile.
PasswordRight(r) ==
  LET u == req[r].user
  IN /\ req[r].pc = "password"
     /\ req[r].hash # 0
     /\ user' = Updated(u, [user[u] EXCEPT !.failed = 0, !.locked = FALSE])
     /\ Goto(r, "issue")
     /\ UNCHANGED <<session, challenge, reset, sso, honoured>>

\* handleOAuthCallback: the provider vouches for a linked user, whose row is read.
OAuthRead(r, u) ==
  /\ sso
  /\ req[r].pc = "idle"
  /\ Live(u)
  /\ req' = [req EXCEPT ![r] = Snapshot("issue", u)]
  /\ UNCHANGED <<tables, sso, honoured>>

\* Mutant: the snapshot is compared without the MFA flag.
SnapshotCurrentHashOnly(r) ==
  /\ Live(req[r].user)
  /\ user[req[r].user].hash = req[r].hash

\* withAuthenticatedUser, after locking the row.
SnapshotCurrent(r) ==
  /\ Live(req[r].user)
  /\ user[req[r].user].hash = req[r].hash
  /\ user[req[r].user].enabled = req[r].mfa

CreateAuthenticatedSession(r) ==
  /\ req[r].pc = "issue"
  /\ ~req[r].mfa
  /\ SnapshotCurrent(r)
  /\ session' = session \cup {[user |-> req[r].user, hash |-> req[r].hash]}
  /\ Done(r)
  /\ UNCHANGED <<user, challenge, reset, sso, honoured>>

CreateAuthenticatedMFAChallenge(r, c) ==
  /\ req[r].pc = "issue"
  /\ req[r].mfa
  /\ SnapshotCurrent(r)
  /\ challenge[c] = None /\ ~InFlight(c)
  /\ challenge' = [challenge EXCEPT ![c] =
       [user |-> req[r].user, hash |-> req[r].hash, failed |-> 0]]
  /\ honoured' = [honoured EXCEPT ![c] = 0]
  /\ Done(r)
  /\ UNCHANGED <<user, session, reset, sso>>

AuthenticationChanged(r) ==
  /\ req[r].pc = "issue"
  /\ ~SnapshotCurrent(r)
  /\ Done(r)
  /\ UNCHANGED <<tables, sso, honoured>>

\* The transaction both ways of signing in end with.
withAuthenticatedUser(r) ==
  \/ CreateAuthenticatedSession(r) \/ AuthenticationChanged(r)
  \/ \E c \in Challenge : CreateAuthenticatedMFAChallenge(r, c)

handleLogin(r) ==
  \/ \E u \in User : LoginRead(r, u)
  \/ PasswordWrong(r) \/ PasswordRight(r)
  \/ withAuthenticatedUser(r)

handleOAuthCallback(r) == \E u \in User : OAuthRead(r, u)

(***************************************************************************)
(* The second factor at login: handleMFAVerify.                            *)
(***************************************************************************)
GetMFAChallenge(r, c) ==
  /\ req[r].pc = "idle"
  /\ challenge[c] # None
  /\ req' = [req EXCEPT ![r] = [Idle EXCEPT !.pc = "verify", !.token = c,
                                            !.user = challenge[c].user]]
  /\ UNCHANGED <<tables, sso, honoured>>

MFALocked(r) ==
  /\ req[r].pc = "verify"
  /\ IF Live(req[r].user) /\ user[req[r].user].mfaLocked THEN Done(r) ELSE Goto(r, "code")
  /\ UNCHANGED <<tables, sso, honoured>>

\* GetMFASecret and totp.Validate: the code is right for the secret, or wrong.
CheckCode(r) ==
  LET u == req[r].user
  IN /\ req[r].pc = "code"
     /\ \/ Live(u) /\ user[u].secret # 0
           /\ req' = [req EXCEPT ![r].pc = "verified", ![r].secret = user[u].secret]
        \/ Goto(r, "wrong")
     /\ UNCHANGED <<tables, sso, honoured>>

FactorCurrent(r) ==
  /\ user[req[r].user].enabled
  /\ user[req[r].user].secret = req[r].secret

\* CompleteMFALogin, after locking the row: secret, lock and challenge are
\* checked again, the challenge is consumed and the session opened.
CanComplete(r) ==
  /\ Live(req[r].user)
  /\ FactorCurrent(r)
  /\ ~user[req[r].user].mfaLocked
  /\ challenge[req[r].token] # None

CompleteMFALogin(r) ==
  LET u == req[r].user
      c == req[r].token
  IN /\ req[r].pc = "verified"
     /\ CanComplete(r)
     /\ user' = [user EXCEPT ![u].mfaFailed = 0]
     /\ challenge' = [challenge EXCEPT ![c] = None]
     /\ session' = session \cup {[user |-> u, hash |-> challenge[c].hash]}
     /\ honoured' = [honoured EXCEPT ![c] = @ + 1]
     /\ Done(r)
     /\ UNCHANGED <<reset, sso>>

CompleteRefused(r) ==
  /\ req[r].pc = "verified"
  /\ ~CanComplete(r)
  /\ Done(r)
  /\ UNCHANGED <<tables, sso, honoured>>

\* The end of RecordMFAFailure: the user's counter and, at the limit, the lock;
\* a locked user loses every challenge.
CountUserFailure(u, table) ==
  LET atLimit == user[u].mfaFailed + 1 >= MFAUserMaxFailures
      isLocked == Live(u) /\ (atLimit \/ user[u].mfaLocked)
  IN /\ user' = Updated(u, [user[u] EXCEPT
                  !.mfaFailed = IF atLimit THEN 0 ELSE @ + 1,
                  !.mfaLocked = @ \/ atLimit])
     /\ challenge' = [c \in Challenge |->
          IF isLocked /\ table[c] # None /\ table[c].user = u THEN None ELSE table[c]]

\* Mutant: off by one, the challenge outlives its last permitted failure.
DiscardsLate(c) == challenge[c] # None /\ challenge[c].failed + 1 > MFAChallengeMaxFailures

Discards(c) == challenge[c] # None /\ challenge[c].failed + 1 >= MFAChallengeMaxFailures

\* RecordMFAFailure's DELETE sees the committed count.  When it does not match,
\* a concurrent failure may still raise the count before the UPDATE runs.
RecordDiscard(r) ==
  LET c == req[r].token
  IN /\ req[r].pc = "wrong"
     /\ IF Discards(c)
        THEN /\ CountUserFailure(req[r].user, [challenge EXCEPT ![c] = None])
             /\ Done(r)
        ELSE Goto(r, "count") /\ UNCHANGED <<user, challenge>>
     /\ UNCHANGED <<session, reset, sso, honoured>>

RecordCount(r) ==
  LET c == req[r].token
  IN /\ req[r].pc = "count"
     /\ CountUserFailure(req[r].user,
          IF challenge[c] = None THEN challenge ELSE [challenge EXCEPT ![c].failed = @ + 1])
     /\ Done(r)
     /\ UNCHANGED <<session, reset, sso, honoured>>

\* The transaction locks challenge then user, CompleteMFALogin and the password
\* changes user then challenge: PostgreSQL may abort it to break a deadlock.
\* The error is logged and the failure not counted.
RecordAborts(r) ==
  /\ req[r].pc \in {"wrong", "count"}
  /\ Done(r)
  /\ UNCHANGED <<tables, sso, honoured>>

handleMFAVerify(r) ==
  \/ \E c \in Challenge : GetMFAChallenge(r, c)
  \/ MFALocked(r) \/ CheckCode(r)
  \/ CompleteMFALogin(r) \/ CompleteRefused(r)
  \/ RecordDiscard(r) \/ RecordCount(r) \/ RecordAborts(r)

(***************************************************************************)
(* Passwords change.                                                       *)
(***************************************************************************)

\* The columns every password change resets.
WithPassword(row) ==
  [row EXCEPT !.hash = @ + 1, !.failed = 0, !.locked = FALSE, !.pending = 0]

\* Mutant: the challenges of the old password stay.
revokeKeepsChallenges(u, issued) ==
  /\ session' = (session \ SessionsOf(u)) \cup issued
  /\ challenge' = challenge
  /\ reset' = Drop(reset, u)

\* revokeCredentialArtifacts, and the session issued in the same transaction.
revokeCredentialArtifacts(u, issued) ==
  /\ session' = (session \ SessionsOf(u)) \cup issued
  /\ challenge' = DropChallenges(u)
  /\ reset' = Drop(reset, u)

Issued(u) == {[user |-> u, hash |-> user[u].hash + 1]}

\* changeUserPassword with a live session and the right current password.
ChangeUserPassword(s) ==
  LET u == s.user
  IN /\ user[u].hash \in 1 .. (MaxHash - 1)
     /\ user' = [user EXCEPT ![u] = WithPassword(user[u])]
     /\ revokeCredentialArtifacts(u, Issued(u))
     /\ UNCHANGED <<req, sso, honoured>>

AdminSetPassword(u) ==
  /\ Live(u) /\ user[u].hash < MaxHash
  /\ user' = [user EXCEPT ![u] = WithPassword(user[u])]
  /\ revokeCredentialArtifacts(u, {})
  /\ UNCHANGED <<req, sso, honoured>>

\* handleAdminSendPasswordReset and "users send-password-reset".
CreatePasswordResetToken(u, t) ==
  /\ Live(u)
  /\ reset[t] = None /\ ~InFlight(t)
  /\ reset' = [reset EXCEPT ![t] = u]
  /\ honoured' = [honoured EXCEPT ![t] = 0]
  /\ UNCHANGED <<user, session, challenge, req, sso>>

\* handleDoPasswordReset up to the SELECT of the token.
ResetRead(r, t) ==
  /\ ~sso
  /\ req[r].pc = "idle"
  /\ Cardinality({q \in Request : req[q].pc = "reset"}) < MaxConcurrentResets
  /\ reset[t] # None
  /\ req' = [req EXCEPT ![r] = [Idle EXCEPT !.pc = "reset", !.token = t, !.user = reset[t]]]
  /\ UNCHANGED <<tables, sso, honoured>>

\* Mutant: the token is not claimed again once the user row is locked.
ResetClaimUnchecked(r) == Live(req[r].user)

ResetClaim(r) == Live(req[r].user) /\ reset[req[r].token] # None

\* The rest of usePasswordResetToken: MFA must be enrolled again.
UsePasswordResetToken(r) ==
  LET u == req[r].user
      t == req[r].token
  IN /\ req[r].pc = "reset"
     /\ ResetClaim(r) /\ user[u].hash < MaxHash
     /\ user' = [user EXCEPT ![u] =
          [WithPassword(user[u]) EXCEPT !.enabled = FALSE, !.secret = 0]]
     /\ revokeCredentialArtifacts(u, Issued(u))
     /\ honoured' = [honoured EXCEPT ![t] = @ + 1]
     /\ Done(r)
     /\ UNCHANGED sso

ResetRefused(r) ==
  /\ req[r].pc = "reset"
  /\ ~ResetClaim(r)
  /\ Done(r)
  /\ UNCHANGED <<tables, sso, honoured>>

handleDoPasswordReset(r) ==
  \/ \E t \in Reset : ResetRead(r, t)
  \/ UsePasswordResetToken(r) \/ ResetRefused(r)

\* The link goes out by mail, or to the admin when there is no mailer: in both
\* cases the token can be redeemed as soon as it is stored.
handleAdminSendPasswordReset(u) == \E t \in Reset : CreatePasswordResetToken(u, t)

handleChangePassword == \E s \in session : ChangeUserPassword(s)
handleAdminSetPassword(u) == AdminSetPassword(u)

(***************************************************************************)
(* Enrolling and removing the authenticator.                               *)
(***************************************************************************)

\* requireSessionAuth: a session that exists; while the instance requires MFA,
\* one of a user without it gets to its own account and to enrolment only.
SessionAllows(s, enrolment) == enrolment \/ ~RequireMFA \/ user[s.user].enabled

\* handleMFASetup: with an active factor, a code for it is required.
MFASetup(r, s) ==
  /\ req[r].pc = "idle" /\ SessionAllows(s, TRUE)
  /\ user[s.user].enabled => user[s.user].secret # 0
  /\ req' = [req EXCEPT ![r] =
       [Snapshot("stage", s.user) EXCEPT
          !.secret = IF user[s.user].enabled THEN user[s.user].secret ELSE 0]]
  /\ UNCHANGED <<tables, sso, honoured>>

\* SetPendingMFASecret: only while the factor that was proved is the active one.
SetPendingMFASecret(r) ==
  LET u == req[r].user
      current == /\ Live(u)
                 /\ IF user[u].enabled THEN user[u].secret = req[r].secret /\ req[r].secret # 0
                                       ELSE req[r].secret = 0
  IN /\ req[r].pc = "stage"
     /\ current => user[u].minted < MaxSecrets
     /\ user' = IF current
                THEN [user EXCEPT ![u].minted = @ + 1, ![u].pending = user[u].minted + 1]
                ELSE user
     /\ Done(r)
     /\ UNCHANGED <<session, challenge, reset, sso, honoured>>

\* handleMFAConfirm: the code is right for the pending secret that was read.
GetPendingMFASecret(r, s) ==
  /\ req[r].pc = "idle"
  /\ user[s.user].pending # 0
  /\ req' = [req EXCEPT ![r] =
       [Idle EXCEPT !.pc = "confirm", !.user = s.user, !.secret = user[s.user].pending]]
  /\ UNCHANGED <<tables, sso, honoured>>

ConfirmMFA(r) ==
  LET u == req[r].user
  IN /\ req[r].pc = "confirm"
     /\ user' = IF Live(u) /\ user[u].pending = req[r].secret
                THEN [user EXCEPT ![u].secret = user[u].pending, ![u].enabled = TRUE,
                                  ![u].pending = 0]
                ELSE user
     /\ Done(r)
     /\ UNCHANGED <<session, challenge, reset, sso, honoured>>

\* handleMFADisable: the password is checked against the row that was read.
MFADisable(r, s) ==
  /\ req[r].pc = "idle"
  /\ SessionAllows(s, FALSE)
  /\ user[s.user].hash # 0
  /\ req' = [req EXCEPT ![r] = Snapshot("disable", s.user)]
  /\ UNCHANGED <<tables, sso, honoured>>

WithoutMFA(row) == [row EXCEPT !.enabled = FALSE, !.secret = 0, !.pending = 0]

DisableMFA(r) ==
  /\ req[r].pc = "disable"
  /\ user' = Updated(req[r].user, WithoutMFA(user[req[r].user]))
  /\ Done(r)
  /\ UNCHANGED <<session, challenge, reset, sso, honoured>>

\* handleAdminDisableMFA and "users disable-mfa".
AdminDisableMFA(u) ==
  /\ Live(u)
  /\ user' = [user EXCEPT ![u] = WithoutMFA(@)]
  /\ UNCHANGED <<session, challenge, reset, req, sso, honoured>>

handleMFASetup(r) == (\E s \in session : MFASetup(r, s)) \/ SetPendingMFASecret(r)
handleMFAConfirm(r) == (\E s \in session : GetPendingMFASecret(r, s)) \/ ConfirmMFA(r)
handleMFADisable(r) == (\E s \in session : MFADisable(r, s)) \/ DisableMFA(r)

(***************************************************************************)
(* Sessions end, time passes, the server restarts.                         *)
(***************************************************************************)

\* DeleteSessionReturningUserID, or expiry, of the last session the record
\* stands for.
EndSession(s) ==
  /\ session' = session \ {s}
  /\ UNCHANGED <<user, challenge, reset, req, sso, honoured>>

ExpireToken ==
  \/ \E c \in Challenge :
       /\ challenge[c] # None
       /\ challenge' = [challenge EXCEPT ![c] = None]
       /\ UNCHANGED <<user, session, reset, req, sso, honoured>>
  \/ \E t \in Reset :
       /\ reset[t] # None
       /\ reset' = [reset EXCEPT ![t] = None]
       /\ UNCHANGED <<user, session, challenge, req, sso, honoured>>

ExpireOnUser(u) ==
  /\ \E row \in {[user[u] EXCEPT !.pending = 0], [user[u] EXCEPT !.locked = FALSE],
                 [user[u] EXCEPT !.mfaLocked = FALSE]} :
       row # user[u] /\ user' = [user EXCEPT ![u] = row]
  /\ UNCHANGED <<session, challenge, reset, req, sso, honoured>>

\* Requests in flight die with the server; providers are configured at startup.
Restart ==
  /\ req' = [r \in Request |-> Idle]
  /\ sso' \in BOOLEAN
  /\ UNCHANGED <<tables, honoured>>

handleLogout == \E s \in session : EndSession(s)

Next ==
  \/ \E u \in User :
       \/ AcceptInvite(u) \/ CreateAdminUser(u) \/ CreateOAuthUser(u) \/ DeleteUser(u)
       \/ handleAdminSetPassword(u) \/ handleAdminSendPasswordReset(u) \/ AdminDisableMFA(u)
       \/ ExpireOnUser(u)
  \/ \E r \in Request :
       \/ handleLogin(r) \/ handleOAuthCallback(r) \/ handleMFAVerify(r)
       \/ handleDoPasswordReset(r)
       \/ handleMFASetup(r) \/ handleMFAConfirm(r) \/ handleMFADisable(r)
  \/ handleChangePassword \/ handleLogout
  \/ ExpireToken
  \/ Restart

Spec == Init /\ [][Next]_vars

(***************************************************************************)
(* Properties.                                                             *)
(***************************************************************************)
TypeOK ==
  /\ user \in [User -> UserRow]
  /\ session \subseteq Session
  /\ challenge \in [Challenge -> [user : User, hash : Hash, failed : Nat] \cup {None}]
  /\ reset \in [Reset -> User \cup {None}]
  /\ req \in [Request -> [pc : PCs, user : User \cup {None}, hash : Hash, mfa : BOOLEAN,
                          token : Token \cup {None}, secret : Secret]]
  /\ sso \in BOOLEAN
  /\ honoured \in [Token -> Nat]

\* Whatever opens the account was earned with the password that is set now, and
\* belongs to a user who exists: no session and no half-finished login survives
\* a password change or a deletion, nor is it created by a request that checked
\* the old password and is late (login.go, revokeCredentialArtifacts).
CredentialsCurrent ==
  /\ \A s \in session : Live(s.user) /\ s.hash = user[s.user].hash
  /\ \A c \in Challenge :
       challenge[c] # None =>
         Live(challenge[c].user) /\ challenge[c].hash = user[challenge[c].user].hash
  /\ \A t \in Reset : reset[t] # None => Live(reset[t])

\* A login never opens a session past an enrolled authenticator: if MFA is on
\* when the session is created, a code for the secret enrolled now was checked,
\* however long the request was under way (withAuthenticatedUser's snapshot,
\* CompleteMFALogin's recheck).
SecondFactorEnforced ==
  [][\A r \in Request :
       (CreateAuthenticatedSession(r) \/ CompleteMFALogin(r)) =>
         (user[req[r].user].enabled => req[r].secret = user[req[r].user].secret)]_vars

\* A challenge opens at most one session and a reset link sets at most one
\* password, however many requests present it at once.
SingleUse == \A t \in Token : honoured[t] <= 1

\* Concurrent wrong codes: the count of a challenge can pass the test of
\* RecordMFAFailure's DELETE only by what is in flight at that moment, one per
\* concurrent request, so the next wrong code discards it.
ChallengeBudget ==
  \A c \in Challenge :
    challenge[c] # None =>
      challenge[c].failed < MFAChallengeMaxFailures + Cardinality(Request) - 1

\* Nothing that stands for a credential is worth more than once, nor is guessed
\* at without end (CompleteMFALogin, ResetPassword, RecordMFAFailure).
SpentOnce == SingleUse /\ ChallengeBudget
=============================================================================
