-------------------------- MODULE CredentialsProofs --------------------------
(***************************************************************************)
(* Proofs about accounts, sessions and second factors, for every number of *)
(* users, tokens and requests in flight.                                   *)
(*                                                                         *)
(* A request in flight holds what it read some time ago.  ReqFits says     *)
(* what still ties it to the tables: the token it carries, if its row is   *)
(* still there, is a token of the user it is working for.  A token that is *)
(* issued anew may not be carried by an old request for that to hold.      *)
(***************************************************************************)
EXTENDS Credentials, FiniteSetTheorems, TLAPS

ReqRec ==
  [pc : PCs, user : User \cup {None}, hash : Hash, mfa : BOOLEAN,
   token : Token \cup {None}, secret : Secret]

ChallengeRec == [user : User, hash : Hash, failed : Nat]

\* Where handleMFAVerify carries a challenge.
AtMFA == {"verify", "code", "verified", "wrong", "count"}

ReqFits(q) ==
  /\ q.pc # "idle" => q.user \in User
  /\ q.pc \in AtMFA =>
       /\ q.token \in Challenge
       /\ challenge[q.token] # None => challenge[q.token].user = q.user
  /\ q.pc = "reset" =>
       /\ q.token \in Reset
       /\ reset[q.token] # None => reset[q.token] = q.user

RequestsFit == \A r \in Request : ReqFits(req[r])

\* A token that can still be presented was not accepted yet.
Unspent ==
  /\ \A c \in Challenge : challenge[c] # None => honoured[c] = 0
  /\ \A t \in Reset : reset[t] # None => honoured[t] = 0

CredInv == TypeOK /\ CredentialsCurrent /\ RequestsFit /\ Unspent /\ SingleUse

-----------------------------------------------------------------------------
(* Steps that neither change a password nor open or issue anything. *)

RowKept(a, b) == a.status = b.status /\ a.hash = b.hash

\* A change of a row that says nothing about the account and its password.
Harmless(row, a) == row \in UserRow /\ RowKept(row, a)

TokensShrink ==
  /\ challenge' \in [Challenge -> ChallengeRec \cup {None}]
  /\ reset' \in [Reset -> User \cup {None}]
  /\ \A c \in Challenge :
       challenge'[c] # None =>
         /\ challenge[c] # None
         /\ challenge'[c].user = challenge[c].user /\ challenge'[c].hash = challenge[c].hash
  /\ \A t \in Reset : reset'[t] # None => reset'[t] = reset[t]

UsersKept ==
  /\ user' \in [User -> UserRow]
  /\ \A u \in User : RowKept(user'[u], user[u])

RequestsMove ==
  /\ req' \in [Request -> ReqRec]
  /\ \A r \in Request : ReqFits(req'[r])

\* The types in terms of the records named here.
LEMMA Types ==
  ASSUME TypeOK
  PROVE  /\ user \in [User -> UserRow] /\ session \subseteq Session
         /\ challenge \in [Challenge -> ChallengeRec \cup {None}]
         /\ reset \in [Reset -> User \cup {None}]
         /\ req \in [Request -> ReqRec]
         /\ sso \in BOOLEAN /\ honoured \in [Token -> Nat]
  BY DEF TypeOK, ChallengeRec, ReqRec

\* A request that fits the tables fits what is left of them.
LEMMA FitsShrunk ==
  ASSUME TypeOK, NEW q \in ReqRec, ReqFits(q), TokensShrink
  PROVE  ReqFits(q)'
  BY DEF ReqFits, TokensShrink

\* Credentials only go away, and passwords stay: what is left is current.
LEMMA CalmStep ==
  ASSUME CredInv, UsersKept, session' \subseteq session, TokensShrink, RequestsMove,
         sso' \in BOOLEAN, UNCHANGED honoured
  PROVE  CredInv'
<1>1. TypeOK'
  BY Types DEF CredInv, UsersKept, TokensShrink, RequestsMove, TypeOK, ReqRec, ChallengeRec
<1>2. \A u \in User : (Live(u) => user'[u].status = "live") /\ user'[u].hash = user[u].hash
  BY DEF UsersKept, RowKept, Live
<1>3. CredentialsCurrent'
  <2>1. ASSUME NEW s \in session'
        PROVE  user'[s.user].status = "live" /\ s.hash = user'[s.user].hash
    <3>1. s \in session /\ s.user \in User
      BY DEF CredInv, TypeOK, Session
    <3> QED BY <1>2, <3>1 DEF CredInv, CredentialsCurrent
  <2>2. ASSUME NEW c \in Challenge, challenge'[c] # None
        PROVE  /\ user'[challenge'[c].user].status = "live"
               /\ challenge'[c].hash = user'[challenge'[c].user].hash
    <3>1. /\ challenge[c] # None /\ challenge'[c].user = challenge[c].user
          /\ challenge'[c].hash = challenge[c].hash
      BY <2>2 DEF TokensShrink
    <3>2. challenge[c].user \in User
      BY <3>1, Types DEF CredInv, ChallengeRec
    <3>3. Live(challenge[c].user) /\ challenge[c].hash = user[challenge[c].user].hash
      BY <3>1 DEF CredInv, CredentialsCurrent
    <3> QED BY <1>2, <3>1, <3>2, <3>3
  <2>3. ASSUME NEW t \in Reset, reset'[t] # None PROVE user'[reset'[t]].status = "live"
    <3>1. reset'[t] = reset[t] /\ reset[t] \in User
      BY <2>3, Types DEF TokensShrink, CredInv
    <3>2. Live(reset[t])
      BY <2>3, <3>1 DEF CredInv, CredentialsCurrent
    <3> QED BY <1>2, <3>1, <3>2
  <2> QED BY <2>1, <2>2, <2>3 DEF CredentialsCurrent, Live
<1>4. RequestsFit'
  BY FitsShrunk DEF CredInv, RequestsMove, RequestsFit, ReqFits
<1>5. Unspent' /\ SingleUse'
  BY DEF CredInv, Unspent, SingleUse, TokensShrink
<1> QED BY <1>1, <1>3, <1>4, <1>5 DEF CredInv

\* Nothing about the tokens changes.
LEMMA TokensSame ==
  ASSUME TypeOK, UNCHANGED <<challenge, reset>>
  PROVE  TokensShrink
  BY Types DEF TokensShrink

\* Nothing about the requests changes.
LEMMA RequestsSame ==
  ASSUME CredInv, UNCHANGED req
  PROVE  RequestsMove
  BY Types DEF RequestsMove, CredInv, RequestsFit

\* One request goes on to q.
LEMMA RequestMoves ==
  ASSUME CredInv, NEW r \in Request, NEW q \in ReqRec, ReqFits(q),
         req' = [req EXCEPT ![r] = q]
  PROVE  RequestsMove
<1>1. req \in [Request -> ReqRec]
  BY Types DEF CredInv
<1> QED BY <1>1 DEF RequestsMove, CredInv, RequestsFit

\* A request that is not under way carries nothing.
LEMMA IdleRequest == Idle \in ReqRec /\ ReqFits(Idle)
<1>1. Idle \in ReqRec
  BY CredentialsAssumption DEF Idle, ReqRec, PCs, Hash, Secret
<1>2. ReqFits(Idle)
  BY DEF ReqFits, Idle, AtMFA
<1> QED BY <1>1, <1>2

\* A request that ends leaves the others alone.
LEMMA RequestEnds ==
  ASSUME CredInv, NEW r \in Request, Done(r)
  PROVE  RequestsMove
  BY IdleRequest, RequestMoves DEF Done

\* One user's row changes in columns other than status and hash.
LEMMA RowMoves ==
  ASSUME TypeOK, NEW u \in User,
         user' = user \/ \E row : Harmless(row, user[u]) /\ user' = [user EXCEPT ![u] = row]
  PROVE  UsersKept
  BY Types DEF UsersKept, RowKept, Harmless
-----------------------------------------------------------------------------
(* The steps of a request that only count, stage or give up. *)

\* A request under way works for a user; its columns have their types.
LEMMA UnderWay ==
  ASSUME CredInv, NEW r \in Request
  PROVE  /\ req[r] \in ReqRec /\ ReqFits(req[r])
         /\ req[r].pc # "idle" => req[r].user \in User /\ user[req[r].user] \in UserRow
  BY Types DEF CredInv, RequestsFit, ReqFits

\* The bounds that a configuration gives.
LEMMA Bounds ==
  /\ LoginMaxFailures \in Nat \ {0} /\ MFAChallengeMaxFailures \in Nat \ {0}
  /\ MFAUserMaxFailures \in Nat \ {0} /\ MaxHash \in Nat \ {0} /\ MaxSecrets \in Nat \ {0}
  BY CredentialsAssumption

\* The values the code resets columns to.
LEMMA Zeros ==
  /\ 0 \in Secret /\ 0 \in Hash /\ 1 \in Hash
  /\ 0 \in 0 .. LoginMaxFailures /\ 0 \in 0 .. (MFAUserMaxFailures - 1)
  BY Bounds DEF Secret, Hash

\* The password columns that failures and successes change.
LEMMA PasswordColumns ==
  ASSUME NEW a \in UserRow, NEW x \in 0 .. LoginMaxFailures, NEW b \in BOOLEAN
  PROVE  Harmless([a EXCEPT !.failed = x, !.locked = b], a)
  BY DEF UserRow, RowKept, Harmless

\* The columns that failed and successful codes change.
LEMMA CodeColumns ==
  ASSUME NEW a \in UserRow, NEW x \in 0 .. (MFAUserMaxFailures - 1), NEW b \in BOOLEAN
  PROVE  /\ Harmless([a EXCEPT !.mfaFailed = x, !.mfaLocked = b], a)
         /\ Harmless([a EXCEPT !.mfaFailed = x], a)
  BY DEF UserRow, RowKept, Harmless

\* A new pending secret.
LEMMA StagedColumns ==
  ASSUME NEW a \in UserRow, NEW x \in Secret
  PROVE  Harmless([a EXCEPT !.minted = x, !.pending = x], a)
  BY DEF UserRow, RowKept, Harmless

\* The pending secret becomes the active one, or the factor goes.
LEMMA FactorColumns ==
  ASSUME NEW a \in UserRow
  PROVE  /\ Harmless([a EXCEPT !.secret = a.pending, !.enabled = TRUE, !.pending = 0], a)
         /\ Harmless(WithoutMFA(a), a)
  BY Zeros DEF UserRow, RowKept, WithoutMFA, Harmless

\* What expires on a row.
LEMMA ExpiredColumns ==
  ASSUME NEW a \in UserRow
  PROVE  /\ Harmless([a EXCEPT !.pending = 0], a)
         /\ Harmless([a EXCEPT !.locked = FALSE], a)
         /\ Harmless([a EXCEPT !.mfaLocked = FALSE], a)
  BY Zeros DEF UserRow, RowKept, Harmless

\* What AuthenticateUser and the callback read of a user.
LEMMA SnapshotFits ==
  ASSUME CredInv, NEW u \in User, NEW pc \in {"password", "issue", "stage", "disable"},
         NEW n \in Secret
  PROVE  /\ [Snapshot(pc, u) EXCEPT !.secret = n] \in ReqRec
         /\ ReqFits([Snapshot(pc, u) EXCEPT !.secret = n])
         /\ Snapshot(pc, u) \in ReqRec /\ ReqFits(Snapshot(pc, u))
<1> DEFINE q == Snapshot(pc, u)
<1>1. user[u] \in UserRow
  BY Types DEF CredInv
<1>2. user[u].hash \in Hash /\ user[u].enabled \in BOOLEAN
  BY <1>1 DEF UserRow
<1>3. pc \in PCs /\ u \in User \cup {None}
  BY DEF PCs
<1>4. q \in ReqRec /\ q.pc = pc /\ q.user = u
  BY <1>2, <1>3, IdleRequest DEF Snapshot, ReqRec
<1> HIDE DEF q
<1>5. LET x == [q EXCEPT !.secret = n] IN x \in ReqRec /\ x.pc = pc /\ x.user = u
  BY <1>4 DEF ReqRec
<1>6. \A x : x.pc = pc /\ x.user = u => ReqFits(x)
  BY DEF ReqFits, AtMFA
<1> QED BY <1>4, <1>5, <1>6 DEF q

\* Failed and successful password checks: they count, whatever the row became
\* in the meantime.
LEMMA PasswordKeeps ==
  ASSUME CredInv, NEW r \in Request, PasswordWrong(r) \/ PasswordRight(r)
  PROVE  CredInv'
<1> DEFINE u == req[r].user
<1>1. /\ req[r].pc = "password" /\ u \in User /\ user[u] \in UserRow /\ req[r] \in ReqRec
      /\ UNCHANGED <<session, challenge, reset, sso, honoured>>
  BY UnderWay DEF PasswordWrong, PasswordRight
<1>2. UsersKept
  <2>1. user' = user \/ \E row : Harmless(row, user[u]) /\ user' = [user EXCEPT ![u] = row]
    <3>1. CASE PasswordWrong(r)
      <4> DEFINE n == user[u].failed + 1
                 x == IF n > LoginMaxFailures THEN user[u].failed ELSE n
                 b == user[u].locked \/ n >= LoginMaxFailures
      <4>1. user' = Updated(u, [user[u] EXCEPT !.failed = x, !.locked = b])
        BY <3>1 DEF PasswordWrong
      <4>2. x \in 0 .. LoginMaxFailures /\ b \in BOOLEAN
        BY <1>1, Bounds DEF UserRow
      <4> HIDE DEF x, b
      <4>3. Harmless([user[u] EXCEPT !.failed = x, !.locked = b], user[u])
        BY <1>1, <4>2, PasswordColumns
      <4> QED BY <4>1, <4>3 DEF Updated
    <3>2. CASE PasswordRight(r)
      <4>1. user' = Updated(u, [user[u] EXCEPT !.failed = 0, !.locked = FALSE])
        BY <3>2 DEF PasswordRight
      <4>2. Harmless([user[u] EXCEPT !.failed = 0, !.locked = FALSE], user[u])
        BY <1>1, Zeros, PasswordColumns
      <4> QED BY <4>1, <4>2 DEF Updated
    <3> QED BY <3>1, <3>2
  <2> QED BY <1>1, <2>1, RowMoves DEF CredInv
<1>3. RequestsMove
  <2>1. CASE PasswordWrong(r)
    BY <2>1, RequestEnds DEF PasswordWrong
  <2>2. CASE PasswordRight(r)
    <3> DEFINE q == [req[r] EXCEPT !.pc = "issue"]
    <3>1. q \in ReqRec /\ ReqFits(q)
      BY <1>1 DEF ReqRec, PCs, ReqFits, AtMFA
    <3>2. req' = [req EXCEPT ![r] = q]
      BY <2>2 DEF PasswordRight, Goto
    <3> QED BY <3>1, <3>2, RequestMoves
  <2> QED BY <2>1, <2>2
<1> QED BY <1>1, <1>2, <1>3, TokensSame, CalmStep, Types DEF CredInv

\* What a row becomes when an authenticator is staged, confirmed or removed.
LEMMA FactorKeeps ==
  ASSUME CredInv, NEW r \in Request,
         SetPendingMFASecret(r) \/ ConfirmMFA(r) \/ DisableMFA(r)
  PROVE  CredInv'
<1> DEFINE u == req[r].user
<1>1. /\ req[r].pc # "idle" /\ u \in User /\ user[u] \in UserRow
      /\ UNCHANGED <<session, challenge, reset, sso, honoured>> /\ Done(r)
  BY UnderWay DEF SetPendingMFASecret, ConfirmMFA, DisableMFA
<1>2. UsersKept
  <2>1. user' = user \/ \E row : Harmless(row, user[u]) /\ user' = [user EXCEPT ![u] = row]
    <3>1. CASE SetPendingMFASecret(r)
      <4> DEFINE x == user[u].minted + 1
      <4> SUFFICES ASSUME user' # user
                   PROVE \E row : Harmless(row, user[u]) /\ user' = [user EXCEPT ![u] = row]
        OBVIOUS
      <4>1. /\ user[u].minted < MaxSecrets
            /\ user' = [user EXCEPT ![u].minted = @ + 1, ![u].pending = user[u].minted + 1]
        BY <3>1 DEF SetPendingMFASecret
      <4>2. user' = [user EXCEPT ![u] = [user[u] EXCEPT !.minted = x, !.pending = x]]
        BY <1>1, <4>1, Types DEF CredInv
      <4>3. x \in Secret
        BY <1>1, <4>1, Bounds DEF UserRow, Secret
      <4> HIDE DEF x
      <4> QED BY <1>1, <4>2, <4>3, StagedColumns
    <3>2. CASE ConfirmMFA(r)
      <4> DEFINE row == [user[u] EXCEPT !.secret = user[u].pending, !.enabled = TRUE,
                                        !.pending = 0]
      <4>1. user' = [user EXCEPT ![u] = row] \/ user' = user
        BY <1>1, <3>2, Types DEF ConfirmMFA, CredInv
      <4>2. Harmless(row, user[u])
        BY <1>1, FactorColumns
      <4> QED BY <4>1, <4>2
    <3>3. CASE DisableMFA(r)
      <4>1. user' = Updated(u, WithoutMFA(user[u]))
        BY <3>3 DEF DisableMFA
      <4>2. Harmless(WithoutMFA(user[u]), user[u])
        BY <1>1, FactorColumns
      <4> QED BY <4>1, <4>2 DEF Updated
    <3> QED BY <1>1, <3>1, <3>2, <3>3
  <2> QED BY <1>1, <2>1, RowMoves DEF CredInv
<1> QED BY <1>1, <1>2, RequestEnds, TokensSame, CalmStep, Types DEF CredInv

\* The administrator removes a factor, or time lifts a lock.
LEMMA RowKeeps ==
  ASSUME CredInv, NEW u \in User, AdminDisableMFA(u) \/ ExpireOnUser(u)
  PROVE  CredInv'
<1>1. user[u] \in UserRow /\ UNCHANGED <<session, challenge, reset, req, sso, honoured>>
  BY Types DEF AdminDisableMFA, ExpireOnUser, CredInv
<1>2. \E row : Harmless(row, user[u]) /\ user' = [user EXCEPT ![u] = row]
  <2>1. CASE AdminDisableMFA(u)
    <3>1. user' = [user EXCEPT ![u] = WithoutMFA(user[u])]
      BY <2>1 DEF AdminDisableMFA
    <3> QED BY <1>1, <3>1, FactorColumns
  <2>2. CASE ExpireOnUser(u)
    BY <1>1, <2>2, ExpiredColumns, Zenon DEF ExpireOnUser
  <2> QED BY <2>1, <2>2
<1>3. UsersKept
  BY <1>2, RowMoves DEF CredInv
<1> QED BY <1>1, <1>3, RequestsSame, TokensSame, CalmStep, Types DEF CredInv
-----------------------------------------------------------------------------
(* Reads, refusals and ends. *)

\* A step of one request that touches no table.
LEMMA RequestStep ==
  ASSUME CredInv, NEW r \in Request, NEW q \in ReqRec, ReqFits(q),
         req' = [req EXCEPT ![r] = q], UNCHANGED <<tables, sso, honoured>>
  PROVE  CredInv'
<1>1. UsersKept /\ TokensShrink /\ session' \subseteq session
      /\ sso' \in BOOLEAN /\ UNCHANGED honoured
  BY TokensSame, Types DEF CredInv, UsersKept, RowKept, tables
<1>2. RequestsMove
  BY RequestMoves
<1> QED BY <1>1, <1>2, CalmStep

\* A request whose position alone changes, within the handling of its token.
LEMMA GotoStep ==
  ASSUME CredInv, NEW r \in Request, req[r].pc \in AtMFA, NEW pc \in AtMFA, NEW n \in Secret,
         \/ req' = [req EXCEPT ![r].pc = pc]
         \/ req' = [req EXCEPT ![r].pc = pc, ![r].secret = n],
         UNCHANGED <<tables, sso, honoured>>
  PROVE  CredInv'
<1>1. req[r] \in ReqRec /\ ReqFits(req[r]) /\ req \in [Request -> ReqRec]
  BY UnderWay, Types DEF CredInv
<1> DEFINE p == [req[r] EXCEPT !.pc = pc]
           q == [req[r] EXCEPT !.pc = pc, !.secret = n]
<1>2. pc \in PCs /\ req[r].pc # "idle" /\ req[r].pc # "reset" /\ pc # "idle" /\ pc # "reset"
  BY DEF AtMFA, PCs
<1>3. p \in ReqRec /\ q \in ReqRec
      /\ p.pc = pc /\ q.pc = pc /\ p.user = req[r].user /\ q.user = req[r].user
      /\ p.token = req[r].token /\ q.token = req[r].token
  BY <1>1, <1>2 DEF ReqRec
<1>4. req' = [req EXCEPT ![r] = p] \/ req' = [req EXCEPT ![r] = q]
  BY <1>1
<1> HIDE DEF p, q
<1>5. ReqFits(p) /\ ReqFits(q)
  BY <1>1, <1>2, <1>3 DEF ReqFits
<1> QED BY <1>3, <1>4, <1>5, RequestStep

\* What the handlers read, and the refusals that end a request.
LEMMA ReadKeeps ==
  ASSUME CredInv, NEW r \in Request,
         \/ \E u \in User : LoginRead(r, u) \/ OAuthRead(r, u)
         \/ \E s \in session : MFASetup(r, s) \/ GetPendingMFASecret(r, s) \/ MFADisable(r, s)
         \/ \E c \in Challenge : GetMFAChallenge(r, c)
         \/ \E t \in Reset : ResetRead(r, t)
  PROVE  CredInv'
<1>1. CASE \E u \in User : LoginRead(r, u) \/ OAuthRead(r, u)
  <2>1. PICK u \in User : LoginRead(r, u) \/ OAuthRead(r, u)
    BY <1>1
  <2>2. \E pc \in {"password", "issue"} : req' = [req EXCEPT ![r] = Snapshot(pc, u)]
    BY <2>1 DEF LoginRead, OAuthRead
  <2>3. UNCHANGED <<tables, sso, honoured>>
    BY <2>1 DEF LoginRead, OAuthRead
  <2> QED BY <2>2, <2>3, SnapshotFits, RequestStep, Zeros
<1>2. ASSUME NEW s \in session, MFASetup(r, s) \/ GetPendingMFASecret(r, s) \/ MFADisable(r, s)
      PROVE  CredInv'
  <2>1. s.user \in User /\ user[s.user] \in UserRow
    BY Types DEF CredInv, Session
  <2>2. CASE MFASetup(r, s)
    <3> DEFINE n == IF user[s.user].enabled THEN user[s.user].secret ELSE 0
    <3>1. n \in Secret
      BY <2>1, Zeros DEF UserRow
    <3>2. req' = [req EXCEPT ![r] = [Snapshot("stage", s.user) EXCEPT !.secret = n]]
          /\ UNCHANGED <<tables, sso, honoured>>
      BY <2>2 DEF MFASetup
    <3> HIDE DEF n
    <3> QED BY <2>1, <3>1, <3>2, SnapshotFits, RequestStep
  <2>3. CASE GetPendingMFASecret(r, s)
    <3> DEFINE q == [Idle EXCEPT !.pc = "confirm", !.user = s.user,
                                 !.secret = user[s.user].pending]
    <3>1. user[s.user].pending \in Secret
      BY <2>1 DEF UserRow
    <3>2. q \in ReqRec /\ q.pc = "confirm" /\ q.user = s.user
      BY <2>1, <3>1, IdleRequest DEF ReqRec, PCs
    <3>3. req' = [req EXCEPT ![r] = q] /\ UNCHANGED <<tables, sso, honoured>>
      BY <2>3 DEF GetPendingMFASecret
    <3> HIDE DEF q
    <3>4. ReqFits(q)
      BY <2>1, <3>2 DEF ReqFits, AtMFA
    <3> QED BY <3>2, <3>3, <3>4, RequestStep
  <2>4. CASE MFADisable(r, s)
    BY <2>1, <2>4, SnapshotFits, RequestStep, Zeros DEF MFADisable
  <2> QED BY <1>2, <2>2, <2>3, <2>4
<1>3. ASSUME NEW c \in Challenge, GetMFAChallenge(r, c) PROVE CredInv'
  <2> DEFINE q == [Idle EXCEPT !.pc = "verify", !.token = c, !.user = challenge[c].user]
  <2>1. challenge[c] # None /\ challenge[c].user \in User /\ c \in Token
    BY <1>3, Types DEF GetMFAChallenge, CredInv, ChallengeRec, Token
  <2>2. q \in ReqRec /\ q.pc = "verify" /\ q.user = challenge[c].user /\ q.token = c
    BY <2>1, IdleRequest DEF ReqRec, PCs
  <2>3. req' = [req EXCEPT ![r] = q] /\ UNCHANGED <<tables, sso, honoured>>
    BY <1>3 DEF GetMFAChallenge
  <2> HIDE DEF q
  <2>4. ReqFits(q)
    BY <2>1, <2>2 DEF ReqFits, AtMFA
  <2> QED BY <2>2, <2>3, <2>4, RequestStep
<1>4. ASSUME NEW t \in Reset, ResetRead(r, t) PROVE CredInv'
  <2> DEFINE q == [Idle EXCEPT !.pc = "reset", !.token = t, !.user = reset[t]]
  <2>1. reset[t] \in User /\ t \in Token
    BY <1>4, Types DEF ResetRead, CredInv, Token
  <2>2. q \in ReqRec /\ q.pc = "reset" /\ q.user = reset[t] /\ q.token = t
    BY <2>1, IdleRequest DEF ReqRec, PCs
  <2>3. req' = [req EXCEPT ![r] = q] /\ UNCHANGED <<tables, sso, honoured>>
    BY <1>4 DEF ResetRead
  <2> HIDE DEF q
  <2>4. ReqFits(q)
    BY <2>1, <2>2 DEF ReqFits, AtMFA
  <2> QED BY <2>2, <2>3, <2>4, RequestStep
<1> QED BY <1>1, <1>2, <1>3, <1>4

\* Requests that are refused, or whose transaction the database aborts.
LEMMA RefusalKeeps ==
  ASSUME CredInv, NEW r \in Request,
         \/ AuthenticationChanged(r) \/ CompleteRefused(r) \/ ResetRefused(r)
         \/ RecordAborts(r) \/ MFALocked(r) \/ CheckCode(r)
  PROVE  CredInv'
<1>1. CASE AuthenticationChanged(r) \/ CompleteRefused(r) \/ ResetRefused(r) \/ RecordAborts(r)
  BY <1>1, IdleRequest, RequestStep
  DEF AuthenticationChanged, CompleteRefused, ResetRefused, RecordAborts, Done
<1>2. CASE MFALocked(r)
  <2>1. Done(r) \/ (req[r].pc = "verify" /\ Goto(r, "code"))
    BY <1>2 DEF MFALocked
  <2>2. UNCHANGED <<tables, sso, honoured>>
    BY <1>2 DEF MFALocked
  <2>3. "verify" \in AtMFA /\ "code" \in AtMFA
    BY DEF AtMFA
  <2> QED BY <2>1, <2>2, <2>3, IdleRequest, RequestStep, GotoStep, Zeros DEF Done, Goto
<1>3. CASE CheckCode(r)
  <2> DEFINE n == user[req[r].user].secret
  <2>1. req[r].pc = "code" /\ n \in Secret
    BY <1>3, UnderWay DEF CheckCode, UserRow
  <2>2. \/ req' = [req EXCEPT ![r].pc = "verified", ![r].secret = n]
        \/ req' = [req EXCEPT ![r].pc = "wrong"]
    BY <1>3 DEF CheckCode, Goto
  <2>3. UNCHANGED <<tables, sso, honoured>>
    BY <1>3 DEF CheckCode
  <2>4. "code" \in AtMFA /\ "verified" \in AtMFA /\ "wrong" \in AtMFA
    BY DEF AtMFA
  <2> HIDE DEF n
  <2> QED BY <2>1, <2>2, <2>3, <2>4, GotoStep
<1> QED BY <1>1, <1>2, <1>3

\* Sessions and tokens expire, and requests die with the server.
LEMMA ExpiryKeeps ==
  ASSUME CredInv, handleLogout \/ ExpireToken \/ Restart
  PROVE  CredInv'
<1>1. CASE handleLogout
  <2>1. session' \subseteq session /\ UNCHANGED <<user, challenge, reset, req, sso, honoured>>
    BY <1>1 DEF handleLogout, EndSession
  <2>2. UsersKept
    BY <2>1, Types DEF CredInv, UsersKept, RowKept
  <2> QED BY <2>1, <2>2, RequestsSame, TokensSame, CalmStep, Types DEF CredInv
<1>2. CASE ExpireToken
  <2>1. session' = session /\ UNCHANGED <<user, req, sso, honoured>>
    BY <1>2 DEF ExpireToken
  <2>2. UsersKept
    BY <2>1, Types DEF CredInv, UsersKept, RowKept
  <2>3. TokensShrink
    BY <1>2, Types DEF CredInv, ExpireToken, TokensShrink
  <2> QED BY <2>1, <2>2, <2>3, RequestsSame, CalmStep, Types DEF CredInv
<1>3. CASE Restart
  <2>1. UNCHANGED <<tables, honoured>> /\ sso' \in BOOLEAN /\ req' = [r \in Request |-> Idle]
    BY <1>3 DEF Restart
  <2>2. UsersKept /\ session' \subseteq session /\ TokensShrink
    BY <2>1, Types, TokensSame DEF CredInv, UsersKept, RowKept, tables
  <2>3. RequestsMove
    BY <2>1, IdleRequest DEF RequestsMove
  <2> QED BY <2>1, <2>2, <2>3, CalmStep
<1> QED BY <1>1, <1>2, <1>3
-----------------------------------------------------------------------------
(* Accounts begin and end; passwords change. *)

\* Tokens that only go away stay unspent while nothing is accepted.
LEMMA UnspentKept ==
  ASSUME CredInv, TokensShrink, RequestsMove, UNCHANGED honoured
  PROVE  RequestsFit' /\ Unspent' /\ SingleUse'
<1>1. RequestsFit'
  BY FitsShrunk DEF CredInv, RequestsMove, RequestsFit, ReqFits
<1>2. Unspent' /\ SingleUse'
  BY DEF CredInv, Unspent, SingleUse, TokensShrink
<1> QED BY <1>1, <1>2

\* A new account has no credentials but the session it may begin with.
LEMMA AccountBegins ==
  ASSUME CredInv, NEW u \in User,
         AcceptInvite(u) \/ CreateAdminUser(u) \/ CreateOAuthUser(u)
  PROVE  CredInv'
<1>1. /\ user[u].status = "unborn" /\ UNCHANGED <<challenge, reset, req, sso, honoured>>
      /\ \E h \in {0, 1} : /\ user' = [user EXCEPT ![u] = NewUser(h)]
                           /\ session' \subseteq session \cup {[user |-> u, hash |-> h]}
  BY DEF AcceptInvite, CreateAdminUser, CreateOAuthUser
<1>2. PICK h \in {0, 1} : /\ user' = [user EXCEPT ![u] = NewUser(h)]
                          /\ session' \subseteq session \cup {[user |-> u, hash |-> h]}
  BY <1>1
<1>3. NewUser(h) \in UserRow /\ NewUser(h).status = "live" /\ NewUser(h).hash = h /\ h \in Hash
  BY Zeros DEF NewUser, UserRow
<1>4. /\ user' \in [User -> UserRow] /\ user'[u] = NewUser(h)
      /\ \A v \in User : v # u => user'[v] = user[v]
  BY <1>2, <1>3, Types DEF CredInv
<1>5. ~Live(u)
  BY <1>1 DEF Live
<1>6. session' \subseteq Session
  BY <1>2, <1>3, Types DEF CredInv, Session
<1>7. CredentialsCurrent'
  <2>1. ASSUME NEW s \in session'
        PROVE  user'[s.user].status = "live" /\ s.hash = user'[s.user].hash
    <3>1. CASE s \in session
      <4>1. s.user \in User /\ Live(s.user) /\ s.hash = user[s.user].hash
        BY <3>1, Types DEF CredInv, CredentialsCurrent, Session
      <4> QED BY <1>4, <1>5, <4>1 DEF Live
    <3>2. CASE s = [user |-> u, hash |-> h]
      BY <1>3, <1>4, <3>2
    <3> QED BY <1>2, <3>1, <3>2
  <2>2. ASSUME NEW c \in Challenge, challenge[c] # None
        PROVE  /\ user'[challenge[c].user].status = "live"
               /\ challenge[c].hash = user'[challenge[c].user].hash
    <3>1. /\ challenge[c].user \in User /\ Live(challenge[c].user)
          /\ challenge[c].hash = user[challenge[c].user].hash
      BY <2>2, Types DEF CredInv, CredentialsCurrent, ChallengeRec
    <3> QED BY <1>4, <1>5, <3>1 DEF Live
  <2>3. ASSUME NEW t \in Reset, reset[t] # None PROVE user'[reset[t]].status = "live"
    <3>1. reset[t] \in User /\ Live(reset[t])
      BY <2>3, Types DEF CredInv, CredentialsCurrent
    <3> QED BY <1>4, <1>5, <3>1 DEF Live
  <2> QED BY <1>1, <2>1, <2>2, <2>3 DEF CredentialsCurrent, Live
<1>8. TypeOK'
  BY <1>1, <1>4, <1>6 DEF TypeOK, CredInv
<1>9. RequestsFit' /\ Unspent' /\ SingleUse'
  BY <1>1, UnspentKept, TokensSame, RequestsSame DEF CredInv
<1> QED BY <1>7, <1>8, <1>9 DEF CredInv

\* revokeCredentialArtifacts, or the cascade of a deletion: of u's credentials
\* only those remain that belong to the new row.
LEMMA Revoked ==
  ASSUME CredInv, NEW u \in User, NEW row \in UserRow, NEW issued,
         user' = [user EXCEPT ![u] = row],
         session' = (session \ SessionsOf(u)) \cup issued,
         issued \subseteq {[user |-> u, hash |-> row.hash]}, issued = {} \/ row.status = "live",
         challenge' = DropChallenges(u), reset' = Drop(reset, u)
  PROVE  /\ TokensShrink /\ CredentialsCurrent' /\ user' \in [User -> UserRow]
         /\ session' \subseteq Session
         /\ \A t \in Reset : reset[t] = u => reset'[t] = None
<1>1. /\ user' \in [User -> UserRow] /\ user'[u] = row
      /\ \A v \in User : v # u => user'[v] = user[v]
  BY Types DEF CredInv
<1>2. row.hash \in Hash
  BY DEF UserRow
<1>3. session' \subseteq Session
  BY <1>2, Types DEF CredInv, Session
<1>4. \A c \in Challenge :
        challenge'[c] # None => challenge'[c] = challenge[c] /\ challenge[c].user # u
  BY DEF DropChallenges
<1>5. \A t \in Reset : reset'[t] # None => reset'[t] = reset[t] /\ reset[t] # u
  BY Types DEF Drop, CredInv
<1>6. TokensShrink
  <2>1. challenge' \in [Challenge -> ChallengeRec \cup {None}]
    BY Types DEF DropChallenges, CredInv
  <2>2. reset' \in [Reset -> User \cup {None}]
    BY Types DEF Drop, CredInv
  <2> QED BY <1>4, <1>5, <2>1, <2>2 DEF TokensShrink
<1>7. CredentialsCurrent'
  <2>1. ASSUME NEW s \in session'
        PROVE  user'[s.user].status = "live" /\ s.hash = user'[s.user].hash
    <3>1. CASE s \in session /\ s.user # u
      <4>1. s.user \in User /\ Live(s.user) /\ s.hash = user[s.user].hash
        BY <3>1, Types DEF CredInv, CredentialsCurrent, Session
      <4> QED BY <1>1, <3>1, <4>1 DEF Live
    <3>2. CASE s \in issued
      BY <1>1, <3>2
    <3> QED BY <3>1, <3>2 DEF SessionsOf
  <2>2. ASSUME NEW c \in Challenge, challenge'[c] # None
        PROVE  /\ user'[challenge'[c].user].status = "live"
               /\ challenge'[c].hash = user'[challenge'[c].user].hash
    <3>1. challenge'[c] = challenge[c] /\ challenge[c].user # u /\ challenge[c] # None
      BY <1>4, <2>2
    <3>2. /\ challenge[c].user \in User /\ Live(challenge[c].user)
          /\ challenge[c].hash = user[challenge[c].user].hash
      BY <3>1, Types DEF CredInv, CredentialsCurrent, ChallengeRec
    <3> QED BY <1>1, <3>1, <3>2 DEF Live
  <2>3. ASSUME NEW t \in Reset, reset'[t] # None PROVE user'[reset'[t]].status = "live"
    <3>1. reset'[t] = reset[t] /\ reset[t] # u /\ reset[t] # None
      BY <1>5, <2>3
    <3>2. reset[t] \in User /\ Live(reset[t])
      BY <3>1, Types DEF CredInv, CredentialsCurrent
    <3> QED BY <1>1, <3>1, <3>2 DEF Live
  <2> QED BY <2>1, <2>2, <2>3 DEF CredentialsCurrent, Live
<1>8. \A t \in Reset : reset[t] = u => reset'[t] = None
  BY <1>5
<1> QED BY <1>1, <1>3, <1>6, <1>7, <1>8

\* A password change adds one to the hash and keeps the account.
LEMMA PasswordRow ==
  ASSUME NEW a \in UserRow, a.hash < MaxHash
  PROVE  /\ WithPassword(a) \in UserRow
         /\ WithPassword(a).status = a.status /\ WithPassword(a).hash = a.hash + 1
         /\ LET b == [WithPassword(a) EXCEPT !.enabled = FALSE, !.secret = 0]
            IN b \in UserRow /\ b.status = a.status /\ b.hash = a.hash + 1
<1> DEFINE w == WithPassword(a)
<1>1. a.hash + 1 \in Hash
  BY Bounds DEF UserRow, Hash
<1>2. w \in UserRow /\ w.status = a.status /\ w.hash = a.hash + 1
  BY <1>1, Zeros DEF WithPassword, UserRow
<1> HIDE DEF w
<1>3. LET b == [w EXCEPT !.enabled = FALSE, !.secret = 0]
      IN b \in UserRow /\ b.status = w.status /\ b.hash = w.hash
  BY <1>2, Zeros DEF UserRow
<1> QED BY <1>2, <1>3 DEF w

\* A deletion and the password changes that spend no token.
LEMMA RevocationKeeps ==
  ASSUME CredInv,
         \/ \E u \in User : DeleteUser(u) \/ AdminSetPassword(u)
         \/ handleChangePassword
  PROVE  CredInv'
<1>1. \E u \in User, row \in UserRow :
        /\ user' = [user EXCEPT ![u] = row] /\ challenge' = DropChallenges(u)
        /\ reset' = Drop(reset, u)
        /\ \/ session' = (session \ SessionsOf(u)) \cup {}
           \/ /\ session' = (session \ SessionsOf(u)) \cup {[user |-> u, hash |-> row.hash]}
              /\ row.status = "live"
  <2>1. ASSUME NEW u \in User, DeleteUser(u)
        PROVE  \E row \in UserRow :
                 /\ user' = [user EXCEPT ![u] = row] /\ challenge' = DropChallenges(u)
                 /\ reset' = Drop(reset, u) /\ session' = (session \ SessionsOf(u)) \cup {}
    <3> DEFINE row == [user[u] EXCEPT !.status = "deleted"]
    <3>1. row \in UserRow
      BY Types DEF CredInv, UserRow
    <3>2. user' = [user EXCEPT ![u] = row]
      BY <2>1, Types DEF DeleteUser, CredInv
    <3> HIDE DEF row
    <3> QED BY <2>1, <3>1, <3>2 DEF DeleteUser
  <2>2. ASSUME NEW u \in User, AdminSetPassword(u)
        PROVE  \E row \in UserRow :
                 /\ user' = [user EXCEPT ![u] = row] /\ challenge' = DropChallenges(u)
                 /\ reset' = Drop(reset, u) /\ session' = (session \ SessionsOf(u)) \cup {}
    <3>1. user[u] \in UserRow /\ user[u].hash < MaxHash
      BY <2>2, Types DEF AdminSetPassword, CredInv
    <3>2. WithPassword(user[u]) \in UserRow
      BY <3>1, PasswordRow
    <3> QED BY <2>2, <3>2 DEF AdminSetPassword, revokeCredentialArtifacts
  <2>3. ASSUME NEW s \in session, ChangeUserPassword(s)
        PROVE  \E u \in User, row \in UserRow :
                 /\ user' = [user EXCEPT ![u] = row] /\ challenge' = DropChallenges(u)
                 /\ reset' = Drop(reset, u)
                 /\ session' = (session \ SessionsOf(u)) \cup {[user |-> u, hash |-> row.hash]}
                 /\ row.status = "live"
    <3> DEFINE u == s.user
    <3>1. /\ u \in User /\ user[u] \in UserRow /\ user[u].status = "live"
          /\ user[u].hash < MaxHash
      BY <2>3, Types, Bounds DEF CredInv, Session, CredentialsCurrent, Live, ChangeUserPassword
    <3>2. /\ WithPassword(user[u]) \in UserRow
          /\ WithPassword(user[u]).status = "live"
          /\ WithPassword(user[u]).hash = user[u].hash + 1
      BY <3>1, PasswordRow
    <3>3. /\ user' = [user EXCEPT ![u] = WithPassword(user[u])]
          /\ session' = (session \ SessionsOf(u)) \cup {[user |-> u, hash |-> user[u].hash + 1]}
          /\ challenge' = DropChallenges(u) /\ reset' = Drop(reset, u)
      BY <2>3 DEF ChangeUserPassword, revokeCredentialArtifacts, Issued
    <3> QED BY <3>1, <3>2, <3>3
  <2> QED BY <2>1, <2>2, <2>3, Zenon DEF handleChangePassword
<1>2. UNCHANGED <<req, sso, honoured>>
  BY DEF DeleteUser, AdminSetPassword, handleChangePassword, ChangeUserPassword
<1>3. /\ TokensShrink /\ CredentialsCurrent' /\ user' \in [User -> UserRow]
      /\ session' \subseteq Session
  BY <1>1, Revoked
<1>4. TypeOK'
  BY <1>2, <1>3, Types DEF CredInv, TypeOK, TokensShrink, ReqRec, ChallengeRec
<1>5. RequestsFit' /\ Unspent' /\ SingleUse'
  BY <1>2, <1>3, UnspentKept, RequestsSame
<1> QED BY <1>3, <1>4, <1>5 DEF CredInv

\* The redemption of a reset link: the token goes with all others of the user
\* in the transaction that sets the password.
LEMMA ResetKeeps ==
  ASSUME CredInv, NEW r \in Request, UsePasswordResetToken(r)
  PROVE  CredInv'
<1> DEFINE u == req[r].user
           t == req[r].token
           row == [WithPassword(user[u]) EXCEPT !.enabled = FALSE, !.secret = 0]
<1>1. /\ req[r].pc = "reset" /\ u \in User /\ user[u] \in UserRow /\ ReqFits(req[r])
      /\ user[u].status = "live" /\ reset[t] # None /\ user[u].hash < MaxHash
  BY UnderWay DEF UsePasswordResetToken, ResetClaim, Live
<1>2. t \in Reset /\ t \in Token /\ reset[t] = u /\ honoured[t] = 0
  BY <1>1 DEF ReqFits, CredInv, Unspent, Token
<1>3. row \in UserRow /\ row.status = "live" /\ row.hash = user[u].hash + 1
  BY <1>1, PasswordRow
<1>4. /\ user' = [user EXCEPT ![u] = row]
      /\ session' = (session \ SessionsOf(u)) \cup {[user |-> u, hash |-> user[u].hash + 1]}
      /\ challenge' = DropChallenges(u) /\ reset' = Drop(reset, u)
      /\ honoured' = [honoured EXCEPT ![t] = @ + 1] /\ Done(r) /\ UNCHANGED sso
  BY DEF UsePasswordResetToken, revokeCredentialArtifacts, Issued
<1> HIDE DEF row, u, t
<1>5. /\ TokensShrink /\ CredentialsCurrent' /\ user' \in [User -> UserRow]
      /\ session' \subseteq Session /\ reset'[t] = None
  BY <1>1, <1>2, <1>3, <1>4, Revoked
<1>6. RequestsMove
  BY <1>4, RequestEnds
<1>7. RequestsFit'
  BY <1>5, <1>6, FitsShrunk DEF CredInv, RequestsMove, RequestsFit, ReqFits
<1>8. /\ honoured' \in [Token -> Nat] /\ honoured'[t] = 1
      /\ \A x \in Token : x # t => honoured'[x] = honoured[x]
  BY <1>2, <1>4, Types DEF CredInv
<1>9. Unspent' /\ SingleUse'
  <2>1. t \notin Challenge
    BY <1>2, CredentialsAssumption
  <2> QED BY <1>5, <1>8, <2>1 DEF Unspent, SingleUse, CredInv, TokensShrink, Token
<1>10. TypeOK'
  BY <1>4, <1>5, <1>6, <1>8, Types DEF CredInv, TypeOK, TokensShrink, RequestsMove, ReqRec, ChallengeRec
<1> QED BY <1>5, <1>7, <1>9, <1>10 DEF CredInv
-----------------------------------------------------------------------------
(* Signing in. *)

\* A row that is free and carried by no request may be issued to a user: the
\* requests that still fit are those that carry other tokens.
LEMMA FitsIssued ==
  ASSUME CredInv, NEW x \in Token, ~InFlight(x),
         \A c \in Challenge : c # x => challenge'[c] = challenge[c],
         \A t \in Reset : t # x => reset'[t] = reset[t],
         RequestsMove, \A q \in Request : req'[q].token \in {req[q].token, None}
  PROVE  RequestsFit'
<1> SUFFICES ASSUME NEW q \in Request PROVE ReqFits(req[q])'
  BY DEF RequestsFit
<1>1. req'[q].token # x
  BY CredentialsAssumption DEF InFlight, Token
<1>2. ReqFits(req'[q])
  BY DEF RequestsMove
<1> QED BY <1>1, <1>2 DEF ReqFits

\* withAuthenticatedUser and the session or the challenge it ends with: the row
\* is compared with what the request read, under the row's lock.
LEMMA IssueKeeps ==
  ASSUME CredInv, NEW r \in Request,
         \/ CreateAuthenticatedSession(r)
         \/ \E c \in Challenge : CreateAuthenticatedMFAChallenge(r, c)
  PROVE  CredInv'
<1> DEFINE u == req[r].user
           h == req[r].hash
<1>1. /\ u \in User /\ h \in Hash /\ Live(u) /\ user[u].hash = h /\ Done(r)
      /\ UNCHANGED <<user, reset, sso>>
  BY UnderWay
  DEF CreateAuthenticatedSession, CreateAuthenticatedMFAChallenge, SnapshotCurrent, ReqRec
<1>2. RequestsMove
  BY <1>1, RequestEnds
<1>3. CASE CreateAuthenticatedSession(r)
  <2>1. session' = session \cup {[user |-> u, hash |-> h]} /\ UNCHANGED <<challenge, honoured>>
    BY <1>3 DEF CreateAuthenticatedSession
  <2> HIDE DEF u, h
  <2>2. session' \subseteq Session
    BY <1>1, <2>1, Types DEF CredInv, Session
  <2>3. CredentialsCurrent'
    BY <1>1, <2>1 DEF CredInv, CredentialsCurrent, Live
  <2>4. TypeOK'
    BY <1>1, <1>2, <2>1, <2>2, Types DEF CredInv, TypeOK, RequestsMove, ReqRec
  <2>5. RequestsFit' /\ Unspent' /\ SingleUse'
    BY <1>1, <1>2, <2>1, UnspentKept, TokensSame DEF CredInv
  <2> QED BY <2>3, <2>4, <2>5 DEF CredInv
<1>4. ASSUME NEW c \in Challenge, CreateAuthenticatedMFAChallenge(r, c) PROVE CredInv'
  <2> DEFINE row == [user |-> u, hash |-> h, failed |-> 0]
  <2>1. /\ challenge' = [challenge EXCEPT ![c] = row] /\ session' = session
        /\ honoured' = [honoured EXCEPT ![c] = 0] /\ challenge[c] = None /\ ~InFlight(c)
    BY <1>4 DEF CreateAuthenticatedMFAChallenge
  <2>2. row \in ChallengeRec /\ row.user = u /\ row.hash = h
    BY <1>1, Types DEF ChallengeRec
  <2> HIDE DEF row, u, h
  <2>3. /\ challenge' \in [Challenge -> ChallengeRec \cup {None}] /\ challenge'[c] = row
        /\ \A d \in Challenge : d # c => challenge'[d] = challenge[d]
        /\ c \in Token /\ honoured' \in [Token -> Nat] /\ honoured'[c] = 0
        /\ \A t \in Token : t # c => honoured'[t] = honoured[t]
    BY <2>1, <2>2, Types DEF CredInv, Token
  <2>4. CredentialsCurrent'
    BY <1>1, <2>1, <2>2, <2>3 DEF CredInv, CredentialsCurrent, Live
  <2>5. TypeOK'
    BY <1>1, <1>2, <2>1, <2>3, Types DEF CredInv, TypeOK, RequestsMove, ReqRec, ChallengeRec
  <2>6. \A q \in Request : req'[q].token \in {req[q].token, None}
    BY <1>1, Types DEF CredInv, Done, Idle
  <2>7. RequestsFit'
    BY <1>1, <1>2, <2>1, <2>3, <2>6, FitsIssued
  <2>8. Unspent' /\ SingleUse'
    BY <1>1, <2>3, CredentialsAssumption DEF CredInv, Unspent, SingleUse, Token
  <2> QED BY <2>4, <2>5, <2>7, <2>8 DEF CredInv
<1> QED BY <1>3, <1>4

\* CompleteMFALogin: the session has the hash under which the challenge was
\* issued, and the challenge goes in the same transaction.
LEMMA CompleteKeeps ==
  ASSUME CredInv, NEW r \in Request, CompleteMFALogin(r)
  PROVE  CredInv'
<1> DEFINE u == req[r].user
           c == req[r].token
           row == [user[u] EXCEPT !.mfaFailed = 0]
           s == [user |-> u, hash |-> challenge[c].hash]
<1>1. /\ req[r].pc = "verified" /\ u \in User /\ user[u] \in UserRow /\ ReqFits(req[r])
      /\ challenge[c] # None
  BY UnderWay DEF CompleteMFALogin, CanComplete
<1>2. c \in Challenge /\ c \in Token /\ challenge[c].user = u
  BY <1>1 DEF ReqFits, AtMFA, Token
<1>3. challenge[c].hash \in Hash /\ Live(u) /\ challenge[c].hash = user[u].hash /\ honoured[c] = 0
  BY <1>1, <1>2, Types DEF CredInv, ChallengeRec, CredentialsCurrent, Unspent
<1>4. /\ user' = [user EXCEPT ![u] = row]
      /\ challenge' = [challenge EXCEPT ![c] = None]
      /\ session' = session \cup {s}
      /\ honoured' = [honoured EXCEPT ![c] = @ + 1]
      /\ Done(r) /\ UNCHANGED <<reset, sso>>
  BY <1>1, Types DEF CompleteMFALogin, CredInv
<1>5. Harmless(row, user[u])
  BY <1>1, Zeros, CodeColumns
<1>6. s \in Session /\ s.user = u /\ s.hash = user[u].hash
  BY <1>1, <1>3 DEF Session
<1> HIDE DEF u, c, row, s
<1>7. UsersKept
  BY <1>1, <1>4, <1>5, RowMoves DEF CredInv
<1>8. TokensShrink
  BY <1>2, <1>4, Types DEF CredInv, TokensShrink
<1>9. RequestsMove
  BY <1>4, RequestEnds
<1>10. /\ user'[u].status = "live" /\ user'[u].hash = user[u].hash
       /\ \A v \in User : Live(v) => user'[v].status = "live"
       /\ \A v \in User : user'[v].hash = user[v].hash
  BY <1>1, <1>3, <1>7 DEF UsersKept, RowKept, Live
<1>11. CredentialsCurrent'
  <2>1. ASSUME NEW x \in session'
        PROVE  user'[x.user].status = "live" /\ x.hash = user'[x.user].hash
    <3>1. CASE x \in session
      <4>1. x.user \in User /\ Live(x.user) /\ x.hash = user[x.user].hash
        BY <3>1, Types DEF CredInv, CredentialsCurrent, Session
      <4> QED BY <1>10, <4>1
    <3>2. CASE x = s
      BY <1>6, <1>10, <3>2
    <3> QED BY <1>4, <3>1, <3>2
  <2>2. ASSUME NEW d \in Challenge, challenge'[d] # None
        PROVE  /\ user'[challenge'[d].user].status = "live"
               /\ challenge'[d].hash = user'[challenge'[d].user].hash
    <3>1. /\ challenge[d] # None /\ challenge'[d].user = challenge[d].user
          /\ challenge'[d].hash = challenge[d].hash
      BY <1>8, <2>2 DEF TokensShrink
    <3>2. /\ challenge[d].user \in User /\ Live(challenge[d].user)
          /\ challenge[d].hash = user[challenge[d].user].hash
      BY <3>1, Types DEF CredInv, CredentialsCurrent, ChallengeRec
    <3> QED BY <1>10, <3>1, <3>2
  <2>3. ASSUME NEW t \in Reset, reset[t] # None PROVE user'[reset[t]].status = "live"
    <3>1. reset[t] \in User /\ Live(reset[t])
      BY <2>3, Types DEF CredInv, CredentialsCurrent
    <3> QED BY <1>10, <3>1
  <2> QED BY <1>4, <2>1, <2>2, <2>3 DEF CredentialsCurrent, Live
<1>12. RequestsFit'
  BY <1>8, <1>9, FitsShrunk DEF CredInv, RequestsMove, RequestsFit, ReqFits
<1>13. /\ honoured' \in [Token -> Nat] /\ honoured'[c] = 1
       /\ \A x \in Token : x # c => honoured'[x] = honoured[x]
  BY <1>2, <1>3, <1>4, Types DEF CredInv
<1>14. Unspent' /\ SingleUse'
  <2>1. c \notin Reset /\ challenge'[c] = None
    BY <1>2, <1>4, CredentialsAssumption, Types DEF CredInv
  <2> QED BY <1>8, <1>13, <2>1 DEF Unspent, SingleUse, CredInv, TokensShrink, Token
<1>15. TypeOK'
  <2>1. session' \subseteq Session
    BY <1>4, <1>6, Types DEF CredInv
  <2> QED
    BY <1>4, <1>7, <1>8, <1>9, <1>13, <2>1, Types
    DEF CredInv, TypeOK, UsersKept, TokensShrink, RequestsMove, ReqRec, ChallengeRec
<1> QED BY <1>11, <1>12, <1>14, <1>15 DEF CredInv

\* The end of RecordMFAFailure counts on the user's row, and may take the
\* user's challenges away.
LEMMA CountKeeps ==
  ASSUME CredInv, NEW u \in User, NEW table \in [Challenge -> ChallengeRec \cup {None}],
         CountUserFailure(u, table)
  PROVE  /\ UsersKept /\ challenge' \in [Challenge -> ChallengeRec \cup {None}]
         /\ \A c \in Challenge : challenge'[c] \in {None, table[c]}
<1> DEFINE atLimit == user[u].mfaFailed + 1 >= MFAUserMaxFailures
           x == IF atLimit THEN 0 ELSE user[u].mfaFailed + 1
           b == user[u].mfaLocked \/ atLimit
<1>1. user[u] \in UserRow
  BY Types DEF CredInv
<1>2. x \in 0 .. (MFAUserMaxFailures - 1) /\ b \in BOOLEAN
  BY <1>1, Bounds DEF UserRow
<1>3. user' = Updated(u, [user[u] EXCEPT !.mfaFailed = x, !.mfaLocked = b])
  BY DEF CountUserFailure
<1> HIDE DEF x, b
<1>4. UsersKept
  BY <1>1, <1>2, <1>3, CodeColumns, RowMoves DEF Updated, CredInv
<1>5. \A c \in Challenge : challenge'[c] \in {None, table[c]}
  BY DEF CountUserFailure
<1>6. challenge' \in [Challenge -> ChallengeRec \cup {None}]
  BY DEF CountUserFailure
<1> QED BY <1>4, <1>5, <1>6

\* The table of challenges with one more failure on c, or without c.
LEMMA CountedTable ==
  ASSUME CredInv, NEW c \in Challenge
  PROVE  /\ [challenge EXCEPT ![c] = None] \in [Challenge -> ChallengeRec \cup {None}]
         /\ challenge[c] # None =>
              [challenge EXCEPT ![c].failed = @ + 1] \in [Challenge -> ChallengeRec \cup {None}]
<1>1. challenge \in [Challenge -> ChallengeRec \cup {None}]
  BY Types DEF CredInv
<1>2. ASSUME NEW a \in ChallengeRec PROVE [a EXCEPT !.failed = @ + 1] \in ChallengeRec
  BY DEF ChallengeRec
<1> QED BY <1>1, <1>2

\* A wrong code: the challenge and the user are counted on.
LEMMA RecordKeeps ==
  ASSUME CredInv, NEW r \in Request, RecordDiscard(r) \/ RecordCount(r)
  PROVE  CredInv'
<1> DEFINE u == req[r].user
           c == req[r].token
<1>1. /\ req[r].pc \in {"wrong", "count"} /\ u \in User /\ ReqFits(req[r])
      /\ UNCHANGED <<session, reset, sso, honoured>>
  BY UnderWay DEF RecordDiscard, RecordCount
<1>2. c \in Challenge /\ req[r].pc \in AtMFA
  BY <1>1 DEF ReqFits, AtMFA
<1>3. CASE Goto(r, "count") /\ UNCHANGED <<user, challenge>>
  <2>1. "count" \in AtMFA
    BY DEF AtMFA
  <2> QED BY <1>1, <1>2, <1>3, <2>1, GotoStep, Zeros DEF Goto, tables
<1>4. CASE /\ Done(r)
           /\ \/ CountUserFailure(u, [challenge EXCEPT ![c] = None])
              \/ challenge[c] # None /\ CountUserFailure(u, [challenge EXCEPT ![c].failed = @ + 1])
              \/ CountUserFailure(u, challenge)
  <2>1. UsersKept /\ challenge' \in [Challenge -> ChallengeRec \cup {None}]
        /\ \A d \in Challenge :
             challenge'[d] # None =>
               /\ challenge[d] # None
               /\ challenge'[d].user = challenge[d].user /\ challenge'[d].hash = challenge[d].hash
    <3>1. CASE CountUserFailure(u, [challenge EXCEPT ![c] = None])
      BY <1>1, <1>2, <3>1, CountedTable, CountKeeps, Types DEF CredInv
    <3>2. CASE challenge[c] # None /\ CountUserFailure(u, [challenge EXCEPT ![c].failed = @ + 1])
      <4> DEFINE table == [challenge EXCEPT ![c].failed = @ + 1]
      <4>1. table \in [Challenge -> ChallengeRec \cup {None}]
        BY <1>2, <3>2, CountedTable
      <4>2. \A d \in Challenge :
              table[d] # None =>
                /\ challenge[d] # None
                /\ table[d].user = challenge[d].user /\ table[d].hash = challenge[d].hash
        BY <1>2, <3>2, Types DEF CredInv, ChallengeRec
      <4>3. CountUserFailure(u, table)
        BY <3>2
      <4> HIDE DEF table
      <4> QED BY <1>1, <4>1, <4>2, <4>3, CountKeeps
    <3>3. CASE CountUserFailure(u, challenge)
      BY <1>1, <3>3, CountKeeps, Types DEF CredInv
    <3> QED BY <1>4, <3>1, <3>2, <3>3
  <2>2. TokensShrink
    BY <1>1, <2>1, Types DEF CredInv, TokensShrink
  <2>3. session' \subseteq session /\ sso' \in BOOLEAN /\ UNCHANGED honoured
    BY <1>1, Types DEF CredInv
  <2>4. RequestsMove
    BY <1>4, RequestEnds
  <2> QED BY <2>1, <2>2, <2>3, <2>4, CalmStep
<1> QED BY <1>3, <1>4 DEF RecordDiscard, RecordCount

\* A reset link is issued to an account that exists.
LEMMA LinkKeeps ==
  ASSUME CredInv, NEW u \in User, NEW t \in Reset, CreatePasswordResetToken(u, t)
  PROVE  CredInv'
<1>1. /\ Live(u) /\ reset[t] = None /\ ~InFlight(t)
      /\ reset' = [reset EXCEPT ![t] = u] /\ honoured' = [honoured EXCEPT ![t] = 0]
      /\ UNCHANGED <<user, session, challenge, req, sso>>
  BY DEF CreatePasswordResetToken
<1>2. /\ reset' \in [Reset -> User \cup {None}] /\ reset'[t] = u
      /\ \A x \in Reset : x # t => reset'[x] = reset[x]
      /\ t \in Token /\ honoured' \in [Token -> Nat] /\ honoured'[t] = 0
      /\ \A x \in Token : x # t => honoured'[x] = honoured[x]
  BY <1>1, Types DEF CredInv, Token
<1>3. CredentialsCurrent'
  BY <1>1, <1>2 DEF CredInv, CredentialsCurrent, Live
<1>4. TypeOK'
  BY <1>1, <1>2 DEF CredInv, TypeOK
<1>5. RequestsFit'
  BY <1>1, <1>2, RequestsSame, FitsIssued DEF Token
<1>6. Unspent' /\ SingleUse'
  BY <1>1, <1>2, CredentialsAssumption DEF CredInv, Unspent, SingleUse, Token
<1> QED BY <1>3, <1>4, <1>5, <1>6 DEF CredInv
-----------------------------------------------------------------------------
\* Nobody has an account at the start.
LEMMA CredInit == Init => CredInv
<1> SUFFICES ASSUME Init PROVE CredInv
  OBVIOUS
<1>1. NewUser(0) \in UserRow
  BY Zeros DEF NewUser, UserRow
<1>2. [NewUser(0) EXCEPT !.status = "unborn"] \in UserRow
  BY <1>1 DEF UserRow
<1>3. TypeOK
  BY <1>2, IdleRequest DEF Init, TypeOK, ReqRec
<1> QED
  BY <1>3, IdleRequest
  DEF Init, CredInv, CredentialsCurrent, RequestsFit, Unspent, SingleUse, Token

\* Every step keeps the invariant.
LEMMA CredNext == CredInv /\ [Next]_vars => CredInv'
<1> SUFFICES ASSUME CredInv, [Next]_vars PROVE CredInv'
  OBVIOUS
<1>1. CASE UNCHANGED vars
  <2>1. UsersKept /\ session' \subseteq session /\ sso' \in BOOLEAN /\ UNCHANGED honoured
    BY <1>1, Types DEF vars, CredInv, UsersKept, RowKept
  <2> QED BY <1>1, <2>1, TokensSame, RequestsSame, CalmStep DEF vars, CredInv
<1>2. ASSUME NEW u \in User,
             \/ AcceptInvite(u) \/ CreateAdminUser(u) \/ CreateOAuthUser(u) \/ DeleteUser(u)
             \/ handleAdminSetPassword(u) \/ handleAdminSendPasswordReset(u)
             \/ AdminDisableMFA(u) \/ ExpireOnUser(u)
      PROVE  CredInv'
  BY <1>2, AccountBegins, RevocationKeeps, LinkKeeps, RowKeeps
  DEF handleAdminSetPassword, handleAdminSendPasswordReset
<1>3. ASSUME NEW r \in Request, handleLogin(r) \/ handleOAuthCallback(r)
      PROVE  CredInv'
  BY <1>3, ReadKeeps, PasswordKeeps, IssueKeeps, RefusalKeeps
  DEF handleLogin, handleOAuthCallback, withAuthenticatedUser
<1>4. ASSUME NEW r \in Request, handleMFAVerify(r)
      PROVE  CredInv'
  BY <1>4, ReadKeeps, RefusalKeeps, CompleteKeeps, RecordKeeps DEF handleMFAVerify
<1>5. ASSUME NEW r \in Request, handleDoPasswordReset(r)
      PROVE  CredInv'
  BY <1>5, ReadKeeps, RefusalKeeps, ResetKeeps DEF handleDoPasswordReset
<1>6. ASSUME NEW r \in Request, handleMFASetup(r) \/ handleMFAConfirm(r) \/ handleMFADisable(r)
      PROVE  CredInv'
  BY <1>6, ReadKeeps, FactorKeeps DEF handleMFASetup, handleMFAConfirm, handleMFADisable
<1>7. CASE handleChangePassword \/ handleLogout \/ ExpireToken \/ Restart
  BY <1>7, RevocationKeeps, ExpiryKeeps
<1> QED BY <1>1, <1>2, <1>3, <1>4, <1>5, <1>6, <1>7 DEF Next

\* The invariant holds throughout.
THEOREM CredInvHolds == Spec => []CredInv
  BY CredInit, CredNext, PTL DEF Spec

\* No session, challenge or reset link outlives the password or the account it
\* was earned with, however late a request is.
THEOREM CredentialsCurrentHolds == Spec => []CredentialsCurrent
<1>1. CredInv => CredentialsCurrent
  BY DEF CredInv
<1> QED BY <1>1, CredInvHolds, PTL

\* A login never opens a session past an authenticator that is enrolled at that
\* moment: the row is compared with what the request knows when it opens one.
THEOREM SecondFactorEnforcedHolds == Spec => SecondFactorEnforced
<1> DEFINE Step ==
      \A r \in Request :
        (CreateAuthenticatedSession(r) \/ CompleteMFALogin(r)) =>
          (user[req[r].user].enabled => req[r].secret = user[req[r].user].secret)
<1>1. CredInv /\ [Next]_vars => [Step]_vars
  <2> SUFFICES ASSUME CredInv, NEW r \in Request,
                      CreateAuthenticatedSession(r) \/ CompleteMFALogin(r),
                      user[req[r].user].enabled
               PROVE  req[r].secret = user[req[r].user].secret
    OBVIOUS
  <2>1. CASE CreateAuthenticatedSession(r)
    BY <2>1 DEF CreateAuthenticatedSession, SnapshotCurrent
  <2>2. CASE CompleteMFALogin(r)
    BY <2>2 DEF CompleteMFALogin, CanComplete, FactorCurrent
  <2> QED BY <2>1, <2>2
<1> QED BY <1>1, CredInvHolds, PTL DEF Spec, SecondFactorEnforced
-----------------------------------------------------------------------------
(* The budget of wrong codes. *)

\* The requests that have passed the test of RecordMFAFailure's DELETE for c
\* and will raise its count.
Counting(c) == {r \in Request : req[r].pc = "count" /\ req[r].token = c}

\* What a challenge has counted, and what is on its way to be counted, stays
\* within the limit and the number of requests.
Budget ==
  \A c \in Challenge :
    challenge[c] # None =>
      challenge[c].failed + Cardinality(Counting(c))
        <= (MFAChallengeMaxFailures - 2) + Cardinality(Request)

FailuresKept ==
  \A c \in Challenge :
    challenge'[c] # None => challenge[c] # None /\ challenge'[c].failed = challenge[c].failed

NoneJoins ==
  \A r \in Request : req'[r].pc = "count" => req[r].pc = "count" /\ req'[r].token = req[r].token

\* Requests under way, and those of them that count, are finitely many.
LEMMA CountingFinite ==
  ASSUME NEW c
  PROVE  /\ IsFiniteSet(Counting(c)) /\ Cardinality(Counting(c)) \in Nat
         /\ Cardinality(Request) \in Nat /\ Cardinality(Counting(c)) <= Cardinality(Request)
<1>1. IsFiniteSet(Request) /\ Counting(c) \subseteq Request
  BY CredentialsAssumption DEF Counting
<1> QED BY <1>1, FS_Subset, FS_CardinalityType

\* No failure is added and no request is about to add one.
LEMMA BudgetKept ==
  ASSUME CredInv, Budget, FailuresKept, NoneJoins
  PROVE  Budget'
<1> SUFFICES ASSUME NEW c \in Challenge, challenge'[c] # None
             PROVE  challenge'[c].failed + Cardinality(Counting(c)')
                      <= (MFAChallengeMaxFailures - 2) + Cardinality(Request)
  BY DEF Budget
<1>1. Counting(c)' \subseteq Counting(c)
  BY DEF Counting, NoneJoins
<1>2. Cardinality(Counting(c)') <= Cardinality(Counting(c)) /\ Cardinality(Counting(c)') \in Nat
  BY <1>1, CountingFinite, FS_Subset, FS_CardinalityType
<1>3. challenge[c] # None /\ challenge'[c].failed = challenge[c].failed
      /\ challenge[c].failed \in Nat
  BY Types DEF FailuresKept, CredInv, ChallengeRec
<1>4. /\ challenge[c].failed + Cardinality(Counting(c))
           <= (MFAChallengeMaxFailures - 2) + Cardinality(Request)
      /\ Cardinality(Counting(c)) \in Nat /\ Cardinality(Request) \in Nat
  BY <1>3, CountingFinite DEF Budget
<1> QED BY <1>2, <1>3, <1>4, Bounds

\* One request goes elsewhere than to the count, or none moves.
LEMMA NoneJoinsStep ==
  ASSUME CredInv,
         \/ UNCHANGED req
         \/ \E r \in Request : Done(r)
         \/ \E r \in Request : \E q : q.pc # "count" /\ req' = [req EXCEPT ![r] = q]
         \/ \E r \in Request : \E pc : pc # "count" /\ Goto(r, pc)
         \/ \E r \in Request : \E pc, n :
              pc # "count" /\ req' = [req EXCEPT ![r].pc = pc, ![r].secret = n]
         \/ req' = [r \in Request |-> Idle]
  PROVE  NoneJoins
<1>1. req \in [Request -> ReqRec]
  BY Types DEF CredInv
<1>2. Idle.pc # "count"
  BY DEF Idle
<1> QED BY <1>1, <1>2 DEF NoneJoins, Done, Goto, ReqRec

\* The count of a challenge is raised by its own requests only.
LEMMA BudgetRecord ==
  ASSUME CredInv, Budget, NEW r \in Request, RecordDiscard(r) \/ RecordCount(r)
  PROVE  Budget'
<1> DEFINE u == req[r].user
           c == req[r].token
<1>1. /\ req[r].pc \in {"wrong", "count"} /\ u \in User /\ c \in Challenge
      /\ req \in [Request -> ReqRec]
  BY UnderWay, Types DEF RecordDiscard, RecordCount, ReqFits, AtMFA, CredInv
<1>2. CASE RecordDiscard(r) /\ Discards(c)
  <2>1. Done(r) /\ CountUserFailure(u, [challenge EXCEPT ![c] = None])
    BY <1>2 DEF RecordDiscard
  <2>2. \A d \in Challenge : challenge'[d] \in {None, [challenge EXCEPT ![c] = None][d]}
    BY <1>1, <2>1, CountedTable, CountKeeps
  <2>3. FailuresKept
    BY <1>1, <2>2, Types DEF FailuresKept, CredInv
  <2> QED BY <2>1, <2>3, NoneJoinsStep, BudgetKept
<1>3. CASE RecordDiscard(r) /\ ~Discards(c)
  <2>1. Goto(r, "count") /\ UNCHANGED challenge
    BY <1>3 DEF RecordDiscard
  <2> SUFFICES ASSUME NEW d \in Challenge, challenge[d] # None
               PROVE  challenge[d].failed + Cardinality(Counting(d)')
                        <= (MFAChallengeMaxFailures - 2) + Cardinality(Request)
    BY <2>1 DEF Budget
  <2>2. challenge[d].failed \in Nat
    BY Types DEF CredInv, ChallengeRec
  <2>3. CASE d = c
    <3>1. ~(challenge[c].failed + 1 >= MFAChallengeMaxFailures)
      BY <1>3, <2>3 DEF Discards
    <3>2. /\ Cardinality(Counting(d)') <= Cardinality(Request)
          /\ Cardinality(Counting(d)') \in Nat /\ Cardinality(Request) \in Nat
      <4>1. Counting(d)' \subseteq Request /\ IsFiniteSet(Request)
        BY CredentialsAssumption DEF Counting
      <4> QED BY <4>1, FS_Subset, FS_CardinalityType
    <3> QED BY <2>2, <2>3, <3>1, <3>2, Bounds
  <2>4. CASE d # c
    <3>1. Counting(d)' = Counting(d)
      <4>1. req'[r].token = c /\ \A q \in Request : q # r => req'[q] = req[q]
        BY <1>1, <2>1 DEF Goto, ReqRec
      <4> QED BY <2>4, <4>1 DEF Counting
    <3> QED BY <3>1 DEF Budget
  <2> QED BY <2>3, <2>4
<1>4. CASE RecordCount(r)
  <2>1. /\ req[r].pc = "count" /\ Done(r)
        /\ CountUserFailure(u, IF challenge[c] = None THEN challenge
                               ELSE [challenge EXCEPT ![c].failed = @ + 1])
    BY <1>4 DEF RecordCount
  <2>2. NoneJoins
    BY <2>1, NoneJoinsStep
  <2>3. CASE challenge[c] = None
    <3>1. \A d \in Challenge : challenge'[d] \in {None, challenge[d]}
      BY <1>1, <2>1, <2>3, CountKeeps, Types DEF CredInv
    <3>2. FailuresKept
      BY <3>1 DEF FailuresKept
    <3> QED BY <2>2, <3>2, BudgetKept
  <2>4. CASE challenge[c] # None
    <3> DEFINE table == [challenge EXCEPT ![c].failed = @ + 1]
    <3>1. table \in [Challenge -> ChallengeRec \cup {None}]
      BY <1>1, <2>4, CountedTable
    <3>2. /\ table[c].failed = challenge[c].failed + 1
          /\ \A d \in Challenge : d # c => table[d] = challenge[d]
      BY <1>1, <2>4, Types DEF CredInv, ChallengeRec
    <3>3. CountUserFailure(u, table)
      BY <2>1, <2>4
    <3> HIDE DEF table
    <3>4. \A d \in Challenge : challenge'[d] \in {None, table[d]}
      BY <1>1, <3>1, <3>3, CountKeeps
    <3> SUFFICES ASSUME NEW d \in Challenge, challenge'[d] # None
                 PROVE  challenge'[d].failed + Cardinality(Counting(d)')
                          <= (MFAChallengeMaxFailures - 2) + Cardinality(Request)
      BY DEF Budget
    <3>5. challenge'[d] = table[d] /\ challenge[d] # None /\ challenge[d].failed \in Nat
      <4>1. challenge'[d] = table[d]
        BY <3>4
      <4>2. challenge[d] # None
        BY <2>4, <3>2, <4>1
      <4> QED BY <4>1, <4>2, Types DEF CredInv, ChallengeRec
    <3>6. /\ challenge[d].failed + Cardinality(Counting(d))
               <= (MFAChallengeMaxFailures - 2) + Cardinality(Request)
          /\ IsFiniteSet(Counting(d)) /\ Cardinality(Counting(d)) \in Nat
          /\ Cardinality(Request) \in Nat
      BY <3>5, CountingFinite DEF Budget
    <3>7. CASE d = c
      <4>1. Counting(d)' \subseteq Counting(d) \ {r} /\ r \in Counting(d)
        <5>1. req'[r].pc # "count"
          BY <1>1, <2>1 DEF Done, Idle
        <5> QED BY <2>1, <2>2, <3>7, <5>1 DEF Counting, NoneJoins
      <4>2. Cardinality(Counting(d) \ {r}) = Cardinality(Counting(d)) - 1
            /\ IsFiniteSet(Counting(d) \ {r})
        BY <3>6, <4>1, FS_RemoveElement
      <4>3. Cardinality(Counting(d)') <= Cardinality(Counting(d)) - 1
            /\ Cardinality(Counting(d)') \in Nat
        BY <4>1, <4>2, FS_Subset, FS_CardinalityType
      <4> QED BY <3>2, <3>5, <3>6, <3>7, <4>3, Bounds
    <3>8. CASE d # c
      <4>1. Counting(d)' \subseteq Counting(d)
        BY <2>2 DEF Counting, NoneJoins
      <4>2. Cardinality(Counting(d)') <= Cardinality(Counting(d))
            /\ Cardinality(Counting(d)') \in Nat
        BY <3>6, <4>1, FS_Subset, FS_CardinalityType
      <4> QED BY <3>2, <3>5, <3>6, <3>8, <4>2, Bounds
    <3> QED BY <3>7, <3>8
  <2> QED BY <2>3, <2>4
<1> QED BY <1>2, <1>3, <1>4

\* A new challenge starts at zero, and no request carries its token.
LEMMA BudgetIssue ==
  ASSUME CredInv, Budget, NEW r \in Request, NEW c \in Challenge,
         CreateAuthenticatedMFAChallenge(r, c)
  PROVE  Budget'
<1>1. /\ challenge[c] = None /\ ~InFlight(c) /\ Done(r)
      /\ challenge' = [challenge EXCEPT ![c] =
           [user |-> req[r].user, hash |-> req[r].hash, failed |-> 0]]
  BY DEF CreateAuthenticatedMFAChallenge
<1>2. NoneJoins
  BY <1>1, NoneJoinsStep
<1> SUFFICES ASSUME NEW d \in Challenge, challenge'[d] # None
             PROVE  challenge'[d].failed + Cardinality(Counting(d)')
                      <= (MFAChallengeMaxFailures - 2) + Cardinality(Request)
  BY DEF Budget
<1>3. /\ Counting(d)' \subseteq Counting(d) /\ IsFiniteSet(Counting(d))
      /\ Cardinality(Counting(d)) \in Nat /\ Cardinality(Request) \in Nat
  BY <1>2, CountingFinite DEF Counting, NoneJoins
<1>4. CASE d = c
  <2>1. Counting(d)' = {}
    BY <1>1, <1>3, <1>4 DEF Counting, InFlight
  <2>2. challenge'[d].failed = 0
    BY <1>1, <1>4, Types DEF CredInv
  <2>3. Cardinality(Request) # 0
    BY CredentialsAssumption, FS_EmptySet
  <2> QED BY <1>3, <2>1, <2>2, <2>3, FS_EmptySet, Bounds
<1>5. CASE d # c
  <2>1. challenge'[d] = challenge[d] /\ challenge[d] # None /\ challenge[d].failed \in Nat
    BY <1>1, <1>5, Types DEF CredInv, ChallengeRec
  <2>2. Cardinality(Counting(d)') <= Cardinality(Counting(d)) /\ Cardinality(Counting(d)') \in Nat
    BY <1>3, FS_Subset, FS_CardinalityType
  <2> QED BY <1>3, <2>1, <2>2, Bounds DEF Budget
<1> QED BY <1>4, <1>5

\* Nothing counts: challenges only go, and requests do anything but join.
LEMMA BudgetCalm ==
  ASSUME CredInv, Budget, NoneJoins,
         \A c \in Challenge : challenge'[c] \in {None, challenge[c]}
  PROVE  Budget'
<1>1. FailuresKept
  BY DEF FailuresKept
<1> QED BY <1>1, BudgetKept

\* A revocation takes challenges away and adds none.
LEMMA Dropped ==
  ASSUME CredInv, NEW u
  PROVE  \A c \in Challenge : DropChallenges(u)[c] \in {None, challenge[c]}
BY Types DEF DropChallenges, CredInv

\* What users, administrators and the clock do without a request in flight.
LEMMA BudgetAlone ==
  ASSUME CredInv, Budget,
         \/ \E u \in User :
              \/ AcceptInvite(u) \/ CreateAdminUser(u) \/ CreateOAuthUser(u) \/ DeleteUser(u)
              \/ handleAdminSetPassword(u) \/ handleAdminSendPasswordReset(u)
              \/ AdminDisableMFA(u) \/ ExpireOnUser(u)
         \/ handleChangePassword \/ handleLogout \/ ExpireToken
  PROVE  Budget'
<1>1. UNCHANGED req
  BY DEF AcceptInvite, CreateAdminUser, CreateOAuthUser, DeleteUser, handleAdminSetPassword,
     AdminSetPassword, handleAdminSendPasswordReset, CreatePasswordResetToken, AdminDisableMFA,
     ExpireOnUser, handleChangePassword, ChangeUserPassword, handleLogout, EndSession, ExpireToken
<1>2. NoneJoins
  BY <1>1, NoneJoinsStep
<1>3. \/ UNCHANGED challenge
      \/ \E u : challenge' = DropChallenges(u)
      \/ \E c \in Challenge : challenge' = [challenge EXCEPT ![c] = None]
  BY DEF AcceptInvite, CreateAdminUser, CreateOAuthUser, DeleteUser, handleAdminSetPassword,
     AdminSetPassword, handleAdminSendPasswordReset, CreatePasswordResetToken, AdminDisableMFA,
     ExpireOnUser, handleChangePassword, ChangeUserPassword, handleLogout, EndSession, ExpireToken,
     revokeCredentialArtifacts
<1>4. \A c \in Challenge : challenge'[c] \in {None, challenge[c]}
  BY <1>3, Dropped, Types DEF CredInv
<1> QED BY <1>2, <1>4, BudgetCalm

\* What a request does, the recording of a wrong code and a new challenge aside.
LEMMA BudgetRequest ==
  ASSUME CredInv, Budget, NEW r \in Request,
         \/ \E u \in User : LoginRead(r, u) \/ OAuthRead(r, u)
         \/ PasswordWrong(r) \/ PasswordRight(r)
         \/ CreateAuthenticatedSession(r) \/ AuthenticationChanged(r)
         \/ \E c \in Challenge : GetMFAChallenge(r, c)
         \/ MFALocked(r) \/ CheckCode(r) \/ CompleteMFALogin(r) \/ CompleteRefused(r)
         \/ RecordAborts(r)
         \/ handleDoPasswordReset(r) \/ handleMFASetup(r) \/ handleMFAConfirm(r)
         \/ handleMFADisable(r)
  PROVE  Budget'
<1>1. CASE \/ \E u \in User : LoginRead(r, u) \/ OAuthRead(r, u)
           \/ \E s \in session : MFASetup(r, s) \/ MFADisable(r, s)
  <2>1. /\ UNCHANGED challenge
        /\ \E q : q.pc # "count" /\ req' = [req EXCEPT ![r] = q]
    <3>1. \A u : /\ Snapshot("password", u).pc # "count" /\ Snapshot("issue", u).pc # "count"
                 /\ Snapshot("disable", u).pc # "count"
                 /\ \A n : [Snapshot("stage", u) EXCEPT !.secret = n].pc # "count"
      BY DEF Snapshot, Idle
    <3> QED BY <1>1, <3>1 DEF LoginRead, OAuthRead, MFASetup, MFADisable, tables
  <2> QED BY <2>1, NoneJoinsStep, BudgetCalm
<1>2. CASE \/ \E c \in Challenge : GetMFAChallenge(r, c)
           \/ \E t \in Reset : ResetRead(r, t)
           \/ \E s \in session : GetPendingMFASecret(r, s)
  <2>1. /\ UNCHANGED challenge
        /\ \E q : q.pc # "count" /\ req' = [req EXCEPT ![r] = q]
    BY <1>2 DEF GetMFAChallenge, ResetRead, GetPendingMFASecret, tables, Idle
  <2> QED BY <2>1, NoneJoinsStep, BudgetCalm
<1>3. CASE MFALocked(r) \/ CheckCode(r) \/ PasswordRight(r)
  <2>1. /\ UNCHANGED challenge
        /\ \/ Done(r)
           \/ \E pc : pc # "count" /\ Goto(r, pc)
           \/ \E pc, n : pc # "count" /\ req' = [req EXCEPT ![r].pc = pc, ![r].secret = n]
    <3>1. CASE MFALocked(r)
      <4>1. Done(r) \/ Goto(r, "code")
        BY <3>1 DEF MFALocked
      <4> QED BY <3>1, <4>1 DEF MFALocked, tables
    <3>2. CASE CheckCode(r)
      <4>1. \/ Goto(r, "wrong")
            \/ req' = [req EXCEPT ![r].pc = "verified", ![r].secret = user[req[r].user].secret]
        BY <3>2 DEF CheckCode
      <4> QED BY <3>2, <4>1 DEF CheckCode, tables
    <3>3. CASE PasswordRight(r)
      <4>1. Goto(r, "issue")
        BY <3>3 DEF PasswordRight
      <4> QED BY <3>3, <4>1 DEF PasswordRight
    <3> QED BY <1>3, <3>1, <3>2, <3>3
  <2>2. NoneJoins
    BY <2>1, NoneJoinsStep
  <2> QED BY <2>1, <2>2, BudgetCalm
<1>4. CASE \/ PasswordWrong(r) \/ CreateAuthenticatedSession(r) \/ AuthenticationChanged(r)
           \/ CompleteRefused(r) \/ RecordAborts(r) \/ ResetRefused(r)
           \/ SetPendingMFASecret(r) \/ ConfirmMFA(r) \/ DisableMFA(r)
  <2>1. UNCHANGED challenge /\ Done(r)
    BY <1>4 DEF PasswordWrong, CreateAuthenticatedSession, AuthenticationChanged,
       CompleteRefused, RecordAborts, ResetRefused, SetPendingMFASecret, ConfirmMFA, DisableMFA,
       tables
  <2> QED BY <2>1, NoneJoinsStep, BudgetCalm
<1>5. CASE CompleteMFALogin(r) \/ UsePasswordResetToken(r)
  <2>1. /\ Done(r)
        /\ \/ \E u : challenge' = DropChallenges(u)
           \/ \E c : challenge' = [challenge EXCEPT ![c] = None]
    BY <1>5 DEF CompleteMFALogin, UsePasswordResetToken, revokeCredentialArtifacts
  <2>2. \A c \in Challenge : challenge'[c] \in {None, challenge[c]}
    BY <2>1, Dropped, Types DEF CredInv
  <2> QED BY <2>1, <2>2, NoneJoinsStep, BudgetCalm
<1> QED BY <1>1, <1>2, <1>3, <1>4, <1>5
    DEF handleDoPasswordReset, handleMFASetup, handleMFAConfirm, handleMFADisable

\* Nothing has counted at the start.
LEMMA BudgetInit == Init => Budget
BY DEF Init, Budget

\* The budget survives every step.
LEMMA BudgetNext == CredInv /\ Budget /\ [Next]_vars => Budget'
<1> SUFFICES ASSUME CredInv, Budget, [Next]_vars PROVE Budget'
  OBVIOUS
<1>1. CASE UNCHANGED vars
  BY <1>1, NoneJoinsStep, BudgetCalm DEF vars
<1>2. CASE Restart
  <2>1. UNCHANGED challenge /\ NoneJoins
    BY <1>2, NoneJoinsStep DEF Restart, tables
  <2> QED BY <2>1, BudgetCalm
<1>3. ASSUME NEW r \in Request, handleLogin(r) \/ handleOAuthCallback(r)
      PROVE  Budget'
  BY <1>3, BudgetRequest, BudgetIssue
  DEF handleLogin, handleOAuthCallback, withAuthenticatedUser
<1>4. ASSUME NEW r \in Request, handleMFAVerify(r)
      PROVE  Budget'
  BY <1>4, BudgetRequest, BudgetRecord DEF handleMFAVerify
<1>5. ASSUME NEW r \in Request,
             \/ handleDoPasswordReset(r) \/ handleMFASetup(r) \/ handleMFAConfirm(r)
             \/ handleMFADisable(r)
      PROVE  Budget'
  BY <1>5, BudgetRequest
<1> QED BY <1>1, <1>2, <1>3, <1>4, <1>5, BudgetAlone DEF Next

\* No challenge and no reset link is honoured twice, and a challenge takes no
\* more wrong codes than its limit and the requests of one moment allow.
THEOREM SpentOnceHolds == Spec => []SpentOnce
<1>1. CredInv /\ Budget => SpentOnce
  <2> SUFFICES ASSUME CredInv, Budget, NEW c \in Challenge, challenge[c] # None
               PROVE  challenge[c].failed < MFAChallengeMaxFailures + Cardinality(Request) - 1
    BY DEF CredInv, SpentOnce, ChallengeBudget
  <2>1. challenge[c].failed \in Nat
    BY Types DEF CredInv, ChallengeRec
  <2> QED BY <2>1, CountingFinite, Bounds DEF Budget
<1>2. Spec => []Budget
  BY CredInvHolds, BudgetInit, BudgetNext, PTL DEF Spec
<1> QED BY <1>1, <1>2, CredInvHolds, PTL
=============================================================================
