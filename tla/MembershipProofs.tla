-------------------------- MODULE MembershipProofs --------------------------
(***************************************************************************)
(* Proofs about who belongs to an instance, for every number of users,     *)
(* invitations, subjects and requests in flight, every limit and every     *)
(* workload.                                                               *)
(*                                                                         *)
(* The guard of the last user manager is only as good as what it saw.      *)
(* GuardSound says what a request still knows once others have run between *)
(* its steps: the managers whose rows it locked are managers still, they   *)
(* are not just the user it is about to remove, and if it locked none then *)
(* its user is no manager either, or was made one behind its back.         *)
(***************************************************************************)
EXTENDS Membership, TLAPS

Waiting  == {"delete", "demote"}
Changing == {"deletes", "demotes"}

PCs == {"idle", "invite", "accept", "admit", "create", "email"} \cup Guarded

ReqRec == [pc : PCs, target : User \cup {None}, email : Email \cup {None},
           invite : Invite \cup {None}, subject : Subject \cup {None},
           seen : SUBSET User, held : SUBSET User]

\* What the parameters of a request are, where it carries them.
Carries(q) ==
  /\ q.pc \in Guarded \cup {"email"} => q.target \in User
  /\ q.pc \in {"invite", "admit", "create", "email"} => q.email \in Email
  /\ q.pc = "accept" => q.invite \in Invite
  /\ q.pc = "admit" => q.subject \in Subject

RequestsOK == req \in [Request -> ReqRec] /\ \A r \in Request : Carries(req[r])

\* The user of a request in the guard was given out; a manager the snapshot
\* missed was made one since.
Snapshot(q) ==
  /\ user[q.target].status # "unborn"
  /\ q.pc \in Waiting /\ q.target \in Managers => q.target \in q.seen \/ raced
  /\ q.pc \in Changing =>
       /\ q.held \subseteq Managers /\ q.held # {q.target}
       /\ q.held = {} /\ q.target \in Managers => raced

GuardSound == \A r \in Request : req[r].pc \in Guarded => Snapshot(req[r])

\* An invitation has created an account exactly when its row says so.
Admissions == \A i \in Invite : admitted[i] = IF invite[i].status = "accepted" THEN 1 ELSE 0

TablesOK ==
  /\ user \in [User -> UserRow]
  /\ invite \in [Invite -> InviteRow]
  /\ identity \in [Subject -> User \cup {None}]
  /\ \A s \in Subject : identity[s] # None => identity[s] \in Live
  /\ \A u, v \in Live : u # v => user[u].email # user[v].email
  /\ admitted \in [Invite -> Nat]

DigestOK ==
  /\ hour \in 0 .. Hours /\ todo \subseteq User /\ sending \in User \cup {None}
  /\ mails \in [User -> Nat] /\ unmarked \in [User -> Nat] /\ owed \subseteq User

\* Whom the job is about to mail has had a digest only for a lost mark, and so
\* has everyone it may still pick; whom it owes one is on the list, or has it.
Mailed(u) ==
  /\ mails[u] <= 1 + unmarked[u]
  /\ u \in todo /\ sending # u => mails[u] <= unmarked[u]
  /\ user[u].status # "deleted" /\ ~user[u].sent /\ sending # u => mails[u] <= unmarked[u]
  /\ user[u].status = "unborn" => ~user[u].sent /\ u \notin todo
  /\ sending = u => u \in todo /\ mails[u] >= 1
  /\ user[u].sent => mails[u] >= 1
  /\ u \in owed => u \in todo \/ mails[u] >= 1

MailsSound == \A u \in User : Mailed(u)

MembershipInv ==
  TablesOK /\ RequestsOK /\ GuardSound /\ Admissions /\ DigestOK /\ MailsSound

-----------------------------------------------------------------------------
(* Requests that only move on, and rows of the users table that are replaced. *)

\* A request without any parameters satisfies everything asked of one.
LEMMA IdleFits == Idle \in ReqRec /\ Carries(Idle) /\ Idle.pc \notin Guarded
BY DEF Idle, ReqRec, PCs, Guarded, Carries

\* The table of requests after one of them became q (any handler's step).
LEMMA RequestReplaced ==
  ASSUME RequestsOK, NEW r \in Request, NEW q \in ReqRec, Carries(q),
         req' = [req EXCEPT ![r] = q]
  PROVE  RequestsOK'
<1>1. req' \in [Request -> ReqRec]
  BY DEF RequestsOK
<1>2. \A x \in Request : req'[x] = IF x = r THEN q ELSE req[x]
  BY DEF RequestsOK
<1>3. \A x \in Request : Carries(req'[x])
  BY <1>2 DEF RequestsOK
<1> QED
  BY <1>1, <1>3 DEF RequestsOK, Carries

\* A request that only reads, or is refused: it becomes q, and if q is in the
\* guard its snapshot is right.
LEMMA OnlyRequest ==
  ASSUME MembershipInv, NEW r \in Request, NEW q \in ReqRec, Carries(q),
         q.pc \in Guarded => Snapshot(q),
         req' = [req EXCEPT ![r] = q],
         UNCHANGED <<tables, raced, admitted, digestVars>>
  PROVE  MembershipInv'
<1>1. RequestsOK'
  BY RequestReplaced DEF MembershipInv
<1>2. UNCHANGED <<user, invite, identity, raced, admitted, hour, up, todo, sending, mails,
                  unmarked, owed>>
  BY DEF tables, digestVars
<1>3. TablesOK' /\ Admissions' /\ DigestOK' /\ MailsSound'
  BY <1>2 DEF MembershipInv, TablesOK, Admissions, DigestOK, MailsSound, Mailed, Live
<1>4. \A x \in Request : req'[x] = IF x = r THEN q ELSE req[x]
  BY DEF MembershipInv, RequestsOK
<1>5. \A x \in Request : req'[x].pc \in Guarded => Snapshot(req'[x])
  BY <1>4 DEF MembershipInv, GuardSound
<1>6. GuardSound'
  BY <1>2, <1>5 DEF GuardSound, Snapshot, Managers, Live
<1> QED
  BY <1>1, <1>3, <1>6 DEF MembershipInv

\* A row whose address nobody else has may replace the row of u; what the sets
\* of accounts and of managers are then.
LEMMA RowReplaced ==
  ASSUME TablesOK, NEW u \in User, NEW row \in UserRow,
         row.status = "live" => \A v \in Live : v # u => user[v].email # row.email,
         user' = [user EXCEPT ![u] = row]
  PROVE  /\ user' \in [User -> UserRow]
         /\ \A v \in User : user'[v] = IF v = u THEN row ELSE user[v]
         /\ (\A v, w \in Live : v # w => user[v].email # user[w].email)'
         /\ Live' = IF row.status = "live" THEN Live \cup {u} ELSE Live \ {u}
         /\ Managers' = IF row.status = "live" /\ row.manage
                        THEN Managers \cup {u} ELSE Managers \ {u}
<1>1. user' \in [User -> UserRow] /\ \A v \in User : user'[v] = IF v = u THEN row ELSE user[v]
  BY DEF TablesOK
<1>2. Live' = IF row.status = "live" THEN Live \cup {u} ELSE Live \ {u}
  BY <1>1 DEF Live
<1>3. Managers' = IF row.status = "live" /\ row.manage THEN Managers \cup {u} ELSE Managers \ {u}
  BY <1>1 DEF Live, Managers
<1>4. \A v, w \in Live' : v # w => user'[v].email # user'[w].email
  <2> SUFFICES ASSUME NEW v \in Live', NEW w \in Live', v # w
               PROVE  user'[v].email # user'[w].email
    OBVIOUS
  <2>1. v \in User /\ w \in User
    BY DEF Live
  <2>2. CASE v = u
    <3>1. w \in Live /\ w # u /\ row.status = "live"
      BY <1>1, <1>2, <2>1, <2>2 DEF Live
    <3> QED
      BY <1>1, <2>1, <2>2, <3>1
  <2>3. CASE w = u
    <3>1. v \in Live /\ v # u /\ row.status = "live"
      BY <1>1, <1>2, <2>1, <2>3 DEF Live
    <3> QED
      BY <1>1, <2>1, <2>3, <3>1
  <2>4. CASE v # u /\ w # u
    <3>1. v \in Live /\ w \in Live
      BY <1>2, <2>4
    <3> QED
      BY <1>1, <2>1, <2>4, <3>1 DEF TablesOK
  <2> QED
    BY <2>2, <2>3, <2>4
<1> QED
  BY <1>1, <1>2, <1>3, <1>4

\* Nothing of the digest is disturbed by a step that neither marks a digest nor
\* brings a deleted or not yet given id to life in the middle of its mailing.
LEMMA MailsKept ==
  ASSUME DigestOK, MailsSound,
         UNCHANGED digestVars,
         \A v \in User :
           /\ user'[v].sent = user[v].sent
           /\ user'[v].status = "unborn" => user[v].status = "unborn"
           /\ user'[v].status # "deleted" => user[v].status # "deleted"
  PROVE  DigestOK' /\ MailsSound'
<1>1. UNCHANGED <<hour, up, todo, sending, mails, unmarked, owed>>
  BY DEF digestVars
<1> QED
  BY <1>1 DEF DigestOK, MailsSound, Mailed

\* The guards stay right when others only gain managers that are new users, and
\* no request enters or moves in a guard.
LEMMA GuardKept ==
  ASSUME GuardSound, RequestsOK,
         Managers \subseteq Managers',
         \A v \in Managers' : v \notin Managers => user[v].status = "unborn",
         \A v \in User : user'[v].status = "unborn" => user[v].status = "unborn",
         \A x \in Request : req'[x].pc \in Guarded => req'[x] = req[x],
         raced' = raced
  PROVE  GuardSound'
<1> SUFFICES ASSUME NEW x \in Request, req'[x].pc \in Guarded
             PROVE  Snapshot(req[x])'
  BY DEF GuardSound, Snapshot
<1>1. req'[x] = req[x] /\ Snapshot(req[x]) /\ req[x].target \in User
  BY DEF GuardSound, RequestsOK, Carries
<1>2. req[x].target \in Managers' => req[x].target \in Managers
  BY <1>1 DEF Snapshot
<1> QED
  BY <1>1, <1>2 DEF Snapshot
-----------------------------------------------------------------------------
(* The steps of the requests that change no table. *)

\* A request refused or done with nothing changed is idle again.
LEMMA Refused ==
  ASSUME MembershipInv, NEW r \in Request, Done(r),
         UNCHANGED <<tables, raced, admitted, digestVars>>
  PROVE  MembershipInv'
BY IdleFits, OnlyRequest DEF Done

\* guardLastUserManager, from the snapshot to the rows it holds: what it holds
\* are managers, and if the one it is after is the only one it stops.
LEMMA GuardReads ==
  ASSUME MembershipInv, NEW r \in Request, NEW u \in User, NEW kind \in Waiting,
         GuardBegin(r, u, kind)
  PROVE  MembershipInv'
<1> DEFINE q == [Idle EXCEPT !.pc = kind, !.target = u, !.seen = Managers]
<1>1. q \in ReqRec /\ q.pc = kind /\ q.target = u /\ q.seen = Managers
  BY DEF Idle, ReqRec, PCs, Guarded, Waiting, Managers, Live
<1>2. Carries(q)
  BY <1>1 DEF Carries, Waiting, Guarded
<1>3. q.pc \in Guarded => Snapshot(q)
  BY <1>1 DEF Snapshot, GuardBegin, Waiting, Changing
<1>4. req' = [req EXCEPT ![r] = q] /\ UNCHANGED <<tables, raced, admitted, digestVars>>
  BY DEF GuardBegin
<1> HIDE DEF q
<1> QED
  BY <1>1, <1>2, <1>3, <1>4, OnlyRequest

LEMMA GuardLocks ==
  ASSUME MembershipInv, NEW r \in Request, GuardLock(r)
  PROVE  MembershipInv'
<1>1. req[r] \in ReqRec /\ req[r].pc \in Waiting /\ Carries(req[r]) /\ Snapshot(req[r])
  BY DEF MembershipInv, RequestsOK, GuardSound, GuardLock, Waiting, Guarded
<1>2. CASE req[r].seen \cap Managers = {req[r].target}
  BY <1>2, Refused DEF GuardLock
<1>3. CASE req[r].seen \cap Managers # {req[r].target}
  <2> DEFINE q == [req[r] EXCEPT !.pc = IF req[r].pc = "delete" THEN "deletes" ELSE "demotes",
                                 !.held = GuardRows(r)]
  <2>1. /\ q \in ReqRec
        /\ q.pc = IF req[r].pc = "delete" THEN "deletes" ELSE "demotes"
        /\ q.target = req[r].target /\ q.held = req[r].seen \cap Managers
    BY <1>1 DEF ReqRec, PCs, Guarded, GuardRows
  <2>2. req' = [req EXCEPT ![r] = q] /\ UNCHANGED <<tables, raced, admitted, digestVars>>
    BY <1>3 DEF GuardLock, RequestsOK, MembershipInv
  <2> HIDE DEF q
  <2>3. Carries(q)
    BY <1>1, <2>1 DEF Carries, Guarded, Waiting
  <2>4. q.held = {} /\ q.target \in Managers => raced
    BY <1>1, <2>1 DEF Snapshot
  <2>5. Snapshot(q)
    BY <1>1, <1>3, <2>1, <2>4 DEF Snapshot, Waiting, Changing
  <2> QED
    BY <2>1, <2>2, <2>3, <2>5, OnlyRequest
<1> QED
  BY <1>2, <1>3

\* The lookups before an invitation, an admission, an account or a new address.
LEMMA InviteReads ==
  ASSUME MembershipInv, NEW r \in Request, NEW e \in Email, NEW fromCommand \in BOOLEAN,
         InviteRead(r, e, fromCommand)
  PROVE  MembershipInv'
<1> DEFINE q == [Idle EXCEPT !.pc = "invite", !.email = e]
<1>1. q \in ReqRec /\ Carries(q) /\ q.pc \notin Guarded
  BY DEF Idle, ReqRec, PCs, Guarded, Carries
<1>2. req' = [req EXCEPT ![r] = q] /\ UNCHANGED <<tables, raced, admitted, digestVars>>
  BY DEF InviteRead
<1> HIDE DEF q
<1> QED
  BY <1>1, <1>2, OnlyRequest

LEMMA AcceptReads ==
  ASSUME MembershipInv, NEW r \in Request, NEW i \in Invite, AcceptRead(r, i)
  PROVE  MembershipInv'
<1> DEFINE q == [Idle EXCEPT !.pc = "accept", !.invite = i]
<1>1. q \in ReqRec /\ Carries(q) /\ q.pc \notin Guarded
  BY DEF Idle, ReqRec, PCs, Guarded, Carries
<1>2. req' = [req EXCEPT ![r] = q] /\ UNCHANGED <<tables, raced, admitted, digestVars>>
  BY DEF AcceptRead
<1> HIDE DEF q
<1> QED
  BY <1>1, <1>2, OnlyRequest

LEMMA CallbackReads ==
  ASSUME MembershipInv, NEW r \in Request, NEW s \in Subject, NEW e \in Email,
         OAuthLookup(r, s, e)
  PROVE  MembershipInv'
<1> DEFINE q == [Idle EXCEPT !.pc = "admit", !.subject = s, !.email = e]
<1>1. q \in ReqRec /\ Carries(q) /\ q.pc \notin Guarded
  BY DEF Idle, ReqRec, PCs, Guarded, Carries
<1>2. req' = [req EXCEPT ![r] = q] /\ UNCHANGED <<tables, raced, admitted, digestVars>>
  BY DEF OAuthLookup
<1> HIDE DEF q
<1> QED
  BY <1>1, <1>2, OnlyRequest

LEMMA CreateReads ==
  ASSUME MembershipInv, NEW r \in Request, NEW e \in Email, CreateRead(r, e)
  PROVE  MembershipInv'
<1> DEFINE q == [Idle EXCEPT !.pc = "create", !.email = e]
<1>1. q \in ReqRec /\ Carries(q) /\ q.pc \notin Guarded
  BY DEF Idle, ReqRec, PCs, Guarded, Carries
<1>2. req' = [req EXCEPT ![r] = q] /\ UNCHANGED <<tables, raced, admitted, digestVars>>
  BY DEF CreateRead
<1> HIDE DEF q
<1> QED
  BY <1>1, <1>2, OnlyRequest

LEMMA EmailReads ==
  ASSUME MembershipInv, NEW r \in Request, NEW u \in User, NEW e \in Email, EmailRead(r, u, e)
  PROVE  MembershipInv'
<1> DEFINE q == [Idle EXCEPT !.pc = "email", !.target = u, !.email = e]
<1>1. q \in ReqRec /\ Carries(q) /\ q.pc \notin Guarded
  BY DEF Idle, ReqRec, PCs, Guarded, Carries
<1>2. req' = [req EXCEPT ![r] = q] /\ UNCHANGED <<tables, raced, admitted, digestVars>>
  BY DEF EmailRead
<1> HIDE DEF q
<1> QED
  BY <1>1, <1>2, OnlyRequest
-----------------------------------------------------------------------------
(* The last user manager. *)

\* A request that is done leaves the others as they are.
LEMMA DoneKeeps ==
  ASSUME RequestsOK, NEW r \in Request, Done(r)
  PROVE  /\ RequestsOK'
         /\ \A x \in Request : req'[x] = IF x = r THEN Idle ELSE req[x]
         /\ \A x \in Request : req'[x].pc \in Guarded => req'[x] = req[x]
<1>1. RequestsOK'
  BY IdleFits, RequestReplaced DEF Done
<1>2. \A x \in Request : req'[x] = IF x = r THEN Idle ELSE req[x]
  BY DEF Done, RequestsOK
<1> QED
  BY <1>1, <1>2, IdleFits

\* The removal of a user, or of a permission (DeleteUser, UpdateUserPermissions).
\* Another request that is past its guard holds the rows of its managers, so
\* none of those is the user who goes.
LEMMA GuardedChanges ==
  ASSUME MembershipInv, NEW r \in Request, GuardedChange(r)
  PROVE  MembershipInv'
<1> DEFINE u == req[r].target
<1>a. TablesOK /\ RequestsOK /\ GuardSound /\ Admissions /\ DigestOK /\ MailsSound
  BY DEF MembershipInv
<1>b. u \in User /\ u \notin Held(r) /\ req[r].pc \in Changing /\ Done(r)
  BY <1>a DEF GuardedChange, RequestsOK, Carries, Guarded, Changing
<1>c. UNCHANGED <<invite, raced, admitted, digestVars>>
  BY DEF GuardedChange
<1>d. identity' = [s \in Subject |->
                     IF req[r].pc = "deletes" /\ identity[s] = u THEN None ELSE identity[s]]
  BY DEF GuardedChange
<1>1. RequestsOK' /\ \A x \in Request : req'[x].pc \in Guarded => x # r /\ req'[x] = req[x]
  BY <1>a, <1>b, IdleFits, DoneKeeps
<1>2. PICK row \in UserRow :
        /\ user' = [user EXCEPT ![u] = row]
        /\ \/ row.status = user[u].status
           \/ row.status = "deleted" /\ req[r].pc = "deletes"
        /\ row.manage => user[u].manage /\ u \notin Live
        /\ row.sent = user[u].sent
        /\ row.status = "live" => row.email = user[u].email
  <2>1. user[u] \in UserRow /\ user = [user EXCEPT ![u] = user[u]]
    BY <1>a, <1>b DEF TablesOK
  <2>2. CASE u \notin Live
    <3>1. user' = user
      BY <2>2 DEF GuardedChange
    <3> QED
      BY <2>1, <2>2, <3>1
  <2>3. CASE u \in Live /\ req[r].pc = "deletes"
    <3> DEFINE row == [user[u] EXCEPT !.status = "deleted", !.email = None, !.manage = FALSE]
    <3>1. row \in UserRow /\ row.status = "deleted" /\ ~row.manage /\ row.sent = user[u].sent
      BY <2>1 DEF UserRow
    <3>2. user' = [user EXCEPT ![u] = row]
      BY <1>a, <1>b, <2>3 DEF GuardedChange, Deleted, TablesOK
    <3> HIDE DEF row
    <3> QED
      BY <2>3, <3>1, <3>2
  <2>4. CASE u \in Live /\ req[r].pc # "deletes"
    <3> DEFINE row == [user[u] EXCEPT !.manage = FALSE]
    <3>1. /\ row \in UserRow /\ row.status = user[u].status /\ row.manage = FALSE
          /\ row.sent = user[u].sent /\ row.email = user[u].email
      BY <2>1 DEF UserRow
    <3>2. user' = [user EXCEPT ![u] = row]
      BY <1>a, <1>b, <2>4 DEF GuardedChange, TablesOK
    <3> HIDE DEF row
    <3> QED
      BY <3>1, <3>2
  <2> QED
    BY <2>2, <2>3, <2>4
<1>3. row.status = "live" => \A v \in Live : v # u => user[v].email # row.email
  BY <1>a, <1>b, <1>2 DEF TablesOK, Live
<1>4. /\ user' \in [User -> UserRow]
      /\ \A v \in User : user'[v] = IF v = u THEN row ELSE user[v]
      /\ (\A v, w \in Live : v # w => user[v].email # user[w].email)'
      /\ Live' = IF row.status = "live" THEN Live \cup {u} ELSE Live \ {u}
      /\ Managers' = IF row.status = "live" /\ row.manage
                     THEN Managers \cup {u} ELSE Managers \ {u}
  <2> HIDE DEF u
  <2> QED
    BY <1>a, <1>b, <1>2, <1>3, RowReplaced
<1>5. TablesOK'
  <2>1. identity' \in [Subject -> User \cup {None}]
    BY <1>a, <1>d DEF TablesOK
  <2>2. \A s \in Subject : identity'[s] # None => identity'[s] \in Live'
    <3> SUFFICES ASSUME NEW s \in Subject, identity'[s] # None
                 PROVE  identity'[s] \in Live'
      OBVIOUS
    <3>1. identity'[s] = identity[s] /\ identity[s] \in Live
      BY <1>a, <1>d DEF TablesOK
    <3>2. identity[s] = u => req[r].pc # "deletes"
      BY <1>d, <3>1
    <3>3. identity[s] = u => row.status = "live"
      BY <1>2, <3>1, <3>2 DEF Live
    <3> QED
      BY <1>4, <3>1, <3>3
  <2> QED
    BY <1>4, <1>a, <1>c, <2>1, <2>2 DEF TablesOK
<1>6. Managers' \subseteq Managers
  BY <1>2, <1>4 DEF Managers, Live
<1>7. GuardSound'
  <2> SUFFICES ASSUME NEW x \in Request, req'[x].pc \in Guarded
               PROVE  Snapshot(req[x])'
    BY DEF GuardSound, Snapshot
  <2>1. /\ x # r /\ req'[x] = req[x] /\ Snapshot(req[x]) /\ req[x].target \in User
        /\ req[x].held \subseteq User
    BY <1>1, <1>a DEF GuardSound, RequestsOK, Carries, ReqRec
  <2>2. u \notin req[x].held
    BY <1>b, <2>1 DEF Held
  <2>3. user'[req[x].target].status # "unborn"
    BY <1>2, <1>4, <2>1 DEF Snapshot
  <2>4. req[x].pc \in Changing => req[x].held \subseteq Managers'
    BY <1>4, <2>1, <2>2 DEF Snapshot
  <2> QED
    BY <1>6, <1>c, <2>1, <2>3, <2>4 DEF Snapshot
<1>8. Admissions'
  BY <1>a, <1>c DEF Admissions
<1>9. DigestOK' /\ MailsSound'
  <2>1. \A v \in User : /\ user'[v].sent = user[v].sent
                        /\ user'[v].status = "unborn" => user[v].status = "unborn"
                        /\ user'[v].status # "deleted" => user[v].status # "deleted"
    BY <1>2, <1>4
  <2> QED
    BY <1>a, <1>c, <2>1, MailsKept
<1> QED
  BY <1>1, <1>5, <1>7, <1>8, <1>9 DEF MembershipInv

\* A permission that is granted (UpdateUserPermissions): no guard, but a request
\* that was out to remove this user is marked as overtaken.
LEMMA Promotes ==
  ASSUME MembershipInv, NEW u \in User, Promote(u)
  PROVE  MembershipInv'
<1>a. TablesOK /\ RequestsOK /\ GuardSound /\ Admissions /\ DigestOK /\ MailsSound
  BY DEF MembershipInv
<1>b. u \in Live /\ UNCHANGED <<invite, identity, req, admitted, digestVars>>
  BY DEF Promote
<1>c. raced' = (raced \/ \E r \in Request : req[r].target = u /\ req[r].pc \in Guarded)
  BY DEF Promote
<1> DEFINE row == [user[u] EXCEPT !.manage = TRUE]
<1>1. /\ row \in UserRow /\ row.status = "live" /\ row.manage
      /\ row.sent = user[u].sent /\ row.email = user[u].email
  BY <1>a, <1>b DEF TablesOK, UserRow, Live
<1>2. user' = [user EXCEPT ![u] = row]
  BY <1>a DEF Promote, TablesOK
<1> HIDE DEF row
<1>3. \A v \in Live : v # u => user[v].email # row.email
  BY <1>1, <1>a, <1>b DEF TablesOK
<1>4. /\ user' \in [User -> UserRow]
      /\ \A v \in User : user'[v] = IF v = u THEN row ELSE user[v]
      /\ (\A v, w \in Live : v # w => user[v].email # user[w].email)'
      /\ Live' = Live /\ Managers' = Managers \cup {u}
  <2>1. Live \cup {u} = Live
    BY <1>b
  <2> QED
    BY <1>1, <1>2, <1>3, <1>a, <2>1, RowReplaced
<1>5. TablesOK'
  BY <1>4, <1>a, <1>b DEF TablesOK
<1>6. RequestsOK' /\ Admissions'
  BY <1>a, <1>b DEF RequestsOK, Carries, Admissions
<1>7. GuardSound'
  <2> SUFFICES ASSUME NEW x \in Request, req[x].pc \in Guarded
               PROVE  Snapshot(req[x])'
    BY <1>b DEF GuardSound, Snapshot
  <2>1. Snapshot(req[x]) /\ req[x].target \in User
    BY <1>a DEF GuardSound, RequestsOK, Carries
  <2>2. raced => raced'
    BY <1>c
  <2>3. req[x].target = u => raced'
    BY <1>c
  <2>4. user'[req[x].target].status # "unborn"
    BY <1>1, <1>4, <2>1 DEF Snapshot
  <2>5. req[x].target \in Managers' => req[x].target \in Managers \/ raced'
    BY <1>4, <2>3
  <2>6. req[x].pc \in Waiting /\ req[x].target \in Managers' => req[x].target \in req[x].seen \/ raced'
    BY <2>1, <2>2, <2>5 DEF Snapshot
  <2>7. req[x].pc \in Changing =>
          /\ req[x].held \subseteq Managers' /\ req[x].held # {req[x].target}
          /\ req[x].held = {} /\ req[x].target \in Managers' => raced'
    BY <1>4, <2>1, <2>2, <2>5 DEF Snapshot
  <2> QED
    BY <1>b, <2>4, <2>6, <2>7 DEF Snapshot
<1>8. DigestOK' /\ MailsSound'
  <2>1. \A v \in User : /\ user'[v].sent = user[v].sent
                        /\ user'[v].status = "unborn" => user[v].status = "unborn"
                        /\ user'[v].status # "deleted" => user[v].status # "deleted"
    BY <1>1, <1>4, <1>b DEF Live
  <2> QED
    BY <1>a, <1>b, <2>1, MailsKept
<1> QED
  BY <1>5, <1>6, <1>7, <1>8 DEF MembershipInv
-----------------------------------------------------------------------------
(* Admission. *)

\* An invitation that is stored, revoked or expires.
LEMMA Invites ==
  ASSUME MembershipInv, NEW i \in Invite, NEW st \in {"pending", "gone"}, NEW e \in Email \cup {None},
         invite' = [invite EXCEPT ![i] = [status |-> st, email |-> e]],
         invite[i].status # "accepted",
         RequestsOK', \A x \in Request : req'[x].pc \in Guarded => req'[x] = req[x],
         UNCHANGED <<user, identity, raced, admitted, digestVars>>
  PROVE  MembershipInv'
<1>a. TablesOK /\ RequestsOK /\ GuardSound /\ Admissions /\ DigestOK /\ MailsSound
  BY DEF MembershipInv
<1>1. [status |-> st, email |-> e] \in InviteRow
  BY DEF InviteRow
<1>2. /\ invite' \in [Invite -> InviteRow]
      /\ \A j \in Invite : invite'[j].status = IF j = i THEN st ELSE invite[j].status
  BY <1>a, <1>1 DEF TablesOK
<1>3. TablesOK'
  BY <1>a, <1>2 DEF TablesOK, Live
<1>4. Admissions'
  BY <1>a, <1>2 DEF Admissions
<1>5. Managers' = Managers
  BY DEF Managers, Live
<1>6. GuardSound'
  BY <1>a, <1>5, GuardKept
<1>7. DigestOK' /\ MailsSound'
  BY <1>a, MailsKept
<1> QED
  BY <1>3, <1>4, <1>6, <1>7 DEF MembershipInv

LEMMA CreateInvites ==
  ASSUME MembershipInv, NEW r \in Request, NEW i \in Invite, CreateInvite(r, i)
  PROVE  MembershipInv'
<1>1. RequestsOK /\ Done(r) /\ req[r].pc = "invite" /\ req[r].email \in Email
  BY DEF MembershipInv, RequestsOK, Carries, CreateInvite
<1>2. RequestsOK' /\ \A x \in Request : req'[x].pc \in Guarded => req'[x] = req[x]
  BY <1>1, DoneKeeps
<1>3. invite' = [invite EXCEPT ![i] = [status |-> "pending", email |-> req[r].email]]
  BY DEF CreateInvite
<1>4. invite[i].status # "accepted" /\ UNCHANGED <<user, identity, raced, admitted, digestVars>>
  BY DEF CreateInvite
<1> DEFINE e == req[r].email
<1>5. e \in Email \cup {None} /\ invite' = [invite EXCEPT ![i] = [status |-> "pending", email |-> e]]
  BY <1>1, <1>3
<1> HIDE DEF e
<1> QED
  BY <1>2, <1>4, <1>5, Invites

LEMMA InvitesEnd ==
  ASSUME MembershipInv, NEW i \in Invite, InviteEnds(i)
  PROVE  MembershipInv'
<1>1. invite[i] \in InviteRow
  BY DEF MembershipInv, TablesOK
<1> DEFINE e == invite[i].email
<1>2. e \in Email \cup {None} /\ [invite[i] EXCEPT !.status = "gone"] = [status |-> "gone", email |-> e]
  BY <1>1 DEF InviteRow
<1>3. invite' = [invite EXCEPT ![i] = [status |-> "gone", email |-> e]]
  BY <1>2 DEF InviteEnds, MembershipInv, TablesOK
<1>4. /\ invite[i].status # "accepted" /\ req' = req
      /\ UNCHANGED <<user, identity, raced, admitted, digestVars>>
  BY DEF InviteEnds
<1>5. RequestsOK' /\ \A x \in Request : req'[x].pc \in Guarded => req'[x] = req[x]
  BY <1>4 DEF MembershipInv, RequestsOK, Carries
<1> HIDE DEF e
<1> QED
  BY <1>2, <1>3, <1>4, <1>5, Invites

\* What a new account with a free address leaves as it should be (createUser).
LEMMA UserCreated ==
  ASSUME MembershipInv, NEW r \in Request, Done(r), NEW u \in User, user[u].status = "unborn",
         NEW e \in Email \cup {None}, ~Taken(e), NEW manage \in BOOLEAN,
         user' = [user EXCEPT ![u] = NewUser(e, manage)],
         UNCHANGED <<raced, digestVars>>
  PROVE  /\ user' \in [User -> UserRow] /\ Live' = Live \cup {u}
         /\ (\A v, w \in Live : v # w => user[v].email # user[w].email)'
         /\ RequestsOK' /\ GuardSound' /\ DigestOK' /\ MailsSound'
<1>a. TablesOK /\ RequestsOK /\ GuardSound /\ DigestOK /\ MailsSound
  BY DEF MembershipInv
<1> DEFINE row == NewUser(e, manage)
<1>1. row \in UserRow /\ row.status = "live" /\ row.email = e /\ ~row.sent
  BY DEF NewUser, UserRow
<1>2. user' = [user EXCEPT ![u] = row]
  OBVIOUS
<1> HIDE DEF row
<1>3. \A v \in Live : v # u => user[v].email # row.email
  BY <1>1 DEF Taken
<1>4. /\ user' \in [User -> UserRow]
      /\ \A v \in User : user'[v] = IF v = u THEN row ELSE user[v]
      /\ (\A v, w \in Live : v # w => user[v].email # user[w].email)'
      /\ Live' = Live \cup {u}
      /\ Managers' = IF row.manage THEN Managers \cup {u} ELSE Managers \ {u}
  BY <1>1, <1>2, <1>3, <1>a, RowReplaced
<1>5. RequestsOK' /\ \A x \in Request : req'[x].pc \in Guarded => req'[x] = req[x]
  BY <1>a, DoneKeeps
<1>6. u \notin Managers
  BY DEF Managers, Live
<1>7. Managers \subseteq Managers' /\ \A v \in Managers' : v \notin Managers => user[v].status = "unborn"
  BY <1>4, <1>6
<1>8. \A v \in User : user'[v].status = "unborn" => user[v].status = "unborn"
  BY <1>4
<1>9. GuardSound'
  BY <1>a, <1>5, <1>7, <1>8, GuardKept
<1>10. \A v \in User : /\ user'[v].sent = user[v].sent
                       /\ user'[v].status # "deleted" => user[v].status # "deleted"
  <2>1. user[u].sent = FALSE /\ row.sent = FALSE
    BY <1>1, <1>a DEF MailsSound, Mailed, TablesOK, UserRow
  <2> QED
    BY <1>4, <2>1
<1>11. DigestOK' /\ MailsSound'
  BY <1>a, <1>8, <1>10, MailsKept
<1> QED
  BY <1>4, <1>5, <1>9, <1>11

\* An invitation that is redeemed for a new account: it was pending, so it had
\* admitted nobody.
LEMMA Redeemed ==
  ASSUME MembershipInv, NEW i \in Invite, invite[i].status = "pending",
         invite' = [invite EXCEPT ![i].status = "accepted"],
         admitted' = [admitted EXCEPT ![i] = @ + 1]
  PROVE  /\ invite' \in [Invite -> InviteRow] /\ admitted' \in [Invite -> Nat]
         /\ Admissions'
<1>1. invite[i] \in InviteRow /\ admitted[i] = 0
  BY DEF MembershipInv, TablesOK, Admissions
<1> DEFINE row == [invite[i] EXCEPT !.status = "accepted"]
<1>2. row \in InviteRow /\ row.status = "accepted"
  BY <1>1 DEF InviteRow
<1>3. invite' = [invite EXCEPT ![i] = row]
  BY DEF MembershipInv, TablesOK
<1> HIDE DEF row
<1>4. /\ invite' \in [Invite -> InviteRow]
      /\ \A j \in Invite : invite'[j] = IF j = i THEN row ELSE invite[j]
  BY <1>2, <1>3 DEF MembershipInv, TablesOK
<1>5. /\ admitted' \in [Invite -> Nat]
      /\ \A j \in Invite : admitted'[j] = IF j = i THEN 1 ELSE admitted[j]
  BY <1>1 DEF MembershipInv, TablesOK
<1> QED
  BY <1>2, <1>4, <1>5 DEF MembershipInv, Admissions

LEMMA Accepts ==
  ASSUME MembershipInv, NEW r \in Request, NEW u \in User, AcceptInvite(r, u)
  PROVE  MembershipInv'
<1>a. TablesOK /\ RequestsOK
  BY DEF MembershipInv
<1> DEFINE i == req[r].invite
           e == invite[i].email
           first == (Live = {})
<1>1. i \in Invite /\ invite[i].status = "pending" /\ ~Taken(e) /\ user[u].status = "unborn"
  BY <1>a DEF RequestsOK, Carries, AcceptInvite, Claimable
<1>2. e \in Email \cup {None}
  BY <1>1, <1>a DEF TablesOK, InviteRow
<1>3. /\ user' = [user EXCEPT ![u] = NewUser(e, first)] /\ first \in BOOLEAN
      /\ invite' = [invite EXCEPT ![i].status = "accepted"]
      /\ admitted' = [admitted EXCEPT ![i] = @ + 1]
      /\ Done(r) /\ UNCHANGED <<raced, digestVars>> /\ identity' = identity
  BY DEF AcceptInvite
<1> HIDE DEF i, e, first
<1>4. /\ user' \in [User -> UserRow] /\ Live' = Live \cup {u}
      /\ (\A v, w \in Live : v # w => user[v].email # user[w].email)'
      /\ RequestsOK' /\ GuardSound' /\ DigestOK' /\ MailsSound'
  BY <1>1, <1>2, <1>3, UserCreated
<1>5. invite' \in [Invite -> InviteRow] /\ admitted' \in [Invite -> Nat] /\ Admissions'
  BY <1>1, <1>3, Redeemed
<1>6. TablesOK'
  BY <1>3, <1>4, <1>5, <1>a DEF TablesOK
<1> QED
  BY <1>4, <1>5, <1>6 DEF MembershipInv

\* The identities after a subject was linked to an account.
LEMMA LinkKeeps ==
  ASSUME TablesOK, NEW s \in Subject, NEW u \in User, Linked(s, u), u \in Live', Live \subseteq Live'
  PROVE  /\ identity' \in [Subject -> User \cup {None}]
         /\ \A t \in Subject : identity'[t] # None => identity'[t] \in Live'
<1>1. /\ identity' \in [Subject -> User \cup {None}]
      /\ \A t \in Subject : identity'[t] = IF t = s THEN u ELSE identity[t]
  BY DEF Linked, TablesOK
<1> QED
  BY <1>1 DEF TablesOK

\* An admission through a provider (FindOrCreateOAuthUser): an account that is
\* there is linked, or an invitation admits a new one.
LEMMA Admits ==
  ASSUME MembershipInv, NEW r \in Request, NEW u \in User, NEW i \in Invite, OAuthAdmit(r, u, i)
  PROVE  MembershipInv'
<1>a. TablesOK /\ RequestsOK /\ GuardSound /\ Admissions /\ DigestOK /\ MailsSound
  BY DEF MembershipInv
<1> DEFINE s == req[r].subject
           e == req[r].email
<1>1. /\ s \in Subject /\ e \in Email /\ Linked(s, u) /\ Done(r)
      /\ UNCHANGED <<raced, digestVars>>
  BY <1>a DEF RequestsOK, Carries, OAuthAdmit
<1>2. CASE OAuthWinner(r) # {}
  <2>1. u \in OAuthWinner(r) /\ UNCHANGED <<user, invite, admitted>>
    BY <1>2 DEF OAuthAdmit
  <2>2. u \in Live
    BY <1>1, <1>a, <2>1 DEF OAuthWinner, TablesOK
  <2>3. Live' = Live /\ Managers' = Managers
    BY <2>1 DEF Live, Managers
  <2>4. TablesOK'
    <3> HIDE DEF s
    <3>1. /\ identity' \in [Subject -> User \cup {None}]
          /\ \A t \in Subject : identity'[t] # None => identity'[t] \in Live'
      BY <1>1, <1>a, <2>2, <2>3, LinkKeeps
    <3> QED
      BY <1>a, <2>1, <2>3, <3>1 DEF TablesOK
  <2>5. RequestsOK' /\ \A x \in Request : req'[x].pc \in Guarded => req'[x] = req[x]
    BY <1>1, <1>a, DoneKeeps
  <2>6. GuardSound'
    BY <1>1, <1>a, <2>1, <2>3, <2>5, GuardKept
  <2>7. DigestOK' /\ MailsSound'
    BY <1>1, <1>a, <2>1, MailsKept
  <2>8. Admissions'
    BY <1>a, <2>1 DEF Admissions
  <2> QED
    BY <2>4, <2>5, <2>6, <2>7, <2>8 DEF MembershipInv
<1>3. CASE OAuthWinner(r) = {}
  <2>1. /\ i \in Invited(e) /\ user[u].status = "unborn"
        /\ user' = [user EXCEPT ![u] = NewUser(e, FALSE)]
        /\ invite' = [invite EXCEPT ![i].status = "accepted"]
        /\ admitted' = [admitted EXCEPT ![i] = @ + 1]
    BY <1>3 DEF OAuthAdmit
  <2>2. ~Taken(e) /\ invite[i].status = "pending"
    BY <1>3, <2>1 DEF OAuthWinner, Taken, Invited
  <2> HIDE DEF s, e
  <2>3. /\ user' \in [User -> UserRow] /\ Live' = Live \cup {u}
        /\ (\A v, w \in Live : v # w => user[v].email # user[w].email)'
        /\ RequestsOK' /\ GuardSound' /\ DigestOK' /\ MailsSound'
    BY <1>1, <2>1, <2>2, UserCreated
  <2>4. invite' \in [Invite -> InviteRow] /\ admitted' \in [Invite -> Nat] /\ Admissions'
    BY <2>1, <2>2, Redeemed
  <2>5. /\ identity' \in [Subject -> User \cup {None}]
        /\ \A t \in Subject : identity'[t] # None => identity'[t] \in Live'
    BY <1>1, <1>a, <2>3, LinkKeeps
  <2>6. TablesOK'
    BY <2>3, <2>4, <2>5 DEF TablesOK
  <2> QED
    BY <2>3, <2>4, <2>6 DEF MembershipInv
<1> QED
  BY <1>2, <1>3

\* "users link-sso".
LEMMA Links ==
  ASSUME MembershipInv, NEW s \in Subject, NEW u \in User, LinkOAuthIdentity(s, u)
  PROVE  MembershipInv'
<1>a. TablesOK /\ RequestsOK /\ GuardSound /\ Admissions /\ DigestOK /\ MailsSound
  BY DEF MembershipInv
<1>1. /\ u \in Live /\ Linked(s, u)
      /\ UNCHANGED <<user, invite, req, raced, admitted, digestVars>>
  BY DEF LinkOAuthIdentity
<1>2. Live' = Live /\ Managers' = Managers
  BY <1>1 DEF Live, Managers
<1>3. /\ identity' \in [Subject -> User \cup {None}]
      /\ \A t \in Subject : identity'[t] # None => identity'[t] \in Live'
  BY <1>1, <1>2, <1>a, LinkKeeps
<1>4. TablesOK'
  BY <1>a, <1>1, <1>2, <1>3 DEF TablesOK
<1>5. RequestsOK' /\ GuardSound'
  BY <1>a, <1>1, <1>2 DEF RequestsOK, Carries, GuardSound, Snapshot
<1>6. Admissions'
  BY <1>a, <1>1 DEF Admissions
<1>7. DigestOK' /\ MailsSound'
  BY <1>a, <1>1, MailsKept
<1> QED
  BY <1>4, <1>5, <1>6, <1>7 DEF MembershipInv

\* "users create".
LEMMA Creates ==
  ASSUME MembershipInv, NEW r \in Request, NEW u \in User, CreateAdminUser(r, u)
  PROVE  MembershipInv'
<1>a. TablesOK /\ RequestsOK /\ Admissions
  BY DEF MembershipInv
<1> DEFINE e == req[r].email
<1>1. e \in Email /\ ~Taken(e) /\ user[u].status = "unborn" /\ Done(r)
  BY <1>a DEF RequestsOK, Carries, CreateAdminUser
<1>2. user' = [user EXCEPT ![u] = NewUser(e, TRUE)] /\ UNCHANGED <<raced, digestVars>>
  BY DEF CreateAdminUser
<1>3. UNCHANGED <<invite, identity, admitted>>
  BY DEF CreateAdminUser
<1> HIDE DEF e
<1>4. /\ user' \in [User -> UserRow] /\ Live' = Live \cup {u}
      /\ (\A v, w \in Live : v # w => user[v].email # user[w].email)'
      /\ RequestsOK' /\ GuardSound' /\ DigestOK' /\ MailsSound'
  BY <1>1, <1>2, UserCreated
<1>5. TablesOK' /\ Admissions'
  BY <1>3, <1>4, <1>a DEF TablesOK, Admissions
<1> QED
  BY <1>4, <1>5 DEF MembershipInv

\* A row that keeps its status and its permission (a new address, a digest
\* turned on or off).
LEMMA RowEdited ==
  ASSUME MembershipInv, NEW u \in User, NEW row \in UserRow,
         user' = [user EXCEPT ![u] = row],
         row.status = user[u].status, row.manage = user[u].manage, row.sent = user[u].sent,
         row.status = "live" => \A v \in Live : v # u => user[v].email # row.email,
         RequestsOK', \A x \in Request : req'[x].pc \in Guarded => req'[x] = req[x],
         UNCHANGED <<invite, identity, raced, admitted, digestVars>>
  PROVE  MembershipInv'
<1>a. TablesOK /\ RequestsOK /\ GuardSound /\ Admissions /\ DigestOK /\ MailsSound
  BY DEF MembershipInv
<1>1. /\ user' \in [User -> UserRow]
      /\ \A v \in User : user'[v] = IF v = u THEN row ELSE user[v]
      /\ (\A v, w \in Live : v # w => user[v].email # user[w].email)'
      /\ Live' = IF row.status = "live" THEN Live \cup {u} ELSE Live \ {u}
      /\ Managers' = IF row.status = "live" /\ row.manage
                     THEN Managers \cup {u} ELSE Managers \ {u}
  BY <1>a, RowReplaced
<1>2. Live' = Live
  BY <1>1 DEF Live
<1>3. Managers' = Managers
  BY <1>1 DEF Live, Managers
<1>4. TablesOK' /\ Admissions'
  BY <1>a, <1>1, <1>2 DEF TablesOK, Admissions
<1>5. \A v \in User : /\ user'[v].sent = user[v].sent
                      /\ user'[v].status = "unborn" => user[v].status = "unborn"
                      /\ user'[v].status # "deleted" => user[v].status # "deleted"
  BY <1>1
<1>6. GuardSound'
  BY <1>a, <1>3, <1>5, GuardKept
<1>7. DigestOK' /\ MailsSound'
  BY <1>a, <1>5, MailsKept
<1> QED
  BY <1>4, <1>6, <1>7 DEF MembershipInv

\* The UPDATE of handleUpdateMe, which the unique index may refuse.
LEMMA ProfileUpdates ==
  ASSUME MembershipInv, NEW r \in Request, UpdateUserProfile(r)
  PROVE  MembershipInv'
<1>a. TablesOK /\ RequestsOK
  BY DEF MembershipInv
<1> DEFINE u == req[r].target
           e == req[r].email
<1>1. u \in User /\ e \in Email /\ Done(r)
  BY <1>a DEF RequestsOK, Carries, UpdateUserProfile
<1>2. UNCHANGED <<invite, identity, raced, admitted, digestVars>>
  BY DEF UpdateUserProfile
<1>3. user' = IF u \in Live /\ ~Taken(e) THEN [user EXCEPT ![u].email = e] ELSE user
  BY DEF UpdateUserProfile
<1>4. CASE u \in Live /\ ~Taken(e)
  <2> DEFINE row == [user[u] EXCEPT !.email = e]
  <2>1. /\ row \in UserRow /\ row.status = user[u].status /\ row.manage = user[u].manage
        /\ row.sent = user[u].sent /\ row.email = e
    BY <1>1, <1>a DEF TablesOK, UserRow
  <2>2. user' = [user EXCEPT ![u] = row]
    BY <1>3, <1>4, <1>a DEF TablesOK
  <2>3. \A v \in Live : user[v].email # e
    BY <1>4 DEF Taken
  <2>4. RequestsOK' /\ \A x \in Request : req'[x].pc \in Guarded => req'[x] = req[x]
    BY <1>1, <1>a, DoneKeeps
  <2> HIDE DEF row, u, e
  <2> QED
    BY <1>1, <1>2, <2>1, <2>2, <2>3, <2>4, RowEdited
<1>5. CASE ~(u \in Live /\ ~Taken(e))
  <2>1. UNCHANGED <<tables, raced, admitted, digestVars>>
    BY <1>2, <1>3, <1>5 DEF tables
  <2> QED
    BY <1>1, <2>1, Refused
<1> QED
  BY <1>4, <1>5

\* UpdateUserWeeklyDigest.
LEMMA Toggles ==
  ASSUME MembershipInv, NEW u \in User, ToggleDigest(u)
  PROVE  MembershipInv'
<1>a. TablesOK /\ RequestsOK
  BY DEF MembershipInv
<1> DEFINE row == [user[u] EXCEPT !.digest = ~user[u].digest]
<1>1. /\ row \in UserRow /\ row.status = user[u].status /\ row.manage = user[u].manage
      /\ row.sent = user[u].sent /\ row.email = user[u].email
  BY <1>a DEF TablesOK, UserRow
<1>2. user' = [user EXCEPT ![u] = row]
  BY <1>a DEF ToggleDigest, TablesOK
<1>3. req' = req /\ UNCHANGED <<invite, identity, raced, admitted, digestVars>>
  BY DEF ToggleDigest
<1>4. RequestsOK' /\ \A x \in Request : req'[x].pc \in Guarded => req'[x] = req[x]
  BY <1>3, <1>a DEF RequestsOK, Carries
<1>5. u \in Live
  BY DEF ToggleDigest
<1>6. \A v \in Live : v # u => user[v].email # row.email
  BY <1>1, <1>5, <1>a DEF TablesOK
<1> HIDE DEF row
<1> QED
  BY <1>1, <1>2, <1>3, <1>4, <1>6, RowEdited
-----------------------------------------------------------------------------
(* The weekly digest. *)

\* A step of the digest job leaves accounts, invitations and requests alone.
LEMMA DigestOnly ==
  ASSUME MembershipInv, UNCHANGED <<tables, req, raced, admitted>>, DigestOK', MailsSound'
  PROVE  MembershipInv'
<1>1. UNCHANGED <<user, invite, identity, req, raced, admitted>>
  BY DEF tables
<1> QED
  BY <1>1 DEF MembershipInv, TablesOK, RequestsOK, Carries, GuardSound, Snapshot, Admissions,
              Managers, Live

\* The pass of an hour: whom it lists has no digest yet but for lost marks, and
\* in the last hour everyone who wants one is listed or has it, since every
\* slot has been reached by then.
LEMMA Ticks ==
  ASSUME MembershipInv, DigestTick
  PROVE  MembershipInv'
<1>a. TablesOK /\ DigestOK /\ MailsSound
  BY DEF MembershipInv
<1>b. /\ UNCHANGED <<tables, req, raced, admitted>>
      /\ UNCHANGED <<user, hour, sending, mails, unmarked>>
      /\ sending = None /\ todo = {}
      /\ todo' = {u \in Live : user[u].digest /\ ~user[u].sent /\ SlotReached(u)}
      /\ owed' = IF hour = Hours - 1 THEN {u \in Live : user[u].digest} ELSE {}
  BY DEF DigestTick, tables
<1>1. DigestOK'
  BY <1>a, <1>b DEF DigestOK, Live
<1>2. \A u \in User : u \in owed' => u \in todo' \/ user[u].sent
  <2>1. \A u \in User : hour = Hours - 1 => SlotReached(u)
    BY MembershipAssumption DEF SlotReached
  <2> QED
    BY <1>b, <2>1
<1>3. \A u \in User : u \in todo' => user[u].status = "live" /\ ~user[u].sent
  BY <1>b DEF Live
<1>4. MailsSound'
  <2> SUFFICES ASSUME NEW u \in User PROVE Mailed(u)'
    BY DEF MailsSound
  <2>1. Mailed(u) /\ u # sending
    BY <1>a, <1>b, MembershipAssumption DEF MailsSound
  <2> QED
    BY <1>b, <1>2, <1>3, <2>1 DEF Mailed
<1> QED
  BY <1>1, <1>4, <1>b, DigestOnly

\* The list or the report that cannot be read, and a mail that is refused: the
\* pass has failed and owes nothing.
LEMMA Fails ==
  ASSUME MembershipInv, DigestFails \/ \E u \in User : DigestSendFails(u)
  PROVE  MembershipInv'
<1>a. DigestOK /\ MailsSound
  BY DEF MembershipInv
<1>b. /\ UNCHANGED <<tables, req, raced, admitted>>
      /\ UNCHANGED <<user, hour, sending, mails, unmarked>>
      /\ sending = None /\ owed' = {} /\ todo' \subseteq todo
  BY DEF DigestFails, DigestSendFails, tables
<1>1. DigestOK'
  BY <1>a, <1>b DEF DigestOK
<1>2. MailsSound'
  <2> SUFFICES ASSUME NEW u \in User PROVE Mailed(u)'
    BY DEF MailsSound
  <2>1. Mailed(u) /\ u # sending
    BY <1>a, <1>b, MembershipAssumption DEF MailsSound
  <2> QED
    BY <1>b, <2>1 DEF Mailed
<1> QED
  BY <1>1, <1>2, <1>b, DigestOnly

\* The mail leaves; until it is marked the job is at this user.
LEMMA Sends ==
  ASSUME MembershipInv, NEW u \in User, DigestSend(u)
  PROVE  MembershipInv'
<1>a. DigestOK /\ MailsSound
  BY DEF MembershipInv
<1>b. /\ UNCHANGED <<tables, req, raced, admitted>>
      /\ UNCHANGED <<user, hour, todo, unmarked, owed>>
      /\ sending = None /\ sending' = u /\ u \in todo
      /\ mails' = [mails EXCEPT ![u] = @ + 1]
  BY DEF DigestSend, tables
<1>c. mails \in [User -> Nat] /\ unmarked \in [User -> Nat]
  BY <1>a DEF DigestOK
<1>1. mails' \in [User -> Nat] /\ \A v \in User : mails'[v] = IF v = u THEN mails[u] + 1 ELSE mails[v]
  BY <1>b, <1>c
<1>2. DigestOK'
  BY <1>a, <1>b, <1>1 DEF DigestOK
<1>3. MailsSound'
  <2> SUFFICES ASSUME NEW v \in User PROVE Mailed(v)'
    BY DEF MailsSound
  <2>1. Mailed(v) /\ v # sending
    BY <1>a, <1>b, MembershipAssumption DEF MailsSound
  <2>2. mails[v] \in Nat /\ unmarked[v] \in Nat
    BY <1>c
  <2>3. CASE v = u
    <3>1. mails'[v] = mails[v] + 1 /\ mails[v] <= unmarked[v] /\ user[v].status # "unborn"
      BY <1>1, <1>b, <2>1, <2>3 DEF Mailed
    <3> QED
      BY <1>b, <2>1, <2>2, <2>3, <3>1 DEF Mailed
  <2>4. CASE v # u
    BY <1>1, <1>b, <2>1, <2>4 DEF Mailed
  <2> QED
    BY <2>3, <2>4
<1> QED
  BY <1>2, <1>3, <1>b, DigestOnly

\* MarkDigestSent: the row remembers the digest, if it is there still.
LEMMA Marks ==
  ASSUME MembershipInv, DigestMark
  PROVE  MembershipInv'
<1>a. TablesOK /\ RequestsOK /\ GuardSound /\ Admissions /\ DigestOK /\ MailsSound
  BY DEF MembershipInv
<1> DEFINE u == sending
<1>b. /\ UNCHANGED <<invite, identity, req, raced, admitted, hour, mails, unmarked, owed>>
      /\ u \in User /\ user' = Marked(u) /\ todo' = todo \ {u} /\ sending' = None
  BY <1>a DEF DigestMark, DigestOK
<1>1. PICK row \in UserRow :
        /\ user' = [user EXCEPT ![u] = row]
        /\ row.status = user[u].status /\ row.manage = user[u].manage
        /\ row.email = user[u].email
        /\ user[u].status = "live" => row.sent = TRUE
        /\ user[u].status # "live" => row.sent = user[u].sent
  <2>1. user[u] \in UserRow /\ user = [user EXCEPT ![u] = user[u]]
    BY <1>a, <1>b DEF TablesOK
  <2>2. CASE u \in Live
    <3> DEFINE row == [user[u] EXCEPT !.sent = TRUE]
    <3>1. /\ row \in UserRow /\ row.status = user[u].status /\ row.manage = user[u].manage
          /\ row.email = user[u].email /\ row.sent = TRUE
      BY <2>1 DEF UserRow
    <3>2. user' = [user EXCEPT ![u] = row]
      BY <1>a, <1>b, <2>2 DEF Marked, TablesOK
    <3>3. user[u].status = "live"
      BY <2>2 DEF Live
    <3> HIDE DEF row
    <3> QED
      BY <3>1, <3>2, <3>3
  <2>3. CASE u \notin Live
    <3>1. user[u].status # "live" /\ user' = user
      BY <1>b, <2>3 DEF Marked, Live
    <3> QED
      BY <2>1, <3>1
  <2> QED
    BY <2>2, <2>3
<1>2. row.status = "live" => \A v \in Live : v # u => user[v].email # row.email
  BY <1>1, <1>a, <1>b DEF TablesOK, Live
<1>3. /\ user' \in [User -> UserRow]
      /\ \A v \in User : user'[v] = IF v = u THEN row ELSE user[v]
      /\ (\A v, w \in Live : v # w => user[v].email # user[w].email)'
      /\ Live' = IF row.status = "live" THEN Live \cup {u} ELSE Live \ {u}
      /\ Managers' = IF row.status = "live" /\ row.manage
                     THEN Managers \cup {u} ELSE Managers \ {u}
  <2> HIDE DEF u
  <2> QED
    BY <1>a, <1>b, <1>1, <1>2, RowReplaced
<1>4. Live' = Live
  BY <1>1, <1>b, <1>3 DEF Live
<1>5. Managers' = Managers
  BY <1>1, <1>b, <1>3 DEF Live, Managers
<1>6. TablesOK' /\ Admissions' /\ RequestsOK'
  BY <1>a, <1>b, <1>3, <1>4 DEF TablesOK, Admissions, RequestsOK, Carries
<1>7. GuardSound'
  BY <1>a, <1>b, <1>1, <1>3, <1>5, <1>6, GuardKept
<1>8. DigestOK'
  BY <1>a, <1>b DEF DigestOK
<1>9. MailsSound'
  <2> SUFFICES ASSUME NEW v \in User PROVE Mailed(v)'
    BY DEF MailsSound
  <2>1. Mailed(v) /\ Mailed(u) /\ user[v] \in UserRow
    BY <1>a, <1>b DEF MailsSound, TablesOK
  <2>2. CASE v = u
    <3>1. user'[v] = row /\ v \notin todo' /\ sending' # v
      BY <1>b, <1>3, <2>2, MembershipAssumption
    <3>2. user[v].status # "unborn" /\ mails[v] >= 1 /\ mails[v] <= 1 + unmarked[v]
      BY <2>1, <2>2 DEF Mailed
    <3>3. user[v].status = "deleted" \/ row.sent
      BY <1>1, <2>1, <2>2, <3>2 DEF UserRow
    <3> QED
      BY <1>1, <1>b, <2>2, <3>1, <3>2, <3>3 DEF Mailed
  <2>3. CASE v # u
    <3>1. user'[v] = user[v] /\ (v \in todo' <=> v \in todo) /\ sending # v /\ sending' # v
      BY <1>b, <1>3, <2>3, MembershipAssumption
    <3> QED
      BY <1>b, <2>1, <3>1 DEF Mailed
  <2> QED
    BY <2>2, <2>3
<1> QED
  BY <1>6, <1>7, <1>8, <1>9 DEF MembershipInv

\* A mark that fails, or a crash between the mail and its mark: the second copy
\* this may lead to is accounted for.
LEMMA MarkLost ==
  ASSUME MembershipInv, DigestMarkFails \/ DigestCrash
  PROVE  MembershipInv'
<1>a. DigestOK /\ MailsSound
  BY DEF MembershipInv
<1>b. /\ UNCHANGED <<tables, req, raced, admitted>> /\ UNCHANGED <<user, hour, mails>>
      /\ todo' \subseteq todo \ {sending} /\ sending' = None
      /\ \/ owed' = {}
         \/ owed' = owed /\ todo' = todo \ {sending}
      /\ unmarked' = IF sending = None THEN unmarked ELSE [unmarked EXCEPT ![sending] = @ + 1]
  <2>1. CASE DigestMarkFails
    BY <2>1 DEF DigestMarkFails, tables
  <2>2. CASE DigestCrash
    BY <2>2 DEF DigestCrash, tables
  <2> QED
    BY <2>1, <2>2
<1>c. mails \in [User -> Nat] /\ unmarked \in [User -> Nat]
  BY <1>a DEF DigestOK
<1>1. /\ unmarked' \in [User -> Nat]
      /\ \A v \in User : unmarked'[v] = IF v = sending THEN unmarked[v] + 1 ELSE unmarked[v]
  <2>1. CASE sending = None
    BY <1>b, <1>c, <2>1, MembershipAssumption
  <2>2. CASE sending # None
    BY <1>a, <1>b, <1>c, <2>2 DEF DigestOK
  <2> QED
    BY <2>1, <2>2
<1>2. DigestOK'
  BY <1>a, <1>b, <1>1 DEF DigestOK
<1>3. MailsSound'
  <2> SUFFICES ASSUME NEW v \in User PROVE Mailed(v)'
    BY DEF MailsSound
  <2>1. Mailed(v) /\ sending' # v
    BY <1>a, <1>b, MembershipAssumption DEF MailsSound
  <2>2. mails[v] \in Nat /\ unmarked[v] \in Nat
    BY <1>c
  <2>3. v \in owed' => v \in todo' \/ mails[v] >= 1
    BY <1>b, <2>1 DEF Mailed
  <2>4. mails[v] <= 1 + unmarked'[v] /\ unmarked[v] <= unmarked'[v]
    BY <1>1, <2>1, <2>2 DEF Mailed
  <2>5. v = sending => mails[v] <= unmarked'[v]
    BY <1>1, <2>1, <2>2 DEF Mailed
  <2>6. v \in todo' => v \in todo /\ v # sending
    BY <1>b
  <2>7. v # sending => unmarked'[v] = unmarked[v]
    BY <1>1
  <2> QED
    BY <1>b, <2>1, <2>3, <2>4, <2>5, <2>6, <2>7 DEF Mailed
<1> QED
  BY <1>2, <1>3, <1>b, DigestOnly

\* The job is started again, or an hour passes between two passes.
LEMMA Waits ==
  ASSUME MembershipInv, DigestRestart \/ HourPasses
  PROVE  MembershipInv'
<1>a. DigestOK /\ MailsSound
  BY DEF MembershipInv
<1>b. /\ UNCHANGED <<tables, req, raced, admitted>>
      /\ UNCHANGED <<user, todo, sending, mails, unmarked, owed>>
      /\ \/ hour' = hour
         \/ hour < Hours /\ hour' = hour + 1
  <2>1. CASE DigestRestart
    BY <2>1 DEF DigestRestart, tables
  <2>2. CASE HourPasses
    BY <2>2 DEF HourPasses, tables
  <2> QED
    BY <2>1, <2>2
<1>1. DigestOK'
  BY <1>a, <1>b, MembershipAssumption DEF DigestOK
<1>2. MailsSound'
  BY <1>a, <1>b DEF MailsSound, Mailed
<1> QED
  BY <1>1, <1>2, <1>b, DigestOnly

-----------------------------------------------------------------------------
(* The theorems. *)

\* An instance starts with users that "users create" made and nothing else.
LEMMA MembershipInvInit == Init => MembershipInv
<1> SUFFICES ASSUME Init PROVE MembershipInv
  OBVIOUS
<1>1. PICK first \in SUBSET User, e \in [User -> Email] :
        /\ \A u, v \in first : u # v => e[u] # e[v]
        /\ user = [u \in User |->
             [status |-> IF u \in first THEN "live" ELSE "unborn",
              email |-> IF u \in first THEN e[u] ELSE None,
              manage |-> u \in first, digest |-> u \in first, sent |-> FALSE]]
  BY DEF Init
<1>2. user \in [User -> UserRow]
  BY <1>1 DEF UserRow
<1>3. Live = first
  BY <1>1 DEF Live
<1>4. \A u, v \in Live : u # v => user[u].email # user[v].email
  <2>1. \A u \in first : user[u].email = e[u]
    BY <1>1
  <2> QED
    BY <1>1, <1>3, <2>1
<1>5. TablesOK /\ Admissions
  BY <1>2, <1>4 DEF Init, TablesOK, InviteRow, Admissions
<1>6. RequestsOK /\ GuardSound
  <2>1. req \in [Request -> ReqRec] /\ \A r \in Request : req[r] = Idle
    BY IdleFits DEF Init
  <2> QED
    BY <2>1, IdleFits DEF RequestsOK, GuardSound
<1>7. DigestOK /\ MailsSound
  <2>1. \A u \in User : ~user[u].sent
    BY <1>1
  <2>2. /\ hour = 0 /\ todo = {} /\ sending = None /\ owed = {}
        /\ mails = [u \in User |-> 0] /\ unmarked = [u \in User |-> 0]
    BY DEF Init
  <2> QED
    BY <2>1, <2>2, MembershipAssumption DEF DigestOK, MailsSound, Mailed
<1> QED
  BY <1>5, <1>6, <1>7 DEF MembershipInv

\* Every step keeps the invariant.
LEMMA MembershipInvStep == MembershipInv /\ [Next]_vars => MembershipInv'
<1> SUFFICES ASSUME MembershipInv, [Next]_vars PROVE MembershipInv'
  OBVIOUS
<1>1. CASE UNCHANGED vars
  BY <1>1 DEF vars, tables, digestVars, MembershipInv, TablesOK, RequestsOK, Carries,
              GuardSound, Snapshot, Admissions, DigestOK, MailsSound, Mailed, Managers, Live
<1>2. ASSUME NEW r \in Request, DeleteUser(r) PROVE MembershipInv'
  BY <1>2, GuardLocks, GuardedChanges DEF DeleteUser
<1>3. ASSUME NEW r \in Request, handleDeleteUser(r) PROVE MembershipInv'
  BY <1>3, GuardReads DEF handleDeleteUser, Waiting
<1>4. ASSUME NEW r \in Request, handleUpdateUserPermissions(r) PROVE MembershipInv'
  BY <1>4, GuardReads, Promotes DEF handleUpdateUserPermissions, Waiting
<1>5. ASSUME NEW r \in Request, handleCreateInvite(r) \/ usersSendInviteCmd(r)
      PROVE  MembershipInv'
  BY <1>5, InviteReads, CreateInvites DEF handleCreateInvite, usersSendInviteCmd
<1>6. ASSUME NEW r \in Request, handleAcceptInvite(r) PROVE MembershipInv'
  BY <1>6, AcceptReads, Accepts, Refused DEF handleAcceptInvite, AcceptRefused
<1>7. ASSUME NEW r \in Request, handleOAuthCallback(r) PROVE MembershipInv'
  BY <1>7, CallbackReads, Admits, Refused DEF handleOAuthCallback, OAuthRefused
<1>8. ASSUME NEW r \in Request, usersCreateCmd(r) PROVE MembershipInv'
  BY <1>8, CreateReads, Creates, Refused DEF usersCreateCmd, CreateRefused
<1>9. ASSUME NEW r \in Request, handleUpdateMe(r) PROVE MembershipInv'
  BY <1>9, EmailReads, ProfileUpdates DEF handleUpdateMe
<1>10. CASE handleRevokeInvite
  BY <1>10, InvitesEnd DEF handleRevokeInvite
<1>11. CASE usersLinkSSOCmd
  BY <1>11, Links DEF usersLinkSSOCmd
<1>12. CASE Digest
  <2>1. CASE DigestTick
    BY <2>1, Ticks
  <2>2. CASE sendToUsers
    BY <2>2, Fails, Sends, Marks, MarkLost DEF sendToUsers
  <2>3. CASE DigestCrash
    BY <2>3, MarkLost
  <2>4. CASE DigestRestart \/ HourPasses
    BY <2>4, Waits
  <2> QED
    BY <1>12, <2>1, <2>2, <2>3, <2>4 DEF Digest
<1>13. ASSUME NEW u \in User, ToggleDigest(u) PROVE MembershipInv'
  BY <1>13, Toggles
<1> QED
  BY <1>1, <1>2, <1>3, <1>4, <1>5, <1>6, <1>7, <1>8, <1>9, <1>10, <1>11, <1>12, <1>13 DEF Next

\* Accounts, invitations, identities, guards and mailings stay consistent with
\* each other through every interleaving (internal/storage, internal/digest).
THEOREM MembershipInvHolds == Spec => []MembershipInv
BY MembershipInvInit, MembershipInvStep, PTL DEF Spec

\* The type invariant of the run's specification follows.
THEOREM MembershipTypeCorrect == Spec => []TypeOK
<1>1. MembershipInv => TypeOK
  BY DEF MembershipInv, TablesOK, DigestOK, TypeOK
<1> QED
  BY <1>1, MembershipInvHolds, PTL

\* Nobody has a second copy of the digest unless a mark was lost, and the last
\* hour's pass leaves nobody without (sendSlot, sendToUsers), for any number of
\* users, any slots and any number of faults.
THEOREM DigestOncePerWeekHolds == Spec => []DigestOncePerWeek
<1>1. MembershipInv => DigestOncePerWeek
  BY DEF MembershipInv, DigestOK, MailsSound, Mailed, DigestOncePerWeek
<1> QED
  BY <1>1, MembershipInvHolds, PTL

\* A step that leaves nobody with the permission was overtaken by a promotion:
\* the request that takes the last manager away holds the rows of others who
\* would be managers still, or holds none and was overtaken.
LEMMA ManagerStays ==
  ASSUME MembershipInv, [Next]_vars, Managers # {}
  PROVE  Managers' # {} \/ raced
<1>1. CASE \E r \in Request : GuardedChange(r)
  <2>1. PICK r \in Request : GuardedChange(r)
    BY <1>1
  <2> DEFINE u == req[r].target
  <2>2. /\ req[r].pc \in Changing /\ Snapshot(req[r]) /\ u \in User
        /\ user \in [User -> UserRow]
    BY <2>1 DEF MembershipInv, TablesOK, RequestsOK, Carries, GuardSound, GuardedChange,
                Guarded, Changing
  <2>3. \A v \in User : v # u => user'[v] = user[v]
    BY <2>1, <2>2 DEF GuardedChange, Deleted
  <2>4. \A v \in Managers : v # u => v \in Managers'
    BY <2>3 DEF Managers, Live
  <2>5. CASE Managers' = {}
    <3>1. Managers = {u}
      BY <2>4, <2>5
    <3>2. req[r].held = {}
      BY <2>2, <3>1 DEF Snapshot
    <3> QED
      BY <2>2, <3>1, <3>2 DEF Snapshot
  <2> QED
    BY <2>5
<1>2. CASE ~\E r \in Request : GuardedChange(r)
  <2>1. user \in [User -> UserRow]
    BY DEF MembershipInv, TablesOK
  <2>2. \/ user' = user
        \/ \E u \in User : Promote(u) \/ ToggleDigest(u)
        \/ DigestMark
        \/ \E r \in Request :
             UpdateUserProfile(r) \/ \E u \in User : AcceptInvite(r, u) \/ CreateAdminUser(r, u)
        \/ \E r \in Request, u \in User, i \in Invite : OAuthAdmit(r, u, i)
    BY <1>2
    DEF Next, vars, tables, DeleteUser, GuardLock, handleDeleteUser, GuardBegin,
        handleUpdateUserPermissions, handleCreateInvite, InviteRead, CreateInvite,
        usersSendInviteCmd, handleAcceptInvite, AcceptRead, AcceptRefused, handleOAuthCallback,
        OAuthLookup, OAuthRefused, usersCreateCmd, CreateRead, CreateRefused, handleUpdateMe,
        EmailRead, handleRevokeInvite, InviteEnds, usersLinkSSOCmd, LinkOAuthIdentity, Digest,
        DigestTick, sendToUsers, DigestFails, DigestMarkFails, DigestSend, DigestSendFails,
        DigestCrash, DigestRestart, HourPasses
  <2>3. \A v \in User : user[v].status = "live" /\ user[v].manage =>
                          user'[v].status = "live" /\ user'[v].manage
    <3>1. CASE user' = user
      BY <3>1
    <3>2. ASSUME NEW u \in User, Promote(u) \/ ToggleDigest(u)
          PROVE  \A v \in User : user[v].status = "live" /\ user[v].manage =>
                                   user'[v].status = "live" /\ user'[v].manage
      BY <2>1, <3>2 DEF Promote, ToggleDigest, UserRow
    <3>3. CASE DigestMark
      BY <2>1, <3>3 DEF DigestMark, Marked, UserRow
    <3>4. ASSUME NEW r \in Request, UpdateUserProfile(r)
          PROVE  \A v \in User : user[v].status = "live" /\ user[v].manage =>
                                   user'[v].status = "live" /\ user'[v].manage
      BY <2>1, <3>4 DEF UpdateUserProfile, UserRow
    <3>5. ASSUME NEW u \in User, NEW row, user[u].status = "unborn", user' = [user EXCEPT ![u] = row]
          PROVE  \A v \in User : user[v].status = "live" /\ user[v].manage =>
                                   user'[v].status = "live" /\ user'[v].manage
      BY <2>1, <3>5
    <3>6. ASSUME NEW r \in Request, NEW u \in User, AcceptInvite(r, u) \/ CreateAdminUser(r, u)
          PROVE  \A v \in User : user[v].status = "live" /\ user[v].manage =>
                                   user'[v].status = "live" /\ user'[v].manage
      BY <3>5, <3>6 DEF AcceptInvite, CreateAdminUser
    <3>7. ASSUME NEW r \in Request, NEW u \in User, NEW i \in Invite, OAuthAdmit(r, u, i)
          PROVE  \A v \in User : user[v].status = "live" /\ user[v].manage =>
                                   user'[v].status = "live" /\ user'[v].manage
      BY <3>1, <3>5, <3>7 DEF OAuthAdmit
    <3> QED
      BY <2>2, <3>1, <3>2, <3>3, <3>4, <3>6, <3>7
  <2> QED
    BY <2>3 DEF Managers, Live
<1> QED
  BY <1>1, <1>2

\* However demotions and deletions interleave, the last one who can manage users
\* is never lost, unless a promotion overtook the guard (guardLastUserManager);
\* for any number of users and requests.
THEOREM ManagerRemainsHolds == Spec => ManagerRemains
<1>1. MembershipInv /\ [Next]_vars => [Managers # {} => Managers' # {} \/ raced]_vars
  BY ManagerStays
<1> QED
  BY <1>1, MembershipInvHolds, PTL DEF Spec, ManagerRemains

\* A subject that is linked stays linked to its user for as long as that user
\* exists (FindOrCreateOAuthUser, LinkOAuthIdentity).
LEMMA SubjectKept ==
  ASSUME MembershipInv, [Next]_vars, NEW s \in Subject, identity[s] # None, identity[s] \in Live'
  PROVE  identity'[s] = identity[s]
<1>1. identity \in [Subject -> User \cup {None}] /\ identity[s] \in Live
  BY DEF MembershipInv, TablesOK
<1>2. \/ identity' = identity
      \/ \E r \in Request : GuardedChange(r)
      \/ \E r \in Request, u \in User, i \in Invite : OAuthAdmit(r, u, i)
      \/ \E t \in Subject, u \in User : LinkOAuthIdentity(t, u)
  BY DEF Next, vars, tables, DeleteUser, GuardLock, handleDeleteUser, GuardBegin,
        handleUpdateUserPermissions, Promote, handleCreateInvite, InviteRead, CreateInvite,
        usersSendInviteCmd, handleAcceptInvite, AcceptRead, AcceptInvite, AcceptRefused,
        handleOAuthCallback, OAuthLookup, OAuthRefused, usersCreateCmd, CreateRead,
        CreateAdminUser, CreateRefused, handleUpdateMe, EmailRead, UpdateUserProfile,
        handleRevokeInvite, InviteEnds, usersLinkSSOCmd, Digest, DigestTick, sendToUsers,
        DigestFails, DigestMark, DigestMarkFails, DigestSend, DigestSendFails, DigestCrash,
        DigestRestart, HourPasses, ToggleDigest
<1>3. ASSUME NEW r \in Request, GuardedChange(r) PROVE identity'[s] = identity[s]
  <2> DEFINE u == req[r].target
  <2>1. CASE req[r].pc = "deletes" /\ identity[s] = u
    <3>1. user' = Deleted(u) /\ u \in User
      BY <1>1, <1>3, <2>1 DEF GuardedChange, Live
    <3>2. user'[u].status = "deleted"
      BY <3>1 DEF Deleted, MembershipInv, TablesOK, UserRow
    <3> QED
      BY <2>1, <3>2 DEF Live
  <2>2. CASE ~(req[r].pc = "deletes" /\ identity[s] = u)
    BY <1>3, <2>2 DEF GuardedChange
  <2> QED
    BY <2>1, <2>2
<1>4. ASSUME NEW r \in Request, NEW u \in User, NEW i \in Invite, OAuthAdmit(r, u, i)
      PROVE  identity'[s] = identity[s]
  <2>1. CASE req[r].subject = s
    <3>1. OAuthWinner(r) = {identity[s]}
      BY <2>1 DEF OAuthWinner
    <3>2. u = identity[s] /\ Linked(s, u)
      BY <1>4, <2>1, <3>1 DEF OAuthAdmit
    <3> QED
      BY <1>1, <3>2 DEF Linked
  <2>2. CASE req[r].subject # s
    BY <1>1, <1>4, <2>2 DEF OAuthAdmit, Linked
  <2> QED
    BY <2>1, <2>2
<1>5. ASSUME NEW t \in Subject, NEW u \in User, LinkOAuthIdentity(t, u)
      PROVE  identity'[s] = identity[s]
  <2>1. t # s
    BY <1>5 DEF LinkOAuthIdentity
  <2> QED
    BY <1>1, <1>5, <2>1 DEF LinkOAuthIdentity, Linked
<1> QED
  BY <1>2, <1>3, <1>4, <1>5

\* Whoever was admitted once is not admitted again as someone else: an invitation
\* creates one account at most and a subject stays with its user
\* (AcceptInviteWithSession, FindOrCreateOAuthUser).
THEOREM AdmittedOnceHolds == Spec => AdmittedOnce
<1>1. MembershipInv => InvitedOnce
  BY DEF MembershipInv, Admissions, InvitedOnce
<1>2. MembershipInv /\ [Next]_vars =>
        [\A s \in Subject :
           identity[s] # None /\ identity[s] \in Live' => identity'[s] = identity[s]]_vars
  BY SubjectKept
<1> QED
  BY <1>1, <1>2, MembershipInvHolds, PTL DEF Spec, AdmittedOnce, SubjectStays
=============================================================================
