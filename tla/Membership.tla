----------------------------- MODULE Membership -----------------------------
(***************************************************************************)
(* Who belongs to an instance: the users with their addresses and the      *)
(* permission to manage users, the invitations and SSO identities that     *)
(* admit them (internal/storage/auth.go, invites.go, oauth.go, their       *)
(* handlers in internal/api and the users commands of cmd/tindra), and     *)
(* the weekly digest they are sent (internal/digest/worker.go).            *)
(*                                                                         *)
(* Requests run their statements interleaved.  A transaction that holds    *)
(* LOCK TABLE users is one step; the guard of the last user manager is     *)
(* three, because its row locks are what the guard is about.               *)
(*                                                                         *)
(* A behaviour has one of the Workloads: the operations that clients and   *)
(* the clock perform in it.  A workload that names every operation is the  *)
(* whole system; smaller ones keep the model checker's instance small.     *)
(***************************************************************************)
EXTENDS Integers, FiniteSets

CONSTANTS
  User,        \* user ids; an id is never used again
  Email,       \* addresses, in lower case
  Invite,      \* invitations; an id is never used again
  Subject,     \* (provider, sub) pairs
  Request,     \* requests and commands in flight at one time
  None,
  UserLimit,   \* USER_LIMIT; 0 means no limit
  Slot,        \* Slot[u]: userDigestSlot of u
  Hours,       \* digestWindowHours
  MaxFaults,   \* bound on failed deliveries, failed marks and crashes
  Operations,  \* the kinds of operations
  Workloads    \* the sets of operations that are performed together

ASSUME MembershipAssumption ==
  /\ IsFiniteSet(User) /\ IsFiniteSet(Request)
  /\ None \notin User \cup Email \cup Invite \cup Subject
  /\ {UserLimit, MaxFaults} \subseteq Nat
  /\ Hours \in Nat \ {0}
  /\ Slot \in [User -> 0 .. (Hours - 1)]
  /\ Workloads \subseteq SUBSET Operations

VARIABLES
  user,      \* the users table
  invite,    \* the user_invites table
  identity,  \* the oauth_identities table: whom a subject signs in
  req,       \* requests in flight; held: the user rows they have locked
  raced,     \* history: a user was made manager while a request to remove it
             \* or its permission was in the guard or past it
  admitted,  \* history: how many accounts an invitation has created
  hour,      \* hours into the send window; Hours: the window is over
  up,        \* the leader runs the digest job
  todo,      \* users left in sendToUsers
  sending,   \* the user whose digest was sent and is not marked, or None
  mails,     \* history: digests sent to a user this week
  unmarked,  \* history: digests sent this week whose mark was lost
  owed,      \* history: the users who wanted the digest at the last hour's
             \* pass, none once that pass has failed
  faults,
  work       \* the workload

tables == <<user, invite, identity>>
digestVars == <<hour, up, todo, sending, mails, unmarked, owed, faults>>
vars == <<tables, req, raced, admitted, digestVars, work>>

UserRow == [status : {"unborn", "live", "deleted"}, email : Email \cup {None},
            manage : BOOLEAN, digest : BOOLEAN, sent : BOOLEAN]
InviteRow == [status : {"unsent", "pending", "accepted", "gone"}, email : Email \cup {None}]

Idle == [pc |-> "idle", target |-> None, email |-> None, invite |-> None,
         subject |-> None, seen |-> {}, held |-> {}]

Live      == {u \in User : user[u].status = "live"}
Managers  == {u \in Live : user[u].manage}
Taken(e)  == \E u \in Live : user[u].email = e
Invited(e) == {i \in Invite : invite[i].status = "pending" /\ invite[i].email = e}
Full      == UserLimit > 0 /\ Cardinality(Live) >= UserLimit

Done(r) == req' = [req EXCEPT ![r] = Idle]
Does(op) == op \in work

\* Init is an instance with some users, all created with "users create".
Init ==
  /\ \E first \in SUBSET User, e \in [User -> Email] :
       /\ \A u, v \in first : u # v => e[u] # e[v]
       /\ user = [u \in User |->
            [status |-> IF u \in first THEN "live" ELSE "unborn",
             email |-> IF u \in first THEN e[u] ELSE None,
             manage |-> u \in first, digest |-> u \in first, sent |-> FALSE]]
  /\ invite = [i \in Invite |-> [status |-> "unsent", email |-> None]]
  /\ identity = [s \in Subject |-> None]
  /\ req = [r \in Request |-> Idle]
  /\ raced = FALSE
  /\ admitted = [i \in Invite |-> 0]
  /\ hour = 0 /\ up = TRUE /\ todo = {} /\ sending = None
  /\ mails = [u \in User |-> 0] /\ unmarked = [u \in User |-> 0]
  /\ owed = {} /\ faults = 0
  /\ work \in Workloads

(***************************************************************************)
(* The last user manager.                                                  *)
(***************************************************************************)
\* A request in guardLastUserManager, or past it.
Guarded == {"delete", "demote", "deletes", "demotes"}

Held(r) == UNION {req[q].held : q \in Request \ {r}}

\* A request that removes u, or u's permission, gets to guardLastUserManager:
\* the snapshot of its SELECT ... FOR UPDATE.  requirePerm lets managers only
\* get here; handleDeleteUser refuses one's own account.  Ids are random: none
\* is named before it was given out.
GuardBegin(r, u, kind) ==
  /\ req[r].pc = "idle"
  /\ user[u].status # "unborn"
  /\ IF kind = "delete" THEN Managers \ {u} # {} ELSE Managers # {}
  /\ req' = [req EXCEPT ![r] = [Idle EXCEPT !.pc = kind, !.target = u, !.seen = Managers]]
  /\ UNCHANGED <<tables, raced, admitted, digestVars, work>>

\* Mutant: the rows are read without FOR UPDATE.
GuardRowsUnlocked(r) == {}

\* The rows the SELECT returns and locks: of those it saw, the ones that still
\* match once no other transaction holds them.
GuardRows(r) == req[r].seen \cap Managers

GuardLock(r) ==
  /\ req[r].pc \in {"delete", "demote"}
  /\ req[r].seen \cap Held(r) = {}
  /\ IF req[r].seen \cap Managers = {req[r].target}
     THEN Done(r)
     ELSE req' = [req EXCEPT ![r].pc = IF req[r].pc = "delete" THEN "deletes" ELSE "demotes",
                             ![r].held = GuardRows(r)]
  /\ UNCHANGED <<tables, raced, admitted, digestVars, work>>

Deleted(u) == [user EXCEPT ![u].status = "deleted", ![u].email = None, ![u].manage = FALSE]

\* The DELETE or UPDATE and the commit, which frees the rows.  The foreign key
\* takes the user's identities along.
GuardedChange(r) ==
  LET u == req[r].target
  IN /\ req[r].pc \in {"deletes", "demotes"}
     /\ u \notin Held(r)
     /\ user' = IF u \notin Live THEN user
                ELSE IF req[r].pc = "deletes" THEN Deleted(u)
                ELSE [user EXCEPT ![u].manage = FALSE]
     /\ identity' = [s \in Subject |->
          IF req[r].pc = "deletes" /\ identity[s] = u THEN None ELSE identity[s]]
     /\ Done(r)
     /\ UNCHANGED <<invite, raced, admitted, digestVars, work>>

\* UpdateUserPermissions that grants manage_users: no guard.
Promote(u) ==
  /\ Managers # {}
  /\ u \in Live \ Managers
  /\ u \notin UNION {req[r].held : r \in Request}
  /\ user' = [user EXCEPT ![u].manage = TRUE]
  /\ raced' = (raced \/ \E r \in Request : /\ req[r].target = u
                                           /\ req[r].pc \in Guarded)
  /\ UNCHANGED <<invite, identity, req, admitted, digestVars, work>>

(***************************************************************************)
(* Admission.                                                              *)
(***************************************************************************)
NewUser(e, manage) ==
  [status |-> "live", email |-> e, manage |-> manage, digest |-> TRUE, sent |-> FALSE]

\* handleCreateInvite checks the limit and the address, "users send-invite"
\* only the limit; then the invitation is stored.
InviteRead(r, e, fromCommand) ==
  /\ req[r].pc = "idle"
  /\ ~Full
  /\ fromCommand \/ (Managers # {} /\ ~Taken(e))
  /\ req' = [req EXCEPT ![r] = [Idle EXCEPT !.pc = "invite", !.email = e]]
  /\ UNCHANGED <<tables, raced, admitted, digestVars, work>>

CreateInvite(r, i) ==
  /\ req[r].pc = "invite"
  /\ invite[i].status = "unsent"
  /\ invite' = [invite EXCEPT ![i] = [status |-> "pending", email |-> req[r].email]]
  /\ Done(r)
  /\ UNCHANGED <<user, identity, raced, admitted, digestVars, work>>

\* handleRevokeInvite, or expiry.
InviteEnds(i) ==
  /\ invite[i].status = "pending"
  /\ invite' = [invite EXCEPT ![i].status = "gone"]
  /\ UNCHANGED <<user, identity, req, raced, admitted, digestVars, work>>

\* AcceptInviteWithSession looks the invitation up before it takes the lock.
AcceptRead(r, i) ==
  /\ req[r].pc = "idle"
  /\ invite[i].status = "pending"
  /\ req' = [req EXCEPT ![r] = [Idle EXCEPT !.pc = "accept", !.invite = i]]
  /\ UNCHANGED <<tables, raced, admitted, digestVars, work>>

\* Mutant: the claim trusts the lookup.
ClaimableUnchecked(i) == TRUE

Claimable(i) == invite[i].status = "pending"

\* createUser: the first user gets every permission.
AcceptInvite(r, u) ==
  LET i == req[r].invite
  IN /\ req[r].pc = "accept"
     /\ Claimable(i)
     /\ ~Full /\ ~Taken(invite[i].email)
     /\ user[u].status = "unborn"
     /\ user' = [user EXCEPT ![u] = NewUser(invite[i].email, Live = {})]
     /\ invite' = [invite EXCEPT ![i].status = "accepted"]
     /\ admitted' = [admitted EXCEPT ![i] = @ + 1]
     /\ Done(r)
     /\ UNCHANGED <<identity, raced, digestVars, work>>

AcceptRefused(r) ==
  /\ req[r].pc = "accept"
  /\ ~Claimable(req[r].invite) \/ Full \/ Taken(invite[req[r].invite].email)
  /\ Done(r)
  /\ UNCHANGED <<tables, raced, admitted, digestVars, work>>

\* handleOAuthCallback: a known subject signs its user in, which changes
\* nothing here; an unknown one needs a verified address.
OAuthLookup(r, s, e) ==
  /\ req[r].pc = "idle"
  /\ identity[s] = None
  /\ req' = [req EXCEPT ![r] = [Idle EXCEPT !.pc = "admit", !.subject = s, !.email = e]]
  /\ UNCHANGED <<tables, raced, admitted, digestVars, work>>

\* Mutant: the identity is not looked up again under the lock, and the link is
\* overwritten.
OAuthWinnerStale(r) == {u \in Live : user[u].email = req[r].email}

\* The user an admission finds under the table lock: the one the subject was
\* linked to meanwhile, else the one with the address.
OAuthWinner(r) ==
  IF identity[req[r].subject] # None THEN {identity[req[r].subject]}
  ELSE {u \in Live : user[u].email = req[r].email}

Linked(s, u) == identity' = [identity EXCEPT ![s] = u]

\* The rest of FindOrCreateOAuthUser: an existing account is linked, else an
\* invitation for the address admits a new account without permissions.
OAuthAdmit(r, u, i) ==
  /\ req[r].pc = "admit"
  /\ IF OAuthWinner(r) # {}
     THEN /\ u \in OAuthWinner(r)
          /\ UNCHANGED <<user, invite, admitted>>
     ELSE /\ i \in Invited(req[r].email) /\ ~Full
          /\ user[u].status = "unborn"
          /\ user' = [user EXCEPT ![u] = NewUser(req[r].email, FALSE)]
          /\ invite' = [invite EXCEPT ![i].status = "accepted"]
          /\ admitted' = [admitted EXCEPT ![i] = @ + 1]
  /\ Linked(req[r].subject, u)
  /\ Done(r)
  /\ UNCHANGED <<raced, digestVars, work>>

OAuthRefused(r) ==
  /\ req[r].pc = "admit"
  /\ OAuthWinner(r) = {} /\ (Invited(req[r].email) = {} \/ Full)
  /\ Done(r)
  /\ UNCHANGED <<tables, raced, admitted, digestVars, work>>

\* "users link-sso": the conditional upsert of LinkOAuthIdentity.
LinkOAuthIdentity(s, u) ==
  /\ u \in Live
  /\ identity[s] = None
  /\ Linked(s, u)
  /\ UNCHANGED <<user, invite, req, raced, admitted, digestVars, work>>

\* "users create": the limit is checked in a statement of its own.
CreateRead(r, e) ==
  /\ req[r].pc = "idle"
  /\ ~Full
  /\ req' = [req EXCEPT ![r] = [Idle EXCEPT !.pc = "create", !.email = e]]
  /\ UNCHANGED <<tables, raced, admitted, digestVars, work>>

CreateAdminUser(r, u) ==
  /\ req[r].pc = "create"
  /\ ~Taken(req[r].email)
  /\ user[u].status = "unborn"
  /\ user' = [user EXCEPT ![u] = NewUser(req[r].email, TRUE)]
  /\ Done(r)
  /\ UNCHANGED <<invite, identity, raced, admitted, digestVars, work>>

\* handleUpdateMe with a new address: confirmEmailChange, then the UPDATE,
\* which the unique index refuses when the address is taken.
EmailRead(r, u, e) ==
  /\ req[r].pc = "idle"
  /\ u \in Live /\ user[u].email # e
  /\ Invited(e) = {}
  /\ req' = [req EXCEPT ![r] = [Idle EXCEPT !.pc = "email", !.target = u, !.email = e]]
  /\ UNCHANGED <<tables, raced, admitted, digestVars, work>>

UpdateUserProfile(r) ==
  LET u == req[r].target
  IN /\ req[r].pc = "email"
     /\ user' = IF u \in Live /\ ~Taken(req[r].email)
                THEN [user EXCEPT ![u].email = req[r].email] ELSE user
     /\ Done(r)
     /\ UNCHANGED <<invite, identity, raced, admitted, digestVars, work>>

\* The unique index refuses the account.
CreateRefused(r) ==
  /\ req[r].pc = "create"
  /\ Taken(req[r].email)
  /\ Done(r)
  /\ UNCHANGED <<tables, raced, admitted, digestVars, work>>

(***************************************************************************)
(* The weekly digest.  sent stands for digest_last_sent_at in this week.   *)
(***************************************************************************)

\* Mutant: each hour serves its own slot only.
SlotReachedExactly(u) == Slot[u] = hour

SlotReached(u) == Slot[u] <= hour

\* sendDue at the start of the job and every hour: ListDigestDueUsers.
DigestTick ==
  /\ up /\ todo = {} /\ sending = None
  /\ hour < Hours
  /\ todo' = {u \in Live : user[u].digest /\ ~user[u].sent /\ SlotReached(u)}
  /\ owed' = IF hour = Hours - 1 THEN {u \in Live : user[u].digest} ELSE {}
  /\ UNCHANGED <<tables, req, raced, admitted, hour, up, sending, mails, unmarked, faults, work>>

\* The list or the report cannot be read: nobody is sent anything.
DigestFails ==
  /\ todo # {} /\ sending = None /\ faults < MaxFaults
  /\ todo' = {} /\ owed' = {} /\ faults' = faults + 1
  /\ UNCHANGED <<tables, req, raced, admitted, hour, up, sending, mails, unmarked, work>>

\* The mail goes to the address that was read, also when the user has opted
\* out, moved or been deleted since.
DigestSend(u) ==
  /\ u \in todo /\ sending = None
  /\ sending' = u
  /\ mails' = [mails EXCEPT ![u] = @ + 1]
  /\ UNCHANGED <<tables, req, raced, admitted, hour, up, todo, unmarked, owed, faults, work>>

DigestSendFails(u) ==
  /\ u \in todo /\ sending = None /\ faults < MaxFaults
  /\ todo' = todo \ {u} /\ owed' = {} /\ faults' = faults + 1
  /\ UNCHANGED <<tables, req, raced, admitted, hour, up, sending, mails, unmarked, work>>

\* MarkDigestSent.
Marked(u) == IF u \in Live THEN [user EXCEPT ![u].sent = TRUE] ELSE user

DigestMark ==
  /\ sending # None
  /\ user' = Marked(sending)
  /\ todo' = todo \ {sending} /\ sending' = None
  /\ UNCHANGED <<invite, identity, req, raced, admitted, hour, up, mails, unmarked,
                 owed, faults, work>>

DigestMarkFails ==
  /\ sending # None /\ faults < MaxFaults
  /\ unmarked' = [unmarked EXCEPT ![sending] = @ + 1]
  /\ todo' = todo \ {sending} /\ sending' = None
  /\ faults' = faults + 1
  /\ UNCHANGED <<tables, req, raced, admitted, hour, up, mails, owed, work>>

\* The leader dies or loses the lock; its job stops where it is.
DigestCrash ==
  /\ up /\ faults < MaxFaults
  /\ up' = FALSE /\ todo' = {} /\ sending' = None /\ owed' = {}
  /\ unmarked' = IF sending = None THEN unmarked ELSE [unmarked EXCEPT ![sending] = @ + 1]
  /\ faults' = faults + 1
  /\ UNCHANGED <<tables, req, raced, admitted, hour, mails, work>>

DigestRestart ==
  /\ ~up
  /\ up' = TRUE
  /\ UNCHANGED <<tables, req, raced, admitted, hour, todo, sending, mails, unmarked,
                 owed, faults, work>>

\* An hour passes between two passes, or while the job is down.
HourPasses ==
  /\ hour < Hours /\ todo = {} /\ sending = None
  /\ hour' = hour + 1
  /\ UNCHANGED <<tables, req, raced, admitted, up, todo, sending, mails, unmarked,
                 owed, faults, work>>

\* UpdateUserWeeklyDigest.
ToggleDigest(u) ==
  /\ u \in Live
  /\ user' = [user EXCEPT ![u].digest = ~@]
  /\ UNCHANGED <<invite, identity, req, raced, admitted, digestVars, work>>

sendToUsers ==
  \/ DigestFails \/ DigestMark \/ DigestMarkFails
  \/ \E u \in User : DigestSend(u) \/ DigestSendFails(u)

Digest == DigestTick \/ sendToUsers \/ DigestCrash \/ DigestRestart \/ HourPasses

(***************************************************************************)
(* The handlers and commands.                                              *)
(***************************************************************************)
DeleteUser(r) == GuardLock(r) \/ GuardedChange(r)

handleDeleteUser(r) == \E u \in User : GuardBegin(r, u, "delete")

handleUpdateUserPermissions(r) == \E u \in User : GuardBegin(r, u, "demote") \/ Promote(u)

handleCreateInvite(r) ==
  \/ \E e \in Email : InviteRead(r, e, FALSE)
  \/ \E i \in Invite : CreateInvite(r, i)

usersSendInviteCmd(r) == \E e \in Email : InviteRead(r, e, TRUE)

handleRevokeInvite == \E i \in Invite : InviteEnds(i)

handleAcceptInvite(r) ==
  \/ \E i \in Invite : AcceptRead(r, i)
  \/ \E u \in User : AcceptInvite(r, u)
  \/ AcceptRefused(r)

handleOAuthCallback(r) ==
  \/ \E s \in Subject, e \in Email : OAuthLookup(r, s, e)
  \/ \E u \in User, i \in Invite : OAuthAdmit(r, u, i)
  \/ OAuthRefused(r)

usersLinkSSOCmd == \E s \in Subject, u \in User : LinkOAuthIdentity(s, u)

usersCreateCmd(r) ==
  \/ \E e \in Email : CreateRead(r, e)
  \/ \E u \in User : CreateAdminUser(r, u)
  \/ CreateRefused(r)

handleUpdateMe(r) ==
  \/ \E u \in User, e \in Email : EmailRead(r, u, e)
  \/ UpdateUserProfile(r)

Next ==
  \/ \E r \in Request :
       \/ DeleteUser(r)
       \/ Does("delete") /\ handleDeleteUser(r)
       \/ Does("permissions") /\ handleUpdateUserPermissions(r)
       \/ Does("invites") /\ (handleCreateInvite(r) \/ usersSendInviteCmd(r) \/ handleAcceptInvite(r))
       \/ Does("sso") /\ handleOAuthCallback(r)
       \/ Does("accounts") /\ (usersCreateCmd(r) \/ handleUpdateMe(r))
  \/ Does("invites") /\ handleRevokeInvite
  \/ Does("sso") /\ usersLinkSSOCmd
  \/ Does("digest") /\ Digest
  \/ Does("profile") /\ \E u \in User : ToggleDigest(u)

Spec == Init /\ [][Next]_vars

(***************************************************************************)
(* Properties.                                                             *)
(***************************************************************************)
TypeOK ==
  /\ user \in [User -> UserRow]
  /\ invite \in [Invite -> InviteRow]
  /\ identity \in [Subject -> User \cup {None}]
  /\ \A s \in Subject : identity[s] # None => identity[s] \in Live
  /\ \A u, v \in Live : u # v => user[u].email # user[v].email
  /\ admitted \in [Invite -> Nat]
  /\ hour \in 0 .. Hours /\ todo \subseteq User /\ sending \in User \cup {None}
  /\ mails \in [User -> Nat] /\ unmarked \in [User -> Nat] /\ owed \subseteq User

\* However demotions and deletions of managers interleave, the last one who can
\* manage users is never lost (guardLastUserManager).  The exception is exact:
\* the guard locks the managers its snapshot saw, so one who is made manager
\* while the guard of a request against that user waits, or has just passed, is
\* removed as if the others were still there.
ManagerRemains == [][Managers # {} => Managers' # {} \/ raced]_vars

\* An invitation creates at most one account, however often its link is opened
\* at once and whether it is redeemed with a password or through SSO
\* (AcceptInviteWithSession, FindOrCreateOAuthUser).
InvitedOnce == \A i \in Invite : admitted[i] <= 1

\* A provider subject, once linked, signs in the same user until that user is
\* deleted: neither a second callback nor "users link-sso" moves it.
SubjectStays ==
  [][\A s \in Subject :
       identity[s] # None /\ identity[s] \in Live' => identity'[s] = identity[s]]_vars

\* Whoever was admitted once is not admitted again as someone else.
AdmittedOnce == []InvitedOnce /\ SubjectStays

\* The digest of a week: nobody gets a second copy unless a mark was lost, and
\* when the pass of the window's last hour has run to its end without a
\* failure, everyone who wants the digest and was there has it, also those
\* whose own hour was missed (sendSlot, sendToUsers).
DigestOncePerWeek ==
  /\ \A u \in User : mails[u] <= 1 + unmarked[u]
  /\ todo = {} /\ sending = None => \A u \in owed : mails[u] >= 1
=============================================================================
