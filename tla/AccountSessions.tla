-------------------------- MODULE AccountSessions --------------------------
(***************************************************************************)
(* Accounts and their sessions: registration, login, logout, session       *)
(* revocation, account deletion, password change and reset, and the        *)
(* anonymization and session-cleanup jobs, as concurrent requests against  *)
(* one PostgreSQL database under READ COMMITTED.                           *)
(*                                                                         *)
(* A request runs its handler one database call at a time.  The writes of  *)
(* an interactive transaction become visible when it commits.  Each first  *)
(* inserts the user's row or updates it under a condition (a reset once it *)
(* has claimed its token), and so takes the row lock that serialises them: *)
(* holder[u] is the request that has it, and an UPDATE of a row another    *)
(* request holds waits, then evaluates its WHERE clause on the committed   *)
(* row.  The last write of a transaction and its commit are one step.      *)
(*                                                                         *)
(* The locks of Session rows are left out.  The UPDATEs that close         *)
(* sessions may wait for those that rotate, revokeById and rejectReuse     *)
(* take; whichever comes first, what they see when they go on are          *)
(* committed rows, and a deadlock's victim is a case of Abort.             *)
(*                                                                         *)
(* Time is abstracted to the comparisons the code makes: whether a session *)
(* has expired, whether a deletion is older than the undo period, whether  *)
(* a login lock is in force.  Refresh tokens are the subject of            *)
(* RefreshRotation, the arithmetic of the login lock of LoginBackoff, the  *)
(* reset token of PasswordReset.                                           *)
(***************************************************************************)
EXTENDS Integers, FiniteSets

CONSTANTS
  User,       \* user ids
  Sid,        \* session ids
  Req,        \* requests and jobs in flight
  Password,   \* passwords a user may choose
  MaxActive,  \* MAX_ACTIVE_SESSIONS
  None        \* the null of ids and passwords

ASSUME ConstantsAssumption ==
  /\ MaxActive \in Nat \ {0}
  /\ None \notin User \cup Sid \cup Req \cup Password
  /\ IsFiniteSet(Sid)
  /\ Password # {}

VARIABLES
  password, deletedAt, anonymized, locked,  \* the User rows, as committed
  state, owner,  \* the Session rows, as committed
  openedWith,    \* the password whose knowledge a session rests on
  newer,         \* <<a, b>>: lastUsedAt of a is later than that of b
  holder,        \* the request that holds the row lock of a user
  txn,           \* what each request is doing and what it has read
  audited        \* the AuditLog rows the last step wrote

user == <<password, deletedAt, anonymized, locked>>
sess == <<state, owner, openedWith>>

vars == <<user, sess, newer, holder, txn, audited>>

Deletion == {"null", "recent", "due"}
SessionState == {"absent", "live", "expired", "revoked", "purged"}

\* The steps at which a request holds the row lock of its user.
Locking == {"register.inserted", "login.signedIn", "login.issued",
            "delete.marked", "change.updated", "reset.updated", "anon.updated"}

\* The steps at which a request has inserted a session it has not committed.
Creating == {"register.inserted", "login.signedIn", "login.issued"}

Pc == Locking \cup
      {"idle", "login.verified", "login.rejected", "login.failed",
       "change.verified", "change.rejected", "anon.picked", "reuse.detected", "revokeAll.updated"}

\* A request at pc for user u: the session and the password it handles, whether
\* it read the account as deleted, the sessions it is to close.
Request(pc, u, s, p, sawDeleted, evict) ==
  [pc |-> pc, user |-> u, sid |-> s, pw |-> p,
   sawDeleted |-> sawDeleted, evict |-> evict]
For(pc, u) == Request(pc, u, None, None, FALSE, {})
Idle == For("idle", None)

-----------------------------------------------------------------------------
(* State functions *)

Unrevoked(s) == state[s] \in {"live", "expired"}
SessionsOf(u) == {s \in Sid : owner[s] = u}
OpenOf(u) == {s \in SessionsOf(u) : Unrevoked(s)}
LiveOf(u) == {s \in SessionsOf(u) : state[s] = "live"}

\* An access token names its user and session; the guard that verifies it
\* reads no row, so it outlives the session.
Bearer(u, s) == owner[s] = u

Absent(u) == password[u] = None /\ ~anonymized[u]
Exists(u) == ~Absent(u)

\* uuid() draws an id no row and no open transaction has.
Free(s) == /\ state[s] = "absent"
           /\ \A r \in Req : txn[r].pc \in Creating => txn[r].sid # s

\* lastUsedAt := now().
Stamp(s) == {pair \in newer : pair[2] # s} \cup {<<s, t>> : t \in Sid \ {s}}

\* Mutant of Revoked: sessions that ran out are passed over.
RevokedLive(S) ==
  [s \in Sid |-> IF s \in S /\ state[s] = "live" THEN "revoked" ELSE state[s]]

\* updateMany({ revokedAt: null, id in S }, { revokedAt: now }).
Revoked(S) ==
  [s \in Sid |-> IF s \in S /\ Unrevoked(s) THEN "revoked" ELSE state[s]]

-----------------------------------------------------------------------------
(* How a request moves *)

At(r, pc) == txn[r].pc = pc
Goto(r, request) == txn' = [txn EXCEPT ![r] = request]
Start(r, request) == At(r, "idle") /\ Goto(r, request)
Finish(r) == Goto(r, Idle)

\* An UPDATE of the row of u: it waits for the lock, and the request keeps it.
RowFree(u) == holder[u] = None
LockRow(r, u) == RowFree(u) /\ holder' = [holder EXCEPT ![u] = r]

UnlockRow(r) == holder' = [holder EXCEPT ![txn[r].user] = None]

Close(S) == state' = Revoked(S) /\ UNCHANGED <<owner, openedWith>>
Write(events, u) == audited' = {<<e, u>> : e \in events}
NoWrite == audited' = {}

-----------------------------------------------------------------------------
(* Registration *)

\* Mutant of Opened: two arguments are exchanged.
OpenedExchanged(r) ==
  /\ owner' = [owner EXCEPT ![txn[r].sid] = txn[r].pw]
  /\ openedWith' = [openedWith EXCEPT ![txn[r].sid] = txn[r].user]

\* The session row a transaction created, visible once it commits.
Opened(r) ==
  /\ owner' = [owner EXCEPT ![txn[r].sid] = txn[r].user]
  /\ openedWith' = [openedWith EXCEPT ![txn[r].sid] = txn[r].pw]

RegisterInsert(r, u, s, p) ==
  /\ Absent(u) /\ Free(s)
  /\ LockRow(r, u)
  /\ Start(r, Request("register.inserted", u, s, p, FALSE, {}))
  /\ NoWrite
  /\ UNCHANGED <<user, sess, newer>>

RegisterCommit(r) ==
  LET u == txn[r].user
      s == txn[r].sid
  IN /\ At(r, "register.inserted")
     /\ password' = [password EXCEPT ![u] = txn[r].pw]
     /\ state' = [state EXCEPT ![s] = "live"]
     /\ Opened(r)
     /\ newer' = Stamp(s)
     /\ UnlockRow(r) /\ Finish(r)
     /\ Write({"user_created"}, u)
     /\ UNCHANGED <<deletedAt, anonymized, locked>>

-----------------------------------------------------------------------------
(* Login *)

\* A bound of the model: a login starts only when an id is left for it.
IdLeft == Cardinality({r \in Req : txn[r].pc \in Creating \cup {"login.verified"}})
            < Cardinality({s \in Sid : state[s] = "absent"})

\* The account and its lock are read once, before the password is verified.
\* An anonymized account has no e-mail to be found by.  The guess None is
\* nobody's password.
LoginRead(r, u, p) ==
  /\ IdLeft
  /\ Exists(u) /\ ~anonymized[u] /\ ~locked[u]
  /\ Start(r, IF p = password[u]
                THEN Request("login.verified", u, None, p,
                             deletedAt[u] # "null", {})
                ELSE For("login.rejected", u))
  /\ NoWrite
  /\ UNCHANGED <<user, sess, newer, holder>>

\* One transaction counts the failure and may lock the login.
LoginRecordFailure(r, locks) ==
  LET u == txn[r].user
  IN /\ At(r, "login.rejected") /\ RowFree(u)
     /\ locked' = [locked EXCEPT ![u] = locked[u] \/ locks]
     /\ Goto(r, For("login.failed", u))
     /\ Write(IF locks THEN {"authn_login_lock"} ELSE {}, u)
     /\ UNCHANGED <<password, deletedAt, anonymized, sess, newer, holder>>

\* The failed login is recorded by a write of its own.
LoginAuditFailure(r) ==
  /\ At(r, "login.failed")
  /\ Finish(r)
  /\ Write({"authn_login_failure"}, txn[r].user)
  /\ UNCHANGED <<user, sess, newer, holder>>

\* Mutant of MaySignIn: anonymizedAt is not looked at again.
MaySignInAnonymized(u) == ~locked[u]

MaySignIn(u) == ~anonymized[u] /\ ~locked[u]

\* Mutant of LoginSignIn: the account is read again, its row is not locked.
LoginSignInUnlocked(r, s) ==
  LET u == txn[r].user
  IN /\ At(r, "login.verified") /\ MaySignIn(u) /\ Free(s) /\ RowFree(u)
     /\ Goto(r, Request("login.signedIn", u, s, txn[r].pw,
                        txn[r].sawDeleted, {}))
     /\ newer' = Stamp(s)
     /\ NoWrite
     /\ UNCHANGED <<user, sess, holder>>

LoginSignIn(r, s) ==
  LET u == txn[r].user
  IN /\ At(r, "login.verified") /\ MaySignIn(u) /\ Free(s)
     /\ LockRow(r, u)
     /\ Goto(r, Request("login.signedIn", u, s, txn[r].pw,
                        txn[r].sawDeleted, {}))
     /\ newer' = Stamp(s)
     /\ NoWrite
     /\ UNCHANGED <<user, sess>>

\* Mutant of LoginRefused: no row updated is taken for a conflict, and tried again.
LoginRefusedRetries(r) ==
  /\ At(r, "login.verified") /\ RowFree(txn[r].user) /\ ~MaySignIn(txn[r].user)
  /\ NoWrite
  /\ UNCHANGED <<user, sess, newer, holder, txn>>

LoginRefused(r) ==
  /\ At(r, "login.verified") /\ RowFree(txn[r].user) /\ ~MaySignIn(txn[r].user)
  /\ Finish(r)
  /\ NoWrite
  /\ UNCHANGED <<user, sess, newer, holder>>

\* The most recently used sessions of L, as many as may stay.
MostRecent(keep, L) ==
  /\ Cardinality(keep) <= MaxActive
  /\ keep = L \/ Cardinality(keep) = MaxActive
  /\ \A s \in keep, t \in L \ keep : <<s, t>> \in newer

\* The list of live sessions is read here and acted upon at the commit.
LoginIssue(r) ==
  LET L == LiveOf(txn[r].user) \cup {txn[r].sid}
  IN /\ At(r, "login.signedIn")
     /\ \E keep \in SUBSET L :
          /\ MostRecent(keep, L)
          /\ Goto(r, Request("login.issued", txn[r].user, txn[r].sid,
                             txn[r].pw, txn[r].sawDeleted, L \ keep))
     /\ NoWrite
     /\ UNCHANGED <<user, sess, newer, holder>>

LoginCommit(r) ==
  LET u == txn[r].user
      s == txn[r].sid
  IN /\ At(r, "login.issued")
     /\ deletedAt' = [deletedAt EXCEPT ![u] = "null"]
     /\ locked' = [locked EXCEPT ![u] = FALSE]
     /\ state' = [Revoked(txn[r].evict) EXCEPT
                    ![s] = IF s \in txn[r].evict THEN "revoked" ELSE "live"]
     /\ Opened(r)
     /\ UnlockRow(r) /\ Finish(r)
     /\ Write({"authn_login"} \cup
              (IF txn[r].sawDeleted THEN {"user_reactivated"} ELSE {}), u)
     /\ UNCHANGED <<password, anonymized, newer>>

-----------------------------------------------------------------------------
(* Closing sessions *)

RevokeById(u, s) ==
  /\ \E t \in Sid : Bearer(u, t)
  /\ s \in OpenOf(u)
  /\ Close({s})
  /\ Write({"session_revoked"}, u)
  /\ UNCHANGED <<user, newer, holder, txn>>

\* Whoever holds an unused refresh token of the session may log out.
Logout(s) ==
  /\ Unrevoked(s)
  /\ Close({s})
  /\ Write({"authn_logout"}, owner[s])
  /\ UNCHANGED <<user, newer, holder, txn>>

\* DELETE /auth/sessions passes no transaction: two writes, each of its own.
RevokeAllUpdate(r, u) ==
  /\ \E t \in Sid : Bearer(u, t)
  /\ Close(OpenOf(u))
  /\ Start(r, For("revokeAll.updated", u))
  /\ NoWrite
  /\ UNCHANGED <<user, newer, holder>>

RevokeAllAudit(r) ==
  /\ At(r, "revokeAll.updated")
  /\ Finish(r)
  /\ Write({"session_revoked"}, txn[r].user)
  /\ UNCHANGED <<user, sess, newer, holder>>

\* A used refresh token of an unrevoked session comes back after the grace
\* window; its user's sessions are closed in a later transaction.
ReuseDetect(r, s) ==
  /\ Unrevoked(s)
  /\ Start(r, For("reuse.detected", owner[s]))
  /\ NoWrite
  /\ UNCHANGED <<user, sess, newer, holder>>

ReuseReject(r) ==
  /\ At(r, "reuse.detected")
  /\ Close(OpenOf(txn[r].user))
  /\ Finish(r)
  /\ Write({"session_token_reuse", "session_revoked"}, txn[r].user)
  /\ UNCHANGED <<user, newer, holder>>

\* A refresh marks its session as used.
Rotate(s) ==
  /\ state[s] = "live" /\ deletedAt[owner[s]] = "null"
  /\ newer' = Stamp(s)
  /\ NoWrite
  /\ UNCHANGED <<user, sess, holder, txn>>

\* auth.session-cleanup deletes sessions that were closed or ran out long ago.
Purge(s) ==
  /\ state[s] \in {"revoked", "expired"}
  /\ state' = [state EXCEPT ![s] = "purged"]
  /\ NoWrite
  /\ UNCHANGED <<user, owner, openedWith, newer, holder, txn>>

-----------------------------------------------------------------------------
(* Deletion and anonymization *)

DeleteMark(r, u) ==
  /\ \E s \in Sid : Bearer(u, s)
  /\ deletedAt[u] = "null"
  /\ LockRow(r, u)
  /\ Start(r, For("delete.marked", u))
  /\ NoWrite
  /\ UNCHANGED <<user, sess, newer>>

\* revokeAll closes the sessions committed by then.
DeleteCommit(r) ==
  LET u == txn[r].user
  IN /\ At(r, "delete.marked")
     /\ deletedAt' = [deletedAt EXCEPT ![u] = "recent"]
     /\ Close(OpenOf(u))
     /\ UnlockRow(r) /\ Finish(r)
     /\ Write({"user_deleted", "session_revoked"}, u)
     /\ UNCHANGED <<password, anonymized, locked, newer>>

Due(u) == deletedAt[u] = "due" /\ ~anonymized[u]

\* The daily job lists the due accounts, then takes them one by one.
AnonPick(r, u) ==
  /\ Due(u)
  /\ Start(r, For("anon.picked", u))
  /\ NoWrite
  /\ UNCHANGED <<user, sess, newer, holder>>

\* Mutant of AnonUpdate: the account is not looked at again.
AnonUpdateUnchecked(r) ==
  /\ At(r, "anon.picked")
  /\ LockRow(r, txn[r].user)
  /\ Goto(r, For("anon.updated", txn[r].user))
  /\ NoWrite
  /\ UNCHANGED <<user, sess, newer>>

AnonUpdate(r) ==
  /\ At(r, "anon.picked") /\ Due(txn[r].user)
  /\ LockRow(r, txn[r].user)
  /\ Goto(r, For("anon.updated", txn[r].user))
  /\ NoWrite
  /\ UNCHANGED <<user, sess, newer>>

AnonSkip(r) ==
  /\ At(r, "anon.picked") /\ RowFree(txn[r].user) /\ ~Due(txn[r].user)
  /\ Finish(r)
  /\ NoWrite
  /\ UNCHANGED <<user, sess, newer, holder>>

\* Mutant of AnonCommit: anonymizedAt is not written.
AnonCommitUnmarked(r) ==
  /\ At(r, "anon.updated")
  /\ password' = [password EXCEPT ![txn[r].user] = None]
  /\ UnlockRow(r) /\ Finish(r)
  /\ Write({"user_anonymized"}, txn[r].user)
  /\ UNCHANGED <<deletedAt, anonymized, locked, sess, newer>>

\* The new password hash matches no password.
AnonCommit(r) ==
  LET u == txn[r].user
  IN /\ At(r, "anon.updated")
     /\ password' = [password EXCEPT ![u] = None]
     /\ anonymized' = [anonymized EXCEPT ![u] = TRUE]
     /\ UnlockRow(r) /\ Finish(r)
     /\ Write({"user_anonymized"}, u)
     /\ UNCHANGED <<deletedAt, locked, sess, newer>>

-----------------------------------------------------------------------------
(* Passwords *)

\* The current password is verified before the transaction.
ChangeVerify(r, u, s, matches) ==
  /\ Bearer(u, s) /\ deletedAt[u] = "null"
  /\ Start(r, IF matches THEN Request("change.verified", u, s, None, FALSE, {})
                          ELSE For("change.rejected", u))
  /\ NoWrite
  /\ UNCHANGED <<user, sess, newer, holder>>

\* A wrong current password is recorded; it does not count towards the lock.
ChangeAuditFailure(r) ==
  /\ At(r, "change.rejected")
  /\ Finish(r)
  /\ Write({"authn_password_change_failure"}, txn[r].user)
  /\ UNCHANGED <<user, sess, newer, holder>>

ChangeUpdate(r, p) ==
  LET u == txn[r].user
  IN /\ At(r, "change.verified") /\ deletedAt[u] = "null"
     /\ LockRow(r, u)
     /\ Goto(r, Request("change.updated", u, txn[r].sid, p, FALSE, {}))
     /\ NoWrite
     /\ UNCHANGED <<user, sess, newer>>

ChangeRefused(r) ==
  /\ At(r, "change.verified")
  /\ RowFree(txn[r].user) /\ deletedAt[txn[r].user] # "null"
  /\ Finish(r)
  /\ NoWrite
  /\ UNCHANGED <<user, sess, newer, holder>>

\* The session the change was made from stays open.
ChangeCommit(r) ==
  LET u == txn[r].user
      s == txn[r].sid
  IN /\ At(r, "change.updated")
     /\ password' = [password EXCEPT ![u] = txn[r].pw]
     /\ state' = Revoked(OpenOf(u) \ {s})
     /\ openedWith' = [openedWith EXCEPT ![s] = txn[r].pw]
     /\ UnlockRow(r) /\ Finish(r)
     /\ Write({"authn_password_change", "session_revoked"}, u)
     /\ UNCHANGED <<deletedAt, anonymized, locked, owner, newer>>

\* A reset token of u was consumed; a deleted account may reset its password.
ResetUpdate(r, u, p) ==
  /\ Exists(u) /\ ~anonymized[u]
  /\ LockRow(r, u)
  /\ Start(r, Request("reset.updated", u, None, p, FALSE, {}))
  /\ NoWrite
  /\ UNCHANGED <<user, sess, newer>>

ResetCommit(r) ==
  LET u == txn[r].user
  IN /\ At(r, "reset.updated")
     /\ password' = [password EXCEPT ![u] = txn[r].pw]
     /\ locked' = [locked EXCEPT ![u] = FALSE]
     /\ Close(OpenOf(u))
     /\ UnlockRow(r) /\ Finish(r)
     /\ Write({"authn_password_reset", "session_revoked"}, u)
     /\ UNCHANGED <<deletedAt, anonymized, newer>>

-----------------------------------------------------------------------------
(* The clock and failures *)

Expire(s) ==
  /\ state[s] = "live"
  /\ state' = [state EXCEPT ![s] = "expired"]
  /\ NoWrite
  /\ UNCHANGED <<user, owner, openedWith, newer, holder, txn>>

UndoLapses(u) ==
  /\ deletedAt[u] = "recent"
  /\ deletedAt' = [deletedAt EXCEPT ![u] = "due"]
  /\ NoWrite
  /\ UNCHANGED <<password, anonymized, locked, sess, newer, holder, txn>>

LockLapses(u) ==
  /\ locked[u]
  /\ locked' = [locked EXCEPT ![u] = FALSE]
  /\ NoWrite
  /\ UNCHANGED <<password, deletedAt, anonymized, sess, newer, holder, txn>>

\* The process dies, a statement fails, or the transaction runs out of time or
\* is a deadlock's victim: what it has not committed is rolled back.
Abort(r) ==
  /\ ~At(r, "idle")
  /\ Finish(r)
  /\ holder' = [u \in User |-> IF holder[u] = r THEN None ELSE holder[u]]
  /\ NoWrite
  /\ UNCHANGED <<user, sess, newer>>

-----------------------------------------------------------------------------

Init ==
  /\ password = [u \in User |-> None]
  /\ deletedAt = [u \in User |-> "null"]
  /\ anonymized = [u \in User |-> FALSE]
  /\ locked = [u \in User |-> FALSE]
  /\ state = [s \in Sid |-> "absent"]
  /\ owner = [s \in Sid |-> None]
  /\ openedWith = [s \in Sid |-> None]
  /\ newer = {}
  /\ holder = [u \in User |-> None]
  /\ txn = [r \in Req |-> Idle]
  /\ audited = {}

RegisterStep(r) ==
  \/ \E u \in User, s \in Sid, p \in Password : RegisterInsert(r, u, s, p)
  \/ RegisterCommit(r)

LoginStep(r) ==
  \/ \E u \in User, p \in Password \cup {None} : LoginRead(r, u, p)
  \/ \E locks \in BOOLEAN : LoginRecordFailure(r, locks)
  \/ LoginAuditFailure(r)
  \/ \E s \in Sid : LoginSignIn(r, s)
  \/ LoginRefused(r) \/ LoginIssue(r) \/ LoginCommit(r)

CloseStep(r) ==
  \/ \E u \in User : RevokeAllUpdate(r, u)
  \/ RevokeAllAudit(r)
  \/ \E s \in Sid : ReuseDetect(r, s)
  \/ ReuseReject(r)

DeleteStep(r) == (\E u \in User : DeleteMark(r, u)) \/ DeleteCommit(r)

AnonStep(r) ==
  \/ \E u \in User : AnonPick(r, u)
  \/ AnonUpdate(r) \/ AnonSkip(r) \/ AnonCommit(r)

PasswordStep(r) ==
  \/ \E u \in User, s \in Sid, matches \in BOOLEAN : ChangeVerify(r, u, s, matches)
  \/ ChangeAuditFailure(r)
  \/ \E p \in Password : ChangeUpdate(r, p)
  \/ ChangeRefused(r) \/ ChangeCommit(r)
  \/ \E u \in User, p \in Password : ResetUpdate(r, u, p)
  \/ ResetCommit(r)

SessionStep ==
  \E s \in Sid : \/ \E u \in User : RevokeById(u, s)
               \/ Logout(s) \/ Rotate(s) \/ Purge(s) \/ Expire(s)

Next ==
  \/ \E r \in Req : \/ RegisterStep(r) \/ LoginStep(r) \/ CloseStep(r)
                   \/ DeleteStep(r) \/ AnonStep(r) \/ PasswordStep(r)
                   \/ Abort(r)
  \/ SessionStep
  \/ \E u \in User : UndoLapses(u) \/ LockLapses(u)

Spec == Init /\ [][Next]_vars

\* What a request does next when it need not wait for a row lock.
Proceed(r) ==
  \/ RegisterCommit(r)
  \/ LoginAuditFailure(r) \/ ChangeAuditFailure(r) \/ LoginIssue(r) \/ LoginCommit(r)
  \/ RevokeAllAudit(r) \/ ReuseReject(r)
  \/ DeleteCommit(r) \/ AnonCommit(r) \/ ChangeCommit(r) \/ ResetCommit(r)

\* What it does next when it needs the lock.
TakeLock(r) ==
  \/ \E locks \in BOOLEAN : LoginRecordFailure(r, locks)
  \/ (\E s \in Sid : LoginSignIn(r, s)) \/ LoginRefused(r)
  \/ AnonUpdate(r) \/ AnonSkip(r)
  \/ (\E p \in Password : ChangeUpdate(r, p)) \/ ChangeRefused(r)

\* A handler runs on, and PostgreSQL grants a row lock in the order of arrival.
\* The anonymization job comes round every day, and in the end a run of it does
\* not fail.  Nothing makes clients call, time pass or transactions fail.
JobFails(r) == txn[r].pc \in {"anon.picked", "anon.updated"} /\ Abort(r)

Fairness ==
  /\ \A r \in Req : WF_vars(Proceed(r)) /\ SF_vars(TakeLock(r))
  /\ \A u \in User : SF_vars(\E r \in Req : AnonPick(r, u))
  /\ <>[][\A r \in Req : ~JobFails(r)]_vars

FairSpec == Spec /\ Fairness

-----------------------------------------------------------------------------
(* Properties *)

\* Every row and every request in flight has the shape the schema gives it.
TypeOK ==
  /\ password \in [User -> Password \cup {None}]
  /\ deletedAt \in [User -> Deletion]
  /\ anonymized \in [User -> BOOLEAN] /\ locked \in [User -> BOOLEAN]
  /\ state \in [Sid -> SessionState]
  /\ owner \in [Sid -> User \cup {None}]
  /\ openedWith \in [Sid -> Password \cup {None}]
  /\ newer \subseteq Sid \X Sid
  /\ holder \in [User -> Req \cup {None}]
  /\ txn \in [Req -> [pc : Pc, user : User \cup {None}, sid : Sid \cup {None},
                      pw : Password \cup {None}, sawDeleted : BOOLEAN,
                      evict : SUBSET Sid]]

\* A deleted account, anonymized or not, has no session that could still be
\* refreshed: deleting (user.service remove) closes those there are, and no
\* login that was under way opens another without reactivating the account.
ClosedAccountHasNoOpenSession ==
  \A u \in User : deletedAt[u] # "null" => OpenOf(u) = {}

\* However many logins and refreshes overlap, a user never has more than
\* MAX_ACTIVE_SESSIONS live sessions (session.service revokeBeyondLimit).
SessionCap == \A u \in User : Cardinality(LiveOf(u)) <= MaxActive

\* Anonymization takes only accounts whose undo period is over, and no login,
\* reset or password change that was under way brings an anonymized account
\* back or gives it a password (README: the first to write wins).
AnonymizationStep ==
  \A u \in User :
    /\ anonymized'[u] /\ ~anonymized[u] => deletedAt[u] = "due"
    /\ anonymized[u] => /\ anonymized'[u]
                       /\ password'[u] = None
                       /\ deletedAt'[u] # "null"
AnonymizationIsFinal == [][AnonymizationStep]_vars

\* A login that reopens a deleted account says so: it writes user_reactivated
\* in the same transaction (README, "Denetim kaydi").
ReactivationAudited ==
  [][\A u \in User :
       deletedAt[u] # "null" /\ deletedAt'[u] = "null"
         => <<"user_reactivated", u>> \in audited']_vars

\* Every open session was opened, or kept, with the account's present password:
\* a change or reset closes the others (README, "Sifre degistirme").
SessionsCarryCurrentPassword ==
  \A s \in Sid : Unrevoked(s) => openedWith[s] = password[owner[s]]

\* Every request is answered: whatever happens to the account meanwhile, none
\* waits for ever for the user's row or is sent round again (auth.service login
\* and password.service change answer when no row was updated).
EveryRequestEnds == \A r \in Req : ~At(r, "idle") ~> At(r, "idle")

\* An account whose undo period is over is anonymized in the end, although runs
\* of the job fail and logins race it, unless its user signs in first.
DueAccountIsSettled ==
  \A u \in User : Due(u) ~> anonymized[u] \/ deletedAt[u] = "null"

\* What has become of each account, and the sessions it is used through.
Standing(u) == IF Absent(u) THEN "absent"
               ELSE IF anonymized[u] THEN "anonymized"
               ELSE IF deletedAt[u] = "null" THEN "active"
               ELSE "deleted"
acct == [u \in User |-> Standing(u)]
open == [u \in User |-> OpenOf(u)]

Lifecycle == INSTANCE AccountLifecycle WITH acct <- acct, open <- open

\* However the statements of concurrent transactions interleave, accounts and
\* sessions change as if every operation were a single step.
ActsAtomically == Lifecycle!Spec

=============================================================================
