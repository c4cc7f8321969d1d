----------------------- MODULE AccountSessionsProofs -----------------------
(***************************************************************************)
(* Safety of AccountSessions for any number of users, sessions, requests   *)
(* and passwords and any limit.                                            *)
(***************************************************************************)
EXTENDS AccountSessions, FiniteSetTheorems, TLAPS

\* A request that has read an account has a user; one that has updated the
\* user's row holds its lock, and nobody else does.
LockInv ==
  /\ \A r \in Req : ~At(r, "idle") => txn[r].user \in User
  /\ \A u \in User, r \in Req :
       holder[u] = r <=> txn[r].pc \in Locking /\ txn[r].user = u

\* What the WHERE clause of a transaction's first UPDATE found still holds
\* while the lock is held.
ReadyInv ==
  \A r \in Req :
    /\ At(r, "register.inserted") => Absent(txn[r].user)
    /\ txn[r].pc \in {"login.signedIn", "login.issued", "reset.updated"}
         => Exists(txn[r].user) /\ ~anonymized[txn[r].user]
    /\ txn[r].pc \in {"delete.marked", "change.updated"}
         => Exists(txn[r].user) /\ deletedAt[txn[r].user] = "null"
    /\ At(r, "anon.updated") => Due(txn[r].user)
    /\ At(r, "login.verified") => Exists(txn[r].user)
    /\ txn[r].pc \in Creating \cup {"login.verified", "change.updated",
                                   "reset.updated"}
         => txn[r].pw \in Password

\* An uncommitted session has an id of its own.
ReservedInv ==
  /\ \A r \in Req : txn[r].pc \in Creating
                      => txn[r].sid \in Sid /\ state[txn[r].sid] = "absent"
  /\ \A q, r \in Req : /\ txn[q].pc \in Creating
                       /\ txn[r].pc \in Creating
                       /\ txn[q].sid = txn[r].sid
                       => q = r

\* A session belongs to an account that was registered; a password change was
\* asked for through a session of its user, and a login closes only such.
OwnerInv ==
  /\ \A s \in Sid : state[s] # "absent" <=> owner[s] \in User
  /\ \A s \in Sid : owner[s] \in User => Exists(owner[s])
  /\ \A r \in Req : txn[r].pc \in {"change.verified", "change.updated"}
                      => Bearer(txn[r].user, txn[r].sid) /\ txn[r].sid \in Sid
  /\ \A r \in Req : At(r, "login.issued")
       => \A s \in txn[r].evict : owner[s] = txn[r].user \/ s = txn[r].sid

\* Only a registered account is deleted, and only a deleted one anonymized.
AccountInv ==
  \A u \in User : /\ Absent(u) => deletedAt[u] = "null"
                  /\ anonymized[u] => deletedAt[u] = "due" /\ password[u] = None

\* What is left of the live sessions, and the new one, when a login commits.
CapInv ==
  /\ SessionCap
  /\ \A r \in Req : At(r, "login.issued") =>
       Cardinality((LiveOf(txn[r].user) \cup {txn[r].sid}) \ txn[r].evict) <= MaxActive

CoreInv == /\ TypeOK /\ LockInv /\ ReadyInv /\ ReservedInv /\ OwnerInv
           /\ AccountInv /\ ClosedAccountHasNoOpenSession
IInv == CoreInv /\ CapInv

-----------------------------------------------------------------------------
(* The invariant but for the limit on sessions *)

LEMMA CoreInit == Init => CoreInv
  BY ConstantsAssumption
  DEF Init, CoreInv, TypeOK, LockInv, ReadyInv, ReservedInv, OwnerInv, AccountInv,
         ClosedAccountHasNoOpenSession,
      Pc, Locking, Creating, Deletion, SessionState, Request, For, Idle, At,
      Absent, Exists, Due, Bearer, OpenOf, SessionsOf, Unrevoked

\* Every step keeps it: an action that changes an account or commits a session
\* finds what ReadyInv says, because it holds the lock; the others touch neither
\* what other requests hold nor the accounts they hold.
LEMMA CoreStep == CoreInv /\ [Next]_vars => CoreInv'
<1> SUFFICES ASSUME CoreInv, [Next]_vars PROVE CoreInv'
  OBVIOUS
<1> USE ConstantsAssumption
    DEF CoreInv, TypeOK, LockInv, ReadyInv, ReservedInv, OwnerInv, AccountInv,
         ClosedAccountHasNoOpenSession,
        Pc, Locking, Creating, Deletion, SessionState, Request, For, Idle, At,
        Goto, Finish, user, sess, Absent, Exists, Due, Bearer,
        OpenOf, SessionsOf, Unrevoked
<1>1. ASSUME NEW r \in Req, RegisterStep(r) PROVE CoreInv'
  <2>1. ASSUME NEW u \in User, NEW s \in Sid, NEW p \in Password, RegisterInsert(r, u, s, p)
        PROVE  CoreInv'
    BY <2>1 DEF RegisterInsert, Start, Free, LockRow, RowFree, Absent,
       NoWrite
  <2>2. CASE RegisterCommit(r)
    BY <2>2 DEF RegisterCommit, UnlockRow, Opened, Stamp, Write
  <2> HIDE DEF CoreInv
  <2>3. QED
    BY <1>1, <2>1, <2>2 DEF RegisterStep
<1>2. ASSUME NEW r \in Req, LoginStep(r) PROVE CoreInv'
  <2>1. ASSUME NEW u \in User, NEW p \in Password \cup {None}, LoginRead(r, u, p)
        PROVE  CoreInv'
    BY <2>1 DEF LoginRead, Start, NoWrite
  <2>2. ASSUME NEW locks \in BOOLEAN, LoginRecordFailure(r, locks)
        PROVE  CoreInv'
    BY <2>2 DEF LoginRecordFailure, RowFree, Write
  <2>3. CASE LoginAuditFailure(r)
    BY <2>3 DEF LoginAuditFailure, Write
  <2>4. ASSUME NEW s \in Sid, LoginSignIn(r, s)
        PROVE  CoreInv'
    BY <2>4 DEF LoginSignIn, MaySignIn, LockRow, RowFree, Free, Stamp,
       NoWrite
  <2>5. CASE LoginRefused(r)
    BY <2>5 DEF LoginRefused, NoWrite
  <2>6. CASE LoginIssue(r)
    BY <2>6 DEF LoginIssue, LiveOf, SessionsOf, MostRecent, NoWrite
  <2>7. CASE LoginCommit(r)
    BY <2>7 DEF LoginCommit, UnlockRow, Opened, Revoked, Write
  <2> HIDE DEF CoreInv
  <2>8. QED
    BY <1>2, <2>1, <2>2, <2>3, <2>4, <2>5, <2>6, <2>7 DEF LoginStep
<1>3. ASSUME NEW r \in Req, CloseStep(r) PROVE CoreInv'
  <2>1. ASSUME NEW u \in User, RevokeAllUpdate(r, u)
        PROVE  CoreInv'
    BY <2>1 DEF RevokeAllUpdate, Start, Close, Revoked, NoWrite
  <2>2. CASE RevokeAllAudit(r)
    BY <2>2 DEF RevokeAllAudit, Write
  <2>3. ASSUME NEW s \in Sid, ReuseDetect(r, s)
        PROVE  CoreInv'
    BY <2>3 DEF ReuseDetect, Start, NoWrite
  <2>4. CASE ReuseReject(r)
    BY <2>4 DEF ReuseReject, Close, Revoked, Write
  <2> HIDE DEF CoreInv
  <2>5. QED
    BY <1>3, <2>1, <2>2, <2>3, <2>4 DEF CloseStep
<1>4. ASSUME NEW r \in Req, DeleteStep(r) PROVE CoreInv'
  <2>1. ASSUME NEW u \in User, DeleteMark(r, u)
        PROVE  CoreInv'
    BY <2>1 DEF DeleteMark, Start, LockRow, RowFree, NoWrite
  <2>2. CASE DeleteCommit(r)
    BY <2>2 DEF DeleteCommit, Close, Revoked, UnlockRow, Write
  <2> HIDE DEF CoreInv
  <2>3. QED
    BY <1>4, <2>1, <2>2 DEF DeleteStep
<1>5. ASSUME NEW r \in Req, AnonStep(r) PROVE CoreInv'
  <2>1. ASSUME NEW u \in User, AnonPick(r, u)
        PROVE  CoreInv'
    BY <2>1 DEF AnonPick, Start, NoWrite
  <2>2. CASE AnonUpdate(r)
    BY <2>2 DEF AnonUpdate, LockRow, RowFree, NoWrite
  <2>3. CASE AnonSkip(r)
    BY <2>3 DEF AnonSkip, NoWrite
  <2>4. CASE AnonCommit(r)
    BY <2>4 DEF AnonCommit, UnlockRow, Write
  <2> HIDE DEF CoreInv
  <2>5. QED
    BY <1>5, <2>1, <2>2, <2>3, <2>4 DEF AnonStep
<1>6. ASSUME NEW r \in Req, PasswordStep(r) PROVE CoreInv'
  <2>1. ASSUME NEW u \in User, NEW s \in Sid, NEW matches \in BOOLEAN,
              ChangeVerify(r, u, s, matches)
        PROVE  CoreInv'
    BY <2>1 DEF ChangeVerify, Start, NoWrite
  <2>2. ASSUME NEW p \in Password, ChangeUpdate(r, p)
        PROVE  CoreInv'
    BY <2>2 DEF ChangeUpdate, LockRow, RowFree, NoWrite
  <2>3. CASE ChangeRefused(r)
    BY <2>3 DEF ChangeRefused, NoWrite
  <2>4. CASE ChangeCommit(r)
    BY <2>4 DEF ChangeCommit, UnlockRow, Revoked, Write
  <2>5. ASSUME NEW u \in User, NEW p \in Password, ResetUpdate(r, u, p)
        PROVE  CoreInv'
    BY <2>5 DEF ResetUpdate, Start, LockRow, RowFree, NoWrite
  <2>6. CASE ResetCommit(r)
    BY <2>6 DEF ResetCommit, UnlockRow, Close, Revoked, Write
  <2>7. CASE ChangeAuditFailure(r)
    BY <2>7 DEF ChangeAuditFailure, Write
  <2> HIDE DEF CoreInv
  <2>8. QED
    BY <1>6, <2>1, <2>2, <2>3, <2>4, <2>5, <2>6, <2>7 DEF PasswordStep
<1>7. ASSUME NEW r \in Req, Abort(r) PROVE CoreInv'
  BY <1>7 DEF Abort, NoWrite
<1>8. ASSUME SessionStep PROVE CoreInv'
  <2>1. ASSUME NEW u \in User, NEW s \in Sid, RevokeById(u, s)
        PROVE  CoreInv'
    BY <2>1 DEF RevokeById, Close, Revoked, Write
  <2>2. ASSUME NEW s \in Sid, Logout(s)
        PROVE  CoreInv'
    BY <2>2 DEF Logout, Close, Revoked, Write
  <2>3. ASSUME NEW s \in Sid, Rotate(s)
        PROVE  CoreInv'
    BY <2>3 DEF Rotate, Stamp, NoWrite
  <2>4. ASSUME NEW s \in Sid, Purge(s)
        PROVE  CoreInv'
    BY <2>4 DEF Purge, NoWrite
  <2>5. ASSUME NEW s \in Sid, Expire(s)
        PROVE  CoreInv'
    BY <2>5 DEF Expire, NoWrite
  <2> HIDE DEF CoreInv
  <2>6. QED
    BY <1>8, <2>1, <2>2, <2>3, <2>4, <2>5 DEF SessionStep
<1>9. ASSUME NEW u \in User, UndoLapses(u) \/ LockLapses(u) PROVE CoreInv'
  <2>1. CASE UndoLapses(u)
    BY <2>1 DEF UndoLapses, NoWrite
  <2>2. CASE LockLapses(u)
    BY <2>2 DEF LockLapses, NoWrite
  <2>3. QED
    BY <1>9, <2>1, <2>2
<1>10. CASE UNCHANGED vars
  BY <1>10 DEF vars
<1> HIDE DEF CoreInv
<1>11. QED
  BY <1>1, <1>2, <1>3, <1>4, <1>5, <1>6, <1>7, <1>8, <1>9, <1>10 DEF Next

-----------------------------------------------------------------------------
(* The limit on sessions *)

LEMMA CapInit == Init => CapInv
<1> SUFFICES ASSUME Init PROVE CapInv
  OBVIOUS
<1>1. \A u \in User : LiveOf(u) = {}
  BY DEF Init, LiveOf, SessionsOf
<1>2. Cardinality({}) = 0
  BY FS_EmptySet
<1>3. SessionCap
  BY <1>1, <1>2, ConstantsAssumption DEF SessionCap
<1>4. \A r \in Req : ~At(r, "login.issued")
  BY DEF Init, At, Idle, For, Request
<1>5. QED
  BY <1>3, <1>4 DEF CapInv

\* A part of a set of at most MaxActive is one.
LEMMA SmallerIsWithin ==
  ASSUME NEW S, NEW T \in SUBSET S, IsFiniteSet(S), Cardinality(S) <= MaxActive
  PROVE  Cardinality(T) <= MaxActive
<1>1. Cardinality(T) <= Cardinality(S) /\ IsFiniteSet(T)
  BY FS_Subset
<1>2. Cardinality(S) \in Nat /\ Cardinality(T) \in Nat
  BY <1>1, FS_CardinalityType
<1>3. QED
  BY <1>1, <1>2, ConstantsAssumption

LEMMA LiveFinite == \A u : IsFiniteSet(LiveOf(u))
  BY FS_Subset, ConstantsAssumption DEF LiveOf, SessionsOf

\* Closing sessions and having no login choose anew keeps the limit.
LEMMA FewerKeepCap ==
  ASSUME CapInv,
         \A u \in User : LiveOf(u)' \subseteq LiveOf(u),
         \A r \in Req : At(r, "login.issued")' => txn'[r] = txn[r],
         LockInv
  PROVE  CapInv'
<1>1. SessionCap'
  BY SmallerIsWithin, LiveFinite DEF CapInv, SessionCap
<1>2. ASSUME NEW r \in Req, At(r, "login.issued")'
      PROVE  Cardinality((LiveOf(txn[r].user) \cup {txn[r].sid})
                          \ txn[r].evict)' <= MaxActive
  <2>1. /\ txn'[r] = txn[r] /\ At(r, "login.issued")
        /\ txn[r].user \in User
    BY <1>2 DEF At, LockInv
  <2> DEFINE S == (LiveOf(txn[r].user) \cup {txn[r].sid}) \ txn[r].evict
  <2>2. S' \subseteq S
    BY <2>1
  <2>3. IsFiniteSet(S)
    BY LiveFinite, FS_AddElement, FS_Difference
  <2>4. Cardinality(S) <= MaxActive
    BY <2>1 DEF CapInv
  <2>5. QED
    BY SmallerIsWithin, <2>2, <2>3, <2>4
<1>3. QED
  BY <1>1, <1>2 DEF CapInv

\* Every action but these three only closes sessions.
Fewer == /\ \A u \in User : LiveOf(u)' \subseteq LiveOf(u)
         /\ \A r \in Req : At(r, "login.issued")' => txn'[r] = txn[r]

LEMMA FewerStep ==
  CoreInv /\ [Next]_vars
    => \/ Fewer
       \/ \E r \in Req : RegisterCommit(r) \/ LoginIssue(r) \/ LoginCommit(r)
<1> DEFINE Adds == \E r \in Req : \/ RegisterCommit(r) \/ LoginIssue(r)
                                  \/ LoginCommit(r)
<1> SUFFICES ASSUME CoreInv, [Next]_vars PROVE Fewer \/ Adds
  OBVIOUS
<1> USE DEF CoreInv, TypeOK, Fewer, Request, For, Idle, At, Goto, Finish, user,
            sess, LiveOf, SessionsOf, Unrevoked
<1>1. ASSUME NEW r \in Req, RegisterStep(r) PROVE (Fewer \/ Adds)
  <2>1. ASSUME NEW u \in User, NEW s \in Sid, NEW p \in Password, RegisterInsert(r, u, s, p)
        PROVE  (Fewer \/ Adds)
    BY <2>1 DEF RegisterInsert, Start, Free, LockRow, RowFree, Absent,
       NoWrite
  <2>2. CASE RegisterCommit(r)
    BY <2>2
  <2>3. QED
    BY <1>1, <2>1, <2>2 DEF RegisterStep
<1>2. ASSUME NEW r \in Req, LoginStep(r) PROVE (Fewer \/ Adds)
  <2>1. ASSUME NEW u \in User, NEW p \in Password \cup {None}, LoginRead(r, u, p)
        PROVE  (Fewer \/ Adds)
    BY <2>1 DEF LoginRead, Start, NoWrite
  <2>2. ASSUME NEW locks \in BOOLEAN, LoginRecordFailure(r, locks)
        PROVE  (Fewer \/ Adds)
    BY <2>2 DEF LoginRecordFailure, RowFree, Write
  <2>3. CASE LoginAuditFailure(r)
    BY <2>3 DEF LoginAuditFailure, Write
  <2>4. ASSUME NEW s \in Sid, LoginSignIn(r, s)
        PROVE  (Fewer \/ Adds)
    BY <2>4 DEF LoginSignIn, MaySignIn, LockRow, RowFree, Free, Stamp,
       NoWrite
  <2>5. CASE LoginRefused(r)
    BY <2>5 DEF LoginRefused, NoWrite
  <2>6. CASE LoginIssue(r)
    BY <2>6
  <2>7. CASE LoginCommit(r)
    BY <2>7
  <2>8. QED
    BY <1>2, <2>1, <2>2, <2>3, <2>4, <2>5, <2>6, <2>7 DEF LoginStep
<1>3. ASSUME NEW r \in Req, CloseStep(r) PROVE (Fewer \/ Adds)
  <2>1. ASSUME NEW u \in User, RevokeAllUpdate(r, u)
        PROVE  (Fewer \/ Adds)
    BY <2>1 DEF RevokeAllUpdate, Start, Close, Revoked, NoWrite
  <2>2. CASE RevokeAllAudit(r)
    BY <2>2 DEF RevokeAllAudit, Write
  <2>3. ASSUME NEW s \in Sid, ReuseDetect(r, s)
        PROVE  (Fewer \/ Adds)
    BY <2>3 DEF ReuseDetect, Start, NoWrite
  <2>4. CASE ReuseReject(r)
    BY <2>4 DEF ReuseReject, Close, Revoked, Write
  <2>5. QED
    BY <1>3, <2>1, <2>2, <2>3, <2>4 DEF CloseStep
<1>4. ASSUME NEW r \in Req, DeleteStep(r) PROVE (Fewer \/ Adds)
  <2>1. ASSUME NEW u \in User, DeleteMark(r, u)
        PROVE  (Fewer \/ Adds)
    BY <2>1 DEF DeleteMark, Start, LockRow, RowFree, NoWrite
  <2>2. CASE DeleteCommit(r)
    BY <2>2 DEF DeleteCommit, Close, Revoked, UnlockRow, Write
  <2>3. QED
    BY <1>4, <2>1, <2>2 DEF DeleteStep
<1>5. ASSUME NEW r \in Req, AnonStep(r) PROVE (Fewer \/ Adds)
  <2>1. ASSUME NEW u \in User, AnonPick(r, u)
        PROVE  (Fewer \/ Adds)
    BY <2>1 DEF AnonPick, Start, NoWrite
  <2>2. CASE AnonUpdate(r)
    BY <2>2 DEF AnonUpdate, LockRow, RowFree, NoWrite
  <2>3. CASE AnonSkip(r)
    BY <2>3 DEF AnonSkip, NoWrite
  <2>4. CASE AnonCommit(r)
    BY <2>4 DEF AnonCommit, UnlockRow, Write
  <2>5. QED
    BY <1>5, <2>1, <2>2, <2>3, <2>4 DEF AnonStep
<1>6. ASSUME NEW r \in Req, PasswordStep(r) PROVE (Fewer \/ Adds)
  <2>1. ASSUME NEW u \in User, NEW s \in Sid, NEW matches \in BOOLEAN,
              ChangeVerify(r, u, s, matches)
        PROVE  (Fewer \/ Adds)
    BY <2>1 DEF ChangeVerify, Start, NoWrite
  <2>2. ASSUME NEW p \in Password, ChangeUpdate(r, p)
        PROVE  (Fewer \/ Adds)
    BY <2>2 DEF ChangeUpdate, LockRow, RowFree, NoWrite
  <2>3. CASE ChangeRefused(r)
    BY <2>3 DEF ChangeRefused, NoWrite
  <2>4. CASE ChangeCommit(r)
    BY <2>4 DEF ChangeCommit, UnlockRow, Revoked, Write
  <2>5. ASSUME NEW u \in User, NEW p \in Password, ResetUpdate(r, u, p)
        PROVE  (Fewer \/ Adds)
    BY <2>5 DEF ResetUpdate, Start, LockRow, RowFree, NoWrite
  <2>6. CASE ResetCommit(r)
    BY <2>6 DEF ResetCommit, UnlockRow, Close, Revoked, Write
  <2>7. CASE ChangeAuditFailure(r)
    BY <2>7 DEF ChangeAuditFailure, Write
  <2>8. QED
    BY <1>6, <2>1, <2>2, <2>3, <2>4, <2>5, <2>6, <2>7 DEF PasswordStep
<1>7. ASSUME NEW r \in Req, Abort(r) PROVE (Fewer \/ Adds)
  BY <1>7 DEF Abort, NoWrite
<1>8. ASSUME SessionStep PROVE (Fewer \/ Adds)
  <2>1. ASSUME NEW u \in User, NEW s \in Sid, RevokeById(u, s)
        PROVE  (Fewer \/ Adds)
    BY <2>1 DEF RevokeById, Close, Revoked, Write
  <2>2. ASSUME NEW s \in Sid, Logout(s)
        PROVE  (Fewer \/ Adds)
    BY <2>2 DEF Logout, Close, Revoked, Write
  <2>3. ASSUME NEW s \in Sid, Rotate(s)
        PROVE  (Fewer \/ Adds)
    BY <2>3 DEF Rotate, Stamp, NoWrite
  <2>4. ASSUME NEW s \in Sid, Purge(s)
        PROVE  (Fewer \/ Adds)
    BY <2>4 DEF Purge, NoWrite
  <2>5. ASSUME NEW s \in Sid, Expire(s)
        PROVE  (Fewer \/ Adds)
    BY <2>5 DEF Expire, NoWrite
  <2>6. QED
    BY <1>8, <2>1, <2>2, <2>3, <2>4, <2>5 DEF SessionStep
<1>9. ASSUME NEW u \in User, UndoLapses(u) \/ LockLapses(u) PROVE (Fewer \/ Adds)
  <2>1. CASE UndoLapses(u)
    BY <2>1 DEF UndoLapses, NoWrite
  <2>2. CASE LockLapses(u)
    BY <2>2 DEF LockLapses, NoWrite
  <2>3. QED
    BY <1>9, <2>1, <2>2
<1>10. CASE UNCHANGED vars
  BY <1>10 DEF vars
<1> HIDE DEF Fewer, Adds
<1>11. QED
  BY <1>1, <1>2, <1>3, <1>4, <1>5, <1>6, <1>7, <1>8, <1>9, <1>10 DEF Next

\* A login keeps at most MaxActive of the sessions it found live and its own;
\* until it commits, only it may add to them, for it holds the lock.
LEMMA CapStep == CoreInv /\ CapInv /\ [Next]_vars => CapInv'
<1> SUFFICES ASSUME CoreInv, CapInv, [Next]_vars PROVE CapInv'
  OBVIOUS
<1>1. CASE Fewer
  BY <1>1, FewerKeepCap DEF Fewer, CoreInv
<1>2. ASSUME NEW r \in Req, RegisterCommit(r) PROVE CapInv'
  <2>1. PICK u \in User, s \in Sid :
          u = txn[r].user /\ s = txn[r].sid /\ Absent(u)
    BY <1>2 DEF RegisterCommit, CoreInv, LockInv, ReadyInv, ReservedInv, At, Creating
  <2>2. LiveOf(u)' = {s}
    BY <1>2, <2>1 DEF RegisterCommit, Opened, LiveOf, SessionsOf, CoreInv,
                     TypeOK, OwnerInv, Exists
  <2>3. Cardinality(LiveOf(u)') <= MaxActive
    BY <2>2, FS_Singleton, ConstantsAssumption
  <2>4. \A v \in User \ {u} : LiveOf(v)' = LiveOf(v)
    BY <1>2, <2>1 DEF RegisterCommit, Opened, LiveOf, SessionsOf, CoreInv,
                     TypeOK, OwnerInv, ReservedInv, Creating, At
  <2>5. \A q \in Req : At(q, "login.issued")'
           => At(q, "login.issued") /\ txn'[q] = txn[q] /\ txn[q].user \in User \ {u}
    BY <1>2, <2>1 DEF RegisterCommit, Finish, Goto, At, Idle, For, Request,
                     CoreInv, TypeOK, LockInv, Locking
  <2>6. SessionCap'
    BY <2>3, <2>4 DEF CapInv, SessionCap
  <2>7. QED
    BY <2>4, <2>5, <2>6 DEF CapInv
<1>3. ASSUME NEW r \in Req, LoginIssue(r) PROVE CapInv'
  <2> DEFINE u == txn[r].user
             s == txn[r].sid
             L == LiveOf(u) \cup {s}
  <2>1. PICK keep \in SUBSET L :
          /\ MostRecent(keep, L)
          /\ Goto(r, Request("login.issued", u, s, txn[r].pw,
                             txn[r].sawDeleted, L \ keep))
    BY <1>3 DEF LoginIssue
  <2>2. \A v \in User : LiveOf(v)' = LiveOf(v)
    BY <1>3 DEF LoginIssue, LiveOf, SessionsOf, sess
  <2>3. /\ txn'[r].user = u /\ txn'[r].sid = s /\ txn'[r].evict = L \ keep
        /\ \A q \in Req \ {r} : txn'[q] = txn[q]
    BY <2>1 DEF Goto, Request, CoreInv, TypeOK
  <2>4. u \in User
    BY <1>3 DEF LoginIssue, CoreInv, LockInv, At
  <2>5. (L \ (L \ keep)) = keep /\ Cardinality(keep) <= MaxActive
    BY <2>1 DEF MostRecent
  <2>6. ASSUME NEW q \in Req, At(q, "login.issued")'
        PROVE  Cardinality((LiveOf(txn[q].user) \cup {txn[q].sid})
                            \ txn[q].evict)' <= MaxActive
    <3>1. CASE q = r
      BY <3>1, <2>2, <2>3, <2>4, <2>5
    <3>2. CASE q # r
      <4>1. txn'[q] = txn[q] /\ txn[q].user \in User /\ At(q, "login.issued")
        BY <3>2, <2>3, <2>6 DEF At, CoreInv, LockInv
      <4>2. QED
        BY <4>1, <2>2 DEF CapInv
    <3>3. QED
      BY <3>1, <3>2
  <2>7. QED
    BY <2>2, <2>6 DEF CapInv, SessionCap
<1>4. ASSUME NEW r \in Req, LoginCommit(r) PROVE CapInv'
  <2>1. PICK u \in User, s \in Sid :
          /\ u = txn[r].user /\ s = txn[r].sid
          /\ state[s] = "absent" /\ At(r, "login.issued")
    BY <1>4 DEF LoginCommit, CoreInv, LockInv, ReservedInv, At, Creating
  <2>2. LiveOf(u)' = (LiveOf(u) \cup {s}) \ txn[r].evict
    BY <1>4, <2>1 DEF LoginCommit, Opened, Revoked, Unrevoked, LiveOf, SessionsOf,
                     CoreInv, TypeOK
  <2>3. \A v \in User \ {u} : LiveOf(v)' \subseteq LiveOf(v)
    BY <1>4, <2>1 DEF LoginCommit, Opened, Revoked, Unrevoked, LiveOf, SessionsOf,
                     CoreInv, TypeOK, OwnerInv
  <2>4. \A q \in Req : At(q, "login.issued")'
           => At(q, "login.issued") /\ txn'[q] = txn[q] /\ txn[q].user \in User \ {u}
    BY <1>4, <2>1 DEF LoginCommit, Finish, Goto, At, Idle, For, Request,
                     CoreInv, TypeOK, LockInv, Locking
  <2>5. Cardinality(LiveOf(u)') <= MaxActive
    BY <2>1, <2>2 DEF CapInv
  <2>6. SessionCap'
    BY <2>3, <2>5, SmallerIsWithin, LiveFinite DEF CapInv, SessionCap
  <2>7. ASSUME NEW q \in Req, At(q, "login.issued")'
        PROVE  Cardinality((LiveOf(txn[q].user) \cup {txn[q].sid})
                            \ txn[q].evict)' <= MaxActive
    <3> DEFINE S == (LiveOf(txn[q].user) \cup {txn[q].sid}) \ txn[q].evict
    <3>1. S' \subseteq S
      BY <2>3, <2>4, <2>7
    <3>2. IsFiniteSet(S)
      BY LiveFinite, FS_AddElement, FS_Difference
    <3>3. Cardinality(S) <= MaxActive
      BY <2>4, <2>7 DEF CapInv
    <3>4. QED
      BY <3>1, <3>2, <3>3, SmallerIsWithin
  <2>8. QED
    BY <2>6, <2>7 DEF CapInv
<1>5. QED
  BY <1>1, <1>2, <1>3, <1>4, FewerStep

-----------------------------------------------------------------------------
(* What follows *)

LEMMA Invariance == Spec => []IInv
<1>1. Init => IInv
  BY CoreInit, CapInit DEF IInv
<1>2. IInv /\ [Next]_vars => IInv'
  BY CoreStep, CapStep DEF IInv
<1>3. QED
  BY <1>1, <1>2, PTL DEF Spec

\* Every row and every request in flight keeps its shape.
THEOREM TypeCorrect == Spec => []TypeOK
<1>1. IInv => TypeOK
  BY DEF IInv, CoreInv
<1>2. QED
  BY <1>1, Invariance, PTL

\* A deleted or anonymized account has no session that could be refreshed.
THEOREM ClosedAccountsStayClosed == Spec => []ClosedAccountHasNoOpenSession
<1>1. IInv => ClosedAccountHasNoOpenSession
  BY DEF IInv, CoreInv
<1>2. QED
  BY <1>1, Invariance, PTL

\* No user has more than MaxActive live sessions.
THEOREM SessionsAreCapped == Spec => []SessionCap
<1>1. IInv => SessionCap
  BY DEF IInv, CapInv
<1>2. QED
  BY <1>1, Invariance, PTL

\* Anonymization takes only due accounts and is never undone.
THEOREM AnonymizationStays == Spec => AnonymizationIsFinal
<1> DEFINE Stays == \/ UNCHANGED anonymized
                    \/ \E v \in User : Due(v) /\ anonymized' = [anonymized EXCEPT ![v] = TRUE]
<1>1. ASSUME CoreInv, [Next]_vars PROVE Stays
  <2>1. ASSUME NEW r \in Req, AnonCommit(r) PROVE Stays
    BY <1>1, <2>1 DEF AnonCommit, CoreInv, ReadyInv, LockInv, At
  <2>2. QED
    BY <1>1, <2>1
    DEF Next, RegisterStep, LoginStep, CloseStep, DeleteStep, AnonStep,
        PasswordStep, SessionStep, RegisterInsert, RegisterCommit, LoginRead,
        LoginRecordFailure, LoginAuditFailure, LoginSignIn, LoginRefused,
        LoginIssue, LoginCommit, ChangeAuditFailure, RevokeById, Logout, RevokeAllUpdate,
        RevokeAllAudit, ReuseDetect, ReuseReject, Rotate, Purge, DeleteMark,
        DeleteCommit, AnonPick, AnonUpdate, AnonSkip, ChangeVerify, ChangeUpdate,
        ChangeRefused, ChangeCommit, ResetUpdate, ResetCommit, Expire, UndoLapses,
        LockLapses, Abort, user, vars
<1>2. ASSUME CoreInv, CoreInv', Stays PROVE AnonymizationStep
  BY <1>2 DEF AnonymizationStep, CoreInv, AccountInv, TypeOK, Due
<1> HIDE DEF Stays
<1>3. IInv /\ [Next]_vars => [AnonymizationStep]_vars
  BY <1>1, <1>2, CoreStep DEF IInv
<1>4. QED
  BY <1>3, Invariance, PTL DEF Spec, AnonymizationIsFinal


-----------------------------------------------------------------------------
(* The operations act as if they were atomic *)

LEMMA MappedInit == Init => Lifecycle!Init
  BY ConstantsAssumption
  DEF Init, Lifecycle!Init, acct, open, Standing, Absent, OpenOf, SessionsOf,
      Unrevoked

Mapped == [Lifecycle!Next]_<<acct, open>>

LEMMA AcctExcept ==
  ASSUME NEW u \in User, NEW x, Standing(u)' = x,
         \A v \in User \ {u} : Standing(v)' = Standing(v)
  PROVE  acct' = [acct EXCEPT ![u] = x]
  BY DEF acct

LEMMA OpenExcept ==
  ASSUME NEW u \in User, NEW S, OpenOf(u)' = S,
         \A v \in User \ {u} : OpenOf(v)' = OpenOf(v)
  PROVE  open' = [open EXCEPT ![u] = S]
  BY DEF open

LEMMA SameStanding ==
  ASSUME \A u \in User : Standing(u)' = Standing(u) PROVE acct' = acct
  BY DEF acct

\* Closing sessions of one account closes them in the abstract account.
LEMMA ClosingIsClose ==
  ASSUME \A v \in User : Standing(v)' = Standing(v), UNCHANGED owner, NEW u \in User,
         \A s \in Sid : state'[s] # state[s]
           => owner[s] = u /\ state'[s] \notin {"live", "expired"}
  PROVE  Mapped
<1> DEFINE closed == OpenOf(u) \ OpenOf(u)'
<1>1. OpenOf(u)' = OpenOf(u) \ closed
  BY DEF OpenOf, SessionsOf, Unrevoked
<1>2. \A v \in User \ {u} : OpenOf(v)' = OpenOf(v)
  BY DEF OpenOf, SessionsOf, Unrevoked
<1>3. closed \in SUBSET Sid
  BY DEF OpenOf, SessionsOf
<1>4. open' = [open EXCEPT ![u] = open[u] \ closed]
  BY <1>1, <1>2, OpenExcept DEF open
<1>5. Lifecycle!Close(u, closed)
  BY <1>4, SameStanding DEF Lifecycle!Close
<1>6. QED
  BY <1>3, <1>5 DEF Mapped, Lifecycle!Next

LEMMA StutterIsMapped == UNCHANGED <<password, deletedAt, anonymized, sess>> => Mapped
  BY DEF Mapped, acct, open, Standing, Absent, OpenOf, SessionsOf, Unrevoked, sess

LEMMA StepIsMapped == CoreInv /\ [Next]_vars => Mapped
<1> SUFFICES ASSUME CoreInv, [Next]_vars PROVE Mapped
  OBVIOUS
<1>1. ASSUME NEW r \in Req, RegisterStep(r) PROVE Mapped
  <2>1. ASSUME NEW u \in User, NEW s \in Sid, NEW p \in Password, RegisterInsert(r, u, s, p)
        PROVE  Mapped
    BY <2>1, StutterIsMapped DEF RegisterInsert, user
  <2>2. CASE RegisterCommit(r)
    <3>1. PICK u \in User, s \in Sid : u = txn[r].user /\ s = txn[r].sid
      BY <2>2 DEF RegisterCommit, CoreInv, LockInv, ReservedInv, Creating, At
    <3>2. /\ Standing(u) \in {"absent"} /\ Standing(u)' = "active"
          /\ \A v \in User \ {u} : Standing(v)' = Standing(v)
      BY <2>2, <3>1, ConstantsAssumption
      DEF RegisterCommit, Standing, Absent, Exists, Due, CoreInv, TypeOK, ReadyInv,
          AccountInv, At, Creating
    <3>3. /\ OpenOf(u)' = {s}
          /\ \A v \in User \ {u} : OpenOf(v)' = OpenOf(v)
      BY <2>2, <3>1
      DEF RegisterCommit, Opened, OpenOf, SessionsOf, Unrevoked, Absent, Exists, At,
          CoreInv, TypeOK, ReadyInv, ReservedInv, OwnerInv, Creating
    <3>4. Lifecycle!Register(u, s)
      BY <3>2, <3>3, AcctExcept, OpenExcept, <3>1, <2>2
      DEF Lifecycle!Register, acct, open, Lifecycle!Fresh, OpenOf, SessionsOf,
          Unrevoked, CoreInv, ReservedInv, Creating, At, RegisterCommit
    <3>5. QED
      BY <3>4 DEF Mapped, Lifecycle!Next
  <2>3. QED
    BY <1>1, <2>1, <2>2 DEF RegisterStep
<1>2. ASSUME NEW r \in Req, LoginStep(r) PROVE Mapped
  <2>1. ASSUME NEW u \in User, NEW p \in Password \cup {None}, LoginRead(r, u, p)
        PROVE  Mapped
    BY <2>1, StutterIsMapped DEF LoginRead, user
  <2>2. ASSUME NEW locks \in BOOLEAN, LoginRecordFailure(r, locks)
        PROVE  Mapped
    BY <2>2, StutterIsMapped DEF LoginRecordFailure, user
  <2>3. CASE LoginAuditFailure(r)
    BY <2>3, StutterIsMapped DEF LoginAuditFailure, user
  <2>4. ASSUME NEW s \in Sid, LoginSignIn(r, s)
        PROVE  Mapped
    BY <2>4, StutterIsMapped DEF LoginSignIn, user
  <2>5. CASE LoginRefused(r)
    BY <2>5, StutterIsMapped DEF LoginRefused, user
  <2>6. CASE LoginIssue(r)
    BY <2>6, StutterIsMapped DEF LoginIssue, user
  <2>7. CASE LoginCommit(r)
    <3>1. PICK u \in User, s \in Sid : u = txn[r].user /\ s = txn[r].sid
      BY <2>7 DEF LoginCommit, CoreInv, LockInv, ReservedInv, Creating, At
    <3>2. /\ Standing(u) \in {"active", "deleted"} /\ Standing(u)' = "active"
          /\ \A v \in User \ {u} : Standing(v)' = Standing(v)
      BY <2>7, <3>1, ConstantsAssumption
      DEF LoginCommit, Standing, Absent, Exists, Due, CoreInv, TypeOK, ReadyInv,
          AccountInv, At, Creating
    <3>3. /\ OpenOf(u)' = (OpenOf(u) \cup {s}) \ txn[r].evict
          /\ \A v \in User \ {u} : OpenOf(v)' = OpenOf(v)
      BY <2>7, <3>1
      DEF LoginCommit, Opened, Revoked, OpenOf, SessionsOf, Unrevoked, Absent, Exists, At,
          CoreInv, TypeOK, ReadyInv, ReservedInv, OwnerInv, Creating
    <3>4. Lifecycle!SignIn(u, s, txn[r].evict)
      BY <3>2, <3>3, AcctExcept, OpenExcept, <3>1, <2>7
      DEF Lifecycle!SignIn, acct, open, Lifecycle!Fresh, OpenOf, SessionsOf,
          Unrevoked, CoreInv, ReservedInv, Creating, At, LoginCommit
    <3>5. txn[r].evict \in SUBSET Sid
      BY DEF CoreInv, TypeOK
    <3>6. QED
      BY <3>4, <3>5 DEF Mapped, Lifecycle!Next
  <2>8. QED
    BY <1>2, <2>1, <2>2, <2>3, <2>4, <2>5, <2>6, <2>7 DEF LoginStep
<1>3. ASSUME NEW r \in Req, CloseStep(r) PROVE Mapped
  <2>1. ASSUME NEW u \in User, RevokeAllUpdate(r, u)
        PROVE  Mapped
    BY <2>1, ClosingIsClose DEF RevokeAllUpdate, CoreInv, TypeOK, OwnerInv, LockInv, At, Close,
       Revoked, OpenOf, SessionsOf, Unrevoked, SessionState, Standing, Absent, user
  <2>2. CASE RevokeAllAudit(r)
    BY <2>2, StutterIsMapped DEF RevokeAllAudit, user
  <2>3. ASSUME NEW s \in Sid, ReuseDetect(r, s)
        PROVE  Mapped
    BY <2>3, StutterIsMapped DEF ReuseDetect, user
  <2>4. CASE ReuseReject(r)
    BY <2>4, ClosingIsClose DEF ReuseReject, CoreInv, TypeOK, OwnerInv, LockInv, At, Close,
       Revoked, OpenOf, SessionsOf, Unrevoked, SessionState, Standing, Absent, user
  <2>5. QED
    BY <1>3, <2>1, <2>2, <2>3, <2>4 DEF CloseStep
<1>4. ASSUME NEW r \in Req, DeleteStep(r) PROVE Mapped
  <2>1. ASSUME NEW u \in User, DeleteMark(r, u)
        PROVE  Mapped
    BY <2>1, StutterIsMapped DEF DeleteMark, user
  <2>2. CASE DeleteCommit(r)
    <3>1. PICK u \in User : u = txn[r].user
      BY <2>2 DEF DeleteCommit, CoreInv, LockInv, At
    <3>2. /\ Standing(u) \in {"active"} /\ Standing(u)' = "deleted"
          /\ \A v \in User \ {u} : Standing(v)' = Standing(v)
      BY <2>2, <3>1, ConstantsAssumption
      DEF DeleteCommit, Standing, Absent, Exists, Due, CoreInv, TypeOK, ReadyInv,
          AccountInv, At, Creating
    <3>3. /\ OpenOf(u)' = {}
          /\ \A v \in User \ {u} : OpenOf(v)' = OpenOf(v)
      BY <2>2, <3>1
      DEF DeleteCommit, Close, Revoked, OpenOf, SessionsOf, Unrevoked, Absent, Exists, At,
          CoreInv, TypeOK, ReadyInv, ReservedInv, OwnerInv, Creating
    <3>4. Lifecycle!Delete(u)
      BY <3>2, <3>3, AcctExcept, OpenExcept
      DEF Lifecycle!Delete, acct, open
    <3>5. QED
      BY <3>4 DEF Mapped, Lifecycle!Next
  <2>3. QED
    BY <1>4, <2>1, <2>2 DEF DeleteStep
<1>5. ASSUME NEW r \in Req, AnonStep(r) PROVE Mapped
  <2>1. ASSUME NEW u \in User, AnonPick(r, u)
        PROVE  Mapped
    BY <2>1, StutterIsMapped DEF AnonPick, user
  <2>2. CASE AnonUpdate(r)
    BY <2>2, StutterIsMapped DEF AnonUpdate, user
  <2>3. CASE AnonSkip(r)
    BY <2>3, StutterIsMapped DEF AnonSkip, user
  <2>4. CASE AnonCommit(r)
    <3>1. PICK u \in User : u = txn[r].user
      BY <2>4 DEF AnonCommit, CoreInv, LockInv, At
    <3>2. /\ Standing(u) = "deleted" /\ Standing(u)' = "anonymized"
          /\ \A v \in User \ {u} : Standing(v)' = Standing(v)
      BY <2>4, <3>1, ConstantsAssumption
      DEF AnonCommit, Standing, Absent, Due, CoreInv, TypeOK, ReadyInv,
          AccountInv, At
    <3>3. open' = open
      BY <2>4 DEF AnonCommit, open, OpenOf, SessionsOf, Unrevoked, sess
    <3>4. Lifecycle!Anonymize(u)
      BY <3>2, <3>3, AcctExcept DEF Lifecycle!Anonymize, acct
    <3>5. QED
      BY <3>4 DEF Mapped, Lifecycle!Next
  <2>5. QED
    BY <1>5, <2>1, <2>2, <2>3, <2>4 DEF AnonStep
<1>6. ASSUME NEW r \in Req, PasswordStep(r) PROVE Mapped
  <2>1. ASSUME NEW u \in User, NEW s \in Sid, NEW matches \in BOOLEAN,
              ChangeVerify(r, u, s, matches)
        PROVE  Mapped
    BY <2>1, StutterIsMapped DEF ChangeVerify, user
  <2>2. ASSUME NEW p \in Password, ChangeUpdate(r, p)
        PROVE  Mapped
    BY <2>2, StutterIsMapped DEF ChangeUpdate, user
  <2>3. CASE ChangeRefused(r)
    BY <2>3, StutterIsMapped DEF ChangeRefused, user
  <2>4. CASE ChangeCommit(r)
    <3>1. PICK u \in User : u = txn[r].user
      BY <2>4 DEF ChangeCommit, CoreInv, LockInv, At
    <3>2. \A v \in User : Standing(v)' = Standing(v)
      BY <2>4, <3>1, ConstantsAssumption
      DEF ChangeCommit, Standing, Absent, Exists, CoreInv, TypeOK, ReadyInv, At
    <3>3. /\ UNCHANGED owner
          /\ \A s \in Sid : state'[s] # state[s]
               => owner[s] = u /\ state'[s] \notin {"live", "expired"}
      BY <2>4, <3>1
      DEF ChangeCommit, Revoked, OpenOf, SessionsOf, CoreInv, TypeOK
    <3>4. QED
      BY <3>2, <3>3, ClosingIsClose
  <2>5. ASSUME NEW u \in User, NEW p \in Password, ResetUpdate(r, u, p)
        PROVE  Mapped
    BY <2>5, StutterIsMapped DEF ResetUpdate, user
  <2>6. CASE ResetCommit(r)
    <3>1. PICK u \in User : u = txn[r].user
      BY <2>6 DEF ResetCommit, CoreInv, LockInv, At
    <3>2. \A v \in User : Standing(v)' = Standing(v)
      BY <2>6, <3>1, ConstantsAssumption
      DEF ResetCommit, Standing, Absent, Exists, CoreInv, TypeOK, ReadyInv, At
    <3>3. /\ UNCHANGED owner
          /\ \A s \in Sid : state'[s] # state[s]
               => owner[s] = u /\ state'[s] \notin {"live", "expired"}
      BY <2>6, <3>1
      DEF ResetCommit, Close, Revoked, OpenOf, SessionsOf, CoreInv, TypeOK
    <3>4. QED
      BY <3>2, <3>3, ClosingIsClose
  <2>7. CASE ChangeAuditFailure(r)
    BY <2>7, StutterIsMapped DEF ChangeAuditFailure, user
  <2>8. QED
    BY <1>6, <2>1, <2>2, <2>3, <2>4, <2>5, <2>6, <2>7 DEF PasswordStep
<1>7. ASSUME NEW r \in Req, Abort(r) PROVE Mapped
  BY <1>7, StutterIsMapped DEF Abort, user
<1>8. ASSUME SessionStep PROVE Mapped
  <2>1. ASSUME NEW u \in User, NEW s \in Sid, RevokeById(u, s)
        PROVE  Mapped
    BY <2>1, ClosingIsClose DEF RevokeById, CoreInv, TypeOK, OwnerInv, LockInv, At, Close,
       Revoked, OpenOf, SessionsOf, Unrevoked, SessionState, Standing, Absent, user
  <2>2. ASSUME NEW s \in Sid, Logout(s)
        PROVE  Mapped
    BY <2>2, ClosingIsClose DEF Logout, CoreInv, TypeOK, OwnerInv, LockInv, At, Close,
       Revoked, OpenOf, SessionsOf, Unrevoked, SessionState, Standing, Absent, user
  <2>3. ASSUME NEW s \in Sid, Rotate(s)
        PROVE  Mapped
    BY <2>3, StutterIsMapped DEF Rotate, user
  <2>4. ASSUME NEW s \in Sid, Purge(s)
        PROVE  Mapped
    BY <2>4, ClosingIsClose DEF Purge, CoreInv, TypeOK, OwnerInv, LockInv, At, Close,
       Revoked, OpenOf, SessionsOf, Unrevoked, SessionState, Standing, Absent, user
  <2>5. ASSUME NEW s \in Sid, Expire(s)
        PROVE  Mapped
    BY <2>5, SameStanding DEF Expire, Mapped, CoreInv, TypeOK, open, Standing, Absent,
       OpenOf, SessionsOf, Unrevoked, user
  <2>6. QED
    BY <1>8, <2>1, <2>2, <2>3, <2>4, <2>5 DEF SessionStep
<1>9. ASSUME NEW u \in User, UndoLapses(u) \/ LockLapses(u) PROVE Mapped
  <2>1. CASE UndoLapses(u)
    <3>1. \A v \in User : Standing(v)' = Standing(v)
      BY <2>1 DEF UndoLapses, CoreInv, TypeOK, Standing, Absent
    <3>2. open' = open
      BY <2>1 DEF UndoLapses, open, OpenOf, SessionsOf, Unrevoked, sess
    <3>3. QED
      BY <3>1, <3>2, SameStanding DEF Mapped
  <2>2. CASE LockLapses(u)
    BY <2>2, StutterIsMapped DEF LockLapses, user
  <2>3. QED
    BY <1>9, <2>1, <2>2
<1>10. CASE UNCHANGED vars
  BY <1>10, StutterIsMapped DEF vars, user
<1>11. QED
  BY <1>1, <1>2, <1>3, <1>4, <1>5, <1>6, <1>7, <1>8, <1>9, <1>10 DEF Next

\* Whatever the interleaving of their statements, the operations change accounts
\* and sessions as AccountLifecycle allows.
THEOREM OperationsActAtomically == Spec => ActsAtomically
<1>1. IInv /\ [Next]_vars => Mapped
  BY StepIsMapped DEF IInv
<1>2. QED
  BY <1>1, MappedInit, Invariance, PTL
  DEF Spec, ActsAtomically, Lifecycle!Spec, Lifecycle!vars, Mapped


=============================================================================
