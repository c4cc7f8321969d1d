----------------------- MODULE RefreshRotationProofs -----------------------
(***************************************************************************)
(* Safety of RefreshRotation for any number of sessions, tokens and        *)
(* requests.                                                               *)
(***************************************************************************)
EXTENDS RefreshRotation, TLAPS

\* The session of a token is known, and that of an absent one is not.
FamilyInv == \A t \in Token : token[t] # "absent" => family[t] \in Session

\* A request handles tokens of one session, and its own is none of the others.
TxnInv ==
  \A r \in Req :
    /\ ~At(r, "idle") => txn[r].tok \in Token /\ token[txn[r].tok] # "absent"
    /\ \A x \in txn[r].seen \cup txn[r].todo \cup txn[r].dropped :
         token[x] # "absent" /\ family[x] = SessionOf(r) /\ x # txn[r].tok
    /\ txn[r].todo \cap txn[r].dropped = {}
    /\ At(r, "idle") => txn[r] = Idle
    /\ ~At(r, "deleting") => txn[r].todo = {} /\ txn[r].dropped = {}

\* A request has locked the token it claimed and those it deleted, and a locked
\* token is unused in the eyes of the others.
LockInv ==
  /\ \A r \in Req, x \in Token :
       lock[x] = r <=> \/ Claimed(r) /\ txn[r].tok = x
                       \/ x \in txn[r].dropped
  /\ \A x \in Token : lock[x] # None => token[x] = "unused"

\* What a deletion has yet to reach of the siblings that were there.
KillInv ==
  \A r \in Req : At(r, "deleting") =>
    \A x \in txn[r].seen :
      token[x] = "unused" => x \in txn[r].todo \cup txn[r].dropped

IInv == TypeOK /\ FamilyInv /\ TxnInv /\ LockInv /\ KillInv /\ OpenSessionCanRefresh

LEMMA InvInit == Init => IInv
  BY NoneAssumption
  DEF Init, IInv, TypeOK, FamilyInv, TxnInv, LockInv, KillInv,
      OpenSessionCanRefresh, Idle, Rotation, At, Claimed, Unrevoked, Pc,
      Rotating, SessionState, TokenState

LEMMA IssueKeeps ==
  ASSUME IInv, NEW s \in Session, Issue(s)
  PROVE  IInv'
<1>1. TypeOK'
  BY NoneAssumption
  DEF IInv, Issue, Draw, TypeOK, SessionState, TokenState, Pc, Rotating
<1>2. FamilyInv'
  BY NoneAssumption
  DEF IInv, Issue, Draw, FamilyInv, TypeOK
<1>3. TxnInv'
  BY NoneAssumption
  DEF IInv, Issue, Draw, TxnInv, TypeOK, At, SessionOf, Idle, Rotation
<1>4. LockInv' /\ KillInv'
  BY NoneAssumption
  DEF IInv, Issue, Draw, LockInv, KillInv, TypeOK, Claimed, TxnInv, At,
      Idle, Rotation
<1>5. OpenSessionCanRefresh'
  BY NoneAssumption
  DEF IInv, Issue, Draw, OpenSessionCanRefresh, TypeOK, Unrevoked,
      Unused
<1>6. QED
  BY <1>1, <1>2, <1>3, <1>4, <1>5 DEF IInv

LEMMA CloseKeeps ==
  ASSUME IInv, NEW s \in Session, Close(s)
  PROVE  IInv'
<1>1. TypeOK'
  BY NoneAssumption
  DEF IInv, Close, Unrevoked, TypeOK, SessionState, TokenState, Pc,
      Rotating
<1>2. FamilyInv' /\ TxnInv' /\ LockInv' /\ KillInv'
  BY NoneAssumption
  DEF IInv, Close, Unrevoked, FamilyInv, TxnInv, LockInv, KillInv,
      TypeOK, At, SessionOf, Claimed
<1>3. OpenSessionCanRefresh'
  BY NoneAssumption
  DEF IInv, Close, Unrevoked, OpenSessionCanRefresh, TypeOK, Unused
<1>4. QED
  BY <1>1, <1>2, <1>3 DEF IInv

LEMMA ExpireKeeps ==
  ASSUME IInv, NEW s \in Session, Expire(s)
  PROVE  IInv'
<1>1. TypeOK'
  BY NoneAssumption
  DEF IInv, Expire, TypeOK, SessionState, TokenState, Pc, Rotating
<1>2. FamilyInv' /\ TxnInv' /\ LockInv' /\ KillInv'
  BY NoneAssumption
  DEF IInv, Expire, FamilyInv, TxnInv, LockInv, KillInv, TypeOK, At,
      SessionOf, Claimed
<1>3. OpenSessionCanRefresh'
  BY NoneAssumption
  DEF IInv, Expire, OpenSessionCanRefresh, TypeOK, Unrevoked, Unused
<1>4. QED
  BY <1>1, <1>2, <1>3 DEF IInv

LEMMA GraceLapsesKeeps ==
  ASSUME IInv, NEW t \in Token, GraceLapses(t)
  PROVE  IInv'
<1>1. TypeOK'
  BY NoneAssumption
  DEF IInv, GraceLapses, TypeOK, SessionState, TokenState, Pc, Rotating
<1>2. FamilyInv' /\ TxnInv'
  BY NoneAssumption
  DEF IInv, GraceLapses, FamilyInv, TxnInv, TypeOK, At, SessionOf
<1>3. LockInv'
  BY NoneAssumption
  DEF IInv, GraceLapses, LockInv, TypeOK, Claimed
<1>4. KillInv'
  BY NoneAssumption
  DEF IInv, GraceLapses, KillInv, TypeOK, At
<1>5. OpenSessionCanRefresh'
  BY NoneAssumption
  DEF IInv, GraceLapses, OpenSessionCanRefresh, TypeOK, Unrevoked,
      Unused
<1>6. QED
  BY <1>1, <1>2, <1>3, <1>4, <1>5 DEF IInv

LEMMA RotateReadKeeps ==
  ASSUME IInv, NEW r \in Req, NEW t \in Token, RotateRead(r, t)
  PROVE  IInv'
<1>1. TypeOK'
  BY NoneAssumption
  DEF IInv, RotateRead, Goto, Rotation, Siblings, Unused, At, TypeOK,
      SessionState, TokenState, Pc, Rotating
<1>2. FamilyInv' /\ OpenSessionCanRefresh'
  BY NoneAssumption
  DEF IInv, RotateRead, Goto, Rotation, Siblings, Unused, At, FamilyInv,
      OpenSessionCanRefresh, TypeOK, Unrevoked
<1>3. TxnInv'
  BY NoneAssumption
  DEF IInv, RotateRead, Goto, Rotation, Siblings, Unused, At, TxnInv,
      TypeOK, SessionOf
<1>4. LockInv' /\ KillInv'
  BY NoneAssumption
  DEF IInv, RotateRead, Goto, Rotation, Siblings, Unused, At, LockInv,
      KillInv, TypeOK, Claimed, TxnInv
<1>5. QED
  BY <1>1, <1>2, <1>3, <1>4 DEF IInv

LEMMA RotateReuseKeeps ==
  ASSUME IInv, NEW r \in Req, NEW t \in Token, RotateReuse(r, t)
  PROVE  IInv'
<1>1. TypeOK'
  BY NoneAssumption
  DEF IInv, RotateReuse, Goto, Rotation, At, TypeOK, SessionState,
      TokenState, Pc, Rotating
<1>2. FamilyInv' /\ OpenSessionCanRefresh'
  BY NoneAssumption
  DEF IInv, RotateReuse, Goto, Rotation, At, FamilyInv,
      OpenSessionCanRefresh, TypeOK, Unrevoked, Unused
<1>3. TxnInv'
  BY NoneAssumption
  DEF IInv, RotateReuse, Goto, Rotation, At, TxnInv, TypeOK, SessionOf
<1>4. LockInv' /\ KillInv'
  BY NoneAssumption
  DEF IInv, RotateReuse, Goto, Rotation, At, LockInv, KillInv, TypeOK,
      Claimed, TxnInv
<1>5. QED
  BY <1>1, <1>2, <1>3, <1>4 DEF IInv

LEMMA ClaimKeeps ==
  ASSUME IInv, NEW r \in Req, Claim(r)
  PROVE  IInv'
<1>1. TypeOK'
  BY NoneAssumption
  DEF IInv, Claim, Goto, Rotation, At, TypeOK, SessionState, TokenState,
      Pc, Rotating
<1>2. FamilyInv' /\ OpenSessionCanRefresh'
  BY NoneAssumption
  DEF IInv, Claim, Goto, Rotation, At, FamilyInv, OpenSessionCanRefresh,
      TypeOK, Unrevoked, Unused
<1>3. TxnInv'
  BY NoneAssumption
  DEF IInv, Claim, Goto, Rotation, At, TxnInv, TypeOK, SessionOf
<1>4. LockInv'
  BY NoneAssumption
  DEF IInv, Claim, Goto, Rotation, At, LockInv, TypeOK, Claimed, TxnInv
<1>5. KillInv'
  BY NoneAssumption
  DEF IInv, Claim, Goto, Rotation, At, KillInv, TypeOK
<1>6. QED
  BY <1>1, <1>2, <1>3, <1>4, <1>5 DEF IInv

LEMMA ClaimNothingKeeps ==
  ASSUME IInv, NEW r \in Req, ClaimNothing(r)
  PROVE  IInv'
<1>1. TypeOK'
  BY NoneAssumption
  DEF IInv, ClaimNothing, Goto, Rotation, At, TypeOK, SessionState,
      TokenState, Pc, Rotating
<1>2. FamilyInv' /\ OpenSessionCanRefresh'
  BY NoneAssumption
  DEF IInv, ClaimNothing, Goto, Rotation, At, FamilyInv,
      OpenSessionCanRefresh, TypeOK, Unrevoked, Unused
<1>3. TxnInv'
  BY NoneAssumption
  DEF IInv, ClaimNothing, Goto, Rotation, At, TxnInv, TypeOK, SessionOf
<1>4. LockInv' /\ KillInv'
  BY NoneAssumption
  DEF IInv, ClaimNothing, Goto, Rotation, At, LockInv, KillInv, TypeOK,
      Claimed, TxnInv
<1>5. QED
  BY <1>1, <1>2, <1>3, <1>4 DEF IInv

LEMMA DeleteScanKeeps ==
  ASSUME IInv, NEW r \in Req, DeleteScan(r)
  PROVE  IInv'
<1>1. TypeOK'
  BY NoneAssumption
  DEF IInv, DeleteScan, Goto, Rotation, Siblings, Unused, At, TypeOK,
      SessionState, TokenState, Pc, Rotating
<1>2. FamilyInv' /\ OpenSessionCanRefresh'
  BY NoneAssumption
  DEF IInv, DeleteScan, Goto, Rotation, Siblings, Unused, At, FamilyInv,
      OpenSessionCanRefresh, TypeOK, Unrevoked
<1>3. TxnInv'
  BY NoneAssumption
  DEF IInv, DeleteScan, Goto, Rotation, Siblings, Unused, At, TxnInv,
      TypeOK, SessionOf
<1>4. LockInv'
  BY NoneAssumption
  DEF IInv, DeleteScan, Goto, Rotation, Siblings, Unused, At, LockInv,
      TypeOK, Claimed, TxnInv
<1>5. KillInv'
  BY NoneAssumption
  DEF IInv, DeleteScan, Goto, Rotation, Siblings, Unused, At, KillInv,
      TypeOK, TxnInv, SessionOf
<1>6. QED
  BY <1>1, <1>2, <1>3, <1>4, <1>5 DEF IInv

LEMMA DeleteRowKeeps ==
  ASSUME IInv, NEW r \in Req, NEW x \in Token, DeleteRow(r, x)
  PROVE  IInv'
<1>1. TypeOK'
  BY NoneAssumption
  DEF IInv, DeleteRow, Goto, Rotation, At, TypeOK, SessionState,
      TokenState, Pc, Rotating
<1>2. FamilyInv' /\ OpenSessionCanRefresh'
  BY NoneAssumption
  DEF IInv, DeleteRow, Goto, Rotation, At, FamilyInv,
      OpenSessionCanRefresh, TypeOK, Unrevoked, Unused
<1>3. TxnInv'
  BY NoneAssumption
  DEF IInv, DeleteRow, Goto, Rotation, At, TxnInv, TypeOK, SessionOf
<1>4. LockInv'
  BY NoneAssumption
  DEF IInv, DeleteRow, Goto, Rotation, At, LockInv, TypeOK, Claimed,
      TxnInv
<1>5. KillInv'
  BY NoneAssumption
  DEF IInv, DeleteRow, Goto, Rotation, At, KillInv, TypeOK
<1>6. QED
  BY <1>1, <1>2, <1>3, <1>4, <1>5 DEF IInv

LEMMA RotateCommitKeeps ==
  ASSUME IInv, NEW r \in Req, RotateCommit(r)
  PROVE  IInv'
<1>1. TypeOK'
  BY NoneAssumption
  DEF IInv, RotateCommit, Finish, Goto, Idle, Rotation, Exchanged,
      Unlocked, Draw, Claimed, Deleted, At, TypeOK, SessionState,
      TokenState, Pc, Rotating, TxnInv, FamilyInv, SessionOf
<1>2. FamilyInv'
  BY NoneAssumption
  DEF IInv, RotateCommit, Finish, Goto, Idle, Rotation, Exchanged,
      Unlocked, Draw, Claimed, Deleted, At, FamilyInv, TypeOK, TxnInv,
      SessionOf, Unrevoked
<1>3. TxnInv'
  BY NoneAssumption
  DEF IInv, RotateCommit, Finish, Goto, Idle, Rotation, Exchanged,
      Unlocked, Draw, Claimed, Deleted, At, TxnInv, TypeOK, SessionOf,
      FamilyInv
<1>4. LockInv'
  BY NoneAssumption
  DEF IInv, RotateCommit, Finish, Goto, Idle, Rotation, Exchanged,
      Unlocked, Draw, Claimed, Deleted, At, LockInv, TypeOK, TxnInv
<1>5. KillInv'
  BY NoneAssumption
  DEF IInv, RotateCommit, Finish, Goto, Idle, Rotation, Exchanged,
      Unlocked, Draw, Claimed, Deleted, At, KillInv, TypeOK, TxnInv
<1>6. OpenSessionCanRefresh'
  <2> PICK h \in Session : h = SessionOf(r)
    BY DEF IInv, TypeOK, FamilyInv, TxnInv, RotateCommit, Deleted, SessionOf, At
  <2>1. /\ Fresh \in Token /\ token[Fresh] = "absent"
        /\ txn[r].tok \in Token /\ txn[r].tok # Fresh /\ state' = state
        /\ token' = Exchanged(r) /\ family' = [family EXCEPT ![Fresh] = h]
    BY DEF IInv, TypeOK, TxnInv, RotateCommit, Deleted, Draw, At
  <2>2. PICK n \in Token : n = Fresh
    BY <2>1
  <2>3. n \in Unused(h)'
    BY <2>1, <2>2 DEF Exchanged, Unused, IInv, TypeOK
  <2>4. ASSUME NEW s \in Session, s # h, NEW t \in Unused(s)
        PROVE  t \in Unused(s)'
    <3>1. t \in Token /\ t # Fresh /\ token[t] = "unused" /\ family[t] = s
      BY <2>1, <2>4 DEF Unused
    <3>2. t \notin txn[r].dropped /\ t # txn[r].tok
      BY <2>4, <3>1 DEF IInv, TxnInv, SessionOf
    <3>3. QED
      BY <2>1, <3>1, <3>2 DEF Exchanged, Unused, IInv, TypeOK
  <2>5. ASSUME NEW s \in Session, Unrevoked(s)' PROVE Unused(s)' # {}
    <3>1. CASE s = h
      BY <2>3, <3>1
    <3>2. CASE s # h
      <4>1. PICK t \in Unused(s) : TRUE
        BY <2>1, <2>5 DEF IInv, OpenSessionCanRefresh, Unrevoked
      <4>2. QED
        BY <2>4, <3>2, <4>1
    <3>3. QED
      BY <3>1, <3>2
  <2>6. QED
    BY <2>5 DEF OpenSessionCanRefresh
<1>7. QED
  BY <1>1, <1>2, <1>3, <1>4, <1>5, <1>6 DEF IInv

LEMMA RejectReuseKeeps ==
  ASSUME IInv, NEW r \in Req, RejectReuse(r)
  PROVE  IInv'
<1>1. TypeOK'
  BY NoneAssumption
  DEF IInv, RejectReuse, Finish, Goto, Idle, Rotation, Unrevoked, At,
      TypeOK, SessionState, TokenState, Pc, Rotating
<1>2. FamilyInv'
  BY NoneAssumption
  DEF IInv, RejectReuse, Finish, Goto, Idle, Rotation, Unrevoked, At,
      FamilyInv, TypeOK
<1>3. TxnInv'
  BY NoneAssumption
  DEF IInv, RejectReuse, Finish, Goto, Idle, Rotation, Unrevoked, At,
      TxnInv, TypeOK, SessionOf
<1>4. LockInv' /\ KillInv'
  BY NoneAssumption
  DEF IInv, RejectReuse, Finish, Goto, Idle, Rotation, Unrevoked, At,
      LockInv, KillInv, TypeOK, Claimed, TxnInv
<1>5. OpenSessionCanRefresh'
  BY NoneAssumption
  DEF IInv, RejectReuse, Finish, Goto, Idle, Rotation, Unrevoked, At,
      OpenSessionCanRefresh, TypeOK, Unused
<1>6. QED
  BY <1>1, <1>2, <1>3, <1>4, <1>5 DEF IInv

LEMMA RollbackKeeps ==
  ASSUME IInv, NEW r \in Req, Rollback(r)
  PROVE  IInv'
<1>1. TypeOK'
  BY NoneAssumption
  DEF IInv, Rollback, Finish, Goto, Idle, Rotation, Unlocked, TypeOK,
      SessionState, TokenState, Pc, Rotating
<1>2. FamilyInv' /\ OpenSessionCanRefresh'
  BY NoneAssumption
  DEF IInv, Rollback, Finish, Goto, Idle, Rotation, Unlocked, FamilyInv,
      OpenSessionCanRefresh, TypeOK, Unrevoked, Unused
<1>3. TxnInv'
  BY NoneAssumption
  DEF IInv, Rollback, Finish, Goto, Idle, Rotation, Unlocked, TxnInv,
      TypeOK, At, SessionOf
<1>4. LockInv'
  BY NoneAssumption
  DEF IInv, Rollback, Finish, Goto, Idle, Rotation, Unlocked, LockInv,
      TypeOK, Claimed, TxnInv, At
<1>5. KillInv'
  BY NoneAssumption
  DEF IInv, Rollback, Finish, Goto, Idle, Rotation, Unlocked, KillInv,
      TypeOK, At
<1>6. QED
  BY <1>1, <1>2, <1>3, <1>4, <1>5 DEF IInv

LEMMA InvStep == IInv /\ [Next]_vars => IInv'
<1> SUFFICES ASSUME IInv, [Next]_vars PROVE IInv'
  OBVIOUS
<1>1. ASSUME NEW r \in Req, RequestStep(r) PROVE IInv'
  <2>1. CASE \E t \in Token : RotateRead(r, t) \/ RotateReuse(r, t)
    BY <2>1, RotateReadKeeps, RotateReuseKeeps
  <2>2. CASE Proceed(r)
    <3>1. ASSUME RotateRevoked(r) PROVE Rollback(r)
      BY <3>1 DEF RotateRevoked, Rollback
    <3>2. QED
      BY <2>2, <3>1, ClaimNothingKeeps, DeleteScanKeeps, RotateCommitKeeps,
         RollbackKeeps, RejectReuseKeeps DEF Proceed
  <2>3. CASE TakeLock(r)
    BY <2>3, ClaimKeeps, DeleteRowKeeps DEF TakeLock
  <2>4. CASE Abort(r) \/ DeadlockVictim(r)
    BY <2>4, RollbackKeeps DEF Abort, DeadlockVictim
  <2>5. QED
    BY <1>1, <2>1, <2>2, <2>3, <2>4 DEF RequestStep
<1>2. ASSUME NEW s \in Session, SessionStep(s) PROVE IInv'
  BY <1>2, IssueKeeps, CloseKeeps, ExpireKeeps DEF SessionStep
<1>3. ASSUME NEW t \in Token, Logout(t) PROVE IInv'
  <2>1. family[t] \in Session /\ Close(family[t])
    BY <1>3 DEF Logout, IInv, FamilyInv
  <2>2. QED
    BY <2>1, CloseKeeps
<1>4. ASSUME NEW t \in Token, GraceLapses(t) PROVE IInv'
  BY <1>4, GraceLapsesKeeps
<1>5. CASE UNCHANGED vars
  BY <1>5 DEF vars, IInv, TypeOK, FamilyInv, TxnInv, LockInv, KillInv,
     OpenSessionCanRefresh, Unused, Unrevoked, At, SessionOf, Claimed
<1>6. QED
  BY <1>1, <1>2, <1>3, <1>4, <1>5 DEF Next

LEMMA Invariance == Spec => []IInv
  BY InvInit, InvStep, PTL DEF Spec

-----------------------------------------------------------------------------

\* Rows and requests keep their shape.
THEOREM TypeCorrect == Spec => []TypeOK
<1>1. IInv => TypeOK
  BY DEF IInv
<1>2. QED
  BY <1>1, Invariance, PTL

\* However many requests delete each other's siblings, an open session always
\* has a token that can be used.
THEOREM OpenSessionsCanRefresh == Spec => []OpenSessionCanRefresh
<1>1. IInv => OpenSessionCanRefresh
  BY DEF IInv
<1>2. QED
  BY <1>1, Invariance, PTL

\* No two requests exchange one token as its first use.
THEOREM ClaimsAreSingle == Spec => ClaimedOnce
<1>1. IInv => ClaimStep
  BY NoneAssumption
  DEF IInv, TypeOK, TxnInv, LockInv, ClaimStep, Gains, Claimed, At
<1>2. QED
  BY <1>1, Invariance, PTL DEF ClaimedOnce

\* Who holds a lock and waits is deleting siblings, and waits for others.
LEMMA HolderDeletes ==
  ASSUME IInv, NEW r \in Req, Waits(r), NEW x \in Token, lock[x] = r
  PROVE  At(r, "deleting") /\ ~Deleted(r)
  BY DEF Waits, IInv, LockInv, TxnInv, Claimed, At

LEMMA WaitsForOthers ==
  ASSUME IInv, NEW r \in Req, At(r, "deleting"), NEW x \in txn[r].todo
  PROVE  x \in Token /\ lock[x] # r
<1>1. x \in Token /\ x # txn[r].tok /\ x \notin txn[r].dropped
  BY DEF IInv, TypeOK, TxnInv
<1>2. QED
  BY <1>1 DEF IInv, LockInv

\* A standstill is a cycle: the requests that delete siblings wait for each other.
THEOREM StandstillsAreDeadlocks == Spec => []StandstillIsDeadlock
<1>1. ASSUME IInv, NEW r \in Req, Waits(r), \A q \in Req : At(q, "idle") \/ Waits(q)
      PROVE  \E D \in SUBSET Req : D # {} /\ Deadlock(D)
  <2> DEFINE D == {q \in Req : At(q, "deleting") /\ ~Deleted(q)}
  <2>1. ASSUME NEW x \in Token, lock[x] # None PROVE lock[x] \in D
    <3>1. PICK h \in Req : h = lock[x]
      BY <1>1, <2>1 DEF IInv, TypeOK
    <3>2. ~At(h, "idle")
      BY <1>1, <3>1 DEF IInv, LockInv, TxnInv, Claimed, At
    <3>3. Waits(h)
      BY <1>1, <3>2
    <3>4. QED
      BY <1>1, <3>1, <3>3, HolderDeletes
  <2>2. D # {}
    <3>1. CASE At(r, "read")
      BY <1>1, <2>1, <3>1 DEF Waits, At, IInv, TxnInv
    <3>2. CASE At(r, "deleting")
      BY <1>1, <3>2 DEF Waits, At
    <3>3. QED
      BY <1>1, <3>1, <3>2 DEF Waits
  <2>3. ASSUME NEW q \in D, NEW x \in txn[q].todo PROVE lock[x] \in D \ {q}
    <3>1. q \in Req /\ At(q, "deleting") /\ Waits(q)
      BY <1>1, <2>3 DEF At
    <3>2. x \in Token /\ lock[x] # q
      BY <1>1, <2>3, <3>1, WaitsForOthers
    <3>3. lock[x] # None
      BY <2>3, <3>1 DEF Waits, At
    <3>4. QED
      BY <2>1, <3>2, <3>3
  <2>4. Deadlock(D)
    BY <2>3 DEF Deadlock
  <2>5. QED
    BY <2>2, <2>4
<1>2. IInv => StandstillIsDeadlock
  BY <1>1 DEF StandstillIsDeadlock
<1>3. QED
  BY <1>2, Invariance, PTL

\* Only a commit gives a request a token.
LEMMA GainsCommits ==
  ASSUME IInv, [Next]_vars, NEW r \in Req, Gains(r)
  PROVE  RotateCommit(r)
<1>1. token' # token /\ txn' # txn
  BY DEF Gains, At, Idle, Rotation
<1>2. ASSUME NEW q \in Req, RequestStep(q) PROVE RotateCommit(q)
  BY <1>1, <1>2
  DEF RequestStep, RotateRead, RotateReuse, Proceed, ClaimNothing, DeleteScan,
      RotateRevoked, RejectReuse, TakeLock, Claim, DeleteRow, Abort,
      DeadlockVictim, Rollback
<1>3. ASSUME NEW q \in Req, RotateCommit(q) PROVE q = r
  BY <1>3 DEF IInv, TypeOK, RotateCommit, Finish, Goto, Gains, At, Idle, Rotation
<1>4. ~ \E s \in Session : SessionStep(s)
  BY <1>1 DEF SessionStep, Issue, Close, Expire
<1>5. ~ \E t \in Token : Logout(t) \/ GraceLapses(t)
  BY <1>1 DEF Logout, Close, GraceLapses
<1>6. QED
  BY <1>1, <1>2, <1>3, <1>4, <1>5 DEF Next, vars

\* Once a token is exchanged, no sibling that could be used when its request
\* arrived can be used any more.
THEOREM UsesKillSiblings == Spec => UseKillsSiblings
<1>1. IInv /\ [Next]_vars => UseStep
  <2>1. SUFFICES ASSUME IInv, [Next]_vars, NEW r \in Req, Gains(r), Claimed(r),
                        NEW x \in txn[r].seen
                 PROVE  token'[x] # "unused"
    BY DEF UseStep
  <2>2. RotateCommit(r)
    BY <2>1, GainsCommits
  <2>3. Deleted(r) /\ x \in Token
    BY <2>1, <2>2 DEF RotateCommit, Claimed, At, IInv, TypeOK
  <2>4. token[x] # "absent" /\ (token[x] = "unused" => x \in txn[r].dropped)
    BY <2>1, <2>3 DEF Deleted, IInv, KillInv, TxnInv
  <2>5. QED
    BY <2>2, <2>3, <2>4 DEF RotateCommit, Exchanged, Draw
<1>2. QED
  BY <1>1, Invariance, PTL DEF Spec, UseKillsSiblings

-----------------------------------------------------------------------------
(* RefreshRotation implements TokenExchange                                  *)

\* A token whose claim failed, or that was presented after the grace window,
\* has been used or deleted, and no step takes that back.
GoneInv ==
  \A r \in Req :
    /\ At(r, "outrun") => token[txn[r].tok] \in {"used", "stale", "deleted"}
    /\ At(r, "reuse") => token[txn[r].tok] = "stale"

LEMMA GoneInit == Init => GoneInv
  BY DEF Init, GoneInv, At, Idle, Rotation

\* A token that is not absent keeps its place in the order of what becomes of it.
LEMMA GoneStays ==
  ASSUME IInv, [Next]_vars, NEW t \in Token
  PROVE  /\ token[t] \in {"used", "stale", "deleted"}
              => token'[t] \in {"used", "stale", "deleted"}
         /\ token[t] = "stale" => token'[t] = "stale"
<1>1. CASE token' = token
  BY <1>1
<1>2. ASSUME NEW s \in Session, Issue(s) PROVE token[t] # "absent" => token'[t] = token[t]
  BY <1>2 DEF Issue, Draw, IInv, TypeOK
<1>3. ASSUME NEW r \in Req, RotateCommit(r), token[t] \in {"used", "stale", "deleted"}
      PROVE  token'[t] = token[t]
  <2>1. t # Fresh
    BY <1>3 DEF RotateCommit, Draw
  <2>2. ASSUME t \in txn[r].dropped \/ (t = txn[r].tok /\ Claimed(r)) PROVE FALSE
    <3>1. lock[t] = r
      BY <2>2 DEF IInv, LockInv
    <3>2. QED
      BY <1>3, <3>1, NoneAssumption DEF IInv, LockInv
  <2>3. QED
    BY <1>3, <2>1, <2>2 DEF RotateCommit, Exchanged
<1>4. ASSUME NEW x \in Token, GraceLapses(x)
      PROVE  \/ token'[t] = token[t]
             \/ token[t] = "used" /\ token'[t] = "stale"
  BY <1>4 DEF GraceLapses, IInv, TypeOK
<1>5. \/ token' = token
      \/ \E s \in Session : Issue(s)
      \/ \E r \in Req : RotateCommit(r)
      \/ \E x \in Token : GraceLapses(x)
  BY DEF Next, vars, RequestStep, RotateRead, RotateReuse, Proceed, ClaimNothing,
     DeleteScan, RotateRevoked, RejectReuse, TakeLock, Claim, DeleteRow, Abort,
     DeadlockVictim, Rollback, SessionStep, Close, Expire, Logout
<1>6. QED
  BY <1>1, <1>2, <1>3, <1>4, <1>5

\* Who arrives at the answer to a use that came too late.
LEMMA Outruns ==
  ASSUME IInv, [Next]_vars, NEW r \in Req, txn'[r].pc \in {"outrun", "reuse"}
  PROVE  \/ txn'[r] = txn[r]
         \/ /\ txn'[r].pc = "outrun" /\ token' = token
            /\ token[txn'[r].tok] # "unused" /\ txn'[r].tok = txn[r].tok /\ At(r, "read")
         \/ /\ txn'[r].pc = "reuse" /\ token' = token
            /\ token[txn'[r].tok] = "stale"
<1>1. CASE UNCHANGED txn
  BY <1>1
<1>2. ASSUME NEW q \in Req, NEW rotation, Goto(q, rotation)
      PROVE  txn'[r] = IF q = r THEN rotation ELSE txn[r]
  BY <1>2 DEF Goto, IInv, TypeOK
<1>3. ASSUME NEW q \in Req, RequestStep(q), txn'[r] # txn[r]
      PROVE  ClaimNothing(r) \/ \E t \in Token : RotateReuse(r, t)
  <2>1. \E rotation : Goto(q, rotation)
    BY <1>3 DEF RequestStep, RotateRead, RotateReuse, Proceed, ClaimNothing,
       DeleteScan, RotateCommit, RotateRevoked, RejectReuse, TakeLock, Claim,
       DeleteRow, Abort, DeadlockVictim, Rollback, Finish
  <2>2. q = r
    BY <1>2, <1>3, <2>1
  <2>3. ~ (\E t \in Token : RotateRead(r, t)) /\ ~ TakeLock(r)
    <3>1. ASSUME NEW t \in Token, RotateRead(r, t) PROVE FALSE
      BY <1>2, <3>1 DEF RotateRead, Rotation
    <3>2. ASSUME Claim(r) PROVE FALSE
      BY <1>2, <3>2 DEF Claim, Rotation
    <3>3. ASSUME NEW x \in Token, DeleteRow(r, x) PROVE FALSE
      <4>1. PICK rotation : Goto(r, rotation) /\ rotation.pc = "deleting"
        BY <3>3 DEF DeleteRow, Rotation
      <4>2. QED
        BY <1>2, <4>1
    <3>4. QED
      BY <3>1, <3>2, <3>3 DEF TakeLock
  <2>4. ~ DeleteScan(r) /\ ~ RejectReuse(r) /\ ~ Rollback(r)
    BY <1>2 DEF DeleteScan, RejectReuse, Rollback, Finish, Idle, Rotation
  <2>5. ~ RotateCommit(r) /\ ~ RotateRevoked(r)
    BY <1>2 DEF RotateCommit, RotateRevoked, Finish, Idle, Rotation
  <2>6. QED
    BY <1>3, <2>2, <2>3, <2>4, <2>5 DEF RequestStep, Proceed, Abort, DeadlockVictim
<1>4. ASSUME ClaimNothing(r)
      PROVE  /\ txn'[r].pc = "outrun" /\ token' = token
             /\ token[txn'[r].tok] # "unused" /\ txn'[r].tok = txn[r].tok /\ At(r, "read")
  BY <1>2, <1>4 DEF ClaimNothing, Rotation
<1>5. ASSUME NEW t \in Token, RotateReuse(r, t)
      PROVE  txn'[r].pc = "reuse" /\ token' = token /\ token[txn'[r].tok] = "stale"
  BY <1>2, <1>5 DEF RotateReuse, Rotation
<1>6. UNCHANGED txn \/ \E q \in Req : RequestStep(q)
  BY DEF Next, vars, SessionStep, Issue, Close, Expire, Logout, GraceLapses
<1>7. QED
  BY <1>1, <1>3, <1>4, <1>5, <1>6

LEMMA GoneStep == IInv /\ GoneInv /\ [Next]_vars => GoneInv'
<1> SUFFICES ASSUME IInv, GoneInv, [Next]_vars, NEW r \in Req,
                    txn'[r].pc \in {"outrun", "reuse"}
             PROVE  /\ txn'[r].pc = "outrun" => token'[txn'[r].tok] \in {"used", "stale", "deleted"}
                    /\ txn'[r].pc = "reuse" => token'[txn'[r].tok] = "stale"
  BY DEF GoneInv, At
<1>1. CASE txn'[r] = txn[r]
  <2>1. txn[r].tok \in Token
    BY <1>1 DEF IInv, TxnInv, At
  <2>2. QED
    BY <1>1, <2>1, GoneStays DEF GoneInv, At
<1>2. CASE txn'[r] # txn[r]
  <2>1. At(r, "read") => txn[r].tok \in Token /\ token[txn[r].tok] # "absent"
    BY DEF IInv, TxnInv, At
  <2>2. QED
    BY <1>2, <2>1, Outruns DEF IInv, TypeOK, TokenState
<1>3. QED
  BY <1>1, <1>2

\* A sign-in is one step, and takes a token no row has.
LEMMA IssueIsSignIn ==
  ASSUME NEW s \in Session, Issue(s)
  PROVE  \E n \in Token : Atomic!SignIn(s, n)
  BY DEF Issue, Draw, Atomic!SignIn

\* The commit of a claim does at once what the statements before it did to rows
\* that only this request could see as used or deleted.
LEMMA ClaimedCommitIsExchange ==
  ASSUME IInv, NEW r \in Req, RotateCommit(r), Deleted(r)
  PROVE  \E t, n \in Token : \E killed \in SUBSET Atomic!Siblings(t) :
           Atomic!Exchange(t, n, killed)
<1> DEFINE t == txn[r].tok
           killed == txn[r].dropped
<1>1. PICK n \in Token : n = Fresh
  BY DEF RotateCommit, Draw
<1>2. t \in Token /\ token[t] = "unused" /\ Claimed(r)
  BY NoneAssumption DEF IInv, TxnInv, LockInv, Deleted, At, Claimed
<1>3. killed \in SUBSET Atomic!Siblings(t)
  <2>1. ASSUME NEW x \in killed PROVE x \in Atomic!Siblings(t)
    <3>1. x \in Token /\ x # t /\ family[x] = family[t]
      BY <2>1 DEF IInv, TypeOK, TxnInv, SessionOf
    <3>2. token[x] = "unused"
      BY <2>1, <3>1, NoneAssumption DEF IInv, LockInv
    <3>3. QED
      BY <3>1, <3>2 DEF Atomic!Siblings
  <2>2. QED
    BY <2>1
<1>4. token[n] = "absent" /\ n # t /\ n \notin killed
  BY <1>1, <1>2, <1>3 DEF RotateCommit, Draw, Atomic!Siblings
<1>5. Atomic!Answer(t, n)
  BY <1>1, <1>4 DEF RotateCommit, SessionOf, Unrevoked, Atomic!Answer, Atomic!Open
<1>6. token' = [x \in Token |-> IF x = t THEN "used"
                                ELSE IF x = n THEN "unused"
                                ELSE IF x \in killed THEN "deleted"
                                ELSE token[x]]
  <2>1. t \notin killed
    BY <1>3 DEF Atomic!Siblings
  <2>2. QED
    BY <1>1, <1>2, <1>4, <2>1 DEF RotateCommit, Exchanged
<1>7. Atomic!Exchange(t, n, killed)
  BY <1>2, <1>5, <1>6 DEF Atomic!Exchange
<1>8. QED
  BY <1>2, <1>3, <1>7

\* A use that another outran leaves every other token as it is.
LEMMA OutrunCommitIsTolerate ==
  ASSUME IInv, GoneInv, NEW r \in Req, RotateCommit(r), At(r, "outrun")
  PROVE  \E t, n \in Token : Atomic!Tolerate(t, n)
<1> DEFINE t == txn[r].tok
<1>1. PICK n \in Token : n = Fresh
  BY DEF RotateCommit, Draw
<1>2. t \in Token /\ token[t] \in {"used", "stale", "deleted"}
  BY DEF IInv, TxnInv, GoneInv, At
<1>3. txn[r].dropped = {} /\ ~Claimed(r)
  BY DEF IInv, TxnInv, At, Claimed
<1>4. token' = [token EXCEPT ![n] = "unused"]
  BY <1>1, <1>3 DEF RotateCommit, Exchanged, IInv, TypeOK
<1>5. Atomic!Answer(t, n)
  BY <1>1 DEF RotateCommit, Draw, SessionOf, Unrevoked, Atomic!Answer, Atomic!Open
<1>6. QED
  BY <1>2, <1>4, <1>5 DEF Atomic!Tolerate

LEMMA CloseIsClose ==
  ASSUME IInv, NEW s \in Session, Close(s)
  PROVE  Atomic!Close({s})
  BY DEF Close, Unrevoked, IInv, TypeOK, Atomic!Close, Atomic!Open

\* A token presented after the grace window closes every open session, those
\* included that were opened since it was looked at.
LEMMA RejectIsReuse ==
  ASSUME IInv, GoneInv, NEW r \in Req, RejectReuse(r)
  PROVE  Atomic!Reuse
<1>1. \E t \in Token : token[t] = "stale"
  BY DEF RejectReuse, IInv, TxnInv, GoneInv, At
<1>2. state' = [s \in Session |-> IF s \in {x \in Session : Atomic!Open(x)}
                                  THEN "revoked" ELSE state[s]]
  BY DEF RejectReuse, Unrevoked, Atomic!Open
<1>3. QED
  BY <1>1, <1>2 DEF RejectReuse, Atomic!Reuse, Atomic!Close

\* Every other step of a request concerns its transaction alone.
LEMMA StepIsAtomic == IInv /\ GoneInv /\ [Next]_vars => [Atomic!Next]_(Atomic!vars)
<1> SUFFICES ASSUME IInv, GoneInv, [Next]_vars
             PROVE  Atomic!Next \/ UNCHANGED <<state, token, family>>
  BY DEF Atomic!vars
<1>1. ASSUME NEW r \in Req, RotateCommit(r) PROVE Atomic!Next
  BY <1>1, ClaimedCommitIsExchange, OutrunCommitIsTolerate
  DEF RotateCommit, Atomic!Next
<1>2. ASSUME NEW r \in Req, RejectReuse(r) PROVE Atomic!Next
  BY <1>2, RejectIsReuse DEF Atomic!Next
<1>3. ASSUME NEW r \in Req, RequestStep(r), ~RotateCommit(r), ~RejectReuse(r)
      PROVE  UNCHANGED <<state, token, family>>
  BY <1>3 DEF RequestStep, RotateRead, RotateReuse, Proceed, ClaimNothing,
     DeleteScan, RotateRevoked, TakeLock, Claim, DeleteRow, Abort,
     DeadlockVictim, Rollback
<1>4. ASSUME NEW s \in Session, SessionStep(s) PROVE Atomic!Next
  <2>1. CASE Issue(s)
    BY <2>1, IssueIsSignIn DEF Atomic!Next
  <2>2. CASE Close(s)
    BY <2>2, CloseIsClose DEF Atomic!Next
  <2>3. CASE Expire(s)
    BY <2>3 DEF Expire, Atomic!Expire, Atomic!Next
  <2>4. QED
    BY <1>4, <2>1, <2>2, <2>3 DEF SessionStep
<1>5. ASSUME NEW t \in Token, Logout(t) PROVE Atomic!Next
  <2>1. family[t] \in Session /\ Close(family[t])
    BY <1>5 DEF Logout, IInv, FamilyInv
  <2>2. QED
    BY <2>1, CloseIsClose DEF Atomic!Next
<1>6. ASSUME NEW t \in Token, GraceLapses(t) PROVE Atomic!Next
  BY <1>6 DEF GraceLapses, Atomic!GraceLapses, Atomic!Next
<1>7. QED
  BY <1>1, <1>2, <1>3, <1>4, <1>5, <1>6 DEF Next, vars

\* Concurrent refreshes change tokens and sessions as if each were one step.
THEOREM RotationsAreAtomic == Spec => RotationsActAtomically
<1>1. Init => Atomic!Init
  BY DEF Init, Atomic!Init
<1>2. Spec => []GoneInv
  BY GoneInit, GoneStep, Invariance, PTL DEF Spec
<1>3. QED
  BY <1>1, <1>2, StepIsAtomic, Invariance, PTL
  DEF Spec, RotationsActAtomically, Atomic!Spec

=============================================================================
