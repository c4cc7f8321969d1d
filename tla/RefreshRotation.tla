-------------------------- MODULE RefreshRotation --------------------------
(***************************************************************************)
(* The refresh tokens of one user's sessions: how SessionService.rotate    *)
(* exchanges a token, tolerates a second use of it for a while, deletes    *)
(* the siblings this leaves, and answers a later use by closing every      *)
(* session of the user.                                                    *)
(*                                                                         *)
(* Requests run one statement at a time against READ COMMITTED PostgreSQL. *)
(* lock[t] is the request whose open transaction updated or deleted the    *)
(* row of t.  A statement picks its rows from what is committed when it    *)
(* starts; on reaching one that is locked it waits, and then looks at the  *)
(* row again.  The tokens a transaction creates are seen when it commits,  *)
(* which is one step with its last write, the update of the session.       *)
(***************************************************************************)
EXTENDS Integers, FiniteSets

CONSTANTS
  Session,  \* the sessions of the user
  Token,    \* refresh tokens
  Req,      \* requests in flight
  None      \* no request, token or session

ASSUME NoneAssumption == None \notin Session \cup Token \cup Req

VARIABLES
  state,   \* the Session rows, as committed
  token,   \* the RefreshToken rows, as committed
  family,  \* the session a token belongs to
  lock,    \* the request that holds the row lock of a token
  txn      \* what each request is doing and what it has read

vars == <<state, token, family, lock, txn>>

SessionState == {"absent", "live", "expired", "revoked"}

\* usedAt is null in an unused token, lies within ROTATION_GRACE_MS in a used
\* one and further back in a stale one.
TokenState == {"absent", "unused", "used", "stale", "deleted"}

Rotating == {"read", "claimed", "deleting", "outrun"}
Pc == Rotating \cup {"idle", "reuse"}

\* A request that presents token t: the siblings it has found and has yet to
\* delete, those it deleted, and those that could be used when it read t.
Rotation(pc, t, todo, dropped, seen) ==
  [pc |-> pc, tok |-> t, todo |-> todo, dropped |-> dropped, seen |-> seen]
Idle == Rotation("idle", None, {}, {}, {})

-----------------------------------------------------------------------------

Unrevoked(s) == state[s] \in {"live", "expired"}
Unused(s) == {t \in Token : token[t] = "unused" /\ family[t] = s}
Siblings(t) == Unused(family[t]) \ {t}

At(r, pc) == txn[r].pc = pc
Goto(r, rotation) == txn' = [txn EXCEPT ![r] = rotation]
Finish(r) == Goto(r, Idle)
SessionOf(r) == family[txn[r].tok]

\* The requests that hold a row wait for no claim; they may wait for a row.
Claimed(r) == txn[r].pc \in {"claimed", "deleting"}
Deleted(r) == At(r, "deleting") /\ txn[r].todo = {}

Unlocked(r) == [t \in Token |-> IF lock[t] = r THEN None ELSE lock[t]]

\* A bound of the model: what starts must leave a token for each rotation.
TokenLeft == Cardinality({r \in Req : txn[r].pc \in Rotating})
               < Cardinality({t \in Token : token[t] = "absent"})

\* createOpaqueToken draws a value no row has; which one tells nothing.
Fresh == CHOOSE t \in Token : token[t] = "absent"
Draw == Fresh \in Token /\ token[Fresh] = "absent"

-----------------------------------------------------------------------------

\* Mutant of Issue: the token is tied to itself.
IssueUnowned(s) ==
  /\ TokenLeft /\ Draw /\ state[s] = "absent"
  /\ state' = [state EXCEPT ![s] = "live"]
  /\ token' = [token EXCEPT ![Fresh] = "unused"]
  /\ family' = [family EXCEPT ![Fresh] = Fresh]
  /\ UNCHANGED <<lock, txn>>

\* A login or a registration commits its session with a first token.
Issue(s) ==
  /\ TokenLeft /\ Draw /\ state[s] = "absent"
  /\ state' = [state EXCEPT ![s] = "live"]
  /\ token' = [token EXCEPT ![Fresh] = "unused"]
  /\ family' = [family EXCEPT ![Fresh] = s]
  /\ UNCHANGED <<lock, txn>>

\* The token and its session are read once, before the transaction.  A token
\* that is not there, or whose session is closed or ran out, is refused.
RotateRead(r, t) ==
  /\ TokenLeft
  /\ At(r, "idle")
  /\ token[t] \in {"unused", "used"} /\ state[family[t]] = "live"
  /\ Goto(r, Rotation("read", t, {}, {}, Siblings(t)))
  /\ UNCHANGED <<state, token, family, lock>>

\* Mutant of Claim: usedAt is looked at, then written by id alone.
ClaimUnguarded(r) ==
  /\ At(r, "read") /\ token[txn[r].tok] = "unused"
  /\ lock' = [lock EXCEPT ![txn[r].tok] = r]
  /\ Goto(r, Rotation("claimed", txn[r].tok, {}, {}, txn[r].seen))
  /\ UNCHANGED <<state, token, family>>

\* updateMany({ id, usedAt: null }, { usedAt }): at most one request's lands.
Claim(r) ==
  LET t == txn[r].tok
  IN /\ At(r, "read") /\ token[t] = "unused" /\ lock[t] = None
     /\ lock' = [lock EXCEPT ![t] = r]
     /\ Goto(r, Rotation("claimed", t, {}, {}, txn[r].seen))
     /\ UNCHANGED <<state, token, family>>

\* Another request used or deleted the token first: no sibling is deleted.
ClaimNothing(r) ==
  LET t == txn[r].tok
  IN /\ At(r, "read") /\ token[t] # "unused"
     /\ Goto(r, Rotation("outrun", t, {}, {}, txn[r].seen))
     /\ UNCHANGED <<state, token, family, lock>>

\* Mutant of DeleteScan: siblings are left alone.
DeleteNothing(r) ==
  /\ At(r, "claimed")
  /\ Goto(r, Rotation("deleting", txn[r].tok, {}, {}, txn[r].seen))
  /\ UNCHANGED <<state, token, family, lock>>

\* Mutant of DeleteScan: this.prisma in place of tx, a connection to which the
\* claimed token is an unused one that somebody has locked.
DeleteScanOutside(r) ==
  /\ At(r, "claimed")
  /\ Goto(r, Rotation("deleting", txn[r].tok, Unused(SessionOf(r)), {}, txn[r].seen))
  /\ UNCHANGED <<state, token, family, lock>>

\* deleteMany({ sessionId, usedAt: null }) finds the committed siblings ...
DeleteScan(r) ==
  LET t == txn[r].tok
  IN /\ At(r, "claimed")
     /\ Goto(r, Rotation("deleting", t, Siblings(t), {}, txn[r].seen))
     /\ UNCHANGED <<state, token, family, lock>>

\* Mutant of DeleteRow: usedAt is not looked at again.
DeleteRowUsed(r, x) ==
  /\ At(r, "deleting") /\ x \in txn[r].todo /\ lock[x] = None
  /\ lock' = [lock EXCEPT ![x] = r]
  /\ Goto(r, Rotation("deleting", txn[r].tok, txn[r].todo \ {x},
                      txn[r].dropped \cup {x}, txn[r].seen))
  /\ UNCHANGED <<state, token, family>>

\* ... and comes to each of them, deleting it if it is still unused.
DeleteRow(r, x) ==
  LET rest == txn[r].todo \ {x}
      hit == token[x] = "unused"
  IN /\ At(r, "deleting") /\ x \in txn[r].todo /\ lock[x] = None
     /\ lock' = IF hit THEN [lock EXCEPT ![x] = r] ELSE lock
     /\ Goto(r, Rotation("deleting", txn[r].tok, rest,
                         txn[r].dropped \cup (IF hit THEN {x} ELSE {}),
                         txn[r].seen))
     /\ UNCHANGED <<state, token, family>>

\* The new token, and with it what the transaction did to the others.
Exchanged(r) ==
  [t \in Token |-> IF t = Fresh THEN "unused"
                   ELSE IF t \in txn[r].dropped THEN "deleted"
                   ELSE IF t = txn[r].tok /\ Claimed(r) THEN "used"
                   ELSE token[t]]

RotateCommit(r) ==
  /\ Deleted(r) \/ At(r, "outrun")
  /\ Unrevoked(SessionOf(r)) /\ Draw
  /\ token' = Exchanged(r)
  /\ family' = [family EXCEPT ![Fresh] = SessionOf(r)]
  /\ lock' = Unlocked(r)
  /\ Finish(r)
  /\ UNCHANGED state

\* The session was closed meanwhile: the transaction is rolled back.
RotateRevoked(r) ==
  /\ Deleted(r) \/ At(r, "outrun")
  /\ ~Unrevoked(SessionOf(r))
  /\ lock' = Unlocked(r)
  /\ Finish(r)
  /\ UNCHANGED <<state, token, family>>

\* A token that was used before the grace window comes back.
RotateReuse(r, t) ==
  /\ At(r, "idle")
  /\ token[t] = "stale" /\ Unrevoked(family[t])
  /\ Goto(r, Rotation("reuse", t, {}, {}, {}))
  /\ UNCHANGED <<state, token, family, lock>>

RejectReuse(r) ==
  /\ At(r, "reuse")
  /\ state' = [s \in Session |-> IF Unrevoked(s) THEN "revoked" ELSE state[s]]
  /\ Finish(r)
  /\ UNCHANGED <<token, family, lock>>

-----------------------------------------------------------------------------

Close(s) ==
  /\ Unrevoked(s)
  /\ state' = [state EXCEPT ![s] = "revoked"]
  /\ UNCHANGED <<token, family, lock, txn>>

\* revokeByToken takes a token that is unused, or does nothing.
Logout(t) == token[t] = "unused" /\ Close(family[t])

Expire(s) ==
  /\ state[s] = "live"
  /\ state' = [state EXCEPT ![s] = "expired"]
  /\ UNCHANGED <<token, family, lock, txn>>

GraceLapses(t) ==
  /\ token[t] = "used"
  /\ token' = [token EXCEPT ![t] = "stale"]
  /\ UNCHANGED <<state, family, lock, txn>>

\* Mutant of Rollback: the claim is made outside the transaction.
RollbackButClaim(r) ==
  /\ token' = [t \in Token |-> IF Claimed(r) /\ t = txn[r].tok THEN "used" ELSE token[t]]
  /\ lock' = Unlocked(r)
  /\ Finish(r)
  /\ UNCHANGED <<state, family>>

Rollback(r) ==
  /\ lock' = Unlocked(r)
  /\ Finish(r)
  /\ UNCHANGED <<state, token, family>>

\* The process dies, a statement fails or the transaction runs out of time.
Abort(r) == ~At(r, "idle") /\ Rollback(r)

\* The requests of D all wait, and for each other.
Deadlock(D) ==
  \A r \in D : /\ At(r, "deleting") /\ ~Deleted(r)
              /\ \A x \in txn[r].todo : lock[x] \in D \ {r}

\* PostgreSQL's deadlock detector rolls one of them back.
DeadlockVictim(r) ==
  (\E D \in SUBSET Req : r \in D /\ Deadlock(D)) /\ Rollback(r)

-----------------------------------------------------------------------------

Init ==
  /\ state = [s \in Session |-> "absent"]
  /\ token = [t \in Token |-> "absent"]
  /\ family = [t \in Token |-> None]
  /\ lock = [t \in Token |-> None]
  /\ txn = [r \in Req |-> Idle]

\* What a request does next, once it has started.
Proceed(r) ==
  \/ ClaimNothing(r) \/ DeleteScan(r)
  \/ RotateCommit(r) \/ RotateRevoked(r)
  \/ RejectReuse(r)
TakeLock(r) == Claim(r) \/ \E x \in Token : DeleteRow(r, x)

RequestStep(r) ==
  \/ \E t \in Token : RotateRead(r, t) \/ RotateReuse(r, t)
  \/ Proceed(r) \/ TakeLock(r)
  \/ Abort(r) \/ DeadlockVictim(r)

SessionStep(s) == Issue(s) \/ Close(s) \/ Expire(s)

Next ==
  \/ \E r \in Req : RequestStep(r)
  \/ \E s \in Session : SessionStep(s)
  \/ \E t \in Token : Logout(t) \/ GraceLapses(t)

Spec == Init /\ [][Next]_vars

\* Handlers run on, PostgreSQL grants row locks in the order of arrival and
\* breaks deadlocks.
Fairness == \A r \in Req : /\ WF_vars(Proceed(r)) /\ SF_vars(TakeLock(r))
                          /\ WF_vars(DeadlockVictim(r))
FairSpec == Spec /\ Fairness

-----------------------------------------------------------------------------
(* Properties *)

\* Every row and every request in flight has the shape the schema gives it.
TypeOK ==
  /\ state \in [Session -> SessionState]
  /\ token \in [Token -> TokenState]
  /\ family \in [Token -> Session \cup {None}]
  /\ lock \in [Token -> Req \cup {None}]
  /\ txn \in [Req -> [pc : Pc, tok : Token \cup {None}, todo : SUBSET Token,
                      dropped : SUBSET Token, seen : SUBSET Token]]

\* However many tabs refresh at once, and whichever of them fail, rotations
\* never delete each other's tokens until none is left: an open session always
\* has a token that can be used (session.service rotate).
OpenSessionCanRefresh == \A s \in Session : Unrevoked(s) => Unused(s) # {}

\* The step in which r gets a new token.
Gains(r) == ~At(r, "idle") /\ txn'[r] = Idle
              /\ \E n \in Token : token[n] = "absent" /\ token'[n] # "absent"

\* A token is exchanged by a claim at most once, and never after it was
\* deleted: the request that claimed it finds it unused when it commits.
ClaimStep == \A r \in Req : Gains(r) /\ Claimed(r)
                          => token[txn[r].tok] = "unused"
ClaimedOnce == [][ClaimStep]_vars

\* When one of several siblings is exchanged, the others that could be used
\* when the request arrived can no longer be (README, "Tolerans penceresi").
UseStep == \A r \in Req : Gains(r) /\ Claimed(r)
                        => \A x \in txn[r].seen : token'[x] # "unused"
UseKillsSiblings == [][UseStep]_vars

\* However the statements of concurrent refreshes interleave, deadlock and are
\* rolled back, tokens and sessions change as if every refresh were one step: no
\* half of an exchange is ever seen, and none rests on a token or a session that
\* another request has used up or closed (session.service rotate).
Atomic == INSTANCE TokenExchange
RotationsActAtomically == Atomic!Spec

\* Request r is at a row another request has locked: the token it is to claim,
\* or all the siblings it has yet to delete.
Waits(r) ==
  \/ At(r, "read") /\ token[txn[r].tok] = "unused" /\ lock[txn[r].tok] # None
  \/ At(r, "deleting") /\ ~Deleted(r) /\ \A x \in txn[r].todo : lock[x] # None

\* Refreshes never come to a standstill that PostgreSQL's detector would not
\* end: when all that are under way wait, some of them wait for each other in a
\* cycle, and none waits for a lock of a transaction that is over (session.service
\* rotate claims first and deletes the siblings then).
StandstillIsDeadlock ==
  (\E r \in Req : Waits(r)) /\ (\A q \in Req : At(q, "idle") \/ Waits(q))
    => \E D \in SUBSET Req : D # {} /\ Deadlock(D)

\* Whoever holds a token that a sibling's use deleted gets no other for it.
DeletedTokenYieldsNothing ==
  [][\A r \in Req : Gains(r) => token[txn[r].tok] # "deleted"]_vars

\* Every refresh is answered: requests that delete each other's tokens do not
\* wait for ever.
RefreshEnds == \A r \in Req : ~At(r, "idle") ~> At(r, "idle")

=============================================================================
