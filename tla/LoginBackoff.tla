---------------------------- MODULE LoginBackoff ----------------------------
(***************************************************************************)
(* The progressive lock of one account's login: failedLoginCount,          *)
(* lastFailedLoginAt and lockedUntil of its User row, under concurrent     *)
(* login attempts and the passing of time.                                 *)
(*                                                                         *)
(* An attempt reads the row, verifies the password, compares the lock it   *)
(* has read with the time, and only then opens the transaction that signs  *)
(* in or records the failure.                                              *)
(* Either begins with an UPDATE of the row, which waits for the row lock;  *)
(* the time it writes can therefore lie in the past.  The transaction that *)
(* signs in writes the row once, so it is one step; the one that records a *)
(* failure writes it twice.                                                *)
(***************************************************************************)
EXTENDS Integers, Sequences, FiniteSets

CONSTANTS
  Req,        \* login attempts in flight
  None,       \* no attempt
  Threshold,  \* LOGIN_FAILURE_THRESHOLD
  Base, Cap,  \* LOGIN_BACKOFF_BASE_MS, LOGIN_BACKOFF_MAX_MS
  Decay,      \* LOGIN_FAILURE_DECAY_MS
  Horizon,    \* the clock stops here (a bound of the model)
  MaxStreak   \* failures in a row are counted to here (a bound of the model)

ASSUME BackoffAssumption ==
  /\ None \notin Req
  /\ Threshold \in Nat /\ Decay \in Nat /\ Horizon \in Nat /\ MaxStreak \in Nat
  /\ Base \in Nat \ {0} /\ Cap \in Nat /\ Cap >= Base

VARIABLES
  clock,     \* the time, one for all processes
  count,     \* failedLoginCount
  lastFail,  \* lastFailedLoginAt
  lock,      \* lockedUntil
  holder,    \* the attempt whose transaction has the row locked
  txn,       \* what each attempt is doing, with which time and count, the
             \* lock it has read and (for a property) the time it was due
  streak     \* the times of the failures recorded since the count was cleared

account == <<count, lastFail, lock, streak>>
vars == <<clock, account, holder, txn>>

Null == -1

Pc == {"idle", "matched", "mismatched", "signing in", "failing", "counted"}
Attempt(pc, now, failures, lockSeen, due) ==
  [pc |-> pc, now |-> now, failures |-> failures, lock |-> lockSeen, due |-> due]
Idle == Attempt("idle", Null, 0, Null, Null)

-----------------------------------------------------------------------------

At(r, pc) == txn[r].pc = pc
Goto(r, attempt) == txn' = [txn EXCEPT ![r] = attempt]

RowFree == holder = None

Locked(now) == lock > now

\* Mutant of Backoff: no cap.
BackoffUncapped(failures) ==
  IF failures <= Threshold THEN 0 ELSE Base * 2 ^ (failures - Threshold - 1)

\* Mutant of Backoff: the first failure beyond the threshold is free.
BackoffOneLate(failures) ==
  LET excess == failures - Threshold - 1
      doubled == Base * 2 ^ (excess - 1)
  IN IF excess <= 0 THEN 0 ELSE IF doubled < Cap THEN doubled ELSE Cap

\* min(BASE * 2 ** (excess - 1), MAX) beyond the threshold.
Backoff(failures) ==
  LET excess == failures - Threshold
      doubled == Base * 2 ^ (excess - 1)
  IN IF excess <= 0 THEN 0 ELSE IF doubled < Cap THEN doubled ELSE Cap

\* failureHistoryForgotten
Forgotten(now) == lastFail = Null \/ now - lastFail > Decay

-----------------------------------------------------------------------------

\* The failures at the end of s that follow one another within DECAY.
Recent(s) ==
  {i \in 1 .. Len(s) : \A k \in i + 1 .. Len(s) : s[k] - s[k - 1] <= Decay}

\* The delay the README promises after so many failures in a row: none up to the
\* threshold, then the first delay, doubled with every further one, at most the cap.
Promised(failures) ==
  IF failures <= Threshold THEN 0
  ELSE CHOOSE delay \in {Cap, Base * 2 ^ (failures - Threshold - 1)} :
         delay <= Cap /\ delay <= Base * 2 ^ (failures - Threshold - 1)

\* When the failures recorded so far allow the next attempt: the promised delay
\* after the time of the one recorded last.
Due == IF streak = <<>> THEN Null
       ELSE streak[Len(streak)] + Promised(Cardinality(Recent(streak)))

\* The account is read, then the password verified.
Begin(r, matches) ==
  /\ At(r, "idle")
  /\ Goto(r, Attempt(IF matches THEN "matched" ELSE "mismatched", Null, 0, lock, Due))
  /\ UNCHANGED <<clock, account, holder>>

\* Mutant of TakeTime: the lock is not looked at.
TakeTimeLocked(r) ==
  /\ txn[r].pc \in {"matched", "mismatched"}
  /\ Goto(r, Attempt(IF At(r, "matched") THEN "signing in" ELSE "failing",
                     clock, 0, txn[r].lock, txn[r].due))
  /\ UNCHANGED <<clock, account, holder>>

\* The lock that was read is compared with the time, and the time is kept for
\* the transaction.
TakeTime(r) ==
  /\ txn[r].pc \in {"matched", "mismatched"} /\ txn[r].lock <= clock
  /\ Goto(r, Attempt(IF At(r, "matched") THEN "signing in" ELSE "failing",
                     clock, 0, txn[r].lock, txn[r].due))
  /\ UNCHANGED <<clock, account, holder>>

\* 429, whether the password is right or not.
TooEarly(r) ==
  /\ txn[r].pc \in {"matched", "mismatched"} /\ txn[r].lock > clock
  /\ Goto(r, Idle)
  /\ UNCHANGED <<clock, account, holder>>

\* Mutant of SignIn: the lock is not looked at again.
SignInLocked(r) ==
  /\ At(r, "signing in") /\ RowFree
  /\ count' = 0 /\ lock' = Null /\ streak' = <<>>
  /\ Goto(r, Idle)
  /\ UNCHANGED <<clock, lastFail, holder>>

\* The WHERE clause looks at the lock again.
SignIn(r) ==
  /\ At(r, "signing in") /\ RowFree /\ ~Locked(txn[r].now)
  /\ count' = 0 /\ lock' = Null /\ streak' = <<>>
  /\ Goto(r, Idle)
  /\ UNCHANGED <<clock, lastFail, holder>>

Refused(r) ==
  /\ At(r, "signing in") /\ RowFree /\ Locked(txn[r].now)
  /\ Goto(r, Idle)
  /\ UNCHANGED <<clock, account, holder>>

\* Mutant of CountFailure: a plain read, the row is not locked by it.
CountFailureUnlocked(r) ==
  /\ At(r, "failing") /\ RowFree
  /\ Len(streak) < MaxStreak
  /\ Goto(r, Attempt("counted", txn[r].now,
                     IF Forgotten(txn[r].now) THEN 1 ELSE count + 1,
                     txn[r].lock, txn[r].due))
  /\ UNCHANGED <<clock, account, holder>>

\* The first UPDATE increments the count and returns it.
CountFailure(r) ==
  /\ At(r, "failing") /\ RowFree
  /\ Len(streak) < MaxStreak
  /\ holder' = r
  /\ Goto(r, Attempt("counted", txn[r].now,
                     IF Forgotten(txn[r].now) THEN 1 ELSE count + 1,
                     txn[r].lock, txn[r].due))
  /\ UNCHANGED <<clock, account>>

\* The second UPDATE and the commit.
RecordFailure(r) ==
  LET now == txn[r].now
      failures == txn[r].failures
  IN /\ At(r, "counted")
     /\ count' = failures
     /\ lastFail' = now
     /\ lock' = IF Backoff(failures) > 0 THEN now + Backoff(failures) ELSE lock
     /\ streak' = Append(streak, now)
     /\ holder' = None
     /\ Goto(r, Idle)
     /\ UNCHANGED clock

\* An error or the end of the process rolls the transaction back.
Abort(r) ==
  /\ ~At(r, "idle")
  /\ holder' = IF holder = r THEN None ELSE holder
  /\ Goto(r, Idle)
  /\ UNCHANGED <<clock, account>>

\* A password reset clears the counter and the lock.
PasswordReset ==
  /\ RowFree
  /\ count' = 0 /\ lock' = Null /\ streak' = <<>>
  /\ UNCHANGED <<clock, lastFail, holder, txn>>

Tick ==
  /\ clock < Horizon
  /\ clock' = clock + 1
  /\ UNCHANGED <<account, holder, txn>>

-----------------------------------------------------------------------------

Init ==
  /\ clock = 0
  /\ count = 0 /\ lastFail = Null /\ lock = Null
  /\ holder = None
  /\ txn = [r \in Req |-> Idle]
  /\ streak = <<>>

Login(r) ==
  \/ \E matches \in BOOLEAN : Begin(r, matches)
  \/ TakeTime(r) \/ TooEarly(r)
  \/ SignIn(r) \/ Refused(r)
  \/ CountFailure(r) \/ RecordFailure(r)
  \/ Abort(r)

Next == (\E r \in Req : Login(r)) \/ PasswordReset \/ Tick

Spec == Init /\ [][Next]_vars

-----------------------------------------------------------------------------
(* Properties *)

\* The columns and the attempts have their types; no lock reaches beyond the cap.
TypeOK ==
  /\ clock \in 0 .. Horizon
  /\ count \in 0 .. MaxStreak
  /\ lastFail \in Null .. clock
  /\ lock \in Null .. clock + Cap
  /\ holder \in Req \cup {None}
  /\ txn \in [Req -> [pc : Pc, now : Null .. clock, failures : 0 .. MaxStreak,
                      lock : Null .. clock + Cap, due : Int]]
  /\ streak \in Seq(0 .. clock)

\* failedLoginCount is the number of failures in a row, each within DECAY of the
\* one before, since a success or a reset, and concurrent failures are counted
\* one by one (README: "Ayni anda yapilan denemeler de dogru sayilir").
FailuresAreCounted == count = Cardinality(Recent(streak))

\* Once the account is locked no login succeeds, not even one that read it as
\* unlocked and knows the password (README: "kilit olustuktan sonra dogru sifre
\* de reddedilir").
LockedLoginIsRejected == [][\A r \in Req : SignIn(r) => lock <= clock]_vars

\* An attempt that reads the account when n failures in a row are recorded gets
\* beyond the lock only when the delay the README promises for n failures has
\* passed since the last of them (README: "1 sn, 2 sn, 4 sn ... en fazla 5 dk").
\* Failures are ordered as they are recorded, and count with the time they carry:
\* attempts that have all read the account before any of them is recorded are not
\* held apart, and a failure recorded late, with an older time, moves the lock
\* back to that time.
GuessesAreSpaced ==
  [][\A r \in Req : TakeTime(r) => clock >= txn[r].due]_vars

=============================================================================
