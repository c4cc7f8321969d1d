------------------------- MODULE LoginBackoffProofs -------------------------
(***************************************************************************)
(* The lock of LoginBackoff for any number of attempts and any threshold,  *)
(* delay, cap and decay.  The count on the row is the number of recent     *)
(* failures because the transaction that records one has the row locked    *)
(* from the increment to its commit; the lock says at least what the count *)
(* is promised to cost because both are written there.                     *)
(***************************************************************************)
EXTENDS LoginBackoff, FiniteSetTheorems, TLAPS

TimeInv ==
  \A r \in Req :
    txn[r].pc \in {"signing in", "failing", "counted"} => txn[r].now \in 0 .. clock

\* An attempt between its two UPDATEs has the row to itself.
HolderInv ==
  \A r \in Req : At(r, "counted") =>
    /\ holder = r /\ Len(streak) < MaxStreak
    /\ txn[r].failures = IF Forgotten(txn[r].now) THEN 1 ELSE count + 1

StreakInv ==
  /\ count <= Len(streak) /\ Len(streak) <= MaxStreak
  /\ IF streak = <<>> THEN count = 0 ELSE lastFail = streak[Len(streak)]
  /\ FailuresAreCounted

DueInv ==
  /\ Due \in Int /\ (Due <= lock \/ Due <= clock)
  /\ \A r \in Req : txn[r].pc \in {"matched", "mismatched"} =>
       txn[r].due <= txn[r].lock \/ txn[r].due <= clock

IInv == TypeOK /\ TimeInv /\ HolderInv /\ StreakInv /\ DueInv

-----------------------------------------------------------------------------
(* Recent failures *)

LEMMA RecentIsFinite ==
  ASSUME NEW s \in Seq(Int)
  PROVE  IsFiniteSet(Recent(s)) /\ Cardinality(Recent(s)) \in Nat
<1>1. IsFiniteSet(1 .. Len(s)) /\ Recent(s) \in SUBSET (1 .. Len(s))
  BY FS_Interval DEF Recent
<1>2. IsFiniteSet(Recent(s))
  BY <1>1, FS_Subset
<1>3. QED
  BY <1>2, FS_CardinalityType

LEMMA NothingIsRecent ==
  Recent(<<>>) = {} /\ Cardinality(Recent(<<>>)) = 0
<1>1. Recent(<<>>) = {}
  BY DEF Recent
<1>2. QED
  BY <1>1, FS_EmptySet

\* One more failure adds one to those that are recent, or leaves itself alone.
LEMMA OneMore ==
  ASSUME NEW s \in Seq(Int), NEW now \in Int
  PROVE  Cardinality(Recent(Append(s, now))) =
           IF s # <<>> /\ now - s[Len(s)] <= Decay
             THEN Cardinality(Recent(s)) + 1 ELSE 1
<1> DEFINE n == Len(s)
           t == Append(s, now)
<1>1. /\ n \in Nat /\ Len(t) = n + 1 /\ t[n + 1] = now /\ Decay \in Nat
      /\ \A k \in 1 .. n : t[k] = s[k] /\ s[k] \in Int
      /\ s = <<>> <=> n = 0
  BY BackoffAssumption
<1> HIDE DEF t, n
<1>2. Recent(t) = {i \in 1 .. n + 1 : \A k \in i + 1 .. n + 1 : t[k] - t[k - 1] <= Decay}
  BY <1>1 DEF Recent
<1>3. Recent(s) = {i \in 1 .. n : \A k \in i + 1 .. n : s[k] - s[k - 1] <= Decay}
  BY <1>1 DEF Recent, n
<1>4. n + 1 \in Recent(t) /\ n + 1 \notin Recent(s)
  BY <1>1, <1>2, <1>3
<1>5. CASE s # <<>> /\ now - s[n] <= Decay
  <2>1. Recent(t) = Recent(s) \cup {n + 1}
    <3>1. ASSUME NEW i \in Recent(t), i # n + 1 PROVE i \in Recent(s)
      BY <1>1, <1>2, <1>3, <3>1
    <3>2. ASSUME NEW i \in Recent(s) PROVE i \in Recent(t)
      <4>1. i \in 1 .. n + 1
        BY <1>1, <1>3
      <4>2. ASSUME NEW k \in i + 1 .. n + 1 PROVE t[k] - t[k - 1] <= Decay
        <5>1. CASE k = n + 1
          BY <1>1, <1>5, <5>1
        <5>2. CASE k # n + 1
          BY <1>1, <1>3, <3>2, <4>1, <5>2
        <5>3. QED
          BY <5>1, <5>2
      <4>3. QED
        BY <1>2, <4>1, <4>2
    <3>3. QED
      BY <1>4, <3>1, <3>2
  <2>2. Cardinality(Recent(t)) = Cardinality(Recent(s)) + 1
    BY <1>4, <2>1, RecentIsFinite, FS_AddElement
  <2>3. QED
    BY <1>5, <2>2 DEF t, n
<1>6. CASE s = <<>> \/ ~(now - s[n] <= Decay)
  <2>1. ASSUME NEW i \in Recent(t), i # n + 1 PROVE FALSE
    <3>1. i \in 1 .. n /\ n + 1 \in i + 1 .. n + 1 /\ n \in 1 .. n
      BY <1>1, <1>2, <2>1
    <3>2. t[n + 1] - t[n + 1 - 1] <= Decay /\ n + 1 - 1 = n
      BY <1>1, <1>2, <3>1
    <3>3. QED
      BY <1>1, <1>6, <3>1, <3>2
  <2>2. Recent(t) = {n + 1}
    BY <1>4, <2>1
  <2>3. Cardinality(Recent(t)) = 1
    BY <2>2, FS_Singleton
  <2>4. QED
    BY <1>6, <2>3 DEF t, n
<1>7. QED
  BY <1>5, <1>6

\* No delay is longer than the cap.
LEMMA Capped ==
  ASSUME NEW failures \in Int
  PROVE  Backoff(failures) \in Int /\ Backoff(failures) <= Cap
<1>1. CASE failures - Threshold <= 0
  BY <1>1, BackoffAssumption DEF Backoff
<1>2. CASE ~(failures - Threshold <= 0)
  <2> DEFINE n == failures - Threshold - 1
  <2>1. n \in Nat
    BY <1>2, BackoffAssumption
  <2> HIDE DEF n
  <2>2. Base * 2 ^ n \in Int
    BY <2>1, BackoffAssumption
  <2>3. Backoff(failures) = IF Base * 2 ^ n < Cap THEN Base * 2 ^ n ELSE Cap
    BY <1>2 DEF Backoff, n
  <2>4. QED
    BY <2>2, <2>3, BackoffAssumption
<1>3. QED
  BY <1>1, <1>2

\* The delay that is written is the one that is promised.
LEMMA AsPromised ==
  ASSUME NEW failures \in Int
  PROVE  Promised(failures) = Backoff(failures)
<1>1. CASE failures <= Threshold
  BY <1>1, BackoffAssumption DEF Promised, Backoff
<1>2. CASE ~(failures <= Threshold)
  <2> DEFINE n == failures - Threshold - 1
             doubled == Base * 2 ^ n
  <2>1. n \in Nat
    BY <1>2, BackoffAssumption
  <2> HIDE DEF n
  <2>2. doubled \in Int /\ Cap \in Int
    BY <2>1, BackoffAssumption
  <2>3. Backoff(failures) = IF doubled < Cap THEN doubled ELSE Cap
    BY <1>2, BackoffAssumption DEF Backoff, n
  <2>4. Promised(failures) =
          CHOOSE delay \in {Cap, doubled} : delay <= Cap /\ delay <= doubled
    BY <1>2 DEF Promised, n
  <2> HIDE DEF doubled
  <2>5. QED
    BY <2>2, <2>3, <2>4
<1>3. QED
  BY <1>1, <1>2

-----------------------------------------------------------------------------
(* The invariant *)

Attempts(now) ==
  [pc : Pc, now : Null .. now, failures : 0 .. MaxStreak, lock : Null .. now + Cap, due : Int]

LEMMA StreakTimes ==
  ASSUME TypeOK
  PROVE  /\ streak \in Seq(Int) /\ Len(streak) \in Nat
         /\ \A i \in 1 .. Len(streak) : streak[i] \in 0 .. clock
         /\ clock \in Nat /\ Cap \in Nat
  BY BackoffAssumption, SMTT(40) DEF TypeOK

\* What the next attempt has to wait for is known.
LEMMA DueIsTime ==
  ASSUME TypeOK
  PROVE  Due \in Int
<1>1. CASE streak = <<>>
  BY <1>1 DEF Due, Null
<1>2. CASE streak # <<>>
  <2>1. streak[Len(streak)] \in Int
    BY <1>2, StreakTimes
  <2>2. Cardinality(Recent(streak)) \in Int
    BY StreakTimes, RecentIsFinite
  <2>3. QED
    BY <1>2, <2>1, <2>2, Capped, AsPromised DEF Due
<1>3. QED
  BY <1>1, <1>2

LEMMA InvInit == Init => IInv
<1> SUFFICES ASSUME Init PROVE IInv
  OBVIOUS
<1>1. TypeOK
  BY BackoffAssumption DEF Init, TypeOK, Null, Idle, Attempt, Pc
<1>2. TimeInv /\ HolderInv
  BY DEF Init, TimeInv, HolderInv, Idle, Attempt, At
<1>3. StreakInv
  BY NothingIsRecent, BackoffAssumption DEF Init, StreakInv, FailuresAreCounted
<1>4. DueInv
  BY DEF Init, DueInv, Due, Null, Idle, Attempt
<1>5. QED
  BY <1>1, <1>2, <1>3, <1>4 DEF IInv

\* A step of an attempt that does not touch the row of the account.
LEMMA AttemptMoves ==
  ASSUME IInv, NEW r \in Req, NEW a \in Attempts(clock), Goto(r, a),
         UNCHANGED <<clock, account>>,
         holder' \in Req \cup {None},
         \A q \in Req \ {r} : At(q, "counted") => holder' = q,
         a.pc \in {"signing in", "failing", "counted"} => a.now \in 0 .. clock,
         a.pc = "counted" =>
           /\ holder' = r /\ Len(streak) < MaxStreak
           /\ a.failures = IF Forgotten(a.now) THEN 1 ELSE count + 1,
         a.pc \in {"matched", "mismatched"} => a.due <= a.lock \/ a.due <= clock
  PROVE  IInv'
<1>1. /\ txn' = [txn EXCEPT ![r] = a] /\ txn \in [Req -> Attempts(clock)]
      /\ UNCHANGED <<clock, count, lastFail, lock, streak>>
  BY DEF Goto, account, IInv, TypeOK, Attempts
<1>2. txn'[r] = a /\ \A q \in Req \ {r} : txn'[q] = txn[q]
  BY <1>1
<1>3. TypeOK'
  BY <1>1 DEF IInv, TypeOK, Attempts
<1>4. TimeInv'
  BY <1>1, <1>2 DEF IInv, TimeInv
<1>5. HolderInv'
  BY <1>1, <1>2 DEF IInv, HolderInv, At, Forgotten
<1>6. StreakInv'
  BY <1>1 DEF IInv, StreakInv, FailuresAreCounted
<1>7. DueInv'
  <2>1. Due' = Due
    BY <1>1 DEF Due
  <2>2. QED
    BY <1>1, <1>2, <2>1 DEF IInv, DueInv
<1>8. QED
  BY <1>3, <1>4, <1>5, <1>6, <1>7 DEF IInv

LEMMA Fields ==
  ASSUME TypeOK, NEW r \in Req
  PROVE  /\ txn[r].pc \in Pc /\ txn[r].now \in Null .. clock
         /\ txn[r].failures \in 0 .. MaxStreak
         /\ txn[r].lock \in Null .. clock + Cap /\ txn[r].due \in Int
  BY DEF TypeOK

LEMMA AttemptIsTyped ==
  ASSUME NEW pc \in Pc, NEW now \in Null .. clock, NEW failures \in 0 .. MaxStreak,
         NEW seen \in Null .. clock + Cap, NEW due \in Int
  PROVE  Attempt(pc, now, failures, seen, due) \in Attempts(clock)
  BY DEF Attempt, Attempts

LEMMA ClockIsTime ==
  ASSUME TypeOK
  PROVE  clock \in 0 .. clock /\ clock \in Null .. clock
<1>1. clock \in Nat
  BY StreakTimes
<1>2. QED
  BY <1>1 DEF Null

\* The values that are written where there is none.
LEMMA Nothings ==
  ASSUME TypeOK
  PROVE  /\ Null \in Null .. clock /\ Null \in Null .. clock + Cap
         /\ 0 \in 0 .. MaxStreak /\ Null \in Int /\ Idle \in Attempts(clock)
<1>1. /\ Null \in Null .. clock /\ Null \in Null .. clock + Cap
      /\ 0 \in 0 .. MaxStreak /\ Null \in Int
  BY BackoffAssumption DEF TypeOK, Null
<1>2. "idle" \in Pc
  BY DEF Pc
<1> HIDE DEF Null
<1>3. QED
  BY <1>1, <1>2, AttemptIsTyped DEF Idle

LEMMA GoIdle ==
  ASSUME IInv, NEW r \in Req, Goto(r, Idle), UNCHANGED <<clock, account>>,
         holder' = holder \/ (holder = r /\ holder' = None)
  PROVE  IInv'
<1>1. /\ Idle \in Attempts(clock) /\ Idle.pc = "idle" /\ holder' \in Req \cup {None}
      /\ \A q \in Req \ {r} : At(q, "counted") => holder' = q
  BY Nothings DEF IInv, TypeOK, HolderInv, Idle, Attempt
<1>2. QED
  BY <1>1, AttemptMoves

LEMMA BeginKeeps ==
  ASSUME IInv, NEW r \in Req, NEW matches \in BOOLEAN, Begin(r, matches)
  PROVE  IInv'
<1> DEFINE a == Attempt(IF matches THEN "matched" ELSE "mismatched", Null, 0, lock, Due)
<1>1. /\ a \in Attempts(clock) /\ a.pc \in {"matched", "mismatched"}
      /\ a.due = Due /\ a.lock = lock
  <2>1. \E pc \in {"matched", "mismatched"} : a = Attempt(pc, Null, 0, lock, Due)
    OBVIOUS
  <2>2. PICK pc \in {"matched", "mismatched"} : a = Attempt(pc, Null, 0, lock, Due)
    BY <2>1
  <2>3. pc \in Pc /\ lock \in Null .. clock + Cap
    BY <2>2 DEF Pc, IInv, TypeOK
  <2>4. a \in Attempts(clock)
    BY <2>2, <2>3, AttemptIsTyped, Nothings, DueIsTime DEF IInv
  <2>5. QED
    BY <2>2, <2>4 DEF Attempt
<1>2. Goto(r, a) /\ UNCHANGED <<clock, account, holder>>
  BY DEF Begin
<1> HIDE DEF a
<1>3. QED
  BY <1>1, <1>2, AttemptMoves DEF IInv, TypeOK, HolderInv, DueInv

LEMMA TakeTimeKeeps ==
  ASSUME IInv, NEW r \in Req, TakeTime(r)
  PROVE  IInv'
<1> DEFINE a == Attempt(IF At(r, "matched") THEN "signing in" ELSE "failing",
                        clock, 0, txn[r].lock, txn[r].due)
<1>1. /\ a \in Attempts(clock) /\ a.pc \in {"signing in", "failing"} /\ a.now = clock
      /\ a.now \in 0 .. clock
  <2>1. \E pc \in {"signing in", "failing"} :
          a = Attempt(pc, clock, 0, txn[r].lock, txn[r].due)
    OBVIOUS
  <2>2. PICK pc \in {"signing in", "failing"} :
          a = Attempt(pc, clock, 0, txn[r].lock, txn[r].due)
    BY <2>1
  <2>3. pc \in Pc
    BY <2>2 DEF Pc
  <2>4. clock \in 0 .. clock /\ clock \in Null .. clock
    BY ClockIsTime DEF IInv
  <2>5. a \in Attempts(clock)
    BY <2>2, <2>3, <2>4, AttemptIsTyped, Nothings, Fields DEF IInv
  <2>6. QED
    BY <2>2, <2>4, <2>5 DEF Attempt
<1>2. Goto(r, a) /\ UNCHANGED <<clock, account, holder>>
  BY DEF TakeTime
<1> HIDE DEF a
<1>3. QED
  BY <1>1, <1>2, AttemptMoves DEF IInv, TypeOK, HolderInv

LEMMA CountFailureKeeps ==
  ASSUME IInv, NEW r \in Req, CountFailure(r)
  PROVE  IInv'
<1> DEFINE f == IF Forgotten(txn[r].now) THEN 1 ELSE count + 1
           a == Attempt("counted", txn[r].now, f, txn[r].lock, txn[r].due)
<1>1. /\ txn[r].now \in 0 .. clock /\ holder = None /\ holder' = r
      /\ Len(streak) < MaxStreak /\ Goto(r, a) /\ UNCHANGED <<clock, account>>
  BY DEF CountFailure, IInv, TimeInv, At, RowFree
<1>2. f \in 0 .. MaxStreak
  BY <1>1, StreakTimes, BackoffAssumption DEF IInv, TypeOK, StreakInv
<1> HIDE DEF f
<1>3. /\ a \in Attempts(clock) /\ a.pc = "counted" /\ a.now = txn[r].now /\ a.failures = f
  BY <1>2, Fields, AttemptIsTyped DEF IInv, Attempt, Pc
<1>4. \A q \in Req : ~At(q, "counted")
  BY <1>1, BackoffAssumption DEF IInv, HolderInv
<1> HIDE DEF a
<1>5. QED
  BY <1>1, <1>3, <1>4, AttemptMoves DEF f

LEMMA RecordFailureKeeps ==
  ASSUME IInv, NEW r \in Req, RecordFailure(r)
  PROVE  IInv'
<1> DEFINE now == txn[r].now
           f == txn[r].failures
<1>1. /\ now \in 0 .. clock /\ holder = r /\ Len(streak) < MaxStreak
      /\ f = IF Forgotten(now) THEN 1 ELSE count + 1
      /\ f \in 0 .. MaxStreak
  BY Fields DEF RecordFailure, At, IInv, TimeInv, HolderInv
<1>2. /\ count' = f /\ lastFail' = now /\ clock' = clock /\ holder' = None
      /\ lock' = IF Backoff(f) > 0 THEN now + Backoff(f) ELSE lock
      /\ streak' = Append(streak, now)
      /\ txn' = [txn EXCEPT ![r] = Idle]
  BY DEF RecordFailure, Goto
<1>3. /\ streak \in Seq(0 .. clock) /\ streak \in Seq(Int) /\ clock \in Nat /\ Cap \in Nat
      /\ lock \in Null .. clock + Cap /\ txn \in [Req -> Attempts(clock)]
      /\ Idle \in Attempts(clock) /\ Len(streak) \in Nat
      /\ clock \in 0 .. Horizon /\ MaxStreak \in Nat /\ count \in 0 .. MaxStreak
  BY StreakTimes, Nothings, BackoffAssumption DEF IInv, TypeOK, Attempts
<1> HIDE DEF now, f
<1>4. /\ streak' \in Seq(0 .. clock) /\ Len(streak') = Len(streak) + 1
      /\ streak'[Len(streak')] = now /\ streak' # <<>>
  BY <1>1, <1>2, <1>3
<1>5. Backoff(f) \in Int /\ Backoff(f) <= Cap
  BY <1>1, Capped
<1>6. txn'[r] = Idle /\ \A q \in Req \ {r} : txn'[q] = txn[q] /\ ~At(q, "counted")
  BY <1>1, <1>2, <1>3 DEF IInv, HolderInv
<1>7. TypeOK'
  <2>1. lock' \in Null .. clock + Cap
    BY <1>1, <1>2, <1>3, <1>5 DEF Null
  <2>2. lastFail' \in Null .. clock
    BY <1>1, <1>2, <1>3 DEF Null
  <2>3. txn' \in [Req -> Attempts(clock)]
    BY <1>2, <1>3
  <2>4. QED
    BY <1>1, <1>2, <1>3, <1>4, <2>1, <2>2, <2>3 DEF TypeOK, Attempts
<1>8. TimeInv' /\ HolderInv'
  <2>1. txn'[r].pc = "idle"
    BY <1>6 DEF Idle, Attempt
  <2>2. QED
    BY <1>2, <1>6, <2>1 DEF IInv, TimeInv, HolderInv, At
<1>9. StreakInv'
  <2>1. /\ count' <= Len(streak') /\ Len(streak') <= MaxStreak
    BY <1>1, <1>2, <1>3, <1>4 DEF IInv, StreakInv
  <2>2. FailuresAreCounted'
    <3>1. f = IF streak # <<>> /\ now - streak[Len(streak)] <= Decay
                THEN Cardinality(Recent(streak)) + 1 ELSE 1
      <4>1. CASE streak = <<>>
        <5>1. Cardinality(Recent(streak)) = 0 /\ count = 0
          BY <4>1, NothingIsRecent DEF IInv, StreakInv
        <5>2. QED
          BY <1>1, <4>1, <5>1
      <4>2. CASE streak # <<>>
        <5>1. /\ lastFail = streak[Len(streak)] /\ lastFail \in 0 .. clock
              /\ count = Cardinality(Recent(streak))
          BY <4>2, StreakTimes DEF IInv, StreakInv, FailuresAreCounted
        <5>2. Forgotten(now) <=> ~(now - streak[Len(streak)] <= Decay)
          BY <1>1, <1>3, <5>1, BackoffAssumption DEF Forgotten, Null
        <5>3. QED
          BY <1>1, <4>2, <5>1, <5>2
      <4>3. QED
        BY <4>1, <4>2
    <3>2. now \in Int
      BY <1>1, <1>3
    <3>3. QED
      BY <1>2, <1>3, <3>1, <3>2, OneMore DEF FailuresAreCounted
  <2>3. QED
    BY <1>2, <1>4, <2>1, <2>2 DEF StreakInv
<1>10. DueInv'
  <2>1. Due' = now + Backoff(f)
    <3>1. Cardinality(Recent(streak'))  = f
      BY <1>2, <1>9 DEF StreakInv, FailuresAreCounted
    <3>2. QED
      BY <1>1, <1>4, <3>1, AsPromised DEF Due
  <2>2. Due' \in Int /\ (Due' <= lock' \/ Due' <= clock')
    BY <1>1, <1>2, <1>3, <1>5, <2>1
  <2>3. \A q \in Req : txn'[q].pc \in {"matched", "mismatched"} =>
          txn'[q].due <= txn'[q].lock \/ txn'[q].due <= clock'
    BY <1>2, <1>6 DEF IInv, DueInv, Idle, Attempt
  <2>4. QED
    BY <2>2, <2>3 DEF DueInv
<1>11. QED
  BY <1>7, <1>8, <1>9, <1>10 DEF IInv

\* A success or a reset clears the count and the lock, with the row free.
LEMMA ClearingKeeps ==
  ASSUME IInv, RowFree, count' = 0, lock' = Null, streak' = <<>>,
         UNCHANGED <<clock, lastFail, holder>>,
         txn' = txn \/ \E r \in Req : txn' = [txn EXCEPT ![r] = Idle]
  PROVE  IInv'
<1>1. /\ Idle \in Attempts(clock) /\ txn \in [Req -> Attempts(clock)]
      /\ Null \in Null .. clock + Cap /\ 0 \in 0 .. MaxStreak
  BY Nothings DEF IInv, TypeOK, Attempts
<1>2. /\ txn' \in [Req -> Attempts(clock)]
      /\ \A q \in Req : txn'[q] = txn[q] \/ txn'[q] = Idle
      /\ \A q \in Req : ~At(q, "counted")
  BY <1>1, BackoffAssumption DEF IInv, HolderInv, RowFree
<1>3. streak' \in Seq(0 .. clock) /\ Len(streak') = 0
  OBVIOUS
<1>4. TypeOK'
  BY <1>1, <1>2, <1>3 DEF IInv, TypeOK, Attempts
<1>5. Idle.pc = "idle"
  BY DEF Idle, Attempt
<1>6. TimeInv' /\ HolderInv'
  BY <1>2, <1>5 DEF IInv, TimeInv, HolderInv, At
<1>7. StreakInv'
  BY <1>3, NothingIsRecent, BackoffAssumption DEF StreakInv, FailuresAreCounted
<1>8. DueInv'
  <2>1. Due' = Null
    BY DEF Due
  <2>2. Null \in Int /\ Null <= Null
    BY DEF Null
  <2>3. QED
    BY <1>2, <1>5, <2>1, <2>2 DEF IInv, DueInv
<1>9. QED
  BY <1>4, <1>6, <1>7, <1>8 DEF IInv

LEMMA SeqGrows ==
  ASSUME NEW S, NEW T, S \subseteq T, NEW s \in Seq(S)
  PROVE  s \in Seq(T)
  OBVIOUS

LEMMA TickKeeps ==
  ASSUME IInv, Tick
  PROVE  IInv'
<1>1. /\ clock \in Nat /\ Cap \in Nat /\ Horizon \in Nat /\ clock < Horizon
      /\ clock' = clock + 1
      /\ UNCHANGED <<count, lastFail, lock, holder, txn, streak>>
  BY BackoffAssumption DEF IInv, TypeOK, Tick, account
<1>2. /\ 0 .. clock \subseteq 0 .. clock' /\ Null .. clock \subseteq Null .. clock'
      /\ Null .. clock + Cap \subseteq Null .. clock' + Cap
      /\ clock' \in 0 .. Horizon
  BY <1>1 DEF Null
<1>3. TypeOK'
  <2>1. streak \in Seq(0 .. clock')
    BY <1>2, SeqGrows DEF IInv, TypeOK
  <2>2. txn \in [Req -> Attempts(clock')]
    BY <1>2 DEF IInv, TypeOK, Attempts
  <2>3. QED
    BY <1>1, <1>2, <2>1, <2>2 DEF IInv, TypeOK, Attempts
<1>4. TimeInv'
  BY <1>1, <1>2 DEF IInv, TimeInv
<1>5. HolderInv' /\ StreakInv'
  BY <1>1 DEF IInv, HolderInv, StreakInv, FailuresAreCounted, At, Forgotten
<1>6. DueInv'
  <2>1. Due' = Due
    BY <1>1 DEF Due
  <2>2. \A r \in Req : txn[r].due \in Int
    BY Fields DEF IInv
  <2>3. QED
    BY <1>1, <2>1, <2>2 DEF IInv, DueInv
<1>7. QED
  BY <1>3, <1>4, <1>5, <1>6 DEF IInv

-----------------------------------------------------------------------------
(* Every step keeps the invariant. *)

LEMMA LoginKeeps ==
  ASSUME IInv, NEW r \in Req, Login(r)
  PROVE  IInv'
<1>1. ASSUME NEW matches \in BOOLEAN, Begin(r, matches) PROVE IInv'
  BY <1>1, BeginKeeps
<1>2. CASE TakeTime(r)
  BY <1>2, TakeTimeKeeps
<1>3. CASE TooEarly(r)
  BY <1>3, GoIdle DEF TooEarly
<1>4. CASE SignIn(r)
  BY <1>4, ClearingKeeps DEF SignIn, Goto
<1>5. CASE Refused(r)
  BY <1>5, GoIdle DEF Refused
<1>6. CASE CountFailure(r)
  BY <1>6, CountFailureKeeps
<1>7. CASE RecordFailure(r)
  BY <1>7, RecordFailureKeeps
<1>8. CASE Abort(r)
  BY <1>8, GoIdle DEF Abort
<1>9. QED
  BY <1>1, <1>2, <1>3, <1>4, <1>5, <1>6, <1>7, <1>8 DEF Login

LEMMA InvStep == IInv /\ [Next]_vars => IInv'
<1> SUFFICES ASSUME IInv, [Next]_vars PROVE IInv'
  OBVIOUS
<1>1. ASSUME NEW r \in Req, Login(r) PROVE IInv'
  BY <1>1, LoginKeeps
<1>2. CASE PasswordReset
  BY <1>2, ClearingKeeps DEF PasswordReset
<1>3. CASE Tick
  BY <1>3, TickKeeps
<1>4. CASE UNCHANGED vars
  <2>1. Due' = Due
    BY <1>4 DEF vars, account, Due
  <2>2. QED
    BY <1>4, <2>1 DEF vars, account, IInv, TypeOK, TimeInv, HolderInv, StreakInv,
                      FailuresAreCounted, DueInv, At, Forgotten
<1>5. QED
  BY <1>1, <1>2, <1>3, <1>4 DEF Next

\* The invariant holds in every reachable state.
THEOREM Invariance == Spec => []IInv
  BY InvInit, InvStep, PTL DEF Spec

\* The columns of the account and the attempts on it keep their types, whatever
\* the threshold, the delays and the number of attempts (auth.service.ts).
THEOREM TypeCorrect == Spec => []TypeOK
<1>1. IInv => TypeOK
  BY DEF IInv
<1>2. QED
  BY <1>1, Invariance, PTL

\* failedLoginCount is the number of failures in a row, each within the decay of
\* the one before, however many attempts fail at once (recordLoginFailure).
THEOREM FailuresCounted == Spec => []FailuresAreCounted
<1>1. IInv => FailuresAreCounted
  BY DEF IInv, StreakInv
<1>2. QED
  BY <1>1, Invariance, PTL

\* No login succeeds on an account that is locked, not even one that read the
\* row before the lock was written (the WHERE clause of completeLogin).
THEOREM LockedRejected == Spec => LockedLoginIsRejected
<1>1. ASSUME IInv, NEW r \in Req, SignIn(r) PROVE lock <= clock
  <2>1. txn[r].now \in 0 .. clock /\ ~(lock > txn[r].now)
    BY <1>1 DEF SignIn, At, Locked, IInv, TimeInv
  <2>2. lock \in Int /\ clock \in Int
    BY <1>1, BackoffAssumption DEF IInv, TypeOK, Null
  <2>3. QED
    BY <2>1, <2>2
<1>2. IInv /\ [Next]_vars => [\A r \in Req : SignIn(r) => lock <= clock]_vars
  BY <1>1
<1>3. QED
  BY <1>2, Invariance, PTL DEF Spec, LockedLoginIsRejected

\* An attempt gets beyond the lock only when the delay promised for the failures
\* recorded when it read the account has passed since the one recorded last
\* (login, recordLoginFailure).
THEOREM GuessesSpaced == Spec => GuessesAreSpaced
<1>1. ASSUME IInv, NEW r \in Req, TakeTime(r) PROVE clock >= txn[r].due
  <2>1. /\ txn[r].due <= txn[r].lock \/ txn[r].due <= clock
        /\ txn[r].lock <= clock
    BY <1>1 DEF TakeTime, IInv, DueInv
  <2>2. txn[r].due \in Int /\ txn[r].lock \in Int /\ clock \in Int
    BY <1>1, Fields, BackoffAssumption DEF IInv, TypeOK, Null
  <2>3. QED
    BY <2>1, <2>2
<1>2. IInv /\ [Next]_vars => [\A r \in Req : TakeTime(r) => clock >= txn[r].due]_vars
  BY <1>1
<1>3. QED
  BY <1>2, Invariance, PTL DEF Spec, GuessesAreSpaced

=============================================================================
