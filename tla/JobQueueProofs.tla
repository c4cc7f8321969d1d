--------------------------- MODULE JobQueueProofs ---------------------------
(***************************************************************************)
(* Safety of JobQueue for any number of processes, versions, queues and    *)
(* jobs.                                                                   *)
(***************************************************************************)
EXTENDS JobQueue, TLAPS

\* TypeOK in the parts that the actions touch.
TypeReg ==
  /\ inst \in [Instance -> [pc : Pc, version : Version \cup {None},
                            workers : BOOLEAN, todo : SUBSET Queue]]
  /\ \A i \in Instance : ~At(i, "down") => VersionOf(i) \in Version
  /\ queues \subseteq Queue
  /\ schedule \in [Queue -> Version \cup {None}]
  /\ \A q \in Queue : schedule[q] # None => q \in queues
  /\ boots \in 0 .. MaxBoots
  /\ alone \in [Instance -> BOOLEAN]

TypeWork ==
  /\ job \in [Job -> [state : JobState, tries : Nat, by : Instance \cup {None}]]
  /\ \A n \in Job : job[n].tries <= Limit(n)
  /\ run \subseteq [by : Instance, job : Job, tries : Nat,
                    phase : {"running", "returned", "threw"}]
  /\ handled \subseteq Job /\ logged \subseteq Job /\ cut \subseteq Job

QueuedInv == \A n \in Job : ~In(n, "absent") => NameOf[n] \in queues

\* Only a job that was put back has been run and is due again; it has runs left.
RowInv ==
  \A n \in Job :
    /\ job[n].state \in {"absent", "pending", "created"} => job[n].tries = 0
    /\ In(n, "retry") => job[n].tries < Limit(n)

\* A call belongs to a job that was fetched, and is the one its row waits for
\* unless the row gave it up; no two calls are of the same fetch; what a call
\* came to has been noted.
CallInv ==
  /\ \A c \in run :
       /\ job[c.job].state \notin {"absent", "pending", "created"}
       /\ c.tries <= job[c.job].tries
       /\ Current(c) \/ c.job \in cut
       /\ c.phase = "returned" => c.job \in handled
       /\ c.phase = "threw" /\ NoneLeft(c) => c.job \in logged
  /\ \A c, d \in run : c.job = d.job /\ c.tries = d.tries => c = d

\* What a process in its boot has still to write or to withdraw.
TodoInv ==
  \A i \in Instance :
    /\ At(i, "scheduling") => Todo(i) \subseteq Scheduled[VersionOf(i)]
    /\ At(i, "withdrawing") => Todo(i) \cap Scheduled[VersionOf(i)] = {}

Wanted(i, q) == q \in Scheduled[VersionOf(i)]

\* How far the schedules are those of a process that boots without another
\* version beside it: those it has written are there, and once it has listed
\* them, those it has not listed are its own.
SyncInv ==
  \A i \in Instance : alone[i] /\ (Syncing(i) \/ Synced(i)) =>
    /\ \A o \in Instance : Syncing(o) => VersionOf(o) = VersionOf(i)
    /\ \A q \in Queue :
         /\ Wanted(i, q) /\ (At(i, "scheduling") => q \notin Todo(i))
              => schedule[q] = VersionOf(i)
         /\ ~Wanted(i, q) /\ ~At(i, "scheduling") /\ schedule[q] # None
              => At(i, "withdrawing") /\ q \in Todo(i)

RegInv == TypeReg /\ TodoInv /\ SyncInv
WorkInv == TypeWork /\ RowInv /\ CallInv /\ GivenUpJobsAreLogged
IInv == RegInv /\ WorkInv /\ QueuedInv

LEMMA TypeParts == TypeOK <=> TypeReg /\ TypeWork /\ QueuedInv
  BY DEF TypeOK, TypeReg, TypeWork, QueuedInv

LEMMA InvInit == Init => IInv
<1> SUFFICES ASSUME Init PROVE IInv
  OBVIOUS
<1>1. TypeReg
  BY QueueAssumption DEF Init, TypeReg, Down, Process, Pc, At, VersionOf
<1>2. TypeWork
  BY QueueAssumption DEF Init, TypeWork, Row, JobState, Limit
<1>3. TodoInv /\ SyncInv /\ RowInv /\ CallInv /\ QueuedInv /\ GivenUpJobsAreLogged
  BY DEF Init, TodoInv, SyncInv, RowInv, CallInv, QueuedInv, GivenUpJobsAreLogged,
     Down, Process, Row, At, In
<1>4. QED
  BY <1>1, <1>2, <1>3 DEF IInv, RegInv, WorkInv

-----------------------------------------------------------------------------
(* Steps that leave one half alone *)

LEMMA RegistryUntouched ==
  ASSUME RegInv, UNCHANGED <<inst, boots, registry>>
  PROVE  RegInv'
  BY DEF RegInv, TypeReg, TodoInv, SyncInv, registry, At, VersionOf, Todo,
     Syncing, Synced, Wanted

LEMMA WorkUntouched ==
  ASSUME WorkInv, UNCHANGED work
  PROVE  WorkInv'
  BY DEF WorkInv, TypeWork, RowInv, CallInv, GivenUpJobsAreLogged, work, In,
     Limit, Current, NoneLeft

LEMMA StillQueued ==
  ASSUME IInv, queues \subseteq queues',
         \A n \in Job : In(n, "absent") /\ ~In(n, "absent")' => NameOf[n] \in queues
  PROVE  QueuedInv'
  BY DEF IInv, QueuedInv

-----------------------------------------------------------------------------
(* The boot *)

USE DEF At, VersionOf, Todo

LEMMA StartKeeps ==
  ASSUME IInv, NEW i \in Instance, NEW v \in Version, NEW workers \in BOOLEAN,
         Start(i, v, workers)
  PROVE  RegInv' /\ UNCHANGED <<queues, work>>
<1>1. TypeReg'
  BY QueueAssumption DEF IInv, RegInv, TypeReg, Start, Process, Pc, registry
<1>2. TodoInv'
  BY DEF IInv, RegInv, TypeReg, TodoInv, Start, Process
<1>3. SyncInv'
  BY DEF IInv, RegInv, TypeReg, SyncInv, Start, Process, Syncing, Synced, Wanted,
     registry
<1>4. QED
  BY <1>1, <1>2, <1>3 DEF RegInv, Start, registry

LEMMA CreateQueuesKeeps ==
  ASSUME IInv, NEW i \in Instance, CreateQueues(i)
  PROVE  RegInv' /\ queues \subseteq queues' /\ UNCHANGED work
<1> DEFINE v == VersionOf(i)
<1>1. v \in Version /\ Scheduled[v] \in SUBSET Queue /\ Defines[v] \in SUBSET Queue
  BY QueueAssumption DEF IInv, RegInv, TypeReg, CreateQueues
<1>2. inst' = [inst EXCEPT ![i].pc = "scheduling", ![i].todo = Scheduled[v]]
  BY DEF CreateQueues, Goto
<1>3. /\ inst'[i].pc = "scheduling" /\ inst'[i].todo = Scheduled[v]
      /\ inst'[i].version = v
      /\ \A o \in Instance \ {i} : inst'[o] = inst[o]
  BY <1>2 DEF IInv, RegInv, TypeReg
<1>4. TypeReg'
  <2>1. inst' \in [Instance -> [pc : Pc, version : Version \cup {None},
                                workers : BOOLEAN, todo : SUBSET Queue]]
    <3> DEFINE P == [pc : Pc, version : Version \cup {None},
                     workers : BOOLEAN, todo : SUBSET Queue]
               p == [inst[i] EXCEPT !.pc = "scheduling", !.todo = Scheduled[v]]
    <3>1. inst \in [Instance -> P] /\ "scheduling" \in Pc
      BY DEF IInv, RegInv, TypeReg, Pc
    <3>2. p \in P
      BY <1>1, <3>1
    <3>3. inst' = [inst EXCEPT ![i] = p]
      BY <1>2
    <3>4. QED
      BY <3>1, <3>2, <3>3
  <2>2. alone' \in [Instance -> BOOLEAN]
    <3> DEFINE Free(k) == IF k = i THEN \A o \in Instance : Syncing(o) => VersionOf(o) = v
                                   ELSE alone[k] /\ VersionOf(k) = v
    <3>1. \A k \in Instance : Free(k) \in BOOLEAN
      OBVIOUS
    <3>2. alone' = [k \in Instance |-> Free(k)]
      BY DEF CreateQueues
    <3>3. QED
      BY <3>1, <3>2
  <2>3. QED
    BY <1>1, <1>3, <2>1, <2>2 DEF IInv, RegInv, TypeReg, CreateQueues
<1>5. TodoInv'
  BY <1>3 DEF IInv, RegInv, TodoInv
<1>6. SyncInv'
  <2> SUFFICES ASSUME NEW k \in Instance, alone'[k], (Syncing(k) \/ Synced(k))'
               PROVE  /\ \A o \in Instance : Syncing(o)' => VersionOf(o)' = VersionOf(k)'
                      /\ \A q \in Queue :
                           /\ Wanted(k, q)' /\ (At(k, "scheduling") => q \notin Todo(k))'
                                => schedule'[q] = VersionOf(k)'
                           /\ ~Wanted(k, q)' /\ ~At(k, "scheduling")' /\ schedule'[q] # None
                                => At(k, "withdrawing")' /\ q \in Todo(k)'
    BY DEF SyncInv
  <2>1. schedule' = schedule
    BY DEF CreateQueues
  <2>2. CASE k = i
    <3>1. \A o \in Instance : Syncing(o) => VersionOf(o) = v
      BY <2>2 DEF CreateQueues, IInv, RegInv, TypeReg
    <3>2. QED
      BY <1>3, <2>2, <3>1 DEF Syncing, Wanted
  <2>3. CASE k # i
    <3>1. alone[k] /\ VersionOf(k) = v
      BY <2>3 DEF CreateQueues, IInv, RegInv, TypeReg
    <3>2. QED
      BY <1>3, <2>1, <2>3, <3>1 DEF IInv, RegInv, SyncInv, Syncing, Synced, Wanted
  <2>4. QED
    BY <2>2, <2>3
<1>7. QED
  BY <1>4, <1>5, <1>6 DEF RegInv, CreateQueues

\* A process that gets on with its boot, or with its end, has its shape.
LEMMA GotoTyped ==
  ASSUME TypeReg, NEW i \in Instance, ~At(i, "down"), NEW pc \in Pc \ {"down"},
         NEW todo \in SUBSET Queue, Goto(i, pc, todo),
         UNCHANGED <<boots, queues, alone>>,
         schedule' \in [Queue -> Version \cup {None}],
         \A q \in Queue : schedule'[q] # None => q \in queues
  PROVE  TypeReg'
<1>1. /\ DOMAIN inst' = Instance
      /\ \A k \in Instance \ {i} : inst'[k] = inst[k]
      /\ inst'[i] = [inst[i] EXCEPT !.pc = pc, !.todo = todo]
      /\ inst' = [k \in Instance |-> inst'[k]]
  BY DEF TypeReg, Goto
<1>2. /\ inst[i] \in [pc : Pc, version : Version \cup {None},
                      workers : BOOLEAN, todo : SUBSET Queue]
      /\ inst[i].version \in Version
  BY DEF TypeReg
<1>3. /\ inst'[i] \in [pc : Pc, version : Version \cup {None},
                       workers : BOOLEAN, todo : SUBSET Queue]
      /\ inst'[i].version \in Version
  BY <1>1, <1>2
<1>4. inst' \in [Instance -> [pc : Pc, version : Version \cup {None},
                             workers : BOOLEAN, todo : SUBSET Queue]]
  BY <1>1, <1>3 DEF TypeReg
<1>5. \A k \in Instance : ~At(k, "down")' => VersionOf(k)' \in Version
  BY <1>1, <1>3 DEF TypeReg
<1>6. QED
  BY <1>4, <1>5 DEF TypeReg

LEMMA PutScheduleKeeps ==
  ASSUME IInv, NEW i \in Instance, NEW q \in Queue, PutSchedule(i, q)
  PROVE  RegInv' /\ UNCHANGED <<queues, work>>
<1>1. /\ inst'[i].pc = "scheduling" /\ inst'[i].todo = Todo(i) \ {q}
      /\ inst'[i].version = VersionOf(i) /\ inst[i].pc = "scheduling"
      /\ \A o \in Instance \ {i} : inst'[o] = inst[o]
      /\ q \in Scheduled[VersionOf(i)] /\ VersionOf(i) \in Version
  BY DEF PutSchedule, Goto, IInv, RegInv, TypeReg, TodoInv
<1>2. /\ schedule'[q] = VersionOf(i)
      /\ \A p \in Queue \ {q} : schedule'[p] = schedule[p]
      /\ alone' = alone
  BY DEF PutSchedule, IInv, RegInv, TypeReg
<1>3. TypeReg'
  <2>1. /\ schedule' \in [Queue -> Version \cup {None}]
        /\ \A p \in Queue : schedule'[p] # None => p \in queues
    BY <1>1, <1>2 DEF PutSchedule, IInv, RegInv, TypeReg
  <2>2. Todo(i) \ {q} \in SUBSET Queue /\ TypeReg
    BY DEF IInv, RegInv, TypeReg
  <2>3. QED
    BY <1>1, <2>1, <2>2, GotoTyped DEF PutSchedule, Pc
<1>4. TodoInv'
  BY <1>1 DEF IInv, RegInv, TodoInv
<1>5. SyncInv'
  BY <1>1, <1>2 DEF IInv, RegInv, SyncInv, Syncing, Synced, Wanted
<1>6. QED
  BY <1>3, <1>4, <1>5 DEF RegInv, PutSchedule

LEMMA ListSchedulesKeeps ==
  ASSUME IInv, NEW i \in Instance, ListSchedules(i)
  PROVE  RegInv' /\ UNCHANGED <<queues, work>>
<1> DEFINE v == VersionOf(i)
<1>1. /\ inst'[i].pc = "withdrawing" /\ inst'[i].todo = Unknown(v)
      /\ inst'[i].version = v /\ inst[i].pc = "scheduling" /\ Todo(i) = {}
      /\ \A o \in Instance \ {i} : inst'[o] = inst[o]
      /\ schedule' = schedule /\ alone' = alone
  BY DEF ListSchedules, Goto, IInv, RegInv, TypeReg, registry
<1>2. TypeReg'
  <2>1. TypeReg /\ Unknown(v) \in SUBSET Queue
    BY DEF IInv, RegInv, Unknown
  <2>2. /\ schedule' \in [Queue -> Version \cup {None}]
        /\ \A q \in Queue : schedule'[q] # None => q \in queues
    BY <1>1, <2>1 DEF TypeReg
  <2>3. QED
    BY <1>1, <2>1, <2>2, GotoTyped DEF ListSchedules, Pc, registry
<1>3. TodoInv'
  BY <1>1 DEF IInv, RegInv, TodoInv, Unknown
<1>4. SyncInv'
  BY <1>1 DEF IInv, RegInv, SyncInv, Syncing, Synced, Wanted, Unknown
<1>5. QED
  BY <1>2, <1>3, <1>4 DEF RegInv, ListSchedules, registry

LEMMA WithdrawKeeps ==
  ASSUME IInv, NEW i \in Instance, NEW q \in Queue, Withdraw(i, q)
  PROVE  RegInv' /\ UNCHANGED <<queues, work>>
<1>1. /\ inst'[i].pc = "withdrawing" /\ inst'[i].todo = Todo(i) \ {q}
      /\ inst'[i].version = VersionOf(i) /\ inst[i].pc = "withdrawing"
      /\ \A o \in Instance \ {i} : inst'[o] = inst[o]
      /\ q \notin Scheduled[VersionOf(i)]
  BY DEF Withdraw, Goto, IInv, RegInv, TypeReg, TodoInv
<1>2. /\ schedule'[q] = None
      /\ \A p \in Queue \ {q} : schedule'[p] = schedule[p]
      /\ alone' = alone
  BY DEF Withdraw, IInv, RegInv, TypeReg
<1>3. TypeReg'
  <2>1. TypeReg /\ Todo(i) \ {q} \in SUBSET Queue
    BY DEF IInv, RegInv, TypeReg
  <2>2. /\ schedule' \in [Queue -> Version \cup {None}]
        /\ \A p \in Queue : schedule'[p] # None => p \in queues
    BY <1>2, <2>1 DEF Withdraw, TypeReg
  <2>3. QED
    BY <1>1, <2>1, <2>2, GotoTyped DEF Withdraw, Pc
<1>4. TodoInv'
  BY <1>1 DEF IInv, RegInv, TodoInv
<1>5. SyncInv'
  BY <1>1, <1>2 DEF IInv, RegInv, SyncInv, Syncing, Synced, Wanted
<1>6. QED
  BY <1>3, <1>4, <1>5 DEF RegInv, Withdraw

LEMMA ReadyKeeps ==
  ASSUME IInv, NEW i \in Instance, Ready(i)
  PROVE  RegInv' /\ UNCHANGED <<queues, work>>
<1>1. /\ inst'[i].pc = "up" /\ inst'[i].todo = {}
      /\ inst'[i].version = VersionOf(i) /\ inst[i].pc = "withdrawing" /\ Todo(i) = {}
      /\ \A o \in Instance \ {i} : inst'[o] = inst[o]
      /\ schedule' = schedule /\ alone' = alone
  BY DEF Ready, Goto, IInv, RegInv, TypeReg, registry
<1>2. TypeReg'
  <2>1. TypeReg /\ {} \in SUBSET Queue
    BY DEF IInv, RegInv
  <2>2. /\ schedule' \in [Queue -> Version \cup {None}]
        /\ \A q \in Queue : schedule'[q] # None => q \in queues
    BY <1>1, <2>1 DEF TypeReg
  <2>3. QED
    BY <1>1, <2>1, <2>2, GotoTyped DEF Ready, Pc, registry
<1>3. TodoInv'
  BY <1>1 DEF IInv, RegInv, TodoInv
<1>4. SyncInv'
  BY <1>1 DEF IInv, RegInv, SyncInv, Syncing, Synced, Wanted
<1>5. QED
  BY <1>2, <1>3, <1>4 DEF RegInv, Ready, registry

LEMMA StopKeeps ==
  ASSUME IInv, NEW i \in Instance, Stop(i)
  PROVE  RegInv' /\ UNCHANGED <<queues, work>>
<1>1. /\ inst'[i].pc = "stopping" /\ inst'[i].todo = {}
      /\ inst'[i].version = VersionOf(i) /\ inst[i].pc = "up"
      /\ \A o \in Instance \ {i} : inst'[o] = inst[o]
      /\ schedule' = schedule /\ alone' = alone
  BY DEF Stop, Goto, IInv, RegInv, TypeReg, registry
<1>2. TypeReg'
  <2>1. TypeReg /\ {} \in SUBSET Queue
    BY DEF IInv, RegInv
  <2>2. /\ schedule' \in [Queue -> Version \cup {None}]
        /\ \A q \in Queue : schedule'[q] # None => q \in queues
    BY <1>1, <2>1 DEF TypeReg
  <2>3. QED
    BY <1>1, <2>1, <2>2, GotoTyped DEF Stop, Pc, registry
<1>3. TodoInv'
  BY <1>1 DEF IInv, RegInv, TodoInv
<1>4. SyncInv'
  BY <1>1 DEF IInv, RegInv, SyncInv, Syncing, Synced, Wanted
<1>5. QED
  BY <1>2, <1>3, <1>4 DEF RegInv, Stop, registry

\* The end of a process touches both halves.
LEMMA HaltKeeps ==
  ASSUME IInv, NEW i \in Instance, Halt(i)
  PROVE  IInv'
<1>1. /\ inst'[i] = Down
      /\ \A o \in Instance \ {i} : inst'[o] = inst[o]
      /\ UNCHANGED <<queues, schedule, alone, boots>>
  BY DEF Halt, IInv, RegInv, TypeReg, registry
<1>2. TypeReg'
  BY <1>1 DEF Halt, IInv, RegInv, TypeReg, Down, Process, Pc
<1>3. TodoInv'
  BY <1>1 DEF IInv, RegInv, TodoInv, Down, Process
<1>4. SyncInv'
  BY <1>1 DEF IInv, RegInv, SyncInv, Syncing, Synced, Wanted, Down, Process
<1>5. \A n \in Job : \/ job'[n] = job[n]
                     \/ job[n].state = "pending" /\ job'[n] = Row("absent", 0, None)
  BY DEF Halt, In
<1>6. TypeWork'
  BY <1>5, QueueAssumption
  DEF Halt, IInv, WorkInv, TypeWork, Row, JobState, Limit
<1>7. RowInv' /\ GivenUpJobsAreLogged'
  BY <1>5 DEF Halt, IInv, WorkInv, RowInv, GivenUpJobsAreLogged, Row, In, Limit
<1>8. \A c \in run' : c \in run /\ c.job \in Job /\ job'[c.job] = job[c.job]
  BY <1>5 DEF Halt, IInv, WorkInv, CallInv, TypeWork
<1>9. CallInv'
  BY <1>8 DEF Halt, IInv, WorkInv, CallInv, Current, NoneLeft, Limit, In
<1>10. QueuedInv'
  BY <1>1, <1>5 DEF IInv, QueuedInv, In, Row
<1>11. QED
  BY <1>2, <1>3, <1>4, <1>6, <1>7, <1>9, <1>10 DEF IInv, RegInv, WorkInv

-----------------------------------------------------------------------------
(* Jobs are sent and worked *)

Rows == [state : JobState, tries : Nat, by : Instance \cup {None}]

LEMMA RowSet ==
  ASSUME IInv, NEW n \in Job, NEW row, job' = [job EXCEPT ![n] = row]
  PROVE  /\ job[n] \in Rows /\ job[n].tries <= Limit(n) /\ Limit(n) \in Nat
         /\ job'[n] = row
         /\ \A k \in Job \ {n} : job'[k] = job[k]
         /\ row \in Rows => job' \in [Job -> Rows]
  BY QueueAssumption DEF IInv, WorkInv, TypeWork, Rows, Limit

\* A job that was not fetched yet has no call.
LEMMA NotFetched ==
  ASSUME IInv, NEW n \in Job, NEW row \in Rows, row.tries = 0,
         job[n].state \in {"absent", "pending", "created"},
         row.state \in {"absent", "pending", "created"},
         job' = [job EXCEPT ![n] = row],
         UNCHANGED <<run, handled, logged, cut>>
  PROVE  WorkInv'
<1>1. /\ job'[n] = row /\ Limit(n) \in Nat /\ job' \in [Job -> Rows]
      /\ \A k \in Job \ {n} : job'[k] = job[k]
  BY RowSet
<1>2. \A c \in run : c.job \in Job \ {n}
  BY DEF IInv, WorkInv, TypeWork, CallInv
<1>3. TypeWork'
  BY <1>1 DEF IInv, WorkInv, TypeWork, Rows, Limit
<1>4. RowInv' /\ GivenUpJobsAreLogged'
  BY <1>1 DEF IInv, WorkInv, RowInv, GivenUpJobsAreLogged, In, Limit
<1>5. CallInv'
  BY <1>1, <1>2 DEF IInv, WorkInv, CallInv, Current, In, NoneLeft, Limit
<1>6. QED
  BY <1>3, <1>4, <1>5 DEF WorkInv

LEMMA SendKeeps ==
  ASSUME IInv, NEW i \in Instance, NEW n \in Job, NEW inTransaction \in BOOLEAN,
         Send(i, n, inTransaction)
  PROVE  IInv'
<1> DEFINE row == IF inTransaction THEN Row("pending", 0, i) ELSE Row("created", 0, None)
<1>1. /\ row \in Rows /\ row.tries = 0
      /\ row.state \in {"absent", "pending", "created"}
  BY DEF Row, Rows, JobState
<1>2. job' = [job EXCEPT ![n] = row] /\ job[n].state = "absent"
  BY DEF Send, In
<1>3. WorkInv'
  <2> HIDE DEF row
  <2> QED
    BY <1>1, <1>2, NotFetched DEF Send
<1>4. QueuedInv'
  BY <1>2, RowSet DEF IInv, QueuedInv, Send, registry, In
<1>5. QED
  BY <1>3, <1>4, RegistryUntouched DEF IInv, Send

LEMMA CommitKeeps ==
  ASSUME IInv, NEW n \in Job, Commit(n)
  PROVE  IInv'
<1> DEFINE row == Row("created", 0, None)
<1>1. row \in Rows /\ row.tries = 0 /\ row.state = "created"
  BY DEF Row, Rows, JobState
<1>2. job' = [job EXCEPT ![n] = row] /\ job[n].state = "pending"
  BY DEF Commit, In
<1>3. WorkInv'
  <2> HIDE DEF row
  <2> QED
    BY <1>1, <1>2, NotFetched DEF Commit
<1>4. QueuedInv'
  BY <1>2, RowSet DEF IInv, QueuedInv, Commit, registry, In
<1>5. QED
  BY <1>3, <1>4, RegistryUntouched DEF IInv, Commit

LEMMA RollbackKeeps ==
  ASSUME IInv, NEW n \in Job, Rollback(n)
  PROVE  IInv'
<1> DEFINE row == Row("absent", 0, None)
<1>1. row \in Rows /\ row.tries = 0 /\ row.state = "absent"
  BY DEF Row, Rows, JobState
<1>2. job' = [job EXCEPT ![n] = row] /\ job[n].state = "pending"
  BY DEF Rollback, In
<1>3. WorkInv'
  <2> HIDE DEF row
  <2> QED
    BY <1>1, <1>2, NotFetched DEF Rollback
<1>4. QueuedInv'
  BY <1>2, RowSet DEF IInv, QueuedInv, Rollback, registry, In
<1>5. QED
  BY <1>3, <1>4, RegistryUntouched DEF IInv, Rollback

\* What is scheduled has its queue.
LEMMA FireKeeps ==
  ASSUME IInv, NEW i \in Instance, NEW n \in Job, Fire(i, n)
  PROVE  IInv'
<1> DEFINE row == Row("created", 0, None)
<1>1. row \in Rows /\ row.tries = 0 /\ row.state = "created"
  BY DEF Row, Rows, JobState
<1>2. job' = [job EXCEPT ![n] = row] /\ job[n].state = "absent"
  BY DEF Fire, In
<1>3. WorkInv'
  <2> HIDE DEF row
  <2> QED
    BY <1>1, <1>2, NotFetched DEF Fire
<1>4. NameOf[n] \in queues
  BY QueueAssumption DEF Fire, IInv, RegInv, TypeReg
<1>5. QueuedInv'
  BY <1>2, <1>4, RowSet DEF IInv, QueuedInv, Fire, registry, In
<1>6. QED
  BY <1>3, <1>5, RegistryUntouched DEF IInv, Fire

LEMMA FetchKeeps ==
  ASSUME IInv, NEW i \in Instance, NEW n \in Job, Fetch(i, n)
  PROVE  IInv'
<1> DEFINE tries == IF In(n, "retry") THEN job[n].tries + 1 ELSE job[n].tries
           row == Row("active", tries, i)
           call == Call(i, n, tries, "running")
<1>1. /\ job' = [job EXCEPT ![n] = row] /\ run' = run \cup {call}
      /\ job[n].state \in {"created", "retry"}
      /\ UNCHANGED <<handled, logged, cut>> /\ UNCHANGED <<inst, boots, registry>>
  BY DEF Fetch
<1>2. tries \in Nat /\ tries <= Limit(n) /\ (In(n, "retry") => job[n].tries < tries)
  <2>1. /\ job[n].tries \in Nat /\ Limit(n) \in Nat /\ job[n].tries <= Limit(n)
        /\ In(n, "retry") => job[n].tries < Limit(n)
    BY RowSet, <1>1 DEF IInv, WorkInv, RowInv, Rows
  <2>2. QED
    BY <2>1
<1> HIDE DEF tries
<1>3. /\ job'[n] = row /\ row \in Rows /\ job' \in [Job -> Rows]
      /\ row.state = "active" /\ row.tries = tries /\ row.by = i
      /\ \A k \in Job \ {n} : job'[k] = job[k]
  BY <1>1, <1>2, RowSet DEF Row, Rows, JobState
<1>4. /\ call.by = i /\ call.job = n /\ call.tries = tries /\ call.phase = "running"
      /\ call \in [by : Instance, job : Job, tries : Nat,
                   phase : {"running", "returned", "threw"}]
  BY <1>2 DEF Call
<1> HIDE DEF row, call
<1>5. \A c \in run : c.job = n => In(n, "retry") /\ c.tries < tries /\ c.job \in cut
  <2> SUFFICES ASSUME NEW c \in run, c.job = n
               PROVE  In(n, "retry") /\ c.tries < tries /\ c.job \in cut
    OBVIOUS
  <2>1. In(n, "retry")
    BY <1>1 DEF IInv, WorkInv, CallInv, In
  <2>2. c.job \in cut
    BY <2>1 DEF IInv, WorkInv, CallInv, Current, In
  <2>3. c.tries \in Nat /\ job[n].tries \in Nat /\ c.tries <= job[n].tries
    BY RowSet DEF IInv, WorkInv, TypeWork, CallInv, Rows
  <2>4. QED
    BY <1>2, <2>1, <2>2, <2>3
<1>6. TypeWork'
  BY <1>1, <1>2, <1>3, <1>4 DEF IInv, WorkInv, TypeWork, Rows, Limit
<1>7. RowInv' /\ GivenUpJobsAreLogged'
  BY <1>1, <1>3 DEF IInv, WorkInv, RowInv, GivenUpJobsAreLogged, In, Limit
<1>8. CallInv'
  <2>1. ASSUME NEW c \in run'
        PROVE  /\ job'[c.job].state \notin {"absent", "pending", "created"}
               /\ c.tries <= job'[c.job].tries
               /\ Current(c)' \/ c.job \in cut'
               /\ c.phase = "returned" => c.job \in handled'
               /\ c.phase = "threw" /\ NoneLeft(c)' => c.job \in logged'
    <3>1. CASE c = call
      BY <1>2, <1>3, <1>4, <3>1 DEF Current, In
    <3>2. CASE c \in run /\ c.job = n
      <4>1. c.tries <= tries
        BY <1>2, <1>5, <3>2 DEF IInv, WorkInv, TypeWork
      <4>2. QED
        BY <1>1, <1>3, <1>5, <3>2, <4>1 DEF IInv, WorkInv, CallInv, NoneLeft, Limit
    <3>3. CASE c \in run /\ c.job # n
      BY <1>1, <1>3, <3>3
      DEF IInv, WorkInv, TypeWork, CallInv, Current, In, NoneLeft, Limit
    <3>4. QED
      BY <1>1, <2>1, <3>1, <3>2, <3>3
  <2>2. ASSUME NEW c \in run', NEW d \in run', c.job = d.job, c.tries = d.tries
        PROVE  c = d
    <3>1. \A e \in run : e.job = n => e.tries # tries
      BY <1>2, <1>5 DEF IInv, WorkInv, TypeWork
    <3>2. QED
      BY <1>1, <1>4, <2>2, <3>1 DEF IInv, WorkInv, CallInv
  <2>3. QED
    BY <2>1, <2>2 DEF CallInv
<1>9. QueuedInv'
  BY <1>1, <1>3, RowSet DEF IInv, QueuedInv, registry, In
<1>10. QED
  BY <1>1, <1>6, <1>7, <1>8, <1>9, RegistryUntouched DEF IInv, WorkInv

\* A handler that has ended leaves its call to be reported.
LEMMA HandlerEnds ==
  ASSUME IInv, NEW c \in run, NEW phase \in {"returned", "threw"},
         c.phase = "running",
         run' = (run \ {c}) \cup {[c EXCEPT !.phase = phase]},
         handled' = IF phase = "returned" THEN handled \cup {c.job} ELSE handled,
         logged' = IF phase = "threw" /\ NoneLeft(c) THEN logged \cup {c.job} ELSE logged,
         UNCHANGED <<inst, boots, registry, job, cut>>
  PROVE  IInv'
<1> DEFINE e == [c EXCEPT !.phase = phase]
<1>1. /\ c \in [by : Instance, job : Job, tries : Nat,
                phase : {"running", "returned", "threw"}]
      /\ e = [by |-> c.by, job |-> c.job, tries |-> c.tries, phase |-> phase]
  BY DEF IInv, WorkInv, TypeWork
<1>2. /\ e.by = c.by /\ e.job = c.job /\ e.tries = c.tries /\ e.phase = phase
      /\ e \in [by : Instance, job : Job, tries : Nat,
                phase : {"running", "returned", "threw"}]
  BY <1>1
<1> HIDE DEF e
<1>3. run' = (run \ {c}) \cup {e}
  BY DEF e
<1>4. TypeWork'
  BY <1>1, <1>2, <1>3 DEF IInv, WorkInv, TypeWork, Limit
<1>5. RowInv' /\ GivenUpJobsAreLogged'
  BY DEF IInv, WorkInv, RowInv, GivenUpJobsAreLogged, In, Limit
<1>6. CallInv'
  <2>1. ASSUME NEW d \in run'
        PROVE  /\ job'[d.job].state \notin {"absent", "pending", "created"}
               /\ d.tries <= job'[d.job].tries
               /\ Current(d)' \/ d.job \in cut'
               /\ d.phase = "returned" => d.job \in handled'
               /\ d.phase = "threw" /\ NoneLeft(d)' => d.job \in logged'
    <3>1. CASE d = e
      BY <1>2, <3>1 DEF IInv, WorkInv, CallInv, Current, In, NoneLeft, Limit
    <3>2. CASE d \in run
      BY <3>2 DEF IInv, WorkInv, CallInv, Current, In, NoneLeft, Limit
    <3>3. QED
      BY <1>3, <3>1, <3>2
  <2>2. ASSUME NEW d \in run', NEW f \in run', d.job = f.job, d.tries = f.tries
        PROVE  d = f
    BY <1>2, <1>3, <2>2 DEF IInv, WorkInv, CallInv
  <2>3. QED
    BY <2>1, <2>2 DEF CallInv
<1>7. QueuedInv'
  BY DEF IInv, QueuedInv, registry, In
<1>8. QED
  BY <1>4, <1>5, <1>6, <1>7, RegistryUntouched DEF IInv, WorkInv

LEMMA HandlerReturnsKeeps ==
  ASSUME IInv, NEW c \in run, HandlerReturns(c)
  PROVE  IInv'
  BY HandlerEnds DEF HandlerReturns

LEMMA HandlerThrowsKeeps ==
  ASSUME IInv, NEW c \in run, HandlerThrows(c)
  PROVE  IInv'
  BY HandlerEnds DEF HandlerThrows

LEMMA FailureRow ==
  ASSUME IInv, NEW n \in Job
  PROVE  /\ Failure(n) \in Rows /\ Failure(n).tries = job[n].tries
         /\ Failure(n).state = IF job[n].tries < Limit(n) THEN "retry" ELSE "failed"
  BY DEF IInv, WorkInv, TypeWork, Failure, Row, Rows, JobState

\* The row of a fetched job comes to another end, and the calls that lose theirs
\* are among those that were cut off.
LEMMA RowEnds ==
  ASSUME IInv, NEW n \in Job, NEW row \in Rows, In(n, "active"),
         job' = [job EXCEPT ![n] = row],
         row.tries = job[n].tries,
         row.state \in {"retry", "failed", "completed"},
         row.state = "retry" => row.tries < Limit(n),
         row.state = "failed" => n \in logged \cup cut',
         run' \subseteq run, cut' \in {cut, cut \cup {n}},
         \A c \in run' : c.job = n => n \in cut',
         UNCHANGED <<inst, boots, registry, handled, logged>>
  PROVE  IInv'
<1>1. /\ job'[n] = row /\ job' \in [Job -> Rows] /\ Limit(n) \in Nat
      /\ job[n].tries <= Limit(n)
      /\ \A k \in Job \ {n} : job'[k] = job[k]
  BY RowSet
<1>2. TypeWork'
  BY <1>1 DEF IInv, WorkInv, TypeWork, Rows, Limit
<1>3. RowInv' /\ GivenUpJobsAreLogged'
  BY <1>1 DEF IInv, WorkInv, RowInv, GivenUpJobsAreLogged, In, Limit
<1>4. CallInv'
  <2>1. ASSUME NEW c \in run'
        PROVE  /\ job'[c.job].state \notin {"absent", "pending", "created"}
               /\ c.tries <= job'[c.job].tries
               /\ Current(c)' \/ c.job \in cut'
               /\ c.phase = "returned" => c.job \in handled'
               /\ c.phase = "threw" /\ NoneLeft(c)' => c.job \in logged'
    <3>1. CASE c.job = n
      BY <1>1, <3>1 DEF IInv, WorkInv, CallInv, NoneLeft, Limit
    <3>2. CASE c.job # n
      BY <1>1, <3>2 DEF IInv, WorkInv, TypeWork, CallInv, Current, In, NoneLeft, Limit
    <3>3. QED
      BY <3>1, <3>2
  <2>2. QED
    BY <2>1 DEF IInv, WorkInv, CallInv
<1>5. QueuedInv'
  BY <1>1 DEF IInv, QueuedInv, registry, In
<1>6. QED
  BY <1>2, <1>3, <1>4, <1>5, RegistryUntouched DEF IInv, WorkInv

LEMMA ExpireKeeps ==
  ASSUME IInv, NEW n \in Job, Expire(n)
  PROVE  IInv'
  BY FailureRow, RowEnds DEF Expire

LEMMA StopTimeoutKeeps ==
  ASSUME IInv, NEW i \in Instance, NEW n \in Job, StopTimeout(i, n)
  PROVE  IInv'
  BY FailureRow, RowEnds DEF StopTimeout

\* A report is that of the call its row waits for, or the job was cut off before.
LEMMA ReportKeeps ==
  ASSUME IInv, NEW c \in run, NEW heard \in BOOLEAN, Report(c, heard)
  PROVE  IInv'
<1> DEFINE n == c.job
<1>1. /\ n \in Job /\ run' = run \ {c} /\ c.tries \in Nat
      /\ UNCHANGED <<handled, logged, cut>> /\ UNCHANGED <<inst, boots, registry>>
  BY DEF Report, IInv, WorkInv, TypeWork
<1>2. CASE ~heard
  <2>1. job' = job
    BY <1>2 DEF Report
  <2>2. TypeWork' /\ RowInv' /\ GivenUpJobsAreLogged' /\ CallInv'
    BY <1>1, <2>1 DEF IInv, WorkInv, TypeWork, RowInv, GivenUpJobsAreLogged, CallInv,
       In, Limit, Current, NoneLeft
  <2>3. QueuedInv'
    BY <1>1, <2>1 DEF IInv, QueuedInv, registry, In
  <2>4. QED
    BY <1>1, <2>2, <2>3, RegistryUntouched DEF IInv, WorkInv
<1>3. CASE heard
  <2> DEFINE row == Outcome(c)
  <2>1. In(n, "active") /\ job' = [job EXCEPT ![n] = row]
    BY <1>3 DEF Report
  <2>2. job[n].tries \in Nat /\ Limit(n) \in Nat
    BY <1>1, RowSet, <2>1 DEF Rows
  <2>3. /\ row \in Rows /\ row.tries = job[n].tries
        /\ row.state \in {"retry", "failed", "completed"}
        /\ row.state = "retry" => row.tries < Limit(n)
        /\ row.state = "failed" => c.phase = "threw" /\ ~(row.tries < Limit(n))
    <3>1. CASE c.phase = "threw"
      BY <1>1, <3>1, FailureRow DEF Outcome
    <3>2. CASE c.phase # "threw"
      BY <1>1, <2>2, <3>2 DEF Outcome, Row, Rows, JobState
    <3>3. QED
      BY <3>1, <3>2
  <2>4. row.state = "failed" => n \in logged \cup cut
    BY <1>1, <2>2, <2>3 DEF IInv, WorkInv, CallInv, Current, NoneLeft
  <2>5. \A d \in run' : d.job = n => n \in cut
    BY <1>1 DEF IInv, WorkInv, CallInv, Current
  <2> HIDE DEF row, n
  <2>6. QED
    BY <1>1, <2>1, <2>3, <2>4, <2>5, RowEnds
<1>4. QED
  BY <1>2, <1>3

-----------------------------------------------------------------------------
(* The invariant *)

LEMMA BootKeeps ==
  ASSUME IInv, NEW i \in Instance, Boot(i)
  PROVE  IInv'
<1>1. CASE CreateQueues(i)
  BY <1>1, CreateQueuesKeeps, WorkUntouched, StillQueued DEF IInv, work, In
<1>2. ASSUME RegInv', UNCHANGED <<queues, work>>
      PROVE  IInv'
  BY <1>2, WorkUntouched, StillQueued DEF IInv, work, In
<1>3. ASSUME NEW q \in Queue, PutSchedule(i, q) \/ Withdraw(i, q)
      PROVE  IInv'
  BY <1>2, <1>3, PutScheduleKeeps, WithdrawKeeps
<1>4. CASE ListSchedules(i) \/ Ready(i)
  BY <1>2, <1>4, ListSchedulesKeeps, ReadyKeeps
<1>5. QED
  BY <1>1, <1>3, <1>4 DEF Boot

LEMMA InvStep == IInv /\ [Next]_vars => IInv'
<1> SUFFICES ASSUME IInv, [Next]_vars PROVE IInv'
  OBVIOUS
<1>1. ASSUME RegInv', UNCHANGED <<queues, work>>
      PROVE  IInv'
  BY <1>1, WorkUntouched, StillQueued DEF IInv, work, In
<1>2. ASSUME NEW i \in Instance, NEW v \in Version, NEW workers \in BOOLEAN,
             Start(i, v, workers)
      PROVE  IInv'
  BY <1>1, <1>2, StartKeeps
<1>3. ASSUME NEW i \in Instance, Stop(i)
      PROVE  IInv'
  BY <1>1, <1>3, StopKeeps
<1>4. ASSUME NEW n \in Job, Work(n)
      PROVE  IInv'
  BY <1>4, HandlerReturnsKeeps, HandlerThrowsKeeps, ReportKeeps DEF Work
<1>5. CASE UNCHANGED vars
  <2>1. UNCHANGED <<inst, boots, registry>> /\ UNCHANGED work /\ queues' = queues
    BY <1>5 DEF vars, registry
  <2>2. QED
    BY <1>1, <2>1, RegistryUntouched DEF IInv
<1>6. CASE Next
  BY <1>2, <1>3, <1>4, <1>6, BootKeeps, HaltKeeps, SendKeeps, FireKeeps, FetchKeeps,
     StopTimeoutKeeps, CommitKeeps, RollbackKeeps, ExpireKeeps DEF Next
<1>7. QED
  BY <1>5, <1>6

THEOREM Invariance == Spec => []IInv
  BY InvInit, InvStep, PTL DEF Spec

\* Processes, schedules, rows and calls keep their shapes, whatever is scheduled
\* or sent has its queue, and no row counts more retries than its queue grants.
THEOREM TypeCorrect == Spec => []TypeOK
<1>1. IInv => TypeOK
  BY TypeParts DEF IInv, RegInv, WorkInv
<1>2. QED
  BY <1>1, Invariance, PTL

\* Replicas of one version never disturb each other's schedules, however their
\* registrations interleave and wherever they die (queue.explorer.ts,
\* syncSchedules).
THEOREM SchedulesStay == Spec => []SchedulesAreKept
<1>1. IInv => SchedulesAreKept
  BY DEF IInv, RegInv, SyncInv, SchedulesAreKept, Synced, Wanted, Syncing
<1>2. QED
  BY <1>1, Invariance, PTL

\* A job is given up unlogged only if a run of it was cut off from outside
\* (queue.explorer.ts, process).
THEOREM GivenUpLogged == Spec => []GivenUpJobsAreLogged
<1>1. IInv => GivenUpJobsAreLogged
  BY DEF IInv, WorkInv
<1>2. QED
  BY <1>1, Invariance, PTL

-----------------------------------------------------------------------------
(* The contract of the queue *)

StatusMap == [n \in Job |-> StatusOf(n)]
RunsMap == [n \in Job |-> RunsOf(n)]

\* A step of the contract, or none.
Kept == Contract!Next \/ UNCHANGED <<StatusMap, RunsMap, handled>>

\* What the contract sees of a row.
LEMMA Seen ==
  ASSUME IInv, NEW n \in Job
  PROVE  /\ StatusMap[n] = StatusOf(n) /\ RunsMap[n] = RunsOf(n)
         /\ StatusOf(n) = IF job[n].state \in {"absent", "pending"} THEN "absent"
                          ELSE IF job[n].state = "completed" THEN "done"
                          ELSE IF job[n].state = "failed" THEN "dead" ELSE "owed"
         /\ job[n].tries \in Nat /\ Limit(n) \in Nat /\ job[n].tries <= Limit(n)
         /\ RunsOf(n) = IF job[n].state \in {"absent", "pending", "created"}
                          THEN 0 ELSE job[n].tries + 1
  BY QueueAssumption
  DEF StatusMap, RunsMap, StatusOf, RunsOf, Unfinished, In, IInv, WorkInv, TypeWork,
      JobState, Limit

\* A step that sets one row changes what the contract sees of that job only.
LEMMA OneRowMoves ==
  ASSUME IInv, NEW n \in Job, NEW row, job' = [job EXCEPT ![n] = row]
  PROVE  /\ StatusMap' = [StatusMap EXCEPT ![n] = StatusOf(n)']
         /\ RunsMap' = [RunsMap EXCEPT ![n] = RunsOf(n)']
<1>1. \A k \in Job \ {n} : StatusOf(k)' = StatusOf(k) /\ RunsOf(k)' = RunsOf(k)
  BY RowSet DEF StatusOf, RunsOf, Unfinished, In
<1>2. QED
  BY <1>1 DEF StatusMap, RunsMap

\* A step that changes no status and no count is none of the contract's.
LEMMA Unmoved ==
  ASSUME IInv, NEW n \in Job, NEW row, job' = [job EXCEPT ![n] = row],
         StatusOf(n)' = StatusOf(n), RunsOf(n)' = RunsOf(n), handled' = handled
  PROVE  Kept
<1>1. StatusMap' = StatusMap /\ RunsMap' = RunsMap
  BY OneRowMoves DEF StatusMap, RunsMap
<1>2. QED
  BY <1>1 DEF Kept

\* The row is there for all to see.
LEMMA AcceptIsKept ==
  ASSUME IInv, NEW n \in Job, job[n].state \in {"absent", "pending"},
         job' = [job EXCEPT ![n] = Row("created", 0, None)], handled' = handled
  PROVE  Kept
<1>1. job'[n] = [state |-> "created", tries |-> 0, by |-> None]
  BY RowSet DEF Row
<1>2. StatusOf(n)' = "owed" /\ RunsOf(n)' = 0
  BY <1>1 DEF StatusOf, RunsOf, Unfinished, In
<1>3. RunsMap' = RunsMap /\ StatusMap' = [StatusMap EXCEPT ![n] = "owed"]
  BY <1>2, OneRowMoves, Seen DEF RunsMap
<1>4. Contract!Accept(n)
  BY <1>3, Seen DEF Contract!Accept, StatusMap, RunsMap
<1>5. QED
  BY <1>4 DEF Kept, Contract!Next

\* The row is still nobody's business, or no longer.
LEMMA UnsentIsKept ==
  ASSUME IInv, NEW n \in Job, job[n].state \in {"absent", "pending"},
         job'[n].state \in {"absent", "pending"},
         \A k \in Job \ {n} : job'[k] = job[k], handled' = handled
  PROVE  Kept
<1>1. \A k \in Job : StatusOf(k)' = StatusOf(k) /\ RunsOf(k)' = RunsOf(k)
  BY DEF StatusOf, RunsOf, Unfinished, In
<1>2. QED
  BY <1>1 DEF Kept, StatusMap, RunsMap

\* A fetch is a run, and there is one left.
LEMMA FetchIsKept ==
  ASSUME IInv, NEW i \in Instance, NEW n \in Job, Fetch(i, n)
  PROVE  Kept
<1> DEFINE tries == IF In(n, "retry") THEN job[n].tries + 1 ELSE job[n].tries
<1>1. /\ job' = [job EXCEPT ![n] = Row("active", tries, i)] /\ handled' = handled
      /\ job[n].state \in {"created", "retry"}
  BY DEF Fetch
<1>2. job'[n] = [state |-> "active", tries |-> tries, by |-> i]
  BY <1>1, RowSet DEF Row
<1>3. tries = RunsOf(n) /\ tries <= Limit(n) /\ StatusOf(n) = "owed"
  BY <1>1, Seen DEF IInv, WorkInv, RowInv, In
<1>4. StatusOf(n)' = "owed" /\ RunsOf(n)' = RunsOf(n) + 1
  BY <1>2, <1>3 DEF StatusOf, RunsOf, Unfinished, In
<1>5. StatusMap' = StatusMap /\ RunsMap' = [RunsMap EXCEPT ![n] = RunsMap[n] + 1]
  BY <1>1, <1>3, <1>4, OneRowMoves, Seen DEF StatusMap
<1>6. Contract!Run(n)
  <2>1. StatusMap[n] = "owed" /\ RunsMap[n] <= [k \in Job |-> Limit(k)][n]
    BY <1>3, Seen
  <2>2. QED
    BY <1>1, <1>5, <2>1 DEF Contract!Run, StatusMap, RunsMap
<1>7. QED
  BY <1>6 DEF Kept, Contract!Next

\* A failure of an active row puts it back, or ends it after its last run.
LEMMA FailureIsKept ==
  ASSUME IInv, NEW n \in Job, In(n, "active"),
         job' = [job EXCEPT ![n] = Failure(n)], handled' = handled
  PROVE  Kept
<1>1. job'[n] = Failure(n) /\ StatusOf(n) = "owed" /\ RunsOf(n) = job[n].tries + 1
  BY RowSet, Seen DEF In
<1>2. CASE job[n].tries < Limit(n)
  <2>1. StatusOf(n)' = StatusOf(n) /\ RunsOf(n)' = RunsOf(n)
    BY <1>1, <1>2, FailureRow DEF StatusOf, RunsOf, Unfinished, In
  <2>2. QED
    BY <2>1, Unmoved
<1>3. CASE ~(job[n].tries < Limit(n))
  <2>1. StatusOf(n)' = "dead" /\ RunsOf(n)' = RunsOf(n)
    BY <1>1, <1>3, FailureRow DEF StatusOf, RunsOf, Unfinished, In
  <2>2. RunsMap' = RunsMap /\ StatusMap' = [StatusMap EXCEPT ![n] = "dead"]
    BY <2>1, OneRowMoves, Seen DEF RunsMap
  <2>3. StatusMap[n] = "owed" /\ RunsMap[n] = [k \in Job |-> Limit(k)][n] + 1
    BY <1>1, <1>3, Seen
  <2>4. Contract!GiveUp(n)
    BY <2>2, <2>3 DEF Contract!GiveUp, StatusMap, RunsMap
  <2>5. QED
    BY <2>4 DEF Kept, Contract!Next
<1>4. QED
  BY <1>2, <1>3

\* What is reported as completed was handled.
LEMMA ReportIsKept ==
  ASSUME IInv, NEW c \in run, NEW heard \in BOOLEAN, Report(c, heard)
  PROVE  Kept
<1>1. c.job \in Job /\ handled' = handled
  BY DEF Report, IInv, WorkInv, TypeWork
<1>2. CASE ~heard
  BY <1>1, <1>2 DEF Report, Kept, StatusMap, RunsMap, StatusOf, RunsOf, Unfinished, In
<1>3. CASE heard /\ c.phase = "threw"
  BY <1>1, <1>3, FailureIsKept DEF Report, Outcome
<1>4. CASE heard /\ c.phase = "returned"
  <2> DEFINE n == c.job
  <2>1. /\ In(n, "active") /\ n \in handled
        /\ job' = [job EXCEPT ![n] = Row("completed", job[n].tries, None)]
    BY <1>4 DEF Report, Outcome, IInv, WorkInv, CallInv
  <2> HIDE DEF n
  <2>2. n \in Job
    BY <1>1 DEF n
  <2>3. job'[n] = [state |-> "completed", tries |-> job[n].tries, by |-> None]
    BY <2>1, <2>2, RowSet DEF Row
  <2>4. /\ StatusOf(n) = "owed" /\ RunsOf(n) = job[n].tries + 1
        /\ job[n].tries \in Nat
    BY <2>1, <2>2, Seen DEF In
  <2>5. StatusOf(n)' = "done" /\ RunsOf(n)' = RunsOf(n)
    BY <2>3, <2>4 DEF StatusOf, RunsOf, Unfinished, In
  <2>6. RunsMap' = RunsMap /\ StatusMap' = [StatusMap EXCEPT ![n] = "done"]
    BY <2>1, <2>2, <2>5, OneRowMoves, Seen DEF RunsMap
  <2>7. StatusMap[n] = "owed" /\ RunsMap[n] > 0
    BY <2>2, <2>4, Seen
  <2>8. Contract!Complete(n)
    BY <1>1, <2>1, <2>6, <2>7 DEF Contract!Complete, StatusMap, RunsMap
  <2>9. QED
    BY <2>2, <2>8 DEF Kept, Contract!Next
<1>5. QED
  BY <1>2, <1>3, <1>4 DEF Report

\* A handler returns for a job that was fetched.
LEMMA HandlerReturnsIsKept ==
  ASSUME IInv, NEW c \in run, HandlerReturns(c)
  PROVE  Kept
<1>1. /\ c.job \in Job /\ job[c.job].state \notin {"absent", "pending", "created"}
      /\ handled' = handled \cup {c.job} /\ job' = job
  BY DEF HandlerReturns, IInv, WorkInv, TypeWork, CallInv
<1>2. RunsMap[c.job] > 0
  BY <1>1, Seen
<1>3. StatusMap' = StatusMap /\ RunsMap' = RunsMap
  BY <1>1 DEF StatusMap, RunsMap, StatusOf, RunsOf, Unfinished, In
<1>4. Contract!Handle(c.job)
  BY <1>1, <1>2, <1>3 DEF Contract!Handle, StatusMap, RunsMap
<1>5. QED
  BY <1>1, <1>4 DEF Kept, Contract!Next

\* A process that ends takes its uncommitted rows with it.
LEMMA HaltIsKept ==
  ASSUME IInv, NEW i \in Instance, Halt(i)
  PROVE  Kept
<1>1. \A n \in Job : StatusOf(n)' = StatusOf(n) /\ RunsOf(n)' = RunsOf(n)
  BY DEF Halt, Row, StatusOf, RunsOf, Unfinished, In
<1>2. QED
  BY <1>1 DEF Kept, StatusMap, RunsMap, Halt

LEMMA StepIsKept == IInv /\ [Next]_vars => Kept
<1> SUFFICES ASSUME IInv, [Next]_vars PROVE Kept
  OBVIOUS
<1>1. ASSUME UNCHANGED <<job, handled>> PROVE Kept
  BY <1>1 DEF Kept, StatusMap, RunsMap, StatusOf, RunsOf, Unfinished, In
<1>2. ASSUME NEW i \in Instance, Boot(i) \/ Stop(i) PROVE Kept
  BY <1>1, <1>2 DEF Boot, CreateQueues, PutSchedule, ListSchedules, Withdraw, Ready,
     Stop, work
<1>3. ASSUME NEW i \in Instance, NEW v \in Version, NEW workers \in BOOLEAN,
             Start(i, v, workers)
      PROVE  Kept
  BY <1>1, <1>3 DEF Start, work
<1>4. ASSUME NEW i \in Instance, NEW n \in Job, NEW inTransaction \in BOOLEAN,
             Send(i, n, inTransaction)
      PROVE  Kept
  <2>1. CASE inTransaction
    <3> DEFINE row == Row("pending", 0, i)
    <3>1. /\ row.state = "pending" /\ job[n].state = "absent"
          /\ job' = [job EXCEPT ![n] = row] /\ handled' = handled
      BY <1>4, <2>1 DEF Send, Row, In
    <3>2. job'[n] = row /\ \A k \in Job \ {n} : job'[k] = job[k]
      BY <3>1, RowSet
    <3>3. QED
      BY <3>1, <3>2, UnsentIsKept
  <2>2. CASE ~inTransaction
    BY <1>4, <2>2, AcceptIsKept DEF Send, In
  <2>3. QED
    BY <2>1, <2>2
<1>5. ASSUME NEW i \in Instance, NEW n \in Job, Fire(i, n) PROVE Kept
  BY <1>5, AcceptIsKept DEF Fire, In
<1>6. ASSUME NEW n \in Job, Commit(n) PROVE Kept
  BY <1>6, AcceptIsKept DEF Commit, In
<1>7. ASSUME NEW n \in Job, Rollback(n) PROVE Kept
  <2> DEFINE row == Row("absent", 0, None)
  <2>1. /\ row.state = "absent" /\ job[n].state = "pending"
        /\ job' = [job EXCEPT ![n] = row] /\ handled' = handled
    BY <1>7 DEF Rollback, Row, In
  <2>2. job'[n] = row /\ \A k \in Job \ {n} : job'[k] = job[k]
    BY <2>1, RowSet
  <2>3. QED
    BY <2>1, <2>2, UnsentIsKept
<1>8. ASSUME NEW n \in Job, Expire(n) \/ \E i \in Instance : StopTimeout(i, n)
      PROVE  Kept
  BY <1>8, FailureIsKept DEF Expire, StopTimeout
<1>9. ASSUME NEW c \in run, HandlerThrows(c) PROVE Kept
  BY <1>1, <1>9 DEF HandlerThrows
<1>10. ASSUME NEW n \in Job, Work(n) PROVE Kept
  BY <1>9, <1>10, HandlerReturnsIsKept, ReportIsKept DEF Work
<1>11. CASE UNCHANGED vars
  BY <1>1, <1>11 DEF vars, work
<1>12. CASE Next
  BY <1>2, <1>3, <1>4, <1>5, <1>6, <1>7, <1>8, <1>10, <1>12, HaltIsKept, FetchIsKept
  DEF Next
<1>13. QED
  BY <1>11, <1>12

\* Whatever processes and workers do and wherever they die, what becomes of the
\* jobs is a behaviour of the contract their senders rely on.
THEOREM ContractKept == Spec => KeepsTheContract
<1>1. Init => Contract!Init
  <2>1. ASSUME Init, NEW n \in Job
        PROVE  StatusOf(n) = "absent" /\ RunsOf(n) = 0
    BY <2>1 DEF Init, Row, StatusOf, RunsOf
  <2>2. QED
    BY <2>1 DEF Init, Contract!Init
<1>2. IInv /\ [Next]_vars => [Contract!Next]_(Contract!vars)
  BY StepIsKept DEF Kept, Contract!vars, StatusMap, RunsMap
<1>3. QED
  BY <1>1, <1>2, Invariance, PTL DEF Spec, KeepsTheContract, Contract!Spec

=============================================================================
