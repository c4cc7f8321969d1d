------------------------------ MODULE JobQueue ------------------------------
(***************************************************************************)
(* core/queue: the processes of a deployment, the registration each does   *)
(* when it boots, the schedules it leaves in the database, and the jobs    *)
(* its workers take from pg-boss.  Several versions of the program may be  *)
(* deployed at once, as in a rolling update.                               *)
(*                                                                         *)
(* A boot makes one call after another: start, the queues, a schedule per  *)
(* scheduled job, the list of schedules, an unschedule per schedule that   *)
(* this version does not know, the workers.  createQueue is idempotent and *)
(* a worker waits for nothing, so either loop is one step.  updateQueue    *)
(* overwrites a queue's options with those of the version that boots; the  *)
(* options do not differ between versions here, and a row keeps the limit  *)
(* it was sent with.                                                       *)
(*                                                                         *)
(* pg-boss is external: its rows are created, active, retry, completed or  *)
(* failed; a failure is retried while retry_count < retry_limit; an active *)
(* job whose process died or whose handler hangs expires.                  *)
(***************************************************************************)
EXTENDS Naturals, FiniteSets

CONSTANTS
  Instance,    \* processes
  Version,     \* versions of the program
  Queue,       \* names of jobs
  Job,         \* the jobs ever sent (a bound of the model)
  None,        \* no version, no instance
  Defines,     \* Defines[v]: the names version v has a handler for
  Scheduled,   \* Scheduled[v]: those of them that have a schedule
  NameOf,      \* NameOf[n]: the queue of job n
  RetryLimit,  \* retryLimit of each queue
  MaxBoots     \* how often processes are started (a bound of the model)

ASSUME QueueAssumption ==
  /\ None \notin Version /\ None \notin Instance
  /\ Defines \in [Version -> SUBSET Queue]
  /\ Scheduled \in [Version -> SUBSET Queue]
  /\ \A v \in Version : Scheduled[v] \subseteq Defines[v]
  /\ NameOf \in [Job -> Queue]
  /\ RetryLimit \in [Queue -> Nat]
  /\ MaxBoots \in Nat

VARIABLES
  inst,      \* what each process is, and how far it is
  queues,    \* the queues there are
  schedule,  \* the version whose cron each queue is scheduled with
  job,       \* the pg-boss row of each job
  run,       \* the calls of handlers in progress
  boots,     \* how many processes were started
  handled,   \* jobs a run of whose handler has returned
  logged,    \* jobs logged as failed with no retries left
  cut,       \* history: jobs with a run that was ended from outside
  alone      \* history: processes that no other version has synced alongside

registry == <<queues, schedule, alone>>
work == <<job, run, handled, logged, cut>>
vars == <<inst, boots, registry, work>>

Pc == {"down", "starting", "scheduling", "withdrawing", "up", "stopping"}
Process(pc, v, workers, todo) ==
  [pc |-> pc, version |-> v, workers |-> workers, todo |-> todo]
Down == Process("down", None, FALSE, {})

JobState == {"absent", "pending", "created", "active", "retry", "completed", "failed"}
Row(state, tries, by) == [state |-> state, tries |-> tries, by |-> by]

\* A call of process(): the retryCount it was given decides what it logs.
Call(i, n, tries, phase) == [by |-> i, job |-> n, tries |-> tries, phase |-> phase]

-----------------------------------------------------------------------------

At(i, pc) == inst[i].pc = pc
VersionOf(i) == inst[i].version
Todo(i) == inst[i].todo
Goto(i, pc, todo) == inst' = [inst EXCEPT ![i].pc = pc, ![i].todo = todo]

Syncing(i) == inst[i].pc \in {"scheduling", "withdrawing"}
Synced(i) == inst[i].pc \in {"up", "stopping"}

\* Mutant of Polls: workers are registered along with the schedules.
PollsScheduled(i) ==
  IF At(i, "up") /\ inst[i].workers THEN Scheduled[VersionOf(i)] ELSE {}

\* The queues process i has registered a worker for.
Polls(i) == IF At(i, "up") /\ inst[i].workers THEN Defines[VersionOf(i)] ELSE {}

In(n, state) == job[n].state = state
Unfinished(n) == job[n].state \in {"created", "active", "retry"}
Limit(n) == RetryLimit[NameOf[n]]

\* The run the row is waiting for; others are left over from earlier fetches.
Current(c) == In(c.job, "active") /\ job[c.job].by = c.by /\ job[c.job].tries = c.tries

\* Mutant of Failure: one retry too many.
FailureOnceMore(n) ==
  Row(IF job[n].tries <= Limit(n) THEN "retry" ELSE "failed", job[n].tries, None)

\* What a failure makes of a row.
Failure(n) ==
  Row(IF job[n].tries < Limit(n) THEN "retry" ELSE "failed", job[n].tries, None)

-----------------------------------------------------------------------------
(* The boot *)

\* The process is started, and boss.start() is under way.
Start(i, v, workers) ==
  /\ At(i, "down") /\ boots < MaxBoots
  /\ inst' = [inst EXCEPT ![i] = Process("starting", v, workers, {})]
  /\ boots' = boots + 1
  /\ UNCHANGED <<registry, work>>

CreateQueues(i) ==
  LET v == VersionOf(i)
  IN /\ At(i, "starting")
     /\ queues' = queues \cup Defines[v]
     /\ Goto(i, "scheduling", Scheduled[v])
     /\ alone' = [k \in Instance |->
                    IF k = i THEN \A o \in Instance : Syncing(o) => VersionOf(o) = v
                             ELSE alone[k] /\ VersionOf(k) = v]
     /\ UNCHANGED <<boots, schedule, work>>

\* schedule() inserts or overwrites; its queue must exist.
PutSchedule(i, q) ==
  /\ At(i, "scheduling") /\ q \in Todo(i) /\ q \in queues
  /\ schedule' = [schedule EXCEPT ![q] = VersionOf(i)]
  /\ Goto(i, "scheduling", Todo(i) \ {q})
  /\ UNCHANGED <<boots, queues, alone, work>>

\* Mutant of Unknown: every schedule is taken for an old one.
UnknownAll(v) == {q \in Queue : schedule[q] # None}

\* Schedules in the database that version v did not ask for.
Unknown(v) == {q \in Queue : schedule[q] # None} \ Scheduled[v]

\* getSchedules()
ListSchedules(i) ==
  /\ At(i, "scheduling") /\ Todo(i) = {}
  /\ Goto(i, "withdrawing", Unknown(VersionOf(i)))
  /\ UNCHANGED <<boots, registry, work>>

\* unschedule() deletes whatever row there is by now.
Withdraw(i, q) ==
  /\ At(i, "withdrawing") /\ q \in Todo(i)
  /\ schedule' = [schedule EXCEPT ![q] = None]
  /\ Goto(i, "withdrawing", Todo(i) \ {q})
  /\ UNCHANGED <<boots, queues, alone, work>>

\* The workers are registered, unless QUEUE_WORKERS_ENABLED is false, and the
\* server listens.
Ready(i) ==
  /\ At(i, "withdrawing") /\ Todo(i) = {}
  /\ Goto(i, "up", {})
  /\ UNCHANGED <<boots, registry, work>>

Boot(i) ==
  \/ CreateQueues(i)
  \/ \E q \in Queue : PutSchedule(i, q) \/ Withdraw(i, q)
  \/ ListSchedules(i) \/ Ready(i)

-----------------------------------------------------------------------------
(* Jobs are sent *)

\* With a transaction the row is seen by nobody until the commit.
Send(i, n, inTransaction) ==
  /\ inst[i].pc \in {"up", "stopping"}
  /\ NameOf[n] \in Defines[VersionOf(i)] \cap queues
  /\ In(n, "absent")
  /\ job' = [job EXCEPT ![n] =
               IF inTransaction THEN Row("pending", 0, i) ELSE Row("created", 0, None)]
  /\ UNCHANGED <<inst, boots, registry, run, handled, logged, cut>>

Commit(n) ==
  /\ In(n, "pending")
  /\ job' = [job EXCEPT ![n] = Row("created", 0, None)]
  /\ UNCHANGED <<inst, boots, registry, run, handled, logged, cut>>

Rollback(n) ==
  /\ In(n, "pending")
  /\ job' = [job EXCEPT ![n] = Row("absent", 0, None)]
  /\ UNCHANGED <<inst, boots, registry, run, handled, logged, cut>>

\* The cron of a process that has workers fires; of several one gets to send.
Fire(i, n) ==
  /\ inst[i].workers /\ inst[i].pc \notin {"down", "stopping"}
  /\ schedule[NameOf[n]] # None
  /\ In(n, "absent")
  /\ job' = [job EXCEPT ![n] = Row("created", 0, None)]
  /\ UNCHANGED <<inst, boots, registry, run, handled, logged, cut>>

-----------------------------------------------------------------------------
(* Jobs are worked *)

\* A worker takes one job at a time; only a second start counts as a retry.
Fetch(i, n) ==
  LET tries == IF In(n, "retry") THEN job[n].tries + 1 ELSE job[n].tries
  IN /\ job[n].state \in {"created", "retry"} /\ NameOf[n] \in Polls(i)
     /\ \A k \in Job : In(k, "active") /\ job[k].by = i => NameOf[k] # NameOf[n]
     /\ job' = [job EXCEPT ![n] = Row("active", tries, i)]
     /\ run' = run \cup {Call(i, n, tries, "running")}
     /\ UNCHANGED <<inst, boots, registry, handled, logged, cut>>

HandlerReturns(c) ==
  /\ c.phase = "running"
  /\ run' = (run \ {c}) \cup {[c EXCEPT !.phase = "returned"]}
  /\ handled' = handled \cup {c.job}
  /\ UNCHANGED <<inst, boots, registry, job, logged, cut>>

\* Mutant of NoneLeft: an error only beyond the limit.
NoneLeftBeyond(c) == c.tries > Limit(c.job)

\* retryCount >= retryLimit
NoneLeft(c) == c.tries >= Limit(c.job)

\* Mutant of HandlerThrows: the failure is logged and swallowed.
HandlerSwallows(c) ==
  /\ c.phase = "running"
  /\ run' = (run \ {c}) \cup {[c EXCEPT !.phase = "returned"]}
  /\ logged' = IF NoneLeft(c) THEN logged \cup {c.job} ELSE logged
  /\ UNCHANGED <<inst, boots, registry, job, handled, cut>>

\* The handler, or the parsing of envelope or payload before it, throws; the
\* failure is logged and thrown on.
HandlerThrows(c) ==
  /\ c.phase = "running"
  /\ run' = (run \ {c}) \cup {[c EXCEPT !.phase = "threw"]}
  /\ logged' = IF NoneLeft(c) THEN logged \cup {c.job} ELSE logged
  /\ UNCHANGED <<inst, boots, registry, job, handled, cut>>

\* What the worker reports when process() has ended.
Outcome(c) ==
  IF c.phase = "threw" THEN Failure(c.job) ELSE Row("completed", job[c.job].tries, None)

\* A report that comes late may be taken for one of the run that is active now.
Report(c, heard) ==
  /\ c.phase \in {"returned", "threw"}
  /\ Current(c) => heard
  /\ heard => In(c.job, "active")
  /\ run' = run \ {c}
  /\ job' = IF heard THEN [job EXCEPT ![c.job] = Outcome(c)] ELSE job
  /\ UNCHANGED <<inst, boots, registry, handled, logged, cut>>

\* expireInSeconds is over, the process may be dead or still at it.
Expire(n) ==
  /\ In(n, "active")
  /\ job' = [job EXCEPT ![n] = Failure(n)]
  /\ cut' = cut \cup {n}
  /\ UNCHANGED <<inst, boots, registry, run, handled, logged>>

-----------------------------------------------------------------------------
(* The end of a process *)

\* SIGTERM: boss.stop() takes no more jobs and waits for those under way, while
\* the server still answers.
Stop(i) ==
  /\ At(i, "up")
  /\ Goto(i, "stopping", {})
  /\ UNCHANGED <<boots, registry, work>>

\* QUEUE_STOP_TIMEOUT_MS is over: pg-boss fails what is under way, one worker
\* after another; the handlers run on until the process exits.
StopTimeout(i, n) ==
  /\ At(i, "stopping") /\ In(n, "active") /\ job[n].by = i
  /\ job' = [job EXCEPT ![n] = Failure(n)]
  /\ cut' = cut \cup {n}
  /\ UNCHANGED <<inst, boots, registry, run, handled, logged>>

\* The process exits, is forced to after FORCE_EXIT_MS, fails to boot, or is
\* killed: its transactions are rolled back, its calls come to nothing.
Halt(i) ==
  /\ ~At(i, "down")
  /\ inst' = [inst EXCEPT ![i] = Down]
  /\ run' = {c \in run : c.by # i}
  /\ job' = [n \in Job |->
               IF In(n, "pending") /\ job[n].by = i
                 THEN Row("absent", 0, None)
                 ELSE job[n]]
  /\ UNCHANGED <<boots, registry, handled, logged, cut>>

-----------------------------------------------------------------------------

Init ==
  /\ inst = [i \in Instance |-> Down]
  /\ queues = {} /\ schedule = [q \in Queue |-> None]
  /\ job = [n \in Job |-> Row("absent", 0, None)]
  /\ run = {} /\ boots = 0
  /\ handled = {} /\ logged = {} /\ cut = {}
  /\ alone = [i \in Instance |-> FALSE]

\* What is left to do of a call of job n's handler.
Work(n) ==
  \E c \in run : /\ c.job = n
                 /\ \/ HandlerReturns(c) \/ HandlerThrows(c)
                    \/ \E heard \in BOOLEAN : Report(c, heard)

Next ==
  \/ \E i \in Instance :
       \/ \E v \in Version, workers \in BOOLEAN : Start(i, v, workers)
       \/ Boot(i) \/ Stop(i) \/ Halt(i)
  \/ \E i \in Instance, n \in Job :
       \/ \E inTransaction \in BOOLEAN : Send(i, n, inTransaction)
       \/ Fire(i, n) \/ Fetch(i, n) \/ StopTimeout(i, n)
  \/ \E n \in Job : Commit(n) \/ Rollback(n) \/ Work(n) \/ Expire(n)

Spec == Init /\ [][Next]_vars

\* Processes run on unless they die, handlers come to an end, transactions too
\* (they time out), pg-boss looks for expired jobs, and its workers for jobs.
Fairness ==
  /\ \A i \in Instance : WF_vars(Boot(i))
  /\ \A n \in Job :
       /\ WF_vars(Commit(n) \/ Rollback(n))
       /\ WF_vars(Work(n)) /\ WF_vars(Expire(n))
       /\ SF_vars(\E i \in Instance : Fetch(i, n))

FairSpec == Spec /\ Fairness

-----------------------------------------------------------------------------
(* What a row means to the sender of the job *)

StatusOf(n) ==
  IF job[n].state \in {"absent", "pending"} THEN "absent"
  ELSE IF Unfinished(n) THEN "owed"
  ELSE IF In(n, "completed") THEN "done" ELSE "dead"

RunsOf(n) ==
  IF job[n].state \in {"absent", "pending", "created"} THEN 0 ELSE job[n].tries + 1

-----------------------------------------------------------------------------
(* Properties *)

\* Processes, schedules, rows and calls have their shapes; whatever is scheduled
\* or sent has its queue.
TypeOK ==
  /\ inst \in [Instance -> [pc : Pc, version : Version \cup {None},
                            workers : BOOLEAN, todo : SUBSET Queue]]
  /\ \A i \in Instance : ~At(i, "down") => VersionOf(i) \in Version
  /\ queues \subseteq Queue
  /\ schedule \in [Queue -> Version \cup {None}]
  /\ \A q \in Queue : schedule[q] # None => q \in queues
  /\ job \in [Job -> [state : JobState, tries : Nat, by : Instance \cup {None}]]
  /\ \A n \in Job : job[n].tries <= Limit(n) /\ (~In(n, "absent") => NameOf[n] \in queues)
  /\ run \subseteq [by : Instance, job : Job, tries : Nat,
                    phase : {"running", "returned", "threw"}]
  /\ boots \in 0 .. MaxBoots
  /\ handled \subseteq Job /\ logged \subseteq Job /\ cut \subseteq Job
  /\ alone \in [Instance -> BOOLEAN]

\* Once a process is up, the schedules in the database are those of its version
\* and no others, and they stay so while replicas of the same version come and
\* go, unless a process of another version has booted since or was booting
\* alongside it (queue.explorer.ts, syncSchedules).
SchedulesAreKept ==
  \A i \in Instance : Synced(i) /\ alone[i] =>
    \A q \in Queue :
      schedule[q] = IF q \in Scheduled[VersionOf(i)] THEN VersionOf(i) ELSE None

\* A job that pg-boss has given up was logged as failed with no retries left,
\* unless a run of it was cut off by an expiry or a shutdown (README: "tekrarlar
\* biterse failed olarak kalir ve loglanir").
GivenUpJobsAreLogged == \A n \in Job : In(n, "failed") => n \in logged \cup cut

\* Through rollbacks, crashes, expiries, shutdowns and late reports the queue
\* keeps the contract: nothing sent is lost, run before its transaction has
\* committed, run more than retryLimit + 1 times, or done without having been
\* handled (README: "Bir is en az bir kez calisir").
Contract == INSTANCE JobContract WITH
  RetryLimit <- [n \in Job |-> Limit(n)],
  status <- [n \in Job |-> StatusOf(n)],
  runs <- [n \in Job |-> RunsOf(n)]
KeepsTheContract == Contract!Spec

\* Process i has booted with workers and its version has a handler for job n.
CouldHandle(i, n) ==
  At(i, "up") /\ inst[i].workers /\ NameOf[n] \in Defines[VersionOf(i)]

\* As long as processes that could handle it come back, every job that was sent
\* is completed or given up in the end, wherever processes died on the way: a
\* boot registers a worker for each handler (queue.explorer.ts).
EveryJobEnds ==
  \A n \in Job :
    []<>(\E i \in Instance : CouldHandle(i, n))
      => (Unfinished(n) ~> job[n].state \in {"completed", "failed"})

=============================================================================
