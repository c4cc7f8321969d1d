---------------------------- MODULE JobContract ----------------------------
(***************************************************************************)
(* What the job queue promises to the code that sends a job: once the      *)
(* transaction that sent it has committed, the job is owed; its handler is *)
(* run at least once and at most RetryLimit + 1 times; it is done only     *)
(* after a run of the handler came to its end, and given up only when no   *)
(* run is left.  JobQueue keeps the contract, PasswordReset relies on it.  *)
(***************************************************************************)
EXTENDS Naturals

CONSTANTS
  Job,        \* the jobs ever sent
  RetryLimit  \* RetryLimit[j]: how often job j is run again

VARIABLES
  status,   \* what has become of each job
  runs,     \* how often its handler was started
  handled   \* jobs a run of whose handler has returned

vars == <<status, runs, handled>>

Accept(j) ==
  /\ status[j] = "absent"
  /\ status' = [status EXCEPT ![j] = "owed"]
  /\ UNCHANGED <<runs, handled>>

Run(j) ==
  /\ status[j] = "owed" /\ runs[j] <= RetryLimit[j]
  /\ runs' = [runs EXCEPT ![j] = @ + 1]
  /\ UNCHANGED <<status, handled>>

\* A run may return after the job was given up, or done by a later run.
Handle(j) ==
  /\ runs[j] > 0
  /\ handled' = handled \cup {j}
  /\ UNCHANGED <<status, runs>>

Complete(j) ==
  /\ status[j] = "owed" /\ runs[j] > 0
  /\ handled' \in {handled, handled \cup {j}} /\ j \in handled'
  /\ status' = [status EXCEPT ![j] = "done"]
  /\ UNCHANGED runs

GiveUp(j) ==
  /\ status[j] = "owed" /\ runs[j] = RetryLimit[j] + 1
  /\ status' = [status EXCEPT ![j] = "dead"]
  /\ UNCHANGED <<runs, handled>>

Init ==
  /\ status = [j \in Job |-> "absent"]
  /\ runs = [j \in Job |-> 0]
  /\ handled = {}

Next == \E j \in Job : Accept(j) \/ Run(j) \/ Handle(j) \/ Complete(j) \/ GiveUp(j)

Spec == Init /\ [][Next]_vars

=============================================================================
