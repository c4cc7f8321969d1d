--------------------------- MODULE PasswordReset ---------------------------
(***************************************************************************)
(* The password reset of one account: POST /auth/password/forgot, the      *)
(* auth.password-reset-mail job, POST /auth/password/reset, and the one    *)
(* OneTimeToken row that (userId, purpose) has.  Only the token's hash is  *)
(* in the row; the token itself is known to the job that issued it and to  *)
(* whoever received its mail.                                              *)
(*                                                                         *)
(* Each job and each reset runs one database or mail call at a time.  The  *)
(* transaction of a reset locks the token's row with its claim and keeps   *)
(* the lock to its commit, so the claim and what follows are one step.     *)
(* Accounts do not interact here; sessions are the subject of              *)
(* AccountSessions, which takes a reset's token as given.                  *)
(***************************************************************************)
EXTENDS Naturals

CONSTANTS
  MaxToken,    \* the tokens that are drawn (a bound of the model)
  Job,         \* the mail jobs ever queued (a bound of the model)
  Req,         \* requests to reset the password that are in flight
  RetryLimit   \* how often a job that failed is run again

ASSUME ResetAssumption == MaxToken \in Nat /\ RetryLimit \in Nat

VARIABLES
  row,         \* the row: NoRow, or its id and the columns used here
  anonymized,  \* the account's anonymizedAt
  job,         \* the pg-boss row of each job and how far its worker is
  txn,         \* what each reset request has read
  issued,      \* tokens 1 .. issued have been drawn
  mailed,      \* tokens the user has received
  resets,      \* history: resets[t][u] resets that presented t took u out of use
  orphaned     \* tokens whose job could neither mail nor remove them

vars == <<row, anonymized, job, txn, issued, mailed, resets, orphaned>>

Token == 1 .. MaxToken
NoToken == 0

\* Since issuedAt: less than the cooldown, longer, past expiresAt.
Age == {"cooling", "settled", "expired"}

\* The uuid of a row is named after the first token the row held.
Row(id, token, age, used) == [id |-> id, token |-> token, age |-> age, used |-> used]
NoRow == Row(NoToken, NoToken, "expired", FALSE)
Exists == row # NoRow
Usable == Exists /\ ~row.used

Running == {"started", "issuing", "creating", "mailing", "removing"}
Ended == {"done", "failed"}
JobState == {"none", "requested", "queued"} \cup Running \cup Ended

Task(state, token, tries) == [state |-> state, token |-> token, tries |-> tries]
Reset(pc, token, id) == [pc |-> pc, token |-> token, id |-> id]
Idle == Reset("idle", NoToken, NoToken)

-----------------------------------------------------------------------------

In(j, state) == job[j].state = state
Move(j, state, token) == job' = [job EXCEPT ![j] = Task(state, token, job[j].tries)]
Goto(r, reset) == txn' = [txn EXCEPT ![r] = reset]

\* Mutant of Retry: one retry too many.
RetryOnceMore(j) ==
  job' = [job EXCEPT ![j] =
            IF job[j].tries <= RetryLimit
              THEN Task("queued", NoToken, job[j].tries + 1)
              ELSE Task("failed", NoToken, job[j].tries)]

\* Mutant of Retry: the error ends the job.
RetryNot(j) == job' = [job EXCEPT ![j] = Task("failed", NoToken, job[j].tries)]

\* A job that ends with an error is queued again while retries are left.
Retry(j) ==
  job' = [job EXCEPT ![j] =
            IF job[j].tries < RetryLimit
              THEN Task("queued", NoToken, job[j].tries + 1)
              ELSE Task("failed", NoToken, job[j].tries)]

\* Tokens that a job has issued and not yet mailed or given up.
Pending == {job[j].token : j \in {i \in Job : job[i].state \in {"mailing", "removing"}}}

-----------------------------------------------------------------------------
(* The request *)

\* The account and issuedWithin are read.
RequestRead(j) ==
  /\ In(j, "none") /\ ~anonymized
  /\ row.age # "cooling"
  /\ Move(j, "requested", NoToken)
  /\ UNCHANGED <<row, anonymized, txn, issued, mailed, resets, orphaned>>

\* The audit row and the job commit together.
RequestCommit(j) ==
  /\ In(j, "requested")
  /\ Move(j, "queued", NoToken)
  /\ UNCHANGED <<row, anonymized, txn, issued, mailed, resets, orphaned>>

-----------------------------------------------------------------------------
(* The job *)

Fetch(j) ==
  /\ In(j, "queued")
  /\ Move(j, "started", NoToken)
  /\ UNCHANGED <<row, anonymized, txn, issued, mailed, resets, orphaned>>

\* The e-mail address is read here; an anonymized account has none.
ReadUser(j) ==
  /\ In(j, "started")
  /\ Move(j, IF anonymized THEN "done" ELSE "issuing", NoToken)
  /\ UNCHANGED <<row, anonymized, txn, issued, mailed, resets, orphaned>>

\* A new token takes the place of the row's, unless that one is recent.
IssueReplace(j) ==
  LET t == issued + 1
  IN /\ In(j, "issuing") /\ Exists /\ row.age # "cooling" /\ t \in Token
     /\ row' = Row(row.id, t, "cooling", FALSE)
     /\ issued' = t
     /\ Move(j, "mailing", t)
     /\ UNCHANGED <<anonymized, txn, mailed, resets, orphaned>>

ReplaceNothing(j) ==
  /\ In(j, "issuing") /\ (Exists => row.age = "cooling")
  /\ Move(j, "creating", NoToken)
  /\ UNCHANGED <<row, anonymized, txn, issued, mailed, resets, orphaned>>

\* INSERT ... ON CONFLICT DO NOTHING.
IssueCreate(j) ==
  LET t == issued + 1
  IN /\ In(j, "creating") /\ ~Exists /\ t \in Token
     /\ row' = Row(t, t, "cooling", FALSE)
     /\ issued' = t
     /\ Move(j, "mailing", t)
     /\ UNCHANGED <<anonymized, txn, mailed, resets, orphaned>>

\* The job is done, no mail is sent.
CoolingDown(j) ==
  /\ In(j, "creating") /\ Exists
  /\ Move(j, "done", NoToken)
  /\ UNCHANGED <<row, anonymized, txn, issued, mailed, resets, orphaned>>

SendMail(j) ==
  /\ In(j, "mailing")
  /\ mailed' = mailed \cup {job[j].token}
  /\ Move(j, "done", NoToken)
  /\ UNCHANGED <<row, anonymized, txn, issued, resets, orphaned>>

\* The transport reports an error, which a mail may get through all the same.
SendFails(j, arrives) ==
  /\ In(j, "mailing")
  /\ mailed' = IF arrives THEN mailed \cup {job[j].token} ELSE mailed
  /\ Move(j, "removing", job[j].token)
  /\ UNCHANGED <<row, anonymized, txn, issued, resets, orphaned>>

\* Mutant of RemoveToken: the token stays and holds up the retry.
RemoveNothing(j) ==
  /\ In(j, "removing")
  /\ Retry(j)
  /\ UNCHANGED <<row, anonymized, txn, issued, mailed, resets, orphaned>>

\* remove(ref) deletes the row there is, and the error is thrown on.
RemoveToken(j) ==
  /\ In(j, "removing")
  /\ row' = NoRow
  /\ Retry(j)
  /\ UNCHANGED <<anonymized, txn, issued, mailed, resets, orphaned>>

\* Another call fails, or the worker dies and the job expires, perhaps after
\* the mail went out; what the job has issued stays in the row.
JobFails(j, arrives) ==
  /\ job[j].state \in Running
  /\ arrives => In(j, "mailing")
  /\ mailed' = IF arrives THEN mailed \cup {job[j].token} ELSE mailed
  /\ orphaned' = orphaned \cup ({job[j].token} \ {NoToken})
  /\ Retry(j)
  /\ UNCHANGED <<row, anonymized, txn, issued, resets>>

-----------------------------------------------------------------------------
(* The reset *)

\* consume looks the token up and sees it unused and unexpired.
ResetFind(r, t) ==
  /\ txn[r].pc = "idle" /\ t \in mailed
  /\ Usable /\ row.token = t /\ row.age # "expired"
  /\ Goto(r, Reset("found", t, row.id))
  /\ UNCHANGED <<row, anonymized, job, issued, mailed, resets, orphaned>>

\* Mutant of Claimable: the claim does not look at usedAt.
ClaimableTwice(r) == Exists /\ row.id = txn[r].id

\* updateMany({ id, usedAt: null }).
Claimable(r) == Usable /\ row.id = txn[r].id

\* The claim, the new password, the closed sessions and the audit row commit
\* together; an anonymized account rolls the claim back.  What the request
\* presented and what the row holds by now may be two tokens.
ResetCommit(r) ==
  /\ txn[r].pc = "found" /\ Claimable(r) /\ ~anonymized
  /\ row' = [row EXCEPT !.used = TRUE]
  /\ resets' = [resets EXCEPT ![txn[r].token][row.token] = @ + 1]
  /\ Goto(r, Idle)
  /\ UNCHANGED <<anonymized, job, issued, mailed, orphaned>>

ResetInvalid(r) ==
  /\ txn[r].pc = "found" /\ (~Claimable(r) \/ anonymized)
  /\ Goto(r, Idle)
  /\ UNCHANGED <<row, anonymized, job, issued, mailed, resets, orphaned>>

\* The request fails or its process dies.
ResetAborts(r) ==
  /\ txn[r].pc = "found"
  /\ Goto(r, Idle)
  /\ UNCHANGED <<row, anonymized, job, issued, mailed, resets, orphaned>>

-----------------------------------------------------------------------------
(* Time, and the anonymization of the account *)

GrowOld ==
  /\ row.age # "expired"
  /\ row' = [row EXCEPT !.age = IF row.age = "cooling" THEN "settled" ELSE "expired"]
  /\ UNCHANGED <<anonymized, job, txn, issued, mailed, resets, orphaned>>

Anonymize ==
  /\ ~anonymized /\ anonymized' = TRUE
  /\ UNCHANGED <<row, job, txn, issued, mailed, resets, orphaned>>

-----------------------------------------------------------------------------

Init ==
  /\ row = NoRow
  /\ anonymized = FALSE
  /\ job = [j \in Job |-> Task("none", NoToken, 0)]
  /\ txn = [r \in Req |-> Idle]
  /\ issued = 0
  /\ mailed = {}
  /\ resets = [t \in Token |-> [u \in Token |-> 0]]
  /\ orphaned = {}

\* What a worker does with job j, once it is queued.
Work(j) ==
  \/ Fetch(j) \/ ReadUser(j)
  \/ IssueReplace(j) \/ ReplaceNothing(j) \/ IssueCreate(j) \/ CoolingDown(j)
  \/ SendMail(j) \/ (\E arrives \in BOOLEAN : SendFails(j, arrives)) \/ RemoveToken(j)

ResetStep(r) ==
  \/ \E t \in Token : ResetFind(r, t)
  \/ ResetCommit(r) \/ ResetInvalid(r) \/ ResetAborts(r)

Next ==
  \/ \E j \in Job : RequestRead(j) \/ RequestCommit(j) \/ Work(j)
  \/ \E j \in Job, arrives \in BOOLEAN : JobFails(j, arrives)
  \/ \E r \in Req : ResetStep(r)
  \/ GrowOld \/ Anonymize

Spec == Init /\ [][Next]_vars

-----------------------------------------------------------------------------
(* What this module takes the queue to be *)

StatusOf(j) ==
  IF job[j].state \in {"none", "requested"} THEN "absent"
  ELSE IF In(j, "done") THEN "done" ELSE IF In(j, "failed") THEN "dead" ELSE "owed"

RunsOf(j) == job[j].tries + (IF job[j].state \in Running \cup Ended THEN 1 ELSE 0)

-----------------------------------------------------------------------------
(* Properties *)

\* The row, the jobs and the requests have their shapes.
TypeOK ==
  /\ row \in [id : 0 .. issued, token : 0 .. issued, age : Age, used : BOOLEAN]
  /\ anonymized \in BOOLEAN
  /\ job \in [Job -> [state : JobState, token : 0 .. issued, tries : 0 .. RetryLimit]]
  /\ txn \in [Req -> [pc : {"idle", "found"}, token : 0 .. issued, id : 0 .. issued]]
  /\ issued \in 0 .. MaxToken
  /\ mailed \subseteq Token /\ orphaned \subseteq Token
  /\ resets \in [Token -> [Token -> Nat]]

\* However many requests present mails at once, and whatever jobs issue and
\* remove meanwhile, each token that is issued is used up by at most one reset,
\* and by one that presented it or an older mail (one-time-token.service consume).
\* A mail may reset twice all the same: when the claim that follows its lookup
\* meets a newer token, that one is used up (see ResetUsesCurrentToken).
OneResetPerIssue ==
  \A t, u \in Token :
    resets[t][u] > 0 => /\ resets[t][u] = 1 /\ t <= u
                        /\ \A other \in Token \ {t} : resets[other][u] = 0

\* A job that ends without a mail because a token was issued just before does
\* so only when that token's mail went out, is on its way, or has failed in a job
\* that has yet to remove the token (and runs again if it has retries left); the
\* exception is a token whose job could not remove it.
NoMailIsSwallowed ==
  [][\A j \in Job : CoolingDown(j) => row.token \in mailed \cup Pending \cup orphaned]_vars

\* Whatever becomes of a mail, its job is sent with the commit of the request,
\* tried again while retries are left and never beyond, and given up only then:
\* the mail jobs ask of the queue what JobQueue is shown to keep.
Queue == INSTANCE JobContract WITH
  RetryLimit <- [j \in Job |-> RetryLimit],
  status <- [j \in Job |-> StatusOf(j)],
  runs <- [j \in Job |-> RunsOf(j)],
  handled <- {j \in Job : In(j, "done")}
MailJobsKeepTheContract == Queue!Spec

\* A reset succeeds only with the token that was issued last (README: "yeni
\* istek eskisini gecersiz kilar").
ResetUsesCurrentToken ==
  [][\A r \in Req : ResetCommit(r) => row.token = txn[r].token]_vars

=============================================================================
