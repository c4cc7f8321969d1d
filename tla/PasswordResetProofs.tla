------------------------ MODULE PasswordResetProofs ------------------------
(***************************************************************************)
(* Safety of PasswordReset for any number of jobs, requests, tokens and    *)
(* retries.                                                                *)
(***************************************************************************)
EXTENDS PasswordReset, TLAPS

\* A token that was not issued has reset nothing, and neither has the one in the
\* row while the row is unused: this is what makes a claim use up its token.
UnspentInv ==
  /\ \A t, u \in Token : u > issued => resets[t][u] = 0
  /\ ~row.used /\ row.token \in Token => \A t \in Token : resets[t][row.token] = 0

\* A request holds a token that was issued, and what has come into the row it
\* found since then is not older.
FoundInv ==
  \A r \in Req : txn[r].pc = "found" =>
    txn[r].token \in Token /\ (Exists /\ row.id = txn[r].id => txn[r].token <= row.token)

\* The row's token was mailed, or some job still holds it, or its job is lost.
TokenInv ==
  row.token = NoToken \/ row.token \in mailed \cup orphaned
    \/ \E j \in Job : job[j].token = row.token

\* A row that exists holds a token, and a job holds one while it is to mail it or
\* to remove it again.
ShapeInv ==
  /\ row.token = NoToken => row = NoRow
  /\ \A j \in Job : job[j].token # NoToken <=> job[j].state \in {"mailing", "removing"}

IInv == TypeOK /\ OneResetPerIssue /\ UnspentInv /\ FoundInv /\ TokenInv /\ ShapeInv

USE DEF NoToken, Token

LEMMA InvInit == Init => IInv
<1> SUFFICES ASSUME Init PROVE IInv
  OBVIOUS
<1>1. row = [id |-> 0, token |-> 0, age |-> "expired", used |-> FALSE]
  BY DEF Init, NoRow, Row
<1>2. TypeOK
  <2>1. job \in [Job -> [state : JobState, token : 0 .. issued, tries : 0 .. RetryLimit]]
    BY ResetAssumption DEF Init, Task, JobState
  <2>2. txn \in [Req -> [pc : {"idle", "found"}, token : 0 .. issued, id : 0 .. issued]]
    BY DEF Init, Idle, Reset
  <2>3. row \in [id : 0 .. issued, token : 0 .. issued, age : Age, used : BOOLEAN]
    BY <1>1 DEF Init, Age
  <2>4. issued \in 0 .. MaxToken /\ resets \in [Token -> [Token -> Nat]]
    BY ResetAssumption DEF Init
  <2>5. mailed \subseteq Token /\ orphaned \subseteq Token /\ anonymized \in BOOLEAN
    BY DEF Init
  <2>6. QED
    BY <2>1, <2>2, <2>3, <2>4, <2>5 DEF TypeOK
<1>3. OneResetPerIssue /\ UnspentInv /\ TokenInv
  BY <1>1, ResetAssumption DEF Init, OneResetPerIssue, UnspentInv, TokenInv
<1>4. ShapeInv /\ FoundInv
  BY DEF Init, ShapeInv, Task, FoundInv, Idle, Reset
<1>5. QED
  BY <1>2, <1>3, <1>4 DEF IInv

\* What a job has in hand is a token.
LEMMA InHand ==
  ASSUME TypeOK, NEW j \in Job, job[j].token # NoToken
  PROVE  job[j].token \in Token
<1>1. job[j].token \in 0 .. issued /\ issued \in 0 .. MaxToken
  BY DEF TypeOK
<1>2. QED
  BY <1>1, ResetAssumption

\* No token is used up while the row keeps its token, or gets one never issued.
LEMMA NothingSpent ==
  ASSUME IInv, UNCHANGED resets, issued' \in Nat, issued \in Nat, issued' >= issued,
         \/ row'.token = row.token /\ (row.used => row'.used)
         \/ row'.token = NoToken
         \/ row'.token > issued
  PROVE  OneResetPerIssue' /\ UnspentInv'
<1>1. OneResetPerIssue'
  BY DEF IInv, OneResetPerIssue
<1>2. \A t, u \in Token : u > issued' => resets'[t][u] = 0
  BY ResetAssumption DEF IInv, UnspentInv
<1>3. ~row'.used /\ row'.token \in Token => \A t \in Token : resets'[t][row'.token] = 0
  BY DEF IInv, UnspentInv
<1>4. QED
  BY <1>1, <1>2, <1>3 DEF UnspentInv

LEMMA RequestReadKeeps ==
  ASSUME IInv, NEW j \in Job, RequestRead(j)
  PROVE  IInv'
<1>1. TypeOK'
  BY ResetAssumption
  DEF IInv, RequestRead, TypeOK, ShapeInv, Age, In, Move, Task,
      JobState, Running, Ended
<1>2. OneResetPerIssue' /\ UnspentInv'
  BY NothingSpent, ResetAssumption DEF IInv, TypeOK, RequestRead
<1>3. TokenInv'
  BY DEF IInv, RequestRead, TypeOK, TokenInv, ShapeInv, In, Move, Task
<1>4. ShapeInv'
  BY DEF IInv, RequestRead, TypeOK, ShapeInv, Running, In, Move, Task,
      NoRow, Row
<1>5. FoundInv'
  BY ResetAssumption
  DEF IInv, RequestRead, TypeOK, FoundInv, Exists, Goto, Reset, Idle, NoRow, Row
<1>6. QED
  BY <1>1, <1>2, <1>3, <1>4, <1>5 DEF IInv

LEMMA RequestCommitKeeps ==
  ASSUME IInv, NEW j \in Job, RequestCommit(j)
  PROVE  IInv'
<1>1. TypeOK'
  BY ResetAssumption
  DEF IInv, RequestCommit, TypeOK, ShapeInv, Age, In, Move, Task,
      JobState, Running, Ended
<1>2. OneResetPerIssue' /\ UnspentInv'
  BY NothingSpent, ResetAssumption DEF IInv, TypeOK, RequestCommit
<1>3. TokenInv'
  BY DEF IInv, RequestCommit, TypeOK, TokenInv, ShapeInv, In, Move, Task
<1>4. ShapeInv'
  BY DEF IInv, RequestCommit, TypeOK, ShapeInv, Running, In, Move, Task,
      NoRow, Row
<1>5. FoundInv'
  BY ResetAssumption
  DEF IInv, RequestCommit, TypeOK, FoundInv, Exists, Goto, Reset, Idle, NoRow, Row
<1>6. QED
  BY <1>1, <1>2, <1>3, <1>4, <1>5 DEF IInv

LEMMA FetchKeeps ==
  ASSUME IInv, NEW j \in Job, Fetch(j)
  PROVE  IInv'
<1>1. TypeOK'
  BY ResetAssumption
  DEF IInv, Fetch, TypeOK, ShapeInv, Age, In, Move, Task, JobState,
      Running, Ended
<1>2. OneResetPerIssue' /\ UnspentInv'
  BY NothingSpent, ResetAssumption DEF IInv, TypeOK, Fetch
<1>3. TokenInv'
  BY DEF IInv, Fetch, TypeOK, TokenInv, ShapeInv, In, Move, Task
<1>4. ShapeInv'
  BY DEF IInv, Fetch, TypeOK, ShapeInv, Running, In, Move, Task, NoRow, Row
<1>5. FoundInv'
  BY ResetAssumption
  DEF IInv, Fetch, TypeOK, FoundInv, Exists, Goto, Reset, Idle, NoRow, Row
<1>6. QED
  BY <1>1, <1>2, <1>3, <1>4, <1>5 DEF IInv

LEMMA ReadUserKeeps ==
  ASSUME IInv, NEW j \in Job, ReadUser(j)
  PROVE  IInv'
<1>1. TypeOK'
  BY ResetAssumption
  DEF IInv, ReadUser, TypeOK, ShapeInv, Age, In, Move, Task, JobState,
      Running, Ended
<1>2. OneResetPerIssue' /\ UnspentInv'
  BY NothingSpent, ResetAssumption DEF IInv, TypeOK, ReadUser
<1>3. TokenInv'
  BY DEF IInv, ReadUser, TypeOK, TokenInv, ShapeInv, In, Move, Task
<1>4. ShapeInv'
  BY DEF IInv, ReadUser, TypeOK, ShapeInv, Running, In, Move, Task, NoRow,
      Row
<1>5. FoundInv'
  BY ResetAssumption
  DEF IInv, ReadUser, TypeOK, FoundInv, Exists, Goto, Reset, Idle, NoRow, Row
<1>6. QED
  BY <1>1, <1>2, <1>3, <1>4, <1>5 DEF IInv

LEMMA IssueReplaceKeeps ==
  ASSUME IInv, NEW j \in Job, IssueReplace(j)
  PROVE  IInv'
<1>1. TypeOK'
  <2>1. issued + 1 \in Token /\ issued' = issued + 1 /\ issued \in Nat
    BY ResetAssumption DEF IInv, TypeOK, IssueReplace
  <2>2. row' \in [id : 0 .. issued', token : 0 .. issued', age : Age, used : BOOLEAN]
    BY <2>1 DEF IInv, TypeOK, IssueReplace, Row, Age
  <2>3. job' \in [Job -> [state : JobState, token : 0 .. issued', tries : 0 .. RetryLimit]]
    BY <2>1 DEF IInv, TypeOK, IssueReplace, Move, Task, JobState, Running
  <2>4. txn' \in [Req -> [pc : {"idle", "found"}, token : 0 .. issued', id : 0 .. issued']]
    BY <2>1 DEF IInv, TypeOK, IssueReplace
  <2>5. issued' \in 0 .. MaxToken /\ resets' \in [Token -> [Token -> Nat]]
    BY <2>1, ResetAssumption DEF IInv, TypeOK, IssueReplace
  <2>6. mailed' \subseteq Token /\ orphaned' \subseteq Token /\ anonymized' \in BOOLEAN
    BY DEF IInv, TypeOK, IssueReplace
  <2>7. QED
    BY <2>2, <2>3, <2>4, <2>5, <2>6 DEF TypeOK
<1>2. OneResetPerIssue' /\ UnspentInv'
  <2>1. issued \in Nat /\ issued' = issued + 1 /\ row'.token = issued + 1 /\ UNCHANGED resets
    BY ResetAssumption DEF IInv, TypeOK, IssueReplace, Row
  <2>2. QED
    BY <2>1, NothingSpent
<1>3. TokenInv'
  BY DEF IInv, IssueReplace, TypeOK, TokenInv, ShapeInv, In, Move, Task,
      Exists, NoRow, Row
<1>4. ShapeInv'
  BY DEF IInv, IssueReplace, TypeOK, ShapeInv, Running, In, Move, Task,
      Exists, NoRow, Row
<1>5. FoundInv'
  <2>1. Exists /\ row'.id = row.id /\ row'.token = issued + 1 /\ UNCHANGED txn
    BY DEF IssueReplace, Row
  <2>2. issued \in Nat /\ issued' = issued + 1 /\ \A r \in Req : txn[r].token \in 0 .. issued
    BY ResetAssumption DEF IInv, TypeOK, IssueReplace
  <2>3. QED
    BY <2>1, <2>2 DEF IInv, FoundInv
<1>6. QED
  BY <1>1, <1>2, <1>3, <1>4, <1>5 DEF IInv

LEMMA ReplaceNothingKeeps ==
  ASSUME IInv, NEW j \in Job, ReplaceNothing(j)
  PROVE  IInv'
<1>1. TypeOK'
  BY ResetAssumption
  DEF IInv, ReplaceNothing, TypeOK, ShapeInv, Age, In, Move, Task,
      JobState, Running, Ended
<1>2. OneResetPerIssue' /\ UnspentInv'
  BY NothingSpent, ResetAssumption DEF IInv, TypeOK, ReplaceNothing
<1>3. TokenInv'
  BY DEF IInv, ReplaceNothing, TypeOK, TokenInv, ShapeInv, In, Move, Task
<1>4. ShapeInv'
  BY DEF IInv, ReplaceNothing, TypeOK, ShapeInv, Running, In, Move, Task,
      NoRow, Row
<1>5. FoundInv'
  BY ResetAssumption
  DEF IInv, ReplaceNothing, TypeOK, FoundInv, Exists, Goto, Reset, Idle, NoRow, Row
<1>6. QED
  BY <1>1, <1>2, <1>3, <1>4, <1>5 DEF IInv

LEMMA IssueCreateKeeps ==
  ASSUME IInv, NEW j \in Job, IssueCreate(j)
  PROVE  IInv'
<1>1. TypeOK'
  BY ResetAssumption, SMTT(120)
  DEF IInv, IssueCreate, TypeOK, ShapeInv, Age, In, Move, Task, Exists,
      NoRow, Row, JobState, Running, Ended
<1>2. OneResetPerIssue' /\ UnspentInv'
  <2>1. issued \in Nat /\ issued' = issued + 1 /\ row'.token = issued + 1 /\ UNCHANGED resets
    BY ResetAssumption DEF IInv, TypeOK, IssueCreate, Row
  <2>2. QED
    BY <2>1, NothingSpent
<1>3. TokenInv'
  BY DEF IInv, IssueCreate, TypeOK, TokenInv, ShapeInv, In, Move, Task,
      Exists, NoRow, Row
<1>4. ShapeInv'
  BY DEF IInv, IssueCreate, TypeOK, ShapeInv, Running, In, Move, Task,
      Exists, NoRow, Row
<1>5. FoundInv'
  <2>1. row'.id = issued + 1 /\ UNCHANGED txn
    BY DEF IssueCreate, Row
  <2>2. issued \in Nat /\ \A r \in Req : txn[r].id \in 0 .. issued
    BY ResetAssumption DEF IInv, TypeOK
  <2>3. \A r \in Req : row'.id # txn'[r].id
    BY <2>1, <2>2
  <2>4. QED
    BY <2>1, <2>3 DEF IInv, FoundInv
<1>6. QED
  BY <1>1, <1>2, <1>3, <1>4, <1>5 DEF IInv

LEMMA CoolingDownKeeps ==
  ASSUME IInv, NEW j \in Job, CoolingDown(j)
  PROVE  IInv'
<1>1. TypeOK'
  BY ResetAssumption
  DEF IInv, CoolingDown, TypeOK, ShapeInv, Age, In, Move, Task,
      JobState, Running, Ended
<1>2. OneResetPerIssue' /\ UnspentInv'
  BY NothingSpent, ResetAssumption DEF IInv, TypeOK, CoolingDown
<1>3. TokenInv'
  BY DEF IInv, CoolingDown, TypeOK, TokenInv, ShapeInv, In, Move, Task
<1>4. ShapeInv'
  BY DEF IInv, CoolingDown, TypeOK, ShapeInv, Running, In, Move, Task,
      NoRow, Row
<1>5. FoundInv'
  BY ResetAssumption
  DEF IInv, CoolingDown, TypeOK, FoundInv, Exists, Goto, Reset, Idle, NoRow, Row
<1>6. QED
  BY <1>1, <1>2, <1>3, <1>4, <1>5 DEF IInv

LEMMA SendMailKeeps ==
  ASSUME IInv, NEW j \in Job, SendMail(j)
  PROVE  IInv'
<1>1. TypeOK'
  <2>1. job[j].token # NoToken => job[j].token \in Token
    BY InHand DEF IInv
  <2>2. job[j].token # NoToken
    BY DEF IInv, ShapeInv, SendMail, In
  <2>3. mailed' \subseteq Token /\ orphaned' \subseteq Token
    BY <2>1, <2>2 DEF IInv, TypeOK, SendMail
  <2>4. QED
    BY <2>3, ResetAssumption, SMTT(120)
    DEF IInv, TypeOK, SendMail, In, Move, Task, JobState, Running, Ended
<1>2. OneResetPerIssue' /\ UnspentInv'
  BY NothingSpent, ResetAssumption DEF IInv, TypeOK, SendMail
<1>3. TokenInv'
  BY DEF IInv, SendMail, TypeOK, TokenInv, ShapeInv, In, Move, Task
<1>4. ShapeInv'
  BY DEF IInv, SendMail, TypeOK, ShapeInv, Running, In, Move, Task, NoRow,
      Row
<1>5. FoundInv'
  BY ResetAssumption
  DEF IInv, SendMail, TypeOK, FoundInv, Exists, Goto, Reset, Idle, NoRow, Row
<1>6. QED
  BY <1>1, <1>2, <1>3, <1>4, <1>5 DEF IInv

LEMMA SendFailsKeeps ==
  ASSUME IInv, NEW j \in Job, NEW arrives \in BOOLEAN, SendFails(j, arrives)
  PROVE  IInv'
<1>1. TypeOK'
  <2>1. job[j].token # NoToken => job[j].token \in Token
    BY InHand DEF IInv
  <2>2. job[j].token # NoToken
    BY DEF IInv, ShapeInv, SendFails, In
  <2>3. mailed' \subseteq Token /\ orphaned' \subseteq Token
    BY <2>1, <2>2 DEF IInv, TypeOK, SendFails
  <2>4. QED
    BY <2>3, ResetAssumption
    DEF IInv, TypeOK, SendFails, In, Move, Task, JobState, Running, Ended
<1>2. OneResetPerIssue' /\ UnspentInv'
  BY NothingSpent, ResetAssumption DEF IInv, TypeOK, SendFails
<1>3. TokenInv'
  BY DEF IInv, SendFails, TypeOK, TokenInv, ShapeInv, In, Move, Task
<1>4. ShapeInv'
  BY DEF IInv, SendFails, TypeOK, ShapeInv, Running, In, Move, Task, NoRow,
      Row
<1>5. FoundInv'
  BY ResetAssumption
  DEF IInv, SendFails, TypeOK, FoundInv, Exists, Goto, Reset, Idle, NoRow, Row
<1>6. QED
  BY <1>1, <1>2, <1>3, <1>4, <1>5 DEF IInv

LEMMA RemoveTokenKeeps ==
  ASSUME IInv, NEW j \in Job, RemoveToken(j)
  PROVE  IInv'
<1>1. TypeOK'
  BY ResetAssumption, SMTT(120)
  DEF IInv, RemoveToken, TypeOK, ShapeInv, Age, In, Retry, Task, NoRow,
      Row, JobState, Running, Ended
<1>2. OneResetPerIssue' /\ UnspentInv'
  BY NothingSpent, ResetAssumption DEF IInv, TypeOK, RemoveToken, NoRow, Row
<1>3. TokenInv'
  BY DEF IInv, RemoveToken, TypeOK, TokenInv, ShapeInv, In, Retry, Task,
      NoRow, Row
<1>4. ShapeInv'
  BY DEF IInv, RemoveToken, TypeOK, ShapeInv, Running, In, Retry, Task,
      NoRow, Row
<1>5. FoundInv'
  BY ResetAssumption
  DEF IInv, RemoveToken, TypeOK, FoundInv, Exists, Goto, Reset, Idle, NoRow, Row
<1>6. QED
  BY <1>1, <1>2, <1>3, <1>4, <1>5 DEF IInv

LEMMA JobFailsKeeps ==
  ASSUME IInv, NEW j \in Job, NEW arrives \in BOOLEAN, JobFails(j, arrives)
  PROVE  IInv'
<1>1. TypeOK'
  <2>1. job[j].token # NoToken => job[j].token \in Token
    BY InHand DEF IInv
  <2>2. arrives => job[j].token # NoToken
    BY DEF IInv, ShapeInv, JobFails, In
  <2>3. mailed' \subseteq Token /\ orphaned' \subseteq Token
    BY <2>1, <2>2 DEF IInv, TypeOK, JobFails
  <2>4. QED
    BY <2>3, ResetAssumption, SMTT(120)
    DEF IInv, TypeOK, JobFails, In, Running, Retry, Task, JobState, Running, Ended
<1>2. OneResetPerIssue' /\ UnspentInv'
  BY NothingSpent, ResetAssumption DEF IInv, TypeOK, JobFails
<1>3. TokenInv'
  BY DEF IInv, JobFails, TypeOK, TokenInv, ShapeInv, In, Retry, Task,
      Running
<1>4. ShapeInv'
  BY DEF IInv, JobFails, TypeOK, ShapeInv, Running, In, Retry, Task, NoRow,
      Row
<1>5. FoundInv'
  BY ResetAssumption
  DEF IInv, JobFails, TypeOK, FoundInv, Exists, Goto, Reset, Idle, NoRow, Row
<1>6. QED
  BY <1>1, <1>2, <1>3, <1>4, <1>5 DEF IInv

LEMMA ResetFindKeeps ==
  ASSUME IInv, NEW r \in Req, NEW t \in Token, ResetFind(r, t)
  PROVE  IInv'
<1>1. TypeOK'
  BY ResetAssumption
  DEF IInv, ResetFind, TypeOK, ShapeInv, Age, Goto, Reset, Idle,
      JobState, Running, Ended
<1>2. OneResetPerIssue' /\ UnspentInv'
  <2>1. issued \in Nat /\ UNCHANGED <<issued, row, resets>>
    BY ResetAssumption DEF IInv, TypeOK, ResetFind
  <2>2. QED
    BY <2>1, NothingSpent
<1>3. TokenInv'
  BY DEF IInv, ResetFind, TypeOK, TokenInv, ShapeInv, Goto, Reset, Idle
<1>4. ShapeInv'
  BY DEF IInv, ResetFind, TypeOK, ShapeInv, Running, Goto, Reset, Idle,
      NoRow, Row
<1>5. FoundInv'
  <2>1. txn \in [Req -> [pc : {"idle", "found"}, token : 0 .. issued, id : 0 .. issued]]
    BY DEF IInv, TypeOK
  <2>2. row.token \in Nat
    BY DEF IInv, TypeOK
  <2>3. txn' = [txn EXCEPT ![r] = [pc |-> "found", token |-> t, id |-> row.id]]
    BY DEF ResetFind, Goto, Reset
  <2>4. QED
    BY <2>1, <2>2, <2>3 DEF IInv, FoundInv, ResetFind, Exists
<1>6. QED
  BY <1>1, <1>2, <1>3, <1>4, <1>5 DEF IInv

\* A claim uses up the row's token, which nothing has used up before.
LEMMA Spends ==
  ASSUME IInv, NEW r \in Req, ResetCommit(r)
  PROVE  /\ resets' \in [Token -> [Token -> Nat]]
         /\ OneResetPerIssue'
         /\ \A t, u \in Token : u > issued => resets'[t][u] = 0
<1> DEFINE t == txn[r].token
           u == row.token
<1>1. t \in Token /\ u \in Token /\ t <= u
  <2>1. row.token \in 0 .. issued /\ issued \in 0 .. MaxToken
    BY DEF IInv, TypeOK
  <2>2. u # NoToken
    BY DEF IInv, ShapeInv, ResetCommit, Claimable, Usable, Exists
  <2>3. QED
    BY <2>1, <2>2, ResetAssumption
    DEF IInv, FoundInv, ResetCommit, Claimable, Usable
<1>2. u <= issued
  BY DEF IInv, TypeOK
<1>3. resets \in [Token -> [Token -> Nat]]
  BY DEF IInv, TypeOK
<1>4. resets' = [resets EXCEPT ![t][u] = @ + 1]
  BY DEF ResetCommit
<1>5. \A other \in Token : resets[other][u] = 0
  BY <1>1 DEF IInv, UnspentInv, ResetCommit, Claimable, Usable
<1> HIDE DEF t, u
<1>6. /\ resets'[t][u] = 1
      /\ \A v, w \in Token : v # t \/ w # u => resets'[v][w] = resets[v][w]
      /\ resets' \in [Token -> [Token -> Nat]]
  <2> HIDE DEF Token
  <2>1. resets' = [resets EXCEPT ![t] = [resets[t] EXCEPT ![u] = resets[t][u] + 1]]
    BY <1>4
  <2>2. resets[t] \in [Token -> Nat] /\ resets[t][u] = 0
    BY <1>1, <1>3, <1>5
  <2>3. [resets[t] EXCEPT ![u] = resets[t][u] + 1] \in [Token -> Nat]
    BY <1>1, <2>2
  <2>4. resets'[t] = [resets[t] EXCEPT ![u] = resets[t][u] + 1]
    BY <1>1, <1>3, <2>1
  <2>5. QED
    BY <1>1, <1>3, <2>1, <2>2, <2>3, <2>4
<1>7. OneResetPerIssue'
  <2>1. ASSUME NEW v \in Token, NEW w \in Token, resets'[v][w] > 0
        PROVE  /\ resets'[v][w] = 1 /\ v <= w
               /\ \A other \in Token \ {v} : resets'[other][w] = 0
    <3>1. CASE w = u
      BY <1>1, <1>5, <1>6, <2>1, <3>1
    <3>2. CASE w # u
      BY <1>6, <2>1, <3>2 DEF IInv, OneResetPerIssue
    <3>3. QED
      BY <3>1, <3>2
  <2>2. QED
    BY <2>1 DEF OneResetPerIssue
<1>8. \A v, w \in Token : w > issued => resets'[v][w] = 0
  <2>1. issued \in Nat /\ u \in Nat
    BY <1>1, ResetAssumption DEF IInv, TypeOK
  <2>2. ASSUME NEW v \in Token, NEW w \in Token, w > issued PROVE resets'[v][w] = 0
    <3>1. w # u
      BY <1>2, <2>1, <2>2
    <3>2. resets[v][w] = 0
      BY <2>2 DEF IInv, UnspentInv
    <3>3. QED
      BY <1>6, <2>2, <3>1, <3>2
  <2>3. QED
    BY <2>2
<1>9. QED
  BY <1>6, <1>7, <1>8

LEMMA ResetCommitKeeps ==
  ASSUME IInv, NEW r \in Req, ResetCommit(r)
  PROVE  IInv'
<1>1. TypeOK'
  <2>1. row' \in [id : 0 .. issued, token : 0 .. issued, age : Age, used : BOOLEAN]
    BY DEF IInv, TypeOK, ResetCommit
  <2>2. resets' \in [Token -> [Token -> Nat]]
    BY Spends
  <2>3. txn' \in [Req -> [pc : {"idle", "found"}, token : 0 .. issued, id : 0 .. issued]]
    BY ResetAssumption DEF IInv, TypeOK, ResetCommit, Goto, Idle, Reset
  <2>4. QED
    BY <2>1, <2>2, <2>3 DEF IInv, TypeOK, ResetCommit
<1>2. OneResetPerIssue' /\ UnspentInv'
  <2>1. row'.used /\ issued' = issued
    BY DEF IInv, TypeOK, ResetCommit
  <2>2. QED
    BY <2>1, Spends DEF UnspentInv
<1>3. TokenInv'
  BY DEF IInv, ResetCommit, TypeOK, TokenInv, ShapeInv, Goto, Reset, Idle,
      Claimable, Usable, Exists, NoRow, Row
<1>4. ShapeInv'
  BY DEF IInv, ResetCommit, TypeOK, ShapeInv, Running, Goto, Reset, Idle,
      Claimable, Usable, Exists, NoRow, Row
<1>5. FoundInv'
  <2>1. txn \in [Req -> [pc : {"idle", "found"}, token : 0 .. issued, id : 0 .. issued]]
    BY DEF IInv, TypeOK
  <2>2. row'.token = row.token /\ row'.id = row.id
    BY DEF IInv, TypeOK, ResetCommit
  <2>3. Exists' => Exists
    BY DEF ResetCommit, Claimable, Usable
  <2>4. txn' = [txn EXCEPT ![r] = [pc |-> "idle", token |-> NoToken, id |-> NoToken]]
    BY DEF ResetCommit, Goto, Idle, Reset
  <2>5. QED
    BY <2>1, <2>2, <2>3, <2>4 DEF IInv, FoundInv
<1>6. QED
  BY <1>1, <1>2, <1>3, <1>4, <1>5 DEF IInv

LEMMA ResetInvalidKeeps ==
  ASSUME IInv, NEW r \in Req, ResetInvalid(r)
  PROVE  IInv'
<1>1. TypeOK'
  BY ResetAssumption
  DEF IInv, ResetInvalid, TypeOK, ShapeInv, Age, Goto, Reset, Idle,
      JobState, Running, Ended
<1>2. OneResetPerIssue' /\ UnspentInv'
  BY NothingSpent, ResetAssumption DEF IInv, TypeOK, ResetInvalid
<1>3. TokenInv'
  BY DEF IInv, ResetInvalid, TypeOK, TokenInv, ShapeInv, Goto, Reset, Idle
<1>4. ShapeInv'
  BY DEF IInv, ResetInvalid, TypeOK, ShapeInv, Running, Goto, Reset, Idle,
      NoRow, Row
<1>5. FoundInv'
  BY ResetAssumption
  DEF IInv, ResetInvalid, TypeOK, FoundInv, Exists, Goto, Reset, Idle, NoRow, Row
<1>6. QED
  BY <1>1, <1>2, <1>3, <1>4, <1>5 DEF IInv

LEMMA ResetAbortsKeeps ==
  ASSUME IInv, NEW r \in Req, ResetAborts(r)
  PROVE  IInv'
<1>1. TypeOK'
  BY ResetAssumption
  DEF IInv, ResetAborts, TypeOK, ShapeInv, Age, Goto, Reset, Idle,
      JobState, Running, Ended
<1>2. OneResetPerIssue' /\ UnspentInv'
  BY NothingSpent, ResetAssumption DEF IInv, TypeOK, ResetAborts
<1>3. TokenInv'
  BY DEF IInv, ResetAborts, TypeOK, TokenInv, ShapeInv, Goto, Reset, Idle
<1>4. ShapeInv'
  BY DEF IInv, ResetAborts, TypeOK, ShapeInv, Running, Goto, Reset, Idle,
      NoRow, Row
<1>5. FoundInv'
  BY ResetAssumption
  DEF IInv, ResetAborts, TypeOK, FoundInv, Exists, Goto, Reset, Idle, NoRow, Row
<1>6. QED
  BY <1>1, <1>2, <1>3, <1>4, <1>5 DEF IInv

LEMMA GrowOldKeeps ==
  ASSUME IInv, GrowOld
  PROVE  IInv'
<1>1. TypeOK'
  BY ResetAssumption
  DEF IInv, GrowOld, TypeOK, ShapeInv, Age, NoRow, Row, JobState,
      Running, Ended
<1>2. OneResetPerIssue' /\ UnspentInv'
  BY NothingSpent, ResetAssumption DEF IInv, TypeOK, GrowOld
<1>3. TokenInv'
  BY DEF IInv, GrowOld, TypeOK, TokenInv, ShapeInv, NoRow, Row
<1>4. ShapeInv'
  BY DEF IInv, GrowOld, TypeOK, ShapeInv, Running, NoRow, Row
<1>5. FoundInv'
  BY ResetAssumption
  DEF IInv, GrowOld, TypeOK, FoundInv, Exists, Goto, Reset, Idle, NoRow, Row
<1>6. QED
  BY <1>1, <1>2, <1>3, <1>4, <1>5 DEF IInv

LEMMA AnonymizeKeeps ==
  ASSUME IInv, Anonymize
  PROVE  IInv'
<1>1. TypeOK'
  BY ResetAssumption
  DEF IInv, Anonymize, TypeOK, ShapeInv, Age, JobState, Running, Ended
<1>2. OneResetPerIssue' /\ UnspentInv'
  BY NothingSpent, ResetAssumption DEF IInv, TypeOK, Anonymize
<1>3. TokenInv'
  BY DEF IInv, Anonymize, TypeOK, TokenInv, ShapeInv
<1>4. ShapeInv'
  BY DEF IInv, Anonymize, TypeOK, ShapeInv, Running, NoRow, Row
<1>5. FoundInv'
  BY ResetAssumption
  DEF IInv, Anonymize, TypeOK, FoundInv, Exists, Goto, Reset, Idle, NoRow, Row
<1>6. QED
  BY <1>1, <1>2, <1>3, <1>4, <1>5 DEF IInv

-----------------------------------------------------------------------------

LEMMA InvStep == IInv /\ [Next]_vars => IInv'
<1> SUFFICES ASSUME IInv, [Next]_vars PROVE IInv'
  OBVIOUS
<1>1. ASSUME NEW j \in Job, Work(j) PROVE IInv'
  BY <1>1, FetchKeeps, ReadUserKeeps, IssueReplaceKeeps, ReplaceNothingKeeps,
     IssueCreateKeeps, CoolingDownKeeps, SendMailKeeps, SendFailsKeeps,
     RemoveTokenKeeps
  DEF Work
<1>2. ASSUME NEW r \in Req, ResetStep(r) PROVE IInv'
  BY <1>2, ResetFindKeeps, ResetCommitKeeps, ResetInvalidKeeps, ResetAbortsKeeps
  DEF ResetStep
<1>3. CASE UNCHANGED vars
  BY <1>3
  DEF vars, IInv, TypeOK, OneResetPerIssue, UnspentInv, FoundInv, TokenInv,
      ShapeInv, Exists
<1>4. CASE Next
  BY <1>4, <1>1, <1>2, RequestReadKeeps, RequestCommitKeeps, JobFailsKeeps,
     GrowOldKeeps, AnonymizeKeeps
  DEF Next
<1>5. QED
  BY <1>3, <1>4

LEMMA Invariance == Spec => []IInv
  BY InvInit, InvStep, PTL DEF Spec

-----------------------------------------------------------------------------

\* The row, the jobs and the requests keep their shapes.
THEOREM TypeCorrect == Spec => []TypeOK
<1>1. IInv => TypeOK
  BY DEF IInv
<1>2. QED
  BY <1>1, Invariance, PTL

\* Each token issued is used up by at most one reset, of a mail that is not newer.
THEOREM TokensResetOnce == Spec => []OneResetPerIssue
<1>1. IInv => OneResetPerIssue
  BY DEF IInv
<1>2. QED
  BY <1>1, Invariance, PTL

\* A job is content without a mail only when another job's token is mailed, is
\* being mailed or was lost with its job.
THEOREM MailsAreNotSwallowed == Spec => NoMailIsSwallowed
<1>1. ASSUME IInv, NEW j \in Job, CoolingDown(j)
      PROVE  row.token \in mailed \cup Pending \cup orphaned
  <2>1. row.token # NoToken
    BY <1>1 DEF CoolingDown, Exists, IInv, ShapeInv
  <2>2. CASE row.token \in mailed \cup orphaned
    BY <2>2
  <2>3. CASE \E i \in Job : job[i].token = row.token
    BY <1>1, <2>1, <2>3 DEF IInv, ShapeInv, Pending
  <2>4. QED
    BY <1>1, <2>1, <2>2, <2>3 DEF IInv, TokenInv
<1>2. IInv /\ [Next]_vars
        => [\A j \in Job : CoolingDown(j)
              => row.token \in mailed \cup Pending \cup orphaned]_vars
  BY <1>1
<1>3. QED
  BY <1>2, Invariance, PTL DEF Spec, NoMailIsSwallowed

-----------------------------------------------------------------------------
(* The mail jobs and the contract of the queue *)

StatusMap == [j \in Job |-> StatusOf(j)]
RunsMap == [j \in Job |-> RunsOf(j)]
HandledSet == {j \in Job : In(j, "done")}

\* A step that moves one job changes what the contract sees of that job only.
LEMMA OneJobMoves ==
  ASSUME TypeOK, NEW j \in Job, NEW task, job' = [job EXCEPT ![j] = task]
  PROVE  /\ StatusMap' = [StatusMap EXCEPT ![j] = StatusOf(j)']
         /\ RunsMap' = [RunsMap EXCEPT ![j] = RunsOf(j)']
         /\ HandledSet' = IF In(j, "done")' THEN HandledSet \cup {j} ELSE HandledSet \ {j}
<1>1. \A i \in Job \ {j} : job'[i] = job[i]
  BY DEF TypeOK
<1>2. \A i \in Job \ {j} : StatusOf(i)' = StatusOf(i) /\ RunsOf(i)' = RunsOf(i)
                            /\ (In(i, "done")' <=> In(i, "done"))
  BY <1>1 DEF StatusOf, RunsOf, In
<1>3. QED
  BY <1>2 DEF StatusMap, RunsMap, HandledSet

\* A step of the contract, or none.
Honoured == Queue!Next \/ UNCHANGED <<StatusMap, RunsMap, HandledSet>>

LEMMA Unmoved ==
  ASSUME TypeOK, NEW j \in Job, NEW task, job' = [job EXCEPT ![j] = task],
         StatusOf(j)' = StatusOf(j), RunsOf(j)' = RunsOf(j),
         In(j, "done")' <=> In(j, "done")
  PROVE  Honoured
<1>1. StatusMap' = StatusMap /\ RunsMap' = RunsMap
  BY OneJobMoves DEF StatusMap, RunsMap
<1>2. HandledSet' = HandledSet
  BY OneJobMoves DEF HandledSet
<1>3. QED
  BY <1>1, <1>2 DEF Honoured

LEMMA RetryIsHonoured ==
  ASSUME TypeOK, NEW j \in Job, job[j].state \in Running, Retry(j)
  PROVE  Honoured
<1> DEFINE k == job[j].tries
<1>1. k \in 0 .. RetryLimit /\ job \in [Job -> [state : JobState, token : 0 .. issued, tries : 0 .. RetryLimit]]
  BY DEF TypeOK
<1>2. StatusOf(j) = "owed" /\ RunsOf(j) = k + 1 /\ ~In(j, "done")
  BY <1>1 DEF StatusOf, RunsOf, Running, Ended, In
<1>3. CASE k < RetryLimit
  <2>1. job' = [job EXCEPT ![j] = Task("queued", NoToken, k + 1)]
    BY <1>3 DEF Retry
  <2>2. job'[j] = [state |-> "queued", token |-> NoToken, tries |-> k + 1]
    BY <1>1, <2>1 DEF Task
  <2>3. StatusOf(j)' = "owed" /\ RunsOf(j)' = k + 1 /\ ~In(j, "done")'
    BY <1>1, <2>2, ResetAssumption DEF StatusOf, RunsOf, Running, Ended, In
  <2>4. QED
    BY <1>2, <2>1, <2>3, Unmoved
<1>4. CASE ~(k < RetryLimit)
  <2>1. job' = [job EXCEPT ![j] = Task("failed", NoToken, k)]
    BY <1>4 DEF Retry
  <2>2. job'[j] = [state |-> "failed", token |-> NoToken, tries |-> k]
    BY <1>1, <2>1 DEF Task
  <2>3. StatusOf(j)' = "dead" /\ RunsOf(j)' = k + 1 /\ ~In(j, "done")'
    BY <2>2 DEF StatusOf, RunsOf, Running, Ended, In
  <2>4. k = RetryLimit
    BY <1>1, <1>4, ResetAssumption
  <2>5. /\ StatusMap' = [StatusMap EXCEPT ![j] = "dead"]
        /\ RunsMap' = RunsMap /\ HandledSet' = HandledSet
    BY <1>2, <2>1, <2>3, OneJobMoves DEF RunsMap, HandledSet
  <2>6. Queue!GiveUp(j)
    BY <1>2, <2>4, <2>5 DEF Queue!GiveUp, StatusMap, RunsMap, HandledSet
  <2>7. QED
    BY <2>6 DEF Honoured, Queue!Next
<1>5. QED
  BY <1>3, <1>4

\* The job ends with its work done.
LEMMA DoneIsHonoured ==
  ASSUME TypeOK, NEW j \in Job, job[j].state \in Running, Move(j, "done", NoToken)
  PROVE  Honoured
<1>1. job[j].tries \in 0 .. RetryLimit /\ job \in [Job -> [state : JobState, token : 0 .. issued, tries : 0 .. RetryLimit]]
  BY DEF TypeOK
<1>2. StatusOf(j) = "owed" /\ RunsOf(j) = job[j].tries + 1
  BY <1>1 DEF StatusOf, RunsOf, Running, Ended, In
<1>3. job' = [job EXCEPT ![j] = Task("done", NoToken, job[j].tries)]
  BY DEF Move
<1>4. job'[j] = [state |-> "done", token |-> NoToken, tries |-> job[j].tries]
  BY <1>1, <1>3 DEF Task
<1>5. StatusOf(j)' = "done" /\ RunsOf(j)' = RunsOf(j) /\ In(j, "done")'
  BY <1>2, <1>4 DEF StatusOf, RunsOf, Running, Ended, In
<1>6. /\ StatusMap' = [StatusMap EXCEPT ![j] = "done"]
      /\ RunsMap' = RunsMap /\ HandledSet' = HandledSet \cup {j}
  BY <1>3, <1>5, OneJobMoves DEF RunsMap
<1>7. Queue!Complete(j)
  BY <1>1, <1>2, <1>6 DEF Queue!Complete, StatusMap, RunsMap, HandledSet
<1>8. QED
  BY <1>7 DEF Honoured, Queue!Next

\* A running job goes on to another call, or a request on to its commit.
LEMMA GoingOnIsHonoured ==
  ASSUME TypeOK, NEW j \in Job, NEW s, NEW t, Move(j, s, t),
         \/ job[j].state \in Running /\ s \in Running
         \/ job[j].state \in {"none", "requested"} /\ s \in {"none", "requested"}
  PROVE  Honoured
<1>1. job[j].tries \in 0 .. RetryLimit /\ job \in [Job -> [state : JobState, token : 0 .. issued, tries : 0 .. RetryLimit]]
  BY DEF TypeOK
<1>2. job' = [job EXCEPT ![j] = Task(s, t, job[j].tries)]
  BY DEF Move
<1>3. job'[j] = [state |-> s, token |-> t, tries |-> job[j].tries]
  BY <1>1, <1>2 DEF Task
<1>4. /\ StatusOf(j)' = StatusOf(j) /\ RunsOf(j)' = RunsOf(j)
      /\ (In(j, "done")' <=> In(j, "done"))
  BY <1>1, <1>3 DEF StatusOf, RunsOf, Running, Ended, In
<1>5. QED
  BY <1>2, <1>4, Unmoved

\* The commit of the request sends the job.
LEMMA CommitIsHonoured ==
  ASSUME TypeOK, NEW j \in Job, RequestCommit(j)
  PROVE  Honoured
<1>1. job[j].tries \in 0 .. RetryLimit /\ job \in [Job -> [state : JobState, token : 0 .. issued, tries : 0 .. RetryLimit]]
  BY DEF TypeOK
<1>2. job' = [job EXCEPT ![j] = Task("queued", NoToken, job[j].tries)]
  BY DEF RequestCommit, Move
<1>3. job'[j] = [state |-> "queued", token |-> NoToken, tries |-> job[j].tries]
  BY <1>1, <1>2 DEF Task
<1>4. /\ StatusOf(j) = "absent" /\ StatusOf(j)' = "owed"
      /\ RunsOf(j)' = RunsOf(j) /\ ~In(j, "done") /\ ~In(j, "done")'
  BY <1>1, <1>3 DEF RequestCommit, StatusOf, RunsOf, Running, Ended, In
<1>5. /\ StatusMap' = [StatusMap EXCEPT ![j] = "owed"]
      /\ RunsMap' = RunsMap /\ HandledSet' = HandledSet
  BY <1>2, <1>4, OneJobMoves DEF RunsMap, HandledSet
<1>6. Queue!Accept(j)
  BY <1>4, <1>5 DEF Queue!Accept, StatusMap, RunsMap, HandledSet
<1>7. QED
  BY <1>6 DEF Honoured, Queue!Next

\* A fetch is a run, and there is one left.
LEMMA FetchIsHonoured ==
  ASSUME TypeOK, NEW j \in Job, Fetch(j)
  PROVE  Honoured
<1>1. job[j].tries \in 0 .. RetryLimit /\ job \in [Job -> [state : JobState, token : 0 .. issued, tries : 0 .. RetryLimit]]
  BY DEF TypeOK
<1>2. job' = [job EXCEPT ![j] = Task("started", NoToken, job[j].tries)]
  BY DEF Fetch, Move
<1>3. job'[j] = [state |-> "started", token |-> NoToken, tries |-> job[j].tries]
  BY <1>1, <1>2 DEF Task
<1>4. /\ StatusOf(j) = "owed" /\ StatusOf(j)' = "owed"
      /\ RunsOf(j) = job[j].tries /\ RunsOf(j)' = job[j].tries + 1
      /\ ~In(j, "done") /\ ~In(j, "done")'
  BY <1>1, <1>3 DEF Fetch, StatusOf, RunsOf, Running, Ended, In
<1>5. /\ StatusMap' = StatusMap /\ HandledSet' = HandledSet
      /\ RunsMap' = [RunsMap EXCEPT ![j] = RunsOf(j)']
  BY <1>2, <1>4, OneJobMoves DEF StatusMap, HandledSet
<1>6. Queue!Run(j)
  <2>1. StatusMap[j] = "owed" /\ RunsMap[j] = job[j].tries
    BY <1>4 DEF StatusMap, RunsMap
  <2>2. RunsMap[j] <= [i \in Job |-> RetryLimit][j]
    BY <1>1, <2>1, ResetAssumption
  <2>3. RunsMap' = [RunsMap EXCEPT ![j] = RunsMap[j] + 1]
    BY <1>4, <1>5, <2>1
  <2>4. QED
    BY <1>5, <2>1, <2>2, <2>3 DEF Queue!Run, StatusMap, RunsMap, HandledSet
<1>7. QED
  BY <1>6 DEF Honoured, Queue!Next

LEMMA StepIsHonoured == TypeOK /\ [Next]_vars => Honoured
<1> SUFFICES ASSUME TypeOK, [Next]_vars PROVE Honoured
  OBVIOUS
<1>1. ASSUME UNCHANGED job PROVE Honoured
  BY <1>1 DEF Honoured, StatusMap, RunsMap, HandledSet, StatusOf, RunsOf, In
<1>2. ASSUME NEW j \in Job, RequestRead(j) PROVE Honoured
  BY <1>2, GoingOnIsHonoured DEF RequestRead, In
<1>3. ASSUME NEW j \in Job, Work(j) PROVE Honoured
  <2>1. CASE Fetch(j)
    BY <2>1, FetchIsHonoured
  <2>2. CASE ReadUser(j)
    <3>1. job[j].state \in Running
      BY <2>2 DEF ReadUser, In, Running
    <3>2. CASE anonymized
      BY <2>2, <3>1, <3>2, DoneIsHonoured DEF ReadUser
    <3>3. CASE ~anonymized
      BY <2>2, <3>1, <3>3, GoingOnIsHonoured DEF ReadUser, Running
    <3>4. QED
      BY <3>2, <3>3
  <2>3. CASE IssueReplace(j)
    BY <2>3, GoingOnIsHonoured DEF IssueReplace, In, Running
  <2>4. CASE ReplaceNothing(j)
    BY <2>4, GoingOnIsHonoured DEF ReplaceNothing, In, Running
  <2>5. CASE IssueCreate(j)
    BY <2>5, GoingOnIsHonoured DEF IssueCreate, In, Running
  <2>6. CASE CoolingDown(j)
    BY <2>6, DoneIsHonoured DEF CoolingDown, In, Running
  <2>7. CASE SendMail(j)
    BY <2>7, DoneIsHonoured DEF SendMail, In, Running
  <2>8. ASSUME NEW arrives \in BOOLEAN, SendFails(j, arrives) PROVE Honoured
    BY <2>8, GoingOnIsHonoured DEF SendFails, In, Running
  <2>9. CASE RemoveToken(j)
    BY <2>9, RetryIsHonoured DEF RemoveToken, In, Running
  <2>10. QED
    BY <1>3, <2>1, <2>2, <2>3, <2>4, <2>5, <2>6, <2>7, <2>8, <2>9 DEF Work
<1>4. ASSUME NEW j \in Job, NEW arrives \in BOOLEAN, JobFails(j, arrives) PROVE Honoured
  BY <1>4, RetryIsHonoured DEF JobFails
<1>5. ASSUME NEW r \in Req, ResetStep(r) PROVE UNCHANGED job
  BY <1>5 DEF ResetStep, ResetFind, ResetCommit, ResetInvalid, ResetAborts
<1>6. ASSUME GrowOld \/ Anonymize PROVE UNCHANGED job
  BY <1>6 DEF GrowOld, Anonymize
<1>7. CASE UNCHANGED vars
  BY <1>1, <1>7 DEF vars
<1>8. CASE Next
  BY <1>1, <1>2, <1>3, <1>4, <1>5, <1>6, <1>8, CommitIsHonoured DEF Next
<1>9. QED
  BY <1>7, <1>8

\* What becomes of the mail jobs is a behaviour of the queue's contract.
THEOREM MailJobsHonourTheContract == Spec => MailJobsKeepTheContract
<1>1. Init => Queue!Init
  <2>1. ASSUME Init, NEW j \in Job
        PROVE  StatusOf(j) = "absent" /\ RunsOf(j) = 0 /\ ~In(j, "done")
    BY <2>1 DEF Init, Task, StatusOf, RunsOf, Running, Ended, In
  <2>2. QED
    BY <2>1 DEF Queue!Init
<1>2. TypeOK /\ [Next]_vars => [Queue!Next]_(Queue!vars)
  BY StepIsHonoured DEF Honoured, Queue!vars, StatusMap, RunsMap, HandledSet
<1>3. QED
  BY <1>1, <1>2, TypeCorrect, PTL DEF Spec, MailJobsKeepTheContract, Queue!Spec

=============================================================================
