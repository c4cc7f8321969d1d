----------------------------- MODULE AuditTrail -----------------------------
(***************************************************************************)
(* modules/audit-log and core/audit: the AuditLog table from the insertion *)
(* of a record to its deletion by the retention job, with the two ways of  *)
(* reading it page by page: a user's security log, by cursor, and the      *)
(* administrators' list, by page number.                                   *)
(*                                                                         *)
(* Both are ordered by createdAt and id, newest first.  createdAt is taken *)
(* when the row is inserted, the row is seen when its transaction commits: *)
(* rows do not appear in the order of their times.  The anonymization job  *)
(* writes columns of rows that neither reading looks at, and is left out.  *)
(***************************************************************************)
EXTENDS Naturals, FiniteSets

CONSTANTS
  Record,     \* ids of the rows ever written, ordered as their UUIDs are
  User,
  None,       \* no user, no cursor, no time
  Subject,    \* Subject[r]: the user the row is about, None if nobody is known
  Me,         \* the user who reads the security log
  Matching,   \* the rows the administrator's filter lets through
  Limit,      \* rows on a page
  Retention,  \* AUDIT_RETENTION_DAYS
  MaxTime     \* bound of the model on the clock

ASSUME TrailAssumption ==
  /\ Record \subseteq Nat /\ IsFiniteSet(Record)
  /\ None \notin User /\ None \notin Record /\ None \notin Nat
  /\ Subject \in [Record -> User \cup {None}]
  /\ Me \in User /\ Matching \subseteq Record
  /\ Limit \in Nat \ {0} /\ Retention \in Nat /\ MaxTime \in Nat

VARIABLES
  clock,
  row,     \* what has become of each record
  purge,   \* the time a retention job under way has read
  log,     \* a walk along the security log of Me
  list     \* a walk along the administrators' list

trail == <<clock, row, purge>>
vars == <<trail, log, list>>

RecordState == {"none", "open", "stored", "deleted"}
Row(state, at) == [state |-> state, at |-> at]

Stored(r) == row[r].state = "stored"
At(r) == row[r].at
Newer(q, r) == At(q) > At(r) \/ (At(q) = At(r) /\ q > r)

\* ORDER BY createdAt DESC, id DESC LIMIT n
First(T, S, n) ==
  /\ T \subseteq S
  /\ \A t \in T, s \in S \ T : Newer(t, s)
  /\ Cardinality(T) = n \/ (T = S /\ Cardinality(T) <= n)

\* Bound of the model: there is one walk.  A walk changes no row.
Alone == log.pc = "idle" /\ list.pc = "idle"

Oldest(r, T) == r \in T /\ \A t \in T \ {r} : Newer(t, r)

-----------------------------------------------------------------------------
(* Records are written *)

\* AuditService.record
Insert(r) ==
  /\ row[r].state = "none"
  /\ row' = [row EXCEPT ![r] = Row("open", clock)]
  /\ UNCHANGED <<clock, purge, log, list>>

\* A page that was counted but not read yet knows nothing of the row.
Commit(r) ==
  /\ row[r].state = "open"
  /\ row' = [row EXCEPT ![r].state = "stored"]
  /\ list' = [list EXCEPT !.stale = @ \/ list.got = {"total"}]
  /\ UNCHANGED <<clock, purge, log>>

\* The transaction is rolled back with what it recorded.
Abort(r) ==
  /\ row[r].state = "open"
  /\ row' = [row EXCEPT ![r] = Row("none", 0)]
  /\ UNCHANGED <<clock, purge, log, list>>

Tick ==
  /\ clock < MaxTime
  /\ clock' = clock + 1
  /\ UNCHANGED <<row, purge, log, list>>

-----------------------------------------------------------------------------
(* Retention *)

\* removeExpired reads the time ...
TakeThreshold ==
  /\ purge = None
  /\ purge' = clock
  /\ UNCHANGED <<clock, row, log, list>>

\* Mutant of Expired: the threshold is read once, when the job is set up.
ExpiredAtBoot(r) == At(r) + Retention < 0

Expired(r) == At(r) + Retention < purge

\* ... and deletes in one statement.
RemoveExpired ==
  /\ purge # None
  /\ row' = [r \in Record |->
               IF Stored(r) /\ Expired(r) THEN [row[r] EXCEPT !.state = "deleted"]
                                          ELSE row[r]]
  /\ purge' = None
  /\ UNCHANGED <<clock, log, list>>

\* The job fails, or its process dies.
RemoveFails ==
  /\ purge # None /\ purge' = None
  /\ UNCHANGED <<clock, row, log, list>>

-----------------------------------------------------------------------------
(* The security log: GET /users/me/security-log, nextCursor for the next page *)

Mine == {r \in Record : Stored(r) /\ Subject[r] = Me}

OpenLog ==
  /\ Alone
  /\ log' = [log EXCEPT !.pc = "walking", !.base = Mine]
  /\ UNCHANGED <<trail, list>>

\* Mutant of From: the row of the cursor is not skipped.
FromIncluding(cursor) ==
  IF cursor = None THEN Mine
  ELSE {r \in Mine : Stored(cursor) /\ (Newer(cursor, r) \/ r = cursor)}

\* What is left behind the cursor: nothing when its row is gone.
From(cursor) ==
  IF cursor = None THEN Mine
  ELSE {r \in Mine : Stored(cursor) /\ Newer(cursor, r)}

\* Mutant of NextCursor: the row fetched only to see whether there are more.
NextCursorBeyond(c, data, rows) == Oldest(c, rows)

\* buildCursorPage: the last row of the page.
NextCursor(c, data, rows) == Oldest(c, data)

\* findAllBySubject
ReadLog ==
  /\ log.pc = "walking"
  /\ \E rows \in SUBSET From(log.cursor) :
       /\ First(rows, From(log.cursor), Limit + 1)
       /\ LET next == [log EXCEPT !.earlier = log.earlier \cup log.page]
          IN \/ /\ Cardinality(rows) <= Limit
                /\ log' = [next EXCEPT !.pc = "done", !.page = rows]
             \/ /\ Cardinality(rows) > Limit
                /\ \E data \in SUBSET rows, c \in rows :
                     /\ First(data, rows, Limit) /\ NextCursor(c, data, rows)
                     /\ log' = [next EXCEPT !.page = data, !.cursor = c]
  /\ UNCHANGED <<trail, list>>

-----------------------------------------------------------------------------
(* The list: GET /admin/audit-logs, the next page while there are more *)

Listed == {r \in Record : Stored(r) /\ r \in Matching}

OpenList ==
  /\ Alone
  /\ list' = [list EXCEPT !.pc = "walking", !.base = Listed]
  /\ UNCHANGED <<trail, log>>

\* findAll sends two queries at once; which is first is anyone's guess.
ReadRows ==
  /\ list.pc = "walking" /\ "rows" \notin list.got
  /\ \E before \in SUBSET Listed, rows \in SUBSET Listed :
       /\ First(before, Listed, (list.page - 1) * Limit)
       /\ First(rows, Listed \ before, Limit)
       /\ list' = [list EXCEPT !.got = @ \cup {"rows"}, !.seen = @ \cup rows]
  /\ UNCHANGED <<trail, log>>

CountRows ==
  /\ list.pc = "walking" /\ "total" \notin list.got
  /\ list' = [list EXCEPT !.got = @ \cup {"total"}, !.total = Cardinality(Listed)]
  /\ UNCHANGED <<trail, log>>

\* Mutants of HasMore: the page before the last is taken for it, and a full last
\* page for one with more behind it.
HasMoreShort(page, total) == (page + 1) * Limit < total
HasMoreLong(page, total) == page * Limit <= total

HasMore(page, total) == page * Limit < total

\* buildOffsetPage
Answer ==
  /\ list.got = {"rows", "total"}
  /\ list' = IF HasMore(list.page, list.total)
               THEN [list EXCEPT !.page = @ + 1, !.got = {}, !.total = 0, !.stale = FALSE]
               ELSE [list EXCEPT !.pc = "done", !.got = {}]
  /\ UNCHANGED <<trail, log>>

-----------------------------------------------------------------------------

Init ==
  /\ clock = 0 /\ purge = None
  /\ row = [r \in Record |-> Row("none", 0)]
  /\ log = [pc |-> "idle", cursor |-> None, base |-> {}, earlier |-> {}, page |-> {}]
  /\ list = [pc |-> "idle", page |-> 1, got |-> {}, total |-> 0, base |-> {},
             seen |-> {}, stale |-> FALSE]

Next ==
  \/ \E r \in Record : Insert(r) \/ Commit(r) \/ Abort(r)
  \/ Tick \/ TakeThreshold \/ RemoveExpired \/ RemoveFails
  \/ OpenLog \/ ReadLog
  \/ OpenList \/ ReadRows \/ CountRows \/ Answer

Spec == Init /\ [][Next]_vars

\* The job is scheduled every day, and does not fail for ever.
FairSpec == Spec /\ WF_vars(TakeThreshold) /\ SF_vars(RemoveExpired)

-----------------------------------------------------------------------------
(* Properties *)

\* Rows and walks have their shapes, and no page is asked for that could only be
\* empty, but the first.
TypeOK ==
  /\ clock \in 0 .. MaxTime
  /\ row \in [Record -> [state : RecordState, at : 0 .. MaxTime]]
  /\ purge \in (0 .. MaxTime) \cup {None}
  /\ log \in [pc : {"idle", "walking", "done"}, cursor : Record \cup {None},
              base : SUBSET Record, earlier : SUBSET Record, page : SUBSET Record]
  /\ list \in [pc : {"idle", "walking", "done"}, page : Nat \ {0},
               got : SUBSET {"rows", "total"}, total : 0 .. Cardinality(Record),
               base : SUBSET Record, seen : SUBSET Record, stale : BOOLEAN]
  /\ list.page = 1 \/ (list.page - 1) * Limit < Cardinality(Record)

\* No row is on two pages of the security log, whatever is recorded or deleted
\* between them (audit-log.service.ts, findAllBySubject).
ShownOnce == log.earlier \cap log.page = {}

\* A walk to the end of the security log has shown every row that was there when
\* it began and still is: rows of the same millisecond are not skipped, and when
\* the row of the cursor is gone, so is all that was behind it.
SecurityLogIsComplete ==
  log.pc = "done" => \A r \in log.base : Stored(r) => r \in log.earlier \cup log.page

\* The same of the administrators' list, whose pages shift under the reader,
\* unless a row was committed between the count and the rows of the last page
\* (audit-log.service.ts, findAll).
ListIsComplete ==
  list.pc = "done" /\ ~list.stale => \A r \in list.base : Stored(r) => r \in list.seen

\* A row whose time is over is deleted in the end, the one included that was
\* committed behind a deletion that should have met it.
ExpiredRecordsGo ==
  \A r \in Record : (Stored(r) /\ At(r) + Retention < clock) ~> row[r].state = "deleted"

=============================================================================
