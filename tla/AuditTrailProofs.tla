-------------------------- MODULE AuditTrailProofs --------------------------
(***************************************************************************)
(* Safety of AuditTrail for any number of records and users, any size of   *)
(* page and any retention.  Both walks rest on one fact: the retention job *)
(* deletes an end of the order, so it never takes a row without those that *)
(* are behind it.                                                          *)
(***************************************************************************)
EXTENDS AuditTrail, FiniteSetTheorems, TLAPS

Written(r) == row[r].state \in {"stored", "deleted"}

\* What every step that changes rows leaves as it is: the times of written rows,
\* deleted rows, and before a row that stays all those that are newer.
Orderly ==
  \A r \in Record : Written(r) =>
    /\ Written(r)' /\ At(r)' = At(r)
    /\ Stored(r)' => /\ Stored(r)
                     /\ \A q \in Record : Stored(q) /\ Newer(q, r) => Stored(q)'

Shown == log.earlier \cup log.page

LogInv ==
  /\ \A r \in log.base : Written(r) /\ Subject[r] = Me
  /\ \A r \in Shown : Written(r)
  /\ log.pc = "idle" => log.cursor = None /\ Shown = {}
  /\ ShownOnce
  /\ log.pc = "walking" /\ log.cursor = None => Shown = {}
  /\ log.pc = "walking" /\ log.cursor # None =>
       /\ Written(log.cursor)
       /\ \A s \in Shown : s = log.cursor \/ Newer(s, log.cursor)
       /\ \A r \in log.base : Stored(r) /\ r \notin Shown
            => Stored(log.cursor) /\ Newer(log.cursor, r)
  /\ SecurityLogIsComplete

\* The rows before r in the list.
Before(r) == {q \in Listed : Newer(q, r)}
Ahead(r) == Cardinality(Before(r))

\* Rows there from the beginning that have not been on a page yet.
Unseen == {r \in list.base : Stored(r) /\ r \notin list.seen}

ListInv ==
  /\ \A r \in list.base : Written(r) /\ r \in Matching
  /\ list.pc # "walking" => list.got = {}
  /\ list.pc = "idle" => list.page = 1
  /\ list.pc = "walking" => \A r \in Unseen :
       /\ Ahead(r) >= (list.page - 1) * Limit
       /\ "rows" \in list.got => Ahead(r) >= list.page * Limit
       /\ list.got = {"rows", "total"} /\ ~list.stale => list.page * Limit < list.total
  /\ list.got = {"total"} /\ ~list.stale => \A r \in Listed : Ahead(r) < list.total
  /\ ListIsComplete

IInv == TypeOK /\ LogInv /\ ListInv

-----------------------------------------------------------------------------
(* The order, and counting along it *)

Rows == [state : RecordState, at : 0 .. MaxTime]

LEMMA Order ==
  ASSUME TypeOK
  PROVE  /\ \A q, r \in Record : q = r \/ Newer(q, r) \/ Newer(r, q)
         /\ \A q, r \in Record : ~(Newer(q, r) /\ Newer(r, q))
         /\ \A r \in Record : ~Newer(r, r)
         /\ \A p, q, r \in Record : Newer(p, q) /\ Newer(q, r) => Newer(p, r)
<1>1. \A r \in Record : r \in Nat /\ At(r) \in Nat
  BY TrailAssumption DEF TypeOK, At
<1>2. QED
  BY <1>1 DEF Newer

LEMMA Counts ==
  ASSUME NEW S \in SUBSET Record, NEW T \in SUBSET S
  PROVE  /\ IsFiniteSet(S) /\ IsFiniteSet(T)
         /\ Cardinality(S) \in Nat /\ Cardinality(T) \in Nat
         /\ Cardinality(T) <= Cardinality(S)
         /\ T # S => Cardinality(T) < Cardinality(S)
<1>1. IsFiniteSet(S)
  BY TrailAssumption, FS_Subset
<1>2. IsFiniteSet(T) /\ Cardinality(T) <= Cardinality(S)
      /\ (Cardinality(S) = Cardinality(T) => S = T)
  BY <1>1, FS_Subset
<1>3. Cardinality(S) \in Nat /\ Cardinality(T) \in Nat
  BY <1>1, <1>2, FS_CardinalityType
<1>4. QED
  BY <1>1, <1>2, <1>3

\* A row is behind fewer rows than there are.
LEMMA AheadOfAll ==
  ASSUME TypeOK, NEW r \in Listed
  PROVE  Ahead(r) \in Nat /\ Cardinality(Listed) \in Nat /\ Ahead(r) < Cardinality(Listed)
<1>1. Listed \in SUBSET Record /\ r \in Record
  BY DEF Listed
<1>2. Before(r) \in SUBSET Listed /\ r \notin Before(r)
  BY <1>1, Order DEF Before
<1>3. QED
  BY <1>1, <1>2, Counts DEF Ahead

\* A listed row is among the first k + n, if it is not behind them all.
LEMMA OnThePage ==
  ASSUME TypeOK, NEW k \in Nat, NEW n \in Nat, NEW before, NEW rows,
         First(before, Listed, k), First(rows, Listed \ before, n),
         NEW r \in Listed, Ahead(r) >= k, r \notin rows
  PROVE  Ahead(r) >= k + n
<1>1. /\ Listed \in SUBSET Record /\ r \in Record
      /\ before \in SUBSET Listed /\ rows \in SUBSET Listed /\ before \cap rows = {}
  BY DEF Listed, First
<1>2. r \notin before
  <2> SUFFICES ASSUME r \in before PROVE FALSE
    OBVIOUS
  <2>1. Before(r) \subseteq before
    BY <1>1, Order DEF Before, First
  <2>2. r \notin Before(r)
    BY <1>1, Order DEF Before
  <2>3. Before(r) # before
    BY <2>2
  <2>4. Cardinality(Before(r)) < Cardinality(before) /\ Cardinality(before) \in Nat
        /\ Cardinality(Before(r)) \in Nat
    BY <1>1, <2>1, <2>3, Counts
  <2>5. Cardinality(before) <= k
    BY <2>4 DEF First
  <2>6. QED
    BY <2>4, <2>5 DEF Ahead
<1>3. before \cup rows \subseteq Before(r)
  BY <1>1, <1>2 DEF Before, First
<1>4. Cardinality(before) = k /\ Cardinality(rows) = n
  BY <1>2 DEF First
<1>5. IsFiniteSet(before) /\ IsFiniteSet(rows) /\ Before(r) \in SUBSET Record
  BY <1>1, Counts DEF Before
<1>6. Cardinality(before \cup rows) = k + n
  BY <1>1, <1>4, <1>5, FS_Union, FS_EmptySet
<1>7. Cardinality(before \cup rows) <= Cardinality(Before(r)) /\ Cardinality(Before(r)) \in Nat
  BY <1>3, <1>5, Counts
<1>8. QED
  BY <1>6, <1>7 DEF Ahead

-----------------------------------------------------------------------------
(* Walks while rows change *)

LEMMA LogKept ==
  ASSUME IInv, Orderly, UNCHANGED log
  PROVE  LogInv'
<1>1. /\ log.base \subseteq Record /\ log.earlier \subseteq Record
      /\ log.page \subseteq Record /\ log.cursor \in Record \cup {None}
      /\ Shown' = Shown /\ Shown \subseteq Record
  BY DEF IInv, TypeOK, Shown
<1>2. \A q, r \in Record : Written(q) /\ Written(r) => (Newer(q, r)' <=> Newer(q, r))
  BY DEF Orderly, Newer
<1>3. \A r \in log.base : Written(r)' /\ (Stored(r)' => Stored(r))
  BY <1>1 DEF IInv, LogInv, Orderly
<1>4. \A r \in Shown : Written(r)'
  BY <1>1 DEF IInv, LogInv, Orderly
<1>5. SecurityLogIsComplete'
  BY <1>1, <1>3 DEF IInv, LogInv, SecurityLogIsComplete
<1>6. ASSUME log.pc = "walking", log.cursor # None
      PROVE  /\ Written(log.cursor)'
             /\ \A s \in Shown : s = log.cursor \/ Newer(s, log.cursor)'
             /\ \A r \in log.base : Stored(r)' /\ r \notin Shown
                  => Stored(log.cursor)' /\ Newer(log.cursor, r)'
  <2>1. log.cursor \in Record /\ Written(log.cursor)
    BY <1>1, <1>6 DEF IInv, LogInv
  <2>2. Written(log.cursor)'
    BY <2>1 DEF Orderly
  <2>3. \A s \in Shown : s = log.cursor \/ Newer(s, log.cursor)'
    BY <1>1, <1>2, <1>6, <2>1 DEF IInv, LogInv
  <2>4. ASSUME NEW r \in log.base, Stored(r)', r \notin Shown
        PROVE  Stored(log.cursor)' /\ Newer(log.cursor, r)'
    <3>1. r \in Record /\ Written(r) /\ Stored(r)
      BY <1>1, <1>3, <2>4 DEF IInv, LogInv
    <3>2. Stored(log.cursor) /\ Newer(log.cursor, r)
      BY <1>6, <2>4, <3>1 DEF IInv, LogInv
    <3>3. QED
      BY <1>2, <2>1, <2>4, <3>1, <3>2 DEF Orderly
  <2>5. QED
    BY <2>2, <2>3, <2>4
<1>7. QED
  BY <1>1, <1>3, <1>4, <1>5, <1>6 DEF IInv, LogInv, ShownOnce

\* Rows that are committed only put others further behind; those that are deleted
\* were behind.
LEMMA AheadKept ==
  ASSUME IInv, Orderly, NEW r \in Listed, Stored(r)'
  PROVE  /\ Ahead(r) \in Nat /\ Ahead(r)' \in Nat /\ Ahead(r) <= Ahead(r)'
         /\ Listed' \subseteq Listed => Ahead(r)' = Ahead(r)
<1>1. Listed \subseteq Record /\ r \in Record /\ Listed' \subseteq Record
  BY DEF Listed
<1>2. \A q \in Listed : Newer(q, r) => q \in Listed' /\ Newer(q, r)'
  BY <1>1 DEF Listed, Orderly, Written, Stored, Newer
<1>3. Before(r) \subseteq Before(r)' /\ Before(r)' \in SUBSET Record
  BY <1>1, <1>2 DEF Before
<1>4. ASSUME Listed' \subseteq Listed PROVE Before(r)' = Before(r)
  <2>1. \A q \in Listed' : Newer(q, r)' => Newer(q, r)
    BY <1>1, <1>4 DEF Listed, Orderly, Written, Stored, Newer
  <2>2. QED
    BY <1>3, <1>4, <2>1 DEF Before
<1>5. QED
  BY <1>3, <1>4, Counts DEF Ahead

LEMMA ListKept ==
  ASSUME IInv, TypeOK', Orderly, NEW b \in BOOLEAN, list' = [list EXCEPT !.stale = b],
         list.stale => b,
         list.got = {"total"} /\ ~b => Listed' \subseteq Listed,
         list.got # {"total"} => b = list.stale
  PROVE  ListInv'
<1>1. /\ list.base \subseteq Record /\ list'.base = list.base /\ list'.pc = list.pc
      /\ list'.page = list.page /\ list'.got = list.got /\ list'.total = list.total
      /\ list'.seen = list.seen /\ list'.stale = b /\ list.page \in Nat \ {0}
      /\ list.total \in Nat /\ Limit \in Nat /\ list.stale \in BOOLEAN
  BY TrailAssumption DEF IInv, TypeOK
<1>2. \A r \in list.base : Written(r)' /\ (Stored(r)' => Stored(r)) /\ r \in Matching
  BY <1>1 DEF IInv, ListInv, Orderly
<1>3. Unseen' \subseteq Unseen /\ Unseen \subseteq Listed
  BY <1>1, <1>2 DEF Unseen, Listed
<1>4. \A r \in Unseen' : Stored(r)'
  BY DEF Unseen
<1>5. \A r \in Unseen' : /\ Ahead(r) \in Nat /\ Ahead(r)' \in Nat /\ Ahead(r) <= Ahead(r)'
  BY <1>3, <1>4, AheadKept
<1>6. ASSUME list.pc = "walking", NEW r \in Unseen'
      PROVE  /\ Ahead(r)' >= (list.page - 1) * Limit
             /\ "rows" \in list.got => Ahead(r)' >= list.page * Limit
             /\ list.got = {"rows", "total"} /\ ~b => list.page * Limit < list.total
  <2>1. list.page * Limit \in Nat /\ (list.page - 1) * Limit \in Nat
    BY <1>1
  <2>2. QED
    BY <1>1, <1>3, <1>5, <1>6, <2>1 DEF IInv, ListInv
<1>7. ASSUME list.got = {"total"}, ~b, NEW r \in Listed'
      PROVE  Ahead(r)' < list.total
  <2>1. r \in Listed /\ Stored(r)' /\ Listed' \subseteq Listed
    BY <1>7 DEF Listed
  <2>2. QED
    BY <1>7, <2>1, AheadKept DEF IInv, ListInv
<1>8. ListIsComplete'
  <2>1. list.pc = "done" => b = list.stale
    BY DEF IInv, ListInv
  <2>2. QED
    BY <1>1, <1>2, <2>1 DEF IInv, ListInv, ListIsComplete
<1>9. QED
  BY <1>1, <1>2, <1>6, <1>7, <1>8 DEF IInv, ListInv

\* A step that no walk takes, and that commits nothing.
LEMMA WalksKept ==
  ASSUME IInv, TypeOK', Orderly, UNCHANGED <<log, list>>, Listed' \subseteq Listed
  PROVE  LogInv' /\ ListInv'
<1> DEFINE b == list.stale
<1>1. b \in BOOLEAN /\ list' = [list EXCEPT !.stale = b]
  BY DEF IInv, TypeOK
<1>2. QED
  BY <1>1, LogKept, ListKept

-----------------------------------------------------------------------------
(* The trail *)

\* A step that sets one row that was not written yet.
LEMMA RowSet ==
  ASSUME IInv, NEW r \in Record, NEW new \in Rows, row' = [row EXCEPT ![r] = new],
         ~Written(r),
         new.state = "stored" => row[r].state = "open" /\ new.at = At(r),
         UNCHANGED <<clock, purge, log>>
  PROVE  /\ Orderly
         /\ row' \in [Record -> Rows] /\ row'[r] = new
         /\ \A q \in Record \ {r} : row'[q] = row[q]
         /\ new.state # "stored" => Listed' \subseteq Listed
<1>1. row \in [Record -> Rows]
  BY DEF IInv, TypeOK, Rows
<1>2. /\ row' \in [Record -> Rows] /\ row'[r] = new
      /\ \A q \in Record \ {r} : row'[q] = row[q]
  BY <1>1
<1>3. Orderly
  BY <1>2 DEF Orderly, Written, At, Stored, Newer
<1>4. ASSUME new.state # "stored" PROVE Listed' \subseteq Listed
  BY <1>2, <1>4 DEF Listed, Stored
<1>5. QED
  BY <1>2, <1>3, <1>4

LEMMA InsertKeeps ==
  ASSUME IInv, NEW r \in Record, Insert(r)
  PROVE  IInv'
<1> DEFINE new == Row("open", clock)
<1>1. new \in Rows /\ new.state = "open"
  BY DEF Row, Rows, RecordState, IInv, TypeOK
<1>2. row' = [row EXCEPT ![r] = new] /\ ~Written(r)
  BY DEF Insert, Written
<1> HIDE DEF new
<1>3. Orderly /\ row' \in [Record -> Rows] /\ Listed' \subseteq Listed
  BY <1>1, <1>2, RowSet DEF Insert, IInv, TypeOK
<1>4. TypeOK'
  BY <1>3 DEF Insert, IInv, TypeOK, Rows
<1>5. QED
  BY <1>3, <1>4, WalksKept DEF Insert, IInv

LEMMA AbortKeeps ==
  ASSUME IInv, NEW r \in Record, Abort(r)
  PROVE  IInv'
<1> DEFINE new == Row("none", 0)
<1>1. new \in Rows /\ new.state = "none"
  BY TrailAssumption DEF Row, Rows, RecordState
<1>2. row' = [row EXCEPT ![r] = new] /\ ~Written(r)
  BY DEF Abort, Written
<1> HIDE DEF new
<1>3. Orderly /\ row' \in [Record -> Rows] /\ Listed' \subseteq Listed
  BY <1>1, <1>2, RowSet DEF Abort, IInv, TypeOK
<1>4. TypeOK'
  BY <1>3 DEF Abort, IInv, TypeOK, Rows
<1>5. QED
  BY <1>3, <1>4, WalksKept DEF Abort, IInv

\* What is committed comes before none of the rows a page has still to count.
LEMMA CommitKeeps ==
  ASSUME IInv, NEW r \in Record, Commit(r)
  PROVE  IInv'
<1> DEFINE new == [row[r] EXCEPT !.state = "stored"]
           b == list.stale \/ list.got = {"total"}
<1>1. row[r] \in Rows /\ row[r].state = "open"
  BY DEF Commit, IInv, TypeOK, Rows
<1>2. new \in Rows /\ new.state = "stored" /\ new.at = At(r)
  BY <1>1 DEF Rows, RecordState, At
<1>3. row' = [row EXCEPT ![r] = new] /\ ~Written(r)
  BY <1>1 DEF Commit, Written
<1> HIDE DEF new
<1>5. /\ Orderly /\ row' \in [Record -> Rows] /\ row'[r] = new
      /\ \A q \in Record \ {r} : row'[q] = row[q]
  BY <1>1, <1>2, <1>3, RowSet DEF Commit
<1>7. b \in BOOLEAN /\ list' = [list EXCEPT !.stale = b]
  BY DEF Commit, IInv, TypeOK
<1>8. TypeOK'
  BY <1>5, <1>7 DEF Commit, IInv, TypeOK, Rows
<1>9. ListInv'
  <2>1. list.stale => b
    OBVIOUS
  <2>2. list.got = {"total"} => b
    OBVIOUS
  <2>3. list.got # {"total"} => b = list.stale
    BY DEF IInv, TypeOK
  <2> HIDE DEF b
  <2>4. QED
    BY <1>5, <1>7, <1>8, <2>1, <2>2, <2>3, ListKept
<1>10. LogInv'
  BY <1>5, LogKept DEF Commit
<1>11. QED
  BY <1>8, <1>9, <1>10 DEF IInv

\* Time passes, or the retention job reads the clock or fails.
LEMMA RowsUntouched ==
  ASSUME IInv, TypeOK', UNCHANGED <<row, log, list>>
  PROVE  IInv'
<1>1. Orderly /\ Listed' \subseteq Listed
  BY DEF Orderly, Listed, Written, Stored, At, Newer
<1>2. QED
  BY <1>1, WalksKept DEF IInv

LEMMA ClockKeeps ==
  ASSUME IInv, Tick \/ TakeThreshold \/ RemoveFails
  PROVE  IInv'
<1>1. UNCHANGED <<row, log, list>>
  BY DEF Tick, TakeThreshold, RemoveFails
<1>2. clock' \in 0 .. MaxTime /\ purge' \in (0 .. MaxTime) \cup {None}
  BY TrailAssumption DEF IInv, TypeOK, Tick, TakeThreshold, RemoveFails
<1>3. TypeOK'
  BY <1>1, <1>2 DEF IInv, TypeOK
<1>4. QED
  BY <1>1, <1>3, RowsUntouched

\* Of two rows the older one is never left without the newer one.
LEMMA RemoveExpiredKeeps ==
  ASSUME IInv, RemoveExpired
  PROVE  IInv'
<1>1. row \in [Record -> Rows] /\ purge \in Nat /\ Retention \in Nat
  BY TrailAssumption DEF RemoveExpired, IInv, TypeOK, Rows
<1>2. \A r \in Record :
        row'[r] = IF Stored(r) /\ Expired(r) THEN [row[r] EXCEPT !.state = "deleted"]
                                              ELSE row[r]
  BY DEF RemoveExpired
<1>3. \A r \in Record :
        /\ row'[r] \in Rows /\ row'[r].at = row[r].at
        /\ row'[r].state = IF Stored(r) /\ Expired(r) THEN "deleted" ELSE row[r].state
  BY <1>1, <1>2 DEF Rows, RecordState
<1>4. TypeOK'
  BY <1>3 DEF RemoveExpired, IInv, TypeOK, Rows
<1>5. \A q, r \in Record : Newer(q, r) /\ Expired(q) => Expired(r)
  BY <1>1 DEF Newer, Expired, At, Rows
<1>6. Orderly
  BY <1>3, <1>5 DEF Orderly, Written, Stored, At, Newer
<1>7. Listed' \subseteq Listed
  BY <1>3 DEF Listed, Stored
<1>9. QED
  BY <1>4, <1>6, <1>7, WalksKept DEF RemoveExpired, IInv

-----------------------------------------------------------------------------
(* The security log *)

\* What a walk leaves alone.
LEMMA ListUntouched ==
  ASSUME IInv, UNCHANGED <<trail, list>>
  PROVE  ListInv'
  BY DEF IInv, ListInv, trail, Written, Stored, Ahead, Before, Listed, Newer, At, Unseen,
     ListIsComplete

LEMMA LogUntouched ==
  ASSUME IInv, UNCHANGED <<trail, log>>
  PROVE  LogInv'
  BY DEF IInv, LogInv, trail, Written, Stored, Newer, At, Shown, ShownOnce,
     SecurityLogIsComplete

LEMMA OpenLogKeeps ==
  ASSUME IInv, OpenLog
  PROVE  IInv'
<1>1. UNCHANGED <<trail, list>> /\ log' = [log EXCEPT !.pc = "walking", !.base = Mine]
      /\ log.pc = "idle" /\ Mine \subseteq Record
  BY DEF OpenLog, Alone, Mine
<1>2. /\ log'.pc = "walking" /\ log'.base = Mine /\ log'.cursor = None
      /\ log'.earlier = {} /\ log'.page = {}
  BY <1>1 DEF IInv, TypeOK, LogInv, Shown
<1>3. TypeOK'
  BY <1>1 DEF IInv, TypeOK, trail
<1>4. LogInv'
  BY <1>1, <1>2
  DEF LogInv, Shown, ShownOnce, SecurityLogIsComplete, Mine, Written, Stored, trail
<1>5. QED
  BY <1>1, <1>3, <1>4, ListUntouched DEF IInv

\* What is behind the cursor has not been shown, and what is left of the rows the
\* walk began with is behind the cursor.
LEMMA BehindTheCursor ==
  ASSUME IInv, log.pc = "walking"
  PROVE  /\ From(log.cursor) \subseteq Mine /\ Mine \subseteq Record
         /\ Shown \subseteq Record
         /\ Shown \cap From(log.cursor) = {}
         /\ \A r \in log.base : Stored(r) /\ r \notin Shown => r \in From(log.cursor)
         /\ \A s \in Shown, r \in From(log.cursor) : Newer(s, r)
<1>1. /\ From(log.cursor) \subseteq Mine /\ Mine \subseteq Record /\ Shown \subseteq Record
      /\ log.base \subseteq Record /\ log.cursor \in Record \cup {None}
  BY DEF From, Mine, Shown, IInv, TypeOK
<1>2. \A r \in log.base : Stored(r) => r \in Mine
  BY <1>1 DEF IInv, LogInv, Mine
<1>3. CASE log.cursor = None
  BY <1>1, <1>2, <1>3 DEF IInv, LogInv, From
<1>4. CASE log.cursor # None
  <2>1. log.cursor \in Record
    BY <1>1, <1>4
  <2>2. \A r \in From(log.cursor) : Newer(log.cursor, r)
    BY <1>4 DEF From
  <2>3. \A s \in Shown : s = log.cursor \/ Newer(s, log.cursor)
    BY <1>4 DEF IInv, LogInv
  <2>4. \A s \in Shown, r \in From(log.cursor) : Newer(s, r)
    BY <1>1, <2>1, <2>2, <2>3, Order DEF IInv
  <2>5. Shown \cap From(log.cursor) = {}
    BY <1>1, <2>4, Order DEF IInv
  <2>6. \A r \in log.base : Stored(r) /\ r \notin Shown => r \in From(log.cursor)
    BY <1>2, <1>4 DEF IInv, LogInv, From
  <2>7. QED
    BY <1>1, <2>4, <2>5, <2>6
<1>5. QED
  BY <1>3, <1>4

LEMMA ReadLogKeeps ==
  ASSUME IInv, ReadLog
  PROVE  IInv'
<1> DEFINE S == From(log.cursor)
<1>1. log.pc = "walking" /\ UNCHANGED <<trail, list>>
  BY DEF ReadLog
<1>2. PICK rows \in SUBSET S :
        /\ First(rows, S, Limit + 1)
        /\ LET next == [log EXCEPT !.earlier = log.earlier \cup log.page]
           IN \/ /\ Cardinality(rows) <= Limit
                 /\ log' = [next EXCEPT !.pc = "done", !.page = rows]
              \/ /\ Cardinality(rows) > Limit
                 /\ \E data \in SUBSET rows, c \in rows :
                      /\ First(data, rows, Limit) /\ NextCursor(c, data, rows)
                      /\ log' = [next EXCEPT !.page = data, !.cursor = c]
  BY DEF ReadLog
<1>3. /\ S \subseteq Record /\ Shown \subseteq Record /\ Shown \cap S = {}
      /\ \A r \in log.base : Stored(r) /\ r \notin Shown => r \in S
      /\ \A s \in Shown, r \in S : Newer(s, r)
      /\ \A r \in S : Stored(r)
  BY <1>1, BehindTheCursor DEF Mine
<1> HIDE DEF S
<1>4. /\ log \in [pc : {"idle", "walking", "done"}, cursor : Record \cup {None},
                  base : SUBSET Record, earlier : SUBSET Record, page : SUBSET Record]
      /\ \A r \in log.base : Written(r) /\ Subject[r] = Me
      /\ \A r \in Shown : Written(r)
  BY DEF IInv, TypeOK, LogInv
<1>5. \A r \in Record : /\ Written(r)' = Written(r) /\ Stored(r)' = Stored(r)
                        /\ At(r)' = At(r)
  BY <1>1 DEF trail, Written, Stored, At
<1>6. CASE Cardinality(rows) <= Limit
               /\ log' = [[log EXCEPT !.earlier = log.earlier \cup log.page]
                           EXCEPT !.pc = "done", !.page = rows]
  <2>1. /\ log'.pc = "done" /\ log'.earlier = Shown /\ log'.page = rows
        /\ log'.base = log.base /\ log'.cursor = log.cursor
    BY <1>4, <1>6 DEF Shown
  <2>2. rows = S
    <3>1. Cardinality(rows) \in Nat
      BY <1>3, Counts
    <3>2. Cardinality(rows) # Limit + 1
      BY <1>6, <3>1, TrailAssumption
    <3>3. QED
      BY <1>2, <3>2 DEF First
  <2>3. TypeOK'
    <3>1. log' \in [pc : {"idle", "walking", "done"}, cursor : Record \cup {None},
                  base : SUBSET Record, earlier : SUBSET Record, page : SUBSET Record]
      BY <1>3, <1>4, <1>6, <2>2 DEF Shown
    <3>2. QED
      BY <1>1, <3>1 DEF IInv, TypeOK, trail
  <2>4. LogInv'
    BY <1>3, <1>4, <1>5, <2>1, <2>2 DEF LogInv, Shown, ShownOnce, SecurityLogIsComplete,
       Written, Stored
  <2>5. QED
    BY <1>1, <2>3, <2>4, ListUntouched DEF IInv
<1>7. ASSUME Cardinality(rows) > Limit, NEW data \in SUBSET rows, NEW c \in rows,
             First(data, rows, Limit), NextCursor(c, data, rows),
             log' = [[log EXCEPT !.earlier = log.earlier \cup log.page]
                       EXCEPT !.page = data, !.cursor = c]
      PROVE  IInv'
  <2>1. /\ log'.pc = "walking" /\ log'.earlier = Shown /\ log'.page = data
        /\ log'.base = log.base /\ log'.cursor = c
    BY <1>1, <1>4, <1>7 DEF Shown
  <2>2. /\ rows \subseteq S /\ c \in data /\ c \in Record /\ c # None /\ Stored(c)
        /\ \A t \in data \ {c} : Newer(t, c)
    BY <1>2, <1>3, <1>7, TrailAssumption DEF NextCursor, Oldest
  <2>3. TypeOK'
    <3>1. log' \in [pc : {"idle", "walking", "done"}, cursor : Record \cup {None},
                  base : SUBSET Record, earlier : SUBSET Record, page : SUBSET Record]
      BY <1>3, <1>4, <1>7, <2>2 DEF Shown
    <3>2. QED
      BY <1>1, <3>1 DEF IInv, TypeOK, trail
  <2>4. \A s \in Shown \cup data : s = c \/ Newer(s, c)
    BY <1>3, <2>2
  <2>5. \A r \in log.base : Stored(r) /\ r \notin Shown \cup data => Newer(c, r)
    <3> SUFFICES ASSUME NEW r \in log.base, Stored(r), r \notin Shown \cup data
                 PROVE  Newer(c, r)
      OBVIOUS
    <3>1. r \in S
      BY <1>3
    <3>2. CASE r \in rows
      BY <1>7, <2>2, <3>2 DEF First
    <3>3. CASE r \notin rows
      BY <1>2, <2>2, <3>1, <3>3 DEF First
    <3>4. QED
      BY <3>2, <3>3
  <2>6. \A q, r \in Record : Newer(q, r)' = Newer(q, r)
    BY <1>5 DEF Newer
  <2>7. /\ Shown' = Shown \cup data /\ data \subseteq Record /\ log.base \subseteq Record
        /\ Shown \cap data = {}
    BY <1>3, <1>4, <2>1, <2>2 DEF Shown
  <2>8. \A r \in Shown' : Written(r)'
    BY <1>3, <1>4, <1>5, <2>2, <2>7 DEF Written, Stored
  <2>9. /\ Written(c)'
        /\ \A s \in Shown' : s = c \/ Newer(s, c)'
        /\ \A r \in log.base : Stored(r)' /\ r \notin Shown' => Stored(c)' /\ Newer(c, r)'
    BY <1>3, <1>5, <2>2, <2>4, <2>5, <2>6, <2>7 DEF Written, Stored
  <2>10. LogInv'
    BY <1>4, <1>5, <2>1, <2>2, <2>7, <2>8, <2>9
    DEF LogInv, ShownOnce, SecurityLogIsComplete
  <2>11. QED
    BY <1>1, <2>3, <2>10, ListUntouched DEF IInv
<1>8. QED
  BY <1>2, <1>6, <1>7

-----------------------------------------------------------------------------
(* The list *)

ListType ==
  list \in [pc : {"idle", "walking", "done"}, page : Nat \ {0},
            got : SUBSET {"rows", "total"}, total : 0 .. Cardinality(Record),
            base : SUBSET Record, seen : SUBSET Record, stale : BOOLEAN]

\* Nothing of the trail changes under a step of the walk, nor what is ahead of a row.
LEMMA ListStep ==
  ASSUME IInv, UNCHANGED <<trail, log>>, ListType', ListInv',
         list'.page = 1 \/ (list'.page - 1) * Limit < Cardinality(Record)
  PROVE  IInv'
<1>1. TypeOK'
  BY DEF IInv, TypeOK, ListType, trail
<1>2. QED
  BY <1>1, LogUntouched DEF IInv

LEMMA SameRows ==
  ASSUME UNCHANGED trail
  PROVE  /\ Listed' = Listed
         /\ \A r : Written(r)' = Written(r) /\ Stored(r)' = Stored(r) /\ Ahead(r)' = Ahead(r)
  BY DEF trail, Listed, Written, Stored, Ahead, Before, Newer, At

LEMMA OpenListKeeps ==
  ASSUME IInv, OpenList
  PROVE  IInv'
<1>1. /\ UNCHANGED <<trail, log>> /\ list.pc = "idle" /\ Listed \subseteq Record
      /\ list' = [list EXCEPT !.pc = "walking", !.base = Listed]
  BY DEF OpenList, Alone, Listed
<1>2. ListType
  BY DEF IInv, TypeOK, ListType
<1>3. ListType'
  BY <1>1, <1>2 DEF ListType
<1>4. /\ list'.pc = "walking" /\ list'.base = Listed /\ list'.page = 1 /\ list'.got = {}
  BY <1>1, <1>2 DEF ListType, IInv, ListInv
<1>5. \A r \in Unseen' : Ahead(r)' \in Nat /\ (list'.page - 1) * Limit = 0
  <2>1. \A r \in Unseen' : r \in Listed
    BY <1>4 DEF Unseen
  <2>2. Limit \in Nat
    BY TrailAssumption
  <2>3. QED
    BY <1>1, <1>4, <2>1, <2>2, AheadOfAll, SameRows DEF IInv
<1>6. ListInv'
  BY <1>1, <1>4, <1>5, SameRows DEF ListInv, Listed, Written, Stored, ListIsComplete
<1>7. QED
  BY <1>1, <1>3, <1>4, <1>6, ListStep

LEMMA ReadRowsKeeps ==
  ASSUME IInv, ReadRows
  PROVE  IInv'
<1>1. /\ UNCHANGED <<trail, log>> /\ list.pc = "walking" /\ "rows" \notin list.got
      /\ ListType
  BY DEF ReadRows, IInv, TypeOK, ListType
<1>2. PICK before \in SUBSET Listed, rows \in SUBSET Listed :
        /\ First(before, Listed, (list.page - 1) * Limit)
        /\ First(rows, Listed \ before, Limit)
        /\ list' = [list EXCEPT !.got = @ \cup {"rows"}, !.seen = @ \cup rows]
  BY DEF ReadRows
<1>3. rows \subseteq Record
  BY DEF Listed
<1>4. ListType'
  BY <1>1, <1>2, <1>3 DEF ListType
<1>5. /\ list'.pc = "walking" /\ list'.page = list.page /\ list'.base = list.base
      /\ list'.got = list.got \cup {"rows"} /\ list'.seen = list.seen \cup rows
      /\ list'.total = list.total /\ list'.stale = list.stale
  BY <1>1, <1>2 DEF ListType
<1> DEFINE k == (list.page - 1) * Limit
<1>6. /\ k \in Nat /\ Limit \in Nat /\ list.page * Limit = k + Limit
      /\ list.total \in Nat /\ list.page \in Nat
  BY <1>1, TrailAssumption DEF ListType
<1> HIDE DEF k
<1>7. ASSUME NEW r \in Unseen'
      PROVE  /\ Ahead(r)' >= list.page * Limit /\ Ahead(r)' >= k
             /\ list'.got = {"rows", "total"} /\ ~list.stale
                  => list.page * Limit < list.total
  <2>1. r \in Unseen /\ r \in Listed /\ r \notin rows
    BY <1>1, <1>5, SameRows DEF Unseen, Listed, IInv, ListInv, ListType
  <2>2. Ahead(r) >= k /\ Ahead(r) \in Nat
    BY <1>1, <2>1, AheadOfAll DEF IInv, ListInv, k
  <2>3. First(before, Listed, k)
    BY <1>2 DEF k
  <2>4. Ahead(r) >= k + Limit
    BY <1>2, <1>6, <2>1, <2>2, <2>3, OnThePage DEF IInv
  <2>5. list'.got = {"rows", "total"} /\ ~list.stale => Ahead(r) < list.total
    BY <1>1, <1>5, <2>1 DEF IInv, ListInv, ListType
  <2>6. QED
    BY <1>1, <1>6, <2>2, <2>4, <2>5, SameRows
<1>8. ListInv'
  BY <1>1, <1>5, <1>7, SameRows DEF ListInv, IInv, ListIsComplete, k
<1>9. QED
  BY <1>1, <1>4, <1>5, <1>8, ListStep DEF IInv, TypeOK

LEMMA CountRowsKeeps ==
  ASSUME IInv, CountRows
  PROVE  IInv'
<1>1. /\ UNCHANGED <<trail, log>> /\ list.pc = "walking" /\ "total" \notin list.got
      /\ ListType /\ Listed \in SUBSET Record
      /\ list' = [list EXCEPT !.got = @ \cup {"total"}, !.total = Cardinality(Listed)]
  BY DEF CountRows, IInv, TypeOK, ListType, Listed
<1>2. Cardinality(Listed) \in 0 .. Cardinality(Record)
  BY <1>1, Counts
<1>3. ListType'
  BY <1>1, <1>2 DEF ListType
<1>4. /\ list'.pc = "walking" /\ list'.page = list.page /\ list'.base = list.base
      /\ list'.got = list.got \cup {"total"} /\ list'.seen = list.seen
      /\ list'.total = Cardinality(Listed) /\ list'.stale = list.stale
  BY <1>1 DEF ListType
<1>5. list.page * Limit \in Nat
  BY <1>1, TrailAssumption DEF ListType
<1>6. Unseen' = Unseen /\ Unseen \subseteq Listed
  BY <1>1, <1>4, SameRows DEF Unseen, IInv, ListInv, Listed, ListType
<1>7. \A r \in Listed : Ahead(r) \in Nat /\ Ahead(r) < Cardinality(Listed)
  BY AheadOfAll DEF IInv
<1>8. \A r \in Unseen' :
        /\ Ahead(r)' >= (list.page - 1) * Limit
        /\ "rows" \in list'.got => Ahead(r)' >= list.page * Limit
        /\ list'.got = {"rows", "total"} => list.page * Limit < list'.total
  <2> SUFFICES ASSUME NEW r \in Unseen
               PROVE  /\ Ahead(r) >= (list.page - 1) * Limit
                      /\ "rows" \in list.got => Ahead(r) >= list.page * Limit
                      /\ "rows" \in list.got => list.page * Limit < list'.total
    BY <1>1, <1>4, <1>6, SameRows
  <2>1. /\ Ahead(r) >= (list.page - 1) * Limit
        /\ "rows" \in list.got => Ahead(r) >= list.page * Limit
    BY <1>1 DEF IInv, ListInv
  <2>2. Ahead(r) \in Nat /\ Ahead(r) < list'.total /\ list'.total \in Nat
    BY <1>2, <1>4, <1>6, <1>7
  <2>3. QED
    BY <1>5, <2>1, <2>2
<1>9. ListInv'
  BY <1>1, <1>4, <1>7, <1>8, SameRows DEF ListInv, IInv, ListIsComplete
<1>10. QED
  BY <1>1, <1>3, <1>4, <1>9, ListStep DEF IInv, TypeOK

\* The page after one that had more behind it, or the end.
LEMMA AnswerKeeps ==
  ASSUME IInv, Answer
  PROVE  IInv'
<1>1. /\ UNCHANGED <<trail, log>> /\ list.got = {"rows", "total"} /\ list.pc = "walking"
      /\ ListType
  BY DEF Answer, IInv, TypeOK, ListType, ListInv
<1>2. /\ list.page \in Nat /\ Limit \in Nat /\ list.page * Limit \in Nat
      /\ list.total \in Nat /\ list.total <= Cardinality(Record)
      /\ Cardinality(Record) \in Nat
      /\ (list.page + 1) - 1 = list.page
  BY <1>1, TrailAssumption, FS_CardinalityType DEF ListType
<1>3. CASE HasMore(list.page, list.total)
  <2>1. list' = [list EXCEPT !.page = @ + 1, !.got = {}, !.total = 0, !.stale = FALSE]
    BY <1>3 DEF Answer
  <2>2. /\ list'.pc = "walking" /\ list'.page = list.page + 1 /\ list'.base = list.base
        /\ list'.got = {} /\ list'.seen = list.seen
    BY <1>1, <2>1 DEF ListType
  <2>3. ListType'
    <3>1. list.page + 1 \in Nat \ {0} /\ 0 \in 0 .. Cardinality(Record)
      BY <1>2
    <3>2. Record' = Record /\ Cardinality(Record)' = Cardinality(Record)
      OBVIOUS
    <3>3. QED
      BY <1>1, <2>1, <3>1, <3>2 DEF ListType
  <2>4. (list'.page - 1) * Limit < Cardinality(Record)
    BY <1>2, <1>3, <2>2 DEF HasMore
  <2>5. Unseen' = Unseen
    BY <1>1, <2>2, SameRows DEF Unseen
  <2>6. \A r \in Unseen : Ahead(r) >= (list'.page - 1) * Limit
    BY <1>1, <1>2, <2>2 DEF IInv, ListInv
  <2>7. ListInv'
    BY <1>1, <2>2, <2>5, <2>6, SameRows DEF ListInv, IInv, ListIsComplete
  <2>8. QED
    BY <1>1, <2>3, <2>4, <2>7, ListStep
<1>4. CASE ~HasMore(list.page, list.total)
  <2>1. list' = [list EXCEPT !.pc = "done", !.got = {}]
    BY <1>4 DEF Answer
  <2>2. /\ list'.pc = "done" /\ list'.page = list.page /\ list'.base = list.base
        /\ list'.got = {} /\ list'.seen = list.seen /\ list'.stale = list.stale
    BY <1>1, <2>1 DEF ListType
  <2>3. ListType'
    BY <1>1, <2>1 DEF ListType
  <2>4. ~list.stale => Unseen = {}
    BY <1>1, <1>2, <1>4 DEF HasMore, IInv, ListInv
  <2>5. ListIsComplete'
    BY <1>1, <2>2, <2>4, SameRows DEF ListIsComplete, Unseen
  <2>6. ListInv'
    BY <1>1, <2>2, <2>5, SameRows DEF ListInv, IInv
  <2>7. QED
    BY <1>1, <2>2, <2>3, <2>6, ListStep DEF IInv, TypeOK
<1>5. QED
  BY <1>3, <1>4

-----------------------------------------------------------------------------
(* The invariant *)

LEMMA InvInit == Init => IInv
<1> SUFFICES ASSUME Init PROVE IInv
  OBVIOUS
<1>1. Cardinality(Record) \in Nat
  BY TrailAssumption, FS_CardinalityType
<1>2. TypeOK
  BY <1>1, TrailAssumption DEF Init, TypeOK, Row, RecordState
<1>3. LogInv /\ ListInv
  BY DEF Init, LogInv, ListInv, Shown, ShownOnce, SecurityLogIsComplete,
     ListIsComplete, Row, Stored
<1>4. QED
  BY <1>2, <1>3 DEF IInv

LEMMA InvStep == IInv /\ [Next]_vars => IInv'
<1> SUFFICES ASSUME IInv, [Next]_vars PROVE IInv'
  OBVIOUS
<1>1. CASE UNCHANGED vars
  <2>1. TypeOK' /\ UNCHANGED <<trail, log, list>>
    BY <1>1 DEF vars, trail, IInv, TypeOK
  <2>2. QED
    BY <2>1, LogUntouched, ListUntouched DEF IInv
<1>2. CASE Next
  BY <1>2, InsertKeeps, CommitKeeps, AbortKeeps, ClockKeeps, RemoveExpiredKeeps,
     OpenLogKeeps, ReadLogKeeps, OpenListKeeps, ReadRowsKeeps, CountRowsKeeps, AnswerKeeps
  DEF Next
<1>3. QED
  BY <1>1, <1>2

THEOREM Invariance == Spec => []IInv
  BY InvInit, InvStep, PTL DEF Spec

\* Rows and walks keep their shapes, and no walk of the list asks for a page beyond
\* the last row that can be there (pagination.util.ts, buildOffsetPage).
THEOREM TypeCorrect == Spec => []TypeOK
  BY Invariance, PTL DEF IInv

\* No row is on two pages of a walk along the security log, whatever is recorded or
\* deleted between them (audit-log.service.ts, findAllBySubject).
THEOREM LogShowsOnce == Spec => []ShownOnce
<1>1. IInv => ShownOnce
  BY DEF IInv, LogInv
<1>2. QED
  BY <1>1, Invariance, PTL

\* A walk to the end of the security log misses no row that was there all along, for
\* any size of page and wherever the retention job runs (audit-log.service.ts,
\* findAllBySubject and removeExpired).
THEOREM LogMissesNothing == Spec => []SecurityLogIsComplete
<1>1. IInv => SecurityLogIsComplete
  BY DEF IInv, LogInv
<1>2. QED
  BY <1>1, Invariance, PTL

\* A walk of the administrators' list misses a row that was there all along only if a
\* row was committed between the two queries of its last page (audit-log.service.ts,
\* findAll).
THEOREM ListMissesNothing == Spec => []ListIsComplete
<1>1. IInv => ListIsComplete
  BY DEF IInv, ListInv
<1>2. QED
  BY <1>1, Invariance, PTL

=============================================================================
