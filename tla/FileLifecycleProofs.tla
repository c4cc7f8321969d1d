------------------------ MODULE FileLifecycleProofs ------------------------
(***************************************************************************)
(* Safety of FileLifecycle for any number of users, files, objects per     *)
(* file, contents and requests.                                            *)
(*                                                                         *)
(* A request in flight remembers a file it has seen, and other requests go *)
(* on with that file's row and objects meanwhile.  The invariant says what *)
(* of that memory stays true (Sound); it does because a row only advances  *)
(* and an object of a row that is not gone is only replaced by an          *)
(* acceptable one (Advances).  An action is shown to advance the rows and  *)
(* objects, and to leave a sound memory behind itself.                     *)
(***************************************************************************)
EXTENDS FileLifecycle, TLAPS

WorkRecord == [pc : Pc, file : File \cup {None}, user : User \cup {None},
               body : Body \cup {None}, todo : SUBSET Part, scope : Scope]

\* The part of TypeOK that is not about requests in flight.
DataOK ==
  /\ row \in [File -> RowState]
  /\ owner \in [File -> User \cup {None}]
  /\ kind \in [File -> Kind]
  /\ aged \in [File -> BOOLEAN]
  /\ avatar \in [User -> File \cup {None}]
  /\ url \in [File -> BOOLEAN]
  /\ incoming \in [File -> Body \cup {None}]
  /\ final \in [File \X Part -> Body \cup {None}]
  /\ jobs \subseteq File \X Scope
  /\ lost \subseteq File

\* Work w deletes all the objects of a file.
Erasing(w) ==
  \/ w.pc = "missed"
  \/ w.pc \in {"job.prefix", "job.listed"}
  \/ w.pc = "job.started" /\ w.scope = "all"

\* Whoever works on a file works on one that was created.  All the objects of
\* a file are deleted only when its row is gone.  What a complete has written is
\* still there, unless the row is gone.  A file being attached was ready and is
\* its user's.
Sound(w) ==
  /\ w \in WorkRecord
  /\ w.pc # "idle" => w.file \in File /\ row[w.file] # "absent"
  /\ Erasing(w) => row[w.file] = "gone"
  /\ w.pc \in {"sniffed", "storing"} => w.body \in Valid
  /\ w.pc = "sniffed" => kind[w.file] = "document"
  /\ w.pc = "storing" =>
       \/ row[w.file] = "gone"
       \/ \A p \in PartsOf(w.file) \ w.todo : final[<<w.file, p>>] \in Valid
  /\ w.pc = "attaching" =>
       /\ w.user \in User
       /\ row[w.file] \in {"ready", "gone"}
       /\ owner[w.file] = w.user

TxnInv == txn \in [Req -> WorkRecord] /\ \A r \in Req : Sound(txn[r])

\* A queued job names a file that was created, and one whose row is gone when
\* all of its objects are to be deleted.
JobsInv ==
  \A f \in File, s \in Scope : <<f, s>> \in jobs =>
    row[f] # "absent" /\ (s = "all" => row[f] = "gone")

IInv == DataOK /\ TxnInv /\ JobsInv /\ ReadyFileHasItsObjects /\ AvatarIsUsable

Advances ==
  \A f \in File :
    /\ row[f] # "absent" => row'[f] # "absent" /\ owner'[f] = owner[f] /\ kind'[f] = kind[f]
    /\ row[f] = "ready" => row'[f] \in {"ready", "gone"}
    /\ row[f] = "gone" => row'[f] = "gone"
    /\ row[f] # "gone" =>
         \A p \in Part : final[<<f, p>>] \in Valid => final'[<<f, p>>] \in Valid

LEMMA InvInit == Init => IInv
  BY FileAssumption
  DEF Init, IInv, DataOK, TxnInv, JobsInv, Sound, Erasing, WorkRecord,
      ReadyFileHasItsObjects, AvatarIsUsable, Idle, On, Work, Pc,
      Completing, Working, RowState, Scope, Kind, PartsOf

LEMMA InvImpliesTypeOK == IInv => TypeOK
  BY DEF IInv, DataOK, TxnInv, TypeOK, WorkRecord

\* What a request remembers stays sound when rows and objects advance.
LEMMA SoundStays ==
  ASSUME DataOK, Advances, NEW w, Sound(w)
  PROVE  Sound(w)'
<1>1. w.pc # "idle" => w.file \in File /\ row'[w.file] # "absent"
  BY DEF Sound, Advances
<1>2. Erasing(w) => w.pc # "idle" /\ row'[w.file] = "gone"
  BY <1>1 DEF Sound, Advances, Erasing
<1>3. w.pc = "storing" =>
        \/ row'[w.file] = "gone"
        \/ \A p \in PartsOf(w.file)' \ w.todo : final'[<<w.file, p>>] \in Valid
  <2> SUFFICES ASSUME w.pc = "storing", row'[w.file] # "gone"
               PROVE  \A p \in PartsOf(w.file)' \ w.todo :
                        final'[<<w.file, p>>] \in Valid
    OBVIOUS
  <2>1. w.file \in File /\ row[w.file] # "gone" /\ kind'[w.file] = kind[w.file]
    BY DEF Sound, Advances
  <2>2. PartsOf(w.file)' = PartsOf(w.file) /\ PartsOf(w.file) \subseteq Part
    BY <2>1, FileAssumption DEF PartsOf
  <2>3. QED
    BY <2>1, <2>2 DEF Sound, Advances
<1>4. w.pc = "attaching" =>
        row'[w.file] \in {"ready", "gone"} /\ owner'[w.file] = w.user
  BY <1>1 DEF Sound, Advances
<1>5. w.pc = "sniffed" => kind'[w.file] = "document"
  BY <1>1 DEF Sound, Advances
<1>6. QED
  BY <1>1, <1>2, <1>3, <1>4, <1>5 DEF Sound, Erasing

\* An action of request r that leaves sound work w behind keeps TxnInv.
LEMMA TxnStep ==
  ASSUME DataOK, TxnInv, Advances, NEW r \in Req, NEW w, Goto(r, w), Sound(w)'
  PROVE  TxnInv'
<1>1. w \in WorkRecord
  BY DEF Sound
<1>2. txn' \in [Req -> WorkRecord] /\ txn'[r] = w
  BY <1>1 DEF TxnInv, Goto
<1>3. ASSUME NEW q \in Req PROVE Sound(txn[q])'
  <2>1. CASE q = r
    BY <2>1, <1>2
  <2>2. CASE q # r
    <3>1. PICK v : v = txn[q]
      OBVIOUS
    <3>2. txn'[q] = v
      BY <2>2, <3>1 DEF TxnInv, Goto
    <3>3. Sound(v)'
      BY <3>1, SoundStays DEF TxnInv
    <3>4. QED
      BY <3>2, <3>3
  <2>3. QED
    BY <2>1, <2>2
<1>4. QED
  BY <1>2, <1>3 DEF TxnInv

LEMMA TxnStays ==
  ASSUME DataOK, TxnInv, Advances, txn' = txn
  PROVE  TxnInv'
<1>1. ASSUME NEW q \in Req PROVE Sound(txn[q])'
  <2>1. PICK v : v = txn[q] /\ v = txn'[q]
    OBVIOUS
  <2>2. Sound(v)'
    BY <2>1, SoundStays DEF TxnInv
  <2>3. QED
    BY <2>1, <2>2
<1>2. QED
  BY <1>1 DEF TxnInv

LEMMA CreateUploadKeeps ==
  ASSUME IInv, NEW u \in User, NEW f \in File, NEW k \in Kind, CreateUpload(u, f, k)
  PROVE  IInv'
<1>1. Advances
  BY DEF IInv, DataOK, Advances, CreateUpload
<1>2. DataOK'
  BY DEF IInv, DataOK, CreateUpload, RowState, Scope
<1>3. TxnInv'
  BY <1>1, TxnStays
  DEF IInv, CreateUpload
<1>4. JobsInv' /\ ReadyFileHasItsObjects' /\ AvatarIsUsable'
  BY FileAssumption
  DEF IInv, JobsInv, ReadyFileHasItsObjects, AvatarIsUsable, DataOK,
      CreateUpload, PartsOf
<1>5. QED
  BY <1>2, <1>3, <1>4 DEF IInv

LEMMA ClientPutKeeps ==
  ASSUME IInv, NEW f \in File, NEW b \in Body, ClientPut(f, b)
  PROVE  IInv'
<1>1. Advances
  BY DEF IInv, DataOK, Advances, ClientPut, rows
<1>2. DataOK'
  BY DEF IInv, DataOK, ClientPut, RowState, Scope, rows
<1>3. TxnInv'
  BY <1>1, TxnStays
  DEF IInv, ClientPut, rows
<1>4. JobsInv' /\ ReadyFileHasItsObjects' /\ AvatarIsUsable'
  BY FileAssumption
  DEF IInv, JobsInv, ReadyFileHasItsObjects, AvatarIsUsable, DataOK,
      ClientPut, rows, PartsOf
<1>5. QED
  BY <1>2, <1>3, <1>4 DEF IInv

LEMMA CompleteReadKeeps ==
  ASSUME IInv, NEW r \in Req, NEW f \in File, CompleteRead(r, f)
  PROVE  IInv'
<1>1. Sound(txn[r])
  BY DEF IInv, TxnInv
<1>2. Advances
  BY <1>1
  DEF IInv, DataOK, Advances, CompleteRead, At, Sound, Erasing, Start,
      rows, objects
<1>3. DataOK'
  BY <1>1
  DEF IInv, DataOK, CompleteRead, At, Sound, RowState, Scope,
      WorkRecord, Start, rows, objects
<1>4. PICK w : Goto(r, w) /\ Sound(w)'
  BY <1>1, <1>2, FileAssumption
  DEF IInv, DataOK, CompleteRead, Finish, At, Start, rows, objects,
      Idle, On, Work, Sound, Erasing, WorkRecord, Pc, Completing,
      Working, Scope, PartsOf
<1>5. TxnInv'
  BY <1>2, <1>4, TxnStep
  DEF IInv
<1>6. JobsInv'
  BY <1>1, <1>2
  DEF IInv, JobsInv, Advances, DataOK, CompleteRead, At, Sound,
      Erasing, Scope, WorkRecord, Start, rows, objects
<1>7. ReadyFileHasItsObjects'
  BY <1>1, <1>2
  DEF IInv, ReadyFileHasItsObjects, Advances, DataOK, CompleteRead, At,
      Sound, Start, rows, objects, PartsOf
<1>8. AvatarIsUsable'
  BY <1>1, <1>2, FileAssumption
  DEF IInv, AvatarIsUsable, Advances, DataOK, CompleteRead, At, Sound,
      Start, rows, objects
<1>9. QED
  BY <1>3, <1>5, <1>6, <1>7, <1>8 DEF IInv

LEMMA HeadKeeps ==
  ASSUME IInv, NEW r \in Req, Head(r)
  PROVE  IInv'
<1>1. Sound(txn[r])
  BY DEF IInv, TxnInv
<1>2. Advances
  BY <1>1
  DEF IInv, DataOK, Advances, Head, At, Sound, Erasing, rows, objects
<1>3. DataOK'
  BY <1>1
  DEF IInv, DataOK, Head, At, Sound, RowState, Scope, WorkRecord,
      rows, objects
<1>4. PICK w : Goto(r, w) /\ Sound(w)'
  BY <1>1, <1>2, FileAssumption
  DEF IInv, DataOK, Head, Finish, At, rows, objects, Idle, On, Work,
      Sound, Erasing, WorkRecord, Pc, Completing, Working, Scope,
      PartsOf
<1>5. TxnInv'
  BY <1>2, <1>4, TxnStep
  DEF IInv
<1>6. JobsInv'
  BY <1>1, <1>2
  DEF IInv, JobsInv, Advances, DataOK, Head, At, Sound, Erasing,
      Scope, WorkRecord, rows, objects
<1>7. ReadyFileHasItsObjects'
  BY <1>1, <1>2
  DEF IInv, ReadyFileHasItsObjects, Advances, DataOK, Head, At, Sound,
      rows, objects, PartsOf
<1>8. AvatarIsUsable'
  BY <1>1, <1>2, FileAssumption
  DEF IInv, AvatarIsUsable, Advances, DataOK, Head, At, Sound, rows,
      objects
<1>9. QED
  BY <1>3, <1>5, <1>6, <1>7, <1>8 DEF IInv

LEMMA EnterProcessorKeeps ==
  ASSUME IInv, NEW r \in Req, EnterProcessor(r)
  PROVE  IInv'
<1>1. Sound(txn[r])
  BY DEF IInv, TxnInv
<1>2. Advances
  BY <1>1
  DEF IInv, DataOK, Advances, EnterProcessor, At, Sound, Erasing,
      rows, objects
<1>3. DataOK'
  BY <1>1
  DEF IInv, DataOK, EnterProcessor, At, Sound, RowState, Scope,
      WorkRecord, rows, objects
<1>4. PICK w : Goto(r, w) /\ Sound(w)'
  BY <1>1, <1>2, FileAssumption
  DEF IInv, DataOK, EnterProcessor, Finish, At, rows, objects, Idle,
      On, Work, Sound, Erasing, WorkRecord, Pc, Completing, Working,
      Scope, PartsOf
<1>5. TxnInv'
  BY <1>2, <1>4, TxnStep
  DEF IInv
<1>6. JobsInv'
  BY <1>1, <1>2
  DEF IInv, JobsInv, Advances, DataOK, EnterProcessor, At, Sound,
      Erasing, Scope, WorkRecord, rows, objects
<1>7. ReadyFileHasItsObjects'
  BY <1>1, <1>2
  DEF IInv, ReadyFileHasItsObjects, Advances, DataOK, EnterProcessor,
      At, Sound, rows, objects, PartsOf
<1>8. AvatarIsUsable'
  BY <1>1, <1>2, FileAssumption
  DEF IInv, AvatarIsUsable, Advances, DataOK, EnterProcessor, At,
      Sound, rows, objects
<1>9. QED
  BY <1>3, <1>5, <1>6, <1>7, <1>8 DEF IInv

LEMMA LoadKeeps ==
  ASSUME IInv, NEW r \in Req, Load(r)
  PROVE  IInv'
<1>1. Sound(txn[r])
  BY DEF IInv, TxnInv
<1>2. Advances
  BY <1>1
  DEF IInv, DataOK, Advances, Load, GetBytes, At, Sound, Erasing, rows, objects
<1>3. DataOK'
  BY <1>1
  DEF IInv, DataOK, Load, GetBytes, At, Sound, RowState, Scope, WorkRecord,
      rows, objects
<1>4. PICK w : Goto(r, w) /\ Sound(w)'
  BY <1>1, <1>2, FileAssumption
  DEF IInv, DataOK, Load, GetBytes, Finish, At, rows, objects, Idle,
      On, Work, Sound, Erasing, WorkRecord, Pc, Completing, Working,
      Scope, PartsOf
<1>5. TxnInv'
  BY <1>2, <1>4, TxnStep
  DEF IInv
<1>6. JobsInv'
  BY <1>1, <1>2
  DEF IInv, JobsInv, Advances, DataOK, Load, GetBytes, At, Sound, Erasing,
      Scope, WorkRecord, rows, objects
<1>7. ReadyFileHasItsObjects'
  BY <1>1, <1>2
  DEF IInv, ReadyFileHasItsObjects, Advances, DataOK, Load, GetBytes,
      At, Sound, rows, objects, PartsOf
<1>8. AvatarIsUsable'
  BY <1>1, <1>2, FileAssumption
  DEF IInv, AvatarIsUsable, Advances, DataOK, Load, GetBytes, At, Sound, rows,
      objects
<1>9. QED
  BY <1>3, <1>5, <1>6, <1>7, <1>8 DEF IInv

LEMMA SniffKeeps ==
  ASSUME IInv, NEW r \in Req, Sniff(r)
  PROVE  IInv'
<1>1. Sound(txn[r])
  BY DEF IInv, TxnInv
<1>2. Advances
  BY <1>1
  DEF IInv, DataOK, Advances, Sniff, GetBytes, At, Sound, Erasing, rows, objects
<1>3. DataOK'
  BY <1>1
  DEF IInv, DataOK, Sniff, GetBytes, At, Sound, RowState, Scope, WorkRecord,
      rows, objects
<1>4. PICK w : Goto(r, w) /\ Sound(w)'
  BY <1>1, <1>2, FileAssumption
  DEF IInv, DataOK, Sniff, GetBytes, Finish, At, rows, objects, Idle,
      On, Work, Sound, Erasing, WorkRecord, Pc, Completing, Working,
      Scope, PartsOf
<1>5. TxnInv'
  BY <1>2, <1>4, TxnStep
  DEF IInv
<1>6. JobsInv'
  BY <1>1, <1>2
  DEF IInv, JobsInv, Advances, DataOK, Sniff, GetBytes, At, Sound, Erasing,
      Scope, WorkRecord, rows, objects
<1>7. ReadyFileHasItsObjects'
  BY <1>1, <1>2
  DEF IInv, ReadyFileHasItsObjects, Advances, DataOK, Sniff, GetBytes,
      At, Sound, rows, objects, PartsOf
<1>8. AvatarIsUsable'
  BY <1>1, <1>2, FileAssumption
  DEF IInv, AvatarIsUsable, Advances, DataOK, Sniff, GetBytes, At, Sound, rows,
      objects
<1>9. QED
  BY <1>3, <1>5, <1>6, <1>7, <1>8 DEF IInv

LEMMA CopyKeeps ==
  ASSUME IInv, NEW r \in Req, Copy(r)
  PROVE  IInv'
<1>1. Sound(txn[r])
  BY DEF IInv, TxnInv
<1>2. Advances
  BY <1>1, FileAssumption
  DEF IInv, DataOK, Advances, Copy, At, Sound, Erasing, rows, objects
<1>3. DataOK'
  BY <1>1
  DEF IInv, DataOK, Copy, At, Sound, RowState, Scope, WorkRecord,
      rows, objects
<1>4. PICK w : Goto(r, w) /\ Sound(w)'
  <2>0. PICK f, b : f = txn[r].file /\ b = txn[r].body
    OBVIOUS
  <2>1. /\ f \in File /\ b \in Valid /\ b \in Body /\ row'[f] # "absent"
        /\ Main \in Part /\ None \notin Body
    BY <1>1, <1>2, <2>0, FileAssumption DEF Copy, At, Sound, Advances
  <2>2. CASE incoming[f] = b
    <3>1. \A p \in PartsOf(f)' \ {} : row'[f] = "gone" \/ final'[<<f, p>>] \in Valid
      <4>1. final' = [final EXCEPT ![<<f, Main>>] = b] /\ kind' = kind /\ row' = row
        BY <2>0, <2>2 DEF Copy, rows
      <4>2. final'[<<f, Main>>] \in Valid
        BY <2>1, <4>1 DEF IInv, DataOK
      <4>3. PartsOf(f)' = {Main}
        BY <1>1, <2>0, <4>1 DEF Copy, At, Sound, PartsOf
      <4>4. QED
        BY <4>2, <4>3
    <3>2. Sound(On("storing", f, b))'
      BY <2>1, <3>1
      DEF On, Work, Sound, Erasing, WorkRecord, Pc, Completing, Scope
    <3>3. QED
      BY <2>0, <2>2, <3>2 DEF Copy
  <2>3. CASE incoming[f] # b
    <3>1. Sound(Idle)' /\ Sound(On("rejected", f, b))'
      BY <2>1 DEF Idle, On, Work, Sound, Erasing, WorkRecord, Pc, Scope
    <3>2. QED
      BY <2>0, <2>3, <3>1 DEF Copy, Finish
  <2>4. QED
    BY <2>2, <2>3
<1>5. TxnInv'
  BY <1>2, <1>4, TxnStep
  DEF IInv
<1>6. JobsInv'
  BY <1>1, <1>2
  DEF IInv, JobsInv, Advances, DataOK, Copy, At, Sound, Erasing,
      Scope, WorkRecord, rows, objects
<1>7. ReadyFileHasItsObjects'
  BY <1>1, <1>2
  DEF IInv, ReadyFileHasItsObjects, Advances, DataOK, Copy, At, Sound,
      rows, objects, PartsOf
<1>8. AvatarIsUsable'
  BY <1>1, <1>2, FileAssumption
  DEF IInv, AvatarIsUsable, Advances, DataOK, Copy, At, Sound, rows,
      objects
<1>9. QED
  BY <1>3, <1>5, <1>6, <1>7, <1>8 DEF IInv

LEMMA PutObjectKeeps ==
  ASSUME IInv, NEW r \in Req, NEW p \in Part, PutObject(r, p)
  PROVE  IInv'
<1>1. Sound(txn[r])
  BY DEF IInv, TxnInv
<1>2. Advances
  BY <1>1
  DEF IInv, DataOK, Advances, PutObject, At, Sound, Erasing, rows
<1>3. DataOK'
  BY <1>1
  DEF IInv, DataOK, PutObject, At, Sound, RowState, Scope, WorkRecord,
      rows
<1>4. PICK w : Goto(r, w) /\ Sound(w)'
  BY <1>1, <1>2, FileAssumption
  DEF IInv, DataOK, PutObject, Finish, At, rows, Idle, On, Work, Sound,
      Erasing, WorkRecord, Pc, Completing, Working, Scope, PartsOf
<1>5. TxnInv'
  BY <1>2, <1>4, TxnStep
  DEF IInv
<1>6. JobsInv'
  BY <1>1, <1>2
  DEF IInv, JobsInv, Advances, DataOK, PutObject, At, Sound, Erasing,
      Scope, WorkRecord, rows
<1>7. ReadyFileHasItsObjects'
  BY <1>1, <1>2
  DEF IInv, ReadyFileHasItsObjects, Advances, DataOK, PutObject, At,
      Sound, rows, PartsOf
<1>8. AvatarIsUsable'
  BY <1>1, <1>2, FileAssumption
  DEF IInv, AvatarIsUsable, Advances, DataOK, PutObject, At, Sound,
      rows
<1>9. QED
  BY <1>3, <1>5, <1>6, <1>7, <1>8 DEF IInv

LEMMA MarkReadyKeeps ==
  ASSUME IInv, NEW r \in Req, MarkReady(r)
  PROVE  IInv'
<1>1. Sound(txn[r])
  BY DEF IInv, TxnInv
<1>2. Advances
  BY <1>1
  DEF IInv, DataOK, Advances, MarkReady, At, Sound, Erasing, Stored,
      objects
<1>3. DataOK'
  BY <1>1
  DEF IInv, DataOK, MarkReady, At, Sound, RowState, Scope, WorkRecord,
      Stored, objects
<1>4. PICK w : Goto(r, w) /\ Sound(w)'
  BY <1>1, <1>2, FileAssumption
  DEF IInv, DataOK, MarkReady, Finish, At, Stored, objects, Idle, On,
      Work, Sound, Erasing, WorkRecord, Pc, Completing, Working, Scope,
      PartsOf
<1>5. TxnInv'
  BY <1>2, <1>4, TxnStep
  DEF IInv
<1>6. JobsInv'
  BY <1>1, <1>2
  DEF IInv, JobsInv, Advances, DataOK, MarkReady, At, Sound, Erasing,
      Scope, WorkRecord, Stored, objects
<1>7. ReadyFileHasItsObjects'
  BY <1>1, <1>2
  DEF IInv, ReadyFileHasItsObjects, Advances, DataOK, MarkReady, At,
      Sound, Stored, objects, PartsOf
<1>8. AvatarIsUsable'
  BY <1>1, <1>2, FileAssumption
  DEF IInv, AvatarIsUsable, Advances, DataOK, MarkReady, At, Sound,
      Stored, objects
<1>9. QED
  BY <1>3, <1>5, <1>6, <1>7, <1>8 DEF IInv

LEMMA MarkMissedKeeps ==
  ASSUME IInv, NEW r \in Req, MarkMissed(r)
  PROVE  IInv'
<1>1. Sound(txn[r])
  BY DEF IInv, TxnInv
<1>2. Advances
  BY <1>1
  DEF IInv, DataOK, Advances, MarkMissed, At, Sound, Erasing, Stored,
      rows, objects
<1>3. DataOK'
  BY <1>1
  DEF IInv, DataOK, MarkMissed, At, Sound, RowState, Scope,
      WorkRecord, Stored, rows, objects
<1>4. PICK w : Goto(r, w) /\ Sound(w)'
  BY <1>1, <1>2, FileAssumption
  DEF IInv, DataOK, RowState, MarkMissed, Finish, At, Stored, rows,
      objects, Idle, On, Work, Sound, Erasing, WorkRecord, Pc,
      Completing, Working, Scope, PartsOf
<1>5. TxnInv'
  BY <1>2, <1>4, TxnStep
  DEF IInv
<1>6. JobsInv'
  BY <1>1, <1>2
  DEF IInv, JobsInv, Advances, DataOK, MarkMissed, At, Sound, Erasing,
      Scope, WorkRecord, Stored, rows, objects
<1>7. ReadyFileHasItsObjects'
  BY <1>1, <1>2
  DEF IInv, ReadyFileHasItsObjects, Advances, DataOK, MarkMissed, At,
      Sound, Stored, rows, objects, PartsOf
<1>8. AvatarIsUsable'
  BY <1>1, <1>2, FileAssumption
  DEF IInv, AvatarIsUsable, Advances, DataOK, MarkMissed, At, Sound,
      Stored, rows, objects
<1>9. QED
  BY <1>3, <1>5, <1>6, <1>7, <1>8 DEF IInv

LEMMA SendDeleteKeeps ==
  ASSUME IInv, NEW r \in Req, SendDelete(r)
  PROVE  IInv'
<1>1. Sound(txn[r])
  BY DEF IInv, TxnInv
<1>2. Advances
  BY <1>1
  DEF IInv, DataOK, Advances, SendDelete, At, Sound, Erasing, rows,
      objects
<1>3. DataOK'
  BY <1>1
  DEF IInv, DataOK, SendDelete, At, Sound, RowState, Scope,
      WorkRecord, rows, objects
<1>4. PICK w : Goto(r, w) /\ Sound(w)'
  BY <1>1, <1>2, FileAssumption
  DEF IInv, DataOK, SendDelete, Finish, At, rows, objects, Idle, On,
      Work, Sound, Erasing, WorkRecord, Pc, Completing, Working, Scope,
      PartsOf
<1>5. TxnInv'
  BY <1>2, <1>4, TxnStep
  DEF IInv
<1>6. JobsInv'
  BY <1>1, <1>2
  DEF IInv, JobsInv, Advances, DataOK, SendDelete, At, Sound, Erasing,
      Scope, WorkRecord, rows, objects
<1>7. ReadyFileHasItsObjects'
  BY <1>1, <1>2
  DEF IInv, ReadyFileHasItsObjects, Advances, DataOK, SendDelete, At,
      Sound, rows, objects, PartsOf
<1>8. AvatarIsUsable'
  BY <1>1, <1>2, FileAssumption
  DEF IInv, AvatarIsUsable, Advances, DataOK, SendDelete, At, Sound,
      rows, objects
<1>9. QED
  BY <1>3, <1>5, <1>6, <1>7, <1>8 DEF IInv

LEMMA StoreFailsKeeps ==
  ASSUME IInv, NEW r \in Req, StoreFails(r)
  PROVE  IInv'
<1>1. Sound(txn[r])
  BY DEF IInv, TxnInv
<1>2. Advances
  BY <1>1
  DEF IInv, DataOK, Advances, StoreFails, At, Sound, Erasing, Loses,
      Completing, rows, objects
<1>3. DataOK'
  BY <1>1
  DEF IInv, DataOK, StoreFails, At, Sound, RowState, Scope,
      WorkRecord, Loses, Completing, rows, objects
<1>4. PICK w : Goto(r, w) /\ Sound(w)'
  BY <1>1, <1>2, FileAssumption
  DEF IInv, DataOK, StoreFails, Finish, At, Loses, Completing, rows,
      objects, Idle, On, Work, Sound, Erasing, WorkRecord, Pc, Working,
      Scope, PartsOf
<1>5. TxnInv'
  BY <1>2, <1>4, TxnStep
  DEF IInv
<1>6. JobsInv'
  BY <1>1, <1>2
  DEF IInv, JobsInv, Advances, DataOK, StoreFails, At, Sound, Erasing,
      Scope, WorkRecord, Loses, Completing, rows, objects
<1>7. ReadyFileHasItsObjects'
  BY <1>1, <1>2
  DEF IInv, ReadyFileHasItsObjects, Advances, DataOK, StoreFails, At,
      Sound, Loses, Completing, rows, objects, PartsOf
<1>8. AvatarIsUsable'
  BY <1>1, <1>2, FileAssumption
  DEF IInv, AvatarIsUsable, Advances, DataOK, StoreFails, At, Sound,
      Loses, Completing, rows, objects
<1>9. QED
  BY <1>3, <1>5, <1>6, <1>7, <1>8 DEF IInv

LEMMA ResolveRejectedKeeps ==
  ASSUME IInv, NEW r \in Req, ResolveRejected(r)
  PROVE  IInv'
<1>1. Sound(txn[r])
  BY DEF IInv, TxnInv
<1>2. Advances
  BY <1>1
  DEF IInv, DataOK, Advances, ResolveRejected, At, Sound, Erasing,
      rows, objects
<1>3. DataOK'
  BY <1>1
  DEF IInv, DataOK, ResolveRejected, At, Sound, RowState, Scope,
      WorkRecord, rows, objects
<1>4. PICK w : Goto(r, w) /\ Sound(w)'
  BY <1>1, <1>2, FileAssumption
  DEF IInv, DataOK, ResolveRejected, Finish, At, rows, objects, Idle,
      On, Work, Sound, Erasing, WorkRecord, Pc, Completing, Working,
      Scope, PartsOf
<1>5. TxnInv'
  BY <1>2, <1>4, TxnStep
  DEF IInv
<1>6. JobsInv'
  BY <1>1, <1>2
  DEF IInv, JobsInv, Advances, DataOK, ResolveRejected, At, Sound,
      Erasing, Scope, WorkRecord, rows, objects
<1>7. ReadyFileHasItsObjects'
  BY <1>1, <1>2
  DEF IInv, ReadyFileHasItsObjects, Advances, DataOK, ResolveRejected,
      At, Sound, rows, objects, PartsOf
<1>8. AvatarIsUsable'
  BY <1>1, <1>2, FileAssumption
  DEF IInv, AvatarIsUsable, Advances, DataOK, ResolveRejected, At,
      Sound, rows, objects
<1>9. QED
  BY <1>3, <1>5, <1>6, <1>7, <1>8 DEF IInv

LEMMA DiscardKeeps ==
  ASSUME IInv, NEW r \in Req, Discard(r)
  PROVE  IInv'
<1>1. Sound(txn[r])
  BY DEF IInv, TxnInv
<1>2. Advances
  BY <1>1
  DEF IInv, DataOK, Advances, Discard, At, Sound, Erasing, DeleteRow,
      rows, objects
<1>3. DataOK'
  BY <1>1
  DEF IInv, DataOK, Discard, At, Sound, RowState, Scope, WorkRecord,
      DeleteRow, rows, objects
<1>4. PICK w : Goto(r, w) /\ Sound(w)'
  BY <1>1, <1>2, FileAssumption
  DEF IInv, DataOK, Discard, Finish, At, DeleteRow, rows, objects,
      Idle, On, Work, Sound, Erasing, WorkRecord, Pc, Completing,
      Working, Scope, PartsOf
<1>5. TxnInv'
  BY <1>2, <1>4, TxnStep
  DEF IInv
<1>6. JobsInv'
  <2>1. CASE row[txn[r].file] = "pending"
    <3>1. /\ jobs' = jobs \cup {<<txn[r].file, "all">>}
          /\ row' = [row EXCEPT ![txn[r].file] = "gone"]
      BY <2>1 DEF Discard, DeleteRow
    <3>2. QED
      BY <3>1 DEF IInv, JobsInv, DataOK
  <2>2. CASE ~(row[txn[r].file] = "pending")
    BY <2>2 DEF Discard, rows, IInv, JobsInv
  <2>3. QED
    BY <2>1, <2>2
<1>7. ReadyFileHasItsObjects'
  BY <1>1, <1>2
  DEF IInv, ReadyFileHasItsObjects, Advances, DataOK, Discard, At,
      Sound, DeleteRow, rows, objects, PartsOf
<1>8. AvatarIsUsable'
  BY <1>1, <1>2, FileAssumption
  DEF IInv, AvatarIsUsable, Advances, DataOK, Discard, At, Sound,
      DeleteRow, rows, objects
<1>9. QED
  BY <1>3, <1>5, <1>6, <1>7, <1>8 DEF IInv

LEMMA AttachReadKeeps ==
  ASSUME IInv, NEW r \in Req, NEW u \in User, NEW f \in File, AttachRead(r, u, f)
  PROVE  IInv'
<1>1. Sound(txn[r])
  BY DEF IInv, TxnInv
<1>2. Advances
  BY <1>1
  DEF IInv, DataOK, Advances, AttachRead, At, Sound, Erasing, Start,
      rows, objects
<1>3. DataOK'
  BY <1>1
  DEF IInv, DataOK, AttachRead, At, Sound, RowState, Scope,
      WorkRecord, Start, rows, objects
<1>4. PICK w : Goto(r, w) /\ Sound(w)'
  BY <1>1, <1>2, FileAssumption
  DEF IInv, DataOK, AttachRead, Finish, At, Start, rows, objects, Idle,
      On, Work, Sound, Erasing, WorkRecord, Pc, Completing, Working,
      Scope, PartsOf
<1>5. TxnInv'
  BY <1>2, <1>4, TxnStep
  DEF IInv
<1>6. JobsInv'
  BY <1>1, <1>2
  DEF IInv, JobsInv, Advances, DataOK, AttachRead, At, Sound, Erasing,
      Scope, WorkRecord, Start, rows, objects
<1>7. ReadyFileHasItsObjects'
  BY <1>1, <1>2
  DEF IInv, ReadyFileHasItsObjects, Advances, DataOK, AttachRead, At,
      Sound, Start, rows, objects, PartsOf
<1>8. AvatarIsUsable'
  BY <1>1, <1>2, FileAssumption
  DEF IInv, AvatarIsUsable, Advances, DataOK, AttachRead, At, Sound,
      Start, rows, objects
<1>9. QED
  BY <1>3, <1>5, <1>6, <1>7, <1>8 DEF IInv

LEMMA AttachKeeps ==
  ASSUME IInv, NEW r \in Req, Attach(r)
  PROVE  IInv'
<1>1. Sound(txn[r])
  BY DEF IInv, TxnInv
<1>2. Advances
  BY <1>1
  DEF IInv, DataOK, Advances, Attach, At, Sound, Erasing,
      rows, objects
<1>3. DataOK'
  BY <1>1
  DEF IInv, DataOK, Attach, At, Sound, RowState, Scope, WorkRecord,
      rows, objects
<1>4. PICK w : Goto(r, w) /\ Sound(w)'
  BY <1>1, <1>2, FileAssumption
  DEF IInv, DataOK, Attach, Finish, At, rows, objects, Idle, On, Work,
      Sound, Erasing, WorkRecord, Pc, Completing, Working, Scope,
      PartsOf
<1>5. TxnInv'
  BY <1>2, <1>4, TxnStep
  DEF IInv
<1>6. JobsInv'
  BY <1>1, <1>2
  DEF IInv, JobsInv, Advances, DataOK, Attach, At, Sound, Erasing,
      Scope, WorkRecord, rows, objects
<1>7. ReadyFileHasItsObjects'
  BY <1>1, <1>2
  DEF IInv, ReadyFileHasItsObjects, Advances, DataOK, Attach, At,
      Sound, rows, objects, PartsOf
<1>8. AvatarIsUsable'
  <2>1. CASE row[txn[r].file] = "gone"
    BY <2>1 DEF Attach, rows, IInv, AvatarIsUsable
  <2>2. CASE row[txn[r].file] # "gone"
    <3>1. /\ avatar' = [avatar EXCEPT ![txn[r].user] = txn[r].file]
          /\ row' = row /\ owner' = owner
      BY <2>2 DEF Attach
    <3>2. /\ row[txn[r].file] = "ready"
          /\ owner[txn[r].file] = txn[r].user
      BY <1>1, <2>2 DEF Attach, At, Sound
    <3>3. QED
      BY <3>1, <3>2 DEF IInv, AvatarIsUsable, DataOK
  <2>3. QED
    BY <2>1, <2>2
<1>9. QED
  BY <1>3, <1>5, <1>6, <1>7, <1>8 DEF IInv

LEMMA DetachKeeps ==
  ASSUME IInv, NEW u \in User, Detach(u)
  PROVE  IInv'
<1>1. Advances
  BY DEF IInv, DataOK, Advances, Detach, objects
<1>2. DataOK'
  BY DEF IInv, DataOK, Detach, RowState, Scope, objects
<1>3. TxnInv'
  BY <1>1, TxnStays
  DEF IInv, Detach, objects
<1>4. JobsInv' /\ ReadyFileHasItsObjects' /\ AvatarIsUsable'
  BY FileAssumption
  DEF IInv, JobsInv, ReadyFileHasItsObjects, AvatarIsUsable, DataOK,
      Detach, objects, PartsOf
<1>5. QED
  BY <1>2, <1>3, <1>4 DEF IInv

LEMMA SweepPickKeeps ==
  ASSUME IInv, NEW r \in Req, NEW f \in File, SweepPick(r, f)
  PROVE  IInv'
<1>1. Sound(txn[r])
  BY DEF IInv, TxnInv
<1>2. Advances
  BY <1>1
  DEF IInv, DataOK, Advances, SweepPick, At, Sound, Erasing, Start,
      Removable, rows, objects
<1>3. DataOK'
  BY <1>1
  DEF IInv, DataOK, SweepPick, At, Sound, RowState, Scope, WorkRecord,
      Start, Removable, rows, objects
<1>4. PICK w : Goto(r, w) /\ Sound(w)'
  BY <1>1, <1>2, FileAssumption
  DEF IInv, DataOK, SweepPick, Finish, At, Start, Removable, rows,
      objects, Idle, On, Work, Sound, Erasing, WorkRecord, Pc,
      Completing, Working, Scope, PartsOf
<1>5. TxnInv'
  BY <1>2, <1>4, TxnStep
  DEF IInv
<1>6. JobsInv'
  BY <1>1, <1>2
  DEF IInv, JobsInv, Advances, DataOK, SweepPick, At, Sound, Erasing,
      Scope, WorkRecord, Start, Removable, rows, objects
<1>7. ReadyFileHasItsObjects'
  BY <1>1, <1>2
  DEF IInv, ReadyFileHasItsObjects, Advances, DataOK, SweepPick, At,
      Sound, Start, Removable, rows, objects, PartsOf
<1>8. AvatarIsUsable'
  BY <1>1, <1>2, FileAssumption
  DEF IInv, AvatarIsUsable, Advances, DataOK, SweepPick, At, Sound,
      Start, Removable, rows, objects
<1>9. QED
  BY <1>3, <1>5, <1>6, <1>7, <1>8 DEF IInv

LEMMA SweepRemoveKeeps ==
  ASSUME IInv, NEW r \in Req, SweepRemove(r)
  PROVE  IInv'
<1>1. Sound(txn[r])
  BY DEF IInv, TxnInv
<1>2. Advances
  BY <1>1
  DEF IInv, DataOK, Advances, SweepRemove, At, Sound, Erasing,
      DeleteRow, Removable, Referenced, rows, objects
<1>3. DataOK'
  BY <1>1
  DEF IInv, DataOK, SweepRemove, At, Sound, RowState, Scope,
      WorkRecord, DeleteRow, Removable, Referenced, rows, objects
<1>4. PICK w : Goto(r, w) /\ Sound(w)'
  BY <1>1, <1>2, FileAssumption
  DEF IInv, DataOK, SweepRemove, Finish, At, DeleteRow, Removable,
      Referenced, rows, objects, Idle, On, Work, Sound, Erasing,
      WorkRecord, Pc, Completing, Working, Scope, PartsOf
<1>5. TxnInv'
  BY <1>2, <1>4, TxnStep
  DEF IInv
<1>6. JobsInv'
  <2>1. CASE Removable(txn[r].file)
    <3>1. /\ jobs' = jobs \cup {<<txn[r].file, "all">>}
          /\ row' = [row EXCEPT ![txn[r].file] = "gone"]
      BY <2>1 DEF SweepRemove, DeleteRow
    <3>2. QED
      BY <3>1 DEF IInv, JobsInv, DataOK
  <2>2. CASE ~(Removable(txn[r].file))
    BY <2>2 DEF SweepRemove, rows, IInv, JobsInv
  <2>3. QED
    BY <2>1, <2>2
<1>7. ReadyFileHasItsObjects'
  BY <1>1, <1>2
  DEF IInv, ReadyFileHasItsObjects, Advances, DataOK, SweepRemove, At,
      Sound, DeleteRow, Removable, Referenced, rows, objects, PartsOf
<1>8. AvatarIsUsable'
  BY <1>1, <1>2, FileAssumption
  DEF IInv, AvatarIsUsable, Advances, DataOK, SweepRemove, At, Sound,
      DeleteRow, Removable, Referenced, rows, objects
<1>9. QED
  BY <1>3, <1>5, <1>6, <1>7, <1>8 DEF IInv

LEMMA JobStartKeeps ==
  ASSUME IInv, NEW r \in Req, NEW f \in File, NEW scope \in Scope, JobStart(r, f, scope)
  PROVE  IInv'
<1>1. Sound(txn[r])
  BY DEF IInv, TxnInv
<1>2. Advances
  BY <1>1
  DEF IInv, DataOK, Advances, JobStart, At, Sound, Erasing, Start,
      rows, objects
<1>3. DataOK'
  BY <1>1
  DEF IInv, DataOK, JobStart, At, Sound, RowState, Scope, WorkRecord,
      Start, rows, objects
<1>4. PICK w : Goto(r, w) /\ Sound(w)'
  <2> DEFINE work == Work("job.started", f, None, None, {}, scope)
  <2>1. row'[f] # "absent" /\ (scope = "all" => row'[f] = "gone")
    BY <1>2 DEF IInv, JobsInv, JobStart, Advances
  <2>2. Sound(work)'
    BY <2>1 DEF Work, Sound, Erasing, WorkRecord, Pc, Completing, Working
  <2>3. QED
    BY <2>2 DEF JobStart, Start
<1>5. TxnInv'
  BY <1>2, <1>4, TxnStep
  DEF IInv
<1>6. JobsInv'
  BY <1>1, <1>2
  DEF IInv, JobsInv, Advances, DataOK, JobStart, At, Sound, Erasing,
      Scope, WorkRecord, Start, rows, objects
<1>7. ReadyFileHasItsObjects'
  BY <1>1, <1>2
  DEF IInv, ReadyFileHasItsObjects, Advances, DataOK, JobStart, At,
      Sound, Start, rows, objects, PartsOf
<1>8. AvatarIsUsable'
  BY <1>1, <1>2, FileAssumption
  DEF IInv, AvatarIsUsable, Advances, DataOK, JobStart, At, Sound,
      Start, rows, objects
<1>9. QED
  BY <1>3, <1>5, <1>6, <1>7, <1>8 DEF IInv

LEMMA JobDeleteIncomingKeeps ==
  ASSUME IInv, NEW r \in Req, JobDeleteIncoming(r)
  PROVE  IInv'
<1>1. Sound(txn[r])
  BY DEF IInv, TxnInv
<1>2. Advances
  BY <1>1
  DEF IInv, DataOK, Advances, JobDeleteIncoming, At, Sound, Erasing,
      rows
<1>3. DataOK'
  BY <1>1
  DEF IInv, DataOK, JobDeleteIncoming, At, Sound, RowState, Scope,
      WorkRecord, rows
<1>4. PICK w : Goto(r, w) /\ Sound(w)'
  BY <1>1, <1>2, FileAssumption
  DEF IInv, DataOK, JobDeleteIncoming, Finish, At, rows, Idle, On,
      Work, Sound, Erasing, WorkRecord, Pc, Completing, Working, Scope,
      PartsOf
<1>5. TxnInv'
  BY <1>2, <1>4, TxnStep
  DEF IInv
<1>6. JobsInv'
  BY <1>1, <1>2
  DEF IInv, JobsInv, Advances, DataOK, JobDeleteIncoming, At, Sound,
      Erasing, Scope, WorkRecord, rows
<1>7. ReadyFileHasItsObjects'
  BY <1>1, <1>2
  DEF IInv, ReadyFileHasItsObjects, Advances, DataOK,
      JobDeleteIncoming, At, Sound, rows, PartsOf
<1>8. AvatarIsUsable'
  BY <1>1, <1>2, FileAssumption
  DEF IInv, AvatarIsUsable, Advances, DataOK, JobDeleteIncoming, At,
      Sound, rows
<1>9. QED
  BY <1>3, <1>5, <1>6, <1>7, <1>8 DEF IInv

LEMMA JobListKeeps ==
  ASSUME IInv, NEW r \in Req, JobList(r)
  PROVE  IInv'
<1>1. Sound(txn[r])
  BY DEF IInv, TxnInv
<1>2. Advances
  BY <1>1
  DEF IInv, DataOK, Advances, JobList, At, Sound, Erasing, rows,
      objects
<1>3. DataOK'
  BY <1>1
  DEF IInv, DataOK, JobList, At, Sound, RowState, Scope, WorkRecord,
      rows, objects
<1>4. PICK w : Goto(r, w) /\ Sound(w)'
  <2> DEFINE todo == {p \in Part : final[<<txn[r].file, p>>] # None}
             work == Work("job.listed", txn[r].file, None, None, todo, "all")
  <2>1. todo \in SUBSET Part
    OBVIOUS
  <2>2. txn[r].file \in File /\ row'[txn[r].file] = "gone"
    BY <1>1, <1>2 DEF JobList, At, Sound, Erasing, Advances
  <2> HIDE DEF todo
  <2>3. PICK v : v = work
    OBVIOUS
  <2>4. Sound(v)'
    BY <2>1, <2>2, <2>3
    DEF Work, Sound, Erasing, WorkRecord, Pc, Completing, Working, Scope
  <2>5. QED
    BY <2>3, <2>4 DEF JobList, todo
<1>5. TxnInv'
  BY <1>2, <1>4, TxnStep
  DEF IInv
<1>6. JobsInv'
  BY <1>1, <1>2
  DEF IInv, JobsInv, Advances, DataOK, JobList, At, Sound, Erasing,
      Scope, WorkRecord, rows, objects
<1>7. ReadyFileHasItsObjects'
  BY <1>1, <1>2
  DEF IInv, ReadyFileHasItsObjects, Advances, DataOK, JobList, At,
      Sound, rows, objects, PartsOf
<1>8. AvatarIsUsable'
  BY <1>1, <1>2, FileAssumption
  DEF IInv, AvatarIsUsable, Advances, DataOK, JobList, At, Sound,
      rows, objects
<1>9. QED
  BY <1>3, <1>5, <1>6, <1>7, <1>8 DEF IInv

LEMMA JobDeleteKeyKeeps ==
  ASSUME IInv, NEW r \in Req, NEW p \in Part, JobDeleteKey(r, p)
  PROVE  IInv'
<1>1. Sound(txn[r])
  BY DEF IInv, TxnInv
<1>2. Advances
  BY <1>1
  DEF IInv, DataOK, Advances, JobDeleteKey, At, Sound, Erasing, rows
<1>3. DataOK'
  BY <1>1
  DEF IInv, DataOK, JobDeleteKey, At, Sound, RowState, Scope,
      WorkRecord, rows
<1>4. PICK w : Goto(r, w) /\ Sound(w)'
  BY <1>1, <1>2, FileAssumption
  DEF IInv, DataOK, JobDeleteKey, Finish, At, rows, Idle, On, Work,
      Sound, Erasing, WorkRecord, Pc, Completing, Working, Scope,
      PartsOf
<1>5. TxnInv'
  BY <1>2, <1>4, TxnStep
  DEF IInv
<1>6. JobsInv'
  BY <1>1, <1>2
  DEF IInv, JobsInv, Advances, DataOK, JobDeleteKey, At, Sound,
      Erasing, Scope, WorkRecord, rows
<1>7. ReadyFileHasItsObjects'
  BY <1>1, <1>2
  DEF IInv, ReadyFileHasItsObjects, Advances, DataOK, JobDeleteKey, At,
      Sound, rows, PartsOf
<1>8. AvatarIsUsable'
  BY <1>1, <1>2, FileAssumption
  DEF IInv, AvatarIsUsable, Advances, DataOK, JobDeleteKey, At, Sound,
      rows
<1>9. QED
  BY <1>3, <1>5, <1>6, <1>7, <1>8 DEF IInv

LEMMA JobDoneKeeps ==
  ASSUME IInv, NEW r \in Req, JobDone(r)
  PROVE  IInv'
<1>1. Sound(txn[r])
  BY DEF IInv, TxnInv
<1>2. Advances
  BY <1>1
  DEF IInv, DataOK, Advances, JobDone, At, Sound, Erasing, rows,
      objects
<1>3. DataOK'
  BY <1>1
  DEF IInv, DataOK, JobDone, At, Sound, RowState, Scope, WorkRecord,
      rows, objects
<1>4. PICK w : Goto(r, w) /\ Sound(w)'
  BY <1>1, <1>2, FileAssumption
  DEF IInv, DataOK, JobDone, Finish, At, rows, objects, Idle, On, Work,
      Sound, Erasing, WorkRecord, Pc, Completing, Working, Scope,
      PartsOf
<1>5. TxnInv'
  BY <1>2, <1>4, TxnStep
  DEF IInv
<1>6. JobsInv'
  BY <1>1, <1>2
  DEF IInv, JobsInv, Advances, DataOK, JobDone, At, Sound, Erasing,
      Scope, WorkRecord, rows, objects
<1>7. ReadyFileHasItsObjects'
  BY <1>1, <1>2
  DEF IInv, ReadyFileHasItsObjects, Advances, DataOK, JobDone, At,
      Sound, rows, objects, PartsOf
<1>8. AvatarIsUsable'
  BY <1>1, <1>2, FileAssumption
  DEF IInv, AvatarIsUsable, Advances, DataOK, JobDone, At, Sound,
      rows, objects
<1>9. QED
  BY <1>3, <1>5, <1>6, <1>7, <1>8 DEF IInv

LEMMA JobRetryKeeps ==
  ASSUME IInv, NEW r \in Req, JobRetry(r)
  PROVE  IInv'
<1>1. Sound(txn[r])
  BY DEF IInv, TxnInv
<1>2. Advances
  BY <1>1
  DEF IInv, DataOK, Advances, JobRetry, At, Sound, Erasing, rows,
      objects, Working
<1>3. DataOK'
  BY <1>1
  DEF IInv, DataOK, JobRetry, At, Sound, RowState, Scope, WorkRecord,
      rows, objects, Working
<1>4. PICK w : Goto(r, w) /\ Sound(w)'
  BY <1>1, <1>2, FileAssumption
  DEF IInv, DataOK, JobRetry, Finish, At, rows, objects, Working, Idle,
      On, Work, Sound, Erasing, WorkRecord, Pc, Completing, Scope,
      PartsOf
<1>5. TxnInv'
  BY <1>2, <1>4, TxnStep
  DEF IInv
<1>6. JobsInv'
  BY <1>1, <1>2
  DEF IInv, JobsInv, Advances, DataOK, JobRetry, At, Sound, Erasing,
      Scope, WorkRecord, rows, objects, Working
<1>7. ReadyFileHasItsObjects'
  BY <1>1, <1>2
  DEF IInv, ReadyFileHasItsObjects, Advances, DataOK, JobRetry, At,
      Sound, rows, objects, Working, PartsOf
<1>8. AvatarIsUsable'
  BY <1>1, <1>2, FileAssumption
  DEF IInv, AvatarIsUsable, Advances, DataOK, JobRetry, At, Sound,
      rows, objects, Working
<1>9. QED
  BY <1>3, <1>5, <1>6, <1>7, <1>8 DEF IInv

LEMMA JobGivesUpKeeps ==
  ASSUME IInv, NEW r \in Req, JobGivesUp(r)
  PROVE  IInv'
<1>1. Sound(txn[r])
  BY DEF IInv, TxnInv
<1>2. Advances
  BY <1>1
  DEF IInv, DataOK, Advances, JobGivesUp, At, Sound, Erasing, Loses,
      rows, objects, Working
<1>3. DataOK'
  BY <1>1
  DEF IInv, DataOK, JobGivesUp, At, Sound, RowState, Scope,
      WorkRecord, Loses, rows, objects, Working
<1>4. PICK w : Goto(r, w) /\ Sound(w)'
  BY <1>1, <1>2, FileAssumption
  DEF IInv, DataOK, JobGivesUp, Finish, At, Loses, rows, objects,
      Working, Idle, On, Work, Sound, Erasing, WorkRecord, Pc,
      Completing, Scope, PartsOf
<1>5. TxnInv'
  BY <1>2, <1>4, TxnStep
  DEF IInv
<1>6. JobsInv'
  BY <1>1, <1>2
  DEF IInv, JobsInv, Advances, DataOK, JobGivesUp, At, Sound, Erasing,
      Scope, WorkRecord, Loses, rows, objects, Working
<1>7. ReadyFileHasItsObjects'
  BY <1>1, <1>2
  DEF IInv, ReadyFileHasItsObjects, Advances, DataOK, JobGivesUp, At,
      Sound, Loses, rows, objects, Working, PartsOf
<1>8. AvatarIsUsable'
  BY <1>1, <1>2, FileAssumption
  DEF IInv, AvatarIsUsable, Advances, DataOK, JobGivesUp, At, Sound,
      Loses, rows, objects, Working
<1>9. QED
  BY <1>3, <1>5, <1>6, <1>7, <1>8 DEF IInv

LEMMA UrlLapsesKeeps ==
  ASSUME IInv, NEW f \in File, UrlLapses(f)
  PROVE  IInv'
<1>1. Advances
  BY DEF IInv, DataOK, Advances, UrlLapses, rows
<1>2. DataOK'
  BY DEF IInv, DataOK, UrlLapses, RowState, Scope, rows
<1>3. TxnInv'
  BY <1>1, TxnStays
  DEF IInv, UrlLapses, rows
<1>4. JobsInv' /\ ReadyFileHasItsObjects' /\ AvatarIsUsable'
  BY FileAssumption
  DEF IInv, JobsInv, ReadyFileHasItsObjects, AvatarIsUsable, DataOK,
      UrlLapses, rows, PartsOf
<1>5. QED
  BY <1>2, <1>3, <1>4 DEF IInv

LEMMA AgeKeeps ==
  ASSUME IInv, NEW f \in File, Age(f)
  PROVE  IInv'
<1>1. Advances
  BY DEF IInv, DataOK, Advances, Age, objects
<1>2. DataOK'
  BY DEF IInv, DataOK, Age, RowState, Scope, objects
<1>3. TxnInv'
  BY <1>1, TxnStays
  DEF IInv, Age, objects
<1>4. JobsInv' /\ ReadyFileHasItsObjects' /\ AvatarIsUsable'
  BY FileAssumption
  DEF IInv, JobsInv, ReadyFileHasItsObjects, AvatarIsUsable, DataOK,
      Age, objects, PartsOf
<1>5. QED
  BY <1>2, <1>3, <1>4 DEF IInv

LEMMA LifecycleExpiresKeeps ==
  ASSUME IInv, NEW f \in File, LifecycleExpires(f)
  PROVE  IInv'
<1>1. Advances
  BY DEF IInv, DataOK, Advances, LifecycleExpires, rows
<1>2. DataOK'
  BY DEF IInv, DataOK, LifecycleExpires, RowState, Scope, rows
<1>3. TxnInv'
  BY <1>1, TxnStays
  DEF IInv, LifecycleExpires, rows
<1>4. JobsInv' /\ ReadyFileHasItsObjects' /\ AvatarIsUsable'
  BY FileAssumption
  DEF IInv, JobsInv, ReadyFileHasItsObjects, AvatarIsUsable, DataOK,
      LifecycleExpires, rows, PartsOf
<1>5. QED
  BY <1>2, <1>3, <1>4 DEF IInv

LEMMA CrashKeeps ==
  ASSUME IInv, NEW r \in Req, Crash(r)
  PROVE  IInv'
<1>1. Sound(txn[r])
  BY DEF IInv, TxnInv
<1>2. Advances
  BY <1>1
  DEF IInv, DataOK, Advances, Crash, At, Sound, Erasing, Loses, rows,
      objects, Working
<1>3. DataOK'
  BY <1>1
  DEF IInv, DataOK, Crash, At, Sound, RowState, Scope, WorkRecord,
      Loses, rows, objects, Working
<1>4. PICK w : Goto(r, w) /\ Sound(w)'
  BY <1>1, <1>2, FileAssumption
  DEF IInv, DataOK, Crash, Finish, At, Loses, rows, objects, Working,
      Idle, On, Work, Sound, Erasing, WorkRecord, Pc, Completing,
      Scope, PartsOf
<1>5. TxnInv'
  BY <1>2, <1>4, TxnStep
  DEF IInv
<1>6. JobsInv'
  BY <1>1, <1>2
  DEF IInv, JobsInv, Advances, DataOK, Crash, At, Sound, Erasing,
      Scope, WorkRecord, Loses, rows, objects, Working
<1>7. ReadyFileHasItsObjects'
  BY <1>1, <1>2
  DEF IInv, ReadyFileHasItsObjects, Advances, DataOK, Crash, At, Sound,
      Loses, rows, objects, Working, PartsOf
<1>8. AvatarIsUsable'
  BY <1>1, <1>2, FileAssumption
  DEF IInv, AvatarIsUsable, Advances, DataOK, Crash, At, Sound, Loses,
      rows, objects, Working
<1>9. QED
  BY <1>3, <1>5, <1>6, <1>7, <1>8 DEF IInv

-----------------------------------------------------------------------------

LEMMA InvStep == IInv /\ [Next]_vars => IInv'
<1> SUFFICES ASSUME IInv, [Next]_vars PROVE IInv'
  OBVIOUS
<1>1. ASSUME NEW r \in Req, CompleteStep(r) PROVE IInv'
  BY <1>1, HeadKeeps, EnterProcessorKeeps, LoadKeeps, SniffKeeps, CopyKeeps, PutObjectKeeps,
     MarkReadyKeeps, MarkMissedKeeps, SendDeleteKeeps,
     ResolveRejectedKeeps, DiscardKeeps
  DEF CompleteStep
<1>2. ASSUME NEW r \in Req, JobStep(r) PROVE IInv'
  BY <1>2, JobDeleteIncomingKeeps, JobListKeeps, JobDeleteKeyKeeps,
     JobDoneKeeps
  DEF JobStep
<1>3. ASSUME NEW r \in Req, NEW f \in File, Begin(r, f) PROVE IInv'
  BY <1>3, CompleteReadKeeps, SweepPickKeeps, AttachReadKeeps, JobStartKeeps
  DEF Begin
<1>4. ASSUME NEW r \in Req, Fail(r) PROVE IInv'
  BY <1>4, StoreFailsKeeps, JobRetryKeeps, JobGivesUpKeeps, CrashKeeps
  DEF Fail
<1>5. ASSUME NEW f \in File, FileStep(f) PROVE IInv'
  BY <1>5, CreateUploadKeeps, ClientPutKeeps, UrlLapsesKeeps, AgeKeeps,
     LifecycleExpiresKeeps
  DEF FileStep
<1>6. ASSUME NEW r \in Req, Proceed(r) PROVE IInv'
  BY <1>6, <1>1, <1>2, AttachKeeps, SweepRemoveKeeps DEF Proceed
<1>7. CASE UNCHANGED vars
  <2>1. Advances
    BY <1>7 DEF vars, rows, objects, IInv, DataOK, Advances
  <2>2. DataOK' /\ JobsInv' /\ ReadyFileHasItsObjects' /\ AvatarIsUsable'
    BY <1>7 DEF vars, rows, objects, IInv, DataOK, JobsInv,
      ReadyFileHasItsObjects, AvatarIsUsable, PartsOf
  <2>3. TxnInv'
    BY <1>7, <2>1, TxnStays DEF vars, IInv
  <2>4. QED
    BY <2>2, <2>3 DEF IInv
<1>8. CASE Next
  BY <1>8, <1>3, <1>4, <1>5, <1>6, DetachKeeps DEF Next
<1>9. QED
  BY <1>7, <1>8

LEMMA Invariance == Spec => []IInv
  BY InvInit, InvStep, PTL DEF Spec

-----------------------------------------------------------------------------

\* Every row, object, job and request in flight keeps its shape.
THEOREM TypeCorrect == Spec => []TypeOK
  BY Invariance, InvImpliesTypeOK, PTL

\* However completes, jobs, retries, sweeps and crashes interleave, a file whose
\* row says ready has every one of its objects, of acceptable content.
THEOREM ReadyFilesHaveTheirObjects == Spec => []ReadyFileHasItsObjects
<1>1. IInv => ReadyFileHasItsObjects
  BY DEF IInv
<1>2. QED
  BY <1>1, Invariance, PTL

\* An avatar refers to a ready file of its user's, whatever attachments and
\* sweeps meet.
THEOREM AvatarsAreUsable == Spec => []AvatarIsUsable
<1>1. IInv => AvatarIsUsable
  BY DEF IInv
<1>2. QED
  BY <1>1, Invariance, PTL

-----------------------------------------------------------------------------
(* What is owed to the objects of a deleted file.  A request's step hands on  *)
(* what it owed itself, to its next step or to a job, and says nothing of     *)
(* what others owe.                                                           *)

\* A job that is beyond incoming/ was asked for everything.
ScopeInv ==
  \A r \in Req : txn[r].pc \in {"job.prefix", "job.listed"} => txn[r].scope = "all"

OweInv == ErasureIsOwed /\ ScopeInv

\* Request r goes on with w.  A row that is deleted has its job, a job taken from
\* the queue is w's, an object that is written is w's to account for, and so is
\* what r has owed, unless it is queued or has been marked lost.
HandsOver(r, w) ==
  /\ Goto(r, w)
  /\ w.pc \in {"job.prefix", "job.listed"} => w.scope = "all"
  /\ lost \subseteq lost'
  /\ \A f \in File \ lost' : row'[f] = "gone" =>
       /\ row[f] = "gone" \/ <<f, "all">> \in jobs'
       /\ \A p \in Part : final'[<<f, p>>] # None =>
            /\ final[<<f, p>>] # None \/ Owes(w, f, p)
            /\ <<f, "all">> \in jobs \/ Owes(txn[r], f, p)
                 => <<f, "all">> \in jobs' \/ Owes(w, f, p)

LEMMA HandedOver ==
  ASSUME IInv, OweInv, NEW r \in Req, NEW w, HandsOver(r, w)
  PROVE  OweInv'
<1>1. /\ txn'[r] = w
      /\ \A q \in Req \ {r} : txn'[q] = txn[q]
  BY DEF HandsOver, Goto, IInv, TxnInv
<1>2. ScopeInv'
  BY <1>1 DEF HandsOver, OweInv, ScopeInv
<1>3. ASSUME NEW f \in File \ lost', NEW p \in Part,
             row'[f] = "gone", final'[<<f, p>>] # None,
             <<f, "all">> \notin jobs', ~Owes(w, f, p)
      PROVE  \E q \in Req : Owes(txn'[q], f, p)
  <2>1. /\ f \notin lost /\ row[f] = "gone" /\ final[<<f, p>>] # None
        /\ <<f, "all">> \notin jobs /\ ~Owes(txn[r], f, p)
    BY <1>3 DEF HandsOver
  <2>2. PICK q \in Req : Owes(txn[q], f, p)
    BY <2>1 DEF OweInv, ErasureIsOwed
  <2>3. q # r /\ txn'[q] = txn[q]
    BY <1>1, <2>1, <2>2
  <2>4. QED
    BY <2>2, <2>3
<1>4. ErasureIsOwed'
  <2>1. SUFFICES ASSUME NEW f \in File \ lost', NEW p \in Part,
                        row'[f] = "gone", final'[<<f, p>>] # None,
                        <<f, "all">> \notin jobs'
                 PROVE  \E q \in Req : Owes(txn'[q], f, p)
    BY DEF ErasureIsOwed, Owes
  <2>2. CASE Owes(w, f, p)
    BY <1>1, <2>2
  <2>3. CASE ~Owes(w, f, p)
    BY <1>3, <2>1, <2>3
  <2>4. QED
    BY <2>2, <2>3
<1>5. QED
  BY <1>2, <1>4 DEF OweInv

\* A step of no request removes no job, and neither deletes a row nor writes an
\* object.
LEMMA OweStays ==
  ASSUME IInv, OweInv, txn' = txn, jobs' = jobs, lost' = lost, final' = final,
         \A f \in File : row'[f] = "gone" => row[f] = "gone"
  PROVE  OweInv'
  BY DEF OweInv, ErasureIsOwed, ScopeInv, Owes

LEMMA CompleteStepOwes ==
  ASSUME IInv, OweInv, NEW r \in Req, CompleteStep(r)
  PROVE  \E w : HandsOver(r, w)
<1> USE DEF HandsOver, Owes, Idle, On, Work, At, rows, objects
<1>1. CASE Head(r)
  BY <1>1 DEF Head, Finish
<1>2. CASE EnterProcessor(r)
  BY <1>2 DEF EnterProcessor, Finish
<1>3. CASE Load(r)
  BY <1>3 DEF Load, GetBytes, Finish
<1>4. CASE Sniff(r)
  BY <1>4 DEF Sniff, GetBytes, Finish
<1>5. CASE Copy(r)
  BY <1>5 DEF Copy, Finish, IInv, DataOK, TxnInv, Sound
<1>6. ASSUME NEW p \in Part, PutObject(r, p) PROVE \E w : HandsOver(r, w)
  BY <1>6 DEF PutObject, IInv, DataOK, TxnInv, Sound
<1>7. CASE MarkReady(r)
  BY <1>7 DEF MarkReady, Stored, Finish, IInv, DataOK, TxnInv, Sound
<1>8. CASE MarkMissed(r)
  BY <1>8 DEF MarkMissed, Stored, Finish
<1>9. CASE SendDelete(r)
  BY <1>9 DEF SendDelete, Finish
<1>10. CASE ResolveRejected(r)
  BY <1>10 DEF ResolveRejected, Finish
<1>11. CASE Discard(r)
  BY <1>11 DEF Discard, DeleteRow, Finish, IInv, DataOK, TxnInv, Sound
<1>12. QED
  BY <1>1, <1>2, <1>3, <1>4, <1>5, <1>6, <1>7, <1>8, <1>9, <1>10, <1>11
  DEF CompleteStep

LEMMA JobStepOwes ==
  ASSUME IInv, OweInv, NEW r \in Req, JobStep(r)
  PROVE  \E w : HandsOver(r, w)
<1> USE DEF HandsOver, Owes, Idle, On, Work, At, rows, objects
<1>1. CASE JobDeleteIncoming(r)
  BY <1>1 DEF JobDeleteIncoming, Finish
<1>2. CASE JobList(r)
  BY <1>2 DEF JobList
<1>3. ASSUME NEW p \in Part, JobDeleteKey(r, p) PROVE \E w : HandsOver(r, w)
  <2> DEFINE w == Work("job.listed", txn[r].file, None, None, txn[r].todo \ {p}, "all")
  <2>1. txn[r].file \in File
    BY <1>3 DEF JobDeleteKey, IInv, TxnInv, Sound
  <2>2. \A f \in File, q \in Part :
          final'[<<f, q>>] # None
            => final[<<f, q>>] # None /\ ~(f = txn[r].file /\ q = p)
    BY <1>3, <2>1 DEF JobDeleteKey, IInv, DataOK
  <2>3. \A f \in File, q \in Part :
          Owes(txn[r], f, q) /\ ~(f = txn[r].file /\ q = p) => Owes(w, f, q)
    BY <1>3 DEF JobDeleteKey
  <2>4. HandsOver(r, w)
    BY <1>3, <2>2, <2>3 DEF JobDeleteKey
  <2>5. QED
    BY <2>4
<1>4. CASE JobDone(r)
  BY <1>4 DEF JobDone, Finish
<1>5. QED
  BY <1>1, <1>2, <1>3, <1>4 DEF JobStep

LEMMA OtherStepOwes ==
  ASSUME IInv, OweInv, NEW r \in Req,
         \/ Attach(r) \/ SweepRemove(r) \/ Fail(r)
         \/ \E f \in File : Begin(r, f)
  PROVE  \E w : HandsOver(r, w)
<1> USE DEF HandsOver, Owes, Idle, On, Work, At, rows, objects
<1>1. CASE Attach(r)
  BY <1>1 DEF Attach, Finish
<1>2. CASE SweepRemove(r)
  BY <1>2 DEF SweepRemove, DeleteRow, Finish, IInv, DataOK, TxnInv, Sound
<1>3. CASE StoreFails(r)
  BY <1>3 DEF StoreFails, Loses, Completing, Finish
<1>4. CASE JobRetry(r)
  BY <1>4 DEF JobRetry, Working, Finish, OweInv, ScopeInv
<1>5. CASE JobGivesUp(r)
  BY <1>5 DEF JobGivesUp, Loses, Finish
<1>6. CASE Crash(r)
  BY <1>6 DEF Crash, Loses, Working, Finish
<1>7. ASSUME NEW f \in File, Begin(r, f) PROVE \E w : HandsOver(r, w)
  <2>1. CASE CompleteRead(r, f)
    BY <2>1 DEF CompleteRead, Start
  <2>2. CASE SweepPick(r, f)
    BY <2>2 DEF SweepPick, Start
  <2>3. ASSUME NEW u \in User, AttachRead(r, u, f) PROVE \E w : HandsOver(r, w)
    BY <2>3 DEF AttachRead, Start
  <2>4. ASSUME NEW scope \in Scope, JobStart(r, f, scope)
        PROVE  \E w : HandsOver(r, w)
    BY <2>4 DEF JobStart, Start, Scope
  <2>5. QED
    BY <1>7, <2>1, <2>2, <2>3, <2>4 DEF Begin
<1>8. QED
  BY <1>1, <1>2, <1>3, <1>4, <1>5, <1>6, <1>7 DEF Fail

LEMMA OweStep == IInv /\ OweInv /\ [Next]_vars => OweInv'
<1> SUFFICES ASSUME IInv, OweInv, [Next]_vars PROVE OweInv'
  OBVIOUS
<1>1. ASSUME NEW r \in Req, Proceed(r) \/ Fail(r) \/ \E f \in File : Begin(r, f)
      PROVE  OweInv'
  <2>1. \E w : HandsOver(r, w)
    BY <1>1, CompleteStepOwes, JobStepOwes, OtherStepOwes DEF Proceed
  <2>2. QED
    BY <2>1, HandedOver
<1>2. ASSUME NEW f \in File, FileStep(f) PROVE OweInv'
  <2>1. /\ txn' = txn /\ jobs' = jobs /\ lost' = lost /\ final' = final
        /\ \A g \in File : row'[g] = "gone" => row[g] = "gone"
    BY <1>2 DEF FileStep, CreateUpload, ClientPut, UrlLapses, Age,
       LifecycleExpires, rows, objects, IInv, DataOK
  <2>2. QED
    BY <2>1, OweStays
<1>3. ASSUME NEW u \in User, Detach(u) PROVE OweInv'
  BY <1>3, OweStays DEF Detach, objects
<1>4. CASE UNCHANGED vars
  BY <1>4, OweStays DEF vars, rows, objects
<1>5. QED
  BY <1>1, <1>2, <1>3, <1>4 DEF Next

\* No object of a deleted file is forgotten: somebody is to delete it, or a
\* failure has left it, for any number of completes, sweeps and jobs that race.
THEOREM ErasureStaysOwed == Spec => []ErasureIsOwed
<1>1. Init => OweInv
  BY FileAssumption
  DEF Init, OweInv, ErasureIsOwed, ScopeInv, Idle, On, Work
<1>2. OweInv => ErasureIsOwed
  BY DEF OweInv
<1>3. QED
  BY <1>1, <1>2, OweStep, Invariance, PTL DEF Spec

=============================================================================
