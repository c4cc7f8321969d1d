--------------------------- MODULE FileLifecycle ---------------------------
(***************************************************************************)
(* Uploaded files from the upload ticket to the removal of their objects:  *)
(* POST /files/uploads, the client's PUT, POST /files/:id/complete, the    *)
(* avatar that refers to a file, the daily sweep and the object-delete     *)
(* job.  Rows live in PostgreSQL and objects in an S3 store; nothing makes *)
(* a write to both atomic.                                                 *)
(*                                                                         *)
(* Requests, the sweep and the queue's workers run one database or storage *)
(* call at a time.  An interactive transaction that consists of writes     *)
(* only is one step: those that meet on a row wait for each other's        *)
(* commit, and a foreign key that would dangle makes the later one fail.   *)
(*                                                                         *)
(* A file is an image, rendered and stored as several objects, or a        *)
(* document, whose first bytes are looked at and which the store copies.   *)
(* The clock is reduced to the comparisons made: whether the upload URL is *)
(* still valid, whether createdAt or readyAt lies more than a day back.    *)
(***************************************************************************)
EXTENDS Integers, FiniteSets

CONSTANTS
  User,         \* users
  File,         \* file ids
  Part, Main,   \* the objects an image is stored as: the master and the
                \* variants; a document is stored as Main alone
  Body, Valid,  \* contents a client may upload, and the acceptable ones
  Req,          \* requests, sweeps and workers in flight
  Concurrency,  \* IMAGE_CONCURRENCY
  None          \* no user, file or content

ASSUME FileAssumption ==
  /\ Main \in Part
  /\ Valid \subseteq Body
  /\ None \notin User \cup File \cup Body
  /\ Concurrency \in Nat \ {0}

VARIABLES
  row,       \* the status of the StoredFile row
  owner,     \* its ownerId
  kind,      \* whether its purpose is one of images or of documents
  aged,      \* whether its createdAt, or readyAt once ready, is a day back
  avatar,    \* User.avatarFileId
  url,       \* whether the upload URL is still valid
  incoming,  \* the object incoming/<id>
  final,     \* the objects under <purpose>/<id>/
  jobs,      \* the queued file.object-delete jobs
  txn,       \* what each request or worker is doing
  lost       \* files some failure may have left objects of

rows == <<row, owner, kind, aged, avatar>>
objects == <<url, incoming, final>>
vars == <<rows, objects, jobs, txn, lost>>

RowState == {"absent", "pending", "ready", "gone"}
Kind == {"image", "document"}
Scope == {"incoming", "all"}

Completing == {"pending", "headed", "processing", "sniffed", "storing"}
Working == {"job.started", "job.prefix", "job.listed"}
Pc == Completing \cup Working \cup
      {"idle", "missed", "rejected", "discarding", "attaching", "picked"}

\* At pc for file f: the user who attaches it, the content seen, the objects
\* still to be written or deleted, the scope of the job.
Work(pc, f, u, b, todo, scope) ==
  [pc |-> pc, file |-> f, user |-> u, body |-> b, todo |-> todo, scope |-> scope]

\* Mutant of On: two arguments are exchanged.
OnExchanged(pc, f, b) == Work(pc, f, b, None, {}, "incoming")

On(pc, f, b) == Work(pc, f, None, b, {}, "incoming")
Idle == On("idle", None, None)

-----------------------------------------------------------------------------

At(r, pc) == txn[r].pc = pc
Goto(r, work) == txn' = [txn EXCEPT ![r] = work]
Start(r, work) == At(r, "idle") /\ Goto(r, work)
Finish(r) == Goto(r, Idle)

Referenced(f) == \E u \in User : avatar[u] = f
Processing == {r \in Req : At(r, "processing")}
PartsOf(f) == IF kind[f] = "document" THEN {Main} ELSE Part
Erased(f) == \A p \in Part : final[<<f, p>>] = None
Loses(r) == lost' = lost \cup {txn[r].file}

\* A transaction deletes the row of f and queues the removal of its objects.
DeleteRow(f) ==
  /\ row' = [row EXCEPT ![f] = "gone"]
  /\ jobs' = jobs \cup {<<f, "all">>}
  /\ UNCHANGED <<owner, kind, aged, avatar>>

-----------------------------------------------------------------------------
(* Uploading *)

CreateUpload(u, f, k) ==
  /\ row[f] = "absent"
  /\ row' = [row EXCEPT ![f] = "pending"]
  /\ owner' = [owner EXCEPT ![f] = u]
  /\ kind' = [kind EXCEPT ![f] = k]
  /\ url' = [url EXCEPT ![f] = TRUE]
  /\ UNCHANGED <<aged, avatar, incoming, final, jobs, txn, lost>>

\* The URL is signed with If-None-Match: *, so it overwrites nothing.
ClientPut(f, b) ==
  /\ url[f] /\ incoming[f] = None
  /\ incoming' = [incoming EXCEPT ![f] = b]
  /\ UNCHANGED <<rows, url, final, jobs, txn, lost>>

-----------------------------------------------------------------------------
(* complete *)

\* A file that is ready is returned as it is.
CompleteRead(r, f) ==
  /\ row[f] = "pending"
  /\ Start(r, On("pending", f, None))
  /\ UNCHANGED <<rows, objects, jobs, lost>>

\* The content is known by its etag from here on; what is empty or too large is
\* rejected at once.
Head(r) ==
  LET f == txn[r].file
      b == incoming[f]
  IN /\ At(r, "pending")
     /\ \/ b = None /\ Finish(r)
        \/ b # None /\ Goto(r, On("headed", f, b))
        \/ b \in Body \ Valid /\ Goto(r, On("rejected", f, b))
     /\ UNCHANGED <<rows, objects, jobs, lost>>

\* At most IMAGE_CONCURRENCY images at a time; others are told to come back.
EnterProcessor(r) ==
  /\ At(r, "headed") /\ kind[txn[r].file] = "image"
  /\ IF Cardinality(Processing) < Concurrency
       THEN Goto(r, On("processing", txn[r].file, txn[r].body))
       ELSE Finish(r)
  /\ UNCHANGED <<rows, objects, jobs, lost>>

\* getBytes with If-Match on the etag, then a look at the content: goes on to
\* work if it is there, unchanged and acceptable.
GetBytes(r, work) ==
  LET f == txn[r].file
      b == txn[r].body
  IN /\ IF incoming[f] = None THEN Finish(r)
        ELSE IF incoming[f] = b /\ b \in Valid THEN Goto(r, work)
        ELSE Goto(r, On("rejected", f, b))
     /\ UNCHANGED <<rows, objects, jobs, lost>>

\* The image is decoded.
Load(r) ==
  /\ At(r, "processing")
  /\ GetBytes(r, Work("storing", txn[r].file, None, txn[r].body, Part, "incoming"))

\* The first bytes of a document tell its type.
Sniff(r) ==
  /\ At(r, "headed") /\ kind[txn[r].file] = "document"
  /\ GetBytes(r, On("sniffed", txn[r].file, txn[r].body))

\* Mutant of Copy: without CopySourceIfMatch.
CopyWhatIsThere(r) ==
  LET f == txn[r].file
  IN /\ At(r, "sniffed") /\ incoming[f] # None
     /\ final' = [final EXCEPT ![<<f, Main>>] = incoming[f]]
     /\ Goto(r, On("storing", f, txn[r].body))
     /\ UNCHANGED <<rows, url, incoming, jobs, lost>>

\* The store copies a document that is still the one that was looked at.
Copy(r) ==
  LET f == txn[r].file
      b == txn[r].body
  IN /\ At(r, "sniffed")
     /\ IF incoming[f] = b
          THEN /\ final' = [final EXCEPT ![<<f, Main>>] = b]
               /\ Goto(r, On("storing", f, b))
          ELSE /\ IF incoming[f] = None THEN Finish(r) ELSE Goto(r, On("rejected", f, b))
               /\ UNCHANGED final
     /\ UNCHANGED <<rows, url, incoming, jobs, lost>>

\* The master and the variants are written side by side.
PutObject(r, p) ==
  LET f == txn[r].file
      b == txn[r].body
  IN /\ At(r, "storing") /\ p \in txn[r].todo
     /\ final' = [final EXCEPT ![<<f, p>>] = b]
     /\ Goto(r, Work("storing", f, None, b, txn[r].todo \ {p}, "incoming"))
     /\ UNCHANGED <<rows, url, incoming, jobs, lost>>

Stored(r) == At(r, "storing") /\ txn[r].todo = {}

MarkReady(r) ==
  LET f == txn[r].file
  IN /\ Stored(r) /\ row[f] = "pending"
     /\ row' = [row EXCEPT ![f] = "ready"]
     /\ aged' = [aged EXCEPT ![f] = FALSE]
     /\ jobs' = jobs \cup {<<f, "incoming">>}
     /\ Finish(r)
     /\ UNCHANGED <<owner, kind, avatar, objects, lost>>

\* Mutant of MarkMissed: what was stored for a row that is gone is left there.
MissedLeaves(r) ==
  /\ Stored(r) /\ row[txn[r].file] # "pending"
  /\ Finish(r)
  /\ UNCHANGED <<rows, objects, jobs, lost>>

\* Another request made it ready first, or the row is gone: then what was
\* stored is to be deleted again, by a job of its own.
MarkMissed(r) ==
  LET f == txn[r].file
  IN /\ Stored(r) /\ row[f] # "pending"
     /\ IF row[f] = "ready" THEN Finish(r) ELSE Goto(r, On("missed", f, None))
     /\ UNCHANGED <<rows, objects, jobs, lost>>

\* Mutant of SendDelete: the job is sent for the upload alone.
SendDeleteIncoming(r) ==
  /\ At(r, "missed")
  /\ jobs' = jobs \cup {<<txn[r].file, "incoming">>}
  /\ Finish(r)
  /\ UNCHANGED <<rows, objects, lost>>

SendDelete(r) ==
  /\ At(r, "missed")
  /\ jobs' = jobs \cup {<<txn[r].file, "all">>}
  /\ Finish(r)
  /\ UNCHANGED <<rows, objects, lost>>

\* The storage cannot be reached or the deadline passes: the row stays.  A copy or
\* a write that was under way may land all the same.
StoreFails(r) ==
  /\ txn[r].pc \in Completing
  /\ IF txn[r].pc \in {"sniffed", "storing"} THEN Loses(r) ELSE UNCHANGED lost
  /\ Finish(r)
  /\ UNCHANGED <<rows, objects, jobs>>

\* The content is not acceptable; unless another request has made the file
\* ready meanwhile, its row is deleted.
ResolveRejected(r) ==
  /\ At(r, "rejected")
  /\ IF row[txn[r].file] = "ready" THEN Finish(r)
                                   ELSE Goto(r, On("discarding", txn[r].file, None))
  /\ UNCHANGED <<rows, objects, jobs, lost>>

Discard(r) ==
  /\ At(r, "discarding")
  /\ IF row[txn[r].file] = "pending" THEN DeleteRow(txn[r].file)
                                     ELSE UNCHANGED <<rows, jobs>>
  /\ Finish(r)
  /\ UNCHANGED <<objects, lost>>

-----------------------------------------------------------------------------
(* The avatar *)

\* assertAttachable reads the row and takes no lock on it.
AttachRead(r, u, f) ==
  /\ row[f] = "ready" /\ owner[f] = u /\ kind[f] = "image"
  /\ Start(r, Work("attaching", f, u, None, {}, "incoming"))
  /\ UNCHANGED <<rows, objects, jobs, lost>>

\* The foreign key admits only a file whose row is still there.
Attach(r) ==
  LET f == txn[r].file
      u == txn[r].user
  IN /\ At(r, "attaching")
     /\ IF row[f] = "gone"
          THEN UNCHANGED rows
          ELSE /\ avatar' = [avatar EXCEPT ![u] = f]
               /\ UNCHANGED <<row, owner, kind, aged>>
     /\ Finish(r)
     /\ UNCHANGED <<objects, jobs, lost>>

\* DELETE /users/me/avatar, or the anonymization of the account.
Detach(u) ==
  /\ avatar[u] # None
  /\ avatar' = [avatar EXCEPT ![u] = None]
  /\ UNCHANGED <<row, owner, kind, aged, objects, jobs, txn, lost>>

-----------------------------------------------------------------------------
(* The sweep and the object-delete job *)

\* Mutant of Removable: references are not looked at.
RemovableReferenced(f) == aged[f] /\ row[f] \in {"pending", "ready"}

Removable(f) ==
  /\ aged[f] /\ row[f] \in {"pending", "ready"}
  /\ row[f] = "ready" => ~Referenced(f)

\* A batch of candidates is listed, then each is looked at again and deleted.
SweepPick(r, f) ==
  /\ Removable(f)
  /\ Start(r, On("picked", f, None))
  /\ UNCHANGED <<rows, objects, jobs, lost>>

\* onDelete: Restrict fails the deletion of a file that was attached meanwhile.
SweepRemove(r) ==
  /\ At(r, "picked")
  /\ IF Removable(txn[r].file) THEN DeleteRow(txn[r].file)
                               ELSE UNCHANGED <<rows, jobs>>
  /\ Finish(r)
  /\ UNCHANGED <<objects, lost>>

JobStart(r, f, scope) ==
  /\ <<f, scope>> \in jobs
  /\ jobs' = jobs \ {<<f, scope>>}
  /\ Start(r, Work("job.started", f, None, None, {}, scope))
  /\ UNCHANGED <<rows, objects, lost>>

JobDeleteIncoming(r) ==
  LET f == txn[r].file
  IN /\ At(r, "job.started")
     /\ incoming' = [incoming EXCEPT ![f] = None]
     /\ IF txn[r].scope = "all"
          THEN Goto(r, Work("job.prefix", f, None, None, {}, "all"))
          ELSE Finish(r)
     /\ UNCHANGED <<rows, url, final, jobs, lost>>

\* deletePrefix lists the keys there are, then deletes those.
JobList(r) ==
  LET f == txn[r].file
  IN /\ At(r, "job.prefix")
     /\ Goto(r, Work("job.listed", f, None, None,
                     {p \in Part : final[<<f, p>>] # None}, "all"))
     /\ UNCHANGED <<rows, objects, jobs, lost>>

JobDeleteKey(r, p) ==
  LET f == txn[r].file
  IN /\ At(r, "job.listed") /\ p \in txn[r].todo
     /\ final' = [final EXCEPT ![<<f, p>>] = None]
     /\ Goto(r, Work("job.listed", f, None, None, txn[r].todo \ {p}, "all"))
     /\ UNCHANGED <<rows, url, incoming, jobs, lost>>

JobDone(r) ==
  /\ At(r, "job.listed") /\ txn[r].todo = {}
  /\ Finish(r)
  /\ UNCHANGED <<rows, objects, jobs, lost>>

\* The job fails or its worker dies: it is run again from the start.
JobRetry(r) ==
  /\ txn[r].pc \in Working
  /\ jobs' = jobs \cup {<<txn[r].file, txn[r].scope>>}
  /\ Finish(r)
  /\ UNCHANGED <<rows, objects, lost>>

\* No retries are left.
JobGivesUp(r) ==
  /\ txn[r].pc \in Working
  /\ Loses(r)
  /\ Finish(r)
  /\ UNCHANGED <<rows, objects, jobs>>

-----------------------------------------------------------------------------
(* The clock, the bucket's lifecycle rule, the end of a process *)

UrlLapses(f) ==
  /\ url[f]
  /\ url' = [url EXCEPT ![f] = FALSE]
  /\ UNCHANGED <<rows, incoming, final, jobs, txn, lost>>

\* A day passes since createdAt, or since readyAt.
Age(f) ==
  /\ row[f] \in {"pending", "ready"} /\ ~aged[f] /\ ~url[f]
  /\ aged' = [aged EXCEPT ![f] = TRUE]
  /\ UNCHANGED <<row, owner, kind, avatar, objects, jobs, txn, lost>>

\* The bucket deletes what has been under incoming/ for a day.
LifecycleExpires(f) ==
  /\ incoming[f] # None /\ ~url[f]
  /\ incoming' = [incoming EXCEPT ![f] = None]
  /\ UNCHANGED <<rows, url, final, jobs, txn, lost>>

Crash(r) ==
  /\ txn[r].pc \notin Working \cup {"idle"}
  /\ IF txn[r].pc \in {"sniffed", "storing", "missed"} THEN Loses(r) ELSE UNCHANGED lost
  /\ Finish(r)
  /\ UNCHANGED <<rows, objects, jobs>>

-----------------------------------------------------------------------------

Init ==
  /\ row = [f \in File |-> "absent"]
  /\ owner = [f \in File |-> None]
  /\ kind = [f \in File |-> "image"]
  /\ aged = [f \in File |-> FALSE]
  /\ avatar = [u \in User |-> None]
  /\ url = [f \in File |-> FALSE]
  /\ incoming = [f \in File |-> None]
  /\ final = [k \in File \X Part |-> None]
  /\ jobs = {}
  /\ txn = [r \in Req |-> Idle]
  /\ lost = {}

CompleteStep(r) ==
  \/ Head(r) \/ EnterProcessor(r) \/ Load(r) \/ Sniff(r) \/ Copy(r)
  \/ \E p \in Part : PutObject(r, p)
  \/ MarkReady(r) \/ MarkMissed(r) \/ SendDelete(r)
  \/ ResolveRejected(r) \/ Discard(r)

JobStep(r) ==
  \/ JobDeleteIncoming(r) \/ JobList(r)
  \/ \E p \in Part : JobDeleteKey(r, p)
  \/ JobDone(r)

\* What a request or worker does next, once it has started.
Proceed(r) == CompleteStep(r) \/ Attach(r) \/ SweepRemove(r) \/ JobStep(r)

Begin(r, f) ==
  \/ CompleteRead(r, f) \/ SweepPick(r, f)
  \/ \E u \in User : AttachRead(r, u, f)
  \/ \E scope \in Scope : JobStart(r, f, scope)

Fail(r) == StoreFails(r) \/ JobRetry(r) \/ JobGivesUp(r) \/ Crash(r)

FileStep(f) ==
  \/ \E u \in User, k \in Kind : CreateUpload(u, f, k)
  \/ \E b \in Body : ClientPut(f, b)
  \/ UrlLapses(f) \/ Age(f) \/ LifecycleExpires(f)

Next ==
  \/ \E r \in Req : Proceed(r) \/ Fail(r) \/ \E f \in File : Begin(r, f)
  \/ \E f \in File : FileStep(f)
  \/ \E u \in User : Detach(u)

Spec == Init /\ [][Next]_vars

\* Handlers run on, a queued job is fetched, and retryLimit bounds the times a
\* job is put back.
Fairness ==
  /\ \A r \in Req : WF_vars(Proceed(r))
  /\ \A f \in File, scope \in Scope : SF_vars(\E r \in Req : JobStart(r, f, scope))
  /\ <>[][\A r \in Req : ~JobRetry(r)]_vars

FairSpec == Spec /\ Fairness

-----------------------------------------------------------------------------
(* Properties *)

\* Every row, object, job and request in flight has its shape.
TypeOK ==
  /\ row \in [File -> RowState]
  /\ owner \in [File -> User \cup {None}]
  /\ kind \in [File -> Kind]
  /\ aged \in [File -> BOOLEAN]
  /\ avatar \in [User -> File \cup {None}]
  /\ url \in [File -> BOOLEAN]
  /\ incoming \in [File -> Body \cup {None}]
  /\ final \in [File \X Part -> Body \cup {None}]
  /\ jobs \subseteq File \X Scope
  /\ txn \in [Req -> [pc : Pc, file : File \cup {None}, user : User \cup {None},
                      body : Body \cup {None}, todo : SUBSET Part, scope : Scope]]
  /\ lost \subseteq File

\* A file that is ready has all its objects, each of acceptable content,
\* whatever repeated completes, late jobs and retries do to them.
ReadyFileHasItsObjects ==
  \A f \in File : row[f] = "ready" => \A p \in PartsOf(f) : final[<<f, p>>] \in Valid

\* An avatar shows a ready file of its user's: the sweep and an attachment
\* that meet do not leave a reference to a removed file (README, "Baglamak ve
\* temizlik").
AvatarIsUsable ==
  \A u \in User : avatar[u] # None => row[avatar[u]] = "ready" /\ owner[avatar[u]] = u

\* Work w sees to it that object p of file f is deleted: a job that has it still
\* before it, or a complete that has yet to miss the row.
Owes(w, f, p) ==
  /\ w.file = f
  /\ \/ w.pc \in {"storing", "missed", "job.prefix"}
     \/ w.pc = "job.started" /\ w.scope = "all"
     \/ w.pc = "job.listed" /\ p \in w.todo

\* No object outlives its row unnoticed: as long as one is there somebody is to
\* delete it, even when the job has listed the prefix and a complete goes on
\* writing; unless a failure has left it (file.service markReady,
\* file-cleanup.service).
ErasureIsOwed ==
  \A f \in File \ lost, p \in Part :
    row[f] = "gone" /\ final[<<f, p>>] # None
      => <<f, "all">> \in jobs \/ \E r \in Req : Owes(txn[r], f, p)

\* Once a file's row is deleted, its objects are deleted for good, although a
\* complete may still be writing them; unless a request that was writing them
\* failed or the job ran out of retries.
DeletedFileIsErased ==
  \A f \in File : row[f] = "gone" ~> [](Erased(f) \/ f \in lost)

=============================================================================
