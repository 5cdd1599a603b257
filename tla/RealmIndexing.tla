--------------------------- MODULE RealmIndexing ---------------------------
(***************************************************************************)
(* How a realm keeps its search index in step with its files: the handlers *)
(* that write, patch and delete cards (runtime-common/realm.ts), the       *)
(* RealmIndexUpdater they share, whose one #indexingDeferred tells whoever *)
(* asks when indexing is over, and the jobs it publishes, as the worker    *)
(* runs them (host/app/lib/current-run.ts).                                *)
(*                                                                         *)
(* The content of a card is the set of the operations that contributed to  *)
(* it, and nothing is left of a file that is deleted.  Jobs of a realm run *)
(* one at a time (GroupExclusive of JobQueue).  Code between two awaits is *)
(* one step.                                                               *)
(***************************************************************************)
EXTENDS Integers, Sequences, FiniteSets, SequencesExt

CONSTANTS
    Ops,                \* the requests to the realm, and its full indexings
    Paths,              \* the files of the realm
    Original,           \* what the files hold at first
    Requests,           \* the requests to consider: a kind and a path per operation
    Nobody,             \* no job is running
    MaxFailures         \* bound: jobs and publications that fail

Kinds == {"post", "patch", "delete", "full"}

ASSUME RequestsAssumption == Requests \subseteq [Ops -> [kind : Kinds, path : Paths]]
ASSUME NobodyAssumption == Nobody \notin Ops
ASSUME FailuresAssumption == MaxFailures \in Nat

VARIABLES
    request,            \* what each operation does, and to which file
    at,                 \* where it is
    original,           \* the content a patch starts from
    awaited,            \* the indexing deferred a write awaits (0: none)
    wrote,              \* the version of the file an operation has made
    files, index,       \* the content of each file, and what the index has
    deferreds,          \* every indexing deferred; the last is the current one
    queue,              \* the indexing jobs that have no outcome, the oldest first
    running,            \* the operation whose job is running
    visits,             \* the files its job has yet to visit
    batch,              \* what it will change in the index
    overlapped,         \* history: operations that were not alone
    failures            \* how much of the budget is used

requests == <<request, original, awaited, wrote>>
job == <<queue, running, visits, batch>>
history == <<overlapped, failures>>
vars == <<requests, at, files, index, deferreds, job, history>>

Ended == {"done", "failed", "notFound"}
Content == [ver : Nat, ops : SUBSET (Ops \cup {Original})]

TypeOK ==
    /\ request \in [Ops -> [kind : Kinds, path : Paths]]
    /\ at \in [Ops -> {"idle", "found", "awaiting", "written", "preparing",
                       "queued", "indexed", "unindexed"} \cup Ended]
    /\ original \in [Ops -> SUBSET (Ops \cup {Original})]
    /\ awaited \in [Ops -> 0..Len(deferreds)]
    /\ wrote \in [Ops -> Nat]
    /\ files \in [Paths -> Content] /\ index \in [Paths -> Content]
    /\ deferreds \in Seq({"pending", "fulfilled", "rejected"})
    /\ queue \in Seq(Ops)
    /\ running \in Ops \cup {Nobody}
    /\ visits \subseteq Paths
    /\ DOMAIN batch \subseteq Paths
    /\ \A p \in DOMAIN batch : batch[p] \in Content
    /\ overlapped \subseteq Ops
    /\ failures \in Nat
    /\ \A o \in Ops : at[o] = "queued" <=> o \in ToSet(queue)
    /\ running # Nobody => running \in ToSet(queue)

NoBatch == [p \in {} |-> [ver |-> 0, ops |-> {}]]

(* The realm is up, and its index is complete. *)
Init ==
    /\ request \in Requests
    /\ at = [o \in Ops |-> "idle"]
    /\ original = [o \in Ops |-> {}]
    /\ awaited = [o \in Ops |-> 0]
    /\ wrote = [o \in Ops |-> 0]
    /\ files = [p \in Paths |-> [ver |-> 1, ops |-> {Original}]]
    /\ index = files
    /\ deferreds = <<>>
    /\ queue = <<>>
    /\ running = Nobody
    /\ visits = {}
    /\ batch = NoBatch
    /\ overlapped = {}
    /\ failures = 0

-----------------------------------------------------------------------------
Kind(o) == request[o].kind
File(o) == request[o].path
Current == Len(deferreds)
Active == {o \in Ops : at[o] \notin Ended \cup {"idle"}}

Goto(o, where) == at' = [at EXCEPT ![o] = where]

(* An operation begins. *)
Begin(o, where) ==
    /\ at[o] = "idle"
    /\ Goto(o, where)
    /\ overlapped' = IF Active = {} THEN overlapped ELSE overlapped \cup Active \cup {o}
    /\ UNCHANGED failures

(* patchCard and removeCard look the card up in the index, removeCardSource
   looks for the file. *)
LookUp(o, content) ==
    /\ \/ Kind(o) = "delete"
       \/ Kind(o) = "patch" /\ content = index
    /\ Begin(o, IF content[File(o)].ops = {} THEN "notFound" ELSE "found")
    /\ original' = [original EXCEPT ![o] =
                       IF Kind(o) = "patch" THEN content[File(o)].ops ELSE {}]
    /\ UNCHANGED <<request, awaited, wrote, files, index, deferreds, job>>

(* write begins, and waits for the indexing deferred of this moment. *)
AwaitIndexing(o) == awaited' = [awaited EXCEPT ![o] = Current]

BeginWrite(o) ==
    /\ \/ Kind(o) = "post" /\ Begin(o, "awaiting")
       \/ /\ Kind(o) = "patch" /\ at[o] = "found"
          /\ Goto(o, "awaiting") /\ UNCHANGED history
    /\ AwaitIndexing(o)
    /\ UNCHANGED <<request, original, wrote, files, index, deferreds, job>>

(* The file of o gets new content. *)
ChangeFile(o, ops) ==
    /\ files' = [files EXCEPT ![File(o)] = [ver |-> @.ver + 1, ops |-> ops]]
    /\ wrote' = [wrote EXCEPT ![o] = files[File(o)].ver + 1]

(* A patch writes what it has merged, a post what it was sent. *)
WriteFile(o) ==
    /\ at[o] = "awaiting"
    /\ awaited[o] # 0 => deferreds[awaited[o]] = "fulfilled"
    /\ ChangeFile(o, original[o] \cup {o})
    /\ Goto(o, "written")
    /\ UNCHANGED <<request, original, awaited, index, deferreds, job, history>>

(* The indexing that write waits for has failed: so does write. *)
WriteFails(o) ==
    /\ at[o] = "awaiting"
    /\ awaited[o] # 0 /\ deferreds[awaited[o]] = "rejected"
    /\ Goto(o, "failed")
    /\ UNCHANGED <<requests, files, index, deferreds, job, history>>

(* delete does not wait. *)
RemoveFile(o) ==
    /\ Kind(o) = "delete" /\ at[o] = "found"
    /\ Goto(o, "written")
    /\ ChangeFile(o, {})
    /\ UNCHANGED <<request, original, awaited, index, deferreds, job, history>>

-----------------------------------------------------------------------------
(* RealmIndexUpdater: update and fullIndex make a new deferred the current
   one, whatever has become of the one before. *)
Update(o) ==
    /\ \/ Kind(o) = "full" /\ Begin(o, "preparing")
       \/ at[o] = "written" /\ Goto(o, "preparing") /\ UNCHANGED history
    /\ deferreds' = Append(deferreds, "pending")
    /\ UNCHANGED <<requests, files, index, job>>

(* Mutant: update does not wait for the outcome of the job it publishes. *)
PublishAndAnswer(o) ==
    /\ at[o] = "preparing"
    /\ queue' = Append(queue, o)
    /\ Goto(o, "indexed")
    /\ UNCHANGED <<requests, files, index, deferreds, running, visits, batch, history>>

(* The realm's user is known, and the job is published. *)
Publish(o) ==
    /\ at[o] = "preparing"
    /\ queue' = Append(queue, o)
    /\ Goto(o, "queued")
    /\ UNCHANGED <<requests, files, index, deferreds, running, visits, batch, history>>

PublishFails(o) ==
    /\ at[o] = "preparing"
    /\ failures < MaxFailures
    /\ failures' = failures + 1
    /\ Goto(o, "unindexed")
    /\ UNCHANGED <<requests, files, index, deferreds, job, overlapped>>

(* The deferred that is current now is settled, the first time round. *)
Settle(result) ==
    deferreds' = IF deferreds[Current] = "pending"
                 THEN [deferreds EXCEPT ![Current] = result] ELSE deferreds

(* Mutant: no finally. *)
FinishInSilence(o) ==
    /\ at[o] \in {"indexed", "unindexed"}
    /\ Goto(o, IF at[o] = "indexed" THEN "done" ELSE "failed")
    /\ UNCHANGED <<requests, files, index, deferreds, job, history>>

(* The job's outcome has reached the updater, and the request is answered. *)
Finish(o) ==
    /\ at[o] \in {"indexed", "unindexed"}
    /\ Goto(o, IF at[o] = "indexed" THEN "done" ELSE "failed")
    /\ Settle(IF at[o] = "indexed" THEN "fulfilled" ELSE "rejected")
    /\ UNCHANGED <<requests, files, index, job, history>>

-----------------------------------------------------------------------------
(* The jobs.  Some workers take only what a user has asked for, so that the
   job of a full indexing may be overtaken. *)
StartJob(o, toVisit, tombstones) ==
    /\ running = Nobody
    /\ o \in ToSet(queue)
    /\ LET n == CHOOSE n \in DOMAIN queue : queue[n] = o
       IN  \/ n = 1
           \/ Kind(o) # "full" /\ \A k \in 1..(n - 1) : Kind(queue[k]) = "full"
    /\ running' = o
    /\ visits' = toVisit
    /\ batch' = tombstones
    /\ UNCHANGED <<requests, at, files, index, deferreds, queue, history>>

Tombstones(ps, ver) == [p \in ps |-> [ver |-> ver, ops |-> {}]]

(* fromScratch visits the files that have changed since they were indexed; it
   puts a tombstone for each unless there is none that has not changed. *)
StartFull(o) ==
    LET listed == {p \in Paths : files[p].ops # {}}
        changed == {p \in listed : index[p] # files[p]}
    IN  /\ Kind(o) = "full"
        /\ StartJob(o, changed, IF changed = listed THEN NoBatch
                                ELSE Tombstones(changed, 0))

(* incremental puts a tombstone for the file, and visits it if it should be
   there.  Only the tombstone of a deletion stands for what was done. *)
StartIncremental(o) ==
    \/ Kind(o) = "delete" /\ StartJob(o, {}, Tombstones({File(o)}, wrote[o]))
    \/ /\ Kind(o) \in {"post", "patch"}
       /\ StartJob(o, {File(o)}, Tombstones({File(o)}, 0))

(* Mutant: what a job reads is the file as the request has left it. *)
VisitWritten(p) ==
    /\ p \in visits
    /\ visits' = visits \ {p}
    /\ batch' = [q \in DOMAIN batch \cup {p} |->
                    IF q = p THEN [ver |-> wrote[running], ops |-> {running}]
                    ELSE batch[q]]
    /\ UNCHANGED <<requests, at, files, index, deferreds, queue, running, history>>

(* A file is read and indexed; for one that is gone the tombstone stays. *)
Visit(p) ==
    /\ p \in visits
    /\ visits' = visits \ {p}
    /\ batch' = IF files[p].ops = {} /\ p \notin DOMAIN batch THEN batch
                ELSE [q \in DOMAIN batch \cup {p} |->
                        IF q = p THEN files[p] ELSE batch[q]]
    /\ UNCHANGED <<requests, at, files, index, deferreds, queue, running, history>>

Applied == [p \in Paths |-> IF p \in DOMAIN batch THEN batch[p] ELSE index[p]]

(* batch.done, and the outcome of the job. *)
EndJob(result) ==
    /\ running # Nobody /\ visits = {}
    /\ at' = [at EXCEPT ![running] = result]
    /\ \E k \in DOMAIN queue : queue[k] = running /\ queue' = RemoveAt(queue, k)
    /\ running' = Nobody
    /\ batch' = NoBatch
    /\ UNCHANGED <<requests, files, deferreds, visits, overlapped>>

JobDone == EndJob("indexed") /\ index' = Applied /\ UNCHANGED failures

(* The job is rejected, before or after its batch is applied. *)
JobFails ==
    /\ failures < MaxFailures
    /\ failures' = failures + 1
    /\ EndJob("unindexed")
    /\ index' \in {index, Applied}

-----------------------------------------------------------------------------
RequestStep(o) ==
    \/ BeginWrite(o) /\ at[o] = "found"
    \/ WriteFile(o) \/ WriteFails(o) \/ RemoveFile(o)
    \/ Update(o) /\ at[o] = "written"
    \/ Publish(o) \/ PublishFails(o) \/ Finish(o)

JobStep ==
    \/ \E o \in Ops : StartFull(o) \/ StartIncremental(o)
    \/ \E p \in Paths : Visit(p)
    \/ JobDone \/ JobFails

Next ==
    \/ \E o \in Ops : \/ LookUp(o, index) \/ LookUp(o, files)
                      \/ BeginWrite(o) \/ WriteFile(o) \/ WriteFails(o)
                      \/ RemoveFile(o) \/ Update(o)
                      \/ Publish(o) \/ PublishFails(o) \/ Finish(o)
    \/ JobStep

Spec == Init /\ [][Next]_vars

(* What awaits a settled promise goes on, and the queue runs every job
   (EveryJobFinishes of JobQueue, EveryCallerIsAnswered of JobNotify). *)
FairSpec ==
    Spec /\ WF_vars(JobStep) /\ \A o \in Ops : WF_vars(RequestStep(o))

-----------------------------------------------------------------------------
(* Properties. *)

(* Was a deletion of the file of o ever in progress along with another
   operation? *)
DeleteRaced(p) ==
    \E d \in overlapped : Kind(d) = "delete" /\ File(d) = p

(* A write that was answered is in the index, or something newer is, for the
   search that follows, unless a racing deletion has left its tombstone
   there. *)
AcknowledgedIsIndexed ==
    \A o \in Ops :
        at[o] = "done" /\ Kind(o) # "full" =>
            index[File(o)].ver >= wrote[o] \/ DeleteRaced(File(o))

(* A patch keeps what was in the file (of earlier patches, too, whose callers
   have their answer), although it starts from the index and not from the
   file, if it is alone and no indexing has failed before. *)
PatchesCompose ==
    [][\A o \in Ops :
          WriteFile(o) /\ Kind(o) = "patch" /\ o \notin overlapped /\ failures = 0 =>
              files[File(o)].ops \subseteq files'[File(o)].ops]_vars

(* Every request is answered, except one that awaits an indexing deferred
   that another update has replaced before it was settled: nobody ever
   settles that one. *)
EveryRequestIsAnswered ==
    \A o \in Ops :
        at[o] # "idle" ~>
            \/ at[o] \in Ended
            \/ /\ at[o] = "awaiting"
               /\ awaited[o] \in 1..(Current - 1)
               /\ deferreds[awaited[o]] = "pending"
=============================================================================
