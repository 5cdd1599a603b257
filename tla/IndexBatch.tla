----------------------------- MODULE IndexBatch -----------------------------
(***************************************************************************)
(* The index of a realm: the jobs that bring it up to date after a change  *)
(* of a file, or after a restart (host/app/lib/current-run.ts), and the    *)
(* Batch each of them writes to (runtime-common/index-writer.ts).  A batch *)
(* works on boxel_index_working; when it is done, the rows it touched are  *)
(* copied to boxel_index, which searches read.                             *)
(*                                                                         *)
(* A file is a card instance, which refers to the module it adopts from,   *)
(* or a module, which imports others.  A row of the index says which       *)
(* version of every file it was made from.  A realm has one batch at a     *)
(* time (GroupExclusive of JobQueue).  The time stamp of a file is the     *)
(* second it was written in, which does not tell all its versions apart;   *)
(* it is assumed not to go back.                                           *)
(***************************************************************************)
EXTENDS Integers, Sequences, FiniteSets, Functions

CONSTANTS
    Instances, Modules, \* the files of the realm
    Refs,               \* what each file may refer to: a set of sets of modules
    InitialFiles,       \* the files there may be at first
    MaxVersion,         \* bound: changes of files
    MaxSecond,          \* bound: seconds they are made in
    MaxFailures         \* bound: batches that fail, and crashes

Urls == Instances \cup Modules

ASSUME UrlsAssumption == Instances \cap Modules = {} /\ IsFiniteSet(Urls)
ASSUME RefsAssumption == Refs \in [Urls -> SUBSET SUBSET Modules]
ASSUME BoundsAssumption == MaxVersion \in Nat /\ MaxSecond \in Nat /\ MaxFailures \in Nat

Source == [ver : Nat, refs : SUBSET Modules, modified : Nat]
(* All files are indexed at first, and none with an error: they are of the first
   version, and what they refer to is there. *)
ASSUME FilesAssumption ==
    \A f \in InitialFiles :
        /\ f \in [Urls -> Source]
        /\ \A u \in Urls : \/ f[u] = [ver |-> 0, refs |-> {}, modified |-> 0]
                           \/ f[u].ver = 1 /\ f[u].modified = 1
        /\ \A u \in Urls : \A v \in f[u].refs : f[v].ver = 1

VARIABLES
    files,              \* each file; a file that is not there has version 0
    clock,              \* the versions handed out so far
    second,             \* the current second
    jobs,               \* the indexing jobs to run, the oldest first
    working, production,    \* boxel_index_working and boxel_index
    meta,               \* realm_meta: the instances it counts, and its version
    version,            \* realm_versions: the current version
    batch,              \* the batch of the running job, if any
    mishaps,            \* history: what the index has not been told
    failures            \* how much of the budget is used

disk == <<files, clock, second>>
index == <<production, meta, version>>
vars == <<disk, jobs, working, index, batch, mishaps, failures>>

None == [ver |-> 0, refs |-> {}, modified |-> 0]
NoRow == [type |-> "none", deleted |-> FALSE, deps |-> {}, seen |-> {}, source |-> None]
NoBatch == [version |-> 0]
Running == batch # NoBatch

Row == [type : {"none", "entry", "error"}, deleted : BOOLEAN, deps : SUBSET Modules,
        seen : SUBSET (Urls \X Nat), source : Source]
Job == [kind : {"update", "delete", "full"}, url : Urls]
Mishap == {"changed", "failed", "lost", "leftover", "removed", "outlived",
           "unlinked", "wholesale", "truncated", "hurried"}

TypeOK ==
    /\ files \in [Urls -> Source]
    /\ clock \in Nat /\ second \in Nat
    /\ jobs \in Seq(Job)
    /\ working \in [Urls -> Row] /\ production \in [Urls -> Row]
    /\ meta \in [version : Nat, counts : SUBSET Instances] /\ version \in Nat
    /\ Running => /\ batch.version = version + 1
                  /\ batch.visits \subseteq Urls /\ batch.invalidations \subseteq Urls
                  /\ DOMAIN batch.loaded \subseteq Modules
                  /\ jobs # <<>>
    /\ mishaps \subseteq Mishap
    /\ failures \in 0..MaxFailures

-----------------------------------------------------------------------------
(* Modules that are reached from a file, when contents says what modules
   hold; one that cannot be loaded has version 0, and leads nowhere. *)
Reach(refs, contents) ==
    {v \in Modules : \A S \in SUBSET Modules :
        (refs \subseteq S /\ \A w \in S : contents[w].refs \subseteq S) => v \in S}

(* A row for a file all whose modules can be loaded. *)
Entry(u, source, refs, contents) ==
    [type |-> "entry", deleted |-> FALSE,
     deps |-> Reach(refs, contents) \ {u},
     seen |-> {<<u, source.ver>>} \cup {<<v, contents[v].ver>> : v \in Reach(refs, contents) \ {u}},
     source |-> source]

Loads(refs, contents) == \A v \in Reach(refs, contents) : contents[v].ver # 0

(* What the index should have of a file, as the files are. *)
IsCurrent(u, row) ==
    IF files[u].ver = 0 THEN row.type = "none" \/ row.deleted
    ELSE IF Loads(files[u].refs, files) THEN row = Entry(u, files[u], files[u].refs, files)
    ELSE row.type = "error"

Init ==
    /\ files \in InitialFiles
    /\ clock = 1 /\ second = 1
    /\ jobs = <<>>
    /\ production = [u \in Urls |-> IF files[u].ver = 0 THEN NoRow
                                    ELSE Entry(u, files[u], files[u].refs, files)]
    /\ working = production
    /\ version = 1
    /\ meta = [version |-> 1, counts |-> {i \in Instances : files[i].ver # 0}]
    /\ batch = NoBatch
    /\ mishaps = {}
    /\ failures = 0

-----------------------------------------------------------------------------
(* The files change: through the realm, which publishes a job, or while the
   server is down, so that nobody is told. *)
Put(u, refs) ==
    /\ clock < MaxVersion
    /\ clock' = clock + 1
    /\ second' \in {second, second + 1} /\ second' <= MaxSecond
    /\ files' = [files EXCEPT ![u] = [ver |-> clock + 1, refs |-> refs, modified |-> second']]

Erase(u) ==
    /\ clock < MaxVersion /\ files[u].ver # 0
    /\ clock' = clock + 1
    /\ files' = [files EXCEPT ![u] = None]
    /\ UNCHANGED second

Publish(kind, u) == jobs' = Append(jobs, [kind |-> kind, url |-> u])

Write(u) ==
    /\ \E refs \in Refs[u] : Put(u, refs)
    /\ Publish("update", u)
    /\ UNCHANGED <<working, index, batch, mishaps, failures>>

Delete(u) ==
    /\ Erase(u)
    /\ Publish("delete", u)
    /\ UNCHANGED <<working, index, batch, mishaps, failures>>

(* The row of u has the time stamp of the file, which unixTime rounds to seconds. *)
Dated(u, file) ==
    production[u].type = "entry" /\ production[u].source.modified = file.modified

(* The server is down, and the files change; when it starts, it publishes a
   full indexing. *)
Restart(u) ==
    /\ ~Running
    /\ \/ /\ \E refs \in Refs[u] : Put(u, refs)
          /\ mishaps' = mishaps \cup {"changed"} \cup
                (IF [kind |-> "delete", url |-> u] \in Range(jobs) THEN {"outlived"} ELSE {})
                \cup (IF Dated(u, files'[u]) THEN {"hurried"} ELSE {})
       \/ Erase(u) /\ mishaps' = mishaps \cup {"removed"}
    /\ Publish("full", u)
    /\ UNCHANGED <<working, index, batch, failures>>

-----------------------------------------------------------------------------
(* A batch begins. *)

(* The rows of the working index that depend on u, tombstones included. *)
ItemsThatReference(u) == {v \in Urls : u \in working[v].deps}

(* Mutant: the items that refer to u, and not those that refer to them. *)
DirectInvalidations(u) == ItemsThatReference(u)

(* ... and all that depend on them.  nodeResolvedInvalidations would leave
   out what is invalid already, but keeps the value of its first use. *)
CalculateInvalidations(u) ==
    {v \in Urls : \A S \in SUBSET Urls :
        (ItemsThatReference(u) \subseteq S /\ \A w \in S : ItemsThatReference(w) \subseteq S)
            => v \in S}

Invalidate(us) == us \cup UNION {CalculateInvalidations(u) : u \in us}

(* A tombstone is put over the row, and leaves the rest of it. *)
Tombstone(row) == [row EXCEPT !.type = "entry", !.deleted = TRUE]

WithTombstones(us) ==
    [u \in Urls |-> IF u \in us THEN Tombstone(working[u]) ELSE working[u]]

(* Mutant: the version is the one there is. *)
BeginAgain(invalidations, visits) ==
    batch' = [version |-> version, invalidations |-> invalidations, visits |-> visits,
              loaded |-> <<>>]

(* The batch of the job, whose version is the next one; its loader is new. *)
Begin(invalidations, visits) ==
    batch' = [version |-> version + 1, invalidations |-> invalidations, visits |-> visits,
              loaded |-> <<>>]

Incremental ==
    /\ ~Running /\ jobs # <<>>
    /\ Head(jobs).kind # "full"
    /\ LET u == Head(jobs).url
           invalidations == Invalidate({u})
       IN  /\ Begin(invalidations,
                    IF Head(jobs).kind = "delete" THEN invalidations \ {u} ELSE invalidations)
           /\ working' = WithTombstones(invalidations)
    /\ UNCHANGED <<disk, jobs, index, mishaps, failures>>

(* discoverInvalidations: the files that are there, but not in boxel_index,
   or there with an error or another time stamp. *)
Outdated(u) == files[u].ver # 0 /\ ~Dated(u, files[u])

FromScratch ==
    /\ ~Running /\ jobs # <<>>
    /\ Head(jobs).kind = "full"
    /\ LET present == {u \in Urls : files[u].ver # 0}
           outdated == {u \in present : Outdated(u)}
       IN  IF outdated = present
           THEN \* "the whole realm needs to be visited, no need to calculate invalidations"
                /\ Begin({}, outdated)
                /\ UNCHANGED working
                /\ mishaps' = mishaps \cup
                      IF \E u \in Urls : working[u].type # "none" THEN {"wholesale"} ELSE {}
           ELSE /\ Begin(Invalidate(outdated), Invalidate(outdated))
                /\ working' = WithTombstones(Invalidate(outdated))
                /\ mishaps' = mishaps \ {"changed", "failed", "unlinked"}
    /\ UNCHANGED <<disk, jobs, index, failures>>

-----------------------------------------------------------------------------
(* The files of the batch are visited. *)

(* The realm serves a module to the loader of the indexer from the working
   index, and only if that has none, from its file. *)
Serve(v) ==
    IF working[v].type = "none" \/ working[v].deleted THEN files[v]
    ELSE IF working[v].type = "entry" THEN working[v].source ELSE None

(* What the loader has it keeps, to the end of the batch. *)
Served == [v \in Modules |->
    IF v \in DOMAIN batch.loaded THEN batch.loaded[v] ELSE Serve(v)]

StartFrom(u) == IF u \in Modules THEN {u} ELSE files[u].refs

UpdateEntry(u, row) ==
    /\ working' = [working EXCEPT ![u] = row]
    /\ batch' = [batch EXCEPT !.visits = @ \ {u}, !.invalidations = @ \cup {u},
          !.loaded = [v \in DOMAIN @ \cup Reach(StartFrom(u), Served) |-> Served[v]]]

VisitEntry(u) ==
    /\ files[u].ver # 0
    /\ Loads(StartFrom(u), Served)
    /\ UpdateEntry(u, Entry(u, files[u], StartFrom(u), Served))
    /\ UNCHANGED mishaps

(* The last row that was any good, with the error and the modules that led to
   it.  is_deleted comes from that row too. *)
ErrorEntry(u, deps) == [production[u] EXCEPT !.type = "error", !.deps = @ \cup deps]

(* An instance blames its module and one that cannot be loaded.  A module is
   asked for the modules it consumes, which its loader knows only if it has
   been imported, in vain, before. *)
ErrorDeps(u) ==
    LET broken == {v \in Reach(StartFrom(u), Served) : Served[v].ver = 0}
    IN  IF u \in Instances THEN {files[u].refs \cup {v} : v \in broken}
        ELSE {{}, Reach(StartFrom(u), Served) \ {u}}

VisitError(u) ==
    /\ files[u].ver # 0
    /\ ~Loads(StartFrom(u), Served)
    /\ \E deps \in ErrorDeps(u) :
          /\ UpdateEntry(u, ErrorEntry(u, deps))
          /\ mishaps' = mishaps \cup
                IF u \in Modules /\ ~(Reach(StartFrom(u), Served) \ {u} \subseteq
                                        production[u].deps \cup deps)
                THEN {"unlinked"} ELSE {}

(* "tried to visit file, but it no longer exists" *)
VisitMissing(u) ==
    /\ files[u].ver = 0
    /\ batch' = [batch EXCEPT !.visits = @ \ {u}]
    /\ UNCHANGED <<working, mishaps>>

Visit(u) ==
    /\ Running /\ u \in batch.visits
    /\ VisitEntry(u) \/ VisitError(u) \/ VisitMissing(u)
    /\ UNCHANGED <<disk, jobs, index, failures>>

-----------------------------------------------------------------------------
(* The batch ends. *)

(* Mutant: the rows searches have so far are counted. *)
CountedBefore == {i \in Instances : production[i].type = "entry" /\ ~production[i].deleted}

(* updateRealmMeta counts the rows of the working index. *)
Counted == {i \in Instances : working[i].type = "entry" /\ ~working[i].deleted}

ApplyBatchUpdates ==
    /\ version' = batch.version
    /\ production' = [u \in Urls |-> IF u \in batch.invalidations THEN working[u]
                                     ELSE production[u]]

Done ==
    /\ Running /\ batch.visits = {}
    /\ meta' = [version |-> batch.version, counts |-> Counted]
    /\ ApplyBatchUpdates
    /\ batch' = NoBatch
    /\ jobs' = Tail(jobs)
    /\ UNCHANGED <<disk, working, mishaps, failures>>

Budget == failures < MaxFailures /\ failures' = failures + 1

(* What the next full indexing does not make up for: a deletion, a change of a
   module, which others were indexed with, and a file whose time stamp is in
   its row already, which was made from another version of the same second or
   is under a tombstone. *)
Unnoticed ==
    LET u == Head(jobs).url
    IN  \/ Head(jobs).kind = "delete"
        \/ Head(jobs).kind = "update" /\ u \in Modules
        \/ /\ Head(jobs).kind = "update" /\ files[u].ver # 0 /\ ~Outdated(u)
           /\ production[u].deleted \/ production[u].source # files[u]

(* The job throws, is rejected and will not run again.  What it has written
   to the working index stays there. *)
Fail ==
    /\ Running /\ Budget
    /\ batch' = NoBatch
    /\ jobs' = Tail(jobs)
    /\ mishaps' = mishaps \cup {"leftover", IF Unnoticed THEN "lost" ELSE "failed"}
    /\ UNCHANGED <<disk, working, index>>

(* The worker dies: the job will run again. *)
WorkerDies ==
    /\ Running /\ Budget
    /\ batch' = NoBatch
    /\ UNCHANGED <<disk, jobs, working, index, mishaps>>

(* The database crashes.  boxel_index_working is an UNLOGGED table. *)
DatabaseCrashes ==
    /\ ~Running /\ Budget
    /\ working' = [u \in Urls |-> NoRow]
    /\ mishaps' = mishaps \cup {"truncated"}
    /\ UNCHANGED <<disk, jobs, index, batch>>

-----------------------------------------------------------------------------
Next ==
    \/ \E u \in Urls : Write(u) \/ Delete(u) \/ Restart(u) \/ Visit(u)
    \/ Incremental \/ FromScratch
    \/ Done \/ Fail \/ WorkerDies \/ DatabaseCrashes

Spec == Init /\ [][Next]_vars

-----------------------------------------------------------------------------
Idle == ~Running /\ jobs = <<>>

(* When no job is left, and none of the mishaps this does not survive has
   happened, the index is what it would be had everything been
   indexed anew.  The mishaps are a change while the server was down or a failed
   update that no full indexing has made up for ("changed", "failed",
   "unlinked"), or that it cannot ("lost", "hurried"), and those that it
   makes itself ("removed", "outlived", "wholesale", "truncated"). *)
IndexIsCurrent ==
    Idle /\ mishaps \subseteq {"leftover"} => \A u \in Urls : IsCurrent(u, production[u])

(* realm_meta counts the instances searches find. *)
MetaCountsTheIndex ==
    Idle /\ mishaps = {} => meta.counts = {i \in Instances : production[i].type = "entry"
                                                             /\ ~production[i].deleted}
=============================================================================
