----------------------------- MODULE FileWatch -----------------------------
(***************************************************************************)
(* How a realm learns of files that others change: the watcher that is up  *)
(* while clients listen, the echoes of the realm's own writes, and the     *)
(* drains that have the updates indexed (runtime-common/realm.ts,          *)
(* realm-server/node-realm.ts).                                            *)
(*                                                                         *)
(* The jobs of a realm run one at a time, the oldest first (GroupExclusive *)
(* and GroupOrder of JobQueue), and a job finds the file as it is then.    *)
(* The code between two awaits is one step; what awaits a promise that is  *)
(* settled goes on before the next event of the watcher.                   *)
(***************************************************************************)
EXTENDS Integers, Sequences, FiniteSets, SequencesExt

CONSTANTS
    Paths,          \* the files of the realm
    Clients,        \* who may listen
    Realm,          \* publishes the jobs of the realm's own writes
    MaxVersion,     \* bound: changes of files
    MaxFailures     \* bound: jobs that fail

ASSUME BoundsAssumption == MaxVersion \in Nat /\ MaxFailures \in Nat
ASSUME RealmAssumption == Realm \notin Nat

VARIABLES
    files,          \* the version of each file (0: there is none)
    clock,          \* the versions handed out so far
    own,            \* where the realm's own write or deletion of a file is:
                    \* noted, done to the file, or queued as a job
    recentWrites,   \* the events that will be taken for echoes
    client,         \* "out", "waiting" for the watcher, "listening", "refused",
                    \* or "stranded": its watcher was closed
    watcher,        \* "none", "starting" or "ready"
    known,          \* the files the watcher has seen
    dirty,          \* the files it has an event for, not delivered yet
    foreign,        \* history: those that were changed last by someone else
    updateItems,    \* the updates no drain has taken
    flush,          \* #flushUpdateEvents: the drain that settles it (0: undefined)
    drains,         \* every call of drainUpdates: its phase, the drain it awaits,
                    \* and the items it still has to publish
    jobs,           \* the index jobs, the oldest first
    index,          \* the version of each file the index has
    mishaps,        \* history: what the index does not survive
    failures        \* how much of the budget is used

disk == <<files, clock>>
writes == <<own, recentWrites>>
listening == <<client, watcher>>
watched == <<known, dirty, foreign>>
draining == <<updateItems, flush, drains>>
indexing == <<jobs, index>>
history == <<mishaps, failures>>
vars == <<disk, writes, listening, watched, draining, indexing, history>>

Types == {"added", "updated", "removed"}
Item == [type : Types, path : Paths]

Init ==
    /\ files = [p \in Paths |-> 1] /\ clock = 1
    /\ index = files
    /\ own = [p \in Paths |-> "idle"]
    /\ recentWrites = {}
    /\ client = [c \in Clients |-> "out"]
    /\ watcher = "none"
    /\ known = {} /\ dirty = {} /\ foreign = {}
    /\ updateItems = <<>> /\ flush = 0 /\ drains = <<>>
    /\ jobs = <<>>
    /\ mishaps = {} /\ failures = 0

-----------------------------------------------------------------------------
(* Clients listen; the first has the watcher started. *)
Listeners == {c \in Clients : client[c] = "listening"}

(* "tried to subscribe to watcher twice" *)
Subscribe(c) ==
    /\ client[c] = "out"
    /\ \/ /\ Listeners # {}
          /\ client' = [client EXCEPT ![c] = "listening"]
          /\ UNCHANGED watcher
       \/ /\ Listeners = {} /\ watcher = "none"
          /\ client' = [client EXCEPT ![c] = "waiting"]
          /\ watcher' = "starting"
       \/ /\ Listeners = {} /\ watcher # "none"
          /\ client' = [client EXCEPT ![c] = "refused"]
          /\ UNCHANGED watcher
    /\ UNCHANGED <<disk, writes, watched, draining, indexing, history>>

(* The watcher knows the files there are; who has waited for it listens. *)
WatcherReady ==
    /\ watcher = "starting"
    /\ watcher' = "ready"
    /\ known' = {p \in Paths : files[p] # 0}
    /\ foreign' = {}
    /\ client' = [c \in Clients |-> IF client[c] = "waiting" THEN "listening" ELSE client[c]]
    /\ UNCHANGED <<disk, writes, dirty, draining, indexing, history>>

(* The connection of a client closes.  When no client listens, the watcher is
   closed, though one may wait for it: that one waits for ever. *)
Cleanup(c) ==
    /\ client[c] # "out"
    /\ IF Listeners \subseteq {c}
       THEN /\ watcher' = "none" /\ dirty' = {}
            /\ client' = [d \in Clients |->
                             IF d = c THEN "out"
                             ELSE IF client[d] = "waiting" THEN "stranded" ELSE client[d]]
            /\ mishaps' = IF dirty = {} THEN mishaps ELSE mishaps \cup {"unwatched"}
       ELSE /\ client' = [client EXCEPT ![c] = "out"]
            /\ UNCHANGED <<watcher, dirty, mishaps>>
    /\ UNCHANGED <<disk, writes, known, foreign, draining, indexing, failures>>

-----------------------------------------------------------------------------
(* Files change. *)
Change(p, exists) ==
    /\ clock < MaxVersion
    /\ clock' = clock + 1
    /\ files' = [files EXCEPT ![p] = IF exists THEN clock + 1 ELSE 0]
    /\ dirty' = IF watcher = "ready" THEN dirty \cup {p} ELSE dirty

(* Someone else writes or removes a file. *)
Edit(p) ==
    /\ \/ Change(p, TRUE)
       \/ files[p] # 0 /\ Change(p, FALSE)
    /\ foreign' = foreign \cup {p}
    /\ mishaps' = IF watcher = "ready" THEN mishaps ELSE mishaps \cup {"unwatched"}
    /\ UNCHANGED <<writes, listening, known, draining, indexing, failures>>

(* The updates of p from outside that are still to be indexed. *)
Told(p) ==
    \/ \E k \in DOMAIN updateItems : updateItems[k].path = p
    \/ \E d \in DOMAIN drains : \E k \in DOMAIN drains[d].items : drains[d].items[k].path = p

(* The realm writes or deletes a file: it notes the event to expect, changes
   the file, and has it indexed. *)
TrackOwnWrite(p, kind) ==
    /\ own[p] = "idle" /\ clock < MaxVersion
    /\ kind = "delete" => files[p] # 0
    /\ own' = [own EXCEPT ![p] = kind]
    /\ LET type == IF kind = "delete" THEN "removed"
                   ELSE IF files[p] # 0 THEN "updated" ELSE "added"
       IN  recentWrites' = recentWrites \cup {[type |-> type, path |-> p]}
    /\ mishaps' = IF Told(p) THEN mishaps \cup {"raced"} ELSE mishaps
    /\ UNCHANGED <<disk, listening, watched, draining, indexing, failures>>

ChangeOwn(p) ==
    /\ own[p] \in {"write", "delete"}
    /\ Change(p, own[p] = "write")
    /\ own' = [own EXCEPT ![p] = IF @ = "write" THEN "written" ELSE "deleted"]
    /\ foreign' = foreign \ {p}
    /\ UNCHANGED <<recentWrites, listening, known, draining, indexing, history>>

Publish(type, p, by) == jobs' = Append(jobs, [type |-> type, path |-> p, by |-> by])

PublishOwn(p) ==
    /\ own[p] \in {"written", "deleted"}
    /\ Publish(IF own[p] = "written" THEN "updated" ELSE "removed", p, Realm)
    /\ own' = [own EXCEPT ![p] = "queued"]
    /\ UNCHANGED <<disk, recentWrites, listening, watched, draining, index, history>>

(* The time-out of 500 ms. *)
Forget(h) ==
    /\ h \in recentWrites
    /\ recentWrites' = recentWrites \ {h}
    /\ UNCHANGED <<disk, own, listening, watched, draining, indexing, history>>

-----------------------------------------------------------------------------
(* The events of the watcher. *)
Settled(d) == d # 0 => drains[d].phase = "ended"

CanResume(d) == drains[d].phase = "called" /\ Settled(drains[d].awaits)

(* Mutant: an update is left to the drain that is under way. *)
TellTheBusy(p, type) ==
    LET h == [type |-> type, path |-> p]
    IN  IF h \in recentWrites
        THEN /\ recentWrites' = recentWrites \ {h}
             /\ mishaps' = IF p \in foreign THEN mishaps \cup {"echoed"} ELSE mishaps
             /\ UNCHANGED draining
        ELSE /\ updateItems' = Append(updateItems, h)
             /\ drains' = IF flush # 0 /\ drains[flush].phase # "ended" THEN drains
                          ELSE Append(drains, [phase |-> "called", awaits |-> flush, items |-> <<>>])
             /\ mishaps' = IF own[p] # "idle" THEN mishaps \cup {"raced"} ELSE mishaps
             /\ UNCHANGED <<recentWrites, flush>>

(* Mutant: the promise is replaced before it is awaited. *)
TellOwnPromise(p, type) ==
    /\ updateItems' = Append(updateItems, [type |-> type, path |-> p])
    /\ drains' = Append(drains, [phase |-> "called", awaits |-> Len(drains) + 1, items |-> <<>>])
    /\ UNCHANGED <<recentWrites, flush, mishaps>>

(* A tracked write is not told again.  Anything else becomes an update item,
   and a call of drainUpdates that awaits the flush there is. *)
Tell(p, type) ==
    LET h == [type |-> type, path |-> p]
    IN  IF h \in recentWrites
        THEN /\ recentWrites' = recentWrites \ {h}
             /\ mishaps' = IF p \in foreign THEN mishaps \cup {"echoed"} ELSE mishaps
             /\ UNCHANGED draining
        ELSE /\ updateItems' = Append(updateItems, h)
             /\ drains' = Append(drains, [phase |-> "called", awaits |-> flush, items |-> <<>>])
             /\ mishaps' = IF own[p] # "idle" THEN mishaps \cup {"raced"} ELSE mishaps
             /\ UNCHANGED <<recentWrites, flush>>

(* The watcher compares what it knows with what there is: the changes since
   its last event of a file are one event, or none. *)
Deliver(p) ==
    /\ p \in dirty
    /\ \A d \in DOMAIN drains : ~CanResume(d)
    /\ dirty' = dirty \ {p} /\ foreign' = foreign \ {p}
    /\ IF files[p] # 0
       THEN /\ known' = known \cup {p}
            /\ Tell(p, IF p \in known THEN "updated" ELSE "added")
       ELSE /\ known' = known \ {p}
            /\ IF p \in known THEN Tell(p, "removed")
               ELSE /\ mishaps' = mishaps \cup {"coalesced"}
                    /\ UNCHANGED <<recentWrites, draining>>
    /\ UNCHANGED <<disk, own, listening, indexing, failures>>

(* A drain goes on: a new promise, and all the items there are. *)
Resume(d) ==
    /\ CanResume(d) /\ \A e \in 1..(d - 1) : ~CanResume(e)
    /\ flush' = d
    /\ updateItems' = <<>>
    /\ drains' = [drains EXCEPT ![d].items = updateItems,
                     ![d].phase = IF updateItems = <<>> THEN "ended" ELSE "publishing"]
    /\ UNCHANGED <<disk, writes, listening, watched, indexing, history>>

Busy == {d \in DOMAIN drains : drains[d].phase \in {"publishing", "queued"}}

(* The next item of a drain is published, and its job awaited. *)
PublishItem(d) ==
    /\ drains[d].phase = "publishing"
    /\ Publish(Head(drains[d].items).type, Head(drains[d].items).path, d)
    /\ drains' = [drains EXCEPT ![d].phase = "queued"]
    /\ mishaps' = IF Cardinality(Busy) > 1 THEN mishaps \cup {"overlapped"} ELSE mishaps
    /\ UNCHANGED <<disk, writes, listening, watched, updateItems, flush, index, failures>>

-----------------------------------------------------------------------------
(* The jobs end, and those who await them go on. *)
JobEnds(result) ==
    LET j == Head(jobs) IN
    /\ jobs # <<>>
    /\ jobs' = Tail(jobs)
    /\ IF j.by = Realm
       THEN own' = [own EXCEPT ![j.path] = "idle"] /\ UNCHANGED drains
       ELSE /\ UNCHANGED own
            /\ drains' = [drains EXCEPT ![j.by] =
                  IF result = "failed" THEN [@ EXCEPT !.phase = "failed", !.items = <<>>]
                  ELSE [@ EXCEPT !.items = Tail(drains[j.by].items),
                           !.phase = IF Len(drains[j.by].items) = 1 THEN "ended" ELSE "publishing"]]
    /\ UNCHANGED <<disk, recentWrites, listening, watched, updateItems, flush>>

JobDone ==
    /\ JobEnds("done")
    /\ index' = [index EXCEPT ![Head(jobs).path] =
                    IF Head(jobs).type = "removed" THEN 0 ELSE files[Head(jobs).path]]
    /\ UNCHANGED history

(* A drain whose update fails never settles its promise.  (Its rejection is
   not handled: unless Sentry does, Node ends the process, and the realm
   starts anew.) *)
JobFails ==
    /\ failures < MaxFailures
    /\ failures' = failures + 1
    /\ mishaps' = mishaps \cup {"failed"}
    /\ JobEnds("failed")
    /\ UNCHANGED index

-----------------------------------------------------------------------------
Next ==
    \/ \E c \in Clients : Subscribe(c) \/ Cleanup(c)
    \/ WatcherReady
    \/ \E p \in Paths : \/ Edit(p) \/ Deliver(p)
                        \/ (\E kind \in {"write", "delete"} : TrackOwnWrite(p, kind))
                        \/ ChangeOwn(p) \/ PublishOwn(p)
    \/ \E h \in recentWrites : Forget(h)
    \/ \E d \in DOMAIN drains : Resume(d) \/ PublishItem(d)
    \/ JobDone \/ JobFails

Spec == Init /\ [][Next]_vars

-----------------------------------------------------------------------------
Quiet ==
    /\ dirty = {} /\ jobs = <<>>
    /\ \A p \in Paths : own[p] = "idle"
    /\ \A d \in DOMAIN drains : drains[d].phase = "ended"

(* Once nothing is under way, the index has every file as it was left, by the
   realm or by others, unless somebody edited a file nobody watched, or
   between the realm's own write and its echo, or while two drains or the
   realm and a drain had updates of it, or a job has failed. *)
EditsAreIndexed == Quiet /\ mishaps = {} => index = files

(* The drains whose update has failed, and those that await one of these, at
   any remove. *)
FailsOrAwaits(d, S) ==
    \/ drains[d].phase = "failed"
    \/ drains[d].phase = "called" /\ drains[d].awaits \in S

Stuck ==
    {d \in DOMAIN drains : \A S \in SUBSET DOMAIN drains :
        (\A e \in DOMAIN drains : FailsOrAwaits(e, S) => e \in S) => d \in S}

AtRest ==
    /\ jobs = <<>>
    /\ \A d \in DOMAIN drains : drains[d].phase # "publishing" /\ ~CanResume(d)

(* When nothing can go on, every call of drainUpdates has come to its end, and
   every update is taken, but for those stuck after a failure. *)
OnlyFailuresStop ==
    AtRest => /\ \A d \in DOMAIN drains : drains[d].phase = "ended" \/ d \in Stuck
              /\ updateItems # <<>> => Stuck # {}
=============================================================================
