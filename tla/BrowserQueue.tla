---------------------------- MODULE BrowserQueue ----------------------------
(***************************************************************************)
(* The job queue of the browser (host/app/lib/browser-queue.ts), which     *)
(* tests use in place of the PostgreSQL queue: publish and register start  *)
(* a debounce timer, each time it fires drainJobs waits for the flush      *)
(* promise of that moment, puts its own in its place, takes all the jobs   *)
(* of the queue and runs their handlers one after the other.               *)
(*                                                                         *)
(* An activation of drainJobs is numbered, and the number stands for the   *)
(* flush promise it makes.  Code between two awaits is one step.           *)
(***************************************************************************)
EXTENDS Integers, Sequences, FiniteSets, SequencesExt

CONSTANTS
    Jobs,
    Types,              \* the job types
    Type                \* the jobType of each job

ASSUME TypeAssumption == Type \in [Jobs -> Types]

VARIABLES
    jobs,               \* the queue: the jobs array
    settled,            \* jobs whose notifier is fulfilled or rejected
    published,          \* jobs that were published
    types,              \* the job types that have a handler
    timer,              \* the debounce timer is running
    drains,             \* the activations of drainJobs: at "flushing", awaiting
                        \* the flush promise of the drain "awaits"; "handling"
                        \* the first of its items; or "over"
    flush,              \* #flush: the drain that made it (0: undefined)
    isDestroyed

vars == <<jobs, settled, published, types, timer, drains, flush, isDestroyed>>

Init ==
    /\ jobs = <<>>
    /\ settled = {}
    /\ published = {}
    /\ types = {}
    /\ timer = FALSE
    /\ drains = <<>>
    /\ flush = 0
    /\ isDestroyed = FALSE

-----------------------------------------------------------------------------
Publish(j) ==
    /\ ~isDestroyed
    /\ j \notin published
    /\ published' = published \cup {j}
    /\ jobs' = Append(jobs, j)
    /\ timer' = TRUE
    /\ UNCHANGED <<settled, types, drains, flush, isDestroyed>>

(* Bound: each type is registered once. *)
Register(t) ==
    /\ ~isDestroyed
    /\ t \notin types
    /\ types' = types \cup {t}
    /\ timer' = TRUE
    /\ UNCHANGED <<jobs, settled, published, drains, flush, isDestroyed>>

(* Mutant: drainJobs does not wait for the drain before it. *)
AnyFlushing(d) == drains[d].at = "flushing"

(* The flush promise drain d waits for is resolved. *)
Flushed(d) ==
    /\ drains[d].at = "flushing"
    /\ drains[d].awaits # 0 => drains[drains[d].awaits].at = "over"

(* The debounce interval is over: drainJobs is called.  No timer fires while a
   resolved promise is waiting to be acted on. *)
Fire ==
    /\ timer
    /\ \A d \in DOMAIN drains : ~Flushed(d)
    /\ timer' = FALSE
    /\ drains' = Append(drains, [at |-> "flushing", awaits |-> flush, items |-> <<>>])
    /\ UNCHANGED <<jobs, settled, published, types, flush, isDestroyed>>

(* Mutant: jobs without a handler are dropped. *)
HandleOrDrop(d, items, q) ==
    LET rest == SelectSeq(items, LAMBDA j : Type[j] \in types)
    IN  /\ drains' = [drains EXCEPT ![d].items = rest,
                                    ![d].at = IF rest = <<>> THEN "over" ELSE "handling"]
        /\ jobs' = q

(* The loop goes on with items, q being the queue: jobs without a handler go
   back to the queue, up to the first that has one, which is run. *)
HandleNext(d, items, q) ==
    LET HasHandler(k) == Type[items[k]] \in types
        k == IF \E n \in DOMAIN items : HasHandler(n)
             THEN CHOOSE n \in DOMAIN items :
                      HasHandler(n) /\ \A i \in 1..(n - 1) : ~HasHandler(i)
             ELSE Len(items) + 1
        rest == SubSeq(items, k, Len(items))
    IN  /\ drains' = [drains EXCEPT ![d].items = rest,
                                    ![d].at = IF rest = <<>> THEN "over" ELSE "handling"]
        /\ jobs' = q \o SubSeq(items, 1, k - 1)

(* drainJobs takes the jobs of the queue, and its flush promise is the one
   that counts from now on. *)
BeginDrain(d) ==
    /\ Flushed(d)
    /\ \A e \in 1..(d - 1) : ~Flushed(e)
    /\ HandleNext(d, jobs, <<>>)
    /\ flush' = d
    /\ UNCHANGED <<settled, published, types, timer, isDestroyed>>

(* The handler returns or throws: the caller has its answer. *)
HandlerEnds(d) ==
    /\ drains[d].at = "handling"
    /\ settled' = settled \cup {Head(drains[d].items)}
    /\ HandleNext(d, Tail(drains[d].items), jobs)
    /\ UNCHANGED <<published, types, timer, flush, isDestroyed>>

(* destroy: nothing can be published any more, and it awaits the flush. *)
Destroy ==
    /\ ~isDestroyed
    /\ isDestroyed' = TRUE
    /\ UNCHANGED <<jobs, settled, published, types, timer, drains, flush>>

Next ==
    \/ \E j \in Jobs : Publish(j)
    \/ \E t \in Types : Register(t)
    \/ Fire
    \/ \E d \in DOMAIN drains : BeginDrain(d) \/ HandlerEnds(d)
    \/ Destroy

Spec == Init /\ [][Next]_vars

(* Each publish and each register lets the timer fire at most once. *)
MaxDrains == Cardinality(Jobs) + Cardinality(Types)

(* Timers fire, resolved promises are acted on, and handlers end. *)
Fairness ==
    /\ WF_vars(Fire)
    /\ \A d \in 1..MaxDrains :
          WF_vars(d \in DOMAIN drains /\ (BeginDrain(d) \/ HandlerEnds(d)))

FairSpec == Spec /\ Fairness

-----------------------------------------------------------------------------
(* Properties. *)

Running == {d \in DOMAIN drains : drains[d].at = "handling"}

(* A job that is not settled is in one place, once: the queue or the items of
   one drain.  None is lost, and none runs twice, when drains overlap and put
   jobs back. *)
EachJobInOnePlace ==
    LET Count(seq, j) == Cardinality({k \in DOMAIN seq : seq[k] = j})
    IN  \A j \in Jobs :
          IF j \in published \ settled
          THEN \/ /\ Count(jobs, j) = 1
                  /\ \A d \in DOMAIN drains : Count(drains[d].items, j) = 0
               \/ /\ Count(jobs, j) = 0
                  /\ \E d \in DOMAIN drains :
                        /\ Count(drains[d].items, j) = 1
                        /\ \A e \in DOMAIN drains \ {d} : Count(drains[e].items, j) = 0
          ELSE Count(jobs, j) = 0 /\ \A d \in DOMAIN drains : Count(drains[d].items, j) = 0

(* Jobs run serially as long as no two drains ever wait for the same flush
   promise, which takes two debounced calls during one drain. *)
SerialUnlessDrainsPileUp ==
    Cardinality(Running) > 1 =>
        \E d, e \in DOMAIN drains : d # e /\ drains[d].awaits = drains[e].awaits

(* A job whose type has a handler is answered in the end, whether the handler
   came before or after the job. *)
EveryJobSettles ==
    \A j \in Jobs :
        j \in published /\ Type[j] \in types ~> j \in settled
=============================================================================
