------------------------------ MODULE JobQueue ------------------------------
(***************************************************************************)
(* The PostgreSQL job queue (postgres/pg-queue.ts): publishers insert rows *)
(* in the jobs table, and any number of runners claim jobs by inserting a  *)
(* reservation in a serializable transaction, run the handler raced        *)
(* against a time-out, and record its outcome in a second serializable     *)
(* transaction.  A reservation is a lease: it ends at locked_until, and    *)
(* the handler behind it keeps running.                                    *)
(*                                                                         *)
(* Time is counted in ticks.  locked_until is kept relative to now, as     *)
(* the ticks it has left (ttl); it is only ever compared with NOW(), which *)
(* in PostgreSQL is the time the transaction began (age ticks ago).        *)
(*                                                                         *)
(* Serializable isolation is modelled by the conflicts it has to detect:   *)
(* a transaction reads at its BEGIN step and writes at its COMMIT step; a  *)
(* commit tells every open transaction whether the two now form a cycle of *)
(* read-write dependencies (conflict "certain": it can only fail with      *)
(* error 40001) or merely overlap ("possible": PostgreSQL may abort it).   *)
(***************************************************************************)
EXTENDS Integers, Sequences, FiniteSets

CONSTANTS
    Jobs, Workers,
    NoJob,              \* no job: a worker that has none
    Group,              \* concurrency_group of each job
    Null,               \* the SQL NULL among the concurrency groups
    JobPriority,        \* priority of each job
    WorkerPriority,     \* a runner takes the jobs of at least its priority
    Timeout,            \* timeout of each job, in ticks
    MaxTimeout,         \* maxTimeoutSec of each runner, in ticks
    SlowJobs,           \* jobs whose handler may outlive its reservation
    MaxReservations,    \* bound: rows of job_reservations
    MaxTransaction,     \* bound: ticks a transaction may stay open
    MaxAborts,          \* bound: serialization failures that are no cycle
    MaxCrashes          \* bound: worker processes that die

ASSUME NoJobAssumption == NoJob \notin Jobs
ASSUME PriorityAssumption ==
    /\ JobPriority \in [Jobs -> Int]
    /\ WorkerPriority \in [Workers -> Int]
ASSUME TimeAssumption ==
    /\ Timeout \in [Jobs -> Nat \ {0}]
    /\ MaxTimeout \in [Workers -> Nat \ {0}]
    /\ MaxTransaction \in Nat
ASSUME BoundAssumption ==
    /\ MaxReservations \in Nat
    /\ MaxAborts \in Nat
    /\ MaxCrashes \in Nat

VARIABLES
    queue,              \* the jobs table in created_at order
    status,             \* the status column of the jobs table
    reservations,       \* the job_reservations table; the index is the id
    pc,                 \* where each runner is in processJobs
    jobToRun,           \* its jobToRun
    reservationId,      \* its jobReservationId (0: none)
    newStatus,          \* its newStatus
    age,                \* ticks since its BEGIN, or since its race started
    conflict,           \* what commits did to its open transaction
    handlers,           \* ids of the reservations whose handler is running
    aborts, crashes     \* how much of the two budgets is used

vars == <<queue, status, reservations, pc, jobToRun, reservationId, newStatus,
          age, conflict, handlers, aborts, crashes>>

tables == <<queue, status, reservations>>
budgets == <<aborts, crashes>>

-----------------------------------------------------------------------------
Statuses == {"unpublished", "unfulfilled", "resolved", "rejected"}
Final == {"resolved", "rejected"}
Reservation == [job : Jobs, worker : Workers, ttl : Int, done : BOOLEAN]

InTransaction == {"claiming", "completing", "completingLate"}
OnJob == {"racing", "finishing", "completing", "completingLate"}
PcValues == {"down", "idle", "looping", "claiming"} \cup OnJob

TypeOK ==
    /\ queue \in Seq(Jobs)
    /\ status \in [Jobs -> Statuses]
    /\ reservations \in Seq(Reservation)
    /\ pc \in [Workers -> PcValues]
    /\ jobToRun \in [Workers -> Jobs \cup {NoJob}]
    /\ reservationId \in [Workers -> Nat]
    /\ newStatus \in [Workers -> Final]
    /\ age \in [Workers -> Nat]
    /\ conflict \in [Workers -> {"none", "possible", "certain"}]
    /\ handlers \subseteq DOMAIN reservations
    /\ aborts \in Nat /\ crashes \in Nat
    /\ \A w \in Workers :
          /\ pc[w] \in OnJob \cup {"claiming"} => jobToRun[w] \in Jobs
          /\ pc[w] \in OnJob =>
                /\ reservationId[w] \in DOMAIN reservations
                /\ reservations[reservationId[w]].job = jobToRun[w]
                /\ reservations[reservationId[w]].worker = w

Init ==
    /\ queue = <<>>
    /\ status = [j \in Jobs |-> "unpublished"]
    /\ reservations = <<>>
    /\ pc = [w \in Workers |-> "looping"]
    /\ jobToRun = [w \in Workers |-> NoJob]
    /\ reservationId = [w \in Workers |-> 0]
    /\ newStatus = [w \in Workers |-> "resolved"]
    /\ age = [w \in Workers |-> 0]
    /\ conflict = [w \in Workers |-> "none"]
    /\ handlers = {}
    /\ aborts = 0 /\ crashes = 0

-----------------------------------------------------------------------------
(* What the claim query computes from the tables. *)

(* Mutant: a reservation that is never over (locked_until is not compared). *)
ValidForever == {r \in DOMAIN reservations : ~reservations[r].done}

(* locked_until > NOW() AND completed_at IS NULL *)
Valid == {r \in DOMAIN reservations :
            reservations[r].ttl > 0 /\ ~reservations[r].done}

ReservedJobs == {reservations[r].job : r \in Valid}
ActiveGroups == {Group[j] : j \in ReservedJobs}

(* Mutant: the query without the test on the concurrency group. *)
NotInIgnored(g, S) == TRUE

(* SQL's three-valued g NOT IN S: TRUE of the empty set, and otherwise NULL,
   which WHERE rejects, as soon as a NULL is involved. *)
NotIn(g, S) == S = {} \/ (g # Null /\ Null \notin S /\ g \notin S)

Eligible(w, j) ==
    /\ status[j] = "unfulfilled"
    /\ JobPriority[j] >= WorkerPriority[w]
    /\ j \notin ReservedJobs
    /\ NotIn(Group[j], ActiveGroups)

(* Mutant: the query without ORDER BY created_at. *)
AnyEligible(w, i) == Eligible(w, queue[i])

(* Entry i of the queue is the row ORDER BY created_at LIMIT 1 returns. *)
OldestEligible(w, i) ==
    /\ Eligible(w, queue[i])
    /\ \A k \in 1..(i - 1) : ~Eligible(w, queue[k])

Lease(w, j) == IF Timeout[j] < MaxTimeout[w] THEN Timeout[j] ELSE MaxTimeout[w]

-----------------------------------------------------------------------------
(* Serializable transactions. *)

(* w commits; Cycle are the workers whose open transaction it dooms. *)
Overlap(w, Cycle) ==
    conflict' = [u \in Workers |->
                   IF u = w THEN "none"
                   ELSE IF u \in Cycle THEN "certain"
                   ELSE IF pc[u] \in InTransaction /\ conflict[u] = "none"
                        THEN "possible" ELSE conflict[u]]

(* u's and w's claims cannot both commit: each row would be a valid
   reservation in the snapshot of the other. *)
ClaimsCollide(u, w) ==
    /\ Lease(u, jobToRun[u]) - age[u] + age[w] > 0
    /\ Lease(w, jobToRun[w]) - age[w] + age[u] > 0

(* Mutant: claims that are not serializable (no SET TRANSACTION). *)
ClaimDoomsNobody(w) == {}

(* A claim of w neither saw the other's claim, nor the completion of a job
   whose transaction counted the reservations of that same job. *)
DoomedByClaim(w) ==
    {u \in Workers \ {w} :
        \/ pc[u] = "claiming" /\ ClaimsCollide(u, w)
        \/ pc[u] = "completingLate" /\ jobToRun[u] = jobToRun[w]}

(* Mutant: completions that are not serializable. *)
CompletionDoomsNobody(w) == {}

(* A completion of w updates the row of the job, which any other completion
   of that job updates too, and which a claim of that job has read. *)
DoomedByCompletion(w) ==
    {u \in Workers \ {w} :
        /\ jobToRun[u] = jobToRun[w]
        /\ \/ pc[u] \in {"completing", "completingLate"}
           \/ pc[u] = "claiming" /\ pc[w] = "completingLate"}

(* The transaction or the job of w is over; it sleeps, loops or is gone. *)
LeaveTo(w, where) ==
    /\ pc' = [pc EXCEPT ![w] = where]
    /\ jobToRun' = [jobToRun EXCEPT ![w] = NoJob]
    /\ reservationId' = [reservationId EXCEPT ![w] = 0]
    /\ newStatus' = [newStatus EXCEPT ![w] = "resolved"]
    /\ age' = [age EXCEPT ![w] = 0]

-----------------------------------------------------------------------------
(* publish: the INSERT of the job. *)
Publish(j) ==
    /\ status[j] = "unpublished"
    /\ status' = [status EXCEPT ![j] = "unfulfilled"]
    /\ queue' = Append(queue, j)
    /\ UNCHANGED <<reservations, pc, jobToRun, reservationId, newStatus, age,
                   conflict, handlers, budgets>>

(* WorkLoop.sleep ends: a NOTIFY jobs was heard, or the poll interval is over. *)
Wake(w) ==
    /\ pc[w] = "idle"
    /\ pc' = [pc EXCEPT ![w] = "looping"]
    /\ UNCHANGED <<tables, jobToRun, reservationId, newStatus, age, conflict,
                   handlers, budgets>>

(* BEGIN, and the query finds the oldest job that can run. *)
BeginClaim(w) ==
    /\ pc[w] = "looping"
    /\ Len(reservations) + Cardinality({u \in Workers : pc[u] = "claiming"})
          < MaxReservations
    /\ \E i \in DOMAIN queue :
          /\ OldestEligible(w, i)
          /\ jobToRun' = [jobToRun EXCEPT ![w] = queue[i]]
    /\ pc' = [pc EXCEPT ![w] = "claiming"]
    /\ UNCHANGED <<tables, reservationId, newStatus, age, conflict, handlers,
                   budgets>>

(* BEGIN, the query finds nothing, ROLLBACK; the runner goes to sleep. *)
FindNoWork(w) ==
    /\ pc[w] = "looping"
    /\ \A i \in DOMAIN queue : ~Eligible(w, queue[i])
    /\ pc' = [pc EXCEPT ![w] = "idle"]
    /\ UNCHANGED <<tables, jobToRun, reservationId, newStatus, age, conflict,
                   handlers, budgets>>

(* The reservation is inserted and committed, and the handler starts, raced
   against the runner's own time-out. *)
CommitClaim(w) ==
    /\ pc[w] = "claiming"
    /\ conflict[w] # "certain"
    /\ LET j == jobToRun[w]
           id == Len(reservations) + 1
       IN  /\ reservations' =
                Append(reservations, [job |-> j, worker |-> w, done |-> FALSE,
                                      ttl |-> Lease(w, j) - age[w]])
           /\ reservationId' = [reservationId EXCEPT ![w] = id]
           /\ handlers' = handlers \cup {id}
    /\ Overlap(w, DoomedByClaim(w))
    /\ pc' = [pc EXCEPT ![w] = "racing"]
    /\ age' = [age EXCEPT ![w] = 0]
    /\ UNCHANGED <<queue, status, jobToRun, newStatus, budgets>>

(* A statement of the transaction fails with 40001: ROLLBACK and sleep. *)
AbortTransaction(w) ==
    /\ pc[w] \in InTransaction
    /\ \/ conflict[w] = "certain" /\ UNCHANGED aborts
       \/ conflict[w] = "possible" /\ aborts < MaxAborts /\ aborts' = aborts + 1
    /\ LeaveTo(w, "idle")
    /\ conflict' = [conflict EXCEPT ![w] = "none"]
    /\ UNCHANGED <<tables, handlers, crashes>>

(* The handler returns or throws before the race is over. *)
HandlerSettles(w) ==
    /\ pc[w] = "racing"
    /\ \E s \in Final : newStatus' = [newStatus EXCEPT ![w] = s]
    /\ handlers' = handlers \ {reservationId[w]}
    /\ pc' = [pc EXCEPT ![w] = "finishing"]
    /\ age' = [age EXCEPT ![w] = 0]
    /\ UNCHANGED <<tables, jobToRun, reservationId, conflict, budgets>>

(* Mutant: the 'timeout' the race resolves to is stored as the status. *)
RaceStoresTimeout(w) ==
    /\ pc[w] = "racing"
    /\ age[w] >= MaxTimeout[w]
    /\ newStatus' = [newStatus EXCEPT ![w] = "timeout"]
    /\ pc' = [pc EXCEPT ![w] = "finishing"]
    /\ age' = [age EXCEPT ![w] = 0]
    /\ UNCHANGED <<tables, jobToRun, reservationId, conflict, handlers, budgets>>

(* The timer wins the race: the job is rejected, its handler keeps running. *)
RaceTimesOut(w) ==
    /\ pc[w] = "racing"
    /\ age[w] >= MaxTimeout[w]
    /\ newStatus' = [newStatus EXCEPT ![w] = "rejected"]
    /\ pc' = [pc EXCEPT ![w] = "finishing"]
    /\ age' = [age EXCEPT ![w] = 0]
    /\ UNCHANGED <<tables, jobToRun, reservationId, conflict, handlers, budgets>>

(* A handler nobody waits for any more comes to its end. *)
AbandonedHandlerSettles(r) ==
    /\ r \in handlers
    /\ \A w \in Workers : pc[w] = "racing" => reservationId[w] # r
    /\ handlers' = handlers \ {r}
    /\ UNCHANGED <<tables, pc, jobToRun, reservationId, newStatus, age,
                   conflict, budgets>>

(* locked_until < NOW() *)
Expired(r) == reservations[r].ttl < 0

ReservedByOthers(r) ==
    \E k \in DOMAIN reservations \ {r} :
        reservations[k].job = reservations[r].job

(* Mutant: completion without the test of the job's status. *)
SupersededButDone(w) ==
    \/ reservations[reservationId[w]].done
    \/ Expired(reservationId[w]) /\ ReservedByOthers(reservationId[w])

(* What the completion transaction reads that makes it roll back. *)
Superseded(w) ==
    \/ status[jobToRun[w]] # "unfulfilled"
    \/ reservations[reservationId[w]].done
    \/ Expired(reservationId[w]) /\ ReservedByOthers(reservationId[w])

(* BEGIN; the outcome is not wanted any more: ROLLBACK, and sleep. *)
DropOutcome(w) ==
    /\ pc[w] = "finishing"
    /\ Superseded(w)
    /\ LeaveTo(w, "idle")
    /\ UNCHANGED <<tables, conflict, handlers, budgets>>

(* BEGIN; the outcome is wanted.  Only a transaction that finds its
   reservation expired has read the other reservations of the job. *)
BeginCompletion(w) ==
    /\ pc[w] = "finishing"
    /\ ~Superseded(w)
    /\ pc' = [pc EXCEPT ![w] = IF Expired(reservationId[w])
                               THEN "completingLate" ELSE "completing"]
    /\ UNCHANGED <<tables, jobToRun, reservationId, newStatus, age, conflict,
                   handlers, budgets>>

(* Both updates and the NOTIFY jobs_finished are committed; the runner looks
   for the next job. *)
CommitCompletion(w) ==
    /\ pc[w] \in {"completing", "completingLate"}
    /\ conflict[w] # "certain"
    /\ status' = [status EXCEPT ![jobToRun[w]] = newStatus[w]]
    /\ reservations' = [reservations EXCEPT ![reservationId[w]].done = TRUE]
    /\ Overlap(w, DoomedByCompletion(w))
    /\ LeaveTo(w, "looping")
    /\ UNCHANGED <<queue, handlers, budgets>>

(* The worker process dies (or the connection does, which ends it): its
   transaction is rolled back and its handlers are gone. *)
Crash(w) ==
    /\ pc[w] # "down"
    /\ crashes < MaxCrashes
    /\ crashes' = crashes + 1
    /\ LeaveTo(w, "down")
    /\ conflict' = [conflict EXCEPT ![w] = "none"]
    /\ handlers' = {r \in handlers : reservations[r].worker # w}
    /\ UNCHANGED <<tables, aborts>>

(* The worker manager starts the process again. *)
Restart(w) ==
    /\ pc[w] = "down"
    /\ pc' = [pc EXCEPT ![w] = "looping"]
    /\ UNCHANGED <<tables, jobToRun, reservationId, newStatus, age, conflict,
                   handlers, budgets>>

(* destroy: the loop ends where it tests shuttingDown, between two jobs. *)
ShutDown(w) ==
    /\ pc[w] \in {"idle", "looping"}
    /\ crashes < MaxCrashes
    /\ crashes' = crashes + 1
    /\ pc' = [pc EXCEPT ![w] = "down"]
    /\ UNCHANGED <<tables, jobToRun, reservationId, newStatus, age, conflict,
                   handlers, aborts>>

(* A tick of the clock.  No transaction stays open for more than
   MaxTransaction ticks, and the handlers of jobs that are not slow are done,
   their outcome recorded, before their reservation is over. *)
Tick ==
    /\ \A w \in Workers :
          /\ pc[w] \in InTransaction => age[w] < MaxTransaction
          /\ pc[w] \in OnJob /\ jobToRun[w] \notin SlowJobs =>
                reservations[reservationId[w]].ttl > 1
    /\ reservations' = [r \in DOMAIN reservations |->
                          [reservations[r] EXCEPT !.ttl = IF @ < 0 THEN @ ELSE @ - 1]]
    /\ age' = [w \in Workers |->
                 IF \/ pc[w] \in InTransaction
                    \/ pc[w] = "racing" /\ age[w] < MaxTimeout[w]
                 THEN age[w] + 1 ELSE age[w]]
    /\ UNCHANGED <<queue, status, pc, jobToRun, reservationId, newStatus,
                   conflict, handlers, budgets>>

-----------------------------------------------------------------------------
Step(w) ==
    \/ Wake(w) \/ BeginClaim(w) \/ FindNoWork(w) \/ CommitClaim(w)
    \/ AbortTransaction(w) \/ HandlerSettles(w) \/ RaceTimesOut(w)
    \/ DropOutcome(w) \/ BeginCompletion(w) \/ CommitCompletion(w)

Next ==
    \/ \E j \in Jobs : Publish(j)
    \/ \E w \in Workers : Step(w) \/ Crash(w) \/ Restart(w) \/ ShutDown(w)
    \/ \E r \in handlers : AbandonedHandlerSettles(r)
    \/ Tick

Spec == Init /\ [][Next]_vars

(* The event loop of a live process runs what is ready, the worker manager
   restarts the dead, and time passes. *)
Fairness ==
    /\ \A w \in Workers : WF_vars(Step(w)) /\ WF_vars(Restart(w))
    /\ WF_vars(Tick)

FairSpec == Spec /\ Fairness

-----------------------------------------------------------------------------
(* Properties. *)

(* At no time do two valid reservations exist for jobs of one concurrency
   group, let alone for one job, whatever claims, expirations and completions
   interleave: this is what the claim query and the serializable isolation of
   processJobs are for.  A job of the null group tolerates no other at all. *)
GroupExclusive ==
    \A r, k \in Valid : r # k =>
        /\ reservations[r].job # reservations[k].job
        /\ Group[reservations[r].job] # Group[reservations[k].job]
        /\ Group[reservations[r].job] # Null

(* Every older job of j's group that w is entitled to take has an outcome. *)
PredecessorsDone(j, w) ==
    \A i, k \in DOMAIN queue :
        /\ i < k /\ queue[k] = j
        /\ Group[queue[i]] = Group[j]
        /\ JobPriority[queue[i]] >= WorkerPriority[w]
        => status[queue[i]] \in Final

(* Jobs of a group start in the order they were created: when a job has been
   reserved, every older job of its group that its worker is entitled to take
   has its outcome already. *)
GroupOrder ==
    \A r \in DOMAIN reservations :
        PredecessorsDone(reservations[r].job, reservations[r].worker)

(* A job has an outcome exactly when one, and only one, of its runs has
   recorded it: late, repeated and concurrent runs of the same job never
   overwrite each other's result. *)
OneCompletion ==
    /\ \A r, k \in DOMAIN reservations :
          /\ reservations[r].done /\ reservations[k].done
          /\ reservations[r].job = reservations[k].job
          => r = k
    /\ \A j \in Jobs : status[j] \in Final <=>
          \E r \in DOMAIN reservations :
              reservations[r].done /\ reservations[r].job = j

(* The handlers of two jobs of one group run at the same time only after the
   reservation of one of them is over: with handlers that end in time, the
   jobs of a group are processed serially. *)
OverlapNeedsExpiry ==
    \A r, k \in handlers : 
        /\ r # k
        /\ Group[reservations[r].job] = Group[reservations[k].job]
        => reservations[r].ttl <= 0 \/ reservations[k].ttl <= 0

(* A job that was published is resolved or rejected in the end, through
   crashes of its worker, aborted transactions and jobs of other groups, if
   its handler ends in time and some runner accepts its priority. *)
EveryJobFinishes ==
    \A j \in Jobs : status[j] = "unfulfilled" ~> status[j] \in Final

(* The queue keeps the promise of JobContract. *)
Contract == INSTANCE JobContract WITH status <- status, held <- ReservedJobs
ImplementsContract == Contract!Spec
=============================================================================
