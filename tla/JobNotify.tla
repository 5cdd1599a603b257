----------------------------- MODULE JobNotify -----------------------------
(***************************************************************************)
(* How the caller of PgQueuePublisher.publish learns the outcome of its    *)
(* job.  publish inserts the job, announces it (NOTIFY jobs) and only then *)
(* registers a notifier (a promise) under the id of the job; the first     *)
(* notifier starts a WorkLoop that listens to jobs_finished on a           *)
(* connection of its own, asks the database for the outcomes of the jobs   *)
(* that have a notifier, settles them, and sleeps until it is woken by a   *)
(* notification, by its poll timer or by destroy.                          *)
(*                                                                         *)
(* The queue itself (JobQueue) is the environment here: an inserted job    *)
(* gets its outcome at some time, with a NOTIFY in the same transaction.   *)
(* Code between two awaits is one step.                                    *)
(***************************************************************************)
EXTENDS Integers

CONSTANTS
    PublishedJobs,
    MaxFailures         \* bound: queries of the publisher that fail

ASSUME FailuresAssumption == MaxFailures \in Nat

VARIABLES
    jobStatus,          \* the status of each job in the jobs table
    caller,             \* where the call of publish for each job is
    notifiers,          \* the jobs in #notifiers
    loop,               \* where the notification loop is
    waitingIds,         \* its waitingIds: the jobs its query asks for
    rows,               \* its result: the jobs the query found
    waker,              \* its waker is fulfilled
    notices,            \* NOTIFY jobs_finished on their way to the loop
    isDestroyed,        \* destroy was called
    early,              \* history: jobs that finished before their notifier
    failures            \* how much of the budget is used

notifyVars == <<jobStatus, caller, notifiers, loop, waitingIds, rows, waker,
                notices, isDestroyed, early, failures>>

Outcomes == {"resolved", "rejected"}
Listening == {"reading", "querying", "settling", "sleeping"}

NotifyTypeOK ==
    /\ jobStatus \in [PublishedJobs -> {"none", "unfulfilled"} \cup Outcomes]
    /\ caller \in [PublishedJobs ->
                     {"none", "inserted", "announced", "waiting", "failed"}
                         \cup Outcomes]
    /\ notifiers = {j \in PublishedJobs : caller[j] = "waiting"}
    /\ loop \in {"off", "connecting", "over"} \cup Listening
    /\ waitingIds \subseteq PublishedJobs
    /\ rows \subseteq waitingIds
    /\ waker \in BOOLEAN
    /\ notices \in Nat
    /\ isDestroyed \in BOOLEAN
    /\ early \subseteq PublishedJobs
    /\ failures \in Nat

NotifyInit ==
    /\ jobStatus = [j \in PublishedJobs |-> "none"]
    /\ caller = [j \in PublishedJobs |-> "none"]
    /\ notifiers = {}
    /\ loop = "off"
    /\ waitingIds = {}
    /\ rows = {}
    /\ waker = FALSE
    /\ notices = 0
    /\ isDestroyed = FALSE
    /\ early = {}
    /\ failures = 0

loopVars == <<loop, waitingIds, rows, waker>>
callVars == <<caller, notifiers, early>>

-----------------------------------------------------------------------------
(* publish, and the job's life in the queue. *)

Insert(j) ==
    /\ caller[j] = "none"
    /\ caller' = [caller EXCEPT ![j] = "inserted"]
    /\ jobStatus' = [jobStatus EXCEPT ![j] = "unfulfilled"]
    /\ UNCHANGED <<notifiers, early, loopVars, notices, isDestroyed, failures>>

(* NOTIFY jobs *)
Announce(j) ==
    /\ caller[j] = "inserted"
    /\ caller' = [caller EXCEPT ![j] = "announced"]
    /\ UNCHANGED <<jobStatus, notifiers, early, loopVars, notices, isDestroyed,
                   failures>>

(* NOTIFY jobs fails: publish throws, but the job is in the queue. *)
AnnounceFails(j) ==
    /\ caller[j] = "inserted"
    /\ failures < MaxFailures
    /\ failures' = failures + 1
    /\ caller' = [caller EXCEPT ![j] = "failed"]
    /\ UNCHANGED <<jobStatus, notifiers, early, loopVars, notices, isDestroyed>>

(* addNotifier starts the loop, unless it was started or is unwanted. *)
StartLoop ==
    loop' = IF loop = "off" /\ ~isDestroyed THEN "connecting" ELSE loop

AddNotifier(j) ==
    /\ caller[j] = "announced"
    /\ caller' = [caller EXCEPT ![j] = "waiting"]
    /\ notifiers' = notifiers \cup {j}
    /\ early' = IF jobStatus[j] \in Outcomes THEN early \cup {j} ELSE early
    /\ StartLoop
    /\ UNCHANGED <<jobStatus, waitingIds, rows, waker, notices, isDestroyed,
                   failures>>

(* A runner records the outcome and notifies whoever listens, atomically. *)
Finish(j) ==
    /\ jobStatus[j] = "unfulfilled"
    /\ \E s \in Outcomes : jobStatus' = [jobStatus EXCEPT ![j] = s]
    /\ notices' = IF loop \in Listening THEN notices + 1 ELSE notices
    /\ UNCHANGED <<callVars, loopVars, isDestroyed, failures>>

-----------------------------------------------------------------------------
(* The notification loop. *)

(* LISTEN jobs_finished is in force: from here on notifications arrive. *)
Listen ==
    /\ loop = "connecting"
    /\ loop' = "reading"
    /\ UNCHANGED <<jobStatus, callVars, waitingIds, rows, waker, notices,
                   isDestroyed, failures>>

(* wake: the promise the loop sleeps on, now or next, is fulfilled. *)
HearNotice ==
    /\ notices > 0
    /\ notices' = notices - 1
    /\ waker' = TRUE
    /\ UNCHANGED <<jobStatus, callVars, loop, waitingIds, rows, isDestroyed,
                   failures>>

(* The head of both loops: the query is sent for the notifiers of now. *)
ReadNotifiers ==
    /\ loop = "reading"
    /\ ~isDestroyed
    /\ waitingIds' = notifiers
    /\ loop' = "querying"
    /\ UNCHANGED <<jobStatus, callVars, rows, waker, notices, isDestroyed,
                   failures>>

(* shuttingDown: fn returns, and the connection is closed. *)
EndLoop ==
    /\ loop = "reading"
    /\ isDestroyed
    /\ loop' = "over"
    /\ notices' = 0
    /\ UNCHANGED <<jobStatus, callVars, waitingIds, rows, waker, isDestroyed,
                   failures>>

(* Mutant: the query without the condition on the ids. *)
AllFinished == {j \in PublishedJobs : jobStatus[j] \in Outcomes}

(* The rows of the query; any([]) is SQL's false. *)
FinishedRows == {j \in waitingIds : jobStatus[j] \in Outcomes}

Query ==
    /\ loop = "querying"
    /\ rows' = FinishedRows
    /\ loop' = "settling"
    /\ UNCHANGED <<jobStatus, callVars, waitingIds, waker, notices, isDestroyed,
                   failures>>

(* The callers of the rows are answered, and the inner loop starts over. *)
Settle ==
    /\ loop = "settling"
    /\ rows # {}
    /\ caller' = [j \in PublishedJobs |->
                     IF j \in rows THEN jobStatus[j] ELSE caller[j]]
    /\ notifiers' = notifiers \ rows
    /\ rows' = {}
    /\ waitingIds' = {}
    /\ loop' = "reading"
    /\ UNCHANGED <<jobStatus, early, waker, notices, isDestroyed, failures>>

(* Mutant: sleep forgets the waker when it begins, not when it ends. *)
SleepForgetfully ==
    /\ loop = "settling"
    /\ rows = {}
    /\ waitingIds' = {}
    /\ waker' = FALSE
    /\ loop' = IF isDestroyed THEN "reading" ELSE "sleeping"
    /\ UNCHANGED <<jobStatus, callVars, rows, notices, isDestroyed, failures>>

(* No row: drainNotifications returns and the loop sleeps, but not when it is
   shutting down. *)
Sleep ==
    /\ loop = "settling"
    /\ rows = {}
    /\ waitingIds' = {}
    /\ loop' = IF isDestroyed THEN "reading" ELSE "sleeping"
    /\ UNCHANGED <<jobStatus, callVars, rows, waker, notices, isDestroyed,
                   failures>>

(* The race of sleep is over, and its waker is dropped. *)
LeaveSleep ==
    /\ loop' = "reading"
    /\ waker' = FALSE
    /\ UNCHANGED <<jobStatus, callVars, waitingIds, rows, notices, isDestroyed,
                   failures>>

WakeUp == loop = "sleeping" /\ waker /\ LeaveSleep

(* Mutant: a sleep without a timer. *)
NoPoll == FALSE /\ UNCHANGED notifyVars

(* The poll interval of ten seconds is over. *)
Poll == loop = "sleeping" /\ LeaveSleep

(* The connection or the query fails: the exception leaves fn, which nothing
   catches, and the loop is gone. *)
LoopFails ==
    /\ loop \in {"connecting", "querying"}
    /\ failures < MaxFailures
    /\ failures' = failures + 1
    /\ loop' = "over"
    /\ notices' = 0
    /\ UNCHANGED <<jobStatus, callVars, waitingIds, rows, waker, isDestroyed>>

(* Mutant: shutDown does not wake the loop. *)
DestroyQuietly ==
    /\ ~isDestroyed
    /\ isDestroyed' = TRUE
    /\ UNCHANGED <<jobStatus, callVars, loopVars, notices, failures>>

(* destroy: isDestroyed, and shutDown of the loop if there is one. *)
Destroy ==
    /\ ~isDestroyed
    /\ isDestroyed' = TRUE
    /\ waker' = (waker \/ loop # "off")
    /\ UNCHANGED <<jobStatus, callVars, loop, waitingIds, rows, notices,
                   failures>>

-----------------------------------------------------------------------------
LoopStep ==
    \/ Listen \/ ReadNotifiers \/ EndLoop \/ Query \/ Settle \/ Sleep
    \/ WakeUp \/ Poll

PublishStep(j) == Insert(j) \/ Announce(j) \/ AnnounceFails(j) \/ AddNotifier(j)

NotifyNext ==
    \/ \E j \in PublishedJobs : PublishStep(j) \/ Finish(j)
    \/ LoopStep \/ HearNotice
    \/ LoopFails \/ Destroy

NotifySpec == NotifyInit /\ [][NotifyNext]_notifyVars

(* The event loop goes on, timers fire, PostgreSQL delivers notifications,
   and the queue finishes every job (EveryJobFinishes of JobQueue). *)
NotifyFairness ==
    /\ \A j \in PublishedJobs :
           /\ WF_notifyVars(Announce(j) \/ AddNotifier(j))
           /\ WF_notifyVars(Finish(j))
    /\ WF_notifyVars(LoopStep)
    /\ WF_notifyVars(HearNotice)

FairNotifySpec == NotifySpec /\ NotifyFairness

-----------------------------------------------------------------------------
(* Properties. *)

(* "we only searched for rows matching our notifiers Map, and we are the only
   code that deletes from that Map" (the "!" after the lookup): every row of
   the result still has its notifier when the rows are worked off. *)
RowsHaveNotifiers == rows \subseteq notifiers

(* No wake-up is lost between a query and a sleep: a loop that sleeps with no
   notification on its way may leave a finished job unanswered only if the
   job had finished before publish registered its notifier. *)
SleepsOnlyOverEarly ==
    loop = "sleeping" /\ ~waker /\ notices = 0 =>
        \A j \in notifiers : jobStatus[j] \in Outcomes => j \in early

(* destroy need not sit out the poll interval: a loop that is asleep when the
   publisher is destroyed has been woken. *)
PromptShutDown == loop = "sleeping" /\ isDestroyed => waker

(* Every caller of publish learns the outcome of its job, unless the publisher
   is destroyed first or a failure has ended its loop: the poll timer makes up
   for the notifications that came before the notifier or the LISTEN. *)
EveryCallerIsAnswered ==
    \A j \in PublishedJobs :
        caller[j] = "announced" ~>
            caller[j] \in Outcomes \/ isDestroyed \/ loop = "over"
=============================================================================
