--------------------------- MODULE JobQueueProofs ---------------------------
(***************************************************************************)
(* Theorems about the two sides of the job queue: about JobQueue, for any  *)
(* sets of jobs and runners and any values of the other constants, and,    *)
(* from the section on the publisher on, about JobNotify, for any set of   *)
(* published jobs.  The two modules share no variable.                     *)
(***************************************************************************)
EXTENDS JobQueue, JobNotify, SequenceTheorems, TLAPS

-----------------------------------------------------------------------------
(* Type correctness. *)

USE DEF Statuses, Final, InTransaction, OnJob, PcValues, tables, budgets

LEMMA TypeInit == Init => TypeOK
<1> SUFFICES ASSUME Init PROVE TypeOK
    OBVIOUS
<1>1. queue \in Seq(Jobs) /\ reservations \in Seq(Reservation)
    BY EmptySeq DEF Init
<1>2. QED
    BY <1>1 DEF Init, TypeOK

LEMMA RowFacts ==
    ASSUME TypeOK
    PROVE  /\ DOMAIN reservations = 1..Len(reservations)
           /\ Len(reservations) \in Nat
           /\ \A r \in DOMAIN reservations : reservations[r] \in Reservation
           /\ DOMAIN queue = 1..Len(queue) /\ Len(queue) \in Nat
           /\ \A i \in DOMAIN queue : queue[i] \in Jobs
BY LenProperties, ElementOfSeq DEF TypeOK

LEMMA LeaseType ==
    ASSUME NEW w \in Workers, NEW j \in Jobs
    PROVE  Lease(w, j) \in Nat \ {0}
BY TimeAssumption DEF Lease

(* The row a claim of w inserts, and its id. *)
NewId == Len(reservations) + 1
NewRow(w) == [job |-> jobToRun[w], worker |-> w, done |-> FALSE,
              ttl |-> Lease(w, jobToRun[w]) - age[w]]

(* The rows before and after a claim of w is committed. *)
LEMMA ClaimRows ==
    ASSUME TypeOK, NEW w \in Workers, CommitClaim(w)
    PROVE  /\ reservations' \in Seq(Reservation)
           /\ DOMAIN reservations' = DOMAIN reservations \cup {NewId}
           /\ NewId \notin DOMAIN reservations /\ NewId \in Nat
           /\ \A r \in DOMAIN reservations :
                 reservations'[r] = reservations[r]
           /\ reservations'[NewId] = NewRow(w)
           /\ NewRow(w) \in Reservation
           /\ reservationId' = [reservationId EXCEPT ![w] = NewId]
           /\ handlers' = handlers \cup {NewId}
<1>1. NewRow(w) \in Reservation
    <2>1. jobToRun[w] \in Jobs /\ age[w] \in Int
        BY DEF TypeOK, CommitClaim
    <2>2. QED
        BY <2>1, LeaseType DEF Reservation, NewRow
<1>2. reservations' = Append(reservations, NewRow(w))
    BY DEF CommitClaim, NewRow
<1>3. /\ reservations' \in Seq(Reservation)
      /\ Len(reservations') = Len(reservations) + 1
      /\ \A i \in 1..Len(reservations) : reservations'[i] = reservations[i]
      /\ reservations'[Len(reservations) + 1] = NewRow(w)
    BY <1>1, <1>2, AppendProperties DEF TypeOK
<1>4. DOMAIN reservations' = 1..(Len(reservations) + 1)
    BY <1>3, LenProperties
<1>5. QED
    BY <1>1, <1>3, <1>4, RowFacts DEF NewId, CommitClaim

(* The rows before and after a completion of w is committed. *)
LEMMA CompletionRows ==
    ASSUME TypeOK, NEW w \in Workers, CommitCompletion(w)
    PROVE  /\ reservations' \in Seq(Reservation)
           /\ DOMAIN reservations' = DOMAIN reservations
           /\ reservationId[w] \in DOMAIN reservations
           /\ \A k \in DOMAIN reservations :
                 /\ reservations'[k].job = reservations[k].job
                 /\ reservations'[k].worker = reservations[k].worker
                 /\ reservations'[k].ttl = reservations[k].ttl
                 /\ reservations'[k].done <=>
                        (k = reservationId[w] \/ reservations[k].done)
<1> DEFINE r == reservationId[w]
           e == [reservations[r] EXCEPT !.done = TRUE]
<1>1. /\ reservations \in Seq(Reservation)
      /\ r \in DOMAIN reservations
    BY DEF TypeOK, CommitCompletion
<1>2. /\ r \in 1..Len(reservations)
      /\ reservations[r] \in Reservation
    BY <1>1, RowFacts
<1>3. reservations' = [reservations EXCEPT ![r] = e]
    BY DEF CommitCompletion
<1>4. /\ e \in Reservation
      /\ e.job = reservations[r].job /\ e.worker = reservations[r].worker
      /\ e.ttl = reservations[r].ttl /\ e.done = TRUE
    BY <1>2 DEF Reservation
<1> HIDE DEF e, r
<1>5. reservations' \in Seq(Reservation)
    BY <1>1, <1>2, <1>3, <1>4, ExceptSeq
<1>6. /\ DOMAIN reservations' = DOMAIN reservations
      /\ \A k \in DOMAIN reservations :
            reservations'[k] = IF k = r THEN e ELSE reservations[k]
    BY <1>3
<1>7. \A k \in DOMAIN reservations : reservations[k].done \in BOOLEAN
    BY RowFacts DEF Reservation
<1>8. ASSUME NEW k \in DOMAIN reservations
      PROVE  /\ reservations'[k].job = reservations[k].job
             /\ reservations'[k].worker = reservations[k].worker
             /\ reservations'[k].ttl = reservations[k].ttl
             /\ reservations'[k].done <=> (k = r \/ reservations[k].done)
    <2>1. CASE k = r
        <3>1. reservations'[k] = e /\ reservations[k] = reservations[r]
            BY <2>1, <1>6
        <3>2. QED
            BY <3>1, <2>1, <1>4
    <2>2. CASE k # r
        <3>1. reservations'[k] = reservations[k]
            BY <2>2, <1>6
        <3>2. QED
            BY <3>1, <2>2, <1>7
    <2>3. QED
        BY <2>1, <2>2
<1>9. QED
    BY <1>1, <1>5, <1>6, <1>8 DEF r

(* The rows before and after a tick: their time left never grows. *)
LEMMA ClockRows ==
    ASSUME TypeOK, Tick
    PROVE  /\ reservations' \in Seq(Reservation)
           /\ DOMAIN reservations' = DOMAIN reservations
           /\ \A r \in DOMAIN reservations :
                 /\ reservations'[r] \in Reservation
                 /\ reservations'[r].job = reservations[r].job
                 /\ reservations'[r].worker = reservations[r].worker
                 /\ reservations'[r].ttl <= reservations[r].ttl
                 /\ reservations[r].ttl >= 0 =>
                       reservations'[r].ttl = reservations[r].ttl - 1
                 /\ reservations'[r].done = reservations[r].done
<1> DEFINE left(r) == IF reservations[r].ttl < 0 THEN reservations[r].ttl
                                                 ELSE reservations[r].ttl - 1
<1>1. reservations' = [r \in DOMAIN reservations |->
                         [reservations[r] EXCEPT !.ttl = left(r)]]
    BY DEF Tick
<1>2. \A r \in DOMAIN reservations :
         /\ reservations[r] \in Reservation
         /\ left(r) \in Int /\ left(r) <= reservations[r].ttl
         /\ reservations[r].ttl >= 0 => left(r) = reservations[r].ttl - 1
    <2>1. \A r \in DOMAIN reservations :
             reservations[r] \in Reservation /\ reservations[r].ttl \in Int
        BY RowFacts DEF Reservation
    <2>2. QED
        BY <2>1
<1> HIDE DEF left
<1>3. ASSUME NEW r \in DOMAIN reservations
      PROVE  /\ reservations'[r] \in Reservation
             /\ reservations'[r].job = reservations[r].job
             /\ reservations'[r].worker = reservations[r].worker
             /\ reservations'[r].ttl <= reservations[r].ttl
             /\ reservations[r].ttl >= 0 =>
                   reservations'[r].ttl = reservations[r].ttl - 1
             /\ reservations'[r].done = reservations[r].done
    <2>1. reservations'[r] = [reservations[r] EXCEPT !.ttl = left(r)]
        BY <1>1
    <2>2. QED
        BY <2>1, <1>2 DEF Reservation
<1>4. reservations' \in [1..Len(reservations) -> Reservation]
    BY <1>1, <1>3, RowFacts
<1>5. reservations' \in Seq(Reservation)
    BY <1>4, RowFacts
<1>6. QED
    BY <1>1, <1>3, <1>5

LEMMA OverlapType ==
    ASSUME TypeOK, NEW w \in Workers, NEW C, Overlap(w, C)
    PROVE  conflict' \in [Workers -> {"none", "possible", "certain"}]
BY DEF TypeOK, Overlap

LEMMA TypeStep == TypeOK /\ [Next]_vars => TypeOK'
<1> SUFFICES ASSUME TypeOK, [Next]_vars PROVE TypeOK'
    OBVIOUS
<1>1. ASSUME NEW j \in Jobs, Publish(j) PROVE TypeOK'
    <2>1. queue' \in Seq(Jobs)
        BY <1>1, AppendProperties DEF TypeOK, Publish
    <2>2. QED
        BY <1>1, <2>1 DEF TypeOK, Publish
<1>2. ASSUME NEW w \in Workers, Wake(w) PROVE TypeOK'
    BY <1>2 DEF TypeOK, Wake
<1>3. ASSUME NEW w \in Workers, BeginClaim(w) PROVE TypeOK'
    BY <1>3, RowFacts DEF TypeOK, BeginClaim
<1>4. ASSUME NEW w \in Workers, FindNoWork(w) PROVE TypeOK'
    BY <1>4 DEF TypeOK, FindNoWork
<1>5. ASSUME NEW w \in Workers, CommitClaim(w) PROVE TypeOK'
    <2>1. conflict' \in [Workers -> {"none", "possible", "certain"}]
        BY <1>5, OverlapType DEF CommitClaim
    <2>2. NewRow(w).job = jobToRun[w] /\ NewRow(w).worker = w
        BY DEF NewRow
    <2>3. /\ reservationId' \in [Workers -> Nat]
          /\ handlers' \subseteq DOMAIN reservations'
          /\ pc' \in [Workers -> PcValues] /\ age' \in [Workers -> Nat]
        BY <1>5, ClaimRows, SMTT(60) DEF TypeOK, CommitClaim
    <2>4. ASSUME NEW u \in Workers
          PROVE  /\ pc'[u] \in OnJob \cup {"claiming"} => jobToRun'[u] \in Jobs
                 /\ pc'[u] \in OnJob =>
                       /\ reservationId'[u] \in DOMAIN reservations'
                       /\ reservations'[reservationId'[u]].job = jobToRun'[u]
                       /\ reservations'[reservationId'[u]].worker = u
        <3>1. CASE u = w
            BY <3>1, <1>5, <2>2, ClaimRows DEF TypeOK, CommitClaim
        <3>2. CASE u # w
            <4>1. /\ pc'[u] = pc[u] /\ jobToRun'[u] = jobToRun[u]
                  /\ reservationId'[u] = reservationId[u]
                BY <3>2, <1>5 DEF TypeOK, CommitClaim
            <4>2. QED
                BY <4>1, <1>5, ClaimRows DEF TypeOK
        <3>3. QED
            BY <3>1, <3>2
    <2>5. QED
        BY <1>5, <2>1, <2>3, <2>4, ClaimRows DEF TypeOK, CommitClaim
<1>6. ASSUME NEW w \in Workers, AbortTransaction(w) PROVE TypeOK'
    BY <1>6 DEF TypeOK, AbortTransaction, LeaveTo
<1>7. ASSUME NEW w \in Workers, HandlerSettles(w) PROVE TypeOK'
    BY <1>7 DEF TypeOK, HandlerSettles
<1>8. ASSUME NEW w \in Workers, RaceTimesOut(w) PROVE TypeOK'
    BY <1>8 DEF TypeOK, RaceTimesOut
<1>9. ASSUME NEW r \in handlers, AbandonedHandlerSettles(r) PROVE TypeOK'
    BY <1>9 DEF TypeOK, AbandonedHandlerSettles
<1>10. ASSUME NEW w \in Workers, DropOutcome(w) PROVE TypeOK'
    BY <1>10 DEF TypeOK, DropOutcome, LeaveTo
<1>11. ASSUME NEW w \in Workers, BeginCompletion(w) PROVE TypeOK'
    BY <1>11 DEF TypeOK, BeginCompletion
<1>12. ASSUME NEW w \in Workers, CommitCompletion(w) PROVE TypeOK'
    <2>1. conflict' \in [Workers -> {"none", "possible", "certain"}]
        BY <1>12, OverlapType DEF CommitCompletion
    <2>2. /\ status' \in [Jobs -> Statuses]
          /\ pc' \in [Workers -> PcValues] /\ age' \in [Workers -> Nat]
          /\ jobToRun' \in [Workers -> Jobs \cup {NoJob}]
          /\ reservationId' \in [Workers -> Nat]
          /\ newStatus' \in [Workers -> Final]
        BY <1>12 DEF TypeOK, CommitCompletion, LeaveTo
    <2>3. ASSUME NEW u \in Workers
          PROVE  /\ pc'[u] \in OnJob \cup {"claiming"} => jobToRun'[u] \in Jobs
                 /\ pc'[u] \in OnJob =>
                       /\ reservationId'[u] \in DOMAIN reservations'
                       /\ reservations'[reservationId'[u]].job = jobToRun'[u]
                       /\ reservations'[reservationId'[u]].worker = u
        <3>1. CASE u = w
            BY <3>1, <1>12 DEF TypeOK, CommitCompletion, LeaveTo
        <3>2. CASE u # w
            <4>1. /\ pc'[u] = pc[u] /\ jobToRun'[u] = jobToRun[u]
                  /\ reservationId'[u] = reservationId[u]
                BY <3>2, <1>12 DEF TypeOK, CommitCompletion, LeaveTo
            <4>2. /\ pc[u] \in OnJob \cup {"claiming"} => jobToRun[u] \in Jobs
                  /\ pc[u] \in OnJob =>
                        /\ reservationId[u] \in DOMAIN reservations
                        /\ reservations[reservationId[u]].job = jobToRun[u]
                        /\ reservations[reservationId[u]].worker = u
                BY DEF TypeOK
            <4>3. /\ DOMAIN reservations' = DOMAIN reservations
                  /\ \A k \in DOMAIN reservations :
                        /\ reservations'[k].job = reservations[k].job
                        /\ reservations'[k].worker = reservations[k].worker
                BY <1>12, CompletionRows
            <4>4. QED
                BY <4>1, <4>2, <4>3
        <3>3. QED
            BY <3>1, <3>2
    <2>4. QED
        BY <1>12, <2>1, <2>2, <2>3, CompletionRows DEF TypeOK, CommitCompletion
<1>13. ASSUME NEW w \in Workers, Crash(w) PROVE TypeOK'
    BY <1>13, BoundAssumption DEF TypeOK, Crash, LeaveTo
<1>14. ASSUME NEW w \in Workers, Restart(w) PROVE TypeOK'
    BY <1>14 DEF TypeOK, Restart
<1>15. ASSUME NEW w \in Workers, ShutDown(w) PROVE TypeOK'
    BY <1>15 DEF TypeOK, ShutDown
<1>16. ASSUME Tick PROVE TypeOK'
    <2>1. age' \in [Workers -> Nat]
        BY <1>16 DEF TypeOK, Tick
    <2>2. QED
        BY <1>16, <2>1, ClockRows DEF TypeOK, Tick
<1>17. ASSUME UNCHANGED vars PROVE TypeOK'
    BY <1>17 DEF TypeOK, vars
<1>18. QED
    BY <1>1, <1>2, <1>3, <1>4, <1>5, <1>6, <1>7, <1>8, <1>9, <1>10, <1>11,
       <1>12, <1>13, <1>14, <1>15, <1>16, <1>17 DEF Next, Step

(* Every reachable state of the queue is well formed: a runner at work on a
   job has a reservation of its own for that very job. *)
THEOREM TypeCorrect == Spec => []TypeOK
<1>1. QED
    BY TypeInit, TypeStep, PTL DEF Spec

-----------------------------------------------------------------------------
(* Exclusive groups. *)

(* Two jobs that may be reserved together. *)
Apart(j, h) == /\ j # h
               /\ Group[j] # Group[h]
               /\ Group[j] # Null /\ Group[h] # Null

(* The claim that w is about to commit is still allowed, or bound to fail,
   or so late that its reservation is over from the start. *)
LiveClaim(w) == /\ pc[w] = "claiming"
                /\ conflict[w] # "certain"
                /\ Lease(w, jobToRun[w]) - age[w] > 0

ClaimSound ==
    \A w \in Workers : LiveClaim(w) =>
        \A r \in Valid : Apart(jobToRun[w], reservations[r].job)

ExclusionInv == GroupExclusive /\ ClaimSound

LEMMA ExclusionInit == Init => ExclusionInv
BY DEF Init, ExclusionInv, GroupExclusive, ClaimSound, Valid, LiveClaim

(* A step that makes no reservation valid and begins no claim. *)
LEMMA ExclusionShrinks ==
    ASSUME ExclusionInv,
           Valid' \subseteq Valid,
           \A r \in Valid : reservations'[r].job = reservations[r].job,
           \A u \in Workers : LiveClaim(u)' =>
               LiveClaim(u) /\ jobToRun'[u] = jobToRun[u]
    PROVE  ExclusionInv'
BY DEF ExclusionInv, GroupExclusive, ClaimSound, Apart

LEMMA ExclusionFrame ==
    ASSUME ExclusionInv, UNCHANGED reservations,
           \A u \in Workers : LiveClaim(u)' =>
               LiveClaim(u) /\ jobToRun'[u] = jobToRun[u]
    PROVE  ExclusionInv'
<1>1. Valid' = Valid
    BY DEF Valid
<1>2. QED
    BY <1>1, ExclusionShrinks

LEMMA ExclusionStep == TypeOK /\ ExclusionInv /\ [Next]_vars => ExclusionInv'
<1> SUFFICES ASSUME TypeOK, ExclusionInv, [Next]_vars PROVE ExclusionInv'
    OBVIOUS
<1> USE DEF LiveClaim
<1>1. ASSUME NEW j \in Jobs, Publish(j) PROVE ExclusionInv'
    BY <1>1, ExclusionFrame DEF Publish
<1>2. ASSUME NEW w \in Workers, Wake(w) PROVE ExclusionInv'
    BY <1>2, ExclusionFrame DEF TypeOK, Wake
<1>3. ASSUME NEW w \in Workers, BeginClaim(w) PROVE ExclusionInv'
    <2>1. PICK i \in DOMAIN queue :
             Eligible(w, queue[i]) /\ jobToRun' = [jobToRun EXCEPT ![w] = queue[i]]
        BY <1>3 DEF BeginClaim, OldestEligible
    <2>2. Valid' = Valid /\ UNCHANGED reservations
        BY <1>3 DEF BeginClaim, Valid
    <2>3. \A r \in Valid : Apart(queue[i], reservations[r].job)
        BY <2>1 DEF Eligible, NotIn, ReservedJobs, ActiveGroups, Apart
    <2>4. jobToRun'[w] = queue[i]
        BY <2>1 DEF TypeOK
    <2>5. \A u \in Workers \ {w} :
             LiveClaim(u)' => LiveClaim(u) /\ jobToRun'[u] = jobToRun[u]
        BY <1>3, <2>1 DEF BeginClaim, TypeOK
    <2>6. GroupExclusive'
        BY <2>2 DEF ExclusionInv, GroupExclusive
    <2>7. ClaimSound'
        BY <2>2, <2>3, <2>4, <2>5 DEF ExclusionInv, ClaimSound
    <2>8. QED
        BY <2>6, <2>7 DEF ExclusionInv
<1>4. ASSUME NEW w \in Workers, FindNoWork(w) PROVE ExclusionInv'
    BY <1>4, ExclusionFrame DEF TypeOK, FindNoWork
<1>5. ASSUME NEW w \in Workers, CommitClaim(w) PROVE ExclusionInv'
    <2> DEFINE left == Lease(w, jobToRun[w]) - age[w]
    <2>1. /\ jobToRun[w] \in Jobs /\ age[w] \in Nat
          /\ left \in Int
          /\ pc[w] = "claiming" /\ conflict[w] # "certain"
        BY <1>5, LeaseType DEF TypeOK, CommitClaim
    <2>2. /\ NewRow(w).job = jobToRun[w] /\ NewRow(w).ttl = left
          /\ NewRow(w).done = FALSE
        BY DEF NewRow
    <2>3. ASSUME NEW u \in Workers, LiveClaim(u)'
          PROVE  /\ u # w /\ LiveClaim(u) /\ jobToRun'[u] = jobToRun[u]
                 /\ u \notin DoomedByClaim(w)
        BY <1>5, <2>3 DEF CommitClaim, Overlap, TypeOK
    <2>4. ASSUME NEW u \in Workers, LiveClaim(u)', left > 0
          PROVE  FALSE
        <3>1. /\ u \in Workers \ {w} /\ pc[u] = "claiming"
              /\ u \notin DoomedByClaim(w)
              /\ Lease(u, jobToRun[u]) - age[u] > 0
            BY <2>3, <2>4
        <3>2. jobToRun[u] \in Jobs /\ age[u] \in Nat
            BY <3>1 DEF TypeOK
        <3>3. Lease(u, jobToRun[u]) \in Nat
            BY <3>2, LeaseType
        <3>4. ~ClaimsCollide(u, w)
            BY <3>1 DEF DoomedByClaim
        <3>5. Lease(w, jobToRun[w]) \in Nat
            BY <2>1, LeaseType
        <3>6. QED
            BY <2>1, <2>4, <3>1, <3>2, <3>3, <3>4, <3>5 DEF ClaimsCollide
    <2> HIDE DEF left
    <2>5. Valid' = IF left > 0 THEN Valid \cup {NewId} ELSE Valid
        BY <1>5, <2>1, <2>2, ClaimRows DEF Valid
    <2>6. \A r \in Valid : reservations'[r] = reservations[r]
        BY <1>5, ClaimRows DEF Valid
    <2>7. CASE left > 0
        <3>1. ClaimSound'
            BY <2>4, <2>7 DEF ClaimSound
        <3>2. /\ Valid' = Valid \cup {NewId} /\ NewId \notin Valid
              /\ reservations'[NewId].job = jobToRun[w]
            BY <1>5, <2>2, <2>5, <2>7, ClaimRows DEF Valid
        <3>3. \A r \in Valid : Apart(jobToRun[w], reservations[r].job)
            BY <2>1, <2>7 DEF ExclusionInv, ClaimSound, left
        <3>4. GroupExclusive'
            BY <2>6, <3>2, <3>3 DEF ExclusionInv, GroupExclusive, Apart
        <3>5. QED
            BY <3>1, <3>4 DEF ExclusionInv
    <2>8. CASE ~(left > 0)
        BY <2>3, <2>5, <2>6, <2>8, ExclusionShrinks
    <2>9. QED
        BY <2>7, <2>8
<1>6. ASSUME NEW w \in Workers, AbortTransaction(w) PROVE ExclusionInv'
    BY <1>6, ExclusionFrame DEF TypeOK, AbortTransaction, LeaveTo
<1>7. ASSUME NEW w \in Workers, HandlerSettles(w) PROVE ExclusionInv'
    BY <1>7, ExclusionFrame DEF TypeOK, HandlerSettles
<1>8. ASSUME NEW w \in Workers, RaceTimesOut(w) PROVE ExclusionInv'
    BY <1>8, ExclusionFrame DEF TypeOK, RaceTimesOut
<1>9. ASSUME NEW r \in handlers, AbandonedHandlerSettles(r) PROVE ExclusionInv'
    BY <1>9, ExclusionFrame DEF AbandonedHandlerSettles
<1>10. ASSUME NEW w \in Workers, DropOutcome(w) PROVE ExclusionInv'
    BY <1>10, ExclusionFrame DEF TypeOK, DropOutcome, LeaveTo
<1>11. ASSUME NEW w \in Workers, BeginCompletion(w) PROVE ExclusionInv'
    BY <1>11, ExclusionFrame DEF TypeOK, BeginCompletion
<1>12. ASSUME NEW w \in Workers, CommitCompletion(w) PROVE ExclusionInv'
    <2>1. /\ Valid' \subseteq Valid
          /\ \A r \in Valid : reservations'[r].job = reservations[r].job
        BY <1>12, CompletionRows DEF Valid
    <2>2. ASSUME NEW u \in Workers, LiveClaim(u)'
          PROVE  LiveClaim(u) /\ jobToRun'[u] = jobToRun[u]
        BY <1>12, <2>2 DEF TypeOK, CommitCompletion, LeaveTo, Overlap
    <2>3. QED
        BY <2>1, <2>2, ExclusionShrinks
<1>13. ASSUME NEW w \in Workers, Crash(w) PROVE ExclusionInv'
    BY <1>13, ExclusionFrame DEF TypeOK, Crash, LeaveTo
<1>14. ASSUME NEW w \in Workers, Restart(w) PROVE ExclusionInv'
    BY <1>14, ExclusionFrame DEF TypeOK, Restart
<1>15. ASSUME NEW w \in Workers, ShutDown(w) PROVE ExclusionInv'
    BY <1>15, ExclusionFrame DEF TypeOK, ShutDown
<1>16. ASSUME Tick PROVE ExclusionInv'
    <2>1. /\ Valid' \subseteq Valid
          /\ \A r \in Valid : reservations'[r].job = reservations[r].job
        <3>1. \A r \in DOMAIN reservations :
                 reservations[r].ttl \in Int /\ reservations'[r].ttl \in Int
            BY <1>16, ClockRows, RowFacts DEF Reservation
        <3>2. QED
            BY <1>16, <3>1, ClockRows DEF Valid
    <2>2. ASSUME NEW u \in Workers, LiveClaim(u)'
          PROVE  LiveClaim(u) /\ jobToRun'[u] = jobToRun[u]
        <3>1. /\ pc[u] = "claiming" /\ conflict[u] # "certain"
              /\ jobToRun'[u] = jobToRun[u]
            BY <1>16, <2>2 DEF Tick
        <3>2. /\ jobToRun[u] \in Jobs /\ age[u] \in Nat
              /\ age'[u] = age[u] + 1
            BY <1>16, <3>1 DEF Tick, TypeOK
        <3>3. Lease(u, jobToRun[u]) \in Nat
            BY <3>2, LeaseType
        <3>4. QED
            BY <2>2, <3>1, <3>2, <3>3
    <2>3. QED
        BY <2>1, <2>2, ExclusionShrinks
<1>17. ASSUME UNCHANGED vars PROVE ExclusionInv'
    BY <1>17, ExclusionFrame DEF vars
<1>18. QED
    BY <1>1, <1>2, <1>3, <1>4, <1>5, <1>6, <1>7, <1>8, <1>9, <1>10, <1>11,
       <1>12, <1>13, <1>14, <1>15, <1>16, <1>17 DEF Next, Step

(* Two jobs of one concurrency group are never validly reserved together. *)
THEOREM GroupsAreExclusive == Spec => []GroupExclusive
<1>1. TypeOK /\ ExclusionInv /\ [Next]_vars => (TypeOK /\ ExclusionInv)'
    BY TypeStep, ExclusionStep
<1>2. Init => TypeOK /\ ExclusionInv
    BY TypeInit, ExclusionInit
<1>3. TypeOK /\ ExclusionInv => GroupExclusive
    BY DEF ExclusionInv
<1>4. QED
    BY <1>1, <1>2, <1>3, PTL DEF Spec

-----------------------------------------------------------------------------
(* One outcome per job. *)

(* A completion that may still commit concerns a job without an outcome. *)
CompletionSound ==
    \A w \in Workers :
        pc[w] \in {"completing", "completingLate"} /\ conflict[w] # "certain" =>
            status[jobToRun[w]] = "unfulfilled"

CompletionInv == OneCompletion /\ CompletionSound

LEMMA CompletionInit == Init => CompletionInv
BY DEF Init, CompletionInv, OneCompletion, CompletionSound

(* A step that changes no outcome and begins no completion. *)
LEMMA CompletionFrame ==
    ASSUME CompletionInv, UNCHANGED <<status, reservations>>,
           \A u \in Workers :
              pc'[u] \in {"completing", "completingLate"} /\ conflict'[u] # "certain" =>
                  /\ pc[u] \in {"completing", "completingLate"}
                  /\ conflict[u] # "certain" /\ jobToRun'[u] = jobToRun[u]
    PROVE  CompletionInv'
BY DEF CompletionInv, OneCompletion, CompletionSound

LEMMA CompletionStep == TypeOK /\ CompletionInv /\ [Next]_vars => CompletionInv'
<1> SUFFICES ASSUME TypeOK, CompletionInv, [Next]_vars PROVE CompletionInv'
    OBVIOUS
<1>1. ASSUME NEW j \in Jobs, Publish(j) PROVE CompletionInv'
    <2>1. \A h \in Jobs : (status'[h] \in Final) <=> (status[h] \in Final)
        BY <1>1 DEF TypeOK, Publish
    <2>2. OneCompletion'
        BY <1>1, <2>1 DEF CompletionInv, OneCompletion, Publish
    <2>3. CompletionSound'
        BY <1>1 DEF TypeOK, CompletionInv, CompletionSound, Publish
    <2>4. QED
        BY <2>2, <2>3 DEF CompletionInv
<1>2. ASSUME NEW w \in Workers, Wake(w) PROVE CompletionInv'
    BY <1>2, CompletionFrame DEF TypeOK, Wake
<1>3. ASSUME NEW w \in Workers, BeginClaim(w) PROVE CompletionInv'
    BY <1>3, CompletionFrame DEF TypeOK, BeginClaim
<1>4. ASSUME NEW w \in Workers, FindNoWork(w) PROVE CompletionInv'
    BY <1>4, CompletionFrame DEF TypeOK, FindNoWork
<1>5. ASSUME NEW w \in Workers, CommitClaim(w) PROVE CompletionInv'
    <2>1. /\ DOMAIN reservations' = DOMAIN reservations \cup {NewId}
          /\ \A r \in DOMAIN reservations : reservations'[r] = reservations[r]
          /\ reservations'[NewId] = NewRow(w) /\ NewRow(w).done = FALSE
        <3>1. NewRow(w).done = FALSE
            BY DEF NewRow
        <3>2. QED
            BY <1>5, <3>1, ClaimRows
    <2>2. UNCHANGED status
        BY <1>5 DEF CommitClaim
    <2>3. OneCompletion'
        BY <2>1, <2>2 DEF CompletionInv, OneCompletion
    <2>4. CompletionSound'
        BY <1>5, <2>2 DEF TypeOK, CompletionInv, CompletionSound, CommitClaim, Overlap
    <2>5. QED
        BY <2>3, <2>4 DEF CompletionInv
<1>6. ASSUME NEW w \in Workers, AbortTransaction(w) PROVE CompletionInv'
    BY <1>6, CompletionFrame DEF TypeOK, AbortTransaction, LeaveTo
<1>7. ASSUME NEW w \in Workers, HandlerSettles(w) PROVE CompletionInv'
    BY <1>7, CompletionFrame DEF TypeOK, HandlerSettles
<1>8. ASSUME NEW w \in Workers, RaceTimesOut(w) PROVE CompletionInv'
    BY <1>8, CompletionFrame DEF TypeOK, RaceTimesOut
<1>9. ASSUME NEW r \in handlers, AbandonedHandlerSettles(r) PROVE CompletionInv'
    BY <1>9, CompletionFrame DEF AbandonedHandlerSettles
<1>10. ASSUME NEW w \in Workers, DropOutcome(w) PROVE CompletionInv'
    BY <1>10, CompletionFrame DEF TypeOK, DropOutcome, LeaveTo
<1>11. ASSUME NEW w \in Workers, BeginCompletion(w) PROVE CompletionInv'
    <2>1. OneCompletion'
        BY <1>11 DEF CompletionInv, OneCompletion, BeginCompletion
    <2>2. status[jobToRun[w]] = "unfulfilled"
        BY <1>11 DEF BeginCompletion, Superseded
    <2>3. CompletionSound'
        BY <1>11, <2>2 DEF TypeOK, CompletionInv, CompletionSound, BeginCompletion
    <2>4. QED
        BY <2>1, <2>3 DEF CompletionInv
<1>12. ASSUME NEW w \in Workers, CommitCompletion(w) PROVE CompletionInv'
    <2> DEFINE j == jobToRun[w]
    <2>1. /\ pc[w] \in {"completing", "completingLate"} /\ conflict[w] # "certain"
          /\ j \in Jobs /\ reservations[reservationId[w]].job = j
          /\ reservationId[w] \in DOMAIN reservations
          /\ newStatus[w] \in Final
          /\ status' = [status EXCEPT ![j] = newStatus[w]]
        BY <1>12 DEF TypeOK, CommitCompletion
    <2>2. status[j] = "unfulfilled"
        BY <2>1 DEF CompletionInv, CompletionSound
    <2>3. \A r \in DOMAIN reservations :
             reservations[r].done => reservations[r].job # j
        BY <2>1, <2>2 DEF CompletionInv, OneCompletion
    <2>4. /\ DOMAIN reservations' = DOMAIN reservations
          /\ \A r \in DOMAIN reservations :
                /\ reservations'[r].job = reservations[r].job
                /\ reservations'[r].done <=>
                       (r = reservationId[w] \/ reservations[r].done)
        BY <1>12, CompletionRows
    <2>5. \A h \in Jobs : status'[h] = IF h = j THEN newStatus[w] ELSE status[h]
        BY <2>1 DEF TypeOK
    <2>6. OneCompletion'
        <3>1. ASSUME NEW r \in DOMAIN reservations', NEW k \in DOMAIN reservations',
                     reservations'[r].done, reservations'[k].done,
                     reservations'[r].job = reservations'[k].job
              PROVE  r = k
            BY <2>1, <2>3, <2>4, <3>1 DEF CompletionInv, OneCompletion
        <3>2. ASSUME NEW h \in Jobs
              PROVE  (status'[h] \in Final) <=>
                        \E r \in DOMAIN reservations' :
                            reservations'[r].done /\ reservations'[r].job = h
            <4>1. CASE h = j
                BY <4>1, <2>1, <2>4, <2>5
            <4>2. CASE h # j
                BY <4>2, <2>1, <2>4, <2>5 DEF CompletionInv, OneCompletion
            <4>3. QED
                BY <4>1, <4>2
        <3>3. QED
            BY <3>1, <3>2 DEF OneCompletion
    <2>7. CompletionSound'
        <3>1. ASSUME NEW u \in Workers,
                     pc'[u] \in {"completing", "completingLate"},
                     conflict'[u] # "certain"
              PROVE  status'[jobToRun'[u]] = "unfulfilled"
            <4>1. /\ u # w /\ pc'[u] = pc[u] /\ jobToRun'[u] = jobToRun[u]
                  /\ conflict[u] # "certain" /\ u \notin DoomedByCompletion(w)
                BY <1>12, <3>1 DEF TypeOK, CommitCompletion, LeaveTo, Overlap
            <4>2. jobToRun[u] # j
                BY <3>1, <4>1 DEF DoomedByCompletion
            <4>3. jobToRun[u] \in Jobs /\ status[jobToRun[u]] = "unfulfilled"
                BY <3>1, <4>1 DEF TypeOK, CompletionInv, CompletionSound
            <4>4. QED
                BY <2>5, <4>1, <4>2, <4>3
        <3>2. QED
            BY <3>1 DEF CompletionSound
    <2>8. QED
        BY <2>6, <2>7 DEF CompletionInv
<1>13. ASSUME NEW w \in Workers, Crash(w) PROVE CompletionInv'
    BY <1>13, CompletionFrame DEF TypeOK, Crash, LeaveTo
<1>14. ASSUME NEW w \in Workers, Restart(w) PROVE CompletionInv'
    BY <1>14, CompletionFrame DEF TypeOK, Restart
<1>15. ASSUME NEW w \in Workers, ShutDown(w) PROVE CompletionInv'
    BY <1>15, CompletionFrame DEF TypeOK, ShutDown
<1>16. ASSUME Tick PROVE CompletionInv'
    <2>1. /\ DOMAIN reservations' = DOMAIN reservations
          /\ \A r \in DOMAIN reservations :
                /\ reservations'[r].job = reservations[r].job
                /\ reservations'[r].done = reservations[r].done
          /\ UNCHANGED <<status, pc, jobToRun, conflict>>
        BY <1>16, ClockRows DEF Tick
    <2>2. QED
        BY <2>1 DEF CompletionInv, OneCompletion, CompletionSound
<1>17. ASSUME UNCHANGED vars PROVE CompletionInv'
    BY <1>17, CompletionFrame DEF vars
<1>18. QED
    BY <1>1, <1>2, <1>3, <1>4, <1>5, <1>6, <1>7, <1>8, <1>9, <1>10, <1>11,
       <1>12, <1>13, <1>14, <1>15, <1>16, <1>17 DEF Next, Step

(* A job has an outcome exactly when exactly one of its runs recorded it. *)
THEOREM OutcomesAreRecordedOnce == Spec => []OneCompletion
<1>1. TypeOK /\ CompletionInv /\ [Next]_vars => (TypeOK /\ CompletionInv)'
    BY TypeStep, CompletionStep
<1>2. Init => TypeOK /\ CompletionInv
    BY TypeInit, CompletionInit
<1>3. TypeOK /\ CompletionInv => OneCompletion
    BY DEF CompletionInv
<1>4. QED
    BY <1>1, <1>2, <1>3, PTL DEF Spec

-----------------------------------------------------------------------------
(* What is in the tables and in the hands of a runner has been published,    *)
(* once, and keeps its place in the queue.                                   *)

PublishedInv ==
    /\ \A i \in DOMAIN queue : status[queue[i]] # "unpublished"
    /\ \A i, k \in DOMAIN queue : queue[i] = queue[k] => i = k
    /\ \A r \in DOMAIN reservations :
          status[reservations[r].job] # "unpublished"
    /\ \A w \in Workers :
          pc[w] = "claiming" => status[jobToRun[w]] # "unpublished"

LEMMA PublishedInit == Init => PublishedInv
BY DEF Init, PublishedInv

LEMMA PublishedFrame ==
    ASSUME PublishedInv, UNCHANGED tables,
           \A u \in Workers : pc'[u] = "claiming" =>
               pc[u] = "claiming" /\ jobToRun'[u] = jobToRun[u]
    PROVE  PublishedInv'
BY DEF PublishedInv

(* The queue grows at its end. *)
LEMMA PublishQueue ==
    ASSUME TypeOK, NEW j \in Jobs, Publish(j)
    PROVE  /\ DOMAIN queue' = DOMAIN queue \cup {Len(queue) + 1}
           /\ Len(queue) + 1 \notin DOMAIN queue
           /\ \A i \in DOMAIN queue : queue'[i] = queue[i] /\ i < Len(queue) + 1
           /\ queue'[Len(queue) + 1] = j
           /\ status[j] = "unpublished"
           /\ \A h \in Jobs : status'[h] = IF h = j THEN "unfulfilled" ELSE status[h]
<1>1. queue \in Seq(Jobs) /\ queue' = Append(queue, j)
    BY DEF TypeOK, Publish
<1>2. /\ queue' \in Seq(Jobs) /\ Len(queue') = Len(queue) + 1
      /\ \A i \in 1..Len(queue) : queue'[i] = queue[i]
      /\ queue'[Len(queue) + 1] = j
    BY <1>1, AppendProperties
<1>3. DOMAIN queue' = 1..(Len(queue) + 1)
    BY <1>2, LenProperties
<1>4. QED
    BY <1>2, <1>3, RowFacts DEF TypeOK, Publish

LEMMA PublishedStep == TypeOK /\ PublishedInv /\ [Next]_vars => PublishedInv'
<1> SUFFICES ASSUME TypeOK, PublishedInv, [Next]_vars PROVE PublishedInv'
    OBVIOUS
<1>1. ASSUME NEW j \in Jobs, Publish(j) PROVE PublishedInv'
    <2>1. \A h \in Jobs : status[h] # "unpublished" => status'[h] # "unpublished"
        BY <1>1, PublishQueue
    <2>2. \A i \in DOMAIN queue : queue[i] # j
        BY <1>1, PublishQueue DEF PublishedInv
    <2>3. /\ \A i \in DOMAIN queue' : status'[queue'[i]] # "unpublished"
          /\ \A i, k \in DOMAIN queue' : queue'[i] = queue'[k] => i = k
        BY <1>1, <2>1, <2>2, RowFacts, PublishQueue DEF PublishedInv
    <2>4. \A r \in DOMAIN reservations :
             reservations[r].job \in Jobs /\ reservations'[r] = reservations[r]
        BY <1>1, RowFacts DEF Publish, Reservation
    <2>5. UNCHANGED <<reservations, pc, jobToRun>>
        BY <1>1 DEF Publish
    <2>6. \A w \in Workers : pc[w] = "claiming" => jobToRun[w] \in Jobs
        BY DEF TypeOK
    <2>7. QED
        BY <2>1, <2>3, <2>4, <2>5, <2>6 DEF PublishedInv
<1>2. ASSUME NEW w \in Workers, Wake(w) PROVE PublishedInv'
    BY <1>2, PublishedFrame DEF TypeOK, Wake
<1>3. ASSUME NEW w \in Workers, BeginClaim(w) PROVE PublishedInv'
    BY <1>3 DEF TypeOK, BeginClaim, PublishedInv
<1>4. ASSUME NEW w \in Workers, FindNoWork(w) PROVE PublishedInv'
    BY <1>4, PublishedFrame DEF TypeOK, FindNoWork
<1>5. ASSUME NEW w \in Workers, CommitClaim(w) PROVE PublishedInv'
    <2>1. NewRow(w).job = jobToRun[w] /\ status[jobToRun[w]] # "unpublished"
        BY <1>5 DEF NewRow, CommitClaim, PublishedInv
    <2>2. \A r \in DOMAIN reservations' :
             status[reservations'[r].job] # "unpublished"
        BY <1>5, <2>1, ClaimRows DEF PublishedInv
    <2>3. QED
        BY <1>5, <2>2 DEF TypeOK, CommitClaim, PublishedInv
<1>6. ASSUME NEW w \in Workers, AbortTransaction(w) PROVE PublishedInv'
    BY <1>6, PublishedFrame DEF TypeOK, AbortTransaction, LeaveTo
<1>7. ASSUME NEW w \in Workers, HandlerSettles(w) PROVE PublishedInv'
    BY <1>7, PublishedFrame DEF TypeOK, HandlerSettles
<1>8. ASSUME NEW w \in Workers, RaceTimesOut(w) PROVE PublishedInv'
    BY <1>8, PublishedFrame DEF TypeOK, RaceTimesOut
<1>9. ASSUME NEW r \in handlers, AbandonedHandlerSettles(r) PROVE PublishedInv'
    BY <1>9, PublishedFrame DEF AbandonedHandlerSettles
<1>10. ASSUME NEW w \in Workers, DropOutcome(w) PROVE PublishedInv'
    BY <1>10, PublishedFrame DEF TypeOK, DropOutcome, LeaveTo
<1>11. ASSUME NEW w \in Workers, BeginCompletion(w) PROVE PublishedInv'
    BY <1>11, PublishedFrame DEF TypeOK, BeginCompletion
<1>12. ASSUME NEW w \in Workers, CommitCompletion(w) PROVE PublishedInv'
    <2>1. \A h \in Jobs : status[h] # "unpublished" => status'[h] # "unpublished"
        BY <1>12 DEF TypeOK, CommitCompletion
    <2>2. \A r \in DOMAIN reservations :
             reservations[r].job \in Jobs /\ reservations'[r].job = reservations[r].job
        BY <1>12, RowFacts, CompletionRows DEF Reservation
    <2>3. \A r \in DOMAIN reservations' :
             status'[reservations'[r].job] # "unpublished"
        BY <1>12, <2>1, <2>2, CompletionRows DEF PublishedInv
    <2>4. \A u \in Workers : pc'[u] = "claiming" =>
             /\ pc[u] = "claiming" /\ jobToRun'[u] = jobToRun[u]
             /\ jobToRun[u] \in Jobs
        BY <1>12 DEF TypeOK, CommitCompletion, LeaveTo
    <2>5. UNCHANGED queue
        BY <1>12 DEF CommitCompletion
    <2>6. QED
        BY <2>1, <2>3, <2>4, <2>5, RowFacts DEF PublishedInv
<1>13. ASSUME NEW w \in Workers, Crash(w) PROVE PublishedInv'
    BY <1>13, PublishedFrame DEF TypeOK, Crash, LeaveTo
<1>14. ASSUME NEW w \in Workers, Restart(w) PROVE PublishedInv'
    BY <1>14, PublishedFrame DEF TypeOK, Restart
<1>15. ASSUME NEW w \in Workers, ShutDown(w) PROVE PublishedInv'
    BY <1>15, PublishedFrame DEF TypeOK, ShutDown
<1>16. ASSUME Tick PROVE PublishedInv'
    <2>1. /\ DOMAIN reservations' = DOMAIN reservations
          /\ \A r \in DOMAIN reservations :
                reservations'[r].job = reservations[r].job
          /\ UNCHANGED <<queue, status, pc, jobToRun>>
        BY <1>16, ClockRows DEF Tick
    <2>2. QED
        BY <2>1 DEF PublishedInv
<1>17. ASSUME UNCHANGED vars PROVE PublishedInv'
    BY <1>17, PublishedFrame DEF vars
<1>18. QED
    BY <1>1, <1>2, <1>3, <1>4, <1>5, <1>6, <1>7, <1>8, <1>9, <1>10, <1>11,
       <1>12, <1>13, <1>14, <1>15, <1>16, <1>17 DEF Next, Step

-----------------------------------------------------------------------------
(* The order within a group. *)

OrderInv ==
    /\ GroupOrder
    /\ \A w \in Workers :
          pc[w] = "claiming" => PredecessorsDone(jobToRun[w], w)

LEMMA OrderInit == Init => OrderInv
BY DEF Init, OrderInv, GroupOrder

(* An outcome is never taken back, so what was done stays done. *)
LEMMA DoneStaysDone ==
    ASSUME TypeOK, NEW j, NEW w, PredecessorsDone(j, w), UNCHANGED queue,
           \A h \in Jobs : status[h] \in Final => status'[h] \in Final
    PROVE  PredecessorsDone(j, w)'
BY RowFacts DEF PredecessorsDone

LEMMA OrderFrame ==
    ASSUME TypeOK, OrderInv, UNCHANGED queue,
           \A h \in Jobs : status[h] \in Final => status'[h] \in Final,
           DOMAIN reservations' = DOMAIN reservations,
           \A r \in DOMAIN reservations :
              /\ reservations'[r].job = reservations[r].job
              /\ reservations'[r].worker = reservations[r].worker,
           \A u \in Workers : pc'[u] = "claiming" =>
               pc[u] = "claiming" /\ jobToRun'[u] = jobToRun[u]
    PROVE  OrderInv'
<1>1. ASSUME NEW r \in DOMAIN reservations'
      PROVE  PredecessorsDone(reservations[r].job, reservations[r].worker)'
    <2>1. PredecessorsDone(reservations[r].job, reservations[r].worker)
        BY <1>1 DEF OrderInv, GroupOrder
    <2>2. QED
        BY <2>1, RowFacts DEF PredecessorsDone
<1>2. ASSUME NEW u \in Workers, pc'[u] = "claiming"
      PROVE  PredecessorsDone(jobToRun[u], u)'
    <2>1. PredecessorsDone(jobToRun[u], u) /\ jobToRun'[u] = jobToRun[u]
        BY <1>2 DEF OrderInv
    <2>2. QED
        BY <2>1, RowFacts DEF PredecessorsDone
<1>3. QED
    BY <1>1, <1>2 DEF OrderInv, GroupOrder

LEMMA OrderStep ==
    TypeOK /\ PublishedInv /\ OrderInv /\ [Next]_vars => OrderInv'
<1> SUFFICES ASSUME TypeOK, PublishedInv, OrderInv, [Next]_vars PROVE OrderInv'
    OBVIOUS
<1>1. ASSUME NEW j \in Jobs, Publish(j) PROVE OrderInv'
    (* A job that has been claimed is older than the new one. *)
    <2>1. ASSUME NEW h \in Jobs, NEW w, status[h] # "unpublished",
                 PredecessorsDone(h, w)
          PROVE  PredecessorsDone(h, w)'
        <3>1. h # j
            BY <1>1, <2>1, PublishQueue
        <3>2. \A i, k \in DOMAIN queue' : i < k /\ queue'[k] = h =>
                 /\ i \in DOMAIN queue /\ k \in DOMAIN queue
                 /\ queue'[i] = queue[i] /\ queue'[k] = queue[k]
            BY <1>1, <3>1, RowFacts, PublishQueue
        <3>3. \A g \in Jobs : status[g] \in Final => status'[g] \in Final
            BY <1>1, PublishQueue
        <3>4. QED
            BY <2>1, <3>2, <3>3, RowFacts DEF PredecessorsDone
    <2>2. \A r \in DOMAIN reservations :
             /\ reservations[r].job \in Jobs
             /\ status[reservations[r].job] # "unpublished"
             /\ PredecessorsDone(reservations[r].job, reservations[r].worker)
        BY RowFacts DEF Reservation, PublishedInv, OrderInv, GroupOrder
    <2>3. \A w \in Workers : pc[w] = "claiming" =>
             /\ jobToRun[w] \in Jobs /\ status[jobToRun[w]] # "unpublished"
             /\ PredecessorsDone(jobToRun[w], w)
        BY DEF TypeOK, PublishedInv, OrderInv
    <2>4. UNCHANGED <<reservations, pc, jobToRun>>
        BY <1>1 DEF Publish
    <2>5. \A r \in DOMAIN reservations :
             PredecessorsDone(reservations[r].job, reservations[r].worker)'
        BY <2>1, <2>2, <2>4 DEF PredecessorsDone
    <2>6. \A w \in Workers : pc[w] = "claiming" => PredecessorsDone(jobToRun[w], w)'
        BY <2>1, <2>3, <2>4 DEF PredecessorsDone
    <2>7. QED
        BY <2>4, <2>5, <2>6 DEF OrderInv, GroupOrder
<1>2. ASSUME NEW w \in Workers, Wake(w) PROVE OrderInv'
    BY <1>2, OrderFrame DEF TypeOK, Wake
<1>3. ASSUME NEW w \in Workers, BeginClaim(w) PROVE OrderInv'
    <2>1. PICK n \in DOMAIN queue :
             /\ OldestEligible(w, n)
             /\ jobToRun' = [jobToRun EXCEPT ![w] = queue[n]]
        BY <1>3 DEF BeginClaim
    <2>2. UNCHANGED tables /\ jobToRun'[w] = queue[n]
        BY <1>3, <2>1 DEF BeginClaim, TypeOK
    <2>3. ASSUME NEW i \in DOMAIN queue, NEW k \in DOMAIN queue,
                 i < k, queue[k] = queue[n],
                 Group[queue[i]] = Group[queue[n]],
                 JobPriority[queue[i]] >= WorkerPriority[w]
          PROVE  status[queue[i]] \in Final
        <3>1. k = n
            BY <2>3 DEF PublishedInv
        <3>2. ~Eligible(w, queue[i]) /\ Eligible(w, queue[n])
            BY <2>1, <2>3, <3>1, RowFacts DEF OldestEligible
        <3>3. queue[i] \notin ReservedJobs
            BY <2>3, <3>2 DEF Eligible, NotIn, ActiveGroups
        <3>4. status[queue[i]] # "unfulfilled"
            BY <2>3, <3>2, <3>3 DEF Eligible, NotIn
        <3>5. queue[i] \in Jobs /\ status[queue[i]] # "unpublished"
            BY RowFacts DEF PublishedInv
        <3>6. QED
            BY <3>4, <3>5 DEF TypeOK
    <2>4. PredecessorsDone(queue[n], w)
        BY <2>3 DEF PredecessorsDone
    <2>5. \A u \in Workers : pc'[u] = "claiming" =>
             PredecessorsDone(jobToRun'[u], u)
        <3>1. ASSUME NEW u \in Workers, pc'[u] = "claiming", u # w
              PROVE  pc[u] = "claiming" /\ jobToRun'[u] = jobToRun[u]
            BY <1>3, <2>1, <3>1 DEF BeginClaim, TypeOK
        <3>2. QED
            BY <2>2, <2>4, <3>1 DEF OrderInv
    <2>6. QED
        BY <2>2, <2>5 DEF OrderInv, GroupOrder, PredecessorsDone
<1>4. ASSUME NEW w \in Workers, FindNoWork(w) PROVE OrderInv'
    BY <1>4, OrderFrame DEF TypeOK, FindNoWork
<1>5. ASSUME NEW w \in Workers, CommitClaim(w) PROVE OrderInv'
    <2>1. /\ NewRow(w).job = jobToRun[w] /\ NewRow(w).worker = w
          /\ PredecessorsDone(jobToRun[w], w)
        BY <1>5 DEF NewRow, CommitClaim, OrderInv
    <2>2. \A r \in DOMAIN reservations' :
             PredecessorsDone(reservations'[r].job, reservations'[r].worker)
        BY <1>5, <2>1, ClaimRows DEF OrderInv, GroupOrder
    <2>3. /\ UNCHANGED <<queue, status, jobToRun>>
          /\ \A u \in Workers : pc'[u] = "claiming" => pc[u] = "claiming"
        BY <1>5 DEF TypeOK, CommitClaim
    <2>4. QED
        BY <2>2, <2>3 DEF OrderInv, GroupOrder, PredecessorsDone
<1>6. ASSUME NEW w \in Workers, AbortTransaction(w) PROVE OrderInv'
    BY <1>6, OrderFrame DEF TypeOK, AbortTransaction, LeaveTo
<1>7. ASSUME NEW w \in Workers, HandlerSettles(w) PROVE OrderInv'
    BY <1>7, OrderFrame DEF TypeOK, HandlerSettles
<1>8. ASSUME NEW w \in Workers, RaceTimesOut(w) PROVE OrderInv'
    BY <1>8, OrderFrame DEF TypeOK, RaceTimesOut
<1>9. ASSUME NEW r \in handlers, AbandonedHandlerSettles(r) PROVE OrderInv'
    BY <1>9, OrderFrame DEF AbandonedHandlerSettles
<1>10. ASSUME NEW w \in Workers, DropOutcome(w) PROVE OrderInv'
    BY <1>10, OrderFrame DEF TypeOK, DropOutcome, LeaveTo
<1>11. ASSUME NEW w \in Workers, BeginCompletion(w) PROVE OrderInv'
    BY <1>11, OrderFrame DEF TypeOK, BeginCompletion
<1>12. ASSUME NEW w \in Workers, CommitCompletion(w) PROVE OrderInv'
    <2>1. \A h \in Jobs : status[h] \in Final => status'[h] \in Final
        BY <1>12 DEF TypeOK, CommitCompletion
    <2>2. \A u \in Workers : pc'[u] = "claiming" =>
             pc[u] = "claiming" /\ jobToRun'[u] = jobToRun[u]
        BY <1>12 DEF TypeOK, CommitCompletion, LeaveTo
    <2>3. UNCHANGED queue
        BY <1>12 DEF CommitCompletion
    <2>4. QED
        BY <1>12, <2>1, <2>2, <2>3, CompletionRows, OrderFrame
<1>13. ASSUME NEW w \in Workers, Crash(w) PROVE OrderInv'
    BY <1>13, OrderFrame DEF TypeOK, Crash, LeaveTo
<1>14. ASSUME NEW w \in Workers, Restart(w) PROVE OrderInv'
    BY <1>14, OrderFrame DEF TypeOK, Restart
<1>15. ASSUME NEW w \in Workers, ShutDown(w) PROVE OrderInv'
    BY <1>15, OrderFrame DEF TypeOK, ShutDown
<1>16. ASSUME Tick PROVE OrderInv'
    <2>1. UNCHANGED <<queue, status, pc, jobToRun>>
        BY <1>16 DEF Tick
    <2>2. QED
        BY <1>16, <2>1, ClockRows, OrderFrame
<1>17. ASSUME UNCHANGED vars PROVE OrderInv'
    BY <1>17, OrderFrame DEF vars
<1>18. QED
    BY <1>1, <1>2, <1>3, <1>4, <1>5, <1>6, <1>7, <1>8, <1>9, <1>10, <1>11,
       <1>12, <1>13, <1>14, <1>15, <1>16, <1>17 DEF Next, Step

(* The jobs of a concurrency group start in the order of their creation. *)
THEOREM GroupsAreOrdered == Spec => []GroupOrder
<1>1. TypeOK /\ PublishedInv /\ OrderInv /\ [Next]_vars
         => (TypeOK /\ PublishedInv /\ OrderInv)'
    BY TypeStep, PublishedStep, OrderStep
<1>2. Init => TypeOK /\ PublishedInv /\ OrderInv
    BY TypeInit, PublishedInit, OrderInit
<1>3. TypeOK /\ PublishedInv /\ OrderInv => GroupOrder
    BY DEF OrderInv
<1>4. QED
    BY <1>1, <1>2, <1>3, PTL DEF Spec

-----------------------------------------------------------------------------
(* The queue implements the contract: each of its steps publishes, claims or *)
(* finishes a job of the contract, lets reservations lapse, or is invisible. *)

AllInv == TypeOK /\ PublishedInv /\ ExclusionInv /\ CompletionInv

LEMMA AllInvariant == Spec => []AllInv
<1>1. AllInv /\ [Next]_vars => AllInv'
    BY TypeStep, PublishedStep, ExclusionStep, CompletionStep DEF AllInv
<1>2. Init => AllInv
    BY TypeInit, PublishedInit, ExclusionInit, CompletionInit DEF AllInv
<1>3. QED
    BY <1>1, <1>2, PTL DEF Spec

LEMMA InvisibleStep ==
    ASSUME UNCHANGED <<status, reservations>>
    PROVE  UNCHANGED Contract!vars
BY DEF Contract!vars, ReservedJobs, Valid

LEMMA ContractInit == Init => Contract!Init
BY DEF Init, Contract!Init, ReservedJobs, Valid

LEMMA ContractStep == AllInv /\ [Next]_vars => [Contract!Next]_(Contract!vars)
<1> SUFFICES ASSUME AllInv, [Next]_vars
             PROVE  Contract!Next \/ UNCHANGED Contract!vars
    OBVIOUS
<1>0. TypeOK /\ PublishedInv /\ ExclusionInv /\ CompletionInv
    BY DEF AllInv
<1>1. ASSUME NEW j \in Jobs, Publish(j) PROVE Contract!Next
    <2>1. Contract!Publish(j)
        BY <1>1 DEF Publish, Contract!Publish, ReservedJobs, Valid
    <2>2. QED
        BY <2>1 DEF Contract!Next
<1>2. ASSUME NEW w \in Workers, CommitClaim(w) PROVE Contract!Next
    <2>1. /\ jobToRun[w] \in Jobs /\ pc[w] = "claiming" /\ conflict[w] # "certain"
          /\ status[jobToRun[w]] # "unpublished" /\ UNCHANGED status
          /\ NewRow(w).job = jobToRun[w] /\ NewRow(w).done = FALSE
          /\ NewRow(w).ttl = Lease(w, jobToRun[w]) - age[w]
        BY <1>0, <1>2 DEF TypeOK, CommitClaim, PublishedInv, NewRow
    <2>2. /\ \A r \in Valid : reservations'[r] = reservations[r]
          /\ Valid' = IF NewRow(w).ttl > 0 THEN Valid \cup {NewId} ELSE Valid
          /\ reservations'[NewId].job = jobToRun[w]
        BY <1>0, <1>2, <2>1, ClaimRows DEF Valid
    <2>3. CASE NewRow(w).ttl > 0
        <3>1. \A r \in Valid : Apart(jobToRun[w], reservations[r].job)
            BY <1>0, <2>1, <2>3 DEF ExclusionInv, ClaimSound, LiveClaim
        <3>2. \A h \in ReservedJobs : Group[h] # Group[jobToRun[w]]
            BY <3>1 DEF ReservedJobs, Apart
        <3>3. ReservedJobs' = ReservedJobs \cup {jobToRun[w]}
            BY <2>2, <2>3 DEF ReservedJobs
        <3>4. Contract!Claim(jobToRun[w])
            BY <2>1, <3>2, <3>3 DEF Contract!Claim
        <3>5. QED
            BY <2>1, <3>4 DEF Contract!Next
    <2>4. CASE ~(NewRow(w).ttl > 0)
        <3>1. ReservedJobs' = ReservedJobs
            BY <2>2, <2>4 DEF ReservedJobs
        <3>2. QED
            BY <2>1, <3>1 DEF Contract!Next, Contract!Lapse
    <2>5. QED
        BY <2>3, <2>4
<1>3. ASSUME NEW w \in Workers, CommitCompletion(w) PROVE Contract!Next
    <2> DEFINE j == jobToRun[w]
               id == reservationId[w]
    <2>1. /\ j \in Jobs /\ status[j] = "unfulfilled" /\ newStatus[w] \in Final
          /\ status' = [status EXCEPT ![j] = newStatus[w]]
          /\ id \in DOMAIN reservations /\ reservations[id].job = j
        BY <1>0, <1>3 DEF TypeOK, CommitCompletion, CompletionInv, CompletionSound
    <2>2. /\ Valid' = Valid \ {id}
          /\ \A r \in Valid : reservations'[r].job = reservations[r].job
        BY <1>0, <1>3, CompletionRows DEF Valid
    <2>3. CASE id \in Valid
        <3>1. \A r \in Valid \ {id} : reservations[r].job # j
            BY <1>0, <2>1, <2>3 DEF ExclusionInv, GroupExclusive
        <3>2. ReservedJobs' = ReservedJobs \ {j}
            BY <2>1, <2>2, <2>3, <3>1 DEF ReservedJobs
        <3>3. QED
            BY <2>1, <3>2 DEF Contract!Next, Contract!Finish, Contract!Outcomes
    <2>4. CASE id \notin Valid
        <3>1. ReservedJobs' = ReservedJobs
            BY <2>2, <2>4 DEF ReservedJobs
        <3>2. QED
            BY <2>1, <3>1 DEF Contract!Next, Contract!Finish, Contract!Outcomes
    <2>5. QED
        BY <2>3, <2>4
<1>4. ASSUME Tick PROVE Contract!Next
    <2>1. \A r \in DOMAIN reservations :
             reservations[r].ttl \in Int /\ reservations'[r].ttl \in Int
        BY <1>0, <1>4, ClockRows, RowFacts DEF Reservation
    <2>2. /\ Valid' \subseteq Valid
          /\ \A r \in Valid : reservations'[r].job = reservations[r].job
        BY <1>0, <1>4, <2>1, ClockRows DEF Valid
    <2>3. ReservedJobs' \subseteq ReservedJobs /\ UNCHANGED status
        BY <1>4, <2>2 DEF ReservedJobs, Tick
    <2>4. QED
        BY <2>3 DEF Contract!Next, Contract!Lapse
<1>5. ASSUME NEW w \in Workers,
             \/ Wake(w) \/ BeginClaim(w) \/ FindNoWork(w) \/ AbortTransaction(w)
             \/ HandlerSettles(w) \/ RaceTimesOut(w) \/ DropOutcome(w)
             \/ BeginCompletion(w) \/ Crash(w) \/ Restart(w) \/ ShutDown(w)
      PROVE  UNCHANGED Contract!vars
    BY <1>5, InvisibleStep
       DEF Wake, BeginClaim, FindNoWork, AbortTransaction, HandlerSettles,
           RaceTimesOut, DropOutcome, BeginCompletion, Crash, Restart, ShutDown
<1>6. ASSUME NEW r \in handlers, AbandonedHandlerSettles(r)
      PROVE  UNCHANGED Contract!vars
    BY <1>6, InvisibleStep DEF AbandonedHandlerSettles
<1>7. ASSUME UNCHANGED vars PROVE UNCHANGED Contract!vars
    BY <1>7, InvisibleStep DEF vars
<1>8. QED
    BY <1>1, <1>2, <1>3, <1>4, <1>5, <1>6, <1>7 DEF Next, Step

(* The detailed queue keeps every promise of JobContract: an outcome is
   recorded once and for all, and a group is held by one job at a time. *)
THEOREM QueueImplementsContract == Spec => ImplementsContract
<1>1. Init => Contract!Init
    BY ContractInit
<1>2. AllInv /\ [Next]_vars => [Contract!Next]_(Contract!vars)
    BY ContractStep
<1>3. QED
    BY <1>1, <1>2, AllInvariant, PTL DEF Spec, ImplementsContract, Contract!Spec

-----------------------------------------------------------------------------
(* Handlers that overlap. *)

AfterRace == {"finishing", "completing", "completingLate"}

(* A handler that runs on after its race timed out has lost its reservation:
   the reservation is never longer than the race. *)
HandlerInv ==
    /\ \A r \in handlers : reservations[r].done => reservations[r].ttl <= 0
    /\ \A w \in Workers :
          /\ pc[w] = "racing" /\ reservations[reservationId[w]].ttl > 0 =>
                reservations[reservationId[w]].ttl + age[w] <= MaxTimeout[w]
          /\ pc[w] \in AfterRace /\ reservationId[w] \in handlers =>
                reservations[reservationId[w]].ttl <= 0

LEMMA HandlerInit == Init => HandlerInv
BY DEF Init, HandlerInv, AfterRace

LEMMA HandlerFrame ==
    ASSUME HandlerInv, UNCHANGED reservations, handlers' \subseteq handlers,
           \A u \in Workers :
              /\ pc'[u] = "racing" => /\ pc[u] = "racing" /\ age'[u] = age[u]
                                     /\ reservationId'[u] = reservationId[u]
              /\ pc'[u] \in AfterRace => /\ pc[u] \in AfterRace
                                         /\ reservationId'[u] = reservationId[u]
    PROVE  HandlerInv'
BY DEF HandlerInv

LEMMA HandlerStep == TypeOK /\ HandlerInv /\ [Next]_vars => HandlerInv'
<1> SUFFICES ASSUME TypeOK, HandlerInv, [Next]_vars PROVE HandlerInv'
    OBVIOUS
<1> USE DEF AfterRace
<1>0. \A r \in DOMAIN reservations :
         reservations[r].ttl \in Int /\ reservations[r].done \in BOOLEAN
    BY RowFacts DEF Reservation
<1>1. ASSUME NEW j \in Jobs, Publish(j) PROVE HandlerInv'
    BY <1>1, HandlerFrame DEF Publish
<1>2. ASSUME NEW w \in Workers, Wake(w) PROVE HandlerInv'
    BY <1>2, HandlerFrame DEF TypeOK, Wake
<1>3. ASSUME NEW w \in Workers, BeginClaim(w) PROVE HandlerInv'
    BY <1>3, HandlerFrame DEF TypeOK, BeginClaim
<1>4. ASSUME NEW w \in Workers, FindNoWork(w) PROVE HandlerInv'
    BY <1>4, HandlerFrame DEF TypeOK, FindNoWork
<1>5. ASSUME NEW w \in Workers, CommitClaim(w) PROVE HandlerInv'
    <2>1. /\ NewRow(w).done = FALSE
          /\ NewRow(w).ttl = Lease(w, jobToRun[w]) - age[w]
          /\ jobToRun[w] \in Jobs /\ age[w] \in Nat
          /\ MaxTimeout[w] \in Nat
        BY <1>5, TimeAssumption DEF NewRow, TypeOK, CommitClaim
    <2>2. Lease(w, jobToRun[w]) \in Nat /\ Lease(w, jobToRun[w]) <= MaxTimeout[w]
        BY <2>1, TimeAssumption DEF Lease
    <2>3. /\ pc' = [pc EXCEPT ![w] = "racing"] /\ age' = [age EXCEPT ![w] = 0]
          /\ reservationId' = [reservationId EXCEPT ![w] = NewId]
          /\ handlers' = handlers \cup {NewId}
          /\ NewId \notin DOMAIN reservations
          /\ \A r \in DOMAIN reservations : reservations'[r] = reservations[r]
          /\ reservations'[NewId] = NewRow(w)
        BY <1>5, ClaimRows DEF CommitClaim
    <2>4. \A r \in handlers' : reservations'[r].done => reservations'[r].ttl <= 0
        BY <2>1, <2>3 DEF HandlerInv, TypeOK
    <2>5. ASSUME NEW u \in Workers
          PROVE  /\ pc'[u] = "racing" /\ reservations'[reservationId'[u]].ttl > 0 =>
                       reservations'[reservationId'[u]].ttl + age'[u] <= MaxTimeout[u]
                 /\ pc'[u] \in AfterRace /\ reservationId'[u] \in handlers' =>
                       reservations'[reservationId'[u]].ttl <= 0
        <3>1. CASE u = w
            <4>1. /\ pc'[u] = "racing" /\ age'[u] = 0
                  /\ reservations'[reservationId'[u]].ttl
                        = Lease(w, jobToRun[w]) - age[w]
                BY <3>1, <2>1, <2>3 DEF TypeOK
            <4>2. QED
                BY <3>1, <4>1, <2>1, <2>2
        <3>2. CASE u # w
            <4>1. /\ pc'[u] = pc[u] /\ age'[u] = age[u]
                  /\ reservationId'[u] = reservationId[u]
                BY <3>2, <2>3 DEF TypeOK
            <4>2. pc[u] \in OnJob => reservationId[u] \in DOMAIN reservations
                BY DEF TypeOK
            <4>3. QED
                BY <4>1, <4>2, <2>3 DEF HandlerInv
        <3>3. QED
            BY <3>1, <3>2
    <2>6. QED
        BY <2>4, <2>5 DEF HandlerInv
<1>6. ASSUME NEW w \in Workers, AbortTransaction(w) PROVE HandlerInv'
    BY <1>6, HandlerFrame DEF TypeOK, AbortTransaction, LeaveTo
<1>7. ASSUME NEW w \in Workers, HandlerSettles(w) PROVE HandlerInv'
    BY <1>7 DEF HandlerInv, TypeOK, HandlerSettles
<1>8. ASSUME NEW w \in Workers, RaceTimesOut(w) PROVE HandlerInv'
    <2>1. /\ age[w] >= MaxTimeout[w] /\ age[w] \in Nat /\ MaxTimeout[w] \in Nat
          /\ pc[w] = "racing" /\ reservationId[w] \in DOMAIN reservations
        BY <1>8, TimeAssumption DEF RaceTimesOut, TypeOK
    <2>2. reservations[reservationId[w]].ttl <= 0
        BY <2>1, <1>0 DEF HandlerInv
    <2>3. QED
        BY <1>8, <2>2 DEF HandlerInv, TypeOK, RaceTimesOut
<1>9. ASSUME NEW r \in handlers, AbandonedHandlerSettles(r) PROVE HandlerInv'
    BY <1>9, HandlerFrame DEF AbandonedHandlerSettles
<1>10. ASSUME NEW w \in Workers, DropOutcome(w) PROVE HandlerInv'
    BY <1>10, HandlerFrame DEF TypeOK, DropOutcome, LeaveTo
<1>11. ASSUME NEW w \in Workers, BeginCompletion(w) PROVE HandlerInv'
    BY <1>11, HandlerFrame DEF TypeOK, BeginCompletion
<1>12. ASSUME NEW w \in Workers, CommitCompletion(w) PROVE HandlerInv'
    <2>1. /\ DOMAIN reservations' = DOMAIN reservations
          /\ \A r \in DOMAIN reservations :
                /\ reservations'[r].ttl = reservations[r].ttl
                /\ reservations'[r].done <=>
                       (r = reservationId[w] \/ reservations[r].done)
          /\ handlers' = handlers /\ handlers \subseteq DOMAIN reservations
          /\ pc[w] \in AfterRace
        BY <1>12, CompletionRows DEF CommitCompletion, TypeOK
    <2>2. \A r \in handlers' : reservations'[r].done => reservations'[r].ttl <= 0
        BY <2>1 DEF HandlerInv
    <2>3. ASSUME NEW u \in Workers, pc'[u] \in OnJob
          PROVE  /\ pc'[u] = pc[u] /\ age'[u] = age[u]
                 /\ reservationId'[u] = reservationId[u]
                 /\ reservationId[u] \in DOMAIN reservations
        BY <1>12, <2>3 DEF CommitCompletion, LeaveTo, TypeOK
    <2>4. QED
        BY <2>1, <2>2, <2>3 DEF HandlerInv
<1>13. ASSUME NEW w \in Workers, Crash(w) PROVE HandlerInv'
    BY <1>13, HandlerFrame DEF TypeOK, Crash, LeaveTo
<1>14. ASSUME NEW w \in Workers, Restart(w) PROVE HandlerInv'
    BY <1>14, HandlerFrame DEF TypeOK, Restart
<1>15. ASSUME NEW w \in Workers, ShutDown(w) PROVE HandlerInv'
    BY <1>15, HandlerFrame DEF TypeOK, ShutDown
<1>16. ASSUME Tick PROVE HandlerInv'
    <2>1. /\ \A r \in DOMAIN reservations :
                /\ reservations'[r].ttl \in Int
                /\ reservations'[r].ttl <= reservations[r].ttl
                /\ reservations[r].ttl >= 0 =>
                      reservations'[r].ttl = reservations[r].ttl - 1
                /\ reservations'[r].done = reservations[r].done
          /\ UNCHANGED <<pc, reservationId, handlers>>
          /\ handlers \subseteq DOMAIN reservations
        BY <1>16, ClockRows DEF Tick, TypeOK, Reservation
    <2>2. \A r \in handlers' : reservations'[r].done => reservations'[r].ttl <= 0
        BY <2>1, <1>0 DEF HandlerInv
    <2>3. ASSUME NEW u \in Workers, pc[u] \in OnJob
          PROVE  /\ pc'[u] = "racing" /\ reservations'[reservationId'[u]].ttl > 0 =>
                       reservations'[reservationId'[u]].ttl + age'[u] <= MaxTimeout[u]
                 /\ pc'[u] \in AfterRace /\ reservationId'[u] \in handlers' =>
                       reservations'[reservationId'[u]].ttl <= 0
        <3>1. /\ reservationId[u] \in DOMAIN reservations
              /\ age[u] \in Nat /\ MaxTimeout[u] \in Nat
              /\ pc[u] = "racing" =>
                    age'[u] = IF age[u] < MaxTimeout[u] THEN age[u] + 1 ELSE age[u]
            BY <1>16, <2>3, TimeAssumption DEF TypeOK, Tick
        <3>2. QED
            BY <1>0, <2>1, <3>1 DEF HandlerInv
    <2>4. QED
        BY <2>1, <2>2, <2>3 DEF HandlerInv
<1>17. ASSUME UNCHANGED vars PROVE HandlerInv'
    BY <1>17, HandlerFrame DEF vars
<1>18. QED
    BY <1>1, <1>2, <1>3, <1>4, <1>5, <1>6, <1>7, <1>8, <1>9, <1>10, <1>11,
       <1>12, <1>13, <1>14, <1>15, <1>16, <1>17 DEF Next, Step

(* Two handlers of one group run together only after a reservation expired. *)
THEOREM OverlapsNeedExpiry == Spec => []OverlapNeedsExpiry
<1>1. TypeOK /\ ExclusionInv /\ HandlerInv => OverlapNeedsExpiry
    <2> SUFFICES ASSUME TypeOK, ExclusionInv, HandlerInv,
                        NEW r \in handlers, NEW k \in handlers, r # k,
                        Group[reservations[r].job] = Group[reservations[k].job],
                        ~(reservations[r].ttl <= 0), ~(reservations[k].ttl <= 0)
                 PROVE  FALSE
        BY DEF OverlapNeedsExpiry
    <2>1. /\ r \in DOMAIN reservations /\ k \in DOMAIN reservations
          /\ reservations[r].ttl \in Int /\ reservations[k].ttl \in Int
        BY RowFacts DEF TypeOK, Reservation
    <2>2. r \in Valid /\ k \in Valid
        BY <2>1 DEF Valid, HandlerInv
    <2>3. QED
        BY <2>2 DEF ExclusionInv, GroupExclusive
<1>2. AllInv /\ HandlerInv /\ [Next]_vars => (AllInv /\ HandlerInv)'
    BY TypeStep, PublishedStep, ExclusionStep, CompletionStep, HandlerStep DEF AllInv
<1>3. Init => AllInv /\ HandlerInv
    BY TypeInit, PublishedInit, ExclusionInit, CompletionInit, HandlerInit DEF AllInv
<1>4. AllInv /\ HandlerInv => OverlapNeedsExpiry
    BY <1>1 DEF AllInv
<1>5. QED
    BY <1>2, <1>3, <1>4, PTL DEF Spec

-----------------------------------------------------------------------------
(* The publisher: the safety properties of JobNotify, for any set of published
   jobs and any number of failures. *)

(* A query asks for jobs whose notifier is still there when its rows come
   back, and rows exist only between the query and their settlement. *)
QueryInv ==
    /\ loop # "settling" => rows = {}
    /\ loop \in {"querying", "settling"} => waitingIds \subseteq notifiers
    /\ \A j \in rows : jobStatus[j] \in Outcomes

(* A finished job that waits with a notifier in time is in hand: the loop is
   about to read, or asks for it already, or has a reason to wake up. *)
InHand(j) ==
    \/ loop \in {"off", "connecting", "reading", "over"}
    \/ loop = "querying" /\ j \in waitingIds
    \/ loop = "settling" /\ j \in rows
    \/ waker \/ notices > 0

FinishedInHand ==
    \A j \in notifiers : jobStatus[j] \in Outcomes /\ j \notin early => InHand(j)

NotifyInv == NotifyTypeOK /\ QueryInv

-----------------------------------------------------------------------------
LEMMA InitNotifyInv ==
    NotifyInit => NotifyInv /\ FinishedInHand /\ PromptShutDown
<1> SUFFICES ASSUME NotifyInit
             PROVE  NotifyInv /\ FinishedInHand /\ PromptShutDown
  OBVIOUS
<1>1. \A j \in PublishedJobs : jobStatus[j] = "none" /\ caller[j] = "none"
  BY DEF NotifyInit
<1>2. jobStatus \in [PublishedJobs -> {"none", "unfulfilled"} \cup Outcomes]
  BY DEF NotifyInit
<1>3. caller \in [PublishedJobs ->
                   {"none", "inserted", "announced", "waiting", "failed"}
                       \cup Outcomes]
  BY DEF NotifyInit
<1>4. NotifyTypeOK
  BY <1>1, <1>2, <1>3 DEF NotifyInit, NotifyTypeOK
<1> QED
  BY <1>4 DEF NotifyInit, NotifyInv, QueryInv, FinishedInHand, PromptShutDown

(* The set of waiting callers follows the phase of one of them. *)
LEMMA OneCallerMoves ==
    ASSUME NotifyTypeOK, NEW j \in PublishedJobs, NEW p,
           caller' = [caller EXCEPT ![j] = p]
    PROVE  /\ p # "waiting" /\ caller[j] # "waiting" /\ notifiers' = notifiers =>
                 notifiers' = {i \in PublishedJobs : caller'[i] = "waiting"}
           /\ p = "waiting" /\ notifiers' = notifiers \cup {j} =>
                 notifiers' = {i \in PublishedJobs : caller'[i] = "waiting"}
BY DEF NotifyTypeOK

LEMMA StepNotifyInv == NotifyInv /\ [NotifyNext]_notifyVars => NotifyInv'
<1> SUFFICES ASSUME NotifyInv, [NotifyNext]_notifyVars PROVE NotifyInv'
  OBVIOUS
<1> USE FailuresAssumption
    DEF NotifyInv, NotifyTypeOK, QueryInv, Outcomes, Listening, loopVars, callVars
<1>1. ASSUME NEW j \in PublishedJobs, Insert(j) PROVE NotifyInv'
  BY <1>1, OneCallerMoves DEF Insert
<1>2. ASSUME NEW j \in PublishedJobs, Announce(j) PROVE NotifyInv'
  BY <1>2, OneCallerMoves DEF Announce
<1>3. ASSUME NEW j \in PublishedJobs, AnnounceFails(j) PROVE NotifyInv'
  BY <1>3, OneCallerMoves DEF AnnounceFails
<1>4. ASSUME NEW j \in PublishedJobs, AddNotifier(j) PROVE NotifyInv'
  BY <1>4, OneCallerMoves DEF AddNotifier, StartLoop
<1>5. ASSUME NEW j \in PublishedJobs, Finish(j) PROVE NotifyInv'
  BY <1>5 DEF Finish
<1>6. CASE LoopStep
  <2>1. CASE Listen  BY <2>1 DEF Listen
  <2>2. CASE ReadNotifiers  BY <2>2 DEF ReadNotifiers
  <2>3. CASE EndLoop  BY <2>3 DEF EndLoop
  <2>4. CASE Query  BY <2>4 DEF Query, FinishedRows
  <2>5. CASE Settle  BY <2>5 DEF Settle
  <2>6. CASE Sleep  BY <2>6 DEF Sleep
  <2>7. CASE WakeUp  BY <2>7 DEF WakeUp, LeaveSleep
  <2>8. CASE Poll  BY <2>8 DEF Poll, LeaveSleep
  <2> QED
    BY <1>6, <2>1, <2>2, <2>3, <2>4, <2>5, <2>6, <2>7, <2>8 DEF LoopStep
<1>7. CASE HearNotice  BY <1>7 DEF HearNotice
<1>8. CASE LoopFails  BY <1>8 DEF LoopFails
<1>9. CASE Destroy  BY <1>9 DEF Destroy
<1>10. CASE UNCHANGED notifyVars  BY <1>10 DEF notifyVars
<1> QED
  BY <1>1, <1>2, <1>3, <1>4, <1>5, <1>6, <1>7, <1>8, <1>9, <1>10
  DEF NotifyNext, PublishStep

THEOREM NotifyInductive == NotifySpec => []NotifyInv
BY InitNotifyInv, StepNotifyInv, PTL DEF NotifySpec

(* The state of the publisher is well typed, and #notifiers holds exactly
   the callers that wait. *)
THEOREM NotifyTypeCorrect == NotifySpec => []NotifyTypeOK
<1>1. NotifyInv => NotifyTypeOK
  BY DEF NotifyInv
<1> QED
  BY <1>1, NotifyInductive, PTL

(* Every row drainNotifications works off has its notifier: the "!" after
   the lookup is justified. *)
THEOREM LookupsSucceed == NotifySpec => []RowsHaveNotifiers
<1>1. NotifyInv => RowsHaveNotifiers
  BY DEF NotifyInv, NotifyTypeOK, QueryInv, RowsHaveNotifiers
<1> QED
  BY <1>1, NotifyInductive, PTL

-----------------------------------------------------------------------------
LEMMA StepFinishedInHand ==
    NotifyInv /\ FinishedInHand /\ [NotifyNext]_notifyVars => FinishedInHand'
<1> SUFFICES ASSUME NotifyInv, FinishedInHand, [NotifyNext]_notifyVars,
                    NEW j \in notifiers', jobStatus'[j] \in Outcomes, j \notin early'
             PROVE  InHand(j)'
  BY DEF FinishedInHand
<1> USE DEF NotifyInv, NotifyTypeOK, QueryInv, FinishedInHand, InHand,
        Outcomes, Listening, loopVars, callVars
<1>1. ASSUME NEW i \in PublishedJobs, Insert(i) PROVE InHand(j)'
  BY <1>1 DEF Insert
<1>2. ASSUME NEW i \in PublishedJobs, Announce(i) \/ AnnounceFails(i) PROVE InHand(j)'
  BY <1>2 DEF Announce, AnnounceFails
<1>3. ASSUME NEW i \in PublishedJobs, AddNotifier(i) PROVE InHand(j)'
  BY <1>3 DEF AddNotifier, StartLoop
<1>4. ASSUME NEW i \in PublishedJobs, Finish(i) PROVE InHand(j)'
  BY <1>4 DEF Finish
<1>5. CASE LoopStep
  BY <1>5 DEF LoopStep, Listen, ReadNotifiers, EndLoop, Query, FinishedRows,
              Settle, Sleep, WakeUp, Poll, LeaveSleep
<1>6. CASE HearNotice \/ LoopFails \/ Destroy
  BY <1>6 DEF HearNotice, LoopFails, Destroy
<1>7. CASE UNCHANGED notifyVars  BY <1>7 DEF notifyVars
<1> QED
  BY <1>1, <1>2, <1>3, <1>4, <1>5, <1>6, <1>7 DEF NotifyNext, PublishStep

(* No wake-up is lost: a loop that sleeps, with no notification on its way,
   leaves only jobs unanswered that finished before their notifier. *)
THEOREM NoLostWakeUp == NotifySpec => []SleepsOnlyOverEarly
<1>1. NotifyInv /\ FinishedInHand => SleepsOnlyOverEarly
  BY DEF NotifyInv, NotifyTypeOK, FinishedInHand, InHand, SleepsOnlyOverEarly
<1> QED
  BY <1>1, InitNotifyInv, StepFinishedInHand, NotifyInductive, PTL DEF NotifySpec

(* A loop that sleeps when the publisher is destroyed has been woken. *)
THEOREM ShutsDownPromptly == NotifySpec => []PromptShutDown
<1>1. NotifyInv /\ PromptShutDown /\ [NotifyNext]_notifyVars => PromptShutDown'
  BY DEF NotifyInv, NotifyTypeOK, PromptShutDown, NotifyNext, PublishStep,
         Insert, Announce, AnnounceFails, AddNotifier, StartLoop, Finish,
         LoopStep, Listen, ReadNotifiers, EndLoop, Query, Settle, Sleep,
         WakeUp, Poll, LeaveSleep, HearNotice, LoopFails, Destroy, loopVars,
         callVars, notifyVars
<1> QED
  BY <1>1, InitNotifyInv, NotifyInductive, PTL DEF NotifySpec
=============================================================================
