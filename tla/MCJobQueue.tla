----------------------------- MODULE MCJobQueue -----------------------------
(* Small instances of JobQueue: three jobs, two runners. *)
EXTENDS JobQueue, TLC

CONSTANTS j1, j2, j3, w1, w2, indexing, other

MCJobs == {j1, j2, j3}
MCWorkers == {w1, w2}

(* Two jobs of one group and one of another. *)
TwoGroups == j1 :> indexing @@ j2 :> indexing @@ j3 :> other
(* Two jobs of one group and one without. *)
GroupAndNull == j1 :> indexing @@ j2 :> indexing @@ j3 :> Null

SamePriority == [j \in Jobs |-> 0]
UserJob == [j \in Jobs |-> IF j = j2 THEN 10 ELSE 0]
AnyPriority == [w \in Workers |-> 0]
HighPriorityWorker == [w \in Workers |-> IF w = w2 THEN 10 ELSE 0]

OneTick == [j \in Jobs |-> 1]
TwoTicks == [j \in Jobs |-> 2]
RaceTwoTicks == [w \in Workers |-> 2]

NoSlowJobs == {}
OneSlowJob == {j1}
WorkerSymmetry == Permutations(Workers)
=============================================================================
