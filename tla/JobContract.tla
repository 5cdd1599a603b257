---------------------------- MODULE JobContract ----------------------------
(***************************************************************************)
(* What the job queue promises to its clients, with no workers, database   *)
(* transactions or clock: a job is published once, its outcome is recorded *)
(* once and never changes, and two jobs of one concurrency group are never *)
(* held (validly reserved) at the same time.                               *)
(***************************************************************************)

CONSTANTS
    Jobs,    \* the jobs a publisher may ever create
    Group    \* the concurrency group of each job (null is a group of its own)

VARIABLES
    status,  \* what the jobs table says of each job
    held     \* the jobs some worker has a valid reservation for

vars == <<status, held>>

Outcomes == {"resolved", "rejected"}

TypeOK ==
    /\ status \in [Jobs -> {"unpublished", "unfulfilled"} \cup Outcomes]
    /\ held \subseteq Jobs

Init ==
    /\ status = [j \in Jobs |-> "unpublished"]
    /\ held = {}

Publish(j) ==
    /\ status[j] = "unpublished"
    /\ status' = [status EXCEPT ![j] = "unfulfilled"]
    /\ UNCHANGED held

(* A worker obtains a job: nothing of its concurrency group may be held.  A
   job whose outcome is already known may be claimed once more. *)
Claim(j) ==
    /\ status[j] # "unpublished"
    /\ \A h \in held : Group[h] # Group[j]
    /\ held' = held \cup {j}
    /\ UNCHANGED status

(* Reservations end by themselves when their time is over. *)
Lapse ==
    /\ held' \subseteq held
    /\ UNCHANGED status

(* The outcome of a job is recorded, with or without a valid reservation. *)
Finish(j, s) ==
    /\ status[j] = "unfulfilled"
    /\ status' = [status EXCEPT ![j] = s]
    /\ held' \in {held, held \ {j}}

Next ==
    \/ \E j \in Jobs : Publish(j) \/ Claim(j)
    \/ \E j \in Jobs, s \in Outcomes : Finish(j, s)
    \/ Lapse

Spec == Init /\ [][Next]_vars
============================================================================
