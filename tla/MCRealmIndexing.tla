-------------------------- MODULE MCRealmIndexing --------------------------
(* Small instances of RealmIndexing. *)
EXTENDS RealmIndexing, TLC

CONSTANTS o1, o2, o3, x, y

ThreeOps == {o1, o2, o3}
TwoPaths == {x, y}

(* Operations are alike: their kinds may be taken in one order. *)
Rank == [post |-> 1, patch |-> 2, delete |-> 3, full |-> 4]
ThreeRequests ==
    {o1 :> [kind |-> j, path |-> x] @@ o2 :> [kind |-> k, path |-> x]
        @@ o3 :> [kind |-> n, path |-> x] :
     <<j, k, n>> \in {t \in Kinds \X Kinds \X Kinds :
                        Rank[t[1]] <= Rank[t[2]] /\ Rank[t[2]] <= Rank[t[3]]}}
=============================================================================
