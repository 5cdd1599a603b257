---------------------------- MODULE MCIndexBatch ----------------------------
(* Small instances of IndexBatch: a card, its module, and one more module that one imports. *)
EXTENDS IndexBatch

CONSTANTS i, m, n

OneInstance == {i}
TwoModules == {m, n}
TestRefs == [u \in Urls |-> IF u = i THEN {{m}} ELSE IF u = m THEN {{}, {n}} ELSE {{}, {m}}]
TestFiles == {[u \in Urls |->
                 [ver |-> 1, modified |-> 1,
                  refs |-> IF u = i THEN {m} ELSE IF u = m THEN {n} ELSE {}]]}
=============================================================================
