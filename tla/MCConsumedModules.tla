------------------------- MODULE MCConsumedModules -------------------------
(* Small instances of ConsumedModules: every graph of three modules of which
   none imports itself; the recursion on one that does would not end. *)
EXTENDS ConsumedModules, TLC

CONSTANTS a, b, c

ThreeModules == {a, b, c}

ListsOver(S) == {<<>>} \cup {<<x>> : x \in S} \cup {s \in S \X S : s[1] # s[2]}
AllGraphs ==
    {g \in [Modules -> ListsOver(Modules)] : \A m \in Modules : m \notin ToSet(g[m])}
=============================================================================
