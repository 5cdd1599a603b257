--------------------------- MODULE MCModuleLoader ---------------------------
(* Small instances of ModuleLoader. *)
EXTENDS ModuleLoader, TLC

CONSTANTS a, b, c, i1, i2

ThreeModules == {a, b, c}
TwoImporters == {i1, i2}

(* A cycle, as in realm-server/tests/cards/deadlock, a module that is imported
   on two ways, and a cycle with a module below or above it. *)
SomeGraphs ==
    {a :> <<b>> @@ b :> <<c>> @@ c :> <<a>>,
     a :> <<b, c>> @@ b :> <<c>> @@ c :> <<>>,
     a :> <<b>> @@ b :> <<a, c>> @@ c :> <<>>,
     a :> <<b>> @@ b :> <<a>> @@ c :> <<a, b>>}
AnyLoad == {"source", "shimmed", "error", "malformed"}

(* Importers are alike: what they want may be taken in one order. *)
Rank == a :> 1 @@ b :> 2 @@ c :> 3
AnyWants == {w \in [Importers -> Modules] : Rank[w[i1]] <= Rank[w[i2]]}
=============================================================================
