-------------------------- MODULE ConsumedModules --------------------------
(***************************************************************************)
(* Loader.getConsumedModules (runtime-common/loader.ts): the modules that  *)
(* a module imports, directly or not, which the indexer stores as the      *)
(* dependencies of an entry.  The recursion passes one array around,       *)
(* appends to it, and files that same array (by reference) in the          *)
(* consumption cache of every module it finishes.  The calls of one loader *)
(* follow one another; their results differ with what is in the cache.     *)
(*                                                                         *)
(* An array is the set of its elements: the code looks for elements, and   *)
(* answers without duplicates.                                             *)
(*                                                                         *)
(* consumedModules is what evaluate keeps of a module's imports: those     *)
(* that are of type 'dep' when the module's evaluation begins.  A module   *)
(* on an import cycle, or imported by one, may be evaluated before that,   *)
(* when importers overlap, and then any of its imports may be missing; no  *)
(* other module loses one (NoDependencyIsDropped of ModuleLoader).         *)
(***************************************************************************)
EXTENDS ImportGraphs, Integers

CONSTANT MaxCalls       \* bound: calls of getConsumedModules

ASSUME MaxCallsAssumption == MaxCalls \in Nat

VARIABLES
    importList,         \* the imports of each module, in order
    consumedModules,    \* those of them that evaluate has kept
    imported,           \* modules that are evaluated
    cache,              \* consumptionCache: the array of a module (0: none)
    arrays,             \* the arrays that calls have made, the latest last
    asked,              \* the module of the latest call
    knewIt,             \* it was imported before
    recursion           \* the activations of that call: the module, and the
                        \* next of its imports to look at

graphs == <<importList, consumedModules>>
consumeVars == <<graphs, imported, cache, arrays, asked, knewIt, recursion>>

(* What can be left of a list when some of its entries are not kept. *)
Sublists(list) ==
    {kept \in BoundedSeq(ToSet(list), Len(list)) :
        \E at \in [DOMAIN kept -> DOMAIN list] :
            /\ \A k \in DOMAIN kept : kept[k] = list[at[k]]
            /\ \A j, k \in DOMAIN kept : j < k => at[j] < at[k]}

(* What the evaluations may have kept of the imports. *)
Kept(list) ==
    {kept \in [Modules -> UNION {Sublists(list[m]) : m \in Modules}] :
        \A m \in Modules :
            /\ kept[m] \in Sublists(list[m])
            /\ m \notin BelowCycles(list) => kept[m] = list[m]}

ConsumeInit ==
    /\ importList \in Graphs
    /\ consumedModules \in Kept(importList)
    /\ imported = {}
    /\ cache = [m \in Modules |-> 0]
    /\ arrays = <<>>
    /\ asked \in Modules
    /\ knewIt = TRUE
    /\ recursion = <<>>

-----------------------------------------------------------------------------
(* m and everything it imports. *)
Evaluated(m) == ReachableFrom({m}, importList)

(* import(m): m and everything it imports is evaluated. *)
Import(m) ==
    /\ m \notin imported
    /\ imported' = imported \cup Evaluated(m)
    /\ UNCHANGED <<graphs, cache, arrays, asked, knewIt, recursion>>

(* Mutant: the module that is asked for is appended like the others. *)
VisitAnyone(consumed, m, initial) == consumed \cup {m}

(* "you can't consume yourself" *)
Visit(consumed, m, initial) ==
    IF m = initial THEN consumed ELSE consumed \cup {m}

(* Mutant: a cached array is not looked into. *)
ReuseNothing(consumed, known) == consumed

(* consumed.push(...cached) *)
Reuse(consumed, known) == consumed \cup arrays[known]

(* The recursion on m, which is not in the array yet, up to its loop. *)
Entered(consumed, m, initial) ==
    IF cache[m] = 0 THEN Visit(consumed, m, initial)
    ELSE Reuse(Visit(consumed, m, initial), cache[m])

Recursing(activations, m) ==
    IF cache[m] = 0 THEN Append(activations, [module |-> m, next |-> 1])
    ELSE activations

(* getConsumedModules(m) of a module that is evaluated. *)
GetConsumedModules(m) ==
    /\ recursion = <<>>
    /\ m \in imported
    /\ Len(arrays) < MaxCalls
    /\ arrays' = Append(arrays, Entered({}, m, m))
    /\ recursion' = Recursing(<<>>, m)
    /\ asked' = m
    /\ knewIt' = TRUE
    /\ UNCHANGED <<graphs, imported, cache>>

Current == Last(recursion)

(* The loop looks at the next import. *)
Consume ==
    LET list == consumedModules[Current.module]
        d == list[Current.next]
        onward == [recursion EXCEPT ![Len(recursion)].next = @ + 1]
    IN  /\ recursion # <<>> /\ Current.next <= Len(list)
        /\ IF d \in Last(arrays)
           THEN recursion' = onward /\ UNCHANGED arrays
           ELSE /\ arrays' =
                      [arrays EXCEPT ![Len(arrays)] = Entered(@, d, asked)]
                /\ recursion' = Recursing(onward, d)
        /\ UNCHANGED <<graphs, imported, cache, asked, knewIt>>

(* The loop is over, and the array is cached. *)
Consumed ==
    /\ recursion # <<>> /\ Current.next > Len(consumedModules[Current.module])
    /\ cache' = [cache EXCEPT ![Current.module] = Len(arrays)]
    /\ recursion' = Front(recursion)
    /\ UNCHANGED <<graphs, imported, arrays, asked, knewIt>>

(* getConsumedModules(m) of a module that is not: it is imported, but the
   state that is looked at afterwards was read before, and the answer is []. *)
GetUnknownModules(m) ==
    /\ recursion = <<>>
    /\ m \notin imported
    /\ imported' = imported \cup Evaluated(m)
    /\ asked' = m
    /\ knewIt' = FALSE
    /\ UNCHANGED <<graphs, cache, arrays, recursion>>

ConsumeNext ==
    \/ \E m \in Modules :
           Import(m) \/ GetConsumedModules(m) \/ GetUnknownModules(m)
    \/ Consume \/ Consumed

ConsumeSpec == ConsumeInit /\ [][ConsumeNext]_consumeVars

-----------------------------------------------------------------------------
(* Properties. *)

(* What modules import, directly or not; and what is recorded of that. *)
Imports(m) == ReachableFrom(ToSet(importList[m]), importList)
Consumes(m) == ReachableFrom(ToSet(consumedModules[m]), consumedModules)
Acyclic == \A m \in Modules : m \notin Imports(m)

Answered == knewIt /\ arrays # <<>> /\ recursion = <<>>
answer == Last(arrays)

(* Without import cycles, no dependency is missing from the answer about an
   evaluated module, whatever calls have filled the cache before: no entry
   of the index misses an invalidation. *)
NothingIsMissed ==
    Answered /\ Acyclic => Imports(asked) \ {asked} \subseteq answer

(* A loader's first answer has all that the evaluations have recorded, with
   cycles too; and all that the module imports, if nothing of that is on a
   cycle or below one. *)
FirstAnswerIsExact ==
    Answered /\ Len(arrays) = 1 =>
        /\ answer = Consumes(asked) \ {asked}
        /\ Evaluated(asked) \cap BelowCycles(importList) = {} =>
               answer = Imports(asked) \ {asked}
=============================================================================
