---------------------------- MODULE ModuleLoader ----------------------------
(***************************************************************************)
(* The ES module loader of the runtime (runtime-common/loader.ts): several *)
(* callers of import() advance modules that depend on each other, in       *)
(* cycles too, through the states fetching, registered,                    *)
(* registered-completing-deps, registered-with-deps and evaluated, over    *)
(* one shared map.                                                         *)
(*                                                                         *)
(* advanceToState is recursive and asynchronous: an importer is a stack of *)
(* its activations.  Code runs to its next await without interruption:     *)
(* the importer in "control" is the only one that moves.  What awaits a    *)
(* settled promise resumes in the order of the microtask queue; import()   *)
(* is called between any two microtasks, and loads end there too if they   *)
(* are served by the same process (InProcess), or else when the queue is   *)
(* empty.  evaluate is synchronous and recursive: its activations are the  *)
(* modules in "evaluating", and the importer stays in control.             *)
(***************************************************************************)
EXTENDS ImportGraphs, Integers, FiniteSets, FiniteSetsExt

CONSTANTS
    Importers,
    Nobody,             \* no importer is in control
    Sources,            \* what loading each module may come to (see Loads)
    Wanted,             \* who may ask for what
    InProcess           \* loads are served by this event loop

(* A load gives source code, a shimmed module, an error (of the fetch or of
   the code that defines the module), or source that does not transpile. *)
Loads == {"source", "shimmed", "error", "malformed"}

ASSUME InProcessAssumption == InProcess \in BOOLEAN
ASSUME LoadsAssumption == Sources \subseteq Loads
ASSUME WantedAssumption == Wanted \subseteq [Importers -> Modules]
ASSUME NamesAssumption == Importers \cap Modules = {} /\ Nobody \notin Importers

VARIABLES
    dependencyList,     \* what each module imports, in order
    source,             \* what loading each module comes to
    throwing,           \* the modules whose top-level code throws
    wants,              \* the module each importer imports
    state,              \* the state of each module in the map
    dependencies,       \* the kind of EvaluatableDep for each of its imports
    evaluating,         \* the activations of evaluate, the newest last
    stack,              \* the activations of each importer, the newest last
    doing,              \* what its newest activation is at
    outcome,            \* how its import() ended
    waiters,            \* the importers that await each fetch deferred
    microtasks,         \* the importers that are to resume, and the deferreds
                        \* (of modules) to be settled, in order
    control             \* the importer whose code is running

program == <<dependencyList, source, throwing, wants>>
modules == <<state, dependencies, evaluating>>
callers == <<stack, doing, outcome>>
loaderVars == <<program, modules, callers, waiters, microtasks, control>>

-----------------------------------------------------------------------------
(* stateOrder, in three classes; "absent" is undefined. *)
Evaluatable == {"completing", "withDeps", "preparing", "evaluated", "broken"}
Registered == {"registered"} \cup Evaluatable
States == {"absent", "fetching"} \cup Registered

Targets == {"completing", "withDeps", "evaluated"}
Activation == [module : Modules, target : Targets,
               completing : SUBSET Modules, withDeps : SUBSET Modules]
Failures == {"exception", "expected", "not evaluatable", "bug"}

isRegistered(m) == state[m] \in Registered
isEvaluatable(m) == state[m] \in Evaluatable

LoaderTypeOK ==
    /\ dependencyList \in [Modules -> Seq(Modules)]
    /\ source \in [Modules -> Loads]
    /\ throwing \subseteq Modules
    /\ wants \in [Importers -> Modules]
    /\ state \in [Modules -> States]
    /\ DOMAIN dependencies = Modules
    /\ \A m \in Modules : dependencies[m] \in
          [DOMAIN dependencyList[m] -> {"dep", "completing-dep", "none"}]
    /\ evaluating \in Seq(Modules)
    /\ \A m \in Modules : state[m] = "preparing" <=> m \in ToSet(evaluating)
    /\ stack \in [Importers -> Seq(Activation)]
    /\ doing \in [Importers ->
                    {"new", "running", "fetching", "waiting", "done"}]
    /\ outcome \in [Importers -> {"none", "loaded"} \cup Failures]
    /\ waiters \in [Modules -> Seq(Importers)]
    /\ microtasks \in Seq(Importers \cup Modules)
    /\ control \in Importers \cup {Nobody}
    /\ evaluating # <<>> => control # Nobody
    /\ \A i \in Importers : doing[i] = "done" <=> outcome[i] # "none"

(* import() begins with advanceToState(module, 'evaluated'). *)
LoaderInit ==
    /\ dependencyList \in Graphs
    /\ source \in [Modules -> Sources]
    /\ throwing \in SUBSET Modules
    /\ wants \in Wanted
    /\ state = [m \in Modules |-> "absent"]
    /\ dependencies = [m \in Modules |->
                           [k \in DOMAIN dependencyList[m] |-> "none"]]
    /\ evaluating = <<>>
    /\ stack = [i \in Importers |-> <<[module |-> wants[i], target |-> "evaluated",
                                       completing |-> {}, withDeps |-> {}]>>]
    /\ doing = [i \in Importers |-> "new"]
    /\ outcome = [i \in Importers |-> "none"]
    /\ waiters = [m \in Modules |-> <<>>]
    /\ microtasks = <<>>
    /\ control = Nobody

-----------------------------------------------------------------------------
Active(i) == Last(stack[i])
Module(i) == Active(i).module

(* import() is called, or the importer's turn in the microtask queue comes. *)
Resume(i) ==
    /\ control = Nobody
    /\ \/ doing[i] = "new" /\ UNCHANGED microtasks
       \/ /\ microtasks # <<>> /\ i = Head(microtasks)
          /\ microtasks' = Tail(microtasks)
    /\ doing' = [doing EXCEPT ![i] = "running"]
    /\ control' = i
    /\ UNCHANGED <<program, modules, stack, outcome, waiters>>

(* A fetch is over, and its deferred is fulfilled: who awaits it will resume. *)
SettleFetch(m) ==
    /\ control = Nobody
    /\ microtasks # <<>> /\ m = Head(microtasks)
    /\ microtasks' = Tail(microtasks) \o waiters[m]
    /\ waiters' = [waiters EXCEPT ![m] = <<>>]
    /\ UNCHANGED <<program, modules, callers, control>>

(* The activation calls advanceToState for a dependency, which starts at
   once. *)
Call(i, m, target, completing, withDeps) ==
    /\ stack' = [stack EXCEPT ![i] =
                    Append(@, [module |-> m, target |-> target,
                               completing |-> completing, withDeps |-> withDeps])]
    /\ UNCHANGED <<program, modules, doing, outcome, waiters, microtasks, control>>

(* The activation sets its module's state and takes another turn. *)
SetModule(i, st, deps) ==
    /\ state' = [state EXCEPT ![Module(i)] = st]
    /\ dependencies' = [dependencies EXCEPT ![Module(i)] = deps]
    /\ UNCHANGED <<program, evaluating, callers, waiters, microtasks, control>>

(* Mutant: a broken module is returned like any other. *)
ImportForgetsBroken(m) ==
    IF state[m] = "evaluated" THEN "loaded" ELSE "undefined"

(* How import() ends, given the state advanceToState leaves the module in. *)
ImportResult(m) ==
    CASE state[m] = "evaluated" -> "loaded"
      [] state[m] = "broken" -> "exception"
      [] OTHER -> "bug"

(* The activation returns; its caller resumes in a later microtask. *)
Return(i) ==
    /\ stack' = [stack EXCEPT ![i] = Front(@)]
    /\ IF Len(stack[i]) = 1
       THEN /\ outcome' = [outcome EXCEPT ![i] = ImportResult(Module(i))]
            /\ doing' = [doing EXCEPT ![i] = "done"]
            /\ UNCHANGED microtasks
       ELSE microtasks' = Append(microtasks, i) /\ UNCHANGED <<outcome, doing>>
    /\ control' = Nobody
    /\ UNCHANGED <<program, modules, waiters>>

(* An exception: no activation catches it, and import() is rejected. *)
Throw(i, why) ==
    /\ stack' = [stack EXCEPT ![i] = <<>>]
    /\ outcome' = [outcome EXCEPT ![i] = why]
    /\ doing' = [doing EXCEPT ![i] = "done"]
    /\ control' = Nobody

-----------------------------------------------------------------------------
(* case undefined: fetchModule runs up to its await of the load. *)
StartFetch(i) ==
    /\ control = i /\ state[Module(i)] = "absent"
    /\ state' = [state EXCEPT ![Module(i)] = "fetching"]
    /\ doing' = [doing EXCEPT ![i] = "fetching"]
    /\ control' = Nobody
    /\ UNCHANGED <<program, dependencies, evaluating, stack, outcome, waiters,
                   microtasks>>

(* The await of the load is over. *)
Loaded(i) ==
    /\ control = Nobody /\ doing[i] = "fetching"
    /\ InProcess \/ microtasks = <<>>

(* Mutant: the deferred of the fetch is never fulfilled. *)
FetchLeavesWaiters(i) ==
    /\ Loaded(i)
    /\ source[Module(i)] \in {"source", "shimmed"}
    /\ state' = [state EXCEPT ![Module(i)] =
                    IF source[Module(i)] = "source" THEN "registered"
                    ELSE "evaluated"]
    /\ doing' = [doing EXCEPT ![i] = "running"]
    /\ microtasks' = Append(microtasks, i)
    /\ UNCHANGED <<program, dependencies, evaluating, stack, outcome, waiters,
                   control>>

(* The rest of fetchModule when the module could be loaded.  fulfill settles
   the deferred in a microtask of its own. *)
FetchSucceeds(i) ==
    /\ Loaded(i)
    /\ source[Module(i)] \in {"source", "shimmed"}
    /\ state' = [state EXCEPT ![Module(i)] =
                    IF source[Module(i)] = "source" THEN "registered"
                    ELSE "evaluated"]
    /\ doing' = [doing EXCEPT ![i] = "running"]
    /\ microtasks' = microtasks \o <<Module(i), i>>
    /\ UNCHANGED <<program, dependencies, evaluating, stack, outcome, waiters,
                   control>>

(* The rest of fetchModule when it could not: the module is broken, unless it
   is the transpiler that throws, and its deferred stays as it is. *)
FetchFails(i) ==
    /\ Loaded(i)
    /\ source[Module(i)] \in {"error", "malformed"}
    /\ state' = [state EXCEPT ![Module(i)] =
                   IF source[Module(i)] = "error" THEN "broken" ELSE "fetching"]
    /\ Throw(i, "exception")
    /\ UNCHANGED <<program, dependencies, evaluating, waiters, microtasks>>

(* Mutant: a module that is being fetched is taken for an illegal cycle. *)
RejectFetching(i) ==
    /\ control = i /\ state[Module(i)] = "fetching"
    /\ Throw(i, "exception")
    /\ UNCHANGED <<program, modules, waiters, microtasks>>

(* case 'fetching': await the deferred of the fetch. *)
AwaitFetch(i) ==
    /\ control = i /\ state[Module(i)] = "fetching"
    /\ doing' = [doing EXCEPT ![i] = "waiting"]
    /\ waiters' = [waiters EXCEPT ![Module(i)] = Append(@, i)]
    /\ control' = Nobody
    /\ UNCHANGED <<program, modules, stack, outcome, microtasks>>

(* case 'registered': dependency k needs work that no caller has in hand. *)
NeedsWork(i, k) ==
    LET m == dependencyList[Module(i)][k]
    IN  ~isEvaluatable(m) /\ m \notin Active(i).completing

(* Only the first dependency that needs work is awaited; then the module is
   looked at afresh. *)
RegisterDep(i) ==
    LET list == dependencyList[Module(i)]
        needy == {k \in DOMAIN list : NeedsWork(i, k)}
    IN  /\ control = i /\ state[Module(i)] = "registered"
        /\ needy # {}
        /\ Call(i, list[Min(needy)], "completing",
                Active(i).completing \cup {Module(i)}, Active(i).withDeps)

(* Mutant: only dependencies that are evaluatable are kept. *)
EvaluatableOnly(d) == IF isEvaluatable(d) THEN "dep" ELSE "none"

(* The EvaluatableDep for a dependency d that needs no work; one that some
   caller has in hand is a completing-dep, if it is registered, and none
   otherwise. *)
EvaluatableDep(d) ==
    IF ~isRegistered(d) THEN "none"
    ELSE IF state[d] \in {"registered", "completing"} THEN "completing-dep"
    ELSE "dep"

DepsRegistered(i) ==
    LET list == dependencyList[Module(i)]
    IN  /\ control = i /\ state[Module(i)] = "registered"
        /\ \A k \in DOMAIN list : ~NeedsWork(i, k)
        /\ SetModule(i, "completing",
                     [k \in DOMAIN list |-> EvaluatableDep(list[k])])

(* case 'registered-completing-deps': dependency k stops the scan, because
   its module is not even registered with its dependencies, or must be
   advanced. *)
Unexpected(i, k) ==
    /\ dependencies[Module(i)][k] = "completing-dep"
    /\ ~isEvaluatable(dependencyList[Module(i)][k])

NeedsDeps(i, k) ==
    LET d == dependencyList[Module(i)][k]
    IN  /\ dependencies[Module(i)][k] = "completing-dep"
        /\ state[d] = "completing"
        /\ d \notin Active(i).withDeps

Completing(i) ==
    /\ control = i /\ state[Module(i)] = "completing"
    /\ Active(i).target # "completing"

CompleteDep(i) ==
    LET stops == {k \in DOMAIN dependencies[Module(i)] :
                    Unexpected(i, k) \/ NeedsDeps(i, k)}
    IN  /\ Completing(i)
        /\ stops # {}
        /\ \/ /\ Unexpected(i, Min(stops))
              /\ Throw(i, "expected")
              /\ UNCHANGED <<program, modules, waiters, microtasks>>
           \/ /\ NeedsDeps(i, Min(stops))
              /\ Call(i, dependencyList[Module(i)][Min(stops)], "withDeps",
                      Active(i).completing, Active(i).withDeps \cup {Module(i)})

DepsCompleted(i) ==
    LET deps == dependencies[Module(i)]
    IN  /\ Completing(i)
        /\ \A k \in DOMAIN deps : ~Unexpected(i, k) /\ ~NeedsDeps(i, k)
        /\ SetModule(i, "withDeps",
                     [k \in DOMAIN deps |->
                        IF deps[k] = "none" THEN "none" ELSE "dep"])

-----------------------------------------------------------------------------
(* evaluate of module m, which becomes "preparing". *)
Prepare(m) ==
    /\ state' = [state EXCEPT ![m] = "preparing"]
    /\ evaluating' = Append(evaluating, m)
    /\ UNCHANGED <<program, dependencies, callers, waiters, microtasks, control>>

(* case 'registered-with-deps' *)
EvaluateModule(i) ==
    /\ control = i /\ state[Module(i)] = "withDeps"
    /\ Active(i).target # "withDeps"
    /\ Prepare(Module(i))

(* The exception breaks every module that is being evaluated. *)
EvaluateThrows(i, why) ==
    /\ state' = [m \in Modules |->
                    IF state[m] = "preparing" THEN "broken" ELSE state[m]]
    /\ evaluating' = <<>>
    /\ Throw(i, why)
    /\ UNCHANGED <<program, dependencies, waiters, microtasks>>

(* Mutant: evaluate runs the module without evaluating its dependencies. *)
NothingUnevaluated(m) == {}

(* The dependencies of m that are left to evaluate.  Those that were looked at
   are evaluated, or activations of evaluate further down. *)
Unevaluated(m) ==
    {k \in DOMAIN dependencies[m] :
        /\ dependencies[m][k] # "none"
        /\ state[dependencyList[m][k]] \notin {"preparing", "evaluated"}}

(* They are evaluated in order, up to the first that throws. *)
EvaluateDep(i) ==
    LET m == Last(evaluating)
        d == dependencyList[m][Min(Unevaluated(m))]
    IN  /\ control = i /\ evaluating # <<>>
        /\ Unevaluated(m) # {}
        /\ \/ state[d] \in {"completing", "withDeps"} /\ Prepare(d)
           \/ state[d] = "broken" /\ EvaluateThrows(i, "exception")
           \/ ~isEvaluatable(d) /\ EvaluateThrows(i, "not evaluatable")

(* The implementation of the module is called. *)
RunModule(i) ==
    LET m == Last(evaluating)
    IN  /\ control = i /\ evaluating # <<>>
        /\ Unevaluated(m) = {}
        /\ \/ /\ m \notin throwing
              /\ state' = [state EXCEPT ![m] = "evaluated"]
              /\ evaluating' = Front(evaluating)
              /\ UNCHANGED <<program, dependencies, callers, waiters, microtasks,
                             control>>
           \/ m \in throwing /\ EvaluateThrows(i, "exception")

TargetReached(i) ==
    /\ control = i
    /\ \/ state[Module(i)] = Active(i).target
       \/ state[Module(i)] \in {"evaluated", "broken"}
    /\ Return(i)

-----------------------------------------------------------------------------
Step(i) ==
    \/ Resume(i) \/ StartFetch(i) \/ FetchSucceeds(i) \/ FetchFails(i)
    \/ AwaitFetch(i)
    \/ RegisterDep(i) \/ DepsRegistered(i)
    \/ CompleteDep(i) \/ DepsCompleted(i)
    \/ EvaluateModule(i) \/ EvaluateDep(i) \/ RunModule(i)
    \/ TargetReached(i)

LoaderNext ==
    \/ \E i \in Importers : Step(i)
    \/ \E m \in Modules : SettleFetch(m)

LoaderSpec == LoaderInit /\ [][LoaderNext]_loaderVars

(* Promises that are settled have their continuations run, and every fetch
   comes to an end. *)
FairLoaderSpec ==
    /\ LoaderSpec
    /\ \A i \in Importers : WF_loaderVars(Step(i))
    /\ \A m \in Modules : WF_loaderVars(SettleFetch(m))

-----------------------------------------------------------------------------
(* Properties. *)

(* The import of m is bound to fail. *)
Faulty(m) ==
    \E d \in ReachableFrom({m}, dependencyList) :
        d \in throwing \/ source[d] \in {"error", "malformed"}

(* The entries of type 'dep' when m is evaluated are the modules that it is
   recorded to consume. *)
ConsumesAll(m) == \A k \in DOMAIN dependencyList[m] : dependencies[m][k] = "dep"

(* No dependency gets lost on the way from a module's source to what its
   evaluation is given, whoever advances it and however the importers
   interleave; nor is one left out of the modules it is recorded to consume,
   unless it is on an import cycle or below one. *)
NoDependencyIsDropped ==
    \A m \in Modules :
        /\ state[m] \in {"completing", "withDeps", "preparing"} =>
               \A k \in DOMAIN dependencyList[m] : dependencies[m][k] # "none"
        /\ /\ state[m] \in {"preparing", "evaluated"} /\ source[m] = "source"
           /\ m \notin BelowCycles(dependencyList)
           => ConsumesAll(m)

(* A module is evaluated after everything it imports, which may be broken, or
   still under evaluation, only when it imports the module back. *)
DependenciesFirst ==
    \A m \in Modules :
        state[m] = "evaluated" /\ source[m] = "source" =>
            \A d \in ToSet(dependencyList[m]) :
                \/ state[d] = "evaluated"
                \/ /\ state[d] \in {"broken", "preparing"}
                   /\ m \in ReachableFrom({d}, dependencyList)

(* An import fails with the exception of a module only if the module itself,
   or one it depends on, is at fault; other importers are no reason, unless
   one of them has met the assertion of evaluate ("Cannot evaluate the
   module ..., it is not evaluatable"). *)
FailuresHaveCauses ==
    \A i \in Importers : outcome[i] = "exception" =>
        Faulty(wants[i]) \/ \E k \in Importers : outcome[k] = "not evaluatable"

(* The importer awaits the deferred of a module whose load has failed, which
   nobody settles. *)
AwaitsFailed(i) ==
    /\ doing[i] = "waiting"
    /\ source[Module(i)] \in {"error", "malformed"}

(* Every import comes to an end, with cycles, faults and concurrent importers,
   but for one reason: it awaits the load of a module another importer has
   failed to load, and then it never ends.  (The comment of import is wider:
   "encountered an error trying to load the module".) *)
EveryImportEnds ==
    \A i \in Importers : <>(doing[i] = "done") \/ <>[]AwaitsFailed(i)
=============================================================================
