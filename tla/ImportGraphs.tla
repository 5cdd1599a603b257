---------------------------- MODULE ImportGraphs ----------------------------
(***************************************************************************)
(* ES modules and what they import, in the order of their import           *)
(* statements; there may be cycles.                                        *)
(***************************************************************************)
EXTENDS Sequences, SequencesExt

CONSTANTS
    Modules,
    Graphs              \* the dependency lists to consider

ASSUME GraphsAssumption == Graphs \subseteq [Modules -> Seq(Modules)]

(* The modules of S, what they import, and so on. *)
ReachableFrom(S, list) ==
    {d \in Modules : \A T \in SUBSET Modules :
        (S \subseteq T /\ \A m \in T : ToSet(list[m]) \subseteq T) => d \in T}

(* The modules that import themselves, directly or not, and what they import. *)
OnCycles(list) == {m \in Modules : m \in ReachableFrom(ToSet(list[m]), list)}
BelowCycles(list) == ReachableFrom(OnCycles(list), list)
=============================================================================
