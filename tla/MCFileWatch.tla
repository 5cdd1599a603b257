---------------------------- MODULE MCFileWatch ----------------------------
(* Small instances of FileWatch. *)
EXTENDS FileWatch, TLC

Symmetry == Permutations(Clients)
=============================================================================
