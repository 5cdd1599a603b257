---------------------------- MODULE MCJobNotify ----------------------------
(* Small instances of JobNotify: three jobs. *)
EXTENDS JobNotify

CONSTANTS j1, j2, j3

ThreeJobs == {j1, j2, j3}
=============================================================================
