--------------------------- MODULE MCBrowserQueue ---------------------------
(* Small instances of BrowserQueue: three jobs of two types. *)
EXTENDS BrowserQueue, TLC

CONSTANTS j1, j2, j3, index, copy

MCJobs == {j1, j2, j3}
MCTypes == {index, copy}
MCType == j1 :> index @@ j2 :> index @@ j3 :> copy
=============================================================================
