------------------------ MODULE MCPooledTransactions ------------------------
(* A small instance of PooledTransactions: a managed transaction, the end of an
   index batch, and a statement of its own. *)
EXTENDS PooledTransactions, TLC

CONSTANTS managed, batch, plain

MCTasks == {managed, batch, plain}
MCKind == managed :> "managed" @@ batch :> "batch" @@ plain :> "plain"
=============================================================================
