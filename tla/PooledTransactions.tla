------------------------- MODULE PooledTransactions -------------------------
(***************************************************************************)
(* Transactions whose statements go, one by one, to whatever connection of *)
(* the pool is free: the webhook handlers and the spending of credits      *)
(* (postgres/pg-transaction-manager.ts), and the end of an index batch     *)
(* (done in runtime-common/index-writer.ts).  PgAdapter.execute takes a    *)
(* connection for each statement, and returns it; Postgres has its         *)
(* transactions per connection.  (JobQueue is not concerned: it keeps one  *)
(* connection, withConnection.)                                            *)
(*                                                                         *)
(* The statements of a task are numbered; what they write is told apart by *)
(* task and number.  They take no locks of each other.                     *)
(***************************************************************************)
EXTENDS Integers, Sequences, FiniteSets, SequencesExt

CONSTANTS
    Tasks,          \* each runs once
    Kind,           \* "managed" by a TransactionManager, "batch", or "plain"
    Connections,    \* those the pool may open
    Nobody,         \* no task has the connection
    MaxErrors       \* bound: statements that fail of themselves

ASSUME KindAssumption == Kind \in [Tasks -> {"managed", "batch", "plain"}]
ASSUME ErrorsAssumption == MaxErrors \in Nat
ASSUME NobodyAssumption == Nobody \notin Tasks

VARIABLES
    at,             \* whether each task runs, rolls back, or how it has ended
    next,           \* its next statement
    asking,         \* the tasks that wait for a connection, the first first
    idle,           \* the connections that are free, the last one used last
    user,           \* who has each connection
    session,        \* what Postgres knows of each connection
    writes,         \* what has been committed
    disturbed,      \* history: tasks that were not alone, came after such, or
                    \* paused for too long
    errors          \* how much of the budget is used

tasks == <<at, next>>
pool == <<asking, idle, user>>
database == <<session, writes>>
vars == <<tasks, pool, database, disturbed, errors>>

Closed == [state |-> "closed", pending |-> {}]
Fresh == [state |-> "autocommit", pending |-> {}]

(* The statements of a task, and those of them that write. *)
Statements(t) == IF Kind[t] = "plain" THEN <<"write">>
                 ELSE <<"BEGIN", "write", "write", "COMMIT">>

WritesOf(t) == {<<t, k>> : k \in {n \in DOMAIN Statements(t) : Statements(t)[n] = "write"}}
Writes == UNION {WritesOf(t) : t \in Tasks}

Ended == {"done", "failed"}

Init ==
    /\ at = [t \in Tasks |-> "waiting"]
    /\ next = [t \in Tasks |-> 1]
    /\ asking = <<>> /\ idle = <<>>
    /\ user = [c \in Connections |-> Nobody]
    /\ session = [c \in Connections |-> Closed]
    /\ writes = {}
    /\ disturbed = {}
    /\ errors = 0

-----------------------------------------------------------------------------
Active == {t \in Tasks : at[t] \in {"running", "rolling back"}}
HasConnection(t) == \E c \in Connections : user[c] = t
BetweenStatements(t) == t \in Active /\ ~HasConnection(t) /\ t \notin ToSet(asking)

LeftOpen == {c \in Connections : session[c].state = "transaction"}

Start(t) ==
    /\ at[t] = "waiting"
    /\ at' = [at EXCEPT ![t] = "running"]
    /\ disturbed' = IF Active # {} THEN disturbed \cup Active \cup {t}
                    ELSE IF LeftOpen # {} THEN disturbed \cup {t} ELSE disturbed
    /\ UNCHANGED <<next, pool, database, errors>>

(* pool.connect: a task asks for a connection ... *)
Connect(t) ==
    /\ BetweenStatements(t)
    /\ asking' = Append(asking, t)
    /\ UNCHANGED <<tasks, idle, user, database, disturbed, errors>>

(* Mutant: the one that has been idle for longest is taken. *)
GrantOldest ==
    /\ asking # <<>> /\ idle # <<>>
    /\ asking' = Tail(asking)
    /\ idle' = Tail(idle)
    /\ user' = [user EXCEPT ![Head(idle)] = Head(asking)]
    /\ UNCHANGED <<tasks, database, disturbed, errors>>

(* ... and is given the one that was returned last, ... *)
GrantIdle ==
    /\ asking # <<>> /\ idle # <<>>
    /\ asking' = Tail(asking)
    /\ idle' = Front(idle)
    /\ user' = [user EXCEPT ![Last(idle)] = Head(asking)]
    /\ UNCHANGED <<tasks, database, disturbed, errors>>

(* ... or a new one. *)
GrantNew ==
    /\ asking # <<>> /\ idle = <<>>
    /\ asking' = Tail(asking)
    /\ \E c \in Connections :
          /\ session[c].state = "closed"
          /\ session' = [session EXCEPT ![c] = Fresh]
          /\ user' = [user EXCEPT ![c] = Head(asking)]
    /\ UNCHANGED <<tasks, idle, writes, disturbed, errors>>

(* A connection that nobody uses for ten seconds is closed, and what is pending
   on it is rolled back: that of a task, too, that awaits something else between
   two of its statements, as the deletion of a subscription awaits Stripe. *)
IdleTimeout(k) ==
    /\ idle' = RemoveAt(idle, k)
    /\ session' = [session EXCEPT ![idle[k]] = Closed]
    /\ disturbed' = IF session[idle[k]].state = "autocommit" THEN disturbed
                    ELSE disturbed \cup Active
    /\ UNCHANGED <<tasks, asking, user, writes, errors>>

-----------------------------------------------------------------------------
(* The statement that t is at, and where t is when it has succeeded. *)
Statement(t) == IF at[t] = "rolling back" THEN "ROLLBACK" ELSE Statements(t)[next[t]]

AfterSuccess(t) ==
    IF at[t] = "rolling back" THEN "failed"
    ELSE IF next[t] = Len(Statements(t)) THEN "done" ELSE "running"

(* Mutant: nobody rolls back. *)
JustFail(t) == IF Kind[t] = "plain" THEN "done" ELSE "failed"

(* Only a TransactionManager rolls back, and only what it has begun. *)
AfterError(t) == IF Kind[t] = "managed" /\ next[t] > 1 THEN "rolling back" ELSE "failed"

(* Mutant: the connection is not returned. *)
KeepConnection(c) == UNCHANGED <<idle, user>>

Release(c) ==
    /\ idle' = Append(idle, c)
    /\ user' = [user EXCEPT ![c] = Nobody]

(* What Postgres makes of a statement that succeeds: BEGIN in a transaction,
   and COMMIT and ROLLBACK outside of one, are warned about. *)
Perform(c, t) ==
    LET write == <<t, next[t]>>
        now == session[c].state
    IN  CASE Statement(t) = "BEGIN" ->
                /\ session' = [session EXCEPT ![c].state = "transaction"]
                /\ UNCHANGED writes
          [] Statement(t) = "write" /\ now = "transaction" ->
                /\ session' = [session EXCEPT ![c].pending = @ \cup {write}]
                /\ UNCHANGED writes
          [] Statement(t) = "write" /\ now = "autocommit" ->
                /\ writes' = writes \cup {write}
                /\ UNCHANGED session
          [] Statement(t) = "COMMIT" ->
                /\ session' = [session EXCEPT ![c] = Fresh]
                /\ writes' = writes \cup session[c].pending
          [] Statement(t) = "ROLLBACK" ->
                /\ session' = [session EXCEPT ![c] = Fresh]
                /\ UNCHANGED writes

(* PgAdapter.execute *)
Succeed(c) ==
    LET t == user[c] IN
    /\ t # Nobody
    /\ session[c].state = "aborted" => Statement(t) \in {"COMMIT", "ROLLBACK"}
    /\ Perform(c, t)
    /\ at' = [at EXCEPT ![t] = AfterSuccess(t)]
    /\ next' = IF AfterSuccess(t) = "running" THEN [next EXCEPT ![t] = @ + 1] ELSE next
    /\ Release(c)
    /\ UNCHANGED <<asking, disturbed, errors>>

(* A write fails, or any statement in a transaction in which one has.  (That a
   connection is refused or breaks, or BEGIN, COMMIT or ROLLBACK fails of
   itself, is left out.) *)
Error(c) ==
    LET t == user[c] IN
    /\ t # Nobody
    /\ \/ /\ session[c].state = "aborted" /\ Statement(t) \in {"BEGIN", "write"}
          /\ UNCHANGED <<session, errors>>
       \/ /\ session[c].state # "aborted" /\ Statement(t) = "write"
          /\ errors < MaxErrors /\ errors' = errors + 1
          /\ session' = IF session[c].state = "autocommit" THEN session
                        ELSE [session EXCEPT ![c] = [state |-> "aborted", pending |-> {}]]
    /\ at' = [at EXCEPT ![t] = AfterError(t)]
    /\ Release(c)
    /\ UNCHANGED <<next, asking, writes, disturbed>>

(* The callback of withTransaction throws. *)
Throw(t) ==
    /\ Kind[t] = "managed" /\ at[t] = "running" /\ next[t] > 1
    /\ BetweenStatements(t)
    /\ errors < MaxErrors /\ errors' = errors + 1
    /\ at' = [at EXCEPT ![t] = AfterError(t)]
    /\ UNCHANGED <<next, pool, database, disturbed>>

-----------------------------------------------------------------------------
Step(t) == Connect(t) \/ Throw(t)
PoolStep == GrantIdle \/ GrantNew \/ \E c \in Connections : Succeed(c) \/ Error(c)

Next ==
    \/ \E t \in Tasks : Start(t) \/ Connect(t) \/ Throw(t)
    \/ GrantIdle \/ GrantNew
    \/ \E c \in Connections : Succeed(c) \/ Error(c)
    \/ \E k \in DOMAIN idle : IdleTimeout(k)

Spec == Init /\ [][Next]_vars

(* A task that was started goes on, and the database answers. *)
FairSpec == Spec /\ WF_vars(PoolStep) /\ \A t \in Tasks : WF_vars(Step(t))
-----------------------------------------------------------------------------
(* All that a task writes when it succeeds, and nothing when it fails. *)
Atomic(t) ==
    /\ at[t] = "done" => WritesOf(t) \subseteq writes
    /\ at[t] = "failed" => WritesOf(t) \cap writes = {}

(* A task that runs alone is atomic, whatever has failed before it, as long as
   no transaction was left open, and it does not pause between its statements
   until the connection is closed: they all go to the one that was returned
   last. *)
LoneTasksAreAtomic == \A t \in Tasks : t \notin disturbed => Atomic(t)

(* "We want a transaction so we don't reach an inconsistent DB state if
   something breaks in the middle of this function" *)
TransactionsAreAtomic == \A t \in Tasks : Kind[t] = "managed" => Atomic(t)

(* No transaction is left open on a connection nobody uses, for others to
   write into, unless tasks have overlapped or paused; a transaction that has
   failed is left there only by the end of a batch, which nobody rolls back. *)
OnlyBatchesLeakTransactions ==
    Active = {} /\ disturbed = {} =>
        /\ LeftOpen = {}
        /\ (\E c \in Connections : session[c].state = "aborted")
              => \E t \in Tasks : Kind[t] = "batch" /\ at[t] = "failed"

(* Every task that is started ends: no connection is lost to the others. *)
EveryTaskEnds == \A t \in Tasks : at[t] # "waiting" ~> at[t] \in Ended
=============================================================================
