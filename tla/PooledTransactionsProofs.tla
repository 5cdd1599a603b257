---------------------- MODULE PooledTransactionsProofs ----------------------
(***************************************************************************)
(* Theorems about PooledTransactions, for any tasks of the three kinds, a  *)
(* pool of any size and any number of errors: a task that runs alone is    *)
(* atomic, and only the end of an index batch leaves a failed transaction  *)
(* behind.                                                                 *)
(***************************************************************************)
EXTENDS PooledTransactions, SequenceLemmas, TLAPS

(* The state is well typed.  Only managed tasks roll back, and only what they
   have begun; what is pending on a connection is in an open transaction. *)
SessionStates == {"closed", "autocommit", "transaction", "aborted"}
AnyWrite == Tasks \X Nat
AnySession == [state : SessionStates, pending : SUBSET AnyWrite]

Types ==
    /\ at \in [Tasks -> {"waiting", "running", "rolling back"} \cup Ended]
    /\ next \in [Tasks -> 1..4]
    /\ asking \in Seq(Tasks)
    /\ idle \in Seq(Connections)
    /\ user \in [Connections -> Tasks \cup {Nobody}]
    /\ session \in [Connections -> AnySession]
    /\ writes \subseteq AnyWrite
    /\ disturbed \subseteq Tasks
    /\ errors \in Nat

Phases ==
    /\ \A t \in Tasks : /\ next[t] > 1 => Kind[t] # "plain"
                        /\ at[t] = "waiting" => next[t] = 1
                        /\ at[t] = "rolling back" => Kind[t] = "managed" /\ next[t] > 1
    /\ \A c \in Connections : session[c].state # "transaction" => session[c].pending = {}

(* A task waits for one connection, or has one, or neither; a connection is
   open when it is idle, once, or in use. *)
AskingInv ==
    /\ \A i \in DOMAIN asking :
          asking[i] \in Active /\ \A c \in Connections : user[c] # asking[i]
    /\ \A i, j \in DOMAIN asking : asking[i] = asking[j] => i = j

UserInv ==
    /\ \A c \in Connections : user[c] # Nobody =>
          user[c] \in Active /\ session[c].state # "closed"
    /\ \A c, d \in Connections : user[c] # Nobody /\ user[c] = user[d] => c = d

IdleInv ==
    /\ \A i \in DOMAIN idle : user[idle[i]] = Nobody /\ session[idle[i]].state # "closed"
    /\ \A i, j \in DOMAIN idle : idle[i] = idle[j] => i = j

PoolInv == AskingInv /\ UserInv /\ IdleInv

(* Nothing a task writes is committed, or may be later. *)
Unwritten(t) == \A k \in Nat : <<t, k>> \notin writes
Untouched(t) == \A k \in Nat, c \in Connections : <<t, k>> \notin session[c].pending

(* The connection a lone task has, or will be given. *)
Home(c, t) ==
    \/ user[c] = t
    \/ ~HasConnection(t) /\ idle # <<>> /\ idle[Len(idle)] = c

OpenHere(c, t) ==
    /\ Home(c, t)
    /\ \A d \in Connections \ {c} : session[d].state # "transaction"
    /\ IF at[t] = "running"
       THEN /\ session[c].state = "transaction"
            /\ session[c].pending = {<<t, k>> : k \in 2..(next[t] - 1)}
       ELSE session[c].state \in {"transaction", "aborted"}

(* A task that runs alone has all its statements on one connection. *)
Alone(t) ==
    /\ Active = {t}
    /\ Unwritten(t)
    /\ IF next[t] = 1 THEN LeftOpen = {} ELSE \E c \in Connections : OpenHere(c, t)

LoneInv ==
    \A t \in Tasks :
        /\ at[t] = "waiting" => Unwritten(t) /\ Untouched(t)
        /\ t \notin disturbed =>
              /\ t \in Active => Alone(t)
              /\ at[t] = "done" => WritesOf(t) \subseteq writes
              /\ at[t] = "failed" => Unwritten(t) /\ Untouched(t)

(* Whoever has left a failed transaction, or is about to undo it. *)
LeakInv ==
    disturbed = {} =>
        /\ Active = {} => LeftOpen = {}
        /\ \A c \in Connections : session[c].state = "aborted" =>
              \/ \E b \in Tasks : Kind[b] = "batch" /\ at[b] = "failed"
              \/ \E t \in Tasks : at[t] = "rolling back" /\ Home(c, t)

-----------------------------------------------------------------------------
LEMMA StatementFacts ==
    ASSUME NEW t \in Tasks
    PROVE  /\ Kind[t] = "plain" =>
                 /\ Len(Statements(t)) = 1 /\ Statements(t)[1] = "write"
                 /\ WritesOf(t) = {<<t, 1>>}
           /\ Kind[t] # "plain" =>
                 /\ Len(Statements(t)) = 4
                 /\ Statements(t)[1] = "BEGIN" /\ Statements(t)[4] = "COMMIT"
                 /\ Statements(t)[2] = "write" /\ Statements(t)[3] = "write"
                 /\ WritesOf(t) = {<<t, 2>>, <<t, 3>>}
<1>1. CASE Kind[t] = "plain"
  <2>1. Statements(t) = <<"write">>
    BY <1>1 DEF Statements
  <2> QED
    BY <1>1, <2>1 DEF WritesOf
<1>2. CASE Kind[t] # "plain"
  <2>1. Statements(t) = <<"BEGIN", "write", "write", "COMMIT">>
    BY <1>2 DEF Statements
  <2> QED
    BY <1>2, <2>1 DEF WritesOf
<1> QED
  BY <1>1, <1>2

-----------------------------------------------------------------------------
Inv == Types /\ Phases /\ PoolInv

LEMMA InitInv == Init => Inv /\ LoneInv /\ LeakInv
<1> SUFFICES ASSUME Init PROVE Inv /\ LoneInv /\ LeakInv
  OBVIOUS
<1>1. asking \in Seq(Tasks) /\ idle \in Seq(Connections)
      /\ DOMAIN asking = {} /\ DOMAIN idle = {}
  BY EmptySeq, LenProperties DEF Init
<1>2. Types
  BY <1>1 DEF Init, Types, Closed, AnySession, SessionStates
<1>3. Phases /\ PoolInv
  BY <1>1, <1>2
     DEF Init, Types, Phases, PoolInv, AskingInv, UserInv, IdleInv, Closed
<1>4. LoneInv
  BY <1>2 DEF Init, Types, LoneInv, Active, Ended, Unwritten, Untouched, Closed
<1>5. LeakInv
  BY <1>2 DEF Init, Types, LeakInv, LeftOpen, Closed
<1> QED
  BY <1>2, <1>3, <1>4, <1>5 DEF Inv

LEMMA PoolFacts ==
    ASSUME Types
    PROVE  /\ Len(asking) \in Nat /\ DOMAIN asking = 1..Len(asking)
           /\ Len(idle) \in Nat /\ DOMAIN idle = 1..Len(idle)
           /\ \A i \in DOMAIN asking : asking[i] \in Tasks
           /\ \A i \in DOMAIN idle : idle[i] \in Connections
<1>1. asking \in Seq(Tasks) /\ idle \in Seq(Connections)
  BY DEF Types
<1>2. Len(asking) \in Nat /\ DOMAIN asking = 1..Len(asking)
      /\ Len(idle) \in Nat /\ DOMAIN idle = 1..Len(idle)
  BY <1>1, LenProperties, Zenon
<1>3. \A i \in 1..Len(asking) : asking[i] \in Tasks
  BY <1>1, ElementOfSeq, Zenon
<1>4. \A i \in 1..Len(idle) : idle[i] \in Connections
  BY <1>1, ElementOfSeq, Zenon
<1> QED
  BY <1>2, <1>3, <1>4, Zenon

LEMMA StartInv == ASSUME Inv, NEW t \in Tasks, Start(t) PROVE Inv'
<1> USE DEF Start, tasks, pool, database
<1>1. Types'
  BY DEF Inv, Types, Active, Ended
<1>2. Phases'
  BY DEF Inv, Types, Phases
<1>3. AskingInv'
  BY PoolFacts DEF Inv, Types, PoolInv, AskingInv, Active, HasConnection
<1>4. UserInv'
  BY DEF Inv, Types, PoolInv, UserInv, Active
<1>5. IdleInv'
  BY DEF Inv, PoolInv, IdleInv
<1> QED
  BY <1>1, <1>2, <1>3, <1>4, <1>5 DEF Inv, PoolInv

LEMMA ConnectInv == ASSUME Inv, NEW t \in Tasks, Connect(t) PROVE Inv'
<1>1. UNCHANGED <<at, next, idle, user, session, writes, disturbed, errors>>
      /\ asking' = Append(asking, t)
  BY DEF Connect, tasks, database
<1>2. asking \in Seq(Tasks)
  BY DEF Inv, Types
<1>3. /\ asking' \in Seq(Tasks) /\ DOMAIN asking' = 1..(Len(asking) + 1)
      /\ Len(asking) \in Nat /\ DOMAIN asking = 1..Len(asking)
      /\ \A i \in 1..Len(asking) : asking'[i] = asking[i]
      /\ asking'[Len(asking) + 1] = t
  <2> DEFINE a == Append(asking, t)
  <2>1. /\ a \in Seq(Tasks) /\ DOMAIN a = 1..(Len(asking) + 1)
        /\ Len(asking) \in Nat /\ DOMAIN asking = 1..Len(asking)
        /\ \A i \in 1..Len(asking) : a[i] = asking[i]
        /\ a[Len(asking) + 1] = t
    BY <1>2, AppendFacts
  <2>2. asking' = a
    BY <1>1
  <2> HIDE DEF a
  <2> QED
    BY <2>1, <2>2
<1>4. t \in Active /\ ~HasConnection(t) /\ \A i \in DOMAIN asking : asking[i] # t
  BY DEF Connect, BetweenStatements, ToSet
<1>5. Types' /\ Phases'
  BY <1>1, <1>3 DEF Inv, Types, Phases
<1>6. UserInv' /\ IdleInv'
  BY <1>1 DEF Inv, PoolInv, UserInv, IdleInv, Active
<1>7. AskingInv'
  <2>1. Active' = Active /\ user' = user
    BY <1>1 DEF Active
  <2>2. \A i \in DOMAIN asking' : i = Len(asking) + 1 \/ i \in DOMAIN asking
    BY <1>3
  <2>3. \A c \in Connections : user[c] # t
    BY <1>4 DEF HasConnection
  <2> QED
    BY <1>3, <1>4, <2>1, <2>2, <2>3 DEF Inv, PoolInv, AskingInv
<1> QED
  BY <1>5, <1>6, <1>7 DEF Inv, PoolInv

LEMMA AskedFirst ==
    ASSUME Types, asking # <<>>, asking' = Tail(asking)
    PROVE  /\ asking' \in Seq(Tasks) /\ DOMAIN asking' = 1..(Len(asking) - 1)
           /\ Len(asking) \in Nat /\ Len(asking) > 0 /\ DOMAIN asking = 1..Len(asking)
           /\ \A i \in 1..(Len(asking) - 1) : asking'[i] = asking[i + 1]
           /\ Head(asking) = asking[1] /\ asking[1] \in Tasks /\ 1 \in DOMAIN asking
           /\ \A i \in DOMAIN asking' :
                 i + 1 \in DOMAIN asking /\ i + 1 # 1 /\ asking'[i] = asking[i + 1]
<1> DEFINE a == Tail(asking)
<1>1. asking \in Seq(Tasks)
  BY DEF Types
<1>2. /\ a \in Seq(Tasks) /\ DOMAIN a = 1..(Len(asking) - 1)
      /\ \A i \in 1..(Len(asking) - 1) : a[i] = asking[i + 1]
  BY <1>1, TailFacts
<1>3. Len(asking) \in Nat /\ Len(asking) > 0 /\ Head(asking) = asking[1]
      /\ 1 \in DOMAIN asking /\ asking[1] \in Tasks
  BY <1>1, NotEmpty, Zenon
<1>4. asking' = a /\ DOMAIN asking = 1..Len(asking)
  BY PoolFacts
<1> HIDE DEF a
<1>5. \A i \in 1..(Len(asking) - 1) : i + 1 \in 1..Len(asking) /\ i + 1 # 1
  BY <1>3
<1> QED
  BY <1>2, <1>3, <1>4, <1>5

LEMMA GrantIdleInv == ASSUME Inv, GrantIdle PROVE Inv'
<1> DEFINE last == idle[Len(idle)]
<1>0. Types /\ asking # <<>> /\ idle # <<>> /\ idle \in Seq(Connections)
  BY DEF Inv, Types, GrantIdle
<1>1. /\ asking' \in Seq(Tasks) /\ DOMAIN asking' = 1..(Len(asking) - 1)
      /\ Len(asking) \in Nat /\ Len(asking) > 0 /\ DOMAIN asking = 1..Len(asking)
      /\ \A i \in 1..(Len(asking) - 1) : asking'[i] = asking[i + 1]
      /\ Head(asking) = asking[1] /\ asking[1] \in Tasks /\ 1 \in DOMAIN asking
      /\ \A i \in DOMAIN asking' :
            i + 1 \in DOMAIN asking /\ i + 1 # 1 /\ asking'[i] = asking[i + 1]
  BY <1>0, AskedFirst DEF GrantIdle
<1>2. /\ idle' \in Seq(Connections) /\ DOMAIN idle' = 1..(Len(idle) - 1)
      /\ \A i \in 1..(Len(idle) - 1) : idle'[i] = idle[i]
      /\ Len(idle) \in Nat /\ Len(idle) > 0 /\ DOMAIN idle = 1..Len(idle)
      /\ Last(idle) = last /\ last \in Connections
  <2> DEFINE f == Front(idle)
  <2>1. /\ f \in Seq(Connections) /\ DOMAIN f = 1..(Len(idle) - 1)
        /\ \A i \in 1..(Len(idle) - 1) : f[i] = idle[i]
    BY <1>0, FrontFacts
  <2>2. Len(idle) \in Nat /\ Len(idle) > 0 /\ Last(idle) = last /\ last \in Connections
    BY <1>0, NotEmpty, Zenon
  <2>3. idle' = f /\ DOMAIN idle = 1..Len(idle)
    BY <1>0, PoolFacts DEF GrantIdle
  <2> HIDE DEF f
  <2> QED
    BY <2>1, <2>2, <2>3
<1>3. /\ user' = [user EXCEPT ![last] = asking[1]]
      /\ UNCHANGED <<at, next, session, writes, disturbed, errors>>
  BY <1>1, <1>2 DEF GrantIdle, tasks, database
<1>4. /\ Active' = Active /\ user \in [Connections -> Tasks \cup {Nobody}]
      /\ user[last] = Nobody /\ session[last].state # "closed"
      /\ asking[1] \in Active /\ \A c \in Connections : user[c] # asking[1]
  <2>1. Active' = Active
    BY <1>3 DEF Active
  <2>2. asking[1] \in Active /\ \A c \in Connections : user[c] # asking[1]
    BY <1>1 DEF Inv, PoolInv, AskingInv
  <2>3. Len(idle) \in DOMAIN idle
    BY <1>2
  <2> QED
    BY <2>1, <2>2, <2>3 DEF Inv, Types, PoolInv, IdleInv
<1> HIDE DEF last
<1>5. Types' /\ Phases'
  BY <1>1, <1>2, <1>3 DEF Inv, Types, Phases
<1>6. AskingInv'
  <2>1. ASSUME NEW i \in DOMAIN asking'
        PROVE  asking'[i] \in Active' /\ \A d \in Connections : user'[d] # asking'[i]
    <3>1. asking'[i] \in Active /\ asking'[i] # asking[1]
          /\ \A d \in Connections : user[d] # asking'[i]
      BY <1>1 DEF Inv, PoolInv, AskingInv
    <3> QED
      BY <3>1, <1>2, <1>3, <1>4
  <2>2. \A i, j \in DOMAIN asking' : asking'[i] = asking'[j] => i = j
    <3>1. \A i, j \in DOMAIN asking' : asking'[i] = asking'[j] => i + 1 = j + 1
      BY <1>1 DEF Inv, PoolInv, AskingInv
    <3> QED
      BY <3>1, <1>1
  <2> QED
    BY <2>1, <2>2 DEF AskingInv
<1>7. UserInv'
  BY <1>1, <1>2, <1>3, <1>4 DEF Inv, PoolInv, UserInv
<1>8. IdleInv'
  <2>1. \A i \in DOMAIN idle' : /\ i \in DOMAIN idle /\ i # Len(idle)
                                /\ Len(idle) \in DOMAIN idle /\ idle'[i] = idle[i]
    BY <1>2
  <2>2. \A i \in DOMAIN idle' : idle'[i] # last /\ idle'[i] \in Connections
    BY <2>1, <1>0, PoolFacts DEF Inv, PoolInv, IdleInv, last
  <2> QED
    BY <2>1, <2>2, <1>3, <1>4 DEF Inv, PoolInv, IdleInv
<1> QED
  BY <1>5, <1>6, <1>7, <1>8 DEF Inv, PoolInv

LEMMA GrantNewInv == ASSUME Inv, GrantNew PROVE Inv'
<1>0. Types /\ asking # <<>>
  BY DEF Inv, GrantNew
<1>1. /\ asking' \in Seq(Tasks) /\ DOMAIN asking' = 1..(Len(asking) - 1)
      /\ Len(asking) \in Nat /\ Len(asking) > 0 /\ DOMAIN asking = 1..Len(asking)
      /\ \A i \in 1..(Len(asking) - 1) : asking'[i] = asking[i + 1]
      /\ Head(asking) = asking[1] /\ asking[1] \in Tasks /\ 1 \in DOMAIN asking
      /\ \A i \in DOMAIN asking' :
            i + 1 \in DOMAIN asking /\ i + 1 # 1 /\ asking'[i] = asking[i + 1]
  BY <1>0, AskedFirst DEF GrantNew
<1>2. PICK c \in Connections :
        /\ session[c].state = "closed"
        /\ session' = [session EXCEPT ![c] = Fresh]
        /\ user' = [user EXCEPT ![c] = asking[1]]
  BY <1>1 DEF GrantNew
<1>3. UNCHANGED <<at, next, idle, writes, disturbed, errors>>
  BY DEF GrantNew, tasks
<1>4. /\ Active' = Active /\ user \in [Connections -> Tasks \cup {Nobody}]
      /\ user[c] = Nobody /\ \A i \in DOMAIN idle : idle[i] # c
      /\ asking[1] \in Active /\ \A d \in Connections : user[d] # asking[1]
      /\ session \in [Connections -> AnySession]
  <2>1. Active' = Active
    BY <1>3 DEF Active
  <2>2. asking[1] \in Active /\ \A d \in Connections : user[d] # asking[1]
    BY <1>1 DEF Inv, PoolInv, AskingInv
  <2> QED
    BY <2>1, <2>2, <1>2 DEF Inv, Types, PoolInv, UserInv, IdleInv
<1>5. Types' /\ Phases'
  BY <1>1, <1>2, <1>3 DEF Inv, Types, Phases, Fresh, AnySession, SessionStates
<1>6. AskingInv'
  <2>1. ASSUME NEW i \in DOMAIN asking'
        PROVE  asking'[i] \in Active' /\ \A d \in Connections : user'[d] # asking'[i]
    <3>1. asking'[i] \in Active /\ asking'[i] # asking[1]
          /\ \A d \in Connections : user[d] # asking'[i]
      BY <1>1 DEF Inv, PoolInv, AskingInv
    <3> QED
      BY <3>1, <1>2, <1>3, <1>4
  <2>2. \A i, j \in DOMAIN asking' : asking'[i] = asking'[j] => i = j
    <3>1. \A i, j \in DOMAIN asking' : asking'[i] = asking'[j] => i + 1 = j + 1
      BY <1>1 DEF Inv, PoolInv, AskingInv
    <3> QED
      BY <3>1, <1>1
  <2> QED
    BY <2>1, <2>2 DEF AskingInv
<1>7. UserInv'
  BY <1>1, <1>2, <1>3, <1>4 DEF Inv, PoolInv, UserInv, Fresh
<1>8. IdleInv'
  BY <1>0, <1>2, <1>3, <1>4, PoolFacts DEF Inv, PoolInv, IdleInv, Fresh
<1> QED
  BY <1>5, <1>6, <1>7, <1>8 DEF Inv, PoolInv

LEMMA TimeoutInv == ASSUME Inv, NEW k \in DOMAIN idle, IdleTimeout(k) PROVE Inv'
<1>0. Types /\ idle \in Seq(Connections) /\ k \in 1..Len(idle)
  BY PoolFacts DEF Inv, Types
<1>1. /\ idle' \in Seq(Connections) /\ DOMAIN idle' = 1..(Len(idle) - 1)
      /\ \A i \in 1..(Len(idle) - 1) : idle'[i] = IF i < k THEN idle[i] ELSE idle[i + 1]
      /\ Len(idle) \in Nat /\ DOMAIN idle = 1..Len(idle) /\ idle[k] \in Connections
  <2> DEFINE f == RemoveAt(idle, k)
  <2>1. /\ f \in Seq(Connections) /\ DOMAIN f = 1..(Len(idle) - 1)
        /\ \A i \in 1..(Len(idle) - 1) : f[i] = IF i < k THEN idle[i] ELSE idle[i + 1]
    BY <1>0, RemoveAtFacts
  <2>2. idle' = f /\ Len(idle) \in Nat /\ DOMAIN idle = 1..Len(idle)
        /\ idle[k] \in Connections
    BY <1>0, PoolFacts DEF IdleTimeout
  <2> HIDE DEF f
  <2> QED
    BY <2>1, <2>2
<1>2. /\ session' = [session EXCEPT ![idle[k]] = Closed]
      /\ UNCHANGED <<at, next, asking, user, writes, errors>>
      /\ disturbed' \in {disturbed, disturbed \cup Active}
  BY DEF IdleTimeout, tasks
<1>3. user[idle[k]] = Nobody
  BY DEF Inv, PoolInv, IdleInv
<1>4. Types' /\ Phases'
  BY <1>1, <1>2 DEF Inv, Types, Phases, Closed, AnySession, SessionStates, Active
<1>5. AskingInv'
  BY <1>2 DEF Inv, PoolInv, AskingInv, Active
<1>6. UserInv'
  BY <1>0, <1>1, <1>2, <1>3 DEF Inv, PoolInv, UserInv, Active, Types
<1>7. IdleInv'
  <2>1. \A i \in DOMAIN idle' : \E j \in DOMAIN idle : j # k /\ idle'[i] = idle[j]
    BY <1>0, <1>1, SMTT(60)
  <2>2. \A i, j \in DOMAIN idle' : idle'[i] = idle'[j] => i = j
    <3> TAKE i, j \in DOMAIN idle'
    <3> DEFINE was(n) == IF n < k THEN n ELSE n + 1
    <3>1. /\ was(i) \in DOMAIN idle /\ was(j) \in DOMAIN idle
          /\ idle'[i] = idle[was(i)] /\ idle'[j] = idle[was(j)]
          /\ was(i) = was(j) => i = j
      BY <1>0, <1>1
    <3> HIDE DEF was
    <3> QED
      BY <3>1 DEF Inv, PoolInv, IdleInv
  <2>3. \A i \in DOMAIN idle' : /\ idle'[i] # idle[k] /\ idle'[i] \in Connections
                                /\ user[idle'[i]] = Nobody
                                /\ session[idle'[i]].state # "closed"
    BY <2>1, <1>0, PoolFacts DEF Inv, PoolInv, IdleInv
  <2> QED
    BY <1>1, <1>2, <2>2, <2>3 DEF Inv, IdleInv, Types
<1> QED
  BY <1>4, <1>5, <1>6, <1>7 DEF Inv, PoolInv

LEMMA ThrowInv == ASSUME Inv, NEW t \in Tasks, Throw(t) PROVE Inv'
<1>1. /\ at' = [at EXCEPT ![t] = "rolling back"]
      /\ Kind[t] = "managed" /\ at[t] = "running" /\ next[t] > 1
      /\ UNCHANGED <<next, asking, idle, user, session, writes, disturbed>>
      /\ errors' = errors + 1
  BY DEF Throw, AfterError, pool, database
<1>2. Types'
  <2>1. at' \in [Tasks -> {"waiting", "running", "rolling back"} \cup Ended]
    BY <1>1 DEF Inv, Types
  <2>2. errors' \in Nat
    <3>1. errors \in Nat
      BY DEF Inv, Types
    <3>2. errors' = errors + 1
      BY <1>1
    <3> QED
      BY <3>1, <3>2
  <2> QED
    BY <1>1, <2>1, <2>2 DEF Inv, Types
<1>5. Phases'
  BY <1>1 DEF Inv, Types, Phases
<1>3. Active' = Active
  BY <1>1 DEF Inv, Types, Active
<1>4. PoolInv'
  BY <1>1, <1>3 DEF Inv, PoolInv, AskingInv, UserInv, IdleInv
<1> QED
  BY <1>2, <1>4, <1>5 DEF Inv

(* A task that has had its answer returns the connection. *)
LEMMA ReleaseInv ==
    ASSUME Inv, Types', NEW c \in Connections, user[c] # Nobody, Release(c),
           UNCHANGED asking, \A t \in Tasks \ {user[c]} : at'[t] = at[t],
           \A d \in Connections : session[d].state # "closed" => session'[d].state # "closed"
    PROVE  PoolInv'
<1>1. idle \in Seq(Connections) /\ Types
  BY DEF Inv, Types
<1>2. /\ DOMAIN idle' = 1..(Len(idle) + 1) /\ idle' \in Seq(Connections)
      /\ Len(idle) \in Nat /\ DOMAIN idle = 1..Len(idle)
      /\ \A i \in 1..Len(idle) : idle'[i] = idle[i] /\ idle[i] \in Connections
      /\ idle'[Len(idle) + 1] = c
  <2> DEFINE a == Append(idle, c)
  <2>1. /\ DOMAIN a = 1..(Len(idle) + 1) /\ a \in Seq(Connections)
        /\ Len(idle) \in Nat /\ DOMAIN idle = 1..Len(idle)
        /\ \A i \in 1..Len(idle) : a[i] = idle[i]
        /\ a[Len(idle) + 1] = c
    BY <1>1, AppendFacts
  <2>2. idle' = a /\ \A i \in DOMAIN idle : idle[i] \in Connections
    BY <1>1, PoolFacts DEF Release
  <2> HIDE DEF a
  <2> QED
    BY <2>1, <2>2
<1>3. /\ user' = [user EXCEPT ![c] = Nobody] /\ user \in [Connections -> Tasks \cup {Nobody}]
      /\ \A t \in Tasks : t # user[c] => (t \in Active' <=> t \in Active)
      /\ \A i \in DOMAIN asking : asking[i] \in Tasks
  BY <1>1, PoolFacts DEF Release, Active, Types
<1>4. AskingInv'
  BY <1>3, NobodyAssumption DEF Inv, PoolInv, AskingInv
<1>5. UserInv'
  BY <1>3, NobodyAssumption DEF Inv, PoolInv, UserInv
<1>6. IdleInv'
  <2>1. \A i \in DOMAIN idle' : i = Len(idle) + 1 \/ i \in DOMAIN idle
    BY <1>2
  <2>2. session[c].state # "closed" /\ \A i \in DOMAIN idle : idle[i] # c
    BY DEF Inv, PoolInv, UserInv, IdleInv
  <2> QED
    BY <1>2, <1>3, <2>1, <2>2 DEF Inv, PoolInv, IdleInv
<1> QED
  BY <1>4, <1>5, <1>6 DEF PoolInv

(* Which statement a task is at, and what its success makes of it. *)
LEMMA StatementOf ==
    ASSUME Inv, NEW t \in Tasks, t \in Active
    PROVE  /\ at[t] \in {"running", "rolling back"} /\ next[t] \in {1, 2, 3, 4}
           /\ next[t] \in Nat
           /\ Statement(t) \in {"BEGIN", "write", "COMMIT", "ROLLBACK"}
           /\ AfterSuccess(t) \in {"running", "done", "failed"}
           /\ AfterSuccess(t) = "running" => next[t] \in 1..3
           /\ at[t] = "rolling back" =>
                 Statement(t) = "ROLLBACK" /\ AfterSuccess(t) = "failed"
           /\ at[t] = "running" /\ Kind[t] = "plain" =>
                 next[t] = 1 /\ Statement(t) = "write" /\ AfterSuccess(t) = "done"
           /\ at[t] = "running" /\ Kind[t] # "plain" =>
                 /\ next[t] = 1 => Statement(t) = "BEGIN"
                 /\ next[t] \in {2, 3} => Statement(t) = "write"
                 /\ next[t] = 4 => Statement(t) = "COMMIT" /\ AfterSuccess(t) = "done"
                 /\ next[t] # 4 => AfterSuccess(t) = "running"
<1>1. at[t] \in {"running", "rolling back"}
  BY DEF Active
<1>2. next[t] \in {1, 2, 3, 4} /\ next[t] \in Nat
  <2>1. next[t] \in 1..4
    BY DEF Inv, Types
  <2> QED
    BY <2>1
<1>3. next[t] > 1 => Kind[t] # "plain"
  BY DEF Inv, Phases
<1>4. CASE at[t] = "rolling back"
  <2>1. Statement(t) = "ROLLBACK" /\ AfterSuccess(t) = "failed"
    BY <1>4 DEF Statement, AfterSuccess
  <2> QED
    BY <1>2, <1>4, <2>1
<1>5. CASE at[t] = "running" /\ Kind[t] = "plain"
  <2>1. next[t] = 1
    BY <1>2, <1>3, <1>5
  <2>2. Statement(t) = "write" /\ AfterSuccess(t) = "done"
    BY <1>5, <2>1, StatementFacts DEF Statement, AfterSuccess
  <2> QED
    BY <1>5, <2>1, <2>2
<1>6. CASE at[t] = "running" /\ Kind[t] # "plain"
  <2>1. /\ next[t] = 1 => Statement(t) = "BEGIN"
        /\ next[t] \in {2, 3} => Statement(t) = "write"
        /\ next[t] = 4 => Statement(t) = "COMMIT" /\ AfterSuccess(t) = "done"
        /\ next[t] # 4 => AfterSuccess(t) = "running"
    BY <1>6, StatementFacts DEF Statement, AfterSuccess
  <2> QED
    BY <1>2, <1>6, <2>1
<1> QED
  BY <1>1, <1>4, <1>5, <1>6

(* What a statement that succeeds makes of its connection, and of the tables. *)
LEMMA PerformFacts ==
    ASSUME Inv, NEW c \in Connections, NEW t \in Tasks, t \in Active, Perform(c, t),
           session[c].state # "closed",
           session[c].state = "aborted" => Statement(t) \in {"COMMIT", "ROLLBACK"}
    PROVE  /\ Statement(t) \in {"BEGIN", "write", "COMMIT", "ROLLBACK"}
           /\ session' \in [Connections -> AnySession]
           /\ \A d \in Connections \ {c} : session'[d] = session[d]
           /\ writes' \subseteq AnyWrite
           /\ Statement(t) = "BEGIN" =>
                 /\ session'[c].state = "transaction"
                 /\ session'[c].pending = session[c].pending /\ writes' = writes
           /\ Statement(t) = "write" =>
                 \/ /\ session[c].state = "transaction" /\ session'[c].state = "transaction"
                    /\ session'[c].pending = session[c].pending \cup {<<t, next[t]>>}
                    /\ writes' = writes
                 \/ /\ session[c].state = "autocommit" /\ session' = session
                    /\ writes' = writes \cup {<<t, next[t]>>}
           /\ Statement(t) = "COMMIT" =>
                 session'[c] = Fresh /\ writes' = writes \cup session[c].pending
           /\ Statement(t) = "ROLLBACK" => session'[c] = Fresh /\ writes' = writes
<1>1. /\ session \in [Connections -> AnySession] /\ session[c] \in AnySession
      /\ session[c].state \in {"autocommit", "transaction", "aborted"}
      /\ session[c].pending \subseteq AnyWrite
  BY DEF Inv, Types, AnySession, SessionStates
<1>2. <<t, next[t]>> \in AnyWrite /\ writes \subseteq AnyWrite
  <2>1. next[t] \in Nat /\ writes \subseteq AnyWrite
    BY StatementOf DEF Inv, Types
  <2> QED
    BY <2>1 DEF AnyWrite
<1>3. Fresh \in AnySession /\ "transaction" \in SessionStates
  BY DEF Fresh, AnySession, SessionStates
<1>4. Statement(t) \in {"BEGIN", "write", "COMMIT", "ROLLBACK"}
  BY StatementOf, KindAssumption
<1>5. CASE Statement(t) = "BEGIN"
  <2>1. session' = [session EXCEPT ![c].state = "transaction"] /\ UNCHANGED writes
    BY <1>5 DEF Perform
  <2>2. session' \in [Connections -> AnySession]
        /\ \A d \in Connections \ {c} : session'[d] = session[d]
    BY <2>1, <1>1, <1>3 DEF AnySession
  <2>3. session'[c].state = "transaction" /\ session'[c].pending = session[c].pending
    BY <2>1, <1>1 DEF AnySession
  <2> QED
    BY <1>2, <1>4, <1>5, <2>1, <2>2, <2>3
<1>6. CASE Statement(t) = "write"
  <2>1. session[c].state \in {"autocommit", "transaction"}
    BY <1>1, <1>6
  <2>2. CASE session[c].state = "transaction"
    <3>1. session' = [session EXCEPT ![c].pending = @ \cup {<<t, next[t]>>}]
          /\ UNCHANGED writes
      BY <1>6, <2>2 DEF Perform
    <3>2. session[c].pending \cup {<<t, next[t]>>} \subseteq AnyWrite
      BY <1>1, <1>2
    <3>3. session' \in [Connections -> AnySession]
          /\ \A d \in Connections \ {c} : session'[d] = session[d]
      BY <3>1, <3>2, <1>1 DEF AnySession
    <3>4. session'[c].state = "transaction"
          /\ session'[c].pending = session[c].pending \cup {<<t, next[t]>>}
      BY <3>1, <1>1, <2>2 DEF AnySession
    <3> QED
      BY <1>2, <1>4, <1>6, <2>2, <3>1, <3>3, <3>4
  <2>3. CASE session[c].state = "autocommit"
    <3>1. session' = session /\ writes' = writes \cup {<<t, next[t]>>}
      BY <1>6, <2>3 DEF Perform
    <3> QED
      BY <1>1, <1>2, <1>6, <2>3, <3>1
  <2> QED
    BY <2>1, <2>2, <2>3
<1>7. CASE Statement(t) = "COMMIT"
  <2>1. session' = [session EXCEPT ![c] = Fresh] /\ writes' = writes \cup session[c].pending
    BY <1>7 DEF Perform
  <2> QED
    BY <1>1, <1>2, <1>3, <1>7, <2>1
<1>8. CASE Statement(t) = "ROLLBACK"
  <2>1. session' = [session EXCEPT ![c] = Fresh] /\ writes' = writes
    BY <1>8 DEF Perform
  <2> QED
    BY <1>1, <1>2, <1>3, <1>8, <2>1
<1> QED
  BY <1>4, <1>5, <1>6, <1>7, <1>8

LEMMA SucceedInv == ASSUME Inv, NEW c \in Connections, Succeed(c) PROVE Inv'
<1> DEFINE t == user[c]
<1>0. /\ t \in Tasks /\ t \in Active /\ t # Nobody
      /\ session[c].state # "closed" /\ idle \in Seq(Connections)
  BY DEF Succeed, Inv, Types, PoolInv, UserInv
<1>1. /\ Perform(c, t) /\ Release(c)
      /\ at' = [at EXCEPT ![t] = AfterSuccess(t)]
      /\ next' = IF AfterSuccess(t) = "running" THEN [next EXCEPT ![t] = @ + 1] ELSE next
      /\ UNCHANGED <<asking, disturbed, errors>>
      /\ session[c].state = "aborted" => Statement(t) \in {"COMMIT", "ROLLBACK"}
  BY DEF Succeed
<1> HIDE DEF t
<1>2. /\ session' \in [Connections -> AnySession]
      /\ writes' \subseteq AnyWrite
      /\ \A d \in Connections : session[d].state # "closed" => session'[d].state # "closed"
      /\ \A d \in Connections : session'[d].state # "transaction" => session'[d].pending = {}
  <2>1. \A d \in Connections : session[d].state # "transaction" => session[d].pending = {}
    BY DEF Inv, Phases
  <2>2. /\ session' \in [Connections -> AnySession] /\ writes' \subseteq AnyWrite
        /\ \A d \in Connections \ {c} : session'[d] = session[d]
        /\ session'[c].state # "closed"
        /\ session'[c].state # "transaction" => session'[c].pending = {}
    BY <1>0, <1>1, <2>1, PerformFacts DEF Fresh
  <2> QED
    BY <2>1, <2>2
<1>3. idle' \in Seq(Connections) /\ user' \in [Connections -> Tasks \cup {Nobody}]
  BY <1>0, <1>1, AppendFacts DEF Release, Inv, Types
<1>4. /\ at' \in [Tasks -> {"waiting", "running", "rolling back"} \cup Ended]
      /\ next' \in [Tasks -> 1..4]
  <2>1. AfterSuccess(t) \in {"running"} \cup Ended
        /\ (AfterSuccess(t) = "running" => next[t] \in 1..3)
    BY <1>0, StatementOf, KindAssumption DEF Ended
  <2>2. next[t] \in 1..3 => next[t] + 1 \in 1..4
    OBVIOUS
  <2> QED
    BY <1>0, <1>1, <2>1, <2>2 DEF Inv, Types
<1>5. Types'
  BY <1>1, <1>2, <1>3, <1>4 DEF Inv, Types
<1>6. Phases'
  BY <1>0, <1>1, <1>2, StatementOf DEF Inv, Types, Phases
<1>7. PoolInv'
  BY <1>0, <1>1, <1>2, <1>5, ReleaseInv DEF t, Inv, Types
<1> QED
  BY <1>5, <1>6, <1>7 DEF Inv

LEMMA ErrorInv == ASSUME Inv, NEW c \in Connections, Error(c) PROVE Inv'
<1> DEFINE t == user[c]
<1>0. /\ t \in Tasks /\ t \in Active /\ t # Nobody
      /\ session[c].state # "closed" /\ idle \in Seq(Connections)
  BY DEF Error, Inv, Types, PoolInv, UserInv
<1>1. /\ Release(c) /\ at' = [at EXCEPT ![t] = AfterError(t)]
      /\ UNCHANGED <<next, asking, writes, disturbed>>
      /\ errors' \in Nat
      /\ \/ session' = session
         \/ session' = [session EXCEPT ![c] = [state |-> "aborted", pending |-> {}]]
  <2>1. errors \in Nat
    BY DEF Inv, Types
  <2> QED
    BY <2>1 DEF Error
<1>2. AfterError(t) \in {"rolling back", "failed"}
      /\ (AfterError(t) = "rolling back" => Kind[t] = "managed" /\ next[t] > 1)
  BY DEF AfterError
<1> HIDE DEF t
<1>3. /\ session' \in [Connections -> AnySession]
      /\ \A d \in Connections : session[d].state # "closed" => session'[d].state # "closed"
      /\ \A d \in Connections : session'[d].state # "transaction" => session'[d].pending = {}
  <2> DEFINE lost == [state |-> "aborted", pending |-> {}]
  <2>1. session \in [Connections -> AnySession] /\ lost \in AnySession
    BY DEF Inv, Types, AnySession, SessionStates
  <2>2. lost.state = "aborted" /\ lost.pending = {}
    OBVIOUS
  <2>3. session' = session \/ session' = [session EXCEPT ![c] = lost]
    BY <1>1
  <2> HIDE DEF lost
  <2> QED
    BY <2>1, <2>2, <2>3 DEF Inv, Phases
<1>4. idle' \in Seq(Connections) /\ user' \in [Connections -> Tasks \cup {Nobody}]
  BY <1>0, <1>1, AppendFacts DEF Release, Inv, Types
<1>5. Types'
  BY <1>0, <1>1, <1>2, <1>3, <1>4 DEF Inv, Types, Ended
<1>6. Phases'
  BY <1>0, <1>1, <1>2, <1>3 DEF Inv, Types, Phases
<1>7. PoolInv'
  BY <1>0, <1>1, <1>3, <1>5, ReleaseInv DEF t, Inv, Types
<1> QED
  BY <1>5, <1>6, <1>7 DEF Inv

LEMMA StepInv == Inv /\ [Next]_vars => Inv'
<1> SUFFICES ASSUME Inv, [Next]_vars PROVE Inv'
  OBVIOUS
<1>1. CASE Next
  BY <1>1, StartInv, ConnectInv, ThrowInv, GrantIdleInv, GrantNewInv,
     SucceedInv,
     ErrorInv, TimeoutInv DEF Next
<1>2. CASE UNCHANGED vars
  BY <1>2
     DEF vars, tasks, pool, database, Inv, Types, Phases, PoolInv, AskingInv,
              UserInv, IdleInv, Active
<1> QED
  BY <1>1, <1>2

-----------------------------------------------------------------------------
(* The connection a lone task has is its only home, ... *)
LEMMA OnlyHome ==
    ASSUME Inv, NEW c \in Connections, user[c] # Nobody
    PROVE  user[c] \in Tasks /\ user[c] \in Active
           /\ \A d \in Connections : Home(d, user[c]) <=> d = c
<1>1. user[c] \in Tasks /\ user[c] \in Active
  BY DEF Inv, Types, PoolInv, UserInv
<1>2. HasConnection(user[c])
  BY DEF HasConnection
<1>3. \A d \in Connections : user[d] = user[c] => d = c
  BY DEF Inv, PoolInv, UserInv
<1> QED
  BY <1>1, <1>2, <1>3 DEF Home

(* ... remains so when it is returned, ... *)
LEMMA HomeReturned ==
    ASSUME Inv, NEW c \in Connections, NEW t \in Tasks, user[c] = t, Release(c)
    PROVE  \A d \in Connections : Home(d, t)' <=> d = c
<1>1. idle \in Seq(Connections) /\ user \in [Connections -> Tasks \cup {Nobody}]
  BY DEF Inv, Types
<1>2. idle' # <<>> /\ idle'[Len(idle')] = c
  <2> DEFINE a == Append(idle, c)
  <2>1. a # <<>> /\ Len(a) = Len(idle) + 1 /\ a[Len(idle) + 1] = c
    BY <1>1, AppendFacts
  <2>2. idle' = a
    BY DEF Release
  <2> HIDE DEF a
  <2> QED
    BY <2>1, <2>2
<1>3. \A d \in Connections : user'[d] # t
  BY <1>1, NobodyAssumption DEF Release, Inv, PoolInv, UserInv
<1> QED
  BY <1>2, <1>3 DEF Home, HasConnection

(* ... and is what the task is given again, if no other asks. *)
LEMMA HomeGranted ==
    ASSUME Inv, GrantIdle, NEW t \in Tasks, Active = {t}, NEW c \in Connections, Home(c, t)
    PROVE  Home(c, t)'
<1>1. Types /\ asking # <<>> /\ idle # <<>> /\ idle \in Seq(Connections)
  BY DEF Inv, Types, GrantIdle
<1>2. 1 \in DOMAIN asking /\ Head(asking) = asking[1]
  BY <1>1, AskedFirst DEF GrantIdle
<1>3. asking[1] = t /\ ~HasConnection(t)
  BY <1>2 DEF Inv, PoolInv, AskingInv, HasConnection
<1>4. Last(idle) = idle[Len(idle)]
  BY <1>1, NotEmpty, Zenon
<1>5. idle[Len(idle)] = c
  BY <1>3 DEF Home, HasConnection
<1>6. user'[c] = t
  BY <1>2, <1>3, <1>4, <1>5 DEF GrantIdle, Inv, Types
<1> QED
  BY <1>6 DEF Home

LEMMA NoHomeWithoutIdle ==
    ASSUME Inv, GrantNew, NEW t \in Tasks, Active = {t}, NEW c \in Connections
    PROVE  ~Home(c, t)
<1>1. Types /\ asking # <<>> /\ idle = <<>>
  BY DEF Inv, GrantNew
<1>2. 1 \in DOMAIN asking
  BY <1>1, AskedFirst DEF GrantNew
<1>3. asking[1] = t
  BY <1>2 DEF Inv, PoolInv, AskingInv
<1> QED
  BY <1>1, <1>2, <1>3 DEF Inv, PoolInv, AskingInv, Home

-----------------------------------------------------------------------------
LEMMA StartLone ==
    ASSUME Inv, LoneInv, LeakInv, NEW s \in Tasks, Start(s) PROVE LoneInv' /\ LeakInv'
<1>1. /\ at[s] = "waiting" /\ at' = [at EXCEPT ![s] = "running"]
      /\ UNCHANGED <<next, idle, user, session, writes>>
      /\ disturbed \subseteq disturbed'
      /\ Active # {} => Active \subseteq disturbed' /\ s \in disturbed'
      /\ LeftOpen # {} => s \in disturbed'
  BY DEF Start, pool, database
<1>2. Active' = Active \cup {s} /\ at \in [Tasks -> {"waiting", "running", "rolling back"} \cup Ended]
  BY <1>1 DEF Inv, Types, Active
<1>3. next[s] = 1 /\ Unwritten(s)
  BY <1>1 DEF Inv, Phases, LoneInv
<1>4. ASSUME NEW t \in Tasks, t \notin disturbed', t \in Active' PROVE Alone(t)'
  <2>1. Active = {} /\ t = s
    BY <1>1, <1>2, <1>4
  <2>2. LeftOpen' = {} /\ Unwritten(s)'
    BY <1>1, <1>3, <1>4, <2>1 DEF LeftOpen, Unwritten
  <2> QED
    BY <1>1, <1>2, <1>3, <2>1, <2>2 DEF Alone
<1>5. LoneInv'
  BY <1>1, <1>2, <1>4 DEF LoneInv, Unwritten, Untouched, Active
<1>6. LeakInv'
  <2> SUFFICES ASSUME disturbed' = {}, NEW c \in Connections, session[c].state = "aborted"
               PROVE  \E b \in Tasks : Kind[b] = "batch" /\ at'[b] = "failed"
    BY <1>1, <1>2 DEF LeakInv
  <2>1. disturbed = {} /\ Active = {}
    BY <1>1
  <2>2. PICK b \in Tasks : Kind[b] = "batch" /\ at[b] = "failed"
    BY <2>1 DEF LeakInv, Active
  <2> QED
    BY <1>1, <1>2, <2>2
<1> QED
  BY <1>5, <1>6

LEMMA ConnectLone ==
    ASSUME Inv, LoneInv, LeakInv, NEW s \in Tasks, Connect(s) PROVE LoneInv' /\ LeakInv'
<1>1. UNCHANGED <<at, next, idle, user, session, writes, disturbed>>
  BY DEF Connect, tasks, database
<1>2. Active' = Active /\ LeftOpen' = LeftOpen
  BY <1>1 DEF Active, LeftOpen
<1>3. ASSUME NEW t \in Tasks, NEW c \in Connections
      PROVE  /\ Home(c, t) => Home(c, t)'
             /\ OpenHere(c, t) => OpenHere(c, t)'
  <2>1. Home(c, t) => Home(c, t)'
    BY <1>1 DEF Home, HasConnection
  <2> QED
    BY <1>1, <2>1 DEF OpenHere
<1>4. LoneInv'
  BY <1>1, <1>2, <1>3 DEF LoneInv, Alone, Unwritten, Untouched
<1>5. LeakInv'
  BY <1>1, <1>2, <1>3 DEF LeakInv
<1> QED
  BY <1>4, <1>5

LEMMA GrantIdleLone == ASSUME Inv, LoneInv, LeakInv, GrantIdle PROVE LoneInv' /\ LeakInv'
<1>1. UNCHANGED <<at, next, session, writes, disturbed>>
  BY DEF GrantIdle, tasks, database
<1>2. Active' = Active /\ LeftOpen' = LeftOpen
  BY <1>1 DEF Active, LeftOpen
<1>3. ASSUME NEW t \in Tasks, Alone(t) PROVE Alone(t)'
  <2>1. \A c \in Connections : Home(c, t) => Home(c, t)'
    BY <1>3, HomeGranted DEF Alone
  <2>2. \A c \in Connections : OpenHere(c, t) => OpenHere(c, t)'
    BY <1>1, <2>1 DEF OpenHere
  <2> QED
    BY <1>1, <1>2, <1>3, <2>2 DEF Alone, Unwritten
<1>4. LoneInv'
  BY <1>1, <1>2, <1>3 DEF LoneInv, Unwritten, Untouched
<1>5. ASSUME disturbed = {}, NEW t \in Tasks, at[t] = "rolling back",
             NEW c \in Connections, Home(c, t)
      PROVE  Home(c, t)'
  <2>1. Active = {t}
    BY <1>5 DEF LoneInv, Alone, Active
  <2> QED
    BY <1>5, <2>1, HomeGranted
<1>6. LeakInv'
  BY <1>1, <1>2, <1>5 DEF LeakInv
<1> QED
  BY <1>4, <1>6

LEMMA GrantNewLone == ASSUME Inv, LoneInv, LeakInv, GrantNew PROVE LoneInv' /\ LeakInv'
<1>1. UNCHANGED <<at, next, writes, disturbed>>
  BY DEF GrantNew, tasks
<1>2. PICK c \in Connections :
        session[c].state = "closed" /\ session' = [session EXCEPT ![c] = Fresh]
  BY DEF GrantNew
<1>3. /\ \A d \in Connections \ {c} : session'[d] = session[d]
      /\ session'[c].state = "autocommit" /\ session'[c].pending = {}
  BY <1>2 DEF Inv, Types, Fresh
<1>4. Active' = Active /\ LeftOpen' = LeftOpen
  BY <1>1, <1>2, <1>3 DEF Active, LeftOpen
<1>5. ASSUME NEW t \in Tasks, Alone(t) PROVE Alone(t)'
  <2>1. next[t] = 1 /\ LeftOpen = {}
    BY <1>5, NoHomeWithoutIdle DEF Alone, OpenHere
  <2> QED
    BY <1>1, <1>4, <1>5, <2>1 DEF Alone, Unwritten
<1>6. \A t \in Tasks : Untouched(t) => Untouched(t)'
  BY <1>3 DEF Untouched
<1>7. LoneInv'
  BY <1>1, <1>4, <1>5, <1>6 DEF LoneInv, Unwritten
<1>8. LeakInv'
  <2>1. ASSUME disturbed = {}, NEW t \in Tasks, at[t] = "rolling back", NEW d \in Connections
        PROVE  ~Home(d, t)
    <3>1. Active = {t}
      BY <2>1 DEF LoneInv, Alone, Active
    <3> QED
      BY <3>1, NoHomeWithoutIdle
  <2> QED
    BY <1>1, <1>3, <1>4, <2>1 DEF LeakInv
<1> QED
  BY <1>7, <1>8

LEMMA TimeoutLone ==
    ASSUME Inv, LoneInv, LeakInv, NEW k \in DOMAIN idle, IdleTimeout(k)
    PROVE  LoneInv' /\ LeakInv'
<1>1. /\ UNCHANGED <<at, next, user, writes>>
      /\ session' = [session EXCEPT ![idle[k]] = Closed]
      /\ disturbed' = IF session[idle[k]].state = "autocommit" THEN disturbed
                      ELSE disturbed \cup Active
  BY DEF IdleTimeout, tasks
<1>2. \A d \in Connections :
          \/ d # idle[k] /\ session'[d] = session[d]
          \/ d = idle[k] /\ session'[d].state = "closed" /\ session'[d].pending = {}
  BY <1>1 DEF Inv, Types, Closed
<1>3. Active' = Active /\ LeftOpen' \subseteq LeftOpen
  BY <1>1, <1>2 DEF Active, LeftOpen
<1>4. \A t \in Tasks : Untouched(t) => Untouched(t)'
  BY <1>2 DEF Untouched
<1>5. ASSUME NEW t \in Tasks, NEW c \in Connections, Home(c, t), c # idle[k]
      PROVE  Home(c, t)'
  <2>1. CASE user[c] = t
    BY <1>1, <2>1 DEF Home
  <2>2. CASE ~HasConnection(t) /\ idle # <<>> /\ idle[Len(idle)] = c
    <3>1. /\ idle' # <<>> /\ idle'[Len(idle')] = c
      <4> DEFINE f == RemoveAt(idle, k)
      <4>1. /\ idle \in Seq(Connections) /\ Len(idle) \in Nat /\ k \in 1..Len(idle)
            /\ k # Len(idle)
        BY <1>5, <2>2, PoolFacts DEF Inv, Types
      <4>2. /\ f \in Seq(Connections) /\ DOMAIN f = 1..(Len(idle) - 1)
            /\ \A i \in 1..(Len(idle) - 1) : f[i] = IF i < k THEN idle[i] ELSE idle[i + 1]
        BY <4>1, RemoveAtFacts
      <4>3. idle' = f
        BY DEF IdleTimeout
      <4> HIDE DEF f
      <4>4. Len(f) \in Nat /\ DOMAIN f = 1..Len(f)
        BY <4>2, LenProperties
      <4>5. Len(f) = Len(idle) - 1 /\ Len(f) \in 1..(Len(idle) - 1)
        BY <4>1, <4>2, <4>4
      <4>6. f[Len(f)] = idle[Len(idle)]
        BY <4>1, <4>2, <4>5
      <4>7. f # <<>>
        BY <4>5
      <4> QED
        BY <2>2, <4>3, <4>6, <4>7
    <3> QED
      BY <1>1, <2>2, <3>1 DEF Home, HasConnection
  <2> QED
    BY <1>5, <2>1, <2>2 DEF Home
<1>6. ASSUME NEW t \in Tasks, Alone(t), session[idle[k]].state = "autocommit"
      PROVE  Alone(t)'
  <2>1. CASE next[t] = 1
    BY <1>1, <1>3, <1>6, <2>1 DEF Alone, Unwritten
  <2>2. CASE next[t] # 1
    <3>1. PICK c \in Connections : OpenHere(c, t)
      BY <1>6, <2>2 DEF Alone
    <3>2. c # idle[k]
      BY <1>6, <3>1 DEF OpenHere
    <3>3. OpenHere(c, t)'
      BY <1>1, <1>2, <1>5, <3>1, <3>2 DEF OpenHere
    <3> QED
      BY <1>1, <1>3, <1>6, <2>2, <3>3 DEF Alone, Unwritten
  <2> QED
    BY <2>1, <2>2
<1>7. LoneInv'
  <2>1. \A t \in Tasks : t \notin disturbed' /\ t \in Active' =>
           t \notin disturbed /\ session[idle[k]].state = "autocommit"
    BY <1>1, <1>3
  <2>2. disturbed \subseteq disturbed'
    BY <1>1
  <2> QED
    BY <1>1, <1>3, <1>4, <1>6, <2>1, <2>2 DEF LoneInv, Unwritten
<1>8. LeakInv'
  <2> SUFFICES ASSUME disturbed' = {} PROVE LeakInv'
    BY DEF LeakInv
  <2>1. disturbed = {} /\ (session[idle[k]].state = "autocommit" \/ Active = {})
    BY <1>1
  <2>2. ASSUME NEW c \in Connections, session'[c].state = "aborted"
        PROVE  \/ \E b \in Tasks : Kind[b] = "batch" /\ at'[b] = "failed"
               \/ \E t \in Tasks : at'[t] = "rolling back" /\ Home(c, t)'
    <3>1. c # idle[k] /\ session[c].state = "aborted"
      BY <1>2, <2>2
    <3> QED
      BY <1>1, <1>5, <2>1, <3>1 DEF LeakInv
  <2> QED
    BY <1>3, <2>1, <2>2 DEF LeakInv
<1> QED
  BY <1>7, <1>8

LEMMA ThrowLone ==
    ASSUME Inv, LoneInv, LeakInv, NEW s \in Tasks, Throw(s) PROVE LoneInv' /\ LeakInv'
<1>1. /\ at' = [at EXCEPT ![s] = "rolling back"] /\ at[s] = "running" /\ next[s] > 1
      /\ UNCHANGED <<next, idle, user, session, writes, disturbed>>
      /\ at \in [Tasks -> {"waiting", "running", "rolling back"} \cup Ended]
  BY DEF Throw, AfterError, pool, database, Inv, Types
<1>2. Active' = Active /\ LeftOpen' = LeftOpen /\ s \in Active
  BY <1>1 DEF Active, LeftOpen
<1>3. ASSUME Alone(s) PROVE Alone(s)'
  <2>0. next[s] # 1
    <3>1. next[s] > 1
      BY <1>1
    <3> QED
      BY <3>1
  <2>1. PICK c \in Connections : OpenHere(c, s)
    BY <1>3, <2>0 DEF Alone
  <2>2. Home(c, s)'
    BY <1>1, <2>1 DEF OpenHere, Home, HasConnection
  <2>3. OpenHere(c, s)'
    BY <1>1, <2>1, <2>2 DEF OpenHere
  <2> QED
    BY <1>1, <1>2, <1>3, <2>3 DEF Alone, Unwritten
<1>4. \A t \in Tasks : Alone(t) => t = s
  BY <1>2 DEF Alone
<1>5. LoneInv'
  BY <1>1, <1>2, <1>3, <1>4 DEF LoneInv, Unwritten, Untouched
<1>6. ASSUME disturbed = {} PROVE \A t \in Tasks : at[t] # "rolling back"
  BY <1>1, <1>2, <1>4, <1>6 DEF LoneInv, Active
<1>7. LeakInv'
  BY <1>1, <1>2, <1>6 DEF LeakInv
<1> QED
  BY <1>5, <1>7

LEMMA ErrorLone ==
    ASSUME Inv, LoneInv, LeakInv, NEW c \in Connections, Error(c) PROVE LoneInv' /\ LeakInv'
<1> PICK s \in Tasks : s = user[c]
  BY DEF Error, Inv, Types
<1>1. /\ Release(c) /\ at' = [at EXCEPT ![s] = AfterError(s)] /\ user[c] # Nobody
      /\ UNCHANGED <<next, writes, disturbed>>
      /\ \/ session[c].state = "aborted" /\ session' = session
         \/ session[c].state = "autocommit" /\ session' = session
         \/ /\ session[c].state \notin {"aborted", "autocommit"}
            /\ session' = [session EXCEPT ![c] = [state |-> "aborted", pending |-> {}]]
      /\ Statement(s) \in {"BEGIN", "write"}
  BY DEF Error
<1>2. /\ s \in Tasks /\ s \in Active /\ \A d \in Connections : Home(d, s) <=> d = c
      /\ session[c].state # "closed"
  BY <1>1, OnlyHome DEF Inv, PoolInv, UserInv
<1>3. /\ at[s] = "running" /\ next[s] \in {1, 2, 3, 4}
      /\ at \in [Tasks -> {"waiting", "running", "rolling back"} \cup Ended]
  BY <1>1, <1>2, StatementOf DEF Inv, Types
<1>4. /\ AfterError(s) \in {"rolling back", "failed"}
      /\ AfterError(s) = "failed" <=> Kind[s] # "managed" \/ next[s] = 1
  <2>1. next[s] > 1 <=> next[s] # 1
    <3>1. next[s] \in {1, 2, 3, 4}
      BY <1>3
    <3> QED
      BY <3>1
  <2> QED
    BY <2>1 DEF AfterError
<1>5. \A d \in Connections : Home(d, s)' <=> d = c
  BY <1>1, <1>2, HomeReturned
<1>6. /\ \A d \in Connections :
            \/ session'[d] = session[d]
            \/ /\ d = c /\ session[c].state = "transaction"
               /\ session'[d].state = "aborted" /\ session'[d].pending = {}
      /\ session[c].state = "transaction" => session'[c].state = "aborted"
  <2>1. session \in [Connections -> AnySession]
        /\ session[c].state \in {"autocommit", "transaction", "aborted"}
    BY <1>2 DEF Inv, Types, AnySession, SessionStates
  <2> QED
    BY <1>1, <2>1
<1>7. Active' = IF AfterError(s) = "failed" THEN Active \ {s} ELSE Active
  BY <1>1, <1>2, <1>3, <1>4 DEF Active, Ended
<1>8. \A t \in Tasks : (Unwritten(t) => Unwritten(t)') /\ (Untouched(t) => Untouched(t)')
  BY <1>1, <1>6 DEF Unwritten, Untouched
<1>9. ASSUME Alone(s), next[s] # 1
      PROVE  /\ session[c].state = "transaction"
             /\ \A d \in Connections \ {c} : session[d].state # "transaction"
  <2>1. OpenHere(c, s)
    BY <1>2, <1>9 DEF Alone, OpenHere
  <2> QED
    BY <1>3, <2>1 DEF OpenHere
<1>10. ASSUME Alone(s) PROVE LeftOpen' = {}
  <2>1. CASE next[s] = 1
    BY <1>6, <1>10, <2>1 DEF Alone, LeftOpen
  <2>2. CASE next[s] # 1
    <3>1. session[c].state = "transaction"
          /\ \A d \in Connections \ {c} : session[d].state # "transaction"
      BY <1>9, <1>10, <2>2
    <3> QED
      BY <1>6, <3>1 DEF LeftOpen
  <2> QED
    BY <2>1, <2>2
<1>11. ASSUME Alone(s) PROVE Untouched(s)'
  <2>1. \A d \in Connections : session'[d].pending = {}
    <3>1. \A d \in Connections : session'[d].state # "transaction" => session'[d].pending = {}
      BY ErrorInv DEF Inv, Phases
    <3> QED
      BY <1>10, <1>11, <3>1 DEF LeftOpen
  <2> QED
    BY <2>1 DEF Untouched
<1>12. ASSUME Alone(s), AfterError(s) = "rolling back" PROVE Alone(s)'
  <2>1. next[s] # 1 /\ Kind[s] = "managed"
    BY <1>4, <1>12
  <2>2. OpenHere(c, s)'
    BY <1>1, <1>2, <1>3, <1>5, <1>6, <1>9, <1>10, <1>12, <2>1
       DEF OpenHere, LeftOpen
  <2> QED
    BY <1>1, <1>7, <1>8, <1>12, <2>1, <2>2 DEF Alone
<1>13. \A t \in Tasks : Alone(t) => t = s
  BY <1>2 DEF Alone
<1>14. LoneInv'
  <2> SUFFICES ASSUME NEW t \in Tasks
               PROVE  /\ at'[t] = "waiting" => Unwritten(t)' /\ Untouched(t)'
                      /\ t \notin disturbed' =>
                            /\ t \in Active' => Alone(t)'
                            /\ at'[t] = "done" => WritesOf(t) \subseteq writes'
                            /\ at'[t] = "failed" => Unwritten(t)' /\ Untouched(t)'
    BY DEF LoneInv
  <2>1. CASE t # s
    BY <1>1, <1>2, <1>3, <1>7, <1>8, <1>13, <2>1 DEF LoneInv
  <2>2. CASE t = s
    <3>1. at'[s] = AfterError(s) /\ disturbed' = disturbed
      BY <1>1, <1>2, <1>3
    <3>2. s \notin disturbed => Alone(s) /\ Unwritten(s)
      BY <1>2 DEF LoneInv, Alone
    <3> QED
      BY <1>4, <1>7, <1>8, <1>11, <1>12, <2>2, <3>1, <3>2
  <2> QED
    BY <2>1, <2>2
<1>15. LeakInv'
  <2> SUFFICES ASSUME disturbed = {}
               PROVE  LeakInv'
    BY <1>1 DEF LeakInv
  <2>1. Alone(s)
    BY <1>2 DEF LoneInv
  <2>2. ASSUME NEW d \in Connections, session'[d].state = "aborted"
        PROVE  \/ \E b \in Tasks : Kind[b] = "batch" /\ at'[b] = "failed"
               \/ \E t \in Tasks : at'[t] = "rolling back" /\ Home(d, t)'
    <3>1. CASE session'[d] = session[d]
      <4>1. \A t \in Tasks : at[t] # "rolling back"
        BY <1>3, <2>1 DEF Alone, Active
      <4>2. PICK b \in Tasks : Kind[b] = "batch" /\ at[b] = "failed"
        BY <2>2, <3>1, <4>1 DEF LeakInv
      <4> QED
        BY <1>1, <1>3, <4>2
    <3>2. CASE d = c /\ session[c].state = "transaction"
      <4>1. next[s] # 1
        BY <2>1, <3>2 DEF Alone, LeftOpen
      <4>2. Kind[s] \in {"managed", "batch"}
        <5>1. next[s] \in {1, 2, 3, 4} /\ next[s] # 1
          BY <1>3, <4>1
        <5>2. next[s] > 1
          BY <5>1
        <5> QED
          BY <5>2, KindAssumption DEF Inv, Phases
      <4> QED
        BY <1>1, <1>2, <1>3, <1>4, <1>5, <3>2, <4>1, <4>2
    <3> QED
      BY <1>6, <3>1, <3>2
  <2> QED
    BY <1>10, <2>1, <2>2 DEF LeakInv
<1> QED
  BY <1>14, <1>15

LEMMA SucceedLone ==
    ASSUME Inv, LoneInv, LeakInv, NEW c \in Connections, Succeed(c) PROVE LoneInv' /\ LeakInv'
<1> PICK s \in Tasks : s = user[c]
  BY DEF Succeed, Inv, Types
<1>1. /\ Release(c) /\ at' = [at EXCEPT ![s] = AfterSuccess(s)] /\ user[c] # Nobody
      /\ next' = IF AfterSuccess(s) = "running" THEN [next EXCEPT ![s] = @ + 1] ELSE next
      /\ UNCHANGED disturbed /\ Perform(c, s)
      /\ session[c].state = "aborted" => Statement(s) \in {"COMMIT", "ROLLBACK"}
  BY DEF Succeed
<1>2. /\ s \in Active /\ \A d \in Connections : Home(d, s) <=> d = c
      /\ session[c].state # "closed"
  BY <1>1, OnlyHome DEF Inv, PoolInv, UserInv
<1>3. /\ at \in [Tasks -> {"waiting", "running", "rolling back"} \cup Ended]
      /\ next \in [Tasks -> 1..4]
      /\ \A d \in Connections : session[d].state # "transaction" => session[d].pending = {}
  BY DEF Inv, Types, Phases
<1>4. next[s] \in {1, 2, 3, 4} /\ at[s] \in {"running", "rolling back"}
  BY <1>2, StatementOf
<1>5. \A d \in Connections : Home(d, s)' <=> d = c
  BY <1>1, <1>2, HomeReturned
<1>6. /\ AfterSuccess(s) \in {"running", "done", "failed"}
      /\ at'[s] = AfterSuccess(s) /\ \A t \in Tasks \ {s} : at'[t] = at[t] /\ next'[t] = next[t]
  BY <1>1, <1>2, <1>3, StatementOf
<1>7. Active' = IF AfterSuccess(s) \in Ended THEN Active \ {s} ELSE Active
  BY <1>2, <1>3, <1>4, <1>6 DEF Active, Ended
<1>8. \A d \in Connections \ {c} : session'[d] = session[d]
  BY <1>1, <1>2, PerformFacts
<1>9. session'[c].state \in {"transaction", "autocommit"}
  BY <1>1, <1>2, PerformFacts DEF Fresh
<1>10. /\ \A p \in writes' : p \in writes \/ p \in session[c].pending \/ p = <<s, next[s]>>
       /\ \A p \in session'[c].pending : p \in session[c].pending \/ p = <<s, next[s]>>
       /\ writes \subseteq writes'
  <2>1. Fresh.pending = {}
    BY DEF Fresh
  <2> QED
    BY <1>1, <1>2, <2>1, PerformFacts
<1>11. ASSUME NEW t \in Tasks \ {s}, Untouched(t)
       PROVE  Untouched(t)' /\ (Unwritten(t) => Unwritten(t)')
  <2>1. \A k \in Nat : <<t, k>> # <<s, next[s]>>
    BY <1>11
  <2>2. Untouched(t)'
    BY <1>8, <1>10, <1>11, <2>1 DEF Untouched
  <2>3. Unwritten(t) => Unwritten(t)'
    BY <1>10, <1>11, <2>1 DEF Untouched, Unwritten
  <2> QED
    BY <2>2, <2>3
<1>12. ASSUME Alone(s), next[s] # 1
       PROVE  /\ IF at[s] = "running"
                 THEN session[c].state = "transaction"
                      /\ session[c].pending = {<<s, k>> : k \in 2..(next[s] - 1)}
                 ELSE session[c].state \in {"transaction", "aborted"}
              /\ \A d \in Connections \ {c} : session[d].state # "transaction"
  <2>1. OpenHere(c, s)
    BY <1>2, <1>12 DEF Alone, OpenHere
  <2> QED
    BY <2>1 DEF OpenHere
<1>13. ASSUME Alone(s) PROVE \A d \in Connections \ {c} : session'[d].state # "transaction"
  BY <1>8, <1>12, <1>13 DEF Alone, LeftOpen
<1>14. ASSUME Alone(s), at[s] = "rolling back"
       PROVE  /\ at'[s] = "failed" /\ LeftOpen' = {}
              /\ Unwritten(s)' /\ Untouched(s)'
  <2>1. at'[s] = "failed" /\ session'[c] = Fresh /\ writes' = writes
    BY <1>1, <1>2, <1>6, <1>14, StatementOf, PerformFacts
  <2>2. LeftOpen' = {}
    <3>1. session'[c].state # "transaction"
      BY <2>1 DEF Fresh
    <3> QED
      BY <1>13, <1>14, <3>1 DEF LeftOpen
  <2>3. \A d \in Connections : session'[d].pending = {}
    <3>1. \A d \in Connections : session'[d].state # "transaction" => session'[d].pending = {}
      BY SucceedInv DEF Inv, Phases
    <3> QED
      BY <2>2, <3>1 DEF LeftOpen
  <2> QED
    BY <1>14, <2>1, <2>2, <2>3 DEF Alone, Unwritten, Untouched
<1>15. ASSUME Alone(s), at[s] = "running", Kind[s] = "plain"
       PROVE  at'[s] = "done" /\ LeftOpen' = {} /\ WritesOf(s) \subseteq writes'
  <2>1. at'[s] = "done" /\ next[s] = 1 /\ Statement(s) = "write"
    BY <1>2, <1>6, <1>15, StatementOf
  <2>2. LeftOpen = {}
    BY <1>15, <2>1 DEF Alone
  <2>3. session' = session /\ writes' = writes \cup {<<s, 1>>}
    BY <1>1, <1>2, <2>1, <2>2, PerformFacts DEF LeftOpen
  <2> QED
    BY <1>15, <2>1, <2>2, <2>3, StatementFacts DEF LeftOpen
<1>16. ASSUME Alone(s), at[s] = "running", Kind[s] # "plain", next[s] # 4
       PROVE  at'[s] = "running" /\ Alone(s)'
  <2>1. /\ at'[s] = "running" /\ next'[s] = next[s] + 1 /\ AfterSuccess(s) = "running"
        /\ next[s] = 1 => Statement(s) = "BEGIN"
        /\ next[s] # 1 => Statement(s) = "write"
    BY <1>1, <1>2, <1>3, <1>4, <1>6, <1>16, StatementOf
  <2>2. next'[s] # 1 /\ 2..(next'[s] - 1) = IF next[s] = 1 THEN {} ELSE 2..(next[s] - 1) \cup {next[s]}
    <3>1. next[s] \in {1, 2, 3, 4} /\ next'[s] = next[s] + 1
      BY <1>4, <2>1
    <3>2. ASSUME NEW n \in {1, 2, 3, 4}
          PROVE  /\ n + 1 # 1
                 /\ 2..((n + 1) - 1) = IF n = 1 THEN {} ELSE 2..(n - 1) \cup {n}
      <4>1. n + 1 # 1 /\ (n + 1) - 1 = n /\ n \in Nat /\ n > 0
        BY <3>2
      <4>2. CASE n = 1
        BY <4>1, <4>2
      <4>3. CASE n # 1
        <5>1. \A k : k \in 2..n <=> k \in 2..(n - 1) \/ k = n
          BY <4>1, <4>3
        <5>2. 2..n = 2..(n - 1) \cup {n}
          BY <5>1
        <5> QED
          BY <4>1, <4>3, <5>2
      <4> QED
        BY <4>2, <4>3
    <3> QED
      BY <3>1, <3>2
  <2>3. /\ session'[c].state = "transaction" /\ writes' = writes
        /\ session'[c].pending = {<<s, k>> : k \in 2..(next'[s] - 1)}
    <3>1. CASE next[s] = 1
      <4>1. session[c].pending = {}
        BY <1>3, <1>16, <3>1 DEF Alone, LeftOpen
      <4>2. session'[c].state = "transaction" /\ writes' = writes /\ session'[c].pending = {}
        BY <1>1, <1>2, <2>1, <3>1, <4>1, PerformFacts
      <4> QED
        BY <2>2, <3>1, <4>2
    <3>2. CASE next[s] # 1
      <4>1. session[c].state = "transaction"
            /\ session[c].pending = {<<s, k>> : k \in 2..(next[s] - 1)}
        BY <1>12, <1>16, <3>2
      <4>2. /\ session'[c].state = "transaction" /\ writes' = writes
            /\ session'[c].pending = session[c].pending \cup {<<s, next[s]>>}
        BY <1>1, <1>2, <2>1, <3>2, <4>1, PerformFacts
      <4> QED
        BY <2>2, <3>2, <4>1, <4>2
    <3> QED
      BY <3>1, <3>2
  <2>4. OpenHere(c, s)'
    BY <1>5, <1>13, <1>16, <2>1, <2>3 DEF OpenHere
  <2>5. Active' = {s} /\ Unwritten(s)'
    BY <1>7, <1>16, <2>1, <2>3 DEF Alone, Ended, Unwritten
  <2> QED
    BY <2>1, <2>2, <2>4, <2>5 DEF Alone
<1>17. ASSUME Alone(s), at[s] = "running", Kind[s] # "plain", next[s] = 4
       PROVE  at'[s] = "done" /\ LeftOpen' = {} /\ WritesOf(s) \subseteq writes'
  <2>1. at'[s] = "done" /\ Statement(s) = "COMMIT"
    BY <1>2, <1>6, <1>17, StatementOf
  <2>2. session[c].pending = {<<s, k>> : k \in 2..(next[s] - 1)}
    BY <1>12, <1>17
  <2>3. session'[c] = Fresh /\ writes' = writes \cup session[c].pending
    BY <1>1, <1>2, <2>1, PerformFacts
  <2>4. LeftOpen' = {}
    BY <1>13, <1>17, <2>3 DEF LeftOpen, Fresh
  <2>5. WritesOf(s) = {<<s, 2>>, <<s, 3>>}
    BY <1>17, StatementFacts
  <2>6. 2 \in 2..(next[s] - 1) /\ 3 \in 2..(next[s] - 1)
    <3>1. next[s] = 4
      BY <1>17
    <3> QED
      BY <3>1
  <2> QED
    BY <2>1, <2>2, <2>3, <2>4, <2>5, <2>6
<1>18. LoneInv'
  <2> SUFFICES ASSUME NEW t \in Tasks
               PROVE  /\ at'[t] = "waiting" => Unwritten(t)' /\ Untouched(t)'
                      /\ t \notin disturbed' =>
                            /\ t \in Active' => Alone(t)'
                            /\ at'[t] = "done" => WritesOf(t) \subseteq writes'
                            /\ at'[t] = "failed" => Unwritten(t)' /\ Untouched(t)'
    BY DEF LoneInv
  <2>1. CASE t # s
    <3>1. t \notin disturbed => t \notin Active
      BY <1>2, <2>1 DEF LoneInv, Alone
    <3>2. t \notin Active => t \notin Active'
      BY <1>7, <2>1
    <3> QED
      BY <1>1, <1>6, <1>10, <1>11, <2>1, <3>1, <3>2 DEF LoneInv
  <2>2. CASE t = s
    <3>1. s \notin disturbed => Alone(s)
      BY <1>2 DEF LoneInv
    <3>2. at'[s] # "waiting"
      BY <1>6
    <3>3. CASE s \in disturbed
      BY <1>1, <2>2, <3>2, <3>3
    <3>4. CASE Alone(s) /\ at[s] = "rolling back"
      BY <1>7, <1>14, <2>2, <3>4 DEF Active
    <3>5. CASE Alone(s) /\ at'[s] = "done" /\ WritesOf(s) \subseteq writes'
      BY <2>2, <3>5 DEF Active
    <3>6. CASE Alone(s) /\ at'[s] = "running" /\ Alone(s)'
      BY <2>2, <3>6
    <3> QED
      BY <1>4, <1>15, <1>16, <1>17, <3>1, <3>3, <3>4, <3>5, <3>6
  <2> QED
    BY <2>1, <2>2
<1>19. LeakInv'
  <2> SUFFICES ASSUME disturbed = {} PROVE LeakInv'
    BY <1>1 DEF LeakInv
  <2>1. Alone(s)
    BY <1>2 DEF LoneInv
  <2>2. Active' = {} => LeftOpen' = {}
    <3>1. at'[s] = "running" => s \in Active'
      BY <1>2, <1>6, <1>7 DEF Ended
    <3> QED
      BY <1>4, <1>14, <1>15, <1>16, <1>17, <2>1, <3>1
  <2>3. ASSUME NEW d \in Connections, session'[d].state = "aborted"
        PROVE  \E b \in Tasks : Kind[b] = "batch" /\ at'[b] = "failed"
    <3>1. d # c /\ session[d].state = "aborted"
      BY <1>8, <1>9, <2>3
    <3>2. \A t \in Tasks : at[t] = "rolling back" => ~Home(d, t)
      BY <1>2, <2>1, <3>1 DEF Alone, Active
    <3>3. PICK b \in Tasks : Kind[b] = "batch" /\ at[b] = "failed"
      BY <3>1, <3>2 DEF LeakInv
    <3> QED
      BY <1>4, <1>6, <3>3
  <2> QED
    BY <2>2, <2>3 DEF LeakInv
<1> QED
  BY <1>18, <1>19

LEMMA StepLone == Inv /\ LoneInv /\ LeakInv /\ [Next]_vars => LoneInv' /\ LeakInv'
<1> SUFFICES ASSUME Inv, LoneInv, LeakInv, [Next]_vars PROVE LoneInv' /\ LeakInv'
  OBVIOUS
<1>1. CASE Next
  BY <1>1, StartLone, ConnectLone, ThrowLone, GrantIdleLone, GrantNewLone,
     SucceedLone,
     ErrorLone, TimeoutLone DEF Next
<1>2. CASE UNCHANGED vars
  <2>1. UNCHANGED <<at, next, idle, user, session, writes, disturbed>>
    BY <1>2 DEF vars, tasks, pool, database
  <2>2. Active' = Active /\ LeftOpen' = LeftOpen
    BY <2>1 DEF Active, LeftOpen
  <2>3. \A t \in Tasks, c \in Connections : Home(c, t)' = Home(c, t)
    BY <2>1 DEF Home, HasConnection
  <2>4. \A t \in Tasks, c \in Connections : OpenHere(c, t)' <=> OpenHere(c, t)
    BY <2>1, <2>3 DEF OpenHere
  <2>5. LoneInv'
    BY <2>1, <2>2, <2>4 DEF LoneInv, Alone, Unwritten, Untouched
  <2>6. LeakInv'
    BY <2>1, <2>2, <2>3 DEF LeakInv
  <2> QED
    BY <2>5, <2>6
<1> QED
  BY <1>1, <1>2

LEMMA Invariants == Spec => [](Inv /\ LoneInv /\ LeakInv)
<1>1. Init => Inv /\ LoneInv /\ LeakInv
  BY InitInv
<1>2. (Inv /\ LoneInv /\ LeakInv) /\ [Next]_vars => (Inv /\ LoneInv /\ LeakInv)'
  BY StepInv, StepLone
<1> QED
  BY <1>1, <1>2, PTL DEF Spec

(* TYPE CORRECTNESS of the state, and of the pool: no task waits for two
   connections or has two, and no connection is idle twice or idle and in use
   (postgres/pg-adapter.ts: execute returns what it has taken). *)
THEOREM PoolIsConsistent == Spec => [](Types /\ PoolInv)
<1>1. Inv => Types /\ PoolInv
  BY DEF Inv
<1> QED
  BY <1>1, Invariants, PTL

(* A task whose statements overlap with no other's, and that no transaction was
   left open for, is atomic, though each statement takes a connection of its
   own (PgAdapter.execute): for any number of tasks and connections. *)
THEOREM LoneTransactionsAreAtomic == Spec => []LoneTasksAreAtomic
<1>1. ASSUME LoneInv PROVE LoneTasksAreAtomic
  <2>1. \A t \in Tasks : Unwritten(t) => WritesOf(t) \cap writes = {}
    <3> SUFFICES ASSUME NEW t \in Tasks, NEW p \in WritesOf(t) PROVE \E k \in Nat : p = <<t, k>>
      BY DEF Unwritten
    <3> QED
      BY StatementFacts, KindAssumption
  <2> QED
    BY <1>1, <2>1 DEF LoneInv, LoneTasksAreAtomic, Atomic
<1> QED
  BY <1>1, Invariants, PTL

(* As long as tasks run one after the other, no transaction is left open on a
   connection of the pool, and a failed one is left there only by the end of an
   index batch, which rolls nothing back (index-writer.ts: Batch.done). *)
THEOREM OnlyBatchesLeak == Spec => []OnlyBatchesLeakTransactions
<1>1. ASSUME LeakInv PROVE OnlyBatchesLeakTransactions
  BY <1>1 DEF LeakInv, OnlyBatchesLeakTransactions, Active
<1> QED
  BY <1>1, Invariants, PTL
=============================================================================
