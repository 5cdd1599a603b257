----------------------------- MODULE HostProofs -----------------------------
(***************************************************************************)
(* Theorems about what runs in the tab that renders: BrowserQueue,         *)
(* ModuleLoader and ConsumedModules, each for any jobs, modules and import *)
(* graphs.                                                                 *)
(*                                                                         *)
(* The queue: whatever overlaps, a job is in one place until it is         *)
(* settled, and jobs overlap only after two drains have waited for one     *)
(* flush promise.  The loader: no importer drops a dependency, modules run *)
(* after their dependencies, and what fails has a cause.  Its dependency   *)
(* lists: none misses a module unless imports are circular, and the first  *)
(* is exact.                                                               *)
(***************************************************************************)
EXTENDS BrowserQueue, ModuleLoader, ConsumedModules, SequenceLemmas,
        FiniteSetTheorems, TLAPS

(* The state is well typed; a drain has items exactly while it handles them. *)
Drain == [at : {"flushing", "handling", "over"}, awaits : Nat, items : Seq(Jobs)]

TypeInv ==
    /\ jobs \in Seq(Jobs)
    /\ settled \subseteq published /\ published \subseteq Jobs
    /\ drains \in Seq(Drain)
    /\ flush \in 0..Len(drains)
    /\ \A d \in DOMAIN drains : drains[d].at # "handling" <=> drains[d].items = <<>>

(* The jobs array, as place 0, and the items of each drain. *)
Places == 0..Len(drains)
At(p) == IF p = 0 THEN jobs ELSE drains[p].items

(* No job is in two places, or in one place twice. *)
Unique ==
    \A p, q \in Places : \A k \in DOMAIN At(p), l \in DOMAIN At(q) :
        At(p)[k] = At(q)[l] => p = q /\ k = l

(* The jobs in a place are those that were published and are not settled. *)
Held(j) == \E p \in Places : \E k \in DOMAIN At(p) : At(p)[k] = j

HeldInv == \A j \in Jobs : Held(j) <=> j \in published \ settled

(* As long as no two drains await the same promise, those that wait do so for
   the last drain that has begun, and no other runs. *)
SerialInv ==
    (\A d, e \in DOMAIN drains : drains[d].awaits = drains[e].awaits => d = e) =>
        \A d \in DOMAIN drains :
            /\ drains[d].at = "flushing" => drains[d].awaits = flush
            /\ drains[d].at = "handling" => d = flush

Inv == TypeInv /\ Unique /\ HeldInv /\ SerialInv

-----------------------------------------------------------------------------
(* Up to the k-th, items go to the queue, behind q; the others are left. *)
SplitsAt(k, d, items, q) ==
    /\ jobs' \in Seq(Jobs) /\ Len(jobs') = Len(q) + (k - 1)
    /\ \A i \in 1..Len(q) : jobs'[i] = q[i]
    /\ \A i \in 1..(k - 1) : jobs'[Len(q) + i] = items[i]
    /\ Len(drains') = Len(drains) /\ DOMAIN drains' = DOMAIN drains
    /\ \A e \in DOMAIN drains \ {d} : drains'[e] = drains[e]
    /\ drains'[d].awaits = drains[d].awaits
    /\ drains'[d].items \in Seq(Jobs)
    /\ Len(drains'[d].items) = Len(items) - k + 1
    /\ \A i \in 1..(Len(items) - k + 1) : drains'[d].items[i] = items[k + i - 1]
    /\ drains'[d].at = IF drains'[d].items = <<>> THEN "over" ELSE "handling"
    /\ drains' \in Seq(Drain)

(* The first job that has a handler is the first that does not go back. *)
LEMMA HandleNextFacts ==
    ASSUME TypeInv, NEW d \in DOMAIN drains, NEW items \in Seq(Jobs), NEW q \in Seq(Jobs),
           HandleNext(d, items, q)
    PROVE  \E k \in 1..(Len(items) + 1) : SplitsAt(k, d, items, q)
<1> DEFINE HasHandler(n) == Type[items[n]] \in types
           k == IF \E n \in DOMAIN items : HasHandler(n)
                THEN CHOOSE n \in DOMAIN items :
                         HasHandler(n) /\ \A i \in 1..(n - 1) : ~HasHandler(i)
                ELSE Len(items) + 1
           rest == SubSeq(items, k, Len(items))
           back == SubSeq(items, 1, k - 1)
<1>1. Len(items) \in Nat /\ DOMAIN items = 1..Len(items)
  BY LenProperties
<1>2. k \in 1..(Len(items) + 1)
  <2> HIDE DEF HasHandler
  <2>1. CASE \E n \in DOMAIN items : HasHandler(n)
    <3> DEFINE T == {n \in DOMAIN items : HasHandler(n)}
    <3>1. T \subseteq Nat /\ T # {}
      BY <1>1, <2>1
    <3>2. PICK n \in T : \A m \in T : n <= m
      BY <3>1, Smallest
    <3>3. \A i \in 1..(n - 1) : i \in DOMAIN items /\ ~(n <= i)
      BY <1>1, <3>2
    <3>4. n \in DOMAIN items /\ HasHandler(n) /\ \A i \in 1..(n - 1) : ~HasHandler(i)
      BY <3>2, <3>3
    <3>5. k \in DOMAIN items
      BY <2>1, <3>4, Zenon
    <3> QED
      BY <1>1, <3>5
  <2>2. CASE ~\E n \in DOMAIN items : HasHandler(n)
    BY <1>1, <2>2
  <2> QED
    BY <2>1, <2>2
<1>3. /\ drains' = [drains EXCEPT ![d].items = rest,
                                  ![d].at = IF rest = <<>> THEN "over" ELSE "handling"]
      /\ jobs' = q \o back
  BY Zenon DEF HandleNext
<1> HIDE DEF k
<1>4. /\ back \in Seq(Jobs) /\ Len(back) = k - 1
      /\ \A i \in 1..(k - 1) : back[i] = items[i]
      /\ rest \in Seq(Jobs) /\ Len(rest) = Len(items) - k + 1
      /\ \A i \in 1..(Len(items) - k + 1) : rest[i] = items[k + i - 1]
  <2> PICK n : n = k
    OBVIOUS
  <2> HIDE DEF HasHandler
  <2>1. n \in 1..(Len(items) + 1)
    BY <1>2
  <2>2. /\ SubSeq(items, 1, n - 1) \in Seq(Jobs) /\ Len(SubSeq(items, 1, n - 1)) = n - 1
        /\ \A i \in 1..(n - 1) : SubSeq(items, 1, n - 1)[i] = items[i]
        /\ SubSeq(items, n, Len(items)) \in Seq(Jobs)
        /\ Len(SubSeq(items, n, Len(items))) = Len(items) - n + 1
        /\ \A i \in 1..(Len(items) - n + 1) : SubSeq(items, n, Len(items))[i] = items[n + i - 1]
    BY <2>1, SplitFacts, ZenonT(60)
  <2> QED
    BY <2>2
<1> HIDE DEF rest, back
<1>5. /\ jobs' \in Seq(Jobs) /\ Len(jobs') = Len(q) + Len(back)
      /\ \A i \in 1..Len(q) : jobs'[i] = q[i]
      /\ \A i \in 1..Len(back) : jobs'[Len(q) + i] = back[i]
  <2> DEFINE c == q \o back
  <2>1. /\ c \in Seq(Jobs) /\ Len(c) = Len(q) + Len(back)
        /\ \A i \in 1..Len(q) : c[i] = q[i]
        /\ \A i \in 1..Len(back) : c[Len(q) + i] = back[i]
    <3>1. back \in Seq(Jobs)
      BY <1>4
    <3> QED
      BY <3>1, ConcatFacts
  <2>2. jobs' = c
    BY <1>3
  <2> HIDE DEF c
  <2> QED
    BY <2>1, <2>2
<1> DEFINE r == [drains[d] EXCEPT !.items = rest,
                                  !.at = IF rest = <<>> THEN "over" ELSE "handling"]
<1>6. drains \in Seq(Drain) /\ drains[d] \in Drain /\ d \in 1..Len(drains)
  <2>1. drains \in Seq(Drain)
    BY DEF TypeInv
  <2>2. d \in 1..Len(drains)
    BY <2>1, LenProperties
  <2> QED
    BY <2>1, <2>2, ElementOfSeq
<1>7. drains' = [drains EXCEPT ![d] = r]
  BY <1>3, <1>6 DEF Drain
<1>8. /\ r \in Drain /\ r.items = rest /\ r.awaits = drains[d].awaits
      /\ r.at = IF rest = <<>> THEN "over" ELSE "handling"
  BY <1>4, <1>6 DEF Drain
<1> HIDE DEF r
<1>9. /\ drains' \in Seq(Drain) /\ Len(drains') = Len(drains)
      /\ DOMAIN drains' = DOMAIN drains /\ drains'[d] = r
      /\ \A e \in DOMAIN drains \ {d} : drains'[e] = drains[e]
  <2>1. drains' \in Seq(Drain) /\ Len(drains') = Len(drains)
        /\ \A i \in 1..Len(drains) : drains'[i] = IF i = d THEN r ELSE drains[i]
    BY <1>6, <1>7, <1>8, ExceptSeq
  <2>2. DOMAIN drains = 1..Len(drains) /\ DOMAIN drains' = 1..Len(drains)
    BY <1>6, <2>1, LenProperties
  <2> QED
    BY <1>6, <2>1, <2>2
<1>10. SplitsAt(k, d, items, q)
  <2>1. /\ jobs' \in Seq(Jobs) /\ Len(jobs') = Len(q) + (k - 1)
        /\ \A i \in 1..Len(q) : jobs'[i] = q[i]
        /\ \A i \in 1..(k - 1) : jobs'[Len(q) + i] = items[i]
    BY <1>4, <1>5
  <2>2. /\ drains'[d].awaits = drains[d].awaits /\ drains'[d].items = rest
        /\ drains'[d].at = IF rest = <<>> THEN "over" ELSE "handling"
    BY <1>8, <1>9
  <2> QED
    BY <1>4, <1>9, <2>1, <2>2 DEF SplitsAt
<1> QED
  BY <1>2, <1>10

LEMMA TypeFacts ==
    ASSUME TypeInv
    PROVE  /\ drains \in Seq(Drain) /\ Len(drains) \in Nat /\ DOMAIN drains = 1..Len(drains)
           /\ \A d \in DOMAIN drains : drains[d] \in Drain
           /\ Len(jobs) \in Nat /\ DOMAIN jobs = 1..Len(jobs)
           /\ \A d \in DOMAIN drains : /\ Len(drains[d].items) \in Nat
                                       /\ DOMAIN drains[d].items = 1..Len(drains[d].items)
<1>1. drains \in Seq(Drain) /\ jobs \in Seq(Jobs)
  BY DEF TypeInv
<1>2. Len(drains) \in Nat /\ DOMAIN drains = 1..Len(drains)
      /\ Len(jobs) \in Nat /\ DOMAIN jobs = 1..Len(jobs)
  BY <1>1, LenProperties, Zenon
<1>3. \A d \in 1..Len(drains) : drains[d] \in Drain
  BY <1>1, ElementOfSeq, Zenon
<1>4. ASSUME NEW d \in DOMAIN drains
      PROVE  Len(drains[d].items) \in Nat /\ DOMAIN drains[d].items = 1..Len(drains[d].items)
  <2>1. drains[d].items \in Seq(Jobs)
    BY <1>2, <1>3 DEF Drain
  <2> QED
    BY <2>1, LenProperties, Zenon
<1> QED
  BY <1>1, <1>2, <1>3, <1>4

LEMMA InitInv == Init => Inv
<1> SUFFICES ASSUME Init PROVE Inv
  OBVIOUS
<1>1. /\ jobs = <<>> /\ drains = <<>> /\ flush = 0 /\ settled = {} /\ published = {}
      /\ Len(drains) = 0 /\ DOMAIN drains = {} /\ DOMAIN jobs = {}
      /\ jobs \in Seq(Jobs) /\ drains \in Seq(Drain)
  BY EmptySeq, LenProperties DEF Init
<1>2. TypeInv /\ SerialInv
  BY <1>1 DEF TypeInv, SerialInv
<1>3. Places = {0} /\ DOMAIN At(0) = {}
  BY <1>1 DEF Places, At
<1>4. Unique /\ HeldInv
  BY <1>1, <1>3 DEF Unique, HeldInv, Held
<1> QED
  BY <1>2, <1>4 DEF Inv

LEMMA PublishInv == ASSUME Inv, NEW j \in Jobs, Publish(j) PROVE Inv'
<1>1. /\ jobs' = Append(jobs, j) /\ j \notin published /\ published' = published \cup {j}
      /\ UNCHANGED <<settled, drains, flush>>
  BY DEF Publish
<1>2. TypeInv /\ jobs \in Seq(Jobs)
  BY DEF Inv, TypeInv
<1>3. /\ jobs' \in Seq(Jobs) /\ DOMAIN jobs' = 1..(Len(jobs) + 1)
      /\ Len(jobs) \in Nat /\ DOMAIN jobs = 1..Len(jobs)
      /\ \A i \in 1..Len(jobs) : jobs'[i] = jobs[i]
      /\ jobs'[Len(jobs) + 1] = j
  <2> DEFINE a == Append(jobs, j)
  <2>1. /\ a \in Seq(Jobs) /\ DOMAIN a = 1..(Len(jobs) + 1)
        /\ Len(jobs) \in Nat /\ DOMAIN jobs = 1..Len(jobs)
        /\ \A i \in 1..Len(jobs) : a[i] = jobs[i]
        /\ a[Len(jobs) + 1] = j
    BY <1>2, AppendFacts
  <2>2. jobs' = a
    BY <1>1
  <2> HIDE DEF a
  <2> QED
    BY <2>1, <2>2
<1>4. TypeInv' /\ SerialInv'
  BY <1>1, <1>3 DEF Inv, TypeInv, SerialInv
<1> DEFINE n == Len(jobs) + 1
<1>5. /\ Places' = Places /\ 0 \in Places
      /\ \A p \in Places \ {0} : At(p)' = At(p)
      /\ DOMAIN At(0)' = DOMAIN At(0) \cup {n} /\ n \notin DOMAIN At(0)
      /\ At(0)'[n] = j /\ \A k \in DOMAIN At(0) : At(0)'[k] = At(0)[k]
  BY <1>1, <1>2, <1>3, TypeFacts DEF Places, At
<1> HIDE DEF n
<1>6. ~Held(j)
  BY <1>1 DEF Inv, HeldInv
<1>7. Unique'
  BY <1>5, <1>6 DEF Inv, Unique, Held
<1>8. HeldInv'
  BY <1>1, <1>5, <1>6, SMTT(60) DEF Inv, HeldInv, Held, TypeInv
<1> QED
  BY <1>4, <1>7, <1>8 DEF Inv

LEMMA FireInv == ASSUME Inv, Fire PROVE Inv'
<1> DEFINE r == [at |-> "flushing", awaits |-> flush, items |-> <<>>]
<1> PICK n : n = Len(drains) + 1
  OBVIOUS
<1>1. drains' = Append(drains, r) /\ UNCHANGED <<jobs, settled, published, flush>>
  BY DEF Fire
<1>2. /\ TypeInv /\ drains \in Seq(Drain) /\ Len(drains) \in Nat /\ flush \in 0..Len(drains)
      /\ DOMAIN drains = 1..Len(drains)
  BY TypeFacts DEF Inv, TypeInv
<1>3. r \in Drain /\ r.at = "flushing" /\ r.awaits = flush /\ r.items = <<>>
  BY <1>2 DEF Drain
<1> HIDE DEF r
<1>4. /\ drains' \in Seq(Drain) /\ Len(drains') = Len(drains) + 1
      /\ DOMAIN drains' = 1..(Len(drains) + 1)
      /\ \A i \in 1..Len(drains) : drains'[i] = drains[i]
      /\ drains'[Len(drains) + 1] = r
  <2> DEFINE a == Append(drains, r)
  <2>1. /\ a \in Seq(Drain) /\ DOMAIN a = 1..(Len(drains) + 1)
        /\ \A i \in 1..Len(drains) : a[i] = drains[i]
        /\ a[Len(drains) + 1] = r /\ Len(a) = Len(drains) + 1
    BY <1>2, <1>3, AppendProperties, AppendFacts
  <2>2. drains' = a
    BY <1>1
  <2> HIDE DEF a
  <2> QED
    BY <2>1, <2>2
<1>5. /\ n \notin DOMAIN drains /\ DOMAIN drains' = DOMAIN drains \cup {n}
      /\ drains'[n] = r /\ \A d \in DOMAIN drains : drains'[d] = drains[d]
      /\ n \notin Places /\ Places' = Places \cup {n} /\ n # 0
  BY <1>2, <1>4 DEF Places
<1>6. TypeInv'
  <2>1. flush' \in 0..Len(drains')
    BY <1>1, <1>2, <1>4
  <2> QED
    BY <1>1, <1>3, <1>4, <1>5, <2>1 DEF Inv, TypeInv
<1>7. SerialInv'
  BY <1>1, <1>3, <1>5 DEF Inv, SerialInv
<1>8. DOMAIN At(n)' = {} /\ \A p \in Places : At(p)' = At(p)
  <2>1. DOMAIN r.items = {}
    BY <1>3
  <2>2. \A p \in Places \ {0} : p \in DOMAIN drains
    BY <1>2 DEF Places
  <2> QED
    BY <1>1, <1>5, <2>1, <2>2 DEF At
<1>9. Unique'
  BY <1>5, <1>8 DEF Inv, Unique
<1>10. HeldInv'
  <2>1. \A j \in Jobs : Held(j)' <=> Held(j)
    BY <1>5, <1>8 DEF Held
  <2> QED
    BY <1>1, <2>1 DEF Inv, HeldInv
<1> QED
  BY <1>6, <1>7, <1>9, <1>10 DEF Inv

LEMMA BeginDrainInv == ASSUME Inv, NEW d \in DOMAIN drains, BeginDrain(d) PROVE Inv'
<1>1. /\ HandleNext(d, jobs, <<>>) /\ flush' = d /\ drains[d].at = "flushing"
      /\ drains[d].awaits # 0 => drains[drains[d].awaits].at = "over"
      /\ UNCHANGED <<settled, published>>
  BY DEF BeginDrain, Flushed
<1>2. /\ TypeInv /\ jobs \in Seq(Jobs) /\ Len(jobs) \in Nat /\ DOMAIN jobs = 1..Len(jobs)
      /\ Len(drains) \in Nat /\ DOMAIN drains = 1..Len(drains)
      /\ drains[d].items = <<>> /\ d # 0
  BY <1>1, TypeFacts DEF Inv, TypeInv
<1>3. <<>> \in Seq(Jobs) /\ Len(<<>>) = 0 /\ DOMAIN <<>> = {}
  BY EmptySeq
<1>k. PICK k \in 1..(Len(jobs) + 1) : SplitsAt(k, d, jobs, <<>>)
  BY <1>1, <1>2, <1>3, HandleNextFacts
<1>4. /\ jobs' \in Seq(Jobs) /\ Len(jobs') = Len(<<>>) + (k - 1)
      /\ \A i \in 1..Len(<<>>) : jobs'[i] = <<>>[i]
      /\ \A i \in 1..(k - 1) : jobs'[Len(<<>>) + i] = jobs[i]
      /\ Len(drains') = Len(drains) /\ DOMAIN drains' = DOMAIN drains
      /\ \A e \in DOMAIN drains \ {d} : drains'[e] = drains[e]
      /\ drains'[d].awaits = drains[d].awaits
      /\ drains'[d].items \in Seq(Jobs)
      /\ Len(drains'[d].items) = Len(jobs) - k + 1
      /\ \A i \in 1..(Len(jobs) - k + 1) : drains'[d].items[i] = jobs[k + i - 1]
      /\ drains'[d].at = IF drains'[d].items = <<>> THEN "over" ELSE "handling"
      /\ drains' \in Seq(Drain)
  BY <1>k DEF SplitsAt
<1>5. /\ DOMAIN jobs' = 1..(k - 1) /\ \A i \in 1..(k - 1) : jobs'[i] = jobs[i]
      /\ DOMAIN drains'[d].items = 1..(Len(jobs) - k + 1)
  <2>1. DOMAIN jobs' = 1..Len(jobs') /\ DOMAIN drains'[d].items = 1..Len(drains'[d].items)
    BY <1>4, LenProperties, Zenon
  <2>2. Len(jobs') = k - 1 /\ \A i \in 1..(k - 1) : 0 + i = i
    BY <1>3, <1>4
  <2> QED
    BY <1>3, <1>4, <2>1, <2>2
<1>6. TypeInv'
  <2>1. flush' \in 0..Len(drains')
    BY <1>1, <1>2, <1>4
  <2>2. \A e \in DOMAIN drains' : drains'[e].at # "handling" <=> drains'[e].items = <<>>
    BY <1>4, SMTT(60) DEF Inv, TypeInv
  <2> QED
    BY <1>1, <1>4, <2>1, <2>2 DEF Inv, TypeInv
<1>7. /\ Places' = Places /\ 0 \in Places /\ d \in Places
      /\ At(0)' = jobs' /\ At(0) = jobs /\ At(d)' = drains'[d].items /\ At(d) = <<>>
      /\ \A p \in Places \ {0, d} : At(p)' = At(p)
  BY <1>2, <1>4, SMTT(60) DEF Places, At
<1>8. ASSUME NEW i \in DOMAIN At(d)'
      PROVE  k + i - 1 \in DOMAIN jobs /\ jobs[k + i - 1] = At(d)'[i]
  <2>1. i \in 1..(Len(jobs) - k + 1) /\ Len(jobs) \in Nat
    BY <1>2, <1>5, <1>7, <1>8
  <2>2. k + i - 1 \in 1..Len(jobs)
    BY <2>1
  <2> QED
    BY <1>2, <1>4, <1>7, <2>1, <2>2
<1>9. Unique'
  <2> DEFINE wp(p, i) == IF p = d THEN 0 ELSE p
             wi(p, i) == IF p = d THEN k + i - 1 ELSE i
  <2>1. ASSUME NEW p \in Places, NEW i \in DOMAIN At(p)'
        PROVE  /\ wp(p, i) \in Places /\ wi(p, i) \in DOMAIN At(wp(p, i))
               /\ At(p)'[i] = At(wp(p, i))[wi(p, i)]
    <3>1. CASE p = 0
      <4>1. d # 0 /\ i \in 1..(k - 1) /\ i \in DOMAIN jobs
        BY <1>2, <1>3, <1>5, <1>7, <2>1, <3>1
      <4>2. wp(p, i) = 0 /\ wi(p, i) = i
        BY <3>1, <4>1
      <4> HIDE DEF wp, wi
      <4>3. At(p)'[i] = jobs[i] /\ At(wp(p, i)) = jobs
        BY <1>5, <1>7, <3>1, <4>1, <4>2
      <4> QED
        BY <1>7, <4>1, <4>2, <4>3
    <3>2. CASE p = d
      BY <1>2, <1>7, <1>8, <2>1, <3>2
    <3>3. CASE p \notin {0, d}
      BY <1>7, <2>1, <3>3
    <3> QED
      BY <3>1, <3>2, <3>3
  <2>2. ASSUME NEW p \in Places, NEW i \in DOMAIN At(p)', NEW q \in Places, NEW l \in DOMAIN At(q)',
               wp(p, i) = wp(q, l), wi(p, i) = wi(q, l)
        PROVE  p = q /\ i = l
    <3>1. /\ p = 0 => i \in 1..(k - 1)
          /\ q = 0 => l \in 1..(k - 1)
          /\ p = d => i \in 1..(Len(jobs) - k + 1)
          /\ q = d => l \in 1..(Len(jobs) - k + 1)
      BY <1>5, <1>7, <2>2
    <3> QED
      BY <1>2, <2>2, <3>1
  <2> HIDE DEF wp, wi
  <2> QED
    BY <1>7, <2>1, <2>2 DEF Inv, Unique
<1>10. HeldInv'
  <2>1. ASSUME NEW p \in Places, NEW i \in DOMAIN At(p)'
        PROVE  \E q \in Places : \E l \in DOMAIN At(q) : At(q)[l] = At(p)'[i]
    <3>1. CASE p = 0
      BY <1>2, <1>5, <1>7, <2>1, <3>1
    <3>2. CASE p = d
      BY <1>7, <1>8, <2>1, <3>2
    <3>3. CASE p \notin {0, d}
      BY <1>7, <2>1, <3>3
    <3> QED
      BY <3>1, <3>2, <3>3
  <2>2. ASSUME NEW p \in Places, NEW i \in DOMAIN At(p)
        PROVE  \E q \in Places : \E l \in DOMAIN At(q)' : At(q)'[l] = At(p)[i]
    <3>1. CASE p = 0 /\ i < k
      <4>1. i \in DOMAIN jobs' /\ jobs'[i] = jobs[i]
        BY <1>2, <1>5, <1>7, <2>2, <3>1
      <4> QED
        BY <1>7, <3>1, <4>1
    <3>2. CASE p = 0 /\ ~(i < k)
      <4> DEFINE n == i - k + 1
      <4>1. n \in 1..(Len(jobs) - k + 1) /\ k + n - 1 = i
        BY <1>2, <1>7, <2>2, <3>2
      <4> HIDE DEF n
      <4>2. n \in DOMAIN drains'[d].items /\ drains'[d].items[n] = jobs[i]
        BY <1>4, <1>5, <4>1
      <4> QED
        BY <1>7, <3>2, <4>2
    <3>3. CASE p = d
      BY <1>3, <1>7, <2>2, <3>3
    <3>4. CASE p \notin {0, d}
      BY <1>7, <2>2, <3>4
    <3> QED
      BY <3>1, <3>2, <3>3, <3>4
  <2>3. \A j \in Jobs : Held(j)' <=> Held(j)
    BY <1>7, <2>1, <2>2 DEF Held
  <2> QED
    BY <1>1, <2>3 DEF Inv, HeldInv
<1>11. SerialInv'
  <2> SUFFICES ASSUME \A c, e \in DOMAIN drains : drains[c].awaits = drains[e].awaits => c = e,
                      NEW e \in DOMAIN drains
               PROVE  /\ drains'[e].at = "flushing" => drains'[e].awaits = d
                      /\ drains'[e].at = "handling" => e = d
    <3>1. \A c \in DOMAIN drains : drains'[c].awaits = drains[c].awaits
      BY <1>4
    <3>2. flush' = d /\ DOMAIN drains' = DOMAIN drains
      BY <1>1, <1>4
    <3> QED
      BY <3>1, <3>2 DEF SerialInv
  <2>1. CASE e = d
    BY <1>4, <2>1
  <2>2. CASE e # d
    <3>1. drains[d].awaits = flush /\ (drains[e].at = "flushing" => drains[e].awaits = flush)
          /\ (drains[e].at = "handling" => e = flush)
      BY <1>1 DEF Inv, SerialInv
    <3>2. e # 0
      BY <1>2
    <3> QED
      BY <1>1, <1>4, <2>2, <3>1, <3>2
  <2> QED
    BY <2>1, <2>2
<1> QED
  BY <1>6, <1>9, <1>10, <1>11 DEF Inv

LEMMA HandlerEndsInv == ASSUME Inv, NEW d \in DOMAIN drains, HandlerEnds(d) PROVE Inv'
<1> DEFINE was == drains[d].items
           items == Tail(was)
<1>1. /\ HandleNext(d, items, jobs) /\ drains[d].at = "handling"
      /\ settled' = settled \cup {Head(was)}
      /\ UNCHANGED <<published, flush>>
  BY DEF HandlerEnds
<1>2. /\ TypeInv /\ jobs \in Seq(Jobs) /\ Len(jobs) \in Nat /\ DOMAIN jobs = 1..Len(jobs)
      /\ Len(drains) \in Nat /\ DOMAIN drains = 1..Len(drains)
      /\ was \in Seq(Jobs) /\ was # <<>> /\ d # 0
  BY <1>1, TypeFacts DEF Inv, TypeInv, Drain
<1>3. /\ items \in Seq(Jobs) /\ Len(items) = Len(was) - 1
      /\ \A i \in 1..(Len(was) - 1) : items[i] = was[i + 1]
      /\ Len(was) \in Nat /\ Len(was) > 0 /\ DOMAIN was = 1..Len(was) /\ 1 \in DOMAIN was
      /\ Head(was) = was[1] /\ was[1] \in Jobs
  <2>1. /\ items \in Seq(Jobs) /\ Len(items) = Len(was) - 1
        /\ \A i \in 1..(Len(was) - 1) : items[i] = was[i + 1]
    BY <1>2, TailFacts
  <2>2. /\ Len(was) \in Nat /\ Len(was) > 0 /\ Head(was) = was[1]
        /\ 1 \in DOMAIN was /\ was[1] \in Jobs
    BY <1>2, NotEmpty, Zenon
  <2>3. DOMAIN was = 1..Len(was)
    BY <1>2, LenProperties, Zenon
  <2> HIDE DEF items
  <2> QED
    BY <2>1, <2>2, <2>3
<1>k. PICK k \in 1..(Len(items) + 1) : SplitsAt(k, d, items, jobs)
  <2> HIDE DEF items
  <2> QED
    BY <1>1, <1>2, <1>3, HandleNextFacts
<1>4. /\ jobs' \in Seq(Jobs) /\ Len(jobs') = Len(jobs) + (k - 1)
      /\ \A i \in 1..Len(jobs) : jobs'[i] = jobs[i]
      /\ \A i \in 1..(k - 1) : jobs'[Len(jobs) + i] = items[i]
      /\ Len(drains') = Len(drains) /\ DOMAIN drains' = DOMAIN drains
      /\ \A e \in DOMAIN drains \ {d} : drains'[e] = drains[e]
      /\ drains'[d].awaits = drains[d].awaits
      /\ drains'[d].items \in Seq(Jobs)
      /\ Len(drains'[d].items) = Len(items) - k + 1
      /\ \A i \in 1..(Len(items) - k + 1) : drains'[d].items[i] = items[k + i - 1]
      /\ drains'[d].at = IF drains'[d].items = <<>> THEN "over" ELSE "handling"
      /\ drains' \in Seq(Drain)
  BY <1>k DEF SplitsAt
<1> PICK n : n = Len(was)
  OBVIOUS
<1> PICK m : m = Len(jobs)
  OBVIOUS
<1> HIDE DEF items
<1>5. n \in Nat /\ n > 0 /\ m \in Nat /\ k \in 1..n
  BY <1>2, <1>3, <1>4
<1>6. /\ DOMAIN jobs = 1..m /\ DOMAIN jobs' = 1..(m + (k - 1))
      /\ \A i \in 1..m : jobs'[i] = jobs[i]
      /\ \A i \in 1..(k - 1) : jobs'[m + i] = was[i + 1]
  <2>1. DOMAIN jobs' = 1..Len(jobs')
    BY <1>4, LenProperties, Zenon
  <2>2. \A i \in 1..(k - 1) : i \in 1..(n - 1)
    BY <1>5
  <2> QED
    BY <1>2, <1>3, <1>4, <2>1, <2>2
<1>7. /\ DOMAIN was = 1..n /\ DOMAIN drains'[d].items = 1..(n - k)
      /\ \A i \in 1..(n - k) : drains'[d].items[i] = was[k + i]
  <2>1. DOMAIN drains'[d].items = 1..Len(drains'[d].items)
    BY <1>4, LenProperties, Zenon
  <2>2. Len(items) - k + 1 = n - k
    BY <1>3, <1>5
  <2>3. \A i \in 1..(n - k) : k + i - 1 \in 1..(n - 1) /\ (k + i - 1) + 1 = k + i
    BY <1>5
  <2>4. ASSUME NEW i \in 1..(n - k) PROVE drains'[d].items[i] = was[k + i]
    <3>1. drains'[d].items[i] = items[k + i - 1]
      BY <1>4, <2>2
    <3>2. items[k + i - 1] = was[(k + i - 1) + 1]
      BY <1>3, <2>3
    <3> QED
      BY <2>3, <3>1, <3>2
  <2> QED
    BY <1>3, <1>4, <2>1, <2>2, <2>4
<1>8. /\ Places' = Places /\ 0 \in Places /\ d \in Places
      /\ At(0)' = jobs' /\ At(0) = jobs /\ At(d)' = drains'[d].items /\ At(d) = was
      /\ \A p \in Places \ {0, d} : At(p)' = At(p)
  <2>1. Places' = Places /\ 0 \in Places /\ d \in Places
        /\ \A p \in Places \ {0} : p \in DOMAIN drains
    BY <1>2, <1>4, SMTT(60) DEF Places
  <2>2. d # 0 /\ \A p \in DOMAIN drains \ {d} : drains'[p] = drains[p]
    BY <1>2, <1>4
  <2> QED
    BY <2>1, <2>2 DEF At
<1>9. TypeInv'
  <2>1. was[1] \in published
    BY <1>3, <1>8 DEF Inv, HeldInv, Held
  <2>2. \A e \in DOMAIN drains' : drains'[e].at # "handling" <=> drains'[e].items = <<>>
    BY <1>4 DEF Inv, TypeInv
  <2>3. settled' \subseteq published' /\ published' \subseteq Jobs
    BY <1>1, <1>3, <2>1 DEF Inv, TypeInv
  <2>4. flush' \in 0..Len(drains')
    BY <1>1, <1>4 DEF Inv, TypeInv
  <2> QED
    BY <1>4, <2>2, <2>3, <2>4 DEF TypeInv
<1>10. SerialInv'
  <2>1. \A e \in DOMAIN drains : /\ drains'[e].awaits = drains[e].awaits
                                 /\ drains'[e].at = "flushing" => drains[e].at = "flushing"
                                 /\ drains'[e].at = "handling" => drains[e].at = "handling"
    BY <1>1, <1>4
  <2>2. flush' = flush /\ DOMAIN drains' = DOMAIN drains
    BY <1>1, <1>4
  <2> QED
    BY <2>1, <2>2 DEF Inv, SerialInv
<1> HIDE DEF was
<1>11. Unique'
  <2> DEFINE wp(p, i) == IF p = 0 /\ i > m THEN d ELSE p
             wi(p, i) == IF p = 0 /\ i > m THEN i - m + 1 ELSE IF p = d THEN k + i ELSE i
  <2>1. ASSUME NEW p \in Places, NEW i \in DOMAIN At(p)'
        PROVE  /\ wp(p, i) \in Places /\ wi(p, i) \in DOMAIN At(wp(p, i))
               /\ At(p)'[i] = At(wp(p, i))[wi(p, i)]
    <3>1. CASE p = 0 /\ i > m
      <4>1. i \in 1..(m + (k - 1))
        BY <1>6, <1>8, <2>1, <3>1
      <4>2. i - m \in 1..(k - 1) /\ m + (i - m) = i /\ i - m + 1 \in 1..n
        BY <1>5, <3>1, <4>1
      <4>3. jobs'[i] = was[i - m + 1]
        BY <1>6, <4>2
      <4> QED
        BY <1>7, <1>8, <3>1, <4>2, <4>3
    <3>2. CASE p = 0 /\ ~(i > m)
      <4>1. i \in 1..m
        BY <1>5, <1>6, <1>8, <2>1, <3>2
      <4> QED
        BY <1>2, <1>6, <1>8, <3>2, <4>1
    <3>3. CASE p = d
      <4>1. i \in 1..(n - k)
        BY <1>7, <1>8, <2>1, <3>3
      <4>2. k + i \in 1..n
        BY <1>5, <4>1
      <4> QED
        BY <1>2, <1>7, <1>8, <3>3, <4>1, <4>2
    <3>4. CASE p \notin {0, d}
      BY <1>8, <2>1, <3>4
    <3> QED
      BY <3>1, <3>2, <3>3, <3>4
  <2>2. ASSUME NEW p \in Places, NEW i \in DOMAIN At(p)', NEW q \in Places, NEW l \in DOMAIN At(q)',
               wp(p, i) = wp(q, l), wi(p, i) = wi(q, l)
        PROVE  p = q /\ i = l
    <3>1. /\ p = 0 => i \in 1..(m + (k - 1))
          /\ q = 0 => l \in 1..(m + (k - 1))
          /\ p = d => i \in 1..(n - k)
          /\ q = d => l \in 1..(n - k)
      BY <1>6, <1>7, <1>8, <2>2
    <3>2. p # 0 => wp(p, i) = p
      OBVIOUS
    <3>3. q # 0 => wp(q, l) = q
      OBVIOUS
    <3> QED
      BY <1>2, <1>5, <2>2, <3>1, SMTT(60)
  <2> HIDE DEF wp, wi
  <2> QED
    BY <1>8, <2>1, <2>2 DEF Inv, Unique
<1>12. HeldInv'
  <2>1. ASSUME NEW p \in Places, NEW i \in DOMAIN At(p)'
        PROVE  \E q \in Places : \E l \in DOMAIN At(q) :
                  At(q)[l] = At(p)'[i] /\ ~(q = d /\ l = 1)
    <3>1. CASE p = 0 /\ i > m
      <4>1. i \in 1..(m + (k - 1))
        BY <1>6, <1>8, <2>1, <3>1
      <4>2. i - m \in 1..(k - 1) /\ m + (i - m) = i /\ i - m + 1 \in 1..n /\ i - m + 1 # 1
        BY <1>5, <3>1, <4>1
      <4>3. jobs'[i] = was[i - m + 1]
        BY <1>6, <4>2
      <4> QED
        BY <1>7, <1>8, <3>1, <4>2, <4>3
    <3>2. CASE p = 0 /\ ~(i > m)
      <4>1. i \in 1..m
        BY <1>5, <1>6, <1>8, <2>1, <3>2
      <4> QED
        BY <1>2, <1>6, <1>8, <3>2, <4>1
    <3>3. CASE p = d
      <4>1. i \in 1..(n - k)
        BY <1>7, <1>8, <2>1, <3>3
      <4>2. k + i \in 1..n /\ k + i # 1
        BY <1>5, <4>1
      <4> QED
        BY <1>2, <1>7, <1>8, <3>3, <4>1, <4>2
    <3>4. CASE p \notin {0, d}
      BY <1>8, <2>1, <3>4
    <3> QED
      BY <3>1, <3>2, <3>3, <3>4
  <2>2. ASSUME NEW p \in Places, NEW i \in DOMAIN At(p), ~(p = d /\ i = 1)
        PROVE  \E q \in Places : \E l \in DOMAIN At(q)' : At(q)'[l] = At(p)[i]
    <3>1. CASE p = 0
      <4>1. i \in 1..m /\ i \in 1..(m + (k - 1))
        BY <1>5, <1>6, <1>8, <2>2, <3>1
      <4> QED
        BY <1>6, <1>8, <3>1, <4>1
    <3>2. CASE p = d /\ i - 1 < k
      <4>1. i \in 1..n /\ i # 1
        BY <1>7, <1>8, <2>2, <3>2
      <4>2. i - 1 \in 1..(k - 1) /\ m + (i - 1) \in 1..(m + (k - 1)) /\ (i - 1) + 1 = i
        BY <1>5, <3>2, <4>1
      <4>3. jobs'[m + (i - 1)] = was[i]
        BY <1>6, <4>2
      <4> QED
        BY <1>6, <1>8, <3>2, <4>2, <4>3
    <3>3. CASE p = d /\ ~(i - 1 < k)
      <4>1. i \in 1..n /\ i # 1
        BY <1>7, <1>8, <2>2, <3>3
      <4>2. i - k \in 1..(n - k) /\ k + (i - k) = i
        BY <1>5, <3>3, <4>1
      <4>3. drains'[d].items[i - k] = was[i]
        BY <1>7, <4>2
      <4> QED
        BY <1>7, <1>8, <3>3, <4>2, <4>3
    <3>4. CASE p \notin {0, d}
      BY <1>8, <2>2, <3>4
    <3> QED
      BY <3>1, <3>2, <3>3, <3>4
  <2>3. ASSUME NEW p \in Places, NEW i \in DOMAIN At(p), ~(p = d /\ i = 1)
        PROVE  At(p)[i] # was[1]
    BY <1>3, <1>8, <2>3 DEF Inv, Unique
  <2>4. \A j \in Jobs : Held(j)' <=> Held(j) /\ j # was[1]
    BY <1>3, <1>8, <2>1, <2>2, <2>3 DEF Held
  <2> QED
    BY <1>1, <1>3, <2>4 DEF Inv, HeldInv
<1> QED
  BY <1>9, <1>10, <1>11, <1>12 DEF Inv

LEMMA StepInv == Inv /\ [Next]_vars => Inv'
<1> SUFFICES ASSUME Inv, [Next]_vars PROVE Inv'
  OBVIOUS
<1>1. ASSUME UNCHANGED <<jobs, settled, published, drains, flush>> PROVE Inv'
  <2>1. Places' = Places /\ \A p \in Places : At(p)' = At(p)
    BY <1>1 DEF Places, At
  <2>2. TypeInv' /\ SerialInv'
    BY <1>1 DEF Inv, TypeInv, SerialInv
  <2>3. Unique' /\ HeldInv'
    BY <1>1, <2>1 DEF Inv, Unique, HeldInv, Held
  <2> QED
    BY <2>2, <2>3 DEF Inv
<1>2. ASSUME NEW t \in Types, Register(t) PROVE Inv'
  BY <1>1, <1>2 DEF Register
<1>3. CASE Destroy
  BY <1>1, <1>3 DEF Destroy
<1>4. CASE UNCHANGED vars
  BY <1>1, <1>4 DEF vars
<1> QED
  BY <1>2, <1>3, <1>4, PublishInv, FireInv, BeginDrainInv, HandlerEndsInv
     DEF Next

LEMMA Invariants == Spec => []Inv
<1> QED
  BY InitInv, StepInv, PTL DEF Spec

-----------------------------------------------------------------------------
(* The places in a sequence at which something is. *)
LEMMA CountFacts ==
    ASSUME NEW P
    PROVE  /\ P = {} => Cardinality(P) = 0
           /\ \A k : P = {k} => Cardinality(P) = 1
  BY FS_EmptySet, FS_Singleton

(* No job of the browser's queue is lost or run twice (browser-queue.ts:
   drainJobs), whatever drains overlap and whichever types have a handler when
   they run: for any number of jobs, types and drains. *)
THEOREM NoJobIsLost == Spec => []EachJobInOnePlace
<1>1. ASSUME Inv, NEW j \in Jobs
      PROVE  LET Count(seq) == Cardinality({k \in DOMAIN seq : seq[k] = j})
             IN  IF j \in published \ settled
                 THEN \/ /\ Count(jobs) = 1
                         /\ \A d \in DOMAIN drains : Count(drains[d].items) = 0
                      \/ /\ Count(jobs) = 0
                         /\ \E d \in DOMAIN drains :
                               /\ Count(drains[d].items) = 1
                               /\ \A e \in DOMAIN drains \ {d} : Count(drains[e].items) = 0
                 ELSE /\ Count(jobs) = 0
                      /\ \A d \in DOMAIN drains : Count(drains[d].items) = 0
  <2> DEFINE Count(seq) == Cardinality({k \in DOMAIN seq : seq[k] = j})
  <2>1. /\ 0 \in Places /\ At(0) = jobs
        /\ \A d \in DOMAIN drains : d \in Places /\ d # 0 /\ At(d) = drains[d].items
        /\ \A p \in Places : p = 0 \/ p \in DOMAIN drains
    BY <1>1, TypeFacts DEF Inv, Places, At
  <2>2. ASSUME NEW p \in Places, \A k \in DOMAIN At(p) : At(p)[k] # j
        PROVE  Count(At(p)) = 0
    <3>1. {k \in DOMAIN At(p) : At(p)[k] = j} = {}
      BY <2>2
    <3> QED
      BY <3>1, CountFacts
  <2>3. ASSUME NEW p \in Places, NEW k \in DOMAIN At(p), At(p)[k] = j
        PROVE  Count(At(p)) = 1 /\ \A q \in Places \ {p} : Count(At(q)) = 0
    <3>1. {l \in DOMAIN At(p) : At(p)[l] = j} = {k}
      BY <1>1, <2>3 DEF Inv, Unique
    <3>2. \A q \in Places \ {p} : \A l \in DOMAIN At(q) : At(q)[l] # j
      BY <1>1, <2>3 DEF Inv, Unique
    <3> QED
      BY <2>2, <3>1, <3>2, CountFacts
  <2>4. CASE j \in published \ settled
    <3>1. PICK p \in Places : \E k \in DOMAIN At(p) : At(p)[k] = j
      BY <1>1, <2>4 DEF Inv, HeldInv, Held
    <3>2. Count(At(p)) = 1 /\ \A q \in Places \ {p} : Count(At(q)) = 0
      BY <2>3, <3>1
    <3> HIDE DEF Count
    <3>3. \/ /\ Count(jobs) = 1
             /\ \A d \in DOMAIN drains : Count(drains[d].items) = 0
          \/ /\ Count(jobs) = 0
             /\ \E d \in DOMAIN drains :
                   /\ Count(drains[d].items) = 1
                   /\ \A e \in DOMAIN drains \ {d} : Count(drains[e].items) = 0
      <4>1. CASE p = 0
        BY <2>1, <3>2, <4>1
      <4>2. CASE p \in DOMAIN drains
        BY <2>1, <3>2, <4>2
      <4> QED
        BY <2>1, <4>1, <4>2
    <3> QED
      BY <2>4, <3>3 DEF Count
  <2>5. CASE j \notin published \ settled
    <3>1. \A p \in Places : \A k \in DOMAIN At(p) : At(p)[k] # j
      BY <1>1, <2>5 DEF Inv, HeldInv, Held
    <3> HIDE DEF Count
    <3>2. Count(jobs) = 0 /\ \A d \in DOMAIN drains : Count(drains[d].items) = 0
      BY <2>1, <2>2, <3>1
    <3> QED
      BY <2>5, <3>2 DEF Count
  <2> QED
    BY <2>4, <2>5
<1>2. Inv => EachJobInOnePlace
  BY <1>1 DEF EachJobInOnePlace
<1> QED
  BY <1>2, Invariants, PTL

(* Jobs of the browser's queue overlap only after two calls of drainJobs have
   awaited the same flush promise (browser-queue.ts: drainJobs), however many
   debounced calls there are. *)
THEOREM JobsAreSerial == Spec => []SerialUnlessDrainsPileUp
<1>1. ASSUME Inv, Cardinality(Running) > 1,
             ~\E d, e \in DOMAIN drains : d # e /\ drains[d].awaits = drains[e].awaits
      PROVE  FALSE
  <2>1. Running \subseteq {flush}
    BY <1>1 DEF Inv, SerialInv, Running
  <2>2. Running = {} \/ Running = {flush}
    BY <2>1
  <2>3. Cardinality(Running) = 0 \/ Cardinality(Running) = 1
    BY <2>2, CountFacts
  <2> QED
    BY <1>1, <2>3
<1>2. Inv => SerialUnlessDrainsPileUp
  BY <1>1 DEF SerialUnlessDrainsPileUp
<1> QED
  BY <1>2, Invariants, PTL

-----------------------------------------------------------------------------
(* Invariants of the loader. *)

Reaches(m, d) == d \in ReachableFrom({m}, dependencyList)

(* An importer is at one place: it has the control, is to resume once, awaits
   one deferred, awaits a load, is done, or has not begun. *)
PlaceInv ==
    /\ \A i \in Importers : /\ doing[i] # "done" => stack[i] # <<>>
                            /\ control = i => doing[i] = "running"
    /\ \A a \in DOMAIN microtasks : microtasks[a] \in Importers =>
          /\ doing[microtasks[a]] \in {"running", "waiting"}
          /\ control # microtasks[a]
          /\ \A b \in DOMAIN microtasks : microtasks[b] = microtasks[a] => b = a
    /\ \A m \in Modules : \A a \in DOMAIN waiters[m] :
          /\ doing[waiters[m][a]] = "waiting"
          /\ \A b \in DOMAIN microtasks : microtasks[b] # waiters[m][a]
          /\ \A n \in Modules : \A b \in DOMAIN waiters[n] :
                waiters[n][b] = waiters[m][a] => n = m /\ b = a

(* A module that is being fetched is fetched by one importer. *)
FetchInv ==
    \A i \in Importers : doing[i] = "fetching" =>
        /\ state[Module(i)] = "fetching"
        /\ \A j \in Importers : doing[j] = "fetching" /\ Module(j) = Module(i) => j = i

(* The activations of an importer begin with the module it imports, and are
   about modules that it needs.  What they have in hand is registered. *)
StackInv ==
    \A i \in Importers : \A a \in DOMAIN stack[i] :
        /\ a = 1 => stack[i][a].module = wants[i]
        /\ Reaches(wants[i], stack[i][a].module)
        /\ \A d \in stack[i][a].completing : isRegistered(d)

(* evaluate recurses from a module to what it imports, and meets no module
   twice. *)
EvaluateInv ==
    /\ evaluating # <<>> => evaluating[1] = Module(control)
    /\ \A a, b \in DOMAIN evaluating :
          /\ evaluating[a] = evaluating[b] => a = b
          /\ a <= b => Reaches(evaluating[a], evaluating[b])

(* A module breaks by its own fault, or that of a module it depends on. *)
Unlucky == \E k \in Importers : outcome[k] = "not evaluatable"
BrokenInv == \A m \in Modules : state[m] = "broken" => Faulty(m) \/ Unlucky

LoaderInv == LoaderTypeOK /\ PlaceInv /\ FetchInv /\ StackInv /\ EvaluateInv
CauseInv == BrokenInv /\ FailuresHaveCauses

-----------------------------------------------------------------------------
(* What modules import. *)

LEMMA ReachSelf ==
    ASSUME NEW list, NEW m \in Modules
    PROVE  m \in ReachableFrom({m}, list)
BY DEF ReachableFrom

LEMMA ReachStep ==
    ASSUME NEW list \in [Modules -> Seq(Modules)], NEW S,
           NEW m \in ReachableFrom(S, list), NEW d \in ToSet(list[m])
    PROVE  d \in ReachableFrom(S, list)
<1>1. m \in Modules
  BY DEF ReachableFrom
<1>2. d \in Modules
  <2>1. PICK k \in DOMAIN list[m] : d = list[m][k]
    BY DEF ToSet
  <2> QED
    BY <1>1, <2>1, LenProperties, ElementOfSeq
<1>3. ASSUME NEW T \in SUBSET Modules, S \subseteq T,
             \A n \in T : ToSet(list[n]) \subseteq T
      PROVE  d \in T
  BY <1>3 DEF ReachableFrom
<1> QED
  BY <1>2, <1>3 DEF ReachableFrom

(* What is closed under imports holds all that is reached. *)
LEMMA ReachLeast ==
    ASSUME NEW list, NEW S, NEW T \in SUBSET Modules, S \subseteq T,
           \A m \in T : ToSet(list[m]) \subseteq T
    PROVE  ReachableFrom(S, list) \subseteq T
BY DEF ReachableFrom

LEMMA ReachThrough ==
    ASSUME NEW list \in [Modules -> Seq(Modules)], NEW S,
           NEW m \in ReachableFrom(S, list), NEW d \in ReachableFrom({m}, list)
    PROVE  d \in ReachableFrom(S, list)
<1> DEFINE T == ReachableFrom(S, list)
<1>1. T \in SUBSET Modules /\ {m} \subseteq T
  BY DEF ReachableFrom
<1>2. \A n \in T : ToSet(list[n]) \subseteq T
  BY ReachStep
<1> HIDE DEF T
<1> QED
  BY <1>1, <1>2, ReachLeast DEF T

LEMMA MinFacts ==
    ASSUME NEW S, S \subseteq Nat, S # {}
    PROVE  Min(S) \in S
BY Smallest DEF Min

-----------------------------------------------------------------------------
(* What the types of the loader's state amount to. *)

LEMMA ListFacts ==
    ASSUME LoaderTypeOK, NEW m \in Modules
    PROVE  /\ DOMAIN dependencyList[m] \subseteq Nat
           /\ DOMAIN dependencies[m] = DOMAIN dependencyList[m]
           /\ \A k \in DOMAIN dependencyList[m] :
                 /\ dependencyList[m][k] \in Modules
                 /\ dependencyList[m][k] \in ToSet(dependencyList[m])
<1>1. dependencyList[m] \in Seq(Modules)
  BY DEF LoaderTypeOK
<1>2. DOMAIN dependencyList[m] = 1..Len(dependencyList[m]) /\ Len(dependencyList[m]) \in Nat
  BY <1>1, LenProperties
<1>3. \A k \in DOMAIN dependencyList[m] : dependencyList[m][k] \in Modules
  BY <1>1, <1>2, ElementOfSeq
<1>4. DOMAIN dependencies[m] = DOMAIN dependencyList[m]
  BY DEF LoaderTypeOK
<1> QED
  BY <1>2, <1>3, <1>4 DEF ToSet

LEMMA ActiveFacts ==
    ASSUME LoaderTypeOK, NEW i \in Importers, stack[i] # <<>>
    PROVE  /\ stack[i] \in Seq(Activation)
           /\ Len(stack[i]) \in Nat /\ Len(stack[i]) > 0
           /\ DOMAIN stack[i] = 1..Len(stack[i])
           /\ \A a \in 1..Len(stack[i]) : stack[i][a] \in Activation
           /\ Active(i) = stack[i][Len(stack[i])]
           /\ Active(i) \in Activation /\ Module(i) \in Modules
<1>1. stack[i] \in Seq(Activation)
  BY DEF LoaderTypeOK
<1>2. /\ Len(stack[i]) \in Nat /\ Len(stack[i]) > 0
      /\ Active(i) = stack[i][Len(stack[i])] /\ stack[i][Len(stack[i])] \in Activation
  BY <1>1, NotEmpty DEF Active
<1>3. DOMAIN stack[i] = 1..Len(stack[i]) /\ \A a \in 1..Len(stack[i]) : stack[i][a] \in Activation
  BY <1>1, LenProperties, ElementOfSeq
<1>4. Module(i) \in Modules
  BY <1>2 DEF Module, Activation
<1> QED
  BY <1>1, <1>2, <1>3, <1>4

LEMMA TopFacts ==
    ASSUME LoaderTypeOK, evaluating # <<>>
    PROVE  /\ Len(evaluating) \in Nat /\ Len(evaluating) > 0
           /\ DOMAIN evaluating = 1..Len(evaluating)
           /\ \A a \in 1..Len(evaluating) :
                 evaluating[a] \in Modules /\ state[evaluating[a]] = "preparing"
           /\ Last(evaluating) = evaluating[Len(evaluating)]
           /\ Last(evaluating) \in Modules
<1>1. evaluating \in Seq(Modules)
  BY DEF LoaderTypeOK
<1>2. /\ Len(evaluating) \in Nat /\ Len(evaluating) > 0
      /\ Last(evaluating) = evaluating[Len(evaluating)]
      /\ evaluating[Len(evaluating)] \in Modules
  BY <1>1, NotEmpty
<1>3. DOMAIN evaluating = 1..Len(evaluating) /\ \A a \in 1..Len(evaluating) : evaluating[a] \in Modules
  BY <1>1, LenProperties, ElementOfSeq
<1>4. \A a \in 1..Len(evaluating) : evaluating[a] \in ToSet(evaluating)
  BY <1>3 DEF ToSet
<1> QED
  BY <1>2, <1>3, <1>4 DEF LoaderTypeOK

(* The importer in control is at the front of its stack, and while evaluate
   runs, the module it looks at is being evaluated. *)
LEMMA ControlFacts ==
    ASSUME LoaderInv, NEW i \in Importers, control = i
    PROVE  /\ doing[i] = "running" /\ stack[i] # <<>> /\ i # Nobody
           /\ outcome[i] = "none"
           /\ state[Module(i)] # "preparing" => evaluating = <<>>
           /\ \A a \in DOMAIN microtasks : microtasks[a] # i
           /\ \A m \in Modules : \A a \in DOMAIN waiters[m] : waiters[m][a] # i
<1>1. doing[i] = "running" /\ stack[i] # <<>> /\ i # Nobody
  BY NamesAssumption DEF LoaderInv, PlaceInv
<1>2. outcome[i] = "none"
  BY <1>1 DEF LoaderInv, LoaderTypeOK
<1>3. ASSUME evaluating # <<>> PROVE state[Module(i)] = "preparing"
  BY <1>3, TopFacts DEF LoaderInv, EvaluateInv
<1>4. \A a \in DOMAIN microtasks : microtasks[a] # i
  BY DEF LoaderInv, PlaceInv
<1>5. \A m \in Modules : \A a \in DOMAIN waiters[m] : waiters[m][a] # i
  BY <1>1 DEF LoaderInv, PlaceInv
<1> QED
  BY <1>1, <1>2, <1>3, <1>4, <1>5

-----------------------------------------------------------------------------
(* The invariants of the loader hold at first, ... *)

LEMMA SingletonFacts ==
    ASSUME NEW S, NEW e \in S
    PROVE  /\ <<e>> \in Seq(S) /\ <<e>> # <<>>
           /\ DOMAIN <<e>> = {1} /\ <<e>>[1] = e
OBVIOUS

LEMMA InitLoaderInv == LoaderInit => LoaderInv
<1> SUFFICES ASSUME LoaderInit PROVE LoaderInv
  OBVIOUS
<1> DEFINE act(i) == [module |-> wants[i], target |-> "evaluated",
                      completing |-> {}, withDeps |-> {}]
<1>1. /\ dependencyList \in [Modules -> Seq(Modules)]
      /\ source \in [Modules -> Loads] /\ throwing \subseteq Modules
      /\ wants \in [Importers -> Modules]
  BY GraphsAssumption, LoadsAssumption, WantedAssumption DEF LoaderInit
<1>2. \A i \in Importers : /\ stack[i] = <<act(i)>> /\ act(i) \in Activation
                           /\ doing[i] = "new" /\ outcome[i] = "none"
  BY <1>1 DEF LoaderInit, Activation, Targets
<1> HIDE DEF act
<1>3. \A i \in Importers : /\ stack[i] \in Seq(Activation) /\ stack[i] # <<>>
                           /\ DOMAIN stack[i] = {1} /\ stack[i][1] = act(i)
  <2> SUFFICES ASSUME NEW i \in Importers
               PROVE  /\ stack[i] \in Seq(Activation) /\ stack[i] # <<>>
                      /\ DOMAIN stack[i] = {1} /\ stack[i][1] = act(i)
    OBVIOUS
  <2> DEFINE e == act(i)
  <2>1. e \in Activation /\ stack[i] = <<e>>
    BY <1>2
  <2> HIDE DEF e
  <2>2. /\ stack[i] \in Seq(Activation) /\ stack[i] # <<>>
        /\ DOMAIN stack[i] = {1} /\ stack[i][1] = e
    BY <2>1, SingletonFacts
  <2> QED
    BY <2>2 DEF e
<1>4. stack \in [Importers -> Seq(Activation)]
  BY <1>3 DEF LoaderInit
<1>5. /\ waiters \in [Modules -> Seq(Importers)] /\ microtasks \in Seq(Importers \cup Modules)
      /\ evaluating \in Seq(Modules)
      /\ DOMAIN microtasks = {} /\ DOMAIN evaluating = {} /\ ToSet(evaluating) = {}
      /\ \A m \in Modules : DOMAIN waiters[m] = {}
  BY EmptySeq DEF LoaderInit, ToSet
<1>6. LoaderTypeOK
  BY <1>1, <1>2, <1>4, <1>5
  DEF LoaderInit, LoaderTypeOK, States, Registered, Evaluatable, Failures
<1>7. PlaceInv /\ FetchInv /\ EvaluateInv
  BY <1>2, <1>3, <1>5, NamesAssumption
     DEF LoaderInit, PlaceInv, FetchInv, EvaluateInv
<1>8. \A i \in Importers : Reaches(wants[i], wants[i])
  BY <1>1, ReachSelf DEF Reaches
<1>9. StackInv
  <2>1. \A i \in Importers : act(i).module = wants[i] /\ act(i).completing = {}
    BY DEF act
  <2> QED
    BY <1>3, <1>8, <2>1 DEF StackInv
<1> QED
  BY <1>6, <1>7, <1>9 DEF LoaderInv

-----------------------------------------------------------------------------
(* ... and each step keeps them: first, a call of advanceToState, ... *)

LEMMA CallKeeps ==
    ASSUME LoaderInv, NEW i \in Importers, control = i,
           state[Module(i)] \in {"registered", "completing"},
           NEW m \in ToSet(dependencyList[Module(i)]), NEW target \in Targets,
           NEW completing \in SUBSET Modules, \A d \in completing : isRegistered(d),
           NEW withDeps \in SUBSET Modules,
           Call(i, m, target, completing, withDeps)
    PROVE  LoaderInv'
<1> DEFINE act == [module |-> m, target |-> target,
                   completing |-> completing, withDeps |-> withDeps]
<1>1. /\ LoaderTypeOK /\ PlaceInv /\ FetchInv /\ StackInv /\ EvaluateInv
      /\ doing[i] = "running" /\ stack[i] # <<>> /\ evaluating = <<>>
  BY ControlFacts DEF LoaderInv
<1>2. /\ stack[i] \in Seq(Activation) /\ Len(stack[i]) \in Nat /\ Len(stack[i]) > 0
      /\ DOMAIN stack[i] = 1..Len(stack[i]) /\ Module(i) \in Modules
      /\ Module(i) = stack[i][Len(stack[i])].module
  BY <1>1, ActiveFacts DEF Module
<1>3. m \in Modules /\ act \in Activation
  BY <1>1, <1>2, ListFacts DEF ToSet, Activation
<1> HIDE DEF act
<1>4. /\ UNCHANGED <<dependencyList, source, throwing, wants, state, dependencies,
                     evaluating, doing, outcome, waiters, microtasks, control>>
      /\ stack' = [stack EXCEPT ![i] = Append(stack[i], act)]
  BY DEF Call, program, modules, act
<1>5. /\ stack'[i] = Append(stack[i], act)
      /\ \A j \in Importers : j # i => stack'[j] = stack[j]
  BY <1>1, <1>4 DEF LoaderTypeOK
<1>6. /\ stack'[i] \in Seq(Activation) /\ stack'[i] # <<>>
      /\ DOMAIN stack'[i] = 1..(Len(stack[i]) + 1)
      /\ \A a \in 1..Len(stack[i]) : stack'[i][a] = stack[i][a]
      /\ stack'[i][Len(stack[i]) + 1] = act
  BY <1>2, <1>3, <1>5, AppendFacts
<1>7. stack' \in [Importers -> Seq(Activation)]
  BY <1>1, <1>4, <1>5, <1>6 DEF LoaderTypeOK
<1>8. LoaderTypeOK'
  BY <1>1, <1>4, <1>7 DEF LoaderTypeOK
<1>9. PlaceInv'
  BY <1>1, <1>4, <1>5, <1>6 DEF PlaceInv
<1>10. FetchInv'
  BY <1>1, <1>4, <1>5 DEF FetchInv, Module, Active
<1>11. EvaluateInv'
  BY <1>1, <1>4, EmptySeq DEF EvaluateInv
<1>12. Reaches(wants[i], m)
  <2>1. Len(stack[i]) \in DOMAIN stack[i]
    BY <1>2
  <2>2. Reaches(wants[i], Module(i))
    BY <1>1, <1>2, <2>1 DEF StackInv
  <2> QED
    BY <1>1, <2>2, ReachStep DEF Reaches, LoaderTypeOK
<1>13. StackInv'
  <2> SUFFICES ASSUME NEW j \in Importers, NEW a \in DOMAIN stack'[j]
               PROVE  /\ a = 1 => stack'[j][a].module = wants[j]
                      /\ Reaches(wants[j], stack'[j][a].module)
                      /\ \A d \in stack'[j][a].completing : isRegistered(d)
    BY <1>4 DEF StackInv, Reaches, isRegistered
  <2>1. CASE j # i
    BY <1>1, <1>5, <2>1 DEF StackInv
  <2>2. CASE j = i /\ a \in 1..Len(stack[i])
    BY <1>1, <1>2, <1>6, <2>2 DEF StackInv
  <2>3. CASE j = i /\ a = Len(stack[i]) + 1
    BY <1>2, <1>6, <1>12, <2>3 DEF act
  <2> QED
    BY <1>2, <1>6, <2>1, <2>2, <2>3
<1> QED
  BY <1>8, <1>9, <1>10, <1>11, <1>13 DEF LoaderInv

(* ... a change of the module an importer is at, ... *)
LEMMA SetModuleKeeps ==
    ASSUME LoaderInv, NEW i \in Importers, control = i,
           state[Module(i)] \in {"registered", "completing"},
           NEW st \in {"completing", "withDeps"},
           NEW deps \in [DOMAIN dependencyList[Module(i)] -> {"dep", "completing-dep", "none"}],
           SetModule(i, st, deps)
    PROVE  LoaderInv'
<1>1. /\ LoaderTypeOK /\ PlaceInv /\ FetchInv /\ StackInv /\ EvaluateInv
      /\ doing[i] = "running" /\ stack[i] # <<>> /\ evaluating = <<>>
  BY ControlFacts DEF LoaderInv
<1>2. Module(i) \in Modules
  BY <1>1, ActiveFacts
<1>3. /\ UNCHANGED <<dependencyList, source, throwing, wants,
                     evaluating, stack, doing, outcome, waiters, microtasks, control>>
      /\ state' = [state EXCEPT ![Module(i)] = st]
      /\ dependencies' = [dependencies EXCEPT ![Module(i)] = deps]
  BY DEF SetModule, program, callers
<1>4. /\ state' \in [Modules -> States] /\ state'[Module(i)] = st
      /\ \A m \in Modules : m # Module(i) => state'[m] = state[m]
  BY <1>1, <1>2, <1>3 DEF LoaderTypeOK, States, Registered, Evaluatable
<1>5. /\ DOMAIN dependencies' = Modules /\ dependencies'[Module(i)] = deps
      /\ \A m \in Modules : m # Module(i) => dependencies'[m] = dependencies[m]
  BY <1>1, <1>2, <1>3 DEF LoaderTypeOK
<1>6. \A m \in Modules : state'[m] = "preparing" <=> state[m] = "preparing"
  BY <1>4
<1>7. LoaderTypeOK'
  BY <1>1, <1>3, <1>4, <1>5, <1>6 DEF LoaderTypeOK
<1>8. PlaceInv'
  BY <1>1, <1>3 DEF PlaceInv
<1>9. FetchInv'
  <2>1. \A j \in Importers : doing[j] = "fetching" => stack[j] # <<>>
    BY <1>1 DEF PlaceInv
  <2>2. \A j \in Importers : doing[j] = "fetching" => Module(j) \in Modules
    BY <1>1, <2>1, ActiveFacts
  <2> QED
    BY <1>1, <1>3, <1>4, <2>2 DEF FetchInv, Module, Active
<1>10. EvaluateInv'
  BY <1>1, <1>3, EmptySeq DEF EvaluateInv
<1>11. \A m \in Modules : isRegistered(m) => state'[m] \in Registered
  BY <1>4 DEF isRegistered, Registered, Evaluatable
<1>12. StackInv'
  <2>1. \A j \in Importers : \A a \in DOMAIN stack[j] : stack[j][a].completing \subseteq Modules
    <3> SUFFICES ASSUME NEW j \in Importers, NEW a \in DOMAIN stack[j]
                 PROVE  stack[j][a] \in Activation
      BY DEF Activation
    <3> QED
      BY <1>1, LenProperties, ElementOfSeq DEF LoaderTypeOK
  <2> QED
    BY <1>1, <1>3, <1>11, <2>1 DEF StackInv, Reaches, isRegistered
<1> QED
  BY <1>7, <1>8, <1>9, <1>10, <1>12 DEF LoaderInv

(* ... an exception, ... *)
LEMMA ThrowKeeps ==
    ASSUME LoaderInv, NEW i \in Importers, control \in {i, Nobody},
           NEW why \in Failures, Throw(i, why),
           \A a \in DOMAIN microtasks : microtasks[a] # i,
           \A m \in Modules : \A a \in DOMAIN waiters[m] : waiters[m][a] # i,
           UNCHANGED <<program, dependencies, waiters, microtasks>>,
           state' \in [Modules -> States], evaluating' = <<>>,
           \A m \in Modules : /\ state'[m] # "preparing"
                              /\ isRegistered(m) => state'[m] \in Registered,
           \A j \in Importers :
               doing[j] = "fetching" /\ j # i => state'[Module(j)] = "fetching"
    PROVE  LoaderInv'
<1>1. LoaderTypeOK /\ PlaceInv /\ FetchInv /\ StackInv /\ EvaluateInv
  BY DEF LoaderInv
<1>2. /\ UNCHANGED <<dependencyList, source, throwing, wants>> /\ control' = Nobody
      /\ stack' = [stack EXCEPT ![i] = <<>>]
      /\ outcome' = [outcome EXCEPT ![i] = why]
      /\ doing' = [doing EXCEPT ![i] = "done"]
  BY DEF Throw, program
<1>3. /\ stack'[i] = <<>> /\ outcome'[i] = why /\ doing'[i] = "done"
      /\ \A j \in Importers : j # i => /\ stack'[j] = stack[j]
                                       /\ outcome'[j] = outcome[j] /\ doing'[j] = doing[j]
      /\ stack' \in [Importers -> Seq(Activation)]
      /\ outcome' \in [Importers -> {"none", "loaded"} \cup Failures]
      /\ doing' \in [Importers -> {"new", "running", "fetching", "waiting", "done"}]
  BY <1>1, <1>2, EmptySeq DEF LoaderTypeOK
<1>4. ToSet(evaluating') = {} /\ evaluating' \in Seq(Modules) /\ DOMAIN evaluating' = {}
  BY EmptySeq DEF ToSet
<1>5. LoaderTypeOK'
  BY <1>1, <1>2, <1>3, <1>4, ZenonT(60) DEF LoaderTypeOK, Failures
<1>6. PlaceInv'
  <2>1. \A a \in DOMAIN microtasks : microtasks[a] # i
    OBVIOUS
  <2>2. \A m \in Modules : \A a \in DOMAIN waiters[m] : waiters[m][a] \in Importers
    BY <1>1, LenProperties, ElementOfSeq DEF LoaderTypeOK
  <2> QED
    BY <1>1, <1>2, <1>3, <2>1, <2>2, NamesAssumption DEF PlaceInv
<1>7. FetchInv'
  BY <1>1, <1>2, <1>3 DEF FetchInv, Module, Active
<1>8. EvaluateInv'
  BY <1>4 DEF EvaluateInv
<1>9. StackInv'
  <2>1. \A j \in Importers : \A a \in DOMAIN stack[j] : stack[j][a].completing \subseteq Modules
    <3> SUFFICES ASSUME NEW j \in Importers, NEW a \in DOMAIN stack[j]
                 PROVE  stack[j][a] \in Activation
      BY DEF Activation
    <3> QED
      BY <1>1, LenProperties, ElementOfSeq DEF LoaderTypeOK
  <2> SUFFICES ASSUME NEW j \in Importers, NEW a \in DOMAIN stack'[j]
               PROVE  /\ a = 1 => stack'[j][a].module = wants[j]
                      /\ Reaches(wants[j], stack'[j][a].module)
                      /\ \A d \in stack'[j][a].completing : state'[d] \in Registered
    BY <1>2, SMTT(60) DEF StackInv, Reaches, isRegistered
  <2>2. j # i /\ stack'[j] = stack[j] /\ a \in DOMAIN stack[j]
    BY <1>3, EmptySeq
  <2>3. \A d \in stack[j][a].completing : d \in Modules /\ isRegistered(d)
    BY <1>1, <2>1, <2>2 DEF StackInv
  <2> QED
    BY <1>1, <2>2, <2>3 DEF StackInv
<1> QED
  BY <1>5, <1>6, <1>7, <1>8, <1>9 DEF LoaderInv

(* ... a return, ... *)
LEMMA ReturnKeeps ==
    ASSUME LoaderInv, NEW i \in Importers, TargetReached(i)
    PROVE  LoaderInv'
<1>1. /\ LoaderTypeOK /\ PlaceInv /\ FetchInv /\ StackInv /\ EvaluateInv
      /\ control = i /\ doing[i] = "running" /\ stack[i] # <<>> /\ i # Nobody
      /\ \A a \in DOMAIN microtasks : microtasks[a] # i
      /\ \A m \in Modules : \A a \in DOMAIN waiters[m] : waiters[m][a] # i
  BY ControlFacts DEF LoaderInv, TargetReached
<1>2. /\ stack[i] \in Seq(Activation) /\ Len(stack[i]) \in Nat /\ Len(stack[i]) > 0
      /\ DOMAIN stack[i] = 1..Len(stack[i]) /\ Active(i).target \in Targets
  BY <1>1, ActiveFacts DEF Activation
<1>3. evaluating = <<>>
  BY <1>1, <1>2, ControlFacts DEF TargetReached, Targets
<1>4. /\ UNCHANGED <<dependencyList, source, throwing, wants, state, dependencies,
                     evaluating, waiters>>
      /\ control' = Nobody
      /\ stack' = [stack EXCEPT ![i] = Front(stack[i])]
  BY DEF TargetReached, Return, program, modules
<1>5. /\ Front(stack[i]) \in Seq(Activation) /\ Len(Front(stack[i])) = Len(stack[i]) - 1
      /\ DOMAIN Front(stack[i]) = 1..(Len(stack[i]) - 1)
      /\ \A a \in 1..(Len(stack[i]) - 1) : Front(stack[i])[a] = stack[i][a]
  BY <1>1, <1>2, FrontFacts
<1>6. /\ stack'[i] = Front(stack[i])
      /\ \A j \in Importers : j # i => stack'[j] = stack[j]
      /\ stack' \in [Importers -> Seq(Activation)]
  BY <1>1, <1>4, <1>5 DEF LoaderTypeOK
<1>7. FetchInv'
  <2>1. \A j \in Importers : doing'[j] = "fetching" => doing[j] = "fetching" /\ j # i
    BY <1>1 DEF TargetReached, Return, LoaderTypeOK
  <2> QED
    BY <1>1, <1>4, <1>6, <2>1 DEF FetchInv, Module, Active
<1>8. EvaluateInv'
  BY <1>3, <1>4, EmptySeq DEF EvaluateInv
<1>9. StackInv'
  <2> SUFFICES ASSUME NEW j \in Importers, NEW a \in DOMAIN stack'[j]
               PROVE  /\ a = 1 => stack'[j][a].module = wants[j]
                      /\ Reaches(wants[j], stack'[j][a].module)
                      /\ \A d \in stack'[j][a].completing : isRegistered(d)
    BY <1>4 DEF StackInv, Reaches, isRegistered
  <2>1. a \in DOMAIN stack[j] /\ stack'[j][a] = stack[j][a]
    BY <1>2, <1>5, <1>6, SMTT(60)
  <2> QED
    BY <1>1, <2>1 DEF StackInv
<1>10. CASE Len(stack[i]) = 1
  <2>1. /\ outcome' = [outcome EXCEPT ![i] = ImportResult(Module(i))]
        /\ doing' = [doing EXCEPT ![i] = "done"] /\ microtasks' = microtasks
    BY <1>10 DEF TargetReached, Return
  <2>2. ImportResult(Module(i)) \in {"loaded", "exception", "bug"}
    BY DEF ImportResult
  <2>3. LoaderTypeOK'
    <3>1. /\ outcome' \in [Importers -> {"none", "loaded"} \cup Failures]
          /\ doing' \in [Importers ->
                          {"new", "running", "fetching", "waiting", "done"}]
      BY <1>1, <2>1, <2>2 DEF LoaderTypeOK, Failures
    <3>2. \A j \in Importers : doing'[j] = "done" <=> outcome'[j] # "none"
      BY <1>1, <2>1, <2>2 DEF LoaderTypeOK
    <3> QED
      BY <1>1, <1>3, <1>4, <1>6, <2>1, <3>1, <3>2 DEF LoaderTypeOK
  <2>4. PlaceInv'
    <3>1. \A m \in Modules : \A a \in DOMAIN waiters[m] : waiters[m][a] \in Importers
      BY <1>1, LenProperties, ElementOfSeq DEF LoaderTypeOK
    <3>2. /\ doing'[i] = "done"
          /\ \A j \in Importers : j # i => doing'[j] = doing[j]
      BY <1>1, <2>1 DEF LoaderTypeOK
    <3> QED
      BY <1>1, <1>4, <1>6, <2>1, <3>1, <3>2, NamesAssumption DEF PlaceInv
  <2> QED
    BY <1>7, <1>8, <1>9, <2>3, <2>4 DEF LoaderInv
<1>11. CASE Len(stack[i]) # 1
  <2>1. microtasks' = Append(microtasks, i) /\ UNCHANGED <<outcome, doing>>
    BY <1>11 DEF TargetReached, Return
  <2>2. /\ Len(microtasks) \in Nat /\ DOMAIN microtasks = 1..Len(microtasks)
        /\ microtasks' \in Seq(Importers \cup Modules)
        /\ DOMAIN microtasks' = 1..(Len(microtasks) + 1)
        /\ \A a \in 1..Len(microtasks) : microtasks'[a] = microtasks[a]
        /\ microtasks'[Len(microtasks) + 1] = i
    BY <1>1, <2>1, AppendFacts DEF LoaderTypeOK
  <2>3. LoaderTypeOK'
    BY <1>1, <1>3, <1>4, <1>6, <2>1, <2>2 DEF LoaderTypeOK
  <2>4. stack'[i] # <<>>
    <3>1. Len(stack[i]) - 1 # 0
      BY <1>2, <1>11
    <3>2. Len(stack'[i]) # 0 /\ stack'[i] \in Seq(Activation)
      BY <1>5, <1>6, <3>1, Zenon
    <3> QED
      BY <3>2, EmptySeq
  <2>5. PlaceInv'
    <3>1. \A j \in Importers : /\ doing'[j] # "done" => stack'[j] # <<>>
                               /\ control' = j => doing'[j] = "running"
      BY <1>1, <1>4, <1>6, <2>1, <2>4, NamesAssumption DEF PlaceInv
    <3>2. ASSUME NEW a \in DOMAIN microtasks', microtasks'[a] \in Importers
          PROVE  /\ doing'[microtasks'[a]] \in {"running", "waiting"}
                 /\ control' # microtasks'[a]
                 /\ \A b \in DOMAIN microtasks' : microtasks'[b] = microtasks'[a] => b = a
      <4>1. CASE a \in DOMAIN microtasks
        BY <1>1, <1>4, <2>1, <2>2, <3>2, <4>1, NamesAssumption DEF PlaceInv
      <4>2. CASE a = Len(microtasks) + 1
        BY <1>1, <1>4, <2>1, <2>2, <4>2
      <4> QED
        BY <2>2, <4>1, <4>2
    <3>3. ASSUME NEW m \in Modules, NEW a \in DOMAIN waiters'[m]
          PROVE  /\ doing'[waiters'[m][a]] = "waiting"
                 /\ \A b \in DOMAIN microtasks' : microtasks'[b] # waiters'[m][a]
                 /\ \A n \in Modules : \A b \in DOMAIN waiters'[n] :
                       waiters'[n][b] = waiters'[m][a] => n = m /\ b = a
      BY <1>1, <1>4, <2>1, <2>2, <3>3 DEF PlaceInv
    <3> QED
      BY <3>1, <3>2, <3>3 DEF PlaceInv
  <2> QED
    BY <1>7, <1>8, <1>9, <2>3, <2>5 DEF LoaderInv
<1> QED
  BY <1>10, <1>11

(* ... a call of evaluate, ... *)
LEMMA PrepareKeeps ==
    ASSUME LoaderInv, NEW i \in Importers, control = i,
           NEW m \in Modules, state[m] \in {"completing", "withDeps"},
           evaluating = <<>> => m = Module(i),
           evaluating # <<>> => m \in ToSet(dependencyList[Last(evaluating)]),
           Prepare(m)
    PROVE  LoaderInv'
<1>1. /\ LoaderTypeOK /\ PlaceInv /\ FetchInv /\ StackInv /\ EvaluateInv
      /\ doing[i] = "running" /\ stack[i] # <<>> /\ i # Nobody
  BY ControlFacts DEF LoaderInv
<1>2. /\ UNCHANGED <<dependencyList, source, throwing, wants, dependencies,
                     stack, doing, outcome, waiters, microtasks, control>>
      /\ state' = [state EXCEPT ![m] = "preparing"]
      /\ evaluating' = Append(evaluating, m)
  BY DEF Prepare, program, callers
<1>3. /\ Len(evaluating) \in Nat /\ DOMAIN evaluating = 1..Len(evaluating)
      /\ evaluating' \in Seq(Modules) /\ evaluating' # <<>>
      /\ DOMAIN evaluating' = 1..(Len(evaluating) + 1)
      /\ \A a \in 1..Len(evaluating) : evaluating'[a] = evaluating[a]
      /\ evaluating'[Len(evaluating) + 1] = m
  <2>1. evaluating \in Seq(Modules)
    BY <1>1 DEF LoaderTypeOK
  <2> QED
    BY <1>2, <2>1, AppendFacts
<1>4. /\ state' \in [Modules -> States] /\ state'[m] = "preparing"
      /\ \A n \in Modules : n # m => state'[n] = state[n]
  BY <1>1, <1>2 DEF LoaderTypeOK, States, Registered, Evaluatable
<1>5. ToSet(evaluating') = ToSet(evaluating) \cup {m}
  BY <1>1, <1>2, AppendSet DEF LoaderTypeOK
<1>6. \A n \in Modules : state'[n] = "preparing" <=> n \in ToSet(evaluating')
  BY <1>1, <1>4, <1>5 DEF LoaderTypeOK
<1>7. LoaderTypeOK'
  BY <1>1, <1>2, <1>3, <1>4, <1>6 DEF LoaderTypeOK
<1>8. PlaceInv'
  BY <1>1, <1>2 DEF PlaceInv
<1>9. FetchInv'
  <2>1. \A j \in Importers : doing[j] = "fetching" =>
            Module(j) \in Modules /\ state'[Module(j)] = state[Module(j)]
    <3> SUFFICES ASSUME NEW j \in Importers, doing[j] = "fetching"
                 PROVE  Module(j) \in Modules /\ state'[Module(j)] = state[Module(j)]
      OBVIOUS
    <3>1. Module(j) \in Modules
      BY <1>1, ActiveFacts DEF PlaceInv
    <3> QED
      BY <1>1, <1>4, <3>1 DEF FetchInv
  <2> QED
    BY <1>1, <1>2, <2>1 DEF FetchInv, Module, Active
<1>10. StackInv'
  <2>1. \A d \in Modules : isRegistered(d) => state'[d] \in Registered
    BY <1>4 DEF isRegistered, Registered, Evaluatable
  <2>2. \A j \in Importers : \A a \in DOMAIN stack[j] : stack[j][a].completing \subseteq Modules
    <3> SUFFICES ASSUME NEW j \in Importers, NEW a \in DOMAIN stack[j]
                 PROVE  stack[j][a] \in Activation
      BY DEF Activation
    <3> QED
      BY <1>1, LenProperties, ElementOfSeq DEF LoaderTypeOK
  <2> QED
    BY <1>1, <1>2, <2>1, <2>2 DEF StackInv, Reaches, isRegistered
<1>11. EvaluateInv'
  <2>1. evaluating'[1] = Module(control)
    <3>1. CASE evaluating = <<>>
      BY <1>3, <3>1, EmptySeq
    <3>2. CASE evaluating # <<>>
      BY <1>1, <1>3, <3>2, TopFacts DEF EvaluateInv
    <3> QED
      BY <3>1, <3>2
  <2>2. \A a \in DOMAIN evaluating : evaluating[a] # m /\ evaluating[a] \in Modules
    <3>1. CASE evaluating = <<>>
      BY <3>1, EmptySeq
    <3>2. CASE evaluating # <<>>
      BY <1>1, <3>2, TopFacts
    <3> QED
      BY <3>1, <3>2
  <2>3. \A a \in DOMAIN evaluating : Reaches(evaluating[a], m)
    <3> SUFFICES ASSUME NEW a \in DOMAIN evaluating PROVE Reaches(evaluating[a], m)
      OBVIOUS
    <3>1. evaluating # <<>>
      BY EmptySeq
    <3>2. /\ Last(evaluating) = evaluating[Len(evaluating)] /\ Len(evaluating) > 0
          /\ m \in ToSet(dependencyList[Last(evaluating)])
      BY <1>1, <3>1, TopFacts
    <3>3. Reaches(evaluating[a], Last(evaluating))
      BY <1>1, <1>3, <3>2 DEF EvaluateInv
    <3> QED
      BY <1>1, <3>2, <3>3, ReachStep DEF Reaches, LoaderTypeOK
  <2>4. Reaches(m, m)
    BY ReachSelf DEF Reaches
  <2>5. ASSUME NEW a \in DOMAIN evaluating', NEW b \in DOMAIN evaluating'
        PROVE  /\ evaluating'[a] = evaluating'[b] => a = b
               /\ a <= b => Reaches(evaluating'[a], evaluating'[b])
    <3>1. CASE a \in DOMAIN evaluating /\ b \in DOMAIN evaluating
      BY <1>1, <1>3, <3>1 DEF EvaluateInv
    <3>2. CASE a \in DOMAIN evaluating /\ b = Len(evaluating) + 1
      BY <1>3, <2>2, <2>3, <3>2
    <3>3. CASE a = Len(evaluating) + 1 /\ b \in DOMAIN evaluating
      BY <1>3, <2>2, <3>3
    <3>4. CASE a = Len(evaluating) + 1 /\ b = Len(evaluating) + 1
      BY <1>3, <2>4, <3>4
    <3> QED
      BY <1>3, <3>1, <3>2, <3>3, <3>4
  <2> QED
    BY <1>2, <2>1, <2>5 DEF EvaluateInv, Reaches, Module, Active
<1> QED
  BY <1>7, <1>8, <1>9, <1>10, <1>11 DEF LoaderInv

(* ... a module that is evaluated, ... *)
LEMMA EvaluatedKeeps ==
    ASSUME LoaderInv, NEW i \in Importers, control = i, evaluating # <<>>,
           state' = [state EXCEPT ![Last(evaluating)] = "evaluated"],
           evaluating' = Front(evaluating),
           UNCHANGED <<program, dependencies, callers, waiters, microtasks, control>>
    PROVE  LoaderInv'
<1> DEFINE m == Last(evaluating)
<1>1. /\ LoaderTypeOK /\ PlaceInv /\ FetchInv /\ StackInv /\ EvaluateInv
      /\ doing[i] = "running" /\ i # Nobody
  BY ControlFacts DEF LoaderInv
<1>2. UNCHANGED <<dependencyList, source, throwing, wants, dependencies,
                  stack, doing, outcome, waiters, microtasks, control>>
  BY DEF program, callers
<1>3. /\ Len(evaluating) \in Nat /\ Len(evaluating) > 0
      /\ DOMAIN evaluating = 1..Len(evaluating)
      /\ m = evaluating[Len(evaluating)] /\ m \in Modules /\ state[m] = "preparing"
  BY <1>1, TopFacts
<1>4. /\ evaluating' \in Seq(Modules) /\ DOMAIN evaluating' = 1..(Len(evaluating) - 1)
      /\ \A a \in 1..(Len(evaluating) - 1) : evaluating'[a] = evaluating[a]
  BY <1>1, FrontFacts DEF LoaderTypeOK
<1> HIDE DEF m
<1>5. /\ state' \in [Modules -> States] /\ state'[m] = "evaluated"
      /\ \A n \in Modules : n # m => state'[n] = state[n]
  BY <1>1, <1>3 DEF LoaderTypeOK, States, Registered, Evaluatable, m
<1>6. ToSet(evaluating') = ToSet(evaluating) \ {m}
  <2>1. \A n : n \in ToSet(evaluating') <=> \E a \in 1..(Len(evaluating) - 1) : n = evaluating[a]
    BY <1>4 DEF ToSet
  <2>2. \A n : n \in ToSet(evaluating) <=> \E a \in 1..Len(evaluating) : n = evaluating[a]
    BY <1>3 DEF ToSet
  <2>3. \A a \in 1..Len(evaluating) : evaluating[a] = m <=> a = Len(evaluating)
    <3>1. Len(evaluating) \in DOMAIN evaluating
      BY <1>3
    <3>2. \A a \in DOMAIN evaluating :
              evaluating[a] = evaluating[Len(evaluating)] => a = Len(evaluating)
      BY <1>1, <3>1 DEF EvaluateInv
    <3> QED
      BY <1>3, <3>2
  <2>4. 1..(Len(evaluating) - 1) = 1..Len(evaluating) \ {Len(evaluating)}
    BY <1>3
  <2>5. \A n : n \in ToSet(evaluating') <=> n \in ToSet(evaluating) /\ n # m
    BY <2>1, <2>2, <2>3, <2>4
  <2> QED
    BY <2>5
<1>7. \A n \in Modules : state'[n] = "preparing" <=> n \in ToSet(evaluating')
  BY <1>1, <1>5, <1>6 DEF LoaderTypeOK
<1>8. LoaderTypeOK'
  BY <1>1, <1>2, <1>4, <1>5, <1>7 DEF LoaderTypeOK
<1>9. PlaceInv'
  BY <1>1, <1>2 DEF PlaceInv
<1>10. FetchInv'
  <2>1. \A j \in Importers : doing[j] = "fetching" => state'[Module(j)] = state[Module(j)]
    <3> SUFFICES ASSUME NEW j \in Importers, doing[j] = "fetching"
                 PROVE  state'[Module(j)] = state[Module(j)]
      OBVIOUS
    <3>1. Module(j) \in Modules
      BY <1>1, ActiveFacts DEF PlaceInv
    <3> QED
      BY <1>1, <1>3, <1>5, <3>1 DEF FetchInv
  <2> QED
    BY <1>1, <1>2, <2>1 DEF FetchInv, Module, Active
<1>11. StackInv'
  <2>1. \A d \in Modules : isRegistered(d) => state'[d] \in Registered
    BY <1>5 DEF isRegistered, Registered, Evaluatable
  <2>2. \A j \in Importers : \A a \in DOMAIN stack[j] : stack[j][a].completing \subseteq Modules
    <3> SUFFICES ASSUME NEW j \in Importers, NEW a \in DOMAIN stack[j]
                 PROVE  stack[j][a] \in Activation
      BY DEF Activation
    <3> QED
      BY <1>1, LenProperties, ElementOfSeq DEF LoaderTypeOK
  <2> QED
    BY <1>1, <1>2, <2>1, <2>2 DEF StackInv, Reaches, isRegistered
<1>12. EvaluateInv'
  <2>1. evaluating' # <<>> => evaluating'[1] = Module(control)
    <3> SUFFICES ASSUME evaluating' # <<>> PROVE evaluating'[1] = Module(control)
      OBVIOUS
    <3>1. 1 \in DOMAIN evaluating'
      BY <1>4, NotEmpty
    <3> QED
      BY <1>1, <1>3, <1>4, <3>1 DEF EvaluateInv
  <2> QED
    BY <1>1, <1>2, <1>3, <1>4, <2>1 DEF EvaluateInv, Reaches, Module, Active
<1> QED
  BY <1>8, <1>9, <1>10, <1>11, <1>12 DEF LoaderInv

(* ... an importer that gets the control, ... *)
LEMMA ResumeKeeps ==
    ASSUME LoaderInv, NEW i \in Importers, Resume(i)
    PROVE  LoaderInv'
<1>1. /\ LoaderTypeOK /\ PlaceInv /\ FetchInv /\ StackInv /\ EvaluateInv
      /\ control = Nobody /\ evaluating = <<>>
  BY DEF LoaderInv, LoaderTypeOK, Resume
<1>2. /\ UNCHANGED <<dependencyList, source, throwing, wants, state, dependencies,
                     evaluating, stack, outcome, waiters>>
      /\ control' = i
      /\ doing' = [doing EXCEPT ![i] = "running"]
  BY DEF Resume, program, modules
<1>3. /\ microtasks' \in Seq(Importers \cup Modules)
      /\ doing[i] \in {"new", "running", "waiting"}
      /\ \A a \in DOMAIN microtasks' : microtasks'[a] # i
      /\ \E n \in {0, 1} : \A a \in DOMAIN microtasks' :
            a + n \in DOMAIN microtasks /\ microtasks'[a] = microtasks[a + n]
      /\ DOMAIN microtasks' \subseteq Nat
  <2>1. CASE doing[i] = "new" /\ UNCHANGED microtasks
    <3>1. DOMAIN microtasks \subseteq Nat /\ microtasks \in Seq(Importers \cup Modules)
      BY <1>1, LenProperties DEF LoaderTypeOK
    <3>2. \A a \in DOMAIN microtasks : microtasks[a] # i
      BY <1>1, <2>1 DEF PlaceInv
    <3>3. \A a \in DOMAIN microtasks : a + 0 = a
      BY <3>1
    <3> QED
      BY <2>1, <3>1, <3>2, <3>3
  <2>2. CASE microtasks # <<>> /\ i = Head(microtasks) /\ microtasks' = Tail(microtasks)
    <3>1. /\ microtasks \in Seq(Importers \cup Modules) /\ Len(microtasks) \in Nat
          /\ DOMAIN microtasks = 1..Len(microtasks)
          /\ 1 \in DOMAIN microtasks /\ microtasks[1] = i
      BY <1>1, <2>2, NotEmpty, LenProperties DEF LoaderTypeOK
    <3>2. /\ microtasks' \in Seq(Importers \cup Modules)
          /\ DOMAIN microtasks' = 1..(Len(microtasks) - 1)
          /\ \A a \in 1..(Len(microtasks) - 1) : microtasks'[a] = microtasks[a + 1]
      BY <2>2, <3>1, TailFacts
    <3>3. /\ doing[i] \in {"running", "waiting"}
          /\ \A b \in DOMAIN microtasks : microtasks[b] = i => b = 1
      BY <1>1, <3>1 DEF PlaceInv
    <3>4. \A a \in DOMAIN microtasks' :
              /\ a \in Nat /\ a + 1 \in DOMAIN microtasks /\ a + 1 # 1
              /\ microtasks'[a] = microtasks[a + 1]
      BY <3>1, <3>2
    <3>5. \A a \in DOMAIN microtasks' : microtasks'[a] # i
      BY <3>3, <3>4
    <3> QED
      BY <3>2, <3>3, <3>4, <3>5
  <2> QED
    BY <2>1, <2>2 DEF Resume
<1>4. /\ doing'[i] = "running" /\ \A j \in Importers : j # i => doing'[j] = doing[j]
      /\ doing' \in [Importers -> {"new", "running", "fetching", "waiting", "done"}]
  BY <1>1, <1>2 DEF LoaderTypeOK
<1>5. LoaderTypeOK'
  BY <1>1, <1>2, <1>3, <1>4 DEF LoaderTypeOK
<1>6. \A m \in Modules : \A a \in DOMAIN waiters[m] :
          waiters[m][a] # i /\ waiters[m][a] \in Importers
  <2>1. \A m \in Modules : \A a \in DOMAIN waiters[m] : waiters[m][a] \in Importers
    BY <1>1, LenProperties, ElementOfSeq DEF LoaderTypeOK
  <2>2. CASE doing[i] # "waiting"
    BY <1>1, <2>1, <2>2 DEF PlaceInv
  <2>3. CASE doing[i] = "waiting"
    <3>1. microtasks # <<>> /\ i = Head(microtasks)
      BY <2>3 DEF Resume
    <3>2. 1 \in DOMAIN microtasks /\ microtasks[1] = i
      BY <1>1, <3>1, NotEmpty DEF LoaderTypeOK
    <3> QED
      BY <1>1, <2>1, <3>2 DEF PlaceInv
  <2> QED
    BY <2>2, <2>3
<1>7. PlaceInv'
  <2>1. \A j \in Importers : /\ doing'[j] # "done" => stack'[j] # <<>>
                             /\ control' = j => doing'[j] = "running"
    BY <1>1, <1>2, <1>3, <1>4 DEF PlaceInv
  <2>2. PICK n \in {0, 1} : \A a \in DOMAIN microtasks' :
            a + n \in DOMAIN microtasks /\ microtasks'[a] = microtasks[a + n]
    BY <1>3
  <2>3. ASSUME NEW a \in DOMAIN microtasks', microtasks'[a] \in Importers
        PROVE  /\ doing'[microtasks'[a]] \in {"running", "waiting"}
               /\ control' # microtasks'[a]
               /\ \A b \in DOMAIN microtasks' : microtasks'[b] = microtasks'[a] => b = a
    <3>1. \A b \in DOMAIN microtasks' : microtasks'[b] = microtasks'[a] => b + n = a + n
      BY <1>1, <2>2, <2>3 DEF PlaceInv
    <3>2. \A b \in DOMAIN microtasks' : b \in Nat
      BY <1>3
    <3>3. doing[microtasks'[a]] \in {"running", "waiting"} /\ microtasks'[a] # i
      BY <1>1, <1>3, <2>2, <2>3 DEF PlaceInv
    <3> QED
      BY <1>2, <1>4, <2>3, <3>1, <3>2, <3>3
  <2>4. ASSUME NEW m \in Modules, NEW a \in DOMAIN waiters'[m]
        PROVE  /\ doing'[waiters'[m][a]] = "waiting"
               /\ \A b \in DOMAIN microtasks' : microtasks'[b] # waiters'[m][a]
               /\ \A l \in Modules : \A b \in DOMAIN waiters'[l] :
                     waiters'[l][b] = waiters'[m][a] => l = m /\ b = a
    BY <1>1, <1>2, <1>4, <1>6, <2>2, <2>4 DEF PlaceInv
  <2> QED
    BY <2>1, <2>3, <2>4 DEF PlaceInv
<1>8. FetchInv'
  BY <1>1, <1>2, <1>4 DEF FetchInv, Module, Active
<1>9. StackInv' /\ EvaluateInv'
  BY <1>1, <1>2, EmptySeq DEF StackInv, EvaluateInv, Reaches, isRegistered
<1> QED
  BY <1>5, <1>7, <1>8, <1>9 DEF LoaderInv

(* ... a deferred that is settled, ... *)
LEMMA SettleKeeps ==
    ASSUME LoaderInv, NEW m \in Modules, SettleFetch(m)
    PROVE  LoaderInv'
<1>1. /\ LoaderTypeOK /\ PlaceInv /\ FetchInv /\ StackInv /\ EvaluateInv
      /\ control = Nobody /\ evaluating = <<>>
  BY DEF LoaderInv, LoaderTypeOK, SettleFetch
<1>2. /\ UNCHANGED <<dependencyList, source, throwing, wants, state, dependencies,
                     evaluating, stack, doing, outcome, control>>
      /\ waiters' = [waiters EXCEPT ![m] = <<>>]
      /\ microtasks # <<>>
  BY DEF SettleFetch, program, modules, callers
<1> DEFINE t == Tail(microtasks)
           w == waiters[m]
           n == Len(microtasks)
<1>3. /\ t \in Seq(Importers \cup Modules) /\ Len(t) = n - 1 /\ n \in Nat /\ n > 0
      /\ DOMAIN microtasks = 1..n
      /\ \A a \in 1..(n - 1) : t[a] = microtasks[a + 1]
  BY <1>1, <1>2, NotEmpty, TailFacts, LenProperties DEF LoaderTypeOK
<1>4. /\ w \in Seq(Importers) /\ w \in Seq(Importers \cup Modules)
      /\ Len(w) \in Nat /\ DOMAIN w = 1..Len(w) /\ \A a \in 1..Len(w) : w[a] \in Importers
  <2>1. w \in Seq(Importers)
    BY <1>1 DEF LoaderTypeOK
  <2> HIDE DEF w
  <2>2. /\ Len(w) \in Nat /\ DOMAIN w = 1..Len(w) /\ w \in [1..Len(w) -> Importers]
        /\ \A a \in 1..Len(w) : w[a] \in Importers
    BY <2>1, LenProperties, ElementOfSeq
  <2>3. w \in Seq(Importers \cup Modules)
    BY <2>1, SeqMonotonic
  <2> QED
    BY <2>1, <2>2, <2>3
<1>5. microtasks' = t \o w
  BY DEF SettleFetch
<1> HIDE DEF t, w, n
<1>6. /\ microtasks' \in Seq(Importers \cup Modules)
      /\ DOMAIN microtasks' = 1..((n - 1) + Len(w))
      /\ \A a \in 1..(n - 1) : microtasks'[a] = t[a]
      /\ \A a \in 1..Len(w) : microtasks'[(n - 1) + a] = w[a]
  <2>1. /\ t \o w \in Seq(Importers \cup Modules) /\ Len(t \o w) = Len(t) + Len(w)
        /\ \A a \in 1..Len(t) : (t \o w)[a] = t[a]
        /\ \A a \in 1..Len(w) : (t \o w)[Len(t) + a] = w[a]
    <3> DEFINE All == Importers \cup Modules
    <3>1. t \in Seq(All) /\ w \in Seq(All)
      BY <1>3, <1>4
    <3> HIDE DEF All
    <3>2. /\ t \o w \in Seq(All) /\ Len(t \o w) = Len(t) + Len(w)
          /\ \A a \in 1..Len(t) : (t \o w)[a] = t[a]
          /\ \A a \in 1..Len(w) : (t \o w)[Len(t) + a] = w[a]
      BY <3>1, ConcatFacts
    <3> QED
      BY <3>2 DEF All
  <2> QED
    BY <1>3, <1>5, <2>1, LenProperties
(* A new place is an old one, or one among who waited. *)
<1>7. \A a \in DOMAIN microtasks' :
          \/ a \in 1..(n - 1) /\ a + 1 \in DOMAIN microtasks /\ microtasks'[a] = microtasks[a + 1]
          \/ /\ a - (n - 1) \in DOMAIN w /\ a \notin 1..(n - 1)
             /\ microtasks'[a] = w[a - (n - 1)]
  <2> SUFFICES ASSUME NEW a \in DOMAIN microtasks'
      PROVE \/ a \in 1..(n - 1) /\ a + 1 \in DOMAIN microtasks /\ microtasks'[a] = microtasks[a + 1]
            \/ /\ a - (n - 1) \in DOMAIN w /\ a \notin 1..(n - 1)
               /\ microtasks'[a] = w[a - (n - 1)]
    OBVIOUS
  <2>1. CASE a \in 1..(n - 1)
    BY <1>3, <1>6, <2>1
  <2>2. CASE a \notin 1..(n - 1)
    <3> DEFINE b == a - (n - 1)
    <3>1. b \in 1..Len(w) /\ (n - 1) + b = a
      BY <1>3, <1>4, <1>6, <2>2
    <3> HIDE DEF b
    <3>2. microtasks'[a] = w[b]
      BY <1>6, <3>1
    <3> QED
      BY <1>4, <2>2, <3>1, <3>2 DEF b
  <2> QED
    BY <2>1, <2>2
<1>8. /\ waiters' \in [Modules -> Seq(Importers)] /\ DOMAIN waiters'[m] = {}
      /\ \A l \in Modules : l # m => waiters'[l] = waiters[l]
  BY <1>1, <1>2, EmptySeq DEF LoaderTypeOK
<1>9. LoaderTypeOK'
  BY <1>1, <1>2, <1>6, <1>8 DEF LoaderTypeOK
<1>10. \A a \in DOMAIN w : /\ doing[w[a]] = "waiting" /\ w[a] \in Importers
                           /\ \A b \in DOMAIN microtasks : microtasks[b] # w[a]
                           /\ \A l \in Modules : \A b \in DOMAIN waiters[l] :
                                 waiters[l][b] = w[a] => l = m /\ b = a
  BY <1>1, <1>4 DEF PlaceInv, w
<1>11. PlaceInv'
  <2>1. \A j \in Importers : /\ doing'[j] # "done" => stack'[j] # <<>>
                             /\ control' = j => doing'[j] = "running"
    BY <1>1, <1>2 DEF PlaceInv
  <2>2. ASSUME NEW a \in DOMAIN microtasks', microtasks'[a] \in Importers
        PROVE  /\ doing'[microtasks'[a]] \in {"running", "waiting"}
               /\ control' # microtasks'[a]
               /\ \A b \in DOMAIN microtasks' : microtasks'[b] = microtasks'[a] => b = a
    <3>1. CASE a \in 1..(n - 1) /\ a + 1 \in DOMAIN microtasks /\ microtasks'[a] = microtasks[a + 1]
      <4>1. /\ doing[microtasks[a + 1]] \in {"running", "waiting"}
            /\ control # microtasks[a + 1]
            /\ \A b \in DOMAIN microtasks : microtasks[b] = microtasks[a + 1] => b = a + 1
        BY <1>1, <2>2, <3>1 DEF PlaceInv
      <4>2. ASSUME NEW b \in DOMAIN microtasks', microtasks'[b] = microtasks'[a] PROVE b = a
        <5>1. b \in 1..(n - 1) /\ b + 1 \in DOMAIN microtasks /\ microtasks'[b] = microtasks[b + 1]
          BY <1>7, <1>10, <3>1, <4>2
        <5>2. b + 1 = a + 1
          BY <3>1, <4>1, <4>2, <5>1
        <5> QED
          BY <1>3, <3>1, <5>1, <5>2
      <4> QED
        BY <1>2, <3>1, <4>1, <4>2
    <3>2. CASE a - (n - 1) \in DOMAIN w /\ a \notin 1..(n - 1) /\ microtasks'[a] = w[a - (n - 1)]
      <4>1. doing[microtasks'[a]] = "waiting" /\ \A b \in DOMAIN microtasks : microtasks[b] # microtasks'[a]
        BY <1>10, <3>2
      <4>2. ASSUME NEW b \in DOMAIN microtasks', microtasks'[b] = microtasks'[a] PROVE b = a
        <5>1. b - (n - 1) \in DOMAIN w /\ microtasks'[b] = w[b - (n - 1)]
          BY <1>7, <4>1, <4>2
        <5>2. \A c, e \in DOMAIN w : w[c] = w[e] => c = e
          BY <1>10 DEF w
        <5>3. b - (n - 1) = a - (n - 1)
          BY <3>2, <4>2, <5>1, <5>2
        <5>4. a \in Int /\ b \in Int /\ n \in Int
          BY <1>3, <1>4, <1>6
        <5> QED
          BY <5>3, <5>4
      <4> QED
        BY <1>1, <1>2, <2>2, <4>1, <4>2, NamesAssumption
    <3> QED
      BY <1>7, <3>1, <3>2
  <2>3. ASSUME NEW l \in Modules, NEW a \in DOMAIN waiters'[l]
        PROVE  /\ doing'[waiters'[l][a]] = "waiting"
               /\ \A b \in DOMAIN microtasks' : microtasks'[b] # waiters'[l][a]
               /\ \A k \in Modules : \A b \in DOMAIN waiters'[k] :
                     waiters'[k][b] = waiters'[l][a] => k = l /\ b = a
    <3>1. l # m /\ waiters'[l] = waiters[l]
      BY <1>8, <2>3
    <3>2. /\ doing[waiters[l][a]] = "waiting"
          /\ \A b \in DOMAIN microtasks : microtasks[b] # waiters[l][a]
          /\ \A k \in Modules : \A b \in DOMAIN waiters[k] :
                     waiters[k][b] = waiters[l][a] => k = l /\ b = a
      BY <1>1, <2>3, <3>1 DEF PlaceInv
    <3>3. \A b \in DOMAIN w : w[b] # waiters[l][a]
      BY <1>10, <2>3, <3>1
    <3>4. \A b \in DOMAIN microtasks' : microtasks'[b] # waiters[l][a]
      BY <1>7, <3>2, <3>3
    <3> QED
      BY <1>2, <1>8, <3>1, <3>2, <3>4
  <2> QED
    BY <2>1, <2>2, <2>3 DEF PlaceInv
<1>12. FetchInv' /\ StackInv' /\ EvaluateInv'
  BY <1>1, <1>2
     DEF FetchInv, StackInv, EvaluateInv, Reaches, isRegistered, Module, Active
<1> QED
  BY <1>9, <1>11, <1>12 DEF LoaderInv

(* ... a fetch that begins, ... *)
LEMMA StartFetchKeeps ==
    ASSUME LoaderInv, NEW i \in Importers, StartFetch(i)
    PROVE  LoaderInv'
<1> DEFINE m == Module(i)
<1>1. /\ LoaderTypeOK /\ PlaceInv /\ FetchInv /\ StackInv /\ EvaluateInv
      /\ control = i /\ doing[i] = "running" /\ stack[i] # <<>> /\ evaluating = <<>>
      /\ \A a \in DOMAIN microtasks : microtasks[a] # i
      /\ \A l \in Modules : \A a \in DOMAIN waiters[l] : waiters[l][a] # i
      /\ outcome[i] = "none" /\ state[m] = "absent" /\ m \in Modules
  BY ControlFacts, ActiveFacts DEF LoaderInv, StartFetch
<1>2. /\ UNCHANGED <<dependencyList, source, throwing, wants, dependencies,
                     evaluating, stack, outcome, waiters, microtasks>>
      /\ control' = Nobody
      /\ state' = [state EXCEPT ![m] = "fetching"]
      /\ doing' = [doing EXCEPT ![i] = "fetching"]
  BY DEF StartFetch, program
<1> HIDE DEF m
<1>3. /\ state' \in [Modules -> States] /\ state'[m] = "fetching"
      /\ \A l \in Modules : l # m => state'[l] = state[l]
      /\ doing' \in [Importers -> {"new", "running", "fetching", "waiting", "done"}]
      /\ doing'[i] = "fetching" /\ \A j \in Importers : j # i => doing'[j] = doing[j]
  BY <1>1, <1>2 DEF LoaderTypeOK, States
<1>4. LoaderTypeOK'
  BY <1>1, <1>2, <1>3 DEF LoaderTypeOK
<1>5. \A l \in Modules : \A a \in DOMAIN waiters[l] : waiters[l][a] \in Importers
  BY <1>1, LenProperties, ElementOfSeq DEF LoaderTypeOK
<1>6. PlaceInv'
  BY <1>1, <1>2, <1>3, <1>5, NamesAssumption DEF PlaceInv
<1>7. FetchInv'
  <2>1. \A j \in Importers : doing[j] = "fetching" =>
            Module(j) \in Modules /\ Module(j) # m /\ state'[Module(j)] = "fetching"
    <3> SUFFICES ASSUME NEW j \in Importers, doing[j] = "fetching"
                 PROVE  Module(j) \in Modules /\ Module(j) # m /\ state'[Module(j)] = "fetching"
      OBVIOUS
    <3>1. Module(j) \in Modules
      BY <1>1, ActiveFacts DEF PlaceInv
    <3> QED
      BY <1>1, <1>3, <3>1 DEF FetchInv
  <2> QED
    BY <1>1, <1>2, <1>3, <2>1 DEF FetchInv, Module, Active, m
<1>8. StackInv'
  <2>1. \A d \in Modules : isRegistered(d) => state'[d] \in Registered
    BY <1>1, <1>3 DEF isRegistered, Registered, Evaluatable
  <2>2. \A j \in Importers : \A a \in DOMAIN stack[j] : stack[j][a].completing \subseteq Modules
    <3> SUFFICES ASSUME NEW j \in Importers, NEW a \in DOMAIN stack[j]
                 PROVE  stack[j][a] \in Activation
      BY DEF Activation
    <3> QED
      BY <1>1, LenProperties, ElementOfSeq DEF LoaderTypeOK
  <2> QED
    BY <1>1, <1>2, <2>1, <2>2, ZenonT(60) DEF StackInv, Reaches, isRegistered
<1>9. EvaluateInv'
  BY <1>1, <1>2, EmptySeq DEF EvaluateInv
<1> QED
  BY <1>4, <1>6, <1>7, <1>8, <1>9 DEF LoaderInv

(* ... is awaited, ... *)
LEMMA AwaitFetchKeeps ==
    ASSUME LoaderInv, NEW i \in Importers, AwaitFetch(i)
    PROVE  LoaderInv'
<1> DEFINE m == Module(i)
           w == waiters[m]
<1>1. /\ LoaderTypeOK /\ PlaceInv /\ FetchInv /\ StackInv /\ EvaluateInv
      /\ control = i /\ doing[i] = "running" /\ stack[i] # <<>> /\ evaluating = <<>>
      /\ \A a \in DOMAIN microtasks : microtasks[a] # i
      /\ \A l \in Modules : \A a \in DOMAIN waiters[l] : waiters[l][a] # i
      /\ outcome[i] = "none" /\ state[m] = "fetching" /\ m \in Modules
  BY ControlFacts, ActiveFacts DEF LoaderInv, AwaitFetch
<1>2. /\ UNCHANGED <<dependencyList, source, throwing, wants, state, dependencies,
                     evaluating, stack, outcome, microtasks>>
      /\ control' = Nobody
      /\ waiters' = [waiters EXCEPT ![m] = Append(w, i)]
      /\ doing' = [doing EXCEPT ![i] = "waiting"]
  BY DEF AwaitFetch, program, modules
<1>3. w \in Seq(Importers)
  BY <1>1 DEF LoaderTypeOK
<1> HIDE DEF m, w
<1>4. /\ Append(w, i) \in Seq(Importers)
      /\ Len(w) \in Nat /\ DOMAIN w = 1..Len(w)
      /\ DOMAIN Append(w, i) = 1..(Len(w) + 1)
      /\ \A a \in 1..Len(w) : Append(w, i)[a] = w[a]
      /\ Append(w, i)[Len(w) + 1] = i
  BY <1>3, AppendFacts
<1>5. /\ waiters' \in [Modules -> Seq(Importers)] /\ waiters'[m] = Append(w, i)
      /\ \A l \in Modules : l # m => waiters'[l] = waiters[l]
      /\ doing' \in [Importers -> {"new", "running", "fetching", "waiting", "done"}]
      /\ doing'[i] = "waiting" /\ \A j \in Importers : j # i => doing'[j] = doing[j]
  BY <1>1, <1>2, <1>4 DEF LoaderTypeOK
(* A new place is an old one, or the last. *)
<1>6. \A l \in Modules : \A a \in DOMAIN waiters'[l] :
          \/ /\ a \in DOMAIN waiters[l] /\ waiters'[l][a] = waiters[l][a]
             /\ waiters[l][a] \in Importers /\ waiters[l][a] # i
          \/ l = m /\ a = Len(w) + 1 /\ waiters'[l][a] = i
  <2> SUFFICES ASSUME NEW l \in Modules, NEW a \in DOMAIN waiters'[l]
      PROVE \/ /\ a \in DOMAIN waiters[l] /\ waiters'[l][a] = waiters[l][a]
               /\ waiters[l][a] \in Importers /\ waiters[l][a] # i
            \/ l = m /\ a = Len(w) + 1 /\ waiters'[l][a] = i
    OBVIOUS
  <2>1. \A b \in DOMAIN waiters[l] : waiters[l][b] \in Importers /\ waiters[l][b] # i
    BY <1>1, LenProperties, ElementOfSeq DEF LoaderTypeOK
  <2>2. CASE l # m
    BY <1>5, <2>1, <2>2
  <2>3. CASE l = m
    <3>1. w = waiters[l]
      BY <2>3 DEF w
    <3>2. CASE a \in 1..Len(w)
      BY <1>4, <1>5, <2>1, <2>3, <3>1, <3>2
    <3>3. CASE a = Len(w) + 1
      BY <1>4, <1>5, <2>3, <3>3
    <3> QED
      BY <1>4, <1>5, <2>3, <3>2, <3>3
  <2> QED
    BY <2>2, <2>3
<1>7. LoaderTypeOK'
  BY <1>1, <1>2, <1>5 DEF LoaderTypeOK
<1>8. PlaceInv'
  <2>1. \A j \in Importers : /\ doing'[j] # "done" => stack'[j] # <<>>
                             /\ control' = j => doing'[j] = "running"
    BY <1>1, <1>2, <1>5, NamesAssumption DEF PlaceInv
  <2>2. \A a \in DOMAIN microtasks : microtasks[a] \in Importers =>
            /\ doing'[microtasks[a]] \in {"running", "waiting"}
            /\ control' # microtasks[a]
            /\ \A b \in DOMAIN microtasks : microtasks[b] = microtasks[a] => b = a
    BY <1>1, <1>2, <1>5, NamesAssumption DEF PlaceInv
  <2>3. ASSUME NEW l \in Modules, NEW a \in DOMAIN waiters'[l]
        PROVE  /\ doing'[waiters'[l][a]] = "waiting"
               /\ \A b \in DOMAIN microtasks : microtasks[b] # waiters'[l][a]
               /\ \A k \in Modules : \A b \in DOMAIN waiters'[k] :
                     waiters'[k][b] = waiters'[l][a] => k = l /\ b = a
    <3>1. CASE l = m /\ a = Len(w) + 1 /\ waiters'[l][a] = i
      BY <1>1, <1>5, <1>6, <3>1
    <3>2. CASE /\ a \in DOMAIN waiters[l] /\ waiters'[l][a] = waiters[l][a]
               /\ waiters[l][a] \in Importers /\ waiters[l][a] # i
      <4>1. /\ doing[waiters[l][a]] = "waiting"
            /\ \A b \in DOMAIN microtasks : microtasks[b] # waiters[l][a]
            /\ \A k \in Modules : \A b \in DOMAIN waiters[k] :
                     waiters[k][b] = waiters[l][a] => k = l /\ b = a
        BY <1>1, <3>2 DEF PlaceInv
      <4> QED
        BY <1>5, <1>6, <3>2, <4>1
    <3> QED
      BY <1>6, <2>3, <3>1, <3>2
  <2> QED
    BY <1>2, <2>1, <2>2, <2>3 DEF PlaceInv
<1>9. FetchInv'
  BY <1>1, <1>2, <1>5 DEF FetchInv, Module, Active
<1>10. StackInv' /\ EvaluateInv'
  BY <1>1, <1>2, EmptySeq DEF StackInv, EvaluateInv, Reaches, isRegistered
<1> QED
  BY <1>7, <1>8, <1>9, <1>10 DEF LoaderInv

(* ... and succeeds. *)
LEMMA FetchSucceedsKeeps ==
    ASSUME LoaderInv, NEW i \in Importers, FetchSucceeds(i)
    PROVE  LoaderInv'
<1> DEFINE m == Module(i)
           n == Len(microtasks)
<1>1. /\ LoaderTypeOK /\ PlaceInv /\ FetchInv /\ StackInv /\ EvaluateInv
      /\ control = Nobody /\ doing[i] = "fetching" /\ stack[i] # <<>> /\ evaluating = <<>>
      /\ outcome[i] = "none" /\ state[m] = "fetching"
  BY DEF LoaderInv, LoaderTypeOK, PlaceInv, FetchInv, FetchSucceeds, Loaded
<1>2. m \in Modules /\ m \notin Importers
  BY <1>1, ActiveFacts, NamesAssumption
<1>3. /\ \A a \in DOMAIN microtasks : microtasks[a] # i
      /\ \A l \in Modules : \A a \in DOMAIN waiters[l] : waiters[l][a] # i
  BY <1>1 DEF PlaceInv
<1>4. PICK st \in {"registered", "evaluated"} : state' = [state EXCEPT ![m] = st]
  BY DEF FetchSucceeds
<1>5. /\ UNCHANGED <<dependencyList, source, throwing, wants, dependencies,
                     evaluating, stack, outcome, waiters, control>>
      /\ microtasks' = microtasks \o <<m, i>>
      /\ doing' = [doing EXCEPT ![i] = "running"]
  BY DEF FetchSucceeds, program
<1> HIDE DEF m, n
<1>6. /\ state' \in [Modules -> States] /\ state'[m] \in {"registered", "evaluated"}
      /\ \A l \in Modules : l # m => state'[l] = state[l]
      /\ doing' \in [Importers -> {"new", "running", "fetching", "waiting", "done"}]
      /\ doing'[i] = "running" /\ \A j \in Importers : j # i => doing'[j] = doing[j]
  BY <1>1, <1>2, <1>4, <1>5 DEF LoaderTypeOK, States, Registered, Evaluatable
<1>7. /\ microtasks' \in Seq(Importers \cup Modules)
      /\ n \in Nat /\ DOMAIN microtasks = 1..n /\ DOMAIN microtasks' = 1..(n + 2)
      /\ \A a \in 1..n : microtasks'[a] = microtasks[a]
      /\ microtasks'[n + 1] = m /\ microtasks'[n + 2] = i
  <2> DEFINE All == Importers \cup Modules
             two == <<m, i>>
  <2>1. two \in Seq(All) /\ Len(two) = 2 /\ two[1] = m /\ two[2] = i
    BY <1>2
  <2>2. microtasks \in Seq(All) /\ microtasks' = microtasks \o two
    BY <1>1, <1>5 DEF LoaderTypeOK
  <2>3. n \in Nat /\ DOMAIN microtasks = 1..n
    BY <2>2, LenProperties DEF n
  <2> HIDE DEF All, two
  <2>4. /\ microtasks \o two \in Seq(All) /\ Len(microtasks \o two) = Len(microtasks) + Len(two)
        /\ \A a \in 1..Len(microtasks) : (microtasks \o two)[a] = microtasks[a]
        /\ \A a \in 1..Len(two) : (microtasks \o two)[Len(microtasks) + a] = two[a]
    <3>1. microtasks \in Seq(All) /\ two \in Seq(All)
      BY <2>1, <2>2
    <3> QED
      BY <3>1, ConcatFacts
  <2>5. /\ microtasks' \in Seq(All) /\ Len(microtasks') = n + 2
        /\ \A a \in 1..n : microtasks'[a] = microtasks[a]
        /\ \A a \in 1..2 : microtasks'[n + a] = two[a]
    BY <2>1, <2>2, <2>4 DEF n
  <2>6. DOMAIN microtasks' = 1..(n + 2)
    BY <2>5, LenProperties
  <2> QED
    BY <2>1, <2>3, <2>5, <2>6 DEF All
<1>8. \A l \in Modules : state'[l] = "preparing" <=> state[l] = "preparing"
  BY <1>1, <1>6
<1>9. LoaderTypeOK'
  BY <1>1, <1>5, <1>6, <1>7, <1>8 DEF LoaderTypeOK
<1>10. \A l \in Modules : \A a \in DOMAIN waiters[l] : waiters[l][a] \in Importers
  BY <1>1, LenProperties, ElementOfSeq DEF LoaderTypeOK
<1>11. PlaceInv'
  <2>1. \A j \in Importers : /\ doing'[j] # "done" => stack'[j] # <<>>
                             /\ control' = j => doing'[j] = "running"
    BY <1>1, <1>5, <1>6 DEF PlaceInv
  <2>2. ASSUME NEW a \in DOMAIN microtasks', microtasks'[a] \in Importers
        PROVE  /\ doing'[microtasks'[a]] \in {"running", "waiting"}
               /\ control' # microtasks'[a]
               /\ \A b \in DOMAIN microtasks' : microtasks'[b] = microtasks'[a] => b = a
    <3>1. CASE a \in 1..n
      <4>1. /\ doing[microtasks[a]] \in {"running", "waiting"}
            /\ control # microtasks[a] /\ microtasks[a] # i
            /\ \A b \in DOMAIN microtasks : microtasks[b] = microtasks[a] => b = a
        BY <1>1, <1>3, <1>7, <2>2, <3>1 DEF PlaceInv
      <4>2. ASSUME NEW b \in DOMAIN microtasks', microtasks'[b] = microtasks'[a] PROVE b = a
        <5>1. b \in 1..n
          BY <1>2, <1>7, <2>2, <3>1, <4>1, <4>2
        <5> QED
          BY <1>7, <3>1, <4>1, <4>2, <5>1
      <4> QED
        BY <1>5, <1>6, <1>7, <2>2, <3>1, <4>1, <4>2
    <3>2. CASE a = n + 2
      <4>1. ASSUME NEW b \in DOMAIN microtasks', microtasks'[b] = i PROVE b = n + 2
        <5>1. b \notin 1..n /\ b # n + 1
          BY <1>2, <1>3, <1>7, <4>1
        <5> QED
          BY <1>7, <5>1
      <4> QED
        BY <1>1, <1>5, <1>6, <1>7, <3>2, <4>1, NamesAssumption
    <3> QED
      BY <1>2, <1>7, <2>2, <3>1, <3>2
  <2>3. ASSUME NEW l \in Modules, NEW a \in DOMAIN waiters[l]
        PROVE  /\ doing'[waiters[l][a]] = "waiting"
               /\ \A b \in DOMAIN microtasks' : microtasks'[b] # waiters[l][a]
               /\ \A k \in Modules : \A b \in DOMAIN waiters[k] :
                     waiters[k][b] = waiters[l][a] => k = l /\ b = a
    <3>1. /\ doing[waiters[l][a]] = "waiting"
          /\ \A b \in DOMAIN microtasks : microtasks[b] # waiters[l][a]
          /\ \A k \in Modules : \A b \in DOMAIN waiters[k] :
                     waiters[k][b] = waiters[l][a] => k = l /\ b = a
      BY <1>1, <2>3 DEF PlaceInv
    <3>2. waiters[l][a] # i /\ waiters[l][a] # m /\ waiters[l][a] \in Importers
      BY <1>2, <1>3, <1>10, <2>3
    <3>3. ASSUME NEW b \in DOMAIN microtasks' PROVE microtasks'[b] # waiters[l][a]
      <4>1. b \in 1..n \/ b = n + 1 \/ b = n + 2
        BY <1>7
      <4> QED
        BY <1>7, <3>1, <3>2, <4>1
    <3> QED
      BY <1>6, <3>1, <3>2, <3>3
  <2> QED
    BY <1>5, <2>1, <2>2, <2>3, SMTT(60) DEF PlaceInv
<1>12. FetchInv'
  <2>1. \A j \in Importers : doing'[j] = "fetching" =>
            /\ j # i /\ doing[j] = "fetching"
            /\ Module(j) \in Modules /\ Module(j) # m /\ state'[Module(j)] = "fetching"
    <3> SUFFICES ASSUME NEW j \in Importers, doing'[j] = "fetching"
                 PROVE  /\ j # i /\ doing[j] = "fetching"
                        /\ Module(j) \in Modules /\ Module(j) # m
                        /\ state'[Module(j)] = "fetching"
      OBVIOUS
    <3>1. j # i /\ doing[j] = "fetching"
      BY <1>6
    <3>2. Module(j) \in Modules
      BY <1>1, <3>1, ActiveFacts DEF PlaceInv
    <3>3. Module(j) # m
      BY <1>1, <3>1 DEF FetchInv, m
    <3> QED
      BY <1>1, <1>6, <3>1, <3>2, <3>3 DEF FetchInv
  <2> QED
    BY <1>1, <1>5, <2>1 DEF FetchInv, Module, Active
<1>13. StackInv'
  <2>1. \A d \in Modules : isRegistered(d) => state'[d] \in Registered
    BY <1>6 DEF isRegistered, Registered, Evaluatable
  <2>2. \A j \in Importers : \A a \in DOMAIN stack[j] : stack[j][a].completing \subseteq Modules
    <3> SUFFICES ASSUME NEW j \in Importers, NEW a \in DOMAIN stack[j]
                 PROVE  stack[j][a] \in Activation
      BY DEF Activation
    <3> QED
      BY <1>1, LenProperties, ElementOfSeq DEF LoaderTypeOK
  <2> QED
    BY <1>1, <1>5, <2>1, <2>2 DEF StackInv, Reaches, isRegistered
<1>14. EvaluateInv'
  BY <1>1, <1>5, EmptySeq DEF EvaluateInv
<1> QED
  BY <1>9, <1>11, <1>12, <1>13, <1>14 DEF LoaderInv

LEMMA FetchFailsKeeps ==
    ASSUME LoaderInv, NEW i \in Importers, FetchFails(i)
    PROVE  LoaderInv'
<1>1. /\ LoaderTypeOK /\ PlaceInv /\ FetchInv
      /\ control = Nobody /\ doing[i] = "fetching" /\ evaluating = <<>>
      /\ state[Module(i)] = "fetching" /\ Module(i) \in Modules
  <2>1. /\ LoaderTypeOK /\ PlaceInv /\ FetchInv
        /\ control = Nobody /\ doing[i] = "fetching" /\ evaluating = <<>>
        /\ stack[i] # <<>> /\ state[Module(i)] = "fetching"
    BY DEF LoaderInv, LoaderTypeOK, PlaceInv, FetchInv, FetchFails, Loaded
  <2> QED
    BY <2>1, ActiveFacts
<1>2. /\ \A a \in DOMAIN microtasks : microtasks[a] # i
      /\ \A l \in Modules : \A a \in DOMAIN waiters[l] : waiters[l][a] # i
  BY <1>1 DEF PlaceInv
<1>3. PICK st \in {"broken", "fetching"} : state' = [state EXCEPT ![Module(i)] = st]
  BY DEF FetchFails
<1>4. /\ Throw(i, "exception")
      /\ UNCHANGED <<program, dependencies, evaluating, waiters, microtasks>>
  BY DEF FetchFails
<1>5. /\ state' \in [Modules -> States] /\ state'[Module(i)] \in {"broken", "fetching"}
      /\ \A l \in Modules : l # Module(i) => state'[l] = state[l]
  BY <1>1, <1>3 DEF LoaderTypeOK, States, Registered, Evaluatable
<1>6. \A l \in Modules : state[l] # "preparing"
  BY <1>1, EmptySeq DEF LoaderTypeOK, ToSet
<1>7. \A l \in Modules : /\ state'[l] # "preparing"
                         /\ isRegistered(l) => state'[l] \in Registered
  BY <1>1, <1>5, <1>6 DEF isRegistered, Registered, Evaluatable
<1>8. ASSUME NEW j \in Importers, doing[j] = "fetching", j # i
      PROVE  state'[Module(j)] = "fetching"
  <2>1. Module(j) \in Modules
    BY <1>1, <1>8, ActiveFacts DEF PlaceInv
  <2>2. Module(j) # Module(i) /\ state[Module(j)] = "fetching"
    BY <1>1, <1>8 DEF FetchInv
  <2> QED
    BY <1>5, <2>1, <2>2
<1> QED
  BY <1>1, <1>2, <1>4, <1>5, <1>7, <1>8, ThrowKeeps DEF Failures

LEMMA ExpectedKeeps ==
    ASSUME LoaderInv, NEW i \in Importers, control = i, evaluating = <<>>,
           Throw(i, "expected"), UNCHANGED <<program, modules, waiters, microtasks>>
    PROVE  LoaderInv'
<1>1. /\ LoaderTypeOK /\ FetchInv
      /\ \A a \in DOMAIN microtasks : microtasks[a] # i
      /\ \A l \in Modules : \A a \in DOMAIN waiters[l] : waiters[l][a] # i
  BY ControlFacts DEF LoaderInv
<1>2. /\ state' = state /\ evaluating' = <<>>
      /\ UNCHANGED <<program, dependencies, waiters, microtasks>>
  BY DEF modules
<1>3. state' \in [Modules -> States] /\ "expected" \in Failures
  BY <1>1, <1>2 DEF LoaderTypeOK, Failures
<1>4. \A l \in Modules : /\ state'[l] # "preparing"
                         /\ isRegistered(l) => state'[l] \in Registered
  BY <1>1, <1>2, EmptySeq DEF LoaderTypeOK, ToSet, isRegistered
<1>5. \A j \in Importers :
          doing[j] = "fetching" /\ j # i => state'[Module(j)] = "fetching"
  BY <1>1, <1>2 DEF FetchInv
<1> QED
  BY <1>1, <1>2, <1>3, <1>4, <1>5, ThrowKeeps

LEMMA EvaluateThrowsKeeps ==
    ASSUME LoaderInv, NEW i \in Importers, control = i,
           NEW why \in Failures, EvaluateThrows(i, why)
    PROVE  LoaderInv'
<1>1. /\ LoaderTypeOK /\ PlaceInv /\ FetchInv
      /\ \A a \in DOMAIN microtasks : microtasks[a] # i
      /\ \A l \in Modules : \A a \in DOMAIN waiters[l] : waiters[l][a] # i
  BY ControlFacts DEF LoaderInv
<1>2. /\ Throw(i, why) /\ evaluating' = <<>>
      /\ state' = [m \in Modules |->
                      IF state[m] = "preparing" THEN "broken" ELSE state[m]]
      /\ UNCHANGED <<program, dependencies, waiters, microtasks>>
  BY DEF EvaluateThrows
<1>3. state' \in [Modules -> States]
  BY <1>1, <1>2 DEF LoaderTypeOK, States, Registered, Evaluatable
<1>4. \A l \in Modules : /\ state'[l] # "preparing"
                         /\ isRegistered(l) => state'[l] \in Registered
  BY <1>2 DEF isRegistered, Registered, Evaluatable
<1>5. ASSUME NEW j \in Importers, doing[j] = "fetching", j # i
      PROVE  state'[Module(j)] = "fetching"
  <2>1. Module(j) \in Modules
    BY <1>1, <1>5, ActiveFacts DEF PlaceInv
  <2> QED
    BY <1>1, <1>2, <1>5, <2>1 DEF FetchInv
<1> QED
  BY <1>1, <1>2, <1>3, <1>4, <1>5, ThrowKeeps

-----------------------------------------------------------------------------
(* The dependencies that the actions choose. *)

LEMMA NeedyFacts ==
    ASSUME LoaderTypeOK, NEW i \in Importers, stack[i] # <<>>,
           NEW S, S \subseteq DOMAIN dependencyList[Module(i)], S # {}
    PROVE  /\ Min(S) \in S
           /\ dependencyList[Module(i)][Min(S)] \in ToSet(dependencyList[Module(i)])
           /\ dependencyList[Module(i)][Min(S)] \in Modules
<1>1. Module(i) \in Modules
  BY ActiveFacts
<1>2. S \subseteq Nat
  BY <1>1, ListFacts
<1> QED
  BY <1>1, <1>2, ListFacts, MinFacts

LEMMA UnevaluatedFacts ==
    ASSUME LoaderTypeOK, evaluating # <<>>, Unevaluated(Last(evaluating)) # {}
    PROVE  LET m == Last(evaluating)
               k == Min(Unevaluated(m))
           IN  /\ m \in Modules /\ k \in Unevaluated(m)
               /\ dependencyList[m][k] \in ToSet(dependencyList[m])
               /\ dependencyList[m][k] \in Modules
<1> DEFINE m == Last(evaluating)
<1>1. m \in Modules
  BY TopFacts
<1>2. Unevaluated(m) \subseteq DOMAIN dependencyList[m] /\ Unevaluated(m) \subseteq Nat
  BY <1>1, ListFacts DEF Unevaluated
<1>3. Min(Unevaluated(m)) \in Unevaluated(m)
  BY <1>2, MinFacts
<1> QED
  BY <1>1, <1>2, <1>3, ListFacts

LEMMA StepLoaderInv == LoaderInv /\ [LoaderNext]_loaderVars => LoaderInv'
<1> SUFFICES ASSUME LoaderInv, [LoaderNext]_loaderVars PROVE LoaderInv'
  OBVIOUS
<1>1. /\ LoaderTypeOK /\ PlaceInv /\ FetchInv /\ StackInv /\ EvaluateInv
  BY DEF LoaderInv
<1>2. CASE UNCHANGED loaderVars
  <2>1. UNCHANGED <<dependencyList, source, throwing, wants, state, dependencies,
                    evaluating, stack, doing, outcome, waiters, microtasks, control>>
    BY <1>2 DEF loaderVars, program, modules, callers
  <2>2. LoaderTypeOK'
    BY <1>1, <2>1 DEF LoaderTypeOK
  <2>3. PlaceInv'
    BY <1>1, <2>1 DEF PlaceInv
  <2>4. FetchInv'
    BY <1>1, <2>1 DEF FetchInv, Module, Active
  <2>5. StackInv'
    BY <1>1, <2>1 DEF StackInv, Reaches, isRegistered
  <2>6. EvaluateInv'
    BY <1>1, <2>1 DEF EvaluateInv, Reaches, Module, Active
  <2> QED
    BY <2>2, <2>3, <2>4, <2>5, <2>6 DEF LoaderInv
<1>3. ASSUME NEW m \in Modules, SettleFetch(m) PROVE LoaderInv'
  BY <1>3, SettleKeeps
<1>4. ASSUME NEW i \in Importers, Step(i) PROVE LoaderInv'
  <2>1. CASE Resume(i)
    BY <2>1, ResumeKeeps
  <2>2. CASE StartFetch(i)
    BY <2>2, StartFetchKeeps
  <2>3. CASE FetchSucceeds(i)
    BY <2>3, FetchSucceedsKeeps
  <2>4. CASE FetchFails(i)
    BY <2>4, FetchFailsKeeps
  <2>5. CASE AwaitFetch(i)
    BY <2>5, AwaitFetchKeeps
  <2>6. CASE RegisterDep(i)
    <3> DEFINE list == dependencyList[Module(i)]
               needy == {k \in DOMAIN list : NeedsWork(i, k)}
               own == Active(i).completing \cup {Module(i)}
    <3>1. /\ control = i /\ state[Module(i)] = "registered" /\ needy # {}
          /\ Call(i, list[Min(needy)], "completing", own, Active(i).withDeps)
      BY <2>6 DEF RegisterDep
    <3>2. stack[i] # <<>>
      BY <3>1, ControlFacts
    <3>3. list[Min(needy)] \in ToSet(list)
      BY <1>1, <3>1, <3>2, NeedyFacts
    <3>4. /\ Active(i) \in Activation /\ Module(i) \in Modules
          /\ Len(stack[i]) \in DOMAIN stack[i] /\ Active(i) = stack[i][Len(stack[i])]
      BY <1>1, <3>2, ActiveFacts
    <3>5. own \in SUBSET Modules /\ Active(i).withDeps \in SUBSET Modules
      BY <3>4 DEF Activation
    <3>6. \A d \in own : isRegistered(d)
      BY <1>1, <3>1, <3>4 DEF StackInv, isRegistered, Registered
    <3> HIDE DEF list, needy, own
    <3>7. "completing" \in Targets
      BY DEF Targets
    <3> QED
      BY <3>1, <3>3, <3>5, <3>6, <3>7, CallKeeps DEF list
  <2>7. CASE DepsRegistered(i)
    <3> DEFINE list == dependencyList[Module(i)]
               deps == [k \in DOMAIN list |-> EvaluatableDep(list[k])]
    <3>1. /\ control = i /\ state[Module(i)] = "registered"
          /\ SetModule(i, "completing", deps)
      BY <2>7 DEF DepsRegistered
    <3>2. deps \in [DOMAIN dependencyList[Module(i)] -> {"dep", "completing-dep", "none"}]
      BY DEF EvaluatableDep
    <3> HIDE DEF deps
    <3> QED
      BY <3>1, <3>2, SetModuleKeeps
  <2>8. CASE CompleteDep(i)
    <3> DEFINE stops == {k \in DOMAIN dependencies[Module(i)] :
                            Unexpected(i, k) \/ NeedsDeps(i, k)}
               d == dependencyList[Module(i)][Min(stops)]
               own == Active(i).withDeps \cup {Module(i)}
    <3>1. /\ control = i /\ state[Module(i)] = "completing" /\ stops # {}
      BY <2>8 DEF CompleteDep, Completing
    <3>2. stack[i] # <<>> /\ evaluating = <<>>
      BY <3>1, ControlFacts
    <3>3. /\ Active(i) \in Activation /\ Module(i) \in Modules
          /\ Len(stack[i]) \in DOMAIN stack[i] /\ Active(i) = stack[i][Len(stack[i])]
      BY <1>1, <3>2, ActiveFacts
    <3>4. d \in ToSet(dependencyList[Module(i)])
      BY <1>1, <3>1, <3>2, <3>3, NeedyFacts, ListFacts
    <3>5. CASE Throw(i, "expected") /\ UNCHANGED <<program, modules, waiters, microtasks>>
      BY <3>1, <3>2, <3>5, ExpectedKeeps
    <3>6. CASE Call(i, d, "withDeps", Active(i).completing, own)
      <4>1. own \in SUBSET Modules /\ Active(i).completing \in SUBSET Modules
        BY <3>3 DEF Activation
      <4>2. \A n \in Active(i).completing : isRegistered(n)
        BY <1>1, <3>3 DEF StackInv
      <4>3. "withDeps" \in Targets
        BY DEF Targets
      <4> HIDE DEF d, own, stops
      <4> QED
        BY <3>1, <3>4, <3>6, <4>1, <4>2, <4>3, CallKeeps
    <3> QED
      BY <2>8, <3>5, <3>6 DEF CompleteDep
  <2>9. CASE DepsCompleted(i)
    <3> DEFINE deps == dependencies[Module(i)]
               new == [k \in DOMAIN deps |-> IF deps[k] = "none" THEN "none" ELSE "dep"]
    <3>1. /\ control = i /\ state[Module(i)] = "completing"
          /\ SetModule(i, "withDeps", new)
      BY <2>9 DEF DepsCompleted, Completing
    <3>2. Module(i) \in Modules
      BY <1>1, <3>1, ControlFacts, ActiveFacts
    <3>3. DOMAIN deps = DOMAIN dependencyList[Module(i)]
      BY <1>1, <3>2, ListFacts
    <3>4. new \in [DOMAIN dependencyList[Module(i)] -> {"dep", "completing-dep", "none"}]
      BY <3>3
    <3> HIDE DEF new
    <3> QED
      BY <3>1, <3>4, SetModuleKeeps
  <2>10. CASE EvaluateModule(i)
    <3>1. /\ control = i /\ state[Module(i)] = "withDeps" /\ Prepare(Module(i))
      BY <2>10 DEF EvaluateModule
    <3>2. evaluating = <<>> /\ Module(i) \in Modules
      BY <1>1, <3>1, ControlFacts, ActiveFacts
    <3> QED
      BY <3>1, <3>2, PrepareKeeps
  <2>11. CASE EvaluateDep(i)
    <3> DEFINE m == Last(evaluating)
               d == dependencyList[m][Min(Unevaluated(m))]
    <3>1. control = i /\ evaluating # <<>> /\ Unevaluated(m) # {}
      BY <2>11 DEF EvaluateDep
    <3>2. d \in Modules /\ d \in ToSet(dependencyList[m])
      BY <1>1, <3>1, UnevaluatedFacts
    <3>3. CASE state[d] \in {"completing", "withDeps"} /\ Prepare(d)
      <4> HIDE DEF d
      <4> QED
        BY <3>1, <3>2, <3>3, PrepareKeeps
    <3>4. CASE EvaluateThrows(i, "exception") \/ EvaluateThrows(i, "not evaluatable")
      BY <3>1, <3>4, EvaluateThrowsKeeps DEF Failures
    <3> QED
      BY <2>11, <3>3, <3>4 DEF EvaluateDep
  <2>12. CASE RunModule(i)
    <3>1. control = i /\ evaluating # <<>>
      BY <2>12 DEF RunModule
    <3>2. CASE /\ state' = [state EXCEPT ![Last(evaluating)] = "evaluated"]
               /\ evaluating' = Front(evaluating)
               /\ UNCHANGED <<program, dependencies, callers, waiters, microtasks, control>>
      BY <3>1, <3>2, EvaluatedKeeps
    <3>3. CASE EvaluateThrows(i, "exception")
      BY <3>1, <3>3, EvaluateThrowsKeeps DEF Failures
    <3> QED
      BY <2>12, <3>2, <3>3 DEF RunModule
  <2>13. CASE TargetReached(i)
    BY <2>13, ReturnKeeps
  <2> QED
    BY <1>4, <2>1, <2>2, <2>3, <2>4, <2>5, <2>6, <2>7, <2>8, <2>9, <2>10,
       <2>11, <2>12,
       <2>13 DEF Step
<1> QED
  BY <1>2, <1>3, <1>4 DEF LoaderNext

LEMMA LoaderInvariant == LoaderSpec => []LoaderInv
<1> QED
  BY InitLoaderInv, StepLoaderInv, PTL DEF LoaderSpec

(* The loader's state always has its type. *)
THEOREM LoaderTypeCorrect == LoaderSpec => []LoaderTypeOK
<1>1. LoaderInv => LoaderTypeOK
  BY DEF LoaderInv
<1> QED
  BY <1>1, LoaderInvariant, PTL

-----------------------------------------------------------------------------
(* What a step does to the state of a module. *)
Moves(m) ==
    \/ state'[m] = state[m]
    \/ state[m] = "absent" /\ state'[m] = "fetching"
    \/ state[m] = "fetching" /\ state'[m] = "registered" /\ source[m] = "source"
    \/ state[m] = "fetching" /\ state'[m] = "evaluated" /\ source[m] # "source"
    \/ state[m] = "fetching" /\ state'[m] = "broken" /\ source[m] = "error"
    \/ state[m] = "registered" /\ state'[m] = "completing"
    \/ state[m] = "completing" /\ state'[m] = "withDeps"
    \/ state[m] \in {"completing", "withDeps"} /\ state'[m] = "preparing"
    \/ /\ state[m] = "preparing" /\ state'[m] = "evaluated"
       /\ evaluating # <<>> /\ m = Last(evaluating) /\ Unevaluated(m) = {}
    \/ state[m] = "preparing" /\ state'[m] = "broken"

LEMMA StepMoves ==
    ASSUME LoaderInv, [LoaderNext]_loaderVars, NEW m \in Modules
    PROVE  Moves(m)
<1>1. LoaderTypeOK /\ PlaceInv /\ FetchInv
  BY DEF LoaderInv
<1>2. CASE UNCHANGED loaderVars
  BY <1>2 DEF loaderVars, modules, Moves
<1>3. CASE \E n \in Modules : SettleFetch(n)
  BY <1>3 DEF SettleFetch, modules, Moves
<1>4. ASSUME NEW i \in Importers, Step(i) PROVE Moves(m)
  <2>1. CASE Resume(i) \/ AwaitFetch(i) \/ TargetReached(i) \/ RegisterDep(i)
    BY <2>1 DEF Resume, AwaitFetch, TargetReached, Return, RegisterDep, Call,
           modules, Moves
  <2>2. CASE StartFetch(i)
    BY <1>1, <2>2 DEF StartFetch, Moves, LoaderTypeOK
  <2>3. CASE FetchSucceeds(i)
    <3>1. state[Module(i)] = "fetching"
      BY <1>1, <2>3 DEF FetchSucceeds, Loaded, FetchInv
    <3> QED
      BY <1>1, <2>3, <3>1 DEF FetchSucceeds, Moves, LoaderTypeOK
  <2>4. CASE FetchFails(i)
    <3>1. state[Module(i)] = "fetching"
      BY <1>1, <2>4 DEF FetchFails, Loaded, FetchInv
    <3> QED
      BY <1>1, <2>4, <3>1 DEF FetchFails, Moves, LoaderTypeOK
  <2>5. CASE DepsRegistered(i)
    BY <1>1, <2>5 DEF DepsRegistered, SetModule, Moves, LoaderTypeOK
  <2>6. CASE CompleteDep(i)
    BY <2>6 DEF CompleteDep, Call, modules, Moves
  <2>7. CASE DepsCompleted(i)
    BY <1>1, <2>7 DEF DepsCompleted, Completing, SetModule, Moves, LoaderTypeOK
  <2>8. CASE EvaluateModule(i)
    BY <1>1, <2>8 DEF EvaluateModule, Prepare, Moves, LoaderTypeOK
  <2>9. ASSUME NEW why, EvaluateThrows(i, why) PROVE Moves(m)
    BY <2>9 DEF EvaluateThrows, Moves
  <2>10. CASE EvaluateDep(i)
    <3> DEFINE d == dependencyList[Last(evaluating)][Min(Unevaluated(Last(evaluating)))]
    <3>1. CASE state[d] \in {"completing", "withDeps"} /\ Prepare(d)
      <4> HIDE DEF d
      <4> QED
        BY <1>1, <3>1 DEF Prepare, Moves, LoaderTypeOK
    <3> QED
      BY <2>9, <2>10, <3>1 DEF EvaluateDep
  <2>11. CASE RunModule(i)
    <3>1. evaluating # <<>> /\ Unevaluated(Last(evaluating)) = {}
      BY <2>11 DEF RunModule
    <3>2. Last(evaluating) \in Modules /\ state[Last(evaluating)] = "preparing"
      BY <1>1, <3>1, TopFacts
    <3>3. CASE state' = [state EXCEPT ![Last(evaluating)] = "evaluated"]
      BY <1>1, <3>1, <3>2, <3>3 DEF Moves, LoaderTypeOK
    <3> QED
      BY <2>9, <2>11, <3>3 DEF RunModule
  <2> QED
    BY <1>4, <2>1, <2>2, <2>3, <2>4, <2>5, <2>6, <2>7, <2>8, <2>10, <2>11
       DEF Step
<1> QED
  BY <1>2, <1>3, <1>4 DEF LoaderNext

-----------------------------------------------------------------------------
(* No dependency is dropped. *)

LEMMA ProgramStays == [LoaderNext]_loaderVars => UNCHANGED program
<1>1. ASSUME NEW i \in Importers, Step(i) PROVE UNCHANGED program
  <2>1. CASE Resume(i) \/ AwaitFetch(i) \/ TargetReached(i) \/ RegisterDep(i)
    BY <2>1 DEF Resume, AwaitFetch, TargetReached, Return, RegisterDep, Call
  <2>2. CASE StartFetch(i) \/ FetchSucceeds(i) \/ FetchFails(i)
    BY <2>2 DEF StartFetch, FetchSucceeds, FetchFails
  <2>3. CASE DepsRegistered(i) \/ CompleteDep(i) \/ DepsCompleted(i)
    BY <2>3 DEF DepsRegistered, CompleteDep, DepsCompleted, Call, SetModule
  <2>4. CASE EvaluateModule(i) \/ EvaluateDep(i) \/ RunModule(i)
    BY <2>4 DEF EvaluateModule, EvaluateDep, RunModule, Prepare, EvaluateThrows
  <2> QED
    BY <1>1, <2>1, <2>2, <2>3, <2>4 DEF Step
<1> QED
  BY <1>1 DEF LoaderNext, SettleFetch, loaderVars

(* Only two actions write the dependencies of a module, and the first of them
   is what makes it "completing". *)
LEMMA DependenciesChange ==
    ASSUME LoaderTypeOK, [LoaderNext]_loaderVars
    PROVE  \/ /\ dependencies' = dependencies
              /\ \A m \in Modules : state'[m] \in {"completing", "withDeps"} => state[m] = state'[m]
           \/ \E i \in Importers : DepsRegistered(i) \/ DepsCompleted(i)
<1> DEFINE Stays == /\ dependencies' = dependencies
                   /\ \A m \in Modules : state'[m] \in {"completing", "withDeps"} => state[m] = state'[m]
<1>1. CASE UNCHANGED loaderVars
  BY <1>1 DEF loaderVars, modules
<1>2. CASE \E n \in Modules : SettleFetch(n)
  BY <1>2 DEF SettleFetch, modules
<1>3. ASSUME NEW i \in Importers, Step(i), ~DepsRegistered(i), ~DepsCompleted(i)
      PROVE  Stays
  <2>1. CASE Resume(i) \/ AwaitFetch(i) \/ TargetReached(i) \/ RegisterDep(i)
    BY <2>1 DEF Resume, AwaitFetch, TargetReached, Return, RegisterDep, Call,
           modules
  <2>2. CASE StartFetch(i) \/ FetchSucceeds(i) \/ FetchFails(i)
    BY <2>2 DEF StartFetch, FetchSucceeds, FetchFails, LoaderTypeOK
  <2>3. CASE CompleteDep(i)
    BY <2>3 DEF CompleteDep, Call, modules
  <2>4. ASSUME NEW m, Prepare(m) PROVE Stays
    BY <2>4 DEF Prepare, LoaderTypeOK
  <2>5. ASSUME NEW why, EvaluateThrows(i, why) PROVE Stays
    BY <2>5 DEF EvaluateThrows
  <2>6. CASE EvaluateModule(i)
    BY <2>4, <2>6 DEF EvaluateModule
  <2>7. CASE EvaluateDep(i)
    BY <2>4, <2>5, <2>7 DEF EvaluateDep
  <2>8. CASE RunModule(i)
    BY <2>5, <2>8 DEF RunModule, LoaderTypeOK
  <2> QED
    BY <1>3, <2>1, <2>2, <2>3, <2>6, <2>7, <2>8 DEF Step
<1> QED
  BY <1>1, <1>2, <1>3 DEF LoaderNext

(* A module's evaluation is to be given all its dependencies. *)
HandedInv ==
    \A m \in Modules : state[m] \in {"completing", "withDeps", "preparing"} =>
        \A k \in DOMAIN dependencyList[m] : dependencies[m][k] # "none"

LEMMA StepHanded ==
    ASSUME LoaderInv, HandedInv, [LoaderNext]_loaderVars
    PROVE  HandedInv'
<1>1. LoaderTypeOK /\ StackInv
  BY DEF LoaderInv
<1>2. dependencyList' = dependencyList
  BY ProgramStays DEF program
<1> SUFFICES ASSUME NEW m \in Modules, NEW k \in DOMAIN dependencyList[m],
                    state'[m] \in {"completing", "withDeps", "preparing"}
             PROVE  dependencies'[m][k] # "none"
  BY <1>2 DEF HandedInv
<1>3. Moves(m)
  BY StepMoves
<1>4. ASSUME NEW i \in Importers, DepsRegistered(i) PROVE dependencies'[m][k] # "none"
  <2> DEFINE list == dependencyList[Module(i)]
  <2>1. /\ control = i /\ state[Module(i)] = "registered"
        /\ \A l \in DOMAIN list : ~NeedsWork(i, l)
        /\ dependencies' = [dependencies EXCEPT ![Module(i)] =
                               [l \in DOMAIN list |-> EvaluatableDep(list[l])]]
        /\ state' = [state EXCEPT ![Module(i)] = "completing"]
    BY <1>4 DEF DepsRegistered, SetModule
  <2>2. CASE m # Module(i)
    <3>1. state'[m] = state[m] /\ dependencies'[m] = dependencies[m]
      BY <1>1, <2>1, <2>2 DEF LoaderTypeOK
    <3> QED
      BY <3>1 DEF HandedInv
  <2>3. CASE m = Module(i)
    <3>1. /\ Len(stack[i]) \in DOMAIN stack[i] /\ Active(i) = stack[i][Len(stack[i])]
      BY <1>1, <2>1, ControlFacts, ActiveFacts
    <3>2. isEvaluatable(list[k]) \/ list[k] \in Active(i).completing
      BY <2>1, <2>3 DEF NeedsWork
    <3>3. isRegistered(list[k])
      BY <1>1, <3>1, <3>2 DEF StackInv, isRegistered, isEvaluatable, Registered
    <3>4. dependencies'[m][k] = EvaluatableDep(list[k])
      BY <1>1, <2>1, <2>3 DEF LoaderTypeOK
    <3> QED
      BY <3>3, <3>4 DEF EvaluatableDep
  <2> QED
    BY <2>2, <2>3
<1>5. ASSUME NEW i \in Importers, DepsCompleted(i) PROVE dependencies'[m][k] # "none"
  <2> DEFINE deps == dependencies[Module(i)]
  <2>1. /\ state[Module(i)] = "completing"
        /\ dependencies' = [dependencies EXCEPT ![Module(i)] =
               [l \in DOMAIN deps |-> IF deps[l] = "none" THEN "none" ELSE "dep"]]
        /\ state' = [state EXCEPT ![Module(i)] = "withDeps"]
    BY <1>5 DEF DepsCompleted, Completing, SetModule
  <2>2. CASE m # Module(i)
    <3>1. state'[m] = state[m] /\ dependencies'[m] = dependencies[m]
      BY <1>1, <2>1, <2>2 DEF LoaderTypeOK
    <3> QED
      BY <3>1 DEF HandedInv
  <2>3. CASE m = Module(i)
    <3>1. deps[k] # "none" /\ k \in DOMAIN deps
      BY <1>1, <2>1, <2>3, ListFacts DEF HandedInv
    <3>2. dependencies'[m][k] = "dep"
      BY <1>1, <2>1, <2>3, <3>1 DEF LoaderTypeOK
    <3> QED
      BY <3>2
  <2> QED
    BY <2>2, <2>3
<1>6. CASE /\ dependencies' = dependencies
           /\ \A n \in Modules : state'[n] \in {"completing", "withDeps"} => state[n] = state'[n]
  <2>1. state[m] \in {"completing", "withDeps", "preparing"}
    BY <1>3, <1>6 DEF Moves
  <2>2. dependencies[m][k] # "none"
    BY <2>1 DEF HandedInv
  <2> QED
    BY <1>6, <2>2
<1> QED
  BY <1>1, <1>4, <1>5, <1>6, DependenciesChange

(* What an activation has in hand imports, directly or not, its module. *)
WithDepsInv ==
    \A i \in Importers : \A a \in DOMAIN stack[i] :
        \A d \in stack[i][a].withDeps : Reaches(d, stack[i][a].module)

(* Away from cycles, a dependency of type 'dep' is past the state
   registered-completing-deps, and so has the type for good; and all are of
   that type once the module is itself past that state. *)
Past == {"withDeps", "preparing", "evaluated", "broken"}
Apart(m) == m \notin BelowCycles(dependencyList)

PastInv ==
    \A m \in Modules : Apart(m) => \A k \in DOMAIN dependencyList[m] :
        dependencies[m][k] = "dep" => state[dependencyList[m][k]] \in Past
ConsumesInv ==
    \A m \in Modules :
        /\ Apart(m)
        /\ \/ state[m] \in {"withDeps", "preparing"}
           \/ state[m] = "evaluated" /\ source[m] = "source"
        => ConsumesAll(m)

LEMMA StepWithDeps ==
    ASSUME LoaderInv, WithDepsInv, [LoaderNext]_loaderVars
    PROVE  WithDepsInv'
<1>1. LoaderTypeOK
  BY DEF LoaderInv
<1>2. dependencyList' = dependencyList
  BY ProgramStays DEF program
<1> SUFFICES ASSUME NEW i \in Importers, NEW a \in DOMAIN stack'[i],
                    NEW d \in stack'[i][a].withDeps
             PROVE  Reaches(d, stack'[i][a].module)
  BY <1>2 DEF WithDepsInv, Reaches
<1>3. ASSUME a \in DOMAIN stack[i], stack'[i][a] = stack[i][a]
      PROVE  Reaches(d, stack'[i][a].module)
  BY <1>3 DEF WithDepsInv
<1>4. CASE stack' = stack
  BY <1>3, <1>4
<1>5. ASSUME NEW j \in Importers, stack[j] # <<>>, stack' = [stack EXCEPT ![j] = Front(@)]
      PROVE  Reaches(d, stack'[i][a].module)
  <2>1. CASE i # j
    BY <1>1, <1>3, <1>5, <2>1 DEF LoaderTypeOK
  <2>2. CASE i = j
    <3>1. stack[i] \in Seq(Activation) /\ stack'[i] = Front(stack[i])
      BY <1>1, <1>5, <2>2 DEF LoaderTypeOK
    <3>2. /\ DOMAIN Front(stack[i]) = 1..(Len(stack[i]) - 1)
          /\ \A b \in 1..(Len(stack[i]) - 1) : Front(stack[i])[b] = stack[i][b]
      BY <1>5, <2>2, <3>1, FrontFacts
    <3>3. DOMAIN stack[i] = 1..Len(stack[i]) /\ Len(stack[i]) \in Nat
      BY <3>1, LenProperties
    <3>4. a \in 1..(Len(stack[i]) - 1)
      BY <3>1, <3>2
    <3>5. a \in DOMAIN stack[i]
      BY <3>3, <3>4
    <3> QED
      BY <1>3, <3>1, <3>2, <3>4, <3>5
  <2> QED
    BY <2>1, <2>2
<1>6. ASSUME NEW j \in Importers, NEW why, Throw(j, why)
      PROVE  Reaches(d, stack'[i][a].module)
  <2>1. CASE i # j
    BY <1>1, <1>3, <1>6, <2>1 DEF Throw, LoaderTypeOK
  <2>2. CASE i = j
    <3>1. stack'[i] = <<>>
      BY <1>1, <1>6, <2>2 DEF Throw, LoaderTypeOK
    <3> QED
      BY <3>1, EmptySeq
  <2> QED
    BY <2>1, <2>2
<1>7. ASSUME NEW j \in Importers, stack[j] # <<>>, NEW m \in ToSet(dependencyList[Module(j)]),
             NEW target \in Targets, NEW completing \in SUBSET Modules,
             NEW withDeps \in SUBSET (Active(j).withDeps \cup {Module(j)}),
             Call(j, m, target, completing, withDeps)
      PROVE  Reaches(d, stack'[i][a].module)
  <2> DEFINE act == [module |-> m, target |-> target,
                     completing |-> completing, withDeps |-> withDeps]
  <2>1. /\ stack[j] \in Seq(Activation) /\ Module(j) \in Modules
        /\ Len(stack[j]) \in Nat /\ Len(stack[j]) > 0
        /\ DOMAIN stack[j] = 1..Len(stack[j])
        /\ Active(j) = stack[j][Len(stack[j])] /\ Active(j) \in Activation
    BY <1>1, <1>7, ActiveFacts
  <2>2. m \in Modules
    BY <1>1, <1>7, <2>1, ListFacts DEF ToSet
  <2>3. act \in Activation /\ act.module = m /\ act.withDeps = withDeps
    BY <1>7, <2>1, <2>2 DEF Activation
  <2>4. stack' = [stack EXCEPT ![j] = Append(stack[j], act)]
    BY <1>7 DEF Call
  <2> HIDE DEF act
  <2>5. CASE i # j
    BY <1>1, <1>3, <2>4, <2>5 DEF LoaderTypeOK
  <2>6. CASE i = j
    <3>1. stack'[i] = Append(stack[j], act)
      BY <1>1, <2>4, <2>6 DEF LoaderTypeOK
    <3>2. /\ DOMAIN stack'[i] = 1..(Len(stack[j]) + 1)
          /\ \A b \in 1..Len(stack[j]) : stack'[i][b] = stack[j][b]
          /\ stack'[i][Len(stack[j]) + 1] = act
      BY <2>1, <2>3, <3>1, AppendFacts
    <3>3. CASE a \in 1..Len(stack[j])
      BY <1>3, <2>1, <2>6, <3>2, <3>3
    <3>4. CASE a = Len(stack[j]) + 1
      <4>1. d \in Active(j).withDeps \cup {Module(j)} /\ stack'[i][a].module = m
        BY <2>3, <3>2, <3>4
      <4>2. d \in Active(j).withDeps => Reaches(d, Module(j))
        <5>1. Len(stack[j]) \in DOMAIN stack[j]
          BY <2>1
        <5> QED
          BY <2>1, <5>1 DEF WithDepsInv, Module
      <4>3. Reaches(Module(j), Module(j))
        BY <2>1, ReachSelf DEF Reaches
      <4>4. Reaches(d, Module(j))
        BY <4>1, <4>2, <4>3
      <4> QED
        BY <1>1, <1>7, <4>1, <4>4, ReachStep DEF Reaches, LoaderTypeOK
    <3> QED
      BY <2>1, <3>2, <3>3, <3>4
  <2> QED
    BY <2>5, <2>6
<1>8. CASE UNCHANGED loaderVars
  BY <1>4, <1>8 DEF loaderVars, callers
<1>9. CASE \E m \in Modules : SettleFetch(m)
  BY <1>4, <1>9 DEF SettleFetch, callers
<1>10. ASSUME NEW j \in Importers, Step(j) PROVE Reaches(d, stack'[i][a].module)
  <2>1. CASE Resume(j) \/ StartFetch(j) \/ FetchSucceeds(j) \/ AwaitFetch(j)
    BY <1>4, <2>1 DEF Resume, StartFetch, FetchSucceeds, AwaitFetch
  <2>2. CASE FetchFails(j)
    BY <1>6, <2>2 DEF FetchFails
  <2>3. CASE DepsRegistered(j) \/ DepsCompleted(j)
    BY <1>4, <2>3 DEF DepsRegistered, DepsCompleted, SetModule, callers
  <2>4. ASSUME NEW m, Prepare(m) PROVE stack' = stack
    BY <2>4 DEF Prepare, callers
  <2>5. ASSUME NEW why, EvaluateThrows(j, why) PROVE Reaches(d, stack'[i][a].module)
    BY <1>6, <2>5 DEF EvaluateThrows
  <2>6. CASE EvaluateModule(j) \/ EvaluateDep(j)
    BY <1>4, <2>4, <2>5, <2>6 DEF EvaluateModule, EvaluateDep
  <2>7. CASE RunModule(j)
    BY <1>4, <2>5, <2>7 DEF RunModule, callers
  <2>8. CASE TargetReached(j)
    <3>1. stack[j] # <<>> /\ stack' = [stack EXCEPT ![j] = Front(@)]
      BY <2>8, ControlFacts DEF TargetReached, Return
    <3> QED
      BY <1>5, <3>1
  <2>9. CASE RegisterDep(j)
    <3> DEFINE list == dependencyList[Module(j)]
               needy == {k \in DOMAIN list : NeedsWork(j, k)}
               own == Active(j).completing \cup {Module(j)}
    <3>1. /\ control = j /\ needy # {}
          /\ Call(j, list[Min(needy)], "completing", own, Active(j).withDeps)
      BY <2>9 DEF RegisterDep
    <3>2. stack[j] # <<>>
      BY <3>1, ControlFacts
    <3>3. list[Min(needy)] \in ToSet(list)
      BY <1>1, <3>1, <3>2, NeedyFacts
    <3>4. own \in SUBSET Modules /\ "completing" \in Targets
      BY <1>1, <3>2, ActiveFacts DEF Activation, Targets
    <3> HIDE DEF list, needy, own
    <3> QED
      BY <1>7, <3>1, <3>2, <3>3, <3>4 DEF list
  <2>10. CASE CompleteDep(j)
    <3> DEFINE stops == {k \in DOMAIN dependencies[Module(j)] :
                            Unexpected(j, k) \/ NeedsDeps(j, k)}
               e == dependencyList[Module(j)][Min(stops)]
               own == Active(j).withDeps \cup {Module(j)}
    <3>1. control = j /\ stops # {}
      BY <2>10 DEF CompleteDep, Completing
    <3>2. stack[j] # <<>> /\ Module(j) \in Modules /\ Active(j) \in Activation
      BY <1>1, <3>1, ControlFacts, ActiveFacts
    <3>3. e \in ToSet(dependencyList[Module(j)])
      BY <1>1, <3>1, <3>2, NeedyFacts, ListFacts
    <3>4. Active(j).completing \in SUBSET Modules /\ "withDeps" \in Targets
      BY <3>2 DEF Activation, Targets
    <3>5. \/ Throw(j, "expected")
          \/ Call(j, e, "withDeps", Active(j).completing, own)
      BY <2>10 DEF CompleteDep
    <3> HIDE DEF stops, e
    <3> QED
      BY <1>6, <1>7, <3>2, <3>3, <3>4, <3>5
  <2> QED
    BY <1>10, <2>1, <2>2, <2>3, <2>6, <2>7, <2>8, <2>9, <2>10 DEF Step
<1> QED
  BY <1>8, <1>9, <1>10 DEF LoaderNext

(* What is below a cycle has only such imports; what imports itself is there. *)
LEMMA ApartFacts ==
    ASSUME LoaderTypeOK, NEW m \in Modules, Apart(m)
    PROVE  /\ \A d \in ToSet(dependencyList[m]) : ~Reaches(d, m)
           /\ \A n \in Modules : m \in ToSet(dependencyList[n]) => Apart(n)
<1>1. dependencyList \in [Modules -> Seq(Modules)]
  BY DEF LoaderTypeOK
<1>2. OnCycles(dependencyList) \subseteq BelowCycles(dependencyList)
  BY DEF OnCycles, BelowCycles, ReachableFrom
<1>3. ASSUME NEW d \in ToSet(dependencyList[m]), Reaches(d, m) PROVE FALSE
  <2> DEFINE R == ReachableFrom(ToSet(dependencyList[m]), dependencyList)
  <2>1. d \in Modules
    BY <1>3, ListFacts DEF ToSet
  <2>2. d \in R
    BY <1>3, <2>1 DEF ReachableFrom
  <2>3. m \in R
    BY <1>1, <1>3, <2>2, ReachThrough DEF Reaches
  <2> QED
    BY <1>2, <2>3 DEF OnCycles, Apart
<1>4. ASSUME NEW n \in Modules, m \in ToSet(dependencyList[n]), ~Apart(n) PROVE FALSE
  BY <1>1, <1>4, ReachStep DEF Apart, BelowCycles
<1> QED
  BY <1>3, <1>4

LEMMA StepPast ==
    ASSUME LoaderInv, WithDepsInv, PastInv, [LoaderNext]_loaderVars
    PROVE  PastInv'
<1>1. LoaderTypeOK
  BY DEF LoaderInv
<1>2. dependencyList' = dependencyList
  BY ProgramStays DEF program
<1> SUFFICES ASSUME NEW m \in Modules, Apart(m), NEW k \in DOMAIN dependencyList[m],
                    dependencies'[m][k] = "dep"
             PROVE  state'[dependencyList[m][k]] \in Past
  BY <1>2 DEF PastInv, Apart
<1> DEFINE d == dependencyList[m][k]
<1>3. d \in Modules /\ d \in ToSet(dependencyList[m])
  BY <1>1, ListFacts
<1> HIDE DEF d
<1>4. Moves(d)
  BY <1>3, StepMoves
<1>5. state[d] \in Past => state'[d] \in Past
  BY <1>4 DEF Moves, Past
<1>6. CASE dependencies'[m] = dependencies[m]
  BY <1>5, <1>6 DEF PastInv, d
<1>7. ASSUME NEW i \in Importers, DepsRegistered(i) PROVE state'[d] \in Past
  <2>1. dependencies' = [dependencies EXCEPT ![Module(i)] =
            [l \in DOMAIN dependencyList[Module(i)] |->
                EvaluatableDep(dependencyList[Module(i)][l])]]
    BY <1>7 DEF DepsRegistered, SetModule
  <2>2. CASE m # Module(i)
    BY <1>1, <1>5, <2>1, <2>2 DEF PastInv, LoaderTypeOK, d
  <2>3. CASE m = Module(i)
    <3>1. EvaluatableDep(d) = "dep"
      BY <1>1, <2>1, <2>3 DEF LoaderTypeOK, d
    <3>2. state[d] \in Past
      BY <3>1 DEF EvaluatableDep, isRegistered, Registered, Evaluatable, Past
    <3> QED
      BY <1>5, <3>2
  <2> QED
    BY <2>2, <2>3
<1>8. ASSUME NEW i \in Importers, DepsCompleted(i) PROVE state'[d] \in Past
  <2> DEFINE deps == dependencies[Module(i)]
  <2>1. /\ control = i
        /\ \A l \in DOMAIN deps : ~Unexpected(i, l) /\ ~NeedsDeps(i, l)
        /\ dependencies' = [dependencies EXCEPT ![Module(i)] =
               [l \in DOMAIN deps |-> IF deps[l] = "none" THEN "none" ELSE "dep"]]
    BY <1>8 DEF DepsCompleted, Completing, SetModule
  <2>2. CASE m # Module(i)
    BY <1>1, <1>5, <2>1, <2>2 DEF PastInv, LoaderTypeOK, d
  <2>3. CASE m = Module(i)
    <3>1. /\ stack[i] # <<>> /\ Len(stack[i]) \in DOMAIN stack[i]
          /\ Active(i) = stack[i][Len(stack[i])]
      BY <1>1, <2>1, ControlFacts, ActiveFacts
    <3>2. k \in DOMAIN deps /\ deps[k] \in {"dep", "completing-dep", "none"}
      BY <1>1, <2>3, ListFacts DEF LoaderTypeOK
    <3>3. deps[k] # "none"
      BY <1>1, <2>1, <2>3, <3>2 DEF LoaderTypeOK
    <3>4. CASE deps[k] = "dep"
      BY <1>5, <2>3, <3>4 DEF PastInv, d
    <3>5. CASE deps[k] = "completing-dep"
      <4>1. isEvaluatable(d)
        BY <2>1, <2>3, <3>2, <3>5 DEF Unexpected, d
      <4>2. state[d] # "completing" \/ d \in Active(i).withDeps
        BY <2>1, <2>3, <3>2, <3>5 DEF NeedsDeps, d
      <4>3. d \notin Active(i).withDeps
        <5>1. d \in Active(i).withDeps => Reaches(d, m)
          BY <2>3, <3>1 DEF WithDepsInv, Module
        <5> QED
          BY <1>1, <1>3, <5>1, ApartFacts
      <4>4. state[d] \in Past
        BY <4>1, <4>2, <4>3 DEF isEvaluatable, Evaluatable, Past
      <4> QED
        BY <1>5, <4>4
    <3> QED
      BY <3>2, <3>3, <3>4, <3>5
  <2> QED
    BY <2>2, <2>3
<1> QED
  BY <1>1, <1>6, <1>7, <1>8, DependenciesChange DEF d

(* Modules are prepared when they have their dependencies, or else by one
   that imports them. *)
LEMMA PreparedFacts ==
    ASSUME LoaderInv, [LoaderNext]_loaderVars, NEW m \in Modules,
           state[m] = "completing", state'[m] = "preparing"
    PROVE  \E p \in Modules : \E k \in DOMAIN dependencyList[p] :
               /\ state[p] = "preparing" /\ dependencyList[p][k] = m
               /\ dependencies[p][k] # "none"
<1>1. LoaderTypeOK /\ FetchInv
  BY DEF LoaderInv
<1>2. ASSUME NEW why, NEW i, EvaluateThrows(i, why) PROVE FALSE
  BY <1>2 DEF EvaluateThrows
<1>3. ASSUME NEW n \in Modules, Prepare(n) PROVE m = n
  BY <1>1, <1>3 DEF Prepare, LoaderTypeOK
<1>4. PICK i \in Importers : Step(i)
  <2>1. CASE UNCHANGED loaderVars
    BY <2>1 DEF loaderVars, modules
  <2>2. CASE \E n \in Modules : SettleFetch(n)
    BY <2>2 DEF SettleFetch, modules
  <2> QED
    BY <2>1, <2>2 DEF LoaderNext
<1>5. EvaluateDep(i) \/ EvaluateModule(i) \/ RunModule(i)
  <2>1. CASE Resume(i) \/ AwaitFetch(i) \/ TargetReached(i) \/ RegisterDep(i)
    BY <2>1 DEF Resume, AwaitFetch, TargetReached, Return, RegisterDep, Call,
           modules
  <2>2. CASE StartFetch(i) \/ FetchSucceeds(i) \/ FetchFails(i)
    BY <1>1, <2>2 DEF StartFetch, FetchSucceeds, FetchFails, LoaderTypeOK
  <2>3. CASE DepsRegistered(i) \/ CompleteDep(i) \/ DepsCompleted(i)
    BY <1>1, <2>3 DEF DepsRegistered, CompleteDep, DepsCompleted, Call, SetModule,
           modules, LoaderTypeOK
  <2> QED
    BY <1>4, <2>1, <2>2, <2>3 DEF Step
<1>6. CASE EvaluateModule(i)
  <2>1. /\ control = i /\ state[Module(i)] = "withDeps" /\ Prepare(Module(i))
    BY <1>6 DEF EvaluateModule
  <2>2. Module(i) \in Modules
    BY <1>1, <2>1, ControlFacts, ActiveFacts
  <2> QED
    BY <1>3, <2>1, <2>2
<1>7. CASE RunModule(i)
  BY <1>1, <1>2, <1>7, TopFacts DEF RunModule, LoaderTypeOK
<1>8. CASE EvaluateDep(i)
  <2> DEFINE p == Last(evaluating)
             k == Min(Unevaluated(p))
  <2>1. /\ evaluating # <<>> /\ Unevaluated(p) # {} /\ Prepare(dependencyList[p][k])
    BY <1>2, <1>8 DEF EvaluateDep
  <2>2. /\ p \in Modules /\ k \in Unevaluated(p)
        /\ dependencyList[p][k] \in Modules
    BY <1>1, <2>1, UnevaluatedFacts
  <2>3. m = dependencyList[p][k]
    BY <1>3, <2>1, <2>2
  <2>4. /\ state[p] = "preparing" /\ DOMAIN dependencies[p] = DOMAIN dependencyList[p]
    <3>1. /\ Len(evaluating) \in 1..Len(evaluating)
          /\ p = evaluating[Len(evaluating)]
          /\ \A a \in 1..Len(evaluating) : state[evaluating[a]] = "preparing"
      BY <1>1, <2>1, TopFacts
    <3> QED
      BY <1>1, <2>2, <3>1, ListFacts
  <2>5. k \in DOMAIN dependencyList[p] /\ dependencies[p][k] # "none"
    BY <2>2, <2>4 DEF Unevaluated
  <2> QED
    BY <2>2, <2>3, <2>4, <2>5
<1> QED
  BY <1>5, <1>6, <1>7, <1>8

LEMMA StepConsumes ==
    ASSUME LoaderInv, HandedInv, PastInv, ConsumesInv, [LoaderNext]_loaderVars
    PROVE  ConsumesInv'
<1>1. LoaderTypeOK
  BY DEF LoaderInv
<1>2. UNCHANGED <<dependencyList, source>>
  BY ProgramStays DEF program
<1> SUFFICES ASSUME NEW m \in Modules, Apart(m),
                    \/ state'[m] \in {"withDeps", "preparing"}
                    \/ state'[m] = "evaluated" /\ source[m] = "source",
                    NEW k \in DOMAIN dependencyList[m]
             PROVE  dependencies'[m][k] = "dep"
  BY <1>2 DEF ConsumesInv, ConsumesAll, Apart
<1>3. Moves(m)
  BY StepMoves
<1>4. CASE /\ dependencies' = dependencies
           /\ \A n \in Modules : state'[n] \in {"completing", "withDeps"} => state[n] = state'[n]
  <2> SUFFICES dependencies[m][k] = "dep"
    BY <1>4
  <2>1. CASE \/ state[m] \in {"withDeps", "preparing"}
             \/ state[m] = "evaluated" /\ source[m] = "source"
    BY <2>1 DEF ConsumesInv, ConsumesAll
  <2>2. CASE state[m] = "completing" /\ state'[m] = "preparing"
    <3>6. PICK p \in Modules : \E l \in DOMAIN dependencyList[p] :
              state[p] = "preparing" /\ dependencyList[p][l] = m
      BY <2>2, PreparedFacts
    <3>1. PICK l \in DOMAIN dependencyList[p] :
              state[p] = "preparing" /\ dependencyList[p][l] = m
      BY <3>6
    <3>2. m \in ToSet(dependencyList[p])
      BY <3>1 DEF ToSet
    <3>3. Apart(p)
      BY <1>1, <3>2, ApartFacts
    <3>4. dependencies[p][l] = "dep"
      BY <3>1, <3>3 DEF ConsumesInv, ConsumesAll
    <3>5. state[m] \in Past
      BY <3>1, <3>3, <3>4 DEF PastInv
    <3> QED
      BY <2>2, <3>5 DEF Past
  <2>3. CASE state[m] = "completing" /\ state'[m] = "withDeps"
    BY <1>4, <2>3
  <2> QED
    BY <1>3, <2>1, <2>2, <2>3 DEF Moves
<1>5. ASSUME NEW i \in Importers, DepsRegistered(i) PROVE dependencies'[m][k] = "dep"
  <2>1. /\ state[Module(i)] = "registered"
        /\ \E new : dependencies' = [dependencies EXCEPT ![Module(i)] = new]
        /\ state' = [state EXCEPT ![Module(i)] = "completing"]
    BY <1>5 DEF DepsRegistered, SetModule
  <2>2. m # Module(i)
    BY <1>1, <2>1 DEF LoaderTypeOK
  <2>3. state'[m] = state[m] /\ dependencies'[m] = dependencies[m]
    BY <1>1, <2>1, <2>2 DEF LoaderTypeOK
  <2> QED
    BY <2>3 DEF ConsumesInv, ConsumesAll
<1>6. ASSUME NEW i \in Importers, DepsCompleted(i) PROVE dependencies'[m][k] = "dep"
  <2> DEFINE deps == dependencies[Module(i)]
  <2>1. /\ state[Module(i)] = "completing"
        /\ dependencies' = [dependencies EXCEPT ![Module(i)] =
               [l \in DOMAIN deps |-> IF deps[l] = "none" THEN "none" ELSE "dep"]]
        /\ state' = [state EXCEPT ![Module(i)] = "withDeps"]
    BY <1>6 DEF DepsCompleted, Completing, SetModule
  <2>2. CASE m # Module(i)
    <3>1. state'[m] = state[m] /\ dependencies'[m] = dependencies[m]
      BY <1>1, <2>1, <2>2 DEF LoaderTypeOK
    <3> QED
      BY <3>1 DEF ConsumesInv, ConsumesAll
  <2>3. CASE m = Module(i)
    <3>1. deps[k] # "none" /\ k \in DOMAIN deps
      BY <1>1, <2>1, <2>3, ListFacts DEF HandedInv
    <3> QED
      BY <1>1, <2>1, <2>3, <3>1 DEF LoaderTypeOK
  <2> QED
    BY <2>2, <2>3
<1> QED
  BY <1>1, <1>4, <1>5, <1>6, DependenciesChange

(* Whoever advances a module, and however the importers interleave, its
   evaluation is given every dependency its source names; and all of them are
   recorded as the modules it consumes, unless it is on or below a cycle. *)
THEOREM NothingDropped == LoaderSpec => []NoDependencyIsDropped
<1> DEFINE KeptInv == HandedInv /\ WithDepsInv /\ PastInv /\ ConsumesInv
<1>1. LoaderInit => KeptInv
  <2> SUFFICES ASSUME LoaderInit PROVE KeptInv
    OBVIOUS
  <2>1. dependencyList \in [Modules -> Seq(Modules)] /\ \A m \in Modules : state[m] = "absent"
    BY GraphsAssumption DEF LoaderInit
  <2>2. \A m \in Modules : \A k \in DOMAIN dependencyList[m] : dependencies[m][k] = "none"
    BY DEF LoaderInit
  <2>3. \A i \in Importers : \A a \in DOMAIN stack[i] : stack[i][a].withDeps = {}
    <3> SUFFICES ASSUME NEW i \in Importers, NEW a \in DOMAIN stack[i]
                 PROVE  stack[i][a].withDeps = {}
      OBVIOUS
    <3> DEFINE act == [module |-> wants[i], target |-> "evaluated",
                       completing |-> {}, withDeps |-> {}]
    <3>1. stack[i] = <<act>>
      BY DEF LoaderInit
    <3>2. DOMAIN <<act>> = {1} /\ <<act>>[1] = act
      OBVIOUS
    <3>3. a = 1 /\ stack[i][a] = act
      BY <3>1, <3>2
    <3> QED
      BY <3>3
  <2>4. HandedInv /\ PastInv /\ ConsumesInv
    BY <2>1, <2>2 DEF HandedInv, PastInv, ConsumesInv
  <2>5. WithDepsInv
    BY <2>3 DEF WithDepsInv
  <2> QED
    BY <2>4, <2>5
<1>2. LoaderInv /\ KeptInv /\ [LoaderNext]_loaderVars => KeptInv'
  BY StepHanded, StepWithDeps, StepPast, StepConsumes
<1>3. KeptInv => NoDependencyIsDropped
  BY DEF NoDependencyIsDropped, HandedInv, ConsumesInv, Apart
<1> QED
  BY <1>1, <1>2, <1>3, LoaderInvariant, PTL DEF LoaderSpec

-----------------------------------------------------------------------------
(* Dependencies come first. *)

LEMMA StepDependenciesFirst ==
    ASSUME LoaderInv, NoDependencyIsDropped, DependenciesFirst, [LoaderNext]_loaderVars
    PROVE  DependenciesFirst'
<1>1. LoaderTypeOK /\ EvaluateInv
  BY DEF LoaderInv
<1>2. UNCHANGED <<dependencyList, source>>
  BY ProgramStays DEF program
<1> SUFFICES ASSUME NEW m \in Modules, state'[m] = "evaluated", source[m] = "source",
                    NEW d \in ToSet(dependencyList[m])
             PROVE  \/ state'[d] = "evaluated"
                    \/ /\ state'[d] \in {"broken", "preparing"}
                       /\ Reaches(d, m)
  BY <1>2 DEF DependenciesFirst, Reaches
<1>3. d \in Modules
  BY <1>1, ListFacts DEF ToSet
<1>4. Moves(m) /\ Moves(d)
  BY <1>3, StepMoves
<1>5. CASE state[m] = "evaluated"
  <2>1. \/ state[d] = "evaluated"
        \/ state[d] \in {"broken", "preparing"} /\ Reaches(d, m)
    BY <1>5 DEF DependenciesFirst, Reaches
  <2>2. state[d] = "evaluated" => state'[d] = "evaluated"
    BY <1>4 DEF Moves
  <2>3. state[d] \in {"broken", "preparing"} =>
            state'[d] \in {"evaluated", "broken", "preparing"}
    BY <1>4 DEF Moves
  <2> QED
    BY <2>1, <2>2, <2>3
<1>6. CASE state[m] # "evaluated"
  <2>1. /\ state[m] = "preparing" /\ evaluating # <<>>
        /\ m = Last(evaluating) /\ Unevaluated(m) = {}
    BY <1>4, <1>6 DEF Moves
  <2>2. PICK k \in DOMAIN dependencyList[m] : d = dependencyList[m][k]
    BY DEF ToSet
  <2>3. k \in DOMAIN dependencies[m] /\ dependencies[m][k] # "none"
    BY <1>1, <2>1, ListFacts DEF NoDependencyIsDropped
  <2>4. state[d] \in {"preparing", "evaluated"}
    BY <2>1, <2>2, <2>3 DEF Unevaluated
  <2>5. CASE state[d] = "evaluated"
    BY <1>4, <2>5 DEF Moves
  <2>6. CASE state[d] = "preparing"
    <3>1. d \in ToSet(evaluating)
      BY <1>1, <1>3, <2>6 DEF LoaderTypeOK
    <3>2. PICK a \in DOMAIN evaluating : d = evaluating[a]
      BY <3>1 DEF ToSet
    <3>3. /\ Len(evaluating) \in DOMAIN evaluating /\ a <= Len(evaluating)
          /\ m = evaluating[Len(evaluating)]
      BY <1>1, <2>1, TopFacts
    <3>4. Reaches(d, m)
      BY <1>1, <3>2, <3>3 DEF EvaluateInv
    <3>5. state'[d] \in {"evaluated", "broken", "preparing"}
      BY <1>4, <2>6 DEF Moves
    <3> QED
      BY <3>4, <3>5
  <2> QED
    BY <2>4, <2>5, <2>6
<1> QED
  BY <1>5, <1>6

(* A module that is evaluated has its dependencies evaluated, but for those
   that import it back and are broken or still being evaluated. *)
THEOREM DependenciesComeFirst == LoaderSpec => []DependenciesFirst
<1>1. LoaderInit => DependenciesFirst
  BY DEF LoaderInit, DependenciesFirst
<1>2. /\ LoaderInv /\ NoDependencyIsDropped /\ DependenciesFirst
      /\ [LoaderNext]_loaderVars
      => DependenciesFirst'
  BY StepDependenciesFirst
<1> QED
  BY <1>1, <1>2, LoaderInvariant, NothingDropped, PTL DEF LoaderSpec

-----------------------------------------------------------------------------
(* Failures have causes. *)

LEMMA FaultSpreads ==
    ASSUME LoaderTypeOK, NEW m, NEW d, Reaches(m, d), Faulty(d)
    PROVE  Faulty(m)
<1>1. PICK e \in ReachableFrom({d}, dependencyList) :
          e \in throwing \/ source[e] \in {"error", "malformed"}
  BY DEF Faulty
<1>2. e \in ReachableFrom({m}, dependencyList)
  BY ReachThrough DEF Reaches, LoaderTypeOK
<1> QED
  BY <1>1, <1>2 DEF Faulty

LEMMA OwnFault ==
    ASSUME LoaderTypeOK, NEW m \in Modules,
           m \in throwing \/ source[m] \in {"error", "malformed"}
    PROVE  Faulty(m)
BY ReachSelf DEF Faulty

(* An exception of evaluate is the fault of every module being evaluated, and
   of the importer's. *)
LEMMA EvaluateFault ==
    ASSUME LoaderInv, NEW i \in Importers, control = i, evaluating # <<>>,
           Faulty(Last(evaluating)) \/ Unlucky
    PROVE  /\ \A m \in Modules : state[m] = "preparing" => Faulty(m) \/ Unlucky
           /\ Faulty(wants[i]) \/ Unlucky
<1>1. LoaderTypeOK /\ StackInv /\ EvaluateInv
  BY DEF LoaderInv
<1>2. /\ Len(evaluating) \in Nat /\ Len(evaluating) > 0
      /\ DOMAIN evaluating = 1..Len(evaluating)
      /\ Last(evaluating) = evaluating[Len(evaluating)]
  BY <1>1, TopFacts
<1>3. \A a \in DOMAIN evaluating : Reaches(evaluating[a], Last(evaluating))
  BY <1>1, <1>2 DEF EvaluateInv
<1>4. \A a \in DOMAIN evaluating : Faulty(evaluating[a]) \/ Unlucky
  BY <1>1, <1>3, FaultSpreads
<1>5. \A m \in Modules : state[m] = "preparing" => Faulty(m) \/ Unlucky
  BY <1>1, <1>4 DEF LoaderTypeOK, ToSet
<1>6. Faulty(Module(i)) \/ Unlucky
  BY <1>1, <1>2, <1>4 DEF EvaluateInv
<1>7. Len(stack[i]) \in DOMAIN stack[i] /\ Module(i) = stack[i][Len(stack[i])].module
  BY <1>1, ControlFacts, ActiveFacts DEF Module
<1>8. Reaches(wants[i], Module(i))
  BY <1>1, <1>7 DEF StackInv
<1> QED
  BY <1>1, <1>5, <1>6, <1>8, FaultSpreads

(* What a step does to the outcomes of imports, and what it breaks. *)
LEMMA StepCauses ==
    ASSUME LoaderInv, CauseInv, [LoaderNext]_loaderVars
    PROVE  CauseInv'
<1>1. LoaderTypeOK /\ PlaceInv /\ FetchInv /\ StackInv /\ BrokenInv /\ FailuresHaveCauses
  BY DEF LoaderInv, CauseInv
<1>2. /\ UNCHANGED <<dependencyList, source, throwing, wants>>
      /\ \A m : Faulty(m)' <=> Faulty(m)
  BY ProgramStays DEF program, Faulty
<1> DEFINE Broke(m) == state'[m] = "broken" /\ state[m] # "broken"
           Fails(i) == outcome'[i] = "exception" /\ outcome[i] # "exception"
           Stays == \A i \in Importers : outcome[i] # "none" => outcome'[i] = outcome[i]
(* It is enough to look at what is new. *)
<1>3. ASSUME Stays,
             \A m \in Modules : Broke(m) => Faulty(m) \/ Unlucky \/ Unlucky',
             \A i \in Importers : Fails(i) => Faulty(wants[i]) \/ Unlucky \/ Unlucky'
      PROVE  CauseInv'
  <2>1. Unlucky => Unlucky'
    BY <1>3 DEF Unlucky
  <2>2. BrokenInv'
    <3> SUFFICES ASSUME NEW m \in Modules, state'[m] = "broken"
                 PROVE  Faulty(m) \/ Unlucky'
      BY <1>2 DEF BrokenInv
    <3> QED
      BY <1>1, <1>3, <2>1 DEF BrokenInv
  <2>3. FailuresHaveCauses'
    <3> SUFFICES ASSUME NEW i \in Importers, outcome'[i] = "exception"
                 PROVE  Faulty(wants[i]) \/ Unlucky'
      BY <1>2 DEF FailuresHaveCauses, Unlucky
    <3>1. CASE outcome[i] = "exception"
      BY <1>1, <2>1, <3>1 DEF FailuresHaveCauses, Unlucky
    <3>2. CASE outcome[i] # "exception"
      BY <1>3, <2>1, <3>2
    <3> QED
      BY <3>1, <3>2
  <2> QED
    BY <2>2, <2>3 DEF CauseInv
<1>4. CASE UNCHANGED outcome /\ \A m \in Modules : ~Broke(m)
  <2>1. Stays /\ \A i \in Importers : ~Fails(i)
    BY <1>4
  <2> QED
    BY <1>3, <1>4, <2>1
(* One import ends, by an exception only if it has a cause. *)
<1>5. ASSUME NEW i \in Importers, outcome[i] = "none",
             NEW why, outcome' = [outcome EXCEPT ![i] = why],
             \A m \in Modules : Broke(m) => Faulty(m) \/ Unlucky \/ why = "not evaluatable",
             why = "exception" => Faulty(wants[i]) \/ Unlucky
      PROVE  CauseInv'
  <2>1. outcome'[i] = why /\ \A j \in Importers : j # i => outcome'[j] = outcome[j]
    BY <1>1, <1>5 DEF LoaderTypeOK
  <2>2. Stays
    BY <1>5, <2>1
  <2>3. why = "not evaluatable" => Unlucky'
    BY <2>1 DEF Unlucky
  <2>4. \A j \in Importers : Fails(j) => Faulty(wants[j]) \/ Unlucky
    BY <1>5, <2>1
  <2>5. \A m \in Modules : Broke(m) => Faulty(m) \/ Unlucky \/ Unlucky'
    BY <1>5, <2>3
  <2> QED
    BY <1>3, <2>2, <2>4, <2>5
<1>6. CASE UNCHANGED loaderVars
  BY <1>4, <1>6 DEF loaderVars, callers, modules
<1>7. ASSUME NEW m \in Modules, SettleFetch(m) PROVE CauseInv'
  BY <1>4, <1>7 DEF SettleFetch, callers, modules
<1>8. ASSUME NEW i \in Importers, Step(i) PROVE CauseInv'
  <2>1. CASE Resume(i) \/ AwaitFetch(i) \/ RegisterDep(i)
    BY <1>4, <2>1 DEF Resume, AwaitFetch, RegisterDep, Call, modules
  <2>2. CASE StartFetch(i) \/ FetchSucceeds(i)
    <3>1. \A m \in Modules : Moves(m)
      BY StepMoves
    <3>2. UNCHANGED outcome /\ \A m \in Modules : ~Broke(m)
      BY <1>1, <2>2 DEF StartFetch, FetchSucceeds, LoaderTypeOK
    <3> QED
      BY <1>4, <3>2
  <2>3. ASSUME NEW m \in Modules, NEW st \in {"completing", "withDeps", "preparing", "evaluated"},
               state' = [state EXCEPT ![m] = st], UNCHANGED outcome
        PROVE  CauseInv'
    <3>1. \A n \in Modules : ~Broke(n)
      BY <1>1, <2>3 DEF LoaderTypeOK
    <3> QED
      BY <1>4, <2>3, <3>1
  <2>4. control = i => stack[i] # <<>> /\ Module(i) \in Modules /\ outcome[i] = "none"
                       /\ Reaches(wants[i], Module(i))
    <3> SUFFICES ASSUME control = i
                 PROVE  stack[i] # <<>> /\ Module(i) \in Modules /\ outcome[i] = "none"
                        /\ Reaches(wants[i], Module(i))
      OBVIOUS
    <3>1. stack[i] # <<>> /\ outcome[i] = "none"
      BY ControlFacts
    <3>2. /\ Module(i) \in Modules
          /\ Len(stack[i]) \in DOMAIN stack[i] /\ Module(i) = stack[i][Len(stack[i])].module
      BY <1>1, <3>1, ActiveFacts DEF Module
    <3> QED
      BY <1>1, <3>1, <3>2 DEF StackInv
  <2>5. CASE DepsRegistered(i) \/ DepsCompleted(i)
    BY <2>3, <2>4, <2>5
       DEF DepsRegistered, DepsCompleted, Completing, SetModule, callers
  <2>6. CASE EvaluateModule(i)
    BY <2>3, <2>4, <2>6 DEF EvaluateModule, Prepare, callers
  <2>7. CASE CompleteDep(i)
    <3>1. CASE Throw(i, "expected") /\ UNCHANGED modules
      <4>1. control = i /\ \A m \in Modules : ~Broke(m)
        BY <2>7, <3>1 DEF CompleteDep, Completing, modules
      <4> QED
        BY <1>5, <2>4, <3>1, <4>1 DEF Throw
    <3>2. CASE UNCHANGED <<modules, outcome>>
      BY <1>4, <3>2 DEF modules
    <3> QED
      BY <2>7, <3>1, <3>2 DEF CompleteDep, Call
  <2>8. ASSUME control = i, NEW why \in {"exception", "not evaluatable"},
               evaluating # <<>>, EvaluateThrows(i, why),
               why = "exception" => Faulty(Last(evaluating)) \/ Unlucky
        PROVE  CauseInv'
    <3>1. outcome' = [outcome EXCEPT ![i] = why] /\ outcome[i] = "none"
      BY <2>4, <2>8 DEF EvaluateThrows, Throw
    <3>2. \A m \in Modules : Broke(m) => state[m] = "preparing"
      BY <2>8 DEF EvaluateThrows
    <3>3. why = "exception" =>
              /\ \A m \in Modules : state[m] = "preparing" => Faulty(m) \/ Unlucky
              /\ Faulty(wants[i]) \/ Unlucky
      BY <2>8, EvaluateFault
    <3>4. \A m \in Modules : Broke(m) => Faulty(m) \/ Unlucky \/ why = "not evaluatable"
      BY <3>2, <3>3
    <3> HIDE DEF Broke, Fails, Stays
    <3> QED
      BY <1>5, <3>1, <3>3, <3>4
  <2>9. CASE EvaluateDep(i)
    <3> DEFINE m == Last(evaluating)
               d == dependencyList[m][Min(Unevaluated(m))]
    <3>1. control = i /\ evaluating # <<>> /\ Unevaluated(m) # {}
      BY <2>9 DEF EvaluateDep
    <3>2. m \in Modules /\ d \in Modules /\ d \in ToSet(dependencyList[m])
      BY <1>1, <3>1, UnevaluatedFacts
    <3>3. CASE Prepare(d)
      <4> HIDE DEF d
      <4> QED
        BY <2>3, <3>2, <3>3 DEF Prepare, callers
    <3>4. CASE state[d] = "broken" /\ EvaluateThrows(i, "exception")
      <4>1. Faulty(d) \/ Unlucky
        BY <1>1, <3>2, <3>4 DEF BrokenInv
      <4>2. Reaches(m, d)
        BY <1>1, <3>2, ReachSelf, ReachStep DEF Reaches, LoaderTypeOK
      <4>3. Faulty(m) \/ Unlucky
        BY <1>1, <4>1, <4>2, FaultSpreads
      <4> QED
        BY <2>8, <3>1, <3>4, <4>3
    <3>5. CASE EvaluateThrows(i, "not evaluatable")
      BY <2>8, <3>1, <3>5
    <3> QED
      BY <2>9, <3>3, <3>4, <3>5 DEF EvaluateDep
  <2>10. CASE RunModule(i)
    <3>1. control = i /\ evaluating # <<>> /\ Last(evaluating) \in Modules
      BY <1>1, <2>10, TopFacts DEF RunModule
    <3>2. CASE /\ state' = [state EXCEPT ![Last(evaluating)] = "evaluated"]
               /\ UNCHANGED callers
      BY <2>3, <3>1, <3>2 DEF callers
    <3>3. CASE Last(evaluating) \in throwing /\ EvaluateThrows(i, "exception")
      <4>1. Faulty(Last(evaluating))
        BY <1>1, <3>1, <3>3, OwnFault
      <4> QED
        BY <2>8, <3>1, <3>3, <4>1
    <3> QED
      BY <2>10, <3>2, <3>3 DEF RunModule
  <2>11. CASE FetchFails(i)
    <3>1. /\ stack[i] # <<>> /\ outcome[i] = "none" /\ doing[i] = "fetching"
          /\ outcome' = [outcome EXCEPT ![i] = "exception"]
          /\ source[Module(i)] \in {"error", "malformed"}
          /\ state' = [state EXCEPT ![Module(i)] =
                         IF source[Module(i)] = "error" THEN "broken" ELSE "fetching"]
      BY <1>1, <2>11 DEF FetchFails, Loaded, Throw, PlaceInv, LoaderTypeOK
    <3>2. /\ Module(i) \in Modules
          /\ Len(stack[i]) \in DOMAIN stack[i] /\ Module(i) = stack[i][Len(stack[i])].module
      BY <1>1, <3>1, ActiveFacts DEF Module
    <3>3. Reaches(wants[i], Module(i))
      BY <1>1, <3>2 DEF StackInv
    <3>4. Faulty(Module(i))
      BY <1>1, <3>1, <3>2, OwnFault
    <3>5. Faulty(wants[i])
      BY <1>1, <3>3, <3>4, FaultSpreads
    <3>6. \A m \in Modules : Broke(m) => m = Module(i)
      BY <1>1, <3>1 DEF LoaderTypeOK
    <3>7. \A m \in Modules : Broke(m) => Faulty(m)
      BY <3>4, <3>6
    <3> HIDE DEF Broke, Fails, Stays
    <3> QED
      BY <1>5, <3>1, <3>5, <3>7
  <2>12. CASE TargetReached(i)
    <3>1. control = i /\ UNCHANGED modules
      BY <2>12 DEF TargetReached, Return
    <3>2. \A m \in Modules : ~Broke(m)
      BY <3>1 DEF modules
    <3>3. CASE UNCHANGED outcome
      BY <1>4, <3>2, <3>3
    <3>4. CASE Len(stack[i]) = 1 /\ outcome' = [outcome EXCEPT ![i] = ImportResult(Module(i))]
      <4>1. Module(i) = wants[i]
        <5>1. 1 \in DOMAIN stack[i] /\ Active(i) = stack[i][1]
          BY <1>1, <2>4, <3>1, <3>4, ActiveFacts
        <5> QED
          BY <1>1, <5>1 DEF StackInv, Module
      <4>2. ImportResult(Module(i)) = "exception" => state[Module(i)] = "broken"
        BY DEF ImportResult
      <4>3. ImportResult(Module(i)) = "exception" => Faulty(wants[i]) \/ Unlucky
        BY <1>1, <2>4, <3>1, <4>1, <4>2 DEF BrokenInv
      <4> DEFINE why == ImportResult(Module(i))
      <4>4. /\ outcome[i] = "none" /\ outcome' = [outcome EXCEPT ![i] = why]
            /\ why = "exception" => Faulty(wants[i]) \/ Unlucky
        BY <2>4, <3>1, <3>4, <4>3
      <4> HIDE DEF Broke, Fails, Stays, why
      <4> QED
        BY <1>5, <3>2, <4>4
    <3> QED
      BY <2>12, <3>3, <3>4 DEF TargetReached, Return
  <2> QED
    BY <1>8, <2>1, <2>2, <2>5, <2>6, <2>7, <2>9, <2>10, <2>11, <2>12 DEF Step
<1> QED
  BY <1>6, <1>7, <1>8 DEF LoaderNext

(* An import fails with a module's exception by the fault of what it imports,
   directly or not, unless some import has met the assertion of evaluate. *)
THEOREM FailuresAreCaused == LoaderSpec => []FailuresHaveCauses
<1>1. LoaderInit => CauseInv
  BY DEF LoaderInit, CauseInv, BrokenInv, FailuresHaveCauses
<1>2. LoaderInv /\ CauseInv /\ [LoaderNext]_loaderVars => CauseInv'
  BY StepCauses
<1>3. CauseInv => FailuresHaveCauses
  BY DEF CauseInv
<1> QED
  BY <1>1, <1>2, <1>3, LoaderInvariant, PTL DEF LoaderSpec

-----------------------------------------------------------------------------
(* ConsumedModules: the state is well typed, and the recursion, which begins
   with the module that is asked for, is about modules that it imports. *)
Frame == [module : Modules, next : Nat \ {0}]

ConsumeTypeInv ==
    /\ importList \in [Modules -> Seq(Modules)]
    /\ consumedModules \in [Modules -> Seq(Modules)]
    /\ \A m \in Modules \ BelowCycles(importList) : consumedModules[m] = importList[m]
    /\ imported \subseteq Modules /\ asked \in Modules /\ knewIt \in BOOLEAN
    /\ arrays \in Seq(SUBSET Modules)
    /\ cache \in [Modules -> 0..Len(arrays)]
    /\ recursion \in Seq(Frame)

(* A module, and what is recorded that it imports. *)
Reached(m) == ReachableFrom({m}, consumedModules)

RecursionInv ==
    /\ recursion # <<>> => arrays # <<>> /\ knewIt /\ recursion[1].module = asked
    /\ \A a \in DOMAIN recursion : recursion[a].module \in Reached(asked)

(* What an array holds, with the module that is asked for or without. *)
Whole(A, own) == IF own THEN A \cup {asked} ELSE A
Visiting(m) == \E a \in DOMAIN recursion : recursion[a].module = m

(* The cached array of a module has its imports. *)
CacheCovered(own) ==
    \A m \in Modules :
        cache[m] # 0 => ToSet(consumedModules[m]) \subseteq Whole(arrays[cache[m]], own)

(* An array has the imports of what it holds, but for the modules the recursion
   is at, ... *)
ArraysCovered(own) ==
    \A n \in DOMAIN arrays : \A m \in Whole(arrays[n], own) :
        \/ ToSet(consumedModules[m]) \subseteq Whole(arrays[n], own)
        \/ n = Len(arrays) /\ Visiting(m)

(* ... of which it has the imports that were looked at; ... *)
LoopsCovered(own) ==
    \A a \in DOMAIN recursion :
        \A k \in DOMAIN consumedModules[recursion[a].module] :
           k < recursion[a].next =>
              consumedModules[recursion[a].module][k] \in Whole(arrays[Len(arrays)], own)

(* ... and the answer has the imports of the module that is asked for. *)
AskedCovered(own) ==
    knewIt /\ arrays # <<>> =>
        \/ ToSet(consumedModules[asked]) \subseteq Whole(arrays[Len(arrays)], own)
        \/ Visiting(asked)

Covered(own) ==
    CacheCovered(own) /\ ArraysCovered(own) /\ LoopsCovered(own) /\ AskedCovered(own)

Unlooped == \A m \in Modules : m \notin Consumes(m)
MissingInv == Unlooped => Covered(FALSE)

FirstInv ==
    Len(arrays) = 1 /\ knewIt =>
        /\ Covered(TRUE)
        /\ arrays[1] \subseteq Consumes(asked) \ {asked}

ConsumeInv == ConsumeTypeInv /\ RecursionInv /\ MissingInv /\ FirstInv

LEMMA ReachImports ==
    ASSUME NEW list \in [Modules -> Seq(Modules)], NEW m \in Modules,
           NEW n \in ReachableFrom({m}, list), NEW d \in ToSet(list[n])
    PROVE  d \in ReachableFrom(ToSet(list[m]), list)
<1> DEFINE R == ReachableFrom(ToSet(list[m]), list)
           T == {m} \cup R
<1>1. R \subseteq Modules /\ \A k \in R : ToSet(list[k]) \subseteq R
  BY ReachStep DEF ReachableFrom
<1>2. ToSet(list[m]) \subseteq R
  <2> SUFFICES ASSUME NEW k \in DOMAIN list[m] PROVE list[m][k] \in R
    BY DEF ToSet
  <2>1. list[m][k] \in Modules
    BY LenProperties, ElementOfSeq
  <2>2. list[m][k] \in ToSet(list[m])
    BY DEF ToSet
  <2> QED
    BY <2>1, <2>2 DEF ReachableFrom
<1>3. T \in SUBSET Modules /\ {m} \subseteq T /\ \A k \in T : ToSet(list[k]) \subseteq T
  BY <1>1, <1>2
<1> HIDE DEF R
<1>4. n \in T
  BY <1>3, ReachLeast
<1>5. ToSet(list[n]) \subseteq R
  BY <1>1, <1>2, <1>4
<1> QED
  BY <1>5 DEF R

LEMMA FrameFacts ==
    ASSUME ConsumeTypeInv, recursion # <<>>
    PROVE  /\ Len(recursion) \in Nat /\ Len(recursion) > 0
           /\ DOMAIN recursion = 1..Len(recursion)
           /\ \A a \in 1..Len(recursion) : recursion[a] \in Frame
           /\ Current = recursion[Len(recursion)]
           /\ Current.module \in Modules /\ Current.next \in Nat \ {0}
<1>1. recursion \in Seq(Frame)
  BY DEF ConsumeTypeInv
<1>2. /\ Len(recursion) \in Nat /\ Len(recursion) > 0
      /\ Current = recursion[Len(recursion)] /\ recursion[Len(recursion)] \in Frame
  BY <1>1, NotEmpty DEF Current
<1>3. DOMAIN recursion = 1..Len(recursion) /\ \A a \in 1..Len(recursion) : recursion[a] \in Frame
  BY <1>1, LenProperties, ElementOfSeq
<1>4. Current.module \in Modules /\ Current.next \in Nat \ {0}
  BY <1>2 DEF Frame
<1> QED
  BY <1>2, <1>3, <1>4

LEMMA ArrayFacts ==
    ASSUME ConsumeTypeInv
    PROVE  /\ Len(arrays) \in Nat /\ DOMAIN arrays = 1..Len(arrays)
           /\ \A n \in 1..Len(arrays) : arrays[n] \subseteq Modules
           /\ \A m \in Modules : cache[m] # 0 => cache[m] \in DOMAIN arrays
           /\ arrays # <<>> => Len(arrays) > 0 /\ Last(arrays) = arrays[Len(arrays)]
<1>1. arrays \in Seq(SUBSET Modules) /\ cache \in [Modules -> 0..Len(arrays)]
  BY DEF ConsumeTypeInv
<1>2. Len(arrays) \in Nat /\ DOMAIN arrays = 1..Len(arrays)
      /\ \A n \in 1..Len(arrays) : arrays[n] \in SUBSET Modules
  BY <1>1, LenProperties, ElementOfSeq
<1>3. arrays # <<>> => Len(arrays) > 0 /\ Last(arrays) = arrays[Len(arrays)]
  BY <1>1, NotEmpty
<1>4. \A m \in Modules : cache[m] # 0 => cache[m] \in 1..Len(arrays)
  BY <1>1, <1>2
<1> QED
  BY <1>2, <1>3, <1>4

LEMMA ConsumedListFacts ==
    ASSUME ConsumeTypeInv, NEW m \in Modules
    PROVE  /\ Len(consumedModules[m]) \in Nat
           /\ DOMAIN consumedModules[m] = 1..Len(consumedModules[m])
           /\ \A k \in DOMAIN consumedModules[m] :
                 /\ consumedModules[m][k] \in Modules
                 /\ consumedModules[m][k] \in ToSet(consumedModules[m])
<1>1. consumedModules[m] \in Seq(Modules)
  BY DEF ConsumeTypeInv
<1>2. Len(consumedModules[m]) \in Nat
      /\ DOMAIN consumedModules[m] = 1..Len(consumedModules[m])
  BY <1>1, LenProperties
<1>3. \A k \in DOMAIN consumedModules[m] : consumedModules[m][k] \in Modules
  BY <1>1, <1>2, ElementOfSeq
<1> QED
  BY <1>2, <1>3 DEF ToSet

(* What the recursion on d leaves in the array. *)
LEMMA EnteredFacts ==
    ASSUME ConsumeTypeInv, NEW A \in SUBSET Modules, NEW d \in Modules, NEW m
    PROVE  LET e == Entered(A, d, m)
           IN  /\ A \subseteq e /\ e \subseteq Modules
               /\ d # m => d \in e
               /\ cache[d] # 0 => arrays[cache[d]] \subseteq e
               /\ \A x \in e : \/ x \in A
                               \/ x = d /\ d # m
                               \/ cache[d] # 0 /\ x \in arrays[cache[d]]
<1>1. cache[d] # 0 => arrays[cache[d]] \subseteq Modules
  BY ArrayFacts
<1>2. Visit(A, d, m) = IF d = m THEN A ELSE A \cup {d}
  BY DEF Visit
<1> QED
  BY <1>1, <1>2 DEF Entered, Reuse

(* What a turn of the loop that looks at d does to the array, ... *)
ArrayTurn(n, d) ==
    /\ arrays' \in Seq(SUBSET Modules) /\ Len(arrays') = n
    /\ n \in DOMAIN arrays /\ DOMAIN arrays' = DOMAIN arrays
    /\ \A x \in DOMAIN arrays : x # n => arrays'[x] = arrays[x]
    /\ arrays[n] \subseteq arrays'[n]
    /\ d # asked => d \in arrays'[n]
    /\ \A x \in arrays'[n] :
          \/ x \in arrays[n]
          \/ x = d /\ d # asked
          \/ /\ cache[d] # 0 /\ x \in arrays[cache[d]]
             /\ arrays[cache[d]] \subseteq arrays'[n]

(* ... and to the recursion: it may go on with d. *)
RecursionTurn(n, l, d) ==
    /\ recursion' \in Seq(Frame)
    /\ l \in DOMAIN recursion /\ DOMAIN recursion \subseteq DOMAIN recursion'
    /\ \A a \in DOMAIN recursion :
          /\ recursion'[a].module = recursion[a].module
          /\ recursion'[a].next = IF a = l THEN recursion[a].next + 1
                                  ELSE recursion[a].next
    /\ \A a \in DOMAIN recursion' \ DOMAIN recursion :
          recursion'[a].module = d /\ recursion'[a].next = 1
    /\ \/ d \in arrays[n]
       \/ \E a \in DOMAIN recursion' : recursion'[a].module = d
       \/ cache[d] # 0 /\ arrays[cache[d]] \subseteq arrays'[n]

LEMMA ConsumeFacts ==
    ASSUME ConsumeTypeInv, RecursionInv, Consume
    PROVE  LET d == consumedModules[Current.module][Current.next]
           IN  /\ d \in Modules /\ d \in ToSet(consumedModules[Current.module])
               /\ ArrayTurn(Len(arrays), d)
               /\ RecursionTurn(Len(arrays), Len(recursion), d)
               /\ UNCHANGED <<importList, consumedModules, imported, cache, asked, knewIt>>
<1> DEFINE n == Len(arrays)
           l == Len(recursion)
           d == consumedModules[Current.module][Current.next]
           onward == [recursion EXCEPT ![l].next = @ + 1]
<1>1. /\ recursion # <<>> /\ arrays # <<>>
      /\ Current.next <= Len(consumedModules[Current.module])
      /\ UNCHANGED <<importList, consumedModules, imported, cache, asked, knewIt>>
  BY DEF Consume, RecursionInv, graphs
<1>2. /\ l \in Nat /\ l > 0 /\ DOMAIN recursion = 1..l /\ Current = recursion[l]
      /\ \A a \in 1..l : recursion[a] \in Frame
      /\ Current.module \in Modules /\ Current.next \in Nat \ {0}
  BY <1>1, FrameFacts
<1>3. /\ d \in Modules /\ d \in ToSet(consumedModules[Current.module])
  <2>1. Current.next \in DOMAIN consumedModules[Current.module]
    BY <1>1, <1>2, ConsumedListFacts
  <2> QED
    BY <1>2, <2>1, ConsumedListFacts
<1>4. /\ n \in Nat /\ n > 0 /\ DOMAIN arrays = 1..n /\ Last(arrays) = arrays[n]
      /\ arrays[n] \in SUBSET Modules /\ n \in DOMAIN arrays
  BY <1>1, ArrayFacts
<1>5. /\ onward \in Seq(Frame) /\ DOMAIN onward = 1..l
      /\ \A a \in 1..l : /\ onward[a].module = recursion[a].module
                         /\ onward[a].next = IF a = l THEN recursion[a].next + 1
                                             ELSE recursion[a].next
  <2>1. \A a \in 1..l : /\ onward[a] \in Frame /\ onward[a].module = recursion[a].module
                        /\ onward[a].next = IF a = l THEN recursion[a].next + 1
                                            ELSE recursion[a].next
    BY <1>2 DEF Frame
  <2>2. onward \in [1..l -> Frame]
    BY <1>2, <2>1
  <2> HIDE DEF onward
  <2>3. onward \in Seq(Frame)
    BY <1>2, <2>2, SeqDef
  <2> QED
    BY <2>1, <2>2, <2>3
<1>6. CASE d \in Last(arrays)
  <2>1. recursion' = onward /\ arrays' = arrays
    BY <1>6 DEF Consume
  <2>2. arrays \in Seq(SUBSET Modules)
    BY DEF ConsumeTypeInv
  <2> HIDE DEF onward, d, n, l
  <2>3. ArrayTurn(n, d)
    BY <1>4, <1>6, <2>1, <2>2 DEF ArrayTurn, n
  <2>4. RecursionTurn(n, l, d)
    BY <1>2, <1>4, <1>5, <1>6, <2>1 DEF RecursionTurn
  <2> QED
    BY <1>1, <1>3, <2>3, <2>4 DEF n, l, d
<1>7. CASE d \notin Last(arrays)
  <2> DEFINE e == Entered(arrays[n], d, asked)
  <2>1. /\ arrays' = [arrays EXCEPT ![n] = e]
        /\ recursion' = Recursing(onward, d)
    BY <1>7 DEF Consume
  <2>2. /\ arrays[n] \subseteq e /\ e \subseteq Modules
        /\ d # asked => d \in e
        /\ cache[d] # 0 => arrays[cache[d]] \subseteq e
        /\ \A x \in e : \/ x \in arrays[n]
                        \/ x = d /\ d # asked
                        \/ cache[d] # 0 /\ x \in arrays[cache[d]]
    <3> HIDE DEF n, d
    <3>1. arrays[n] \in SUBSET Modules /\ d \in Modules
      BY <1>3, <1>4
    <3> QED
      BY <3>1, EnteredFacts
  <2> HIDE DEF e, n, l, d
  <2>3. /\ arrays' \in Seq(SUBSET Modules) /\ Len(arrays') = n /\ arrays'[n] = e
        /\ DOMAIN arrays' = DOMAIN arrays
        /\ \A x \in DOMAIN arrays : x # n => arrays'[x] = arrays[x]
    <3>1. arrays \in Seq(SUBSET Modules) /\ n \in 1..Len(arrays) /\ e \in SUBSET Modules
      BY <1>4, <2>2 DEF ConsumeTypeInv, n
    <3> QED
      BY <2>1, <3>1, <1>4, ExceptSeq DEF n
  <2>4. ArrayTurn(n, d)
    BY <1>4, <2>2, <2>3 DEF ArrayTurn
  <2> HIDE DEF onward
  <2>5. ASSUME cache[d] # 0 PROVE RecursionTurn(n, l, d)
    <3>1. recursion' = onward
      BY <2>1, <2>5 DEF Recursing
    <3> QED
      BY <1>2, <1>5, <2>2, <2>3, <2>5, <3>1 DEF RecursionTurn
  <2>6. ASSUME cache[d] = 0 PROVE RecursionTurn(n, l, d)
    <3> DEFINE f == [module |-> d, next |-> 1]
    <3>1. recursion' = Append(onward, f) /\ f \in Frame /\ f.module = d /\ f.next = 1
      BY <1>3, <2>1, <2>6 DEF Recursing, Frame
    <3> HIDE DEF f
    <3>2. Len(onward) = l
      BY <1>2, <1>5, LenProperties
    <3>3. /\ recursion' \in Seq(Frame) /\ DOMAIN recursion' = 1..(l + 1)
          /\ \A a \in 1..l : recursion'[a] = onward[a]
          /\ recursion'[l + 1] = f
      BY <1>5, <3>1, <3>2, AppendFacts
    <3>4. \A a \in DOMAIN recursion' \ DOMAIN recursion : a = l + 1
      BY <1>2, <3>3
    <3>5. /\ l + 1 \in DOMAIN recursion' /\ DOMAIN recursion \subseteq DOMAIN recursion'
          /\ l \in DOMAIN recursion
      BY <1>2, <3>3
    <3>6. \A a \in DOMAIN recursion :
              /\ recursion'[a].module = recursion[a].module
              /\ recursion'[a].next = IF a = l THEN recursion[a].next + 1
                                      ELSE recursion[a].next
      BY <1>2, <1>5, <3>3
    <3>7. \A a \in DOMAIN recursion' \ DOMAIN recursion :
              recursion'[a].module = d /\ recursion'[a].next = 1
      BY <3>1, <3>3, <3>4
    <3>8. \E a \in DOMAIN recursion' : recursion'[a].module = d
      BY <3>1, <3>3, <3>5
    <3> QED
      BY <3>3, <3>5, <3>6, <3>7, <3>8 DEF RecursionTurn
  <2>7. RecursionTurn(n, l, d)
    BY <2>5, <2>6
  <2> QED
    BY <1>1, <1>3, <2>4, <2>7 DEF n, l, d
<1> QED
  BY <1>6, <1>7

-----------------------------------------------------------------------------
(* The invariants of ConsumedModules hold at first, ... *)

LEMMA SublistFacts ==
    ASSUME NEW list \in Seq(Modules), NEW kept \in Sublists(list)
    PROVE  kept \in Seq(Modules)
<1>1. PICK n \in 0..Len(list) : kept \in [1..n -> ToSet(list)]
  BY DEF Sublists, BoundedSeq, SeqOf
<1>2. n \in Nat /\ kept \in [1..n -> Modules]
  <2>1. ToSet(list) \subseteq Modules
    BY LenProperties, ElementOfSeq DEF ToSet
  <2>2. Len(list) \in Nat
    BY LenProperties
  <2> QED
    BY <1>1, <2>1, <2>2
<1> QED
  BY <1>2, SeqDef

LEMMA InitConsumeInv == ConsumeInit => ConsumeInv
<1> SUFFICES ASSUME ConsumeInit PROVE ConsumeInv
  OBVIOUS
<1>1. /\ DOMAIN arrays = {} /\ DOMAIN recursion = {} /\ Len(arrays) = 0
      /\ arrays \in Seq(SUBSET Modules) /\ recursion \in Seq(Frame)
      /\ arrays = <<>> /\ recursion = <<>>
      /\ \A m \in Modules : cache[m] = 0
  BY EmptySeq DEF ConsumeInit
<1>2. ConsumeTypeInv
  <2>1. importList \in [Modules -> Seq(Modules)]
    BY GraphsAssumption DEF ConsumeInit
  <2>2. \A m \in Modules : consumedModules[m] \in Sublists(importList[m])
    BY DEF ConsumeInit, Kept
  <2>3. \A m \in Modules : consumedModules[m] \in Seq(Modules)
    BY <2>1, <2>2, SublistFacts
  <2>4. /\ consumedModules \in [Modules -> Seq(Modules)]
        /\ \A m \in Modules \ BelowCycles(importList) : consumedModules[m] = importList[m]
    BY <2>3 DEF ConsumeInit, Kept
  <2> QED
    BY <1>1, <2>1, <2>4 DEF ConsumeInit, ConsumeTypeInv
<1>3. RecursionInv
  BY <1>1 DEF RecursionInv
<1>4. Covered(FALSE)
  BY <1>1 DEF Covered, CacheCovered, ArraysCovered, LoopsCovered, AskedCovered
<1>5. MissingInv
  BY <1>4 DEF MissingInv
<1>6. FirstInv
  BY <1>1 DEF FirstInv
<1> QED
  BY <1>2, <1>3, <1>5, <1>6 DEF ConsumeInv

(* ... and each step keeps them: a turn of the loop, ... *)
LEMMA ConsumeCovers ==
    ASSUME ConsumeTypeInv, RecursionInv, Consume, NEW own \in BOOLEAN, Covered(own),
           own \/ consumedModules[Current.module][Current.next] # asked
    PROVE  Covered(own)'
<1> DEFINE n == Len(arrays)
           l == Len(recursion)
           d == consumedModules[Current.module][Current.next]
<1>1. /\ d \in Modules /\ ArrayTurn(n, d) /\ RecursionTurn(n, l, d)
      /\ UNCHANGED <<importList, consumedModules, imported, cache, asked, knewIt>>
  BY ConsumeFacts
<1>2. recursion # <<>> /\ arrays # <<>>
  BY DEF Consume, RecursionInv
<1>3. /\ \A m \in Modules : cache[m] # 0 => cache[m] \in DOMAIN arrays
      /\ \A x \in DOMAIN arrays : arrays[x] \subseteq Modules
      /\ n \in DOMAIN arrays
  BY <1>1, ArrayFacts DEF ArrayTurn
<1>4. /\ l \in Nat /\ DOMAIN recursion = 1..l /\ Current = recursion[l]
      /\ \A a \in 1..l : recursion[a].module \in Modules /\ recursion[a].next \in Nat \ {0}
  BY <1>2, FrameFacts DEF Frame
<1>5. \A m \in Modules : DOMAIN consumedModules[m] \subseteq Nat \ {0}
  BY ConsumedListFacts
<1>6. d = consumedModules[recursion[l].module][recursion[l].next]
  BY <1>4
<1> HIDE DEF n, l, d
<1>7. /\ Len(arrays) = n /\ Len(arrays') = n
      /\ own \/ d # asked
  BY <1>1 DEF ArrayTurn, n, d
<1>8. \A x \in DOMAIN arrays : Whole(arrays[x], own) \subseteq Whole(arrays'[x], own)
  BY <1>1 DEF Whole, ArrayTurn
<1>9. \A m \in Modules : cache[m] # 0 => ToSet(consumedModules[m]) \subseteq Whole(arrays[cache[m]], own)
  BY DEF Covered, CacheCovered
<1>10. \A m : Visiting(m) => Visiting(m)'
  BY <1>1 DEF Visiting, RecursionTurn
<1>11. \A m \in Modules : cache'[m] # 0 =>
           ToSet(consumedModules'[m]) \subseteq Whole(arrays'[cache'[m]], own)
  <2> SUFFICES ASSUME NEW m \in Modules, cache[m] # 0
               PROVE  ToSet(consumedModules[m]) \subseteq Whole(arrays'[cache[m]], own)
    BY <1>1 DEF Whole
  <2> QED
    BY <1>3, <1>8, <1>9
<1>12. ASSUME NEW x \in DOMAIN arrays, NEW m \in Whole(arrays[x], own)
       PROVE  \/ ToSet(consumedModules[m]) \subseteq Whole(arrays'[x], own)
              \/ x = n /\ Visiting(m)'
  BY <1>7, <1>8, <1>10, <1>12 DEF Covered, ArraysCovered
<1>13. ASSUME NEW x \in DOMAIN arrays', NEW m \in Whole(arrays'[x], own)
       PROVE  \/ ToSet(consumedModules[m]) \subseteq Whole(arrays'[x], own)
              \/ x = n /\ Visiting(m)'
  <2>1. x \in DOMAIN arrays
    BY <1>1 DEF ArrayTurn
  <2>2. CASE m \in Whole(arrays[x], own)
    BY <1>12, <2>1, <2>2
  <2>3. CASE m \notin Whole(arrays[x], own)
    <3>1. x = n /\ m \in arrays'[n] /\ m \notin arrays[n]
      BY <1>1, <1>13, <2>1, <2>3 DEF Whole, ArrayTurn
    <3>2. CASE m = d
      <4>1. CASE Visiting(m)'
        BY <3>1, <4>1
      <4>2. CASE cache[d] # 0 /\ arrays[cache[d]] \subseteq arrays'[n]
        <5>1. ToSet(consumedModules[d]) \subseteq Whole(arrays[cache[d]], own)
          BY <1>1, <1>9, <4>2
        <5>2. Whole(arrays[cache[d]], own) \subseteq Whole(arrays'[n], own)
          BY <1>1, <4>2 DEF Whole
        <5> QED
          BY <3>1, <3>2, <5>1, <5>2
      <4> QED
        BY <1>1, <3>1, <3>2, <4>1, <4>2 DEF RecursionTurn, Visiting
    <3>3. CASE cache[d] # 0 /\ m \in arrays[cache[d]] /\ arrays[cache[d]] \subseteq arrays'[n]
      <4>1. m \in Whole(arrays[cache[d]], own) /\ cache[d] \in DOMAIN arrays
        BY <1>1, <1>3, <3>3 DEF Whole
      <4>2. Whole(arrays'[cache[d]], own) \subseteq Whole(arrays'[n], own)
        <5>1. arrays'[cache[d]] \subseteq arrays'[n]
          BY <1>1, <3>3, <4>1 DEF ArrayTurn
        <5> QED
          BY <1>1, <5>1 DEF Whole
      <4>3. \/ ToSet(consumedModules[m]) \subseteq Whole(arrays'[cache[d]], own)
            \/ Visiting(m)'
        BY <1>12, <4>1
      <4> QED
        BY <3>1, <4>2, <4>3
    <3> QED
      BY <1>1, <3>1, <3>2, <3>3 DEF ArrayTurn
  <2> QED
    BY <2>2, <2>3
<1>14. ASSUME NEW a \in DOMAIN recursion',
              NEW k \in DOMAIN consumedModules[recursion'[a].module], k < recursion'[a].next
       PROVE  consumedModules[recursion'[a].module][k] \in Whole(arrays'[n], own)
  <2>1. CASE a \in DOMAIN recursion
    <3>1. /\ recursion'[a].module = recursion[a].module
          /\ recursion'[a].next = IF a = l THEN recursion[a].next + 1 ELSE recursion[a].next
      BY <1>1, <2>1 DEF RecursionTurn
    <3>2. CASE k < recursion[a].next
      BY <1>3, <1>7, <1>8, <2>1, <3>1, <3>2 DEF Covered, LoopsCovered
    <3>3. CASE ~(k < recursion[a].next)
      <4>1. k \in Nat /\ recursion[a].next \in Nat
        BY <1>4, <1>5, <1>14, <2>1, <3>1
      <4>2. a = l /\ k = recursion[l].next
        BY <1>14, <3>1, <3>3, <4>1
      <4>3. consumedModules[recursion'[a].module][k] = d
        BY <1>6, <3>1, <4>2
      <4>4. d \in Whole(arrays'[n], own)
        BY <1>1, <1>7 DEF Whole, ArrayTurn
      <4> QED
        BY <4>3, <4>4
    <3> QED
      BY <3>2, <3>3
  <2>2. CASE a \notin DOMAIN recursion
    <3>1. recursion'[a].module = d /\ recursion'[a].next = 1
      BY <1>1, <2>2 DEF RecursionTurn
    <3>2. k \in Nat \ {0}
      BY <1>1, <1>5, <1>14, <3>1
    <3> QED
      BY <1>14, <3>1, <3>2
  <2> QED
    BY <2>1, <2>2
<1>15. knewIt /\ arrays # <<>> =>
          \/ ToSet(consumedModules[asked]) \subseteq Whole(arrays'[n], own)
          \/ Visiting(asked)'
  <2> SUFFICES ASSUME knewIt, arrays # <<>>
               PROVE  \/ ToSet(consumedModules[asked]) \subseteq Whole(arrays'[n], own)
                      \/ Visiting(asked)'
    BY <1>1 DEF Visiting
  <2>1. \/ ToSet(consumedModules[asked]) \subseteq Whole(arrays[n], own)
        \/ Visiting(asked)
    BY <1>7 DEF Covered, AskedCovered
  <2>2. Visiting(asked) => Visiting(asked)'
    BY <1>1 DEF Visiting, RecursionTurn
  <2> QED
    BY <1>3, <1>8, <2>1, <2>2
<1> QED
  <2>1. \A A : Whole(A, own)' = Whole(A, own)
    BY <1>1 DEF Whole
  <2>2. CacheCovered(own)'
    BY <1>1, <1>11, <2>1 DEF CacheCovered
  <2>3. ArraysCovered(own)'
    BY <1>1, <1>7, <1>13, <2>1 DEF ArraysCovered, Visiting
  <2>4. LoopsCovered(own)'
    BY <1>1, <1>7, <1>14, <2>1 DEF LoopsCovered
  <2>5. AskedCovered(own)'
    BY <1>1, <1>2, <1>7, <1>15, <2>1 DEF AskedCovered, Visiting
  <2> QED
    BY <2>2, <2>3, <2>4, <2>5 DEF Covered

(* ... the end of the loop, ... *)
LEMMA ConsumedFacts ==
    ASSUME ConsumeTypeInv, Consumed
    PROVE  /\ recursion # <<>> /\ Current.module \in Modules
           /\ Current = recursion[Len(recursion)]
           /\ recursion' \in Seq(Frame)
           /\ Len(recursion) \in Nat /\ Len(recursion) > 0
           /\ DOMAIN recursion = 1..Len(recursion)
           /\ DOMAIN recursion' = 1..(Len(recursion) - 1)
           /\ \A a \in DOMAIN recursion' : recursion'[a] = recursion[a]
           /\ cache' = [cache EXCEPT ![Current.module] = Len(arrays)]
           /\ UNCHANGED <<importList, consumedModules, imported, arrays, asked, knewIt>>
<1>1. /\ recursion # <<>> /\ recursion \in Seq(Frame) /\ recursion' = Front(recursion)
      /\ cache' = [cache EXCEPT ![Current.module] = Len(arrays)]
      /\ UNCHANGED <<importList, consumedModules, imported, arrays, asked, knewIt>>
  BY DEF Consumed, ConsumeTypeInv, graphs
<1>2. /\ recursion' \in Seq(Frame) /\ DOMAIN recursion' = 1..(Len(recursion) - 1)
      /\ \A a \in 1..(Len(recursion) - 1) : recursion'[a] = recursion[a]
  BY <1>1, FrontFacts
<1> QED
  BY <1>1, <1>2, FrameFacts

LEMMA ConsumedCovers ==
    ASSUME ConsumeTypeInv, RecursionInv, Consumed, NEW own \in BOOLEAN, Covered(own)
    PROVE  Covered(own)'
<1> DEFINE n == Len(arrays)
           l == Len(recursion)
           m0 == Current.module
           list == consumedModules[m0]
<1>1. /\ recursion # <<>> /\ m0 \in Modules /\ Current = recursion[l]
      /\ l \in Nat /\ l > 0 /\ DOMAIN recursion = 1..l /\ DOMAIN recursion' = 1..(l - 1)
      /\ \A a \in DOMAIN recursion' : recursion'[a] = recursion[a]
      /\ cache' = [cache EXCEPT ![m0] = n]
      /\ UNCHANGED <<importList, consumedModules, imported, arrays, asked, knewIt>>
  BY ConsumedFacts
<1>2. Current.next > Len(list) /\ Current.next \in Nat /\ arrays # <<>>
  BY <1>1, FrameFacts DEF Consumed, RecursionInv
<1>3. Len(list) \in Nat /\ DOMAIN list = 1..Len(list)
  BY <1>1, ConsumedListFacts
<1>4. ToSet(list) \subseteq Whole(arrays[n], own)
  <2> SUFFICES ASSUME NEW k \in DOMAIN list PROVE list[k] \in Whole(arrays[n], own)
    BY DEF ToSet
  <2>1. k < recursion[l].next /\ l \in DOMAIN recursion /\ m0 = recursion[l].module
    BY <1>1, <1>2, <1>3
  <2> QED
    BY <2>1 DEF Covered, LoopsCovered
<1>5. /\ cache'[m0] = n /\ \A m \in Modules : m # m0 => cache'[m] = cache[m]
  BY <1>1 DEF ConsumeTypeInv
<1>6. n \in DOMAIN arrays
  BY <1>2, ArrayFacts
<1> HIDE DEF n, l, m0, list
<1>7. Len(arrays) = n
  BY DEF n
<1>8. \A m \in Modules : cache'[m] # 0 =>
          ToSet(consumedModules[m]) \subseteq Whole(arrays[cache'[m]], own)
  <2> SUFFICES ASSUME NEW m \in Modules, cache'[m] # 0
               PROVE  ToSet(consumedModules[m]) \subseteq Whole(arrays[cache'[m]], own)
    OBVIOUS
  <2>1. CASE m = m0
    BY <1>4, <1>5, <2>1 DEF list
  <2>2. CASE m # m0
    BY <1>5, <2>2 DEF Covered, CacheCovered
  <2> QED
    BY <2>1, <2>2
<1>9. \A m : Visiting(m) => m = m0 \/ \E a \in DOMAIN recursion' : recursion'[a].module = m
  <2> SUFFICES ASSUME NEW a \in DOMAIN recursion
               PROVE  \/ recursion[a].module = m0
                      \/ \E b \in DOMAIN recursion' : recursion'[b].module = recursion[a].module
    BY DEF Visiting
  <2>1. a = l \/ a \in DOMAIN recursion'
    BY <1>1
  <2>2. recursion[l].module = m0
    BY <1>1 DEF m0
  <2> QED
    BY <1>1, <2>1, <2>2
<1>10. \A x \in DOMAIN arrays : \A m \in Whole(arrays[x], own) :
          \/ ToSet(consumedModules[m]) \subseteq Whole(arrays[x], own)
          \/ x = n /\ \E a \in DOMAIN recursion' : recursion'[a].module = m
  <2> SUFFICES ASSUME NEW x \in DOMAIN arrays, NEW m \in Whole(arrays[x], own)
               PROVE  \/ ToSet(consumedModules[m]) \subseteq Whole(arrays[x], own)
                      \/ x = n /\ \E a \in DOMAIN recursion' : recursion'[a].module = m
    OBVIOUS
  <2>1. \/ ToSet(consumedModules[m]) \subseteq Whole(arrays[x], own)
        \/ x = n /\ Visiting(m)
    BY <1>7 DEF Covered, ArraysCovered
  <2>2. x = n /\ m = m0 => ToSet(consumedModules[m]) \subseteq Whole(arrays[x], own)
    BY <1>4 DEF list
  <2> QED
    BY <1>9, <2>1, <2>2
<1>11. \A a \in DOMAIN recursion' : \A k \in DOMAIN consumedModules[recursion'[a].module] :
          k < recursion'[a].next =>
              consumedModules[recursion'[a].module][k] \in Whole(arrays[n], own)
  <2>1. DOMAIN recursion' \subseteq DOMAIN recursion
    BY <1>1
  <2> QED
    BY <1>1, <1>7, <2>1 DEF Covered, LoopsCovered
<1>12. knewIt =>
          \/ ToSet(consumedModules[asked]) \subseteq Whole(arrays[n], own)
          \/ \E a \in DOMAIN recursion' : recursion'[a].module = asked
  <2>1. knewIt => \/ ToSet(consumedModules[asked]) \subseteq Whole(arrays[n], own)
                  \/ Visiting(asked)
    BY <1>2, <1>7 DEF Covered, AskedCovered
  <2>2. asked = m0 => ToSet(consumedModules[asked]) \subseteq Whole(arrays[n], own)
    BY <1>4 DEF list
  <2> QED
    BY <1>9, <2>1, <2>2
<1> QED
  <2>1. \A A : Whole(A, own)' = Whole(A, own)
    BY <1>1 DEF Whole
  <2>2. CacheCovered(own)'
    BY <1>1, <1>8, <2>1 DEF CacheCovered
  <2>3. ArraysCovered(own)'
    BY <1>1, <1>7, <1>10, <2>1 DEF ArraysCovered, Visiting
  <2>4. LoopsCovered(own)'
    BY <1>1, <1>7, <1>11, <2>1 DEF LoopsCovered
  <2>5. AskedCovered(own)'
    BY <1>1, <1>7, <1>12, <2>1 DEF AskedCovered, Visiting
  <2> QED
    BY <2>2, <2>3, <2>4, <2>5 DEF Covered

(* ... a call, which begins with a new array, ... *)
LEMMA GetFacts ==
    ASSUME ConsumeTypeInv, NEW m \in Modules, GetConsumedModules(m)
    PROVE  /\ recursion = <<>> /\ m \in imported
           /\ asked' = m /\ knewIt' = TRUE
           /\ UNCHANGED <<importList, consumedModules, imported, cache>>
           /\ arrays' \in Seq(SUBSET Modules) /\ Len(arrays') = Len(arrays) + 1
           /\ DOMAIN arrays' = 1..(Len(arrays) + 1)
           /\ \A n \in 1..Len(arrays) : arrays'[n] = arrays[n]
           /\ arrays'[Len(arrays) + 1] = IF cache[m] = 0 THEN {} ELSE arrays[cache[m]]
           /\ recursion' \in Seq(Frame)
           /\ cache[m] # 0 => recursion' = <<>> /\ DOMAIN recursion' = {}
           /\ cache[m] = 0 => /\ DOMAIN recursion' = {1}
                              /\ recursion'[1].module = m /\ recursion'[1].next = 1
<1> DEFINE e == Entered({}, m, m)
           f == [module |-> m, next |-> 1]
<1>1. e = IF cache[m] = 0 THEN {} ELSE arrays[cache[m]]
  BY DEF Entered, Visit, Reuse
<1>2. e \in SUBSET Modules /\ arrays \in Seq(SUBSET Modules)
  BY <1>1, ArrayFacts DEF ConsumeTypeInv
<1>3. /\ recursion = <<>> /\ m \in imported
      /\ asked' = m /\ knewIt' = TRUE
      /\ UNCHANGED <<importList, consumedModules, imported, cache>>
      /\ arrays' = Append(arrays, e) /\ recursion' = Recursing(<<>>, m)
  BY DEF GetConsumedModules, graphs
<1> HIDE DEF e
<1>4. /\ arrays' \in Seq(SUBSET Modules) /\ Len(arrays') = Len(arrays) + 1
      /\ DOMAIN arrays' = 1..(Len(arrays) + 1)
      /\ \A n \in 1..Len(arrays) : arrays'[n] = arrays[n]
      /\ arrays'[Len(arrays) + 1] = e
  BY <1>2, <1>3, AppendFacts
<1>5. f \in Frame /\ f.module = m /\ f.next = 1
  BY DEF Frame
<1>6. cache[m] # 0 => recursion' = <<>> /\ recursion' \in Seq(Frame) /\ DOMAIN recursion' = {}
  BY <1>3, EmptySeq DEF Recursing
<1>7. cache[m] = 0 => recursion' = <<f>>
  BY <1>3 DEF Recursing
<1> HIDE DEF f
<1>8. <<f>> \in Seq(Frame) /\ DOMAIN <<f>> = {1} /\ <<f>>[1] = f
  BY <1>5, SingletonFacts
<1>9. cache[m] = 0 => /\ DOMAIN recursion' = {1} /\ recursion' \in Seq(Frame)
                      /\ recursion'[1].module = m /\ recursion'[1].next = 1
  BY <1>5, <1>7, <1>8
<1> QED
  BY <1>1, <1>3, <1>4, <1>6, <1>9

LEMMA GetMissing ==
    ASSUME ConsumeTypeInv, RecursionInv, NEW m \in Modules, GetConsumedModules(m),
           Covered(FALSE)
    PROVE  Covered(FALSE)'
<1> DEFINE n == Len(arrays)
<1>1. /\ recursion = <<>> /\ asked' = m /\ UNCHANGED <<importList, consumedModules, imported, cache>>
      /\ Len(arrays') = n + 1 /\ DOMAIN arrays' = 1..(n + 1)
      /\ \A x \in 1..n : arrays'[x] = arrays[x]
      /\ arrays'[n + 1] = IF cache[m] = 0 THEN {} ELSE arrays[cache[m]]
      /\ cache[m] # 0 => DOMAIN recursion' = {}
      /\ cache[m] = 0 => /\ DOMAIN recursion' = {1}
                         /\ recursion'[1].module = m /\ recursion'[1].next = 1
  BY GetFacts
<1>2. n \in Nat /\ DOMAIN arrays = 1..n /\ \A x \in Modules : cache[x] # 0 => cache[x] \in 1..n
  BY ArrayFacts
<1>3. \A A : Whole(A, FALSE) = A /\ Whole(A, FALSE)' = A
  BY DEF Whole
<1>4. DOMAIN recursion = {}
  BY <1>1, EmptySeq
<1> HIDE DEF n
<1>5. \A x \in Modules : cache[x] # 0 => ToSet(consumedModules[x]) \subseteq arrays[cache[x]]
  BY <1>3 DEF Covered, CacheCovered
<1>6. \A x \in 1..n : \A y \in arrays[x] : ToSet(consumedModules[y]) \subseteq arrays[x]
  <2> SUFFICES ASSUME NEW x \in 1..n, NEW y \in arrays[x]
               PROVE  ToSet(consumedModules[y]) \subseteq arrays[x]
    OBVIOUS
  <2>1. ~Visiting(y)
    BY <1>4 DEF Visiting
  <2>2. x \in DOMAIN arrays /\ y \in Whole(arrays[x], FALSE)
    BY <1>2, <1>3
  <2>3. ToSet(consumedModules[y]) \subseteq Whole(arrays[x], FALSE)
    BY <2>1, <2>2 DEF Covered, ArraysCovered
  <2> QED
    BY <1>3, <2>3
<1>7. CacheCovered(FALSE)'
  <2>1. \A x \in Modules : cache[x] # 0 => ToSet(consumedModules[x]) \subseteq arrays'[cache[x]]
    BY <1>1, <1>2, <1>5
  <2> QED
    BY <1>1, <1>3, <2>1 DEF CacheCovered
<1>8. ArraysCovered(FALSE)'
  <2>1. ASSUME NEW x \in 1..(n + 1), NEW y \in arrays'[x]
        PROVE  ToSet(consumedModules[y]) \subseteq arrays'[x]
    <3>1. CASE x \in 1..n
      BY <1>1, <1>6, <2>1, <3>1
    <3>2. CASE x = n + 1
      <4>1. cache[m] \in 1..n /\ arrays'[x] = arrays[cache[m]]
        BY <1>1, <1>2, <2>1, <3>2
      <4> QED
        BY <1>6, <2>1, <4>1
    <3> QED
      BY <1>2, <3>1, <3>2
  <2>2. \A x \in DOMAIN arrays' : \A y \in Whole(arrays[x], FALSE)' :
            ToSet(consumedModules'[y]) \subseteq Whole(arrays[x], FALSE)'
    <3> SUFFICES ASSUME NEW x \in DOMAIN arrays', NEW y \in Whole(arrays[x], FALSE)'
                 PROVE  ToSet(consumedModules[y]) \subseteq Whole(arrays[x], FALSE)'
      BY <1>1
    <3>1. x \in 1..(n + 1) /\ y \in arrays'[x] /\ Whole(arrays[x], FALSE)' = arrays'[x]
      BY <1>1, <1>3
    <3> QED
      BY <2>1, <3>1
  <2> QED
    BY <2>2 DEF ArraysCovered
<1>9. LoopsCovered(FALSE)'
  <2>1. DOMAIN consumedModules[m] \subseteq Nat \ {0}
    BY ConsumedListFacts
  <2>2. ASSUME NEW a \in DOMAIN recursion', NEW k \in DOMAIN consumedModules[recursion'[a].module]
        PROVE  ~(k < recursion'[a].next)
    BY <1>1, <2>1, <2>2
  <2> QED
    BY <1>1, <2>2 DEF LoopsCovered
<1>10. AskedCovered(FALSE)'
  <2>1. CASE cache[m] = 0
    BY <1>1, <2>1 DEF AskedCovered, Visiting
  <2>2. CASE cache[m] # 0
    <3>1. ToSet(consumedModules[m]) \subseteq arrays'[n + 1]
      BY <1>1, <1>5, <2>2
    <3> QED
      BY <1>1, <1>3, <3>1, ZenonT(60) DEF AskedCovered
  <2> QED
    BY <2>1, <2>2
<1> QED
  BY <1>7, <1>8, <1>9, <1>10 DEF Covered

LEMMA GetFirst ==
    ASSUME ConsumeTypeInv, NEW m \in Modules, GetConsumedModules(m), Len(arrays') = 1
    PROVE  Covered(TRUE)' /\ arrays'[1] = {}
<1>1. Len(arrays) = 0 /\ cache[m] = 0
  <2> DEFINE n == Len(arrays)
             k == Len(arrays')
  <2>1. n \in Nat /\ k = n + 1 /\ k = 1
    BY GetFacts, ArrayFacts
  <2> HIDE DEF n, k
  <2>2. n = 0
    BY <2>1
  <2> QED
    BY <2>2 DEF ConsumeTypeInv, n
<1>2. /\ asked' = m /\ UNCHANGED <<importList, consumedModules, imported, cache>>
      /\ DOMAIN arrays' = {1} /\ arrays'[1] = {}
      /\ DOMAIN recursion' = {1}
      /\ recursion'[1].module = m /\ recursion'[1].next = 1
  <2>1. /\ asked' = m /\ UNCHANGED <<importList, consumedModules, imported, cache>>
        /\ DOMAIN arrays' = 1..(0 + 1) /\ arrays'[0 + 1] = {}
        /\ DOMAIN recursion' = {1}
        /\ recursion'[1].module = m /\ recursion'[1].next = 1
    BY <1>1, GetFacts
  <2>2. 1..(0 + 1) = {1} /\ 0 + 1 = 1
    OBVIOUS
  <2> QED
    BY <2>1, <2>2
<1>3. \A x \in Modules : cache[x] = 0
  BY <1>1 DEF ConsumeTypeInv
<1>4. \A A : Whole(A, TRUE)' = A \cup {m}
  BY <1>2 DEF Whole
<1>5. CacheCovered(TRUE)'
  BY <1>2, <1>3 DEF CacheCovered
<1>6. ArraysCovered(TRUE)'
  <2>1. Visiting(m)'
    BY <1>2 DEF Visiting
  <2>2. \A x \in DOMAIN arrays' : x = 1 /\ arrays'[x] \cup {m} = {m}
    BY <1>2
  <2>3. \A x \in DOMAIN arrays' : \A y \in Whole(arrays[x], TRUE)' :
            y = m /\ x = Len(arrays')
    <3> SUFFICES ASSUME NEW x \in DOMAIN arrays', NEW y \in Whole(arrays[x], TRUE)'
                 PROVE  y = m /\ x = Len(arrays')
      OBVIOUS
    <3>1. Whole(arrays[x], TRUE)' = arrays'[x] \cup {m}
      BY <1>2 DEF Whole
    <3>2. x = 1 /\ arrays'[x] \cup {m} = {m}
      BY <2>2
    <3> HIDE DEF Whole
    <3>3. y \in {m}
      BY <3>1, <3>2
    <3> QED
      BY <3>2, <3>3
  <2> QED
    BY <1>4, <2>1, <2>3 DEF ArraysCovered, Visiting
<1>7. LoopsCovered(TRUE)'
  <2>1. DOMAIN consumedModules[m] \subseteq Nat \ {0}
    BY ConsumedListFacts
  <2>2. \A a \in DOMAIN recursion' : \A k \in DOMAIN consumedModules[recursion'[a].module] :
            ~(k < recursion'[a].next)
    BY <1>2, <2>1
  <2> QED
    BY <1>2, <2>2 DEF LoopsCovered
<1>8. AskedCovered(TRUE)'
  BY <1>2 DEF AskedCovered, Visiting
<1> QED
  BY <1>2, <1>5, <1>6, <1>7, <1>8 DEF Covered

-----------------------------------------------------------------------------
LEMMA GetKeeps ==
    ASSUME ConsumeInv, NEW m \in Modules, GetConsumedModules(m)
    PROVE  ConsumeInv'
<1>1. ConsumeTypeInv /\ RecursionInv /\ MissingInv /\ FirstInv
  BY DEF ConsumeInv
<1>2. /\ asked' = m /\ knewIt' = TRUE
      /\ UNCHANGED <<importList, consumedModules, imported, cache>>
      /\ arrays' \in Seq(SUBSET Modules) /\ Len(arrays') = Len(arrays) + 1
      /\ recursion' \in Seq(Frame)
      /\ cache[m] # 0 => recursion' = <<>> /\ DOMAIN recursion' = {}
      /\ cache[m] = 0 => DOMAIN recursion' = {1} /\ recursion'[1].module = m
  BY <1>1, GetFacts
<1>3. Len(arrays) \in Nat
  BY <1>1, ArrayFacts
<1>4. ConsumeTypeInv'
  BY <1>1, <1>2, <1>3 DEF ConsumeTypeInv
<1>5. RecursionInv'
  <2>1. arrays' # <<>>
    <3>1. Len(arrays') # 0
      BY <1>2, <1>3
    <3> QED
      BY <1>2, <3>1, EmptySeq
  <2>2. m \in ReachableFrom({m}, consumedModules)
    BY ReachSelf
  <2> QED
    BY <1>2, <2>1, <2>2 DEF RecursionInv, Reached
<1>6. MissingInv'
  <2>1. Unlooped' => Unlooped
    BY <1>2 DEF Unlooped, Consumes
  <2> QED
    BY <1>1, <2>1, GetMissing DEF MissingInv
<1>7. FirstInv'
  <2> SUFFICES ASSUME Len(arrays') = 1
               PROVE  Covered(TRUE)' /\ arrays'[1] \subseteq (Consumes(asked) \ {asked})'
    BY DEF FirstInv
  <2> QED
    BY <1>1, GetFirst
<1> QED
  BY <1>4, <1>5, <1>6, <1>7 DEF ConsumeInv

LEMMA ConsumeKeeps ==
    ASSUME ConsumeInv, Consume
    PROVE  ConsumeInv'
<1> DEFINE n == Len(arrays)
           d == consumedModules[Current.module][Current.next]
<1>1. ConsumeTypeInv /\ RecursionInv /\ MissingInv /\ FirstInv
  BY DEF ConsumeInv
<1>2. /\ d \in Modules /\ d \in ToSet(consumedModules[Current.module])
      /\ ArrayTurn(n, d) /\ RecursionTurn(n, Len(recursion), d)
      /\ UNCHANGED <<importList, consumedModules, imported, cache, asked, knewIt>>
  BY <1>1, ConsumeFacts
<1>3. /\ recursion # <<>> /\ arrays # <<>>
      /\ Len(recursion) \in DOMAIN recursion /\ Current = recursion[Len(recursion)]
      /\ DOMAIN recursion = 1..Len(recursion) /\ Current.module \in Modules /\ knewIt
  BY <1>1, FrameFacts DEF Consume, RecursionInv
<1>4. Current.module \in Reached(asked)
  BY <1>1, <1>3 DEF RecursionInv
<1>5. d \in Reached(asked) /\ d \in Consumes(asked)
  BY <1>1, <1>2, <1>4, ReachStep, ReachImports
     DEF Reached, Consumes, ConsumeTypeInv
<1>6. \A x \in DOMAIN arrays : arrays[x] \subseteq Modules
  BY <1>1, ArrayFacts
<1> HIDE DEF d, n
<1>7. Len(arrays) = n /\ n \in DOMAIN arrays
  BY <1>2 DEF n, ArrayTurn
<1>8. ConsumeTypeInv'
  BY <1>1, <1>2, <1>7 DEF ConsumeTypeInv, ArrayTurn, RecursionTurn
<1>9. RecursionInv'
  <2>1. arrays' # <<>> /\ recursion' # <<>>
    <3>1. DOMAIN arrays' # {} /\ DOMAIN recursion' # {}
      BY <1>2, <1>3 DEF ArrayTurn, RecursionTurn
    <3> QED
      BY <3>1, EmptySeq
  <2>2. 1 \in DOMAIN recursion
    BY <1>3, FrameFacts, <1>1
  <2>3. recursion'[1].module = asked
    BY <1>1, <1>2, <1>3, <2>2 DEF RecursionInv, RecursionTurn
  <2>4. \A a \in DOMAIN recursion' : recursion'[a].module \in Reached(asked)
    <3> SUFFICES ASSUME NEW a \in DOMAIN recursion'
                 PROVE  recursion'[a].module \in Reached(asked)
      OBVIOUS
    <3>1. CASE a \in DOMAIN recursion
      BY <1>1, <1>2, <3>1 DEF RecursionInv, RecursionTurn
    <3>2. CASE a \notin DOMAIN recursion
      BY <1>2, <1>5, <3>2 DEF RecursionTurn
    <3> QED
      BY <3>1, <3>2
  <2> QED
    BY <1>2, <1>3, <2>1, <2>3, <2>4 DEF RecursionInv, Reached
<1>10. MissingInv'
  <2> SUFFICES ASSUME Unlooped PROVE Covered(FALSE)'
    BY <1>2 DEF MissingInv, Unlooped, Consumes
  <2>1. d # asked
    BY <1>5, <1>1 DEF Unlooped, ConsumeTypeInv
  <2> QED
    BY <1>1, <2>1, ConsumeCovers DEF MissingInv, d
<1>11. FirstInv'
  <2> SUFFICES ASSUME Len(arrays') = 1
               PROVE  Covered(TRUE)' /\ arrays'[1] \subseteq (Consumes(asked) \ {asked})'
    BY DEF FirstInv
  <2>1. n = 1
    BY <1>2 DEF ArrayTurn
  <2>2. Covered(TRUE) /\ arrays[1] \subseteq Consumes(asked) \ {asked}
    BY <1>1, <1>3, <1>7, <2>1 DEF FirstInv
  <2>3. Covered(TRUE)'
    BY <1>1, <2>2, ConsumeCovers
  <2>4. cache[d] # 0 => cache[d] = 1
    BY <1>1, <1>2, <1>7, <2>1 DEF ConsumeTypeInv
  <2>5. arrays'[1] \subseteq Consumes(asked) \ {asked}
    BY <1>2, <1>5, <2>1, <2>2, <2>4 DEF ArrayTurn
  <2> QED
    BY <1>2, <2>3, <2>5 DEF Consumes
<1> QED
  BY <1>8, <1>9, <1>10, <1>11 DEF ConsumeInv

LEMMA ConsumedKeeps ==
    ASSUME ConsumeInv, Consumed
    PROVE  ConsumeInv'
<1> DEFINE l == Len(recursion)
<1>1. ConsumeTypeInv /\ RecursionInv /\ MissingInv /\ FirstInv
  BY DEF ConsumeInv
<1>2. /\ recursion # <<>> /\ Current.module \in Modules
      /\ recursion' \in Seq(Frame)
      /\ l \in Nat /\ l > 0 /\ DOMAIN recursion = 1..l
      /\ DOMAIN recursion' = 1..(l - 1)
      /\ \A a \in DOMAIN recursion' : recursion'[a] = recursion[a]
      /\ cache' = [cache EXCEPT ![Current.module] = Len(arrays)]
      /\ UNCHANGED <<importList, consumedModules, imported, arrays, asked, knewIt>>
  BY <1>1, ConsumedFacts
<1> HIDE DEF l
<1>3. ConsumeTypeInv'
  <2>1. Len(arrays) \in 0..Len(arrays)
    BY <1>1, ArrayFacts
  <2>2. cache' \in [Modules -> 0..Len(arrays)]
    BY <1>1, <1>2, <2>1 DEF ConsumeTypeInv
  <2> QED
    BY <1>1, <1>2, <2>2 DEF ConsumeTypeInv
<1>4. RecursionInv'
  <2>1. DOMAIN recursion' \subseteq DOMAIN recursion
    BY <1>2
  <2>2. \A a \in DOMAIN recursion' : recursion'[a].module \in Reached(asked)
    BY <1>1, <1>2, <2>1 DEF RecursionInv
  <2>3. recursion' # <<>> => recursion'[1].module = asked
    <3>1. recursion' # <<>> => 1 \in DOMAIN recursion'
      BY <1>2, NotEmpty, LenProperties
    <3> QED
      BY <1>1, <1>2, <3>1 DEF RecursionInv
  <2> QED
    BY <1>1, <1>2, <2>2, <2>3 DEF RecursionInv, Reached
<1>5. MissingInv'
  <2>1. Unlooped' => Unlooped
    BY <1>2 DEF Unlooped, Consumes
  <2>2. Covered(FALSE) => Covered(FALSE)'
    BY <1>1, ConsumedCovers
  <2> QED
    BY <1>1, <2>1, <2>2 DEF MissingInv
<1>6. FirstInv'
  <2> SUFFICES ASSUME Len(arrays') = 1, knewIt'
               PROVE  Covered(TRUE)' /\ arrays'[1] \subseteq (Consumes(asked) \ {asked})'
    BY DEF FirstInv
  <2>1. Covered(TRUE) /\ arrays[1] \subseteq Consumes(asked) \ {asked}
    BY <1>1, <1>2 DEF FirstInv
  <2>2. Covered(TRUE)'
    BY <1>1, <2>1, ConsumedCovers
  <2> QED
    BY <1>2, <2>1, <2>2 DEF Consumes
<1> QED
  BY <1>3, <1>4, <1>5, <1>6 DEF ConsumeInv

(* What a module imports, with the module, is among the modules. *)
LEMMA EvaluatedModules ==
    ASSUME NEW m
    PROVE  Evaluated(m) \subseteq Modules
BY DEF Evaluated, ReachableFrom

LEMMA ImportKeeps ==
    ASSUME ConsumeInv, NEW m \in Modules, Import(m)
    PROVE  ConsumeInv'
<1>1. ConsumeTypeInv /\ RecursionInv /\ MissingInv /\ FirstInv
  BY DEF ConsumeInv
<1>2. imported' = imported \cup Evaluated(m)
      /\ UNCHANGED <<importList, consumedModules, cache, arrays, asked, knewIt, recursion>>
  BY DEF Import, graphs
<1>3. \A A, own : Whole(A, own)' = Whole(A, own)
  BY <1>2 DEF Whole
<1>4. \A own \in BOOLEAN : Covered(own)' = Covered(own)
  BY <1>2, <1>3 DEF Covered, CacheCovered, ArraysCovered, LoopsCovered,
         AskedCovered, Visiting
<1>5. ConsumeTypeInv'
  BY <1>1, <1>2, EvaluatedModules DEF ConsumeTypeInv
<1>6. RecursionInv'
  BY <1>1, <1>2 DEF RecursionInv, Reached
<1>7. MissingInv'
  BY <1>1, <1>2, <1>4 DEF MissingInv, Unlooped, Consumes
<1>8. FirstInv'
  BY <1>1, <1>2, <1>4 DEF FirstInv, Consumes
<1> QED
  BY <1>5, <1>6, <1>7, <1>8 DEF ConsumeInv

LEMMA GetUnknownKeeps ==
    ASSUME ConsumeInv, NEW m \in Modules, GetUnknownModules(m)
    PROVE  ConsumeInv'
<1>1. ConsumeTypeInv /\ RecursionInv /\ MissingInv /\ FirstInv
  BY DEF ConsumeInv
<1>2. /\ recursion = <<>> /\ imported' = imported \cup Evaluated(m)
      /\ asked' = m /\ knewIt' = FALSE
      /\ UNCHANGED <<importList, consumedModules, cache, arrays, recursion>>
  BY DEF GetUnknownModules, graphs
<1>3. Covered(FALSE) => Covered(FALSE)'
  <2> SUFFICES ASSUME Covered(FALSE) PROVE Covered(FALSE)'
    OBVIOUS
  <2>1. CacheCovered(FALSE)'
    BY <1>2 DEF Covered, CacheCovered, Whole
  <2>2. ArraysCovered(FALSE)'
    BY <1>2 DEF Covered, ArraysCovered, Visiting, Whole
  <2>3. LoopsCovered(FALSE)'
    BY <1>2 DEF Covered, LoopsCovered, Whole
  <2>4. AskedCovered(FALSE)'
    BY <1>2 DEF AskedCovered
  <2> QED
    BY <2>1, <2>2, <2>3, <2>4 DEF Covered
<1>4. ConsumeTypeInv'
  BY <1>1, <1>2, EvaluatedModules DEF ConsumeTypeInv
<1>5. RecursionInv'
  <2>1. DOMAIN recursion' = {}
    BY <1>2, EmptySeq
  <2> QED
    BY <1>2, <2>1 DEF RecursionInv
<1>6. MissingInv'
  BY <1>1, <1>2, <1>3 DEF MissingInv, Unlooped, Consumes
<1>7. FirstInv'
  BY <1>2 DEF FirstInv
<1> QED
  BY <1>4, <1>5, <1>6, <1>7 DEF ConsumeInv

LEMMA StutterConsumeInv ==
    ASSUME ConsumeInv, UNCHANGED consumeVars
    PROVE  ConsumeInv'
<1>1. UNCHANGED <<importList, consumedModules, imported, cache, arrays, asked, knewIt, recursion>>
  BY DEF consumeVars, graphs
<1>2. \A A, own : Whole(A, own)' = Whole(A, own)
  BY <1>1 DEF Whole
<1>3. \A own \in BOOLEAN : Covered(own)' = Covered(own)
  BY <1>1, <1>2, ZenonT(60) DEF Covered, CacheCovered, ArraysCovered, LoopsCovered,
         AskedCovered, Visiting
<1>4. ConsumeTypeInv' = ConsumeTypeInv
  BY <1>1 DEF ConsumeTypeInv
<1>5. RecursionInv' = RecursionInv
  BY <1>1 DEF RecursionInv, Reached
<1>6. MissingInv' = MissingInv
  BY <1>1, <1>3 DEF MissingInv, Unlooped, Consumes
<1>7. FirstInv' = FirstInv
  BY <1>1, <1>3 DEF FirstInv, Consumes
<1> QED
  BY <1>4, <1>5, <1>6, <1>7 DEF ConsumeInv

LEMMA StepConsumeInv == ConsumeInv /\ [ConsumeNext]_consumeVars => ConsumeInv'
<1> SUFFICES ASSUME ConsumeInv, [ConsumeNext]_consumeVars PROVE ConsumeInv'
  OBVIOUS
<1>1. ASSUME NEW m \in Modules, Import(m) PROVE ConsumeInv'
  BY <1>1, ImportKeeps
<1>2. ASSUME NEW m \in Modules, GetConsumedModules(m) PROVE ConsumeInv'
  BY <1>2, GetKeeps
<1>3. ASSUME NEW m \in Modules, GetUnknownModules(m) PROVE ConsumeInv'
  BY <1>3, GetUnknownKeeps
<1>4. CASE Consume
  BY <1>4, ConsumeKeeps
<1>5. CASE Consumed
  BY <1>5, ConsumedKeeps
<1>6. CASE UNCHANGED consumeVars
  BY <1>6, StutterConsumeInv
<1> QED
  BY <1>1, <1>2, <1>3, <1>4, <1>5, <1>6 DEF ConsumeNext

LEMMA ConsumeInvariant == ConsumeSpec => []ConsumeInv
<1>1. ConsumeInit => ConsumeInv
  BY InitConsumeInv
<1>2. ConsumeInv /\ [ConsumeNext]_consumeVars => ConsumeInv'
  BY StepConsumeInv
<1> QED
  BY <1>1, <1>2, PTL DEF ConsumeSpec

(* Between calls, an answer has what its modules import, and what the module
   that is asked for imports. *)
LEMMA AnswerClosed ==
    ASSUME ConsumeTypeInv, Answered, NEW own \in BOOLEAN, Covered(own)
    PROVE  Consumes(asked) \subseteq Whole(answer, own)
<1> DEFINE n == Len(arrays)
           T == Whole(arrays[n], own)
<1>1. knewIt /\ arrays # <<>> /\ recursion = <<>>
  BY DEF Answered
<1>2. n \in DOMAIN arrays /\ answer = arrays[n] /\ asked \in Modules
  BY <1>1, ArrayFacts DEF answer, ConsumeTypeInv
<1>3. \A m : ~Visiting(m)
  <2>1. DOMAIN recursion = {}
    BY <1>1, EmptySeq
  <2> QED
    BY <2>1 DEF Visiting
<1>4. T \in SUBSET Modules
  BY <1>2, ArrayFacts DEF Whole
<1>5. \A m \in T : ToSet(consumedModules[m]) \subseteq T
  BY <1>2, <1>3 DEF Covered, ArraysCovered
<1>6. ToSet(consumedModules[asked]) \subseteq T
  BY <1>1, <1>3 DEF Covered, AskedCovered
<1> HIDE DEF T
<1>7. ReachableFrom(ToSet(consumedModules[asked]), consumedModules) \subseteq T
  BY <1>4, <1>5, <1>6, ReachLeast
<1> QED
  BY <1>2, <1>7 DEF Consumes, T

(* What is reached from a module is the same in lists that agree on it. *)
LEMMA SameReach ==
    ASSUME NEW g \in [Modules -> Seq(Modules)], NEW h \in [Modules -> Seq(Modules)],
           NEW m \in Modules, \A n \in ReachableFrom({m}, h) : g[n] = h[n]
    PROVE  ReachableFrom(ToSet(g[m]), g) = ReachableFrom(ToSet(h[m]), h)
<1> DEFINE R == ReachableFrom({m}, h)
           G == ReachableFrom(ToSet(g[m]), g)
           H == ReachableFrom(ToSet(h[m]), h)
<1>1. /\ R \subseteq Modules /\ m \in R
      /\ \A n \in R : ToSet(h[n]) \subseteq R /\ ToSet(g[n]) = ToSet(h[n])
  BY ReachSelf, ReachStep DEF ReachableFrom
<1>2. /\ H \subseteq Modules /\ \A n \in H : ToSet(h[n]) \subseteq H
      /\ G \subseteq Modules /\ \A n \in G : ToSet(g[n]) \subseteq G
  BY ReachStep DEF ReachableFrom
<1>3. ToSet(h[m]) \subseteq H /\ ToSet(g[m]) \subseteq G
  <2>1. ToSet(h[m]) \subseteq Modules /\ ToSet(g[m]) \subseteq Modules
    BY <1>1
  <2> QED
    BY <2>1 DEF ReachableFrom
<1>4. H \cap R \in SUBSET Modules /\ ToSet(g[m]) \subseteq H \cap R
      /\ \A n \in H \cap R : ToSet(g[n]) \subseteq H \cap R
  BY <1>1, <1>2, <1>3
<1>5. G \cap R \in SUBSET Modules /\ ToSet(h[m]) \subseteq G \cap R
      /\ \A n \in G \cap R : ToSet(h[n]) \subseteq G \cap R
  BY <1>1, <1>2, <1>3
<1> HIDE DEF R
<1>6. G \subseteq H \cap R
  <2> HIDE DEF H
  <2> QED
    BY <1>4, ReachLeast
<1>7. H \subseteq G \cap R
  <2> HIDE DEF G
  <2> QED
    BY <1>5, ReachLeast
<1> QED
  BY <1>6, <1>7

(* If nothing that a module imports is on a cycle or below one, all of that
   is recorded. *)
LEMMA ConsumesImports ==
    ASSUME ConsumeTypeInv, NEW m \in Modules,
           Evaluated(m) \cap BelowCycles(importList) = {}
    PROVE  Consumes(m) = Imports(m)
<1>1. Evaluated(m) \subseteq Modules
  BY DEF Evaluated, ReachableFrom
<1>2. \A n \in Evaluated(m) : consumedModules[n] = importList[n]
  BY <1>1 DEF ConsumeTypeInv
<1>3. /\ importList \in [Modules -> Seq(Modules)]
      /\ consumedModules \in [Modules -> Seq(Modules)]
  BY DEF ConsumeTypeInv
<1> QED
  BY <1>2, <1>3, SameReach DEF Evaluated, Consumes, Imports

LEMMA AcyclicFacts ==
    ASSUME Acyclic
    PROVE  BelowCycles(importList) = {}
<1>1. OnCycles(importList) = {}
  BY DEF Acyclic, Imports, OnCycles
<1>2. ReachableFrom({}, importList) \subseteq {}
  BY ReachLeast
<1> QED
  BY <1>1, <1>2 DEF BelowCycles

(* Without import cycles, the answer about a module that is evaluated misses
   none of its dependencies, whatever the calls before it have cached: the
   index entry that lists them misses no invalidation. *)
THEOREM NothingMissed == ConsumeSpec => []NothingIsMissed
<1>1. ConsumeInv => NothingIsMissed
  <2> SUFFICES ASSUME ConsumeInv, Answered, Acyclic
               PROVE  Imports(asked) \ {asked} \subseteq answer
    BY DEF NothingIsMissed
  <2>1. ConsumeTypeInv /\ asked \in Modules
    BY DEF ConsumeInv, ConsumeTypeInv
  <2>2. \A m \in Modules : Consumes(m) = Imports(m)
    BY <2>1, AcyclicFacts, ConsumesImports
  <2>3. Covered(FALSE)
    BY <2>2 DEF ConsumeInv, MissingInv, Unlooped, Acyclic
  <2>4. Consumes(asked) \subseteq Whole(answer, FALSE)
    BY <2>1, <2>3, AnswerClosed
  <2> QED
    BY <2>1, <2>2, <2>4 DEF Whole
<1> QED
  BY <1>1, ConsumeInvariant, PTL

(* The first answer of a loader, which finds nothing in the cache, is exact:
   what the evaluations have recorded that the module imports, directly or
   not, without the module; with import cycles too.  It is what the module
   imports, if nothing of that is on a cycle or below one. *)
THEOREM FirstAnswerExact == ConsumeSpec => []FirstAnswerIsExact
<1>1. ConsumeInv => FirstAnswerIsExact
  <2> SUFFICES ASSUME ConsumeInv, Answered, Len(arrays) = 1
               PROVE  /\ answer = Consumes(asked) \ {asked}
                      /\ Evaluated(asked) \cap BelowCycles(importList) = {} =>
                             answer = Imports(asked) \ {asked}
    BY DEF FirstAnswerIsExact
  <2>1. /\ ConsumeTypeInv /\ Covered(TRUE) /\ asked \in Modules
        /\ arrays[1] \subseteq Consumes(asked) \ {asked}
    BY DEF ConsumeInv, FirstInv, Answered, ConsumeTypeInv
  <2>2. Consumes(asked) \subseteq Whole(answer, TRUE)
    BY <2>1, AnswerClosed
  <2>3. answer = arrays[1]
    BY <2>1, ArrayFacts DEF answer, Answered
  <2>4. answer = Consumes(asked) \ {asked}
    BY <2>1, <2>2, <2>3 DEF Whole
  <2> QED
    BY <2>1, <2>4, ConsumesImports
<1> QED
  BY <1>1, ConsumeInvariant, PTL
=============================================================================
