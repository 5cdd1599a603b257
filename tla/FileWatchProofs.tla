-------------------------- MODULE FileWatchProofs --------------------------
(***************************************************************************)
(* Theorems about FileWatch, for any files, clients and bounds: only a     *)
(* failed update keeps a drain from its end, and unless one of the mishaps *)
(* happens, the index has every file as it was left.                       *)
(***************************************************************************)
EXTENDS FileWatch, SequenceLemmas, FiniteSetTheorems, TLAPS

Phases == {"called", "publishing", "queued", "ended", "failed"}
Drain == [phase : Phases, awaits : Nat, items : Seq(Item)]
Job == [type : Types, path : Paths, by : Nat \cup {Realm}]

TypeInv ==
    /\ files \in [Paths -> Nat] /\ index \in [Paths -> Nat] /\ clock \in Nat
    /\ own \in [Paths -> {"idle", "write", "delete", "written", "deleted", "queued"}]
    /\ foreign \subseteq Paths
    /\ updateItems \in Seq(Item)
    /\ drains \in Seq(Drain) /\ flush \in 0..Len(drains)
    /\ jobs \in Seq(Job)

Phase(d) == drains[d].phase
Items(d) == drains[d].items

(* A drain has items while it is busy, and awaits one that was called before. *)
DrainInv ==
    \A d \in DOMAIN drains :
        /\ drains[d].awaits < d
        /\ d \in Busy <=> Items(d) # <<>>

(* Each job is that of a write, or of the first item of a drain, which waits. *)
JobInv ==
    /\ \A k \in DOMAIN jobs :
          IF jobs[k].by = Realm THEN own[jobs[k].path] = "queued"
          ELSE \E d \in DOMAIN drains :
                  /\ jobs[k].by = d /\ Phase(d) = "queued"
                  /\ jobs[k].type = Items(d)[1].type /\ jobs[k].path = Items(d)[1].path
    /\ \A k, l \in DOMAIN jobs : jobs[k].by = jobs[l].by /\ jobs[k].path = jobs[l].path => k = l
    /\ \A d \in DOMAIN drains : Phase(d) = "queued" => \E k \in DOMAIN jobs : jobs[k].by = d

(* Those that wait were called after the others, and await one drain: that of
   the promise there is now, or one that has ended.  One of them will take the
   updates there are. *)
WaitInv ==
    /\ \A d, e \in DOMAIN drains : Phase(d) = "called" =>
          /\ IF Phase(e) = "called" THEN drains[d].awaits = drains[e].awaits ELSE e < d
          /\ CanResume(d) \/ drains[d].awaits = flush
    /\ updateItems # <<>> => \E d \in DOMAIN drains : Phase(d) = "called"

Inv == TypeInv /\ DrainInv /\ JobInv /\ WaitInv

(* What is told of p last, in a sequence of updates. *)
Mentions(s, p) == \E k \in DOMAIN s : s[k].path = p
LastIs(s, p, type) ==
    \E k \in DOMAIN s : /\ s[k].path = p /\ s[k].type = type
                        /\ \A l \in DOMAIN s : k < l => s[l].path # p

(* The last update of p that will be indexed is a removal. *)
LastRemoves(p) ==
    \/ LastIs(updateItems, p, "removed")
    \/ /\ ~Mentions(updateItems, p)
       /\ \E d \in DOMAIN drains :
             /\ LastIs(Items(d), p, "removed")
             /\ \A e \in DOMAIN drains : d < e => ~Mentions(Items(e), p)

OwnRemoves(p) ==
    \/ own[p] = "deleted"
    \/ \E k \in DOMAIN jobs : jobs[k].by = Realm /\ jobs[k].path = p /\ jobs[k].type = "removed"

(* Of two busy drains the one with a job has come first. *)
InTurn == \A d, e \in Busy : Phase(d) = "queued" => d <= e

(* A file that the watcher has yet to tell of was changed from outside.  Any
   other is indexed, or will be: what is done with it last finds the file, and
   removes it from the index only if it is not there. *)
FileInv(p) ==
    /\ p \in foreign => p \in dirty
    /\ own[p] # "idle" => ~Told(p)
    /\ p \notin foreign =>
          /\ own[p] \in {"idle", "write", "delete"} /\ ~Told(p) => index[p] = files[p]
          /\ LastRemoves(p) \/ OwnRemoves(p) => files[p] = 0

EditInv ==
    mishaps = {} => /\ InTurn
                    /\ watcher # "ready" => dirty = {}
                    /\ \A p \in Paths : FileInv(p)


-----------------------------------------------------------------------------
LEMMA TypeFacts ==
    ASSUME TypeInv
    PROVE  /\ Len(drains) \in Nat /\ DOMAIN drains = 1..Len(drains)
           /\ Len(jobs) \in Nat /\ DOMAIN jobs = 1..Len(jobs)
           /\ \A d \in DOMAIN drains :
                 drains[d] \in Drain /\ Phase(d) \in Phases /\ drains[d].awaits \in Nat
                 /\ Items(d) \in Seq(Item)
           /\ \A k \in DOMAIN jobs : jobs[k] \in Job
           /\ flush \in Nat
           /\ \A p \in Paths : files[p] \in Nat /\ index[p] \in Nat
<1>1. drains \in Seq(Drain) /\ jobs \in Seq(Job)
  BY DEF TypeInv
<1>2. Len(drains) \in Nat /\ DOMAIN drains = 1..Len(drains)
  BY <1>1, LenProperties, Zenon
<1>3. Len(jobs) \in Nat /\ DOMAIN jobs = 1..Len(jobs)
  BY <1>1, LenProperties, Zenon
<1>4. \A d \in DOMAIN drains : drains[d] \in Drain
  BY <1>1, <1>2, ElementOfSeq, Zenon
<1>5. \A k \in DOMAIN jobs : jobs[k] \in Job
  BY <1>1, <1>3, ElementOfSeq, Zenon
<1>6. \A x \in Drain : x.phase \in Phases /\ x.awaits \in Nat /\ x.items \in Seq(Item)
  BY DEF Drain
<1>7. flush \in Nat /\ \A p \in Paths : files[p] \in Nat /\ index[p] \in Nat
  BY <1>2 DEF TypeInv
<1> QED
  BY <1>2, <1>3, <1>4, <1>5, <1>6, <1>7 DEF Phase, Items

(* The updates in a sequence. *)
LEMMA ItemFacts ==
    ASSUME NEW s \in Seq(Item)
    PROVE  /\ Len(s) \in Nat /\ DOMAIN s = 1..Len(s)
           /\ \A k \in DOMAIN s : s[k] \in Item /\ s[k].type \in Types /\ s[k].path \in Paths
           /\ s # <<>> => 1 \in DOMAIN s /\ Head(s) = s[1]
<1>1. Len(s) \in Nat /\ DOMAIN s = 1..Len(s)
  BY LenProperties
<1>2. \A k \in DOMAIN s : s[k] \in Item
  BY <1>1, ElementOfSeq
<1>3. \A x \in Item : x.type \in Types /\ x.path \in Paths
  BY DEF Item
<1>4. s # <<>> => 1 \in DOMAIN s /\ Head(s) = s[1]
  BY NotEmpty
<1> QED
  BY <1>1, <1>2, <1>3, <1>4

LEMMA EmptyMentions ==
    ASSUME NEW p, NEW type
    PROVE  ~Mentions(<<>>, p) /\ ~LastIs(<<>>, p, type)
<1>1. DOMAIN <<>> = {}
  OBVIOUS
<1> QED
  BY <1>1 DEF Mentions, LastIs

LEMMA LastOfAppend ==
    ASSUME NEW s \in Seq(Item), NEW h \in Item, NEW p, NEW type
    PROVE  /\ Mentions(Append(s, h), p) <=> Mentions(s, p) \/ h.path = p
           /\ h.path = p => (LastIs(Append(s, h), p, type) => h.type = type)
           /\ h.path # p => (LastIs(Append(s, h), p, type) => LastIs(s, p, type))
<1> DEFINE a == Append(s, h)
<1>1. /\ Len(s) \in Nat /\ DOMAIN s = 1..Len(s) /\ DOMAIN a = 1..(Len(s) + 1)
      /\ \A i \in 1..Len(s) : a[i] = s[i]
      /\ a[Len(s) + 1] = h
  BY AppendFacts
<1> HIDE DEF a
<1>2. Mentions(a, p) <=> Mentions(s, p) \/ h.path = p
  BY <1>1 DEF Mentions
<1>3. ASSUME h.path = p, LastIs(a, p, type) PROVE h.type = type
  <2>1. PICK k \in DOMAIN a : /\ a[k].path = p /\ a[k].type = type
                              /\ \A l \in DOMAIN a : k < l => a[l].path # p
    BY <1>3 DEF LastIs
  <2>2. k = Len(s) + 1
    BY <1>1, <1>3, <2>1
  <2> QED
    BY <1>1, <2>1, <2>2
<1>4. ASSUME h.path # p, LastIs(a, p, type) PROVE LastIs(s, p, type)
  <2>1. PICK k \in DOMAIN a : /\ a[k].path = p /\ a[k].type = type
                              /\ \A l \in DOMAIN a : k < l => a[l].path # p
    BY <1>4 DEF LastIs
  <2>2. k \in DOMAIN s
    BY <1>1, <1>4, <2>1
  <2>3. \A l \in DOMAIN s : k < l => s[l].path # p
    BY <1>1, <2>1, <2>2
  <2>4. s[k] = a[k]
    BY <1>1, <2>2
  <2> QED
    BY <2>1, <2>2, <2>3, <2>4 DEF LastIs
<1> QED
  BY <1>2, <1>3, <1>4 DEF a

LEMMA LastOfTail ==
    ASSUME NEW s \in Seq(Item), s # <<>>, NEW p, NEW type
    PROVE  /\ Mentions(Tail(s), p) => Mentions(s, p)
           /\ Mentions(s, p) => Mentions(Tail(s), p) \/ s[1].path = p
           /\ LastIs(Tail(s), p, type) => LastIs(s, p, type)
           /\ Tail(s) = <<>> <=> Len(s) = 1
<1> DEFINE t == Tail(s)
<1>1. /\ Len(s) \in Nat /\ Len(s) > 0 /\ DOMAIN s = 1..Len(s)
      /\ Len(t) = Len(s) - 1 /\ t \in Seq(Item)
      /\ DOMAIN t = 1..(Len(s) - 1)
      /\ \A i \in 1..(Len(s) - 1) : t[i] = s[i + 1]
  BY NotEmpty, TailFacts, LenProperties
<1> HIDE DEF t
<1>2. \A i \in DOMAIN t : i + 1 \in DOMAIN s /\ t[i] = s[i + 1]
  BY <1>1
<1>3. \A i \in DOMAIN s : i = 1 \/ (i - 1 \in DOMAIN t /\ t[i - 1] = s[i])
  <2> SUFFICES ASSUME NEW i \in DOMAIN s, i # 1
               PROVE  i - 1 \in DOMAIN t /\ t[i - 1] = s[i]
    OBVIOUS
  <2>1. i - 1 \in 1..(Len(s) - 1) /\ (i - 1) + 1 = i
    BY <1>1
  <2> QED
    BY <1>1, <2>1
<1>4. Mentions(t, p) => Mentions(s, p)
  BY <1>2 DEF Mentions
<1>5. Mentions(s, p) => Mentions(t, p) \/ s[1].path = p
  BY <1>3 DEF Mentions
<1>6. ASSUME LastIs(t, p, type) PROVE LastIs(s, p, type)
  <2>1. PICK k \in DOMAIN t : /\ t[k].path = p /\ t[k].type = type
                              /\ \A l \in DOMAIN t : k < l => t[l].path # p
    BY <1>6 DEF LastIs
  <2>2. k + 1 \in DOMAIN s /\ s[k + 1] = t[k]
    BY <1>2
  <2>3. ASSUME NEW l \in DOMAIN s, k + 1 < l PROVE s[l].path # p
    <3>1. l - 1 \in DOMAIN t /\ t[l - 1] = s[l] /\ k < l - 1
      BY <1>1, <1>3, <2>3
    <3> QED
      BY <2>1, <3>1
  <2> QED
    BY <2>1, <2>2, <2>3 DEF LastIs
<1>7. t = <<>> <=> Len(s) = 1
  BY <1>1, EmptySeq
<1> QED
  BY <1>4, <1>5, <1>6, <1>7 DEF t

LEMMA ToldIs ==
    ASSUME NEW p
    PROVE  Told(p) <=> \/ Mentions(updateItems, p)
                       \/ \E d \in DOMAIN drains : Mentions(Items(d), p)
BY DEF Told, Mentions, Items

(* A file that is told of has its last update somewhere. *)
LEMMA LastMentions ==
    ASSUME NEW s, NEW p, NEW type, LastIs(s, p, type)
    PROVE  Mentions(s, p)
BY DEF LastIs, Mentions

-----------------------------------------------------------------------------
(* What leaves drains, updates and jobs alone. *)
LEMMA StillInv ==
    ASSUME Inv, UNCHANGED <<draining, jobs>>, TypeInv',
           \A p \in Paths : own[p] = "queued" => own'[p] = "queued"
    PROVE  Inv'
<1>1. UNCHANGED <<updateItems, flush, drains, jobs>>
  BY DEF draining
<1>2. DrainInv'
  BY <1>1 DEF Inv, DrainInv, Busy, Items
<1>3. JobInv'
  <2>1. \A k \in DOMAIN jobs : jobs[k].path \in Paths
    BY TypeFacts DEF Inv, Job
  <2> QED
    BY <1>1, <2>1 DEF Inv, JobInv, Phase, Items
<1>4. WaitInv'
  BY <1>1 DEF Inv, WaitInv, CanResume, Settled, Phase
<1> QED
  BY <1>2, <1>3, <1>4 DEF Inv

LEMMA StillFiles ==
    ASSUME UNCHANGED <<draining, jobs>>, NEW p
    PROVE  /\ InTurn' <=> InTurn
           /\ Told(p)' <=> Told(p)
           /\ LastRemoves(p)' <=> LastRemoves(p)
           /\ own'[p] = own[p] \/ own'[p] # "deleted" => (OwnRemoves(p)' => OwnRemoves(p))
<1>1. UNCHANGED <<updateItems, flush, drains, jobs>>
  BY DEF draining
<1> QED
  BY <1>1 DEF InTurn, Busy, Phase, Told, LastRemoves, LastIs, Mentions, Items,
         OwnRemoves

LEMMA InitInv == Init => Inv /\ EditInv
<1> SUFFICES ASSUME Init PROVE Inv /\ EditInv
  OBVIOUS
<1>1. /\ <<>> \in Seq(Item) /\ <<>> \in Seq(Drain) /\ <<>> \in Seq(Job)
      /\ Len(<<>>) = 0 /\ DOMAIN <<>> = {}
  BY EmptySeq
<1>2. TypeInv
  BY <1>1 DEF Init, TypeInv
<1>3. DrainInv /\ JobInv /\ WaitInv
  BY <1>1 DEF Init, DrainInv, JobInv, WaitInv
<1>4. InTurn
  BY <1>1 DEF Init, InTurn, Busy
<1>5. ASSUME NEW p \in Paths PROVE FileInv(p)
  <2>1. ~LastRemoves(p) /\ ~OwnRemoves(p)
    BY <1>1, EmptyMentions DEF Init, LastRemoves, OwnRemoves
  <2> QED
    BY <2>1 DEF Init, FileInv
<1> QED
  BY <1>2, <1>3, <1>4, <1>5 DEF Inv, EditInv, Init

LEMMA SubscribeInv ==
    ASSUME Inv, EditInv, NEW c \in Clients, Subscribe(c)
    PROVE  Inv' /\ EditInv'
<1>1. UNCHANGED <<disk, writes, watched, draining, indexing, history>>
      /\ (watcher' = watcher \/ (watcher = "none" /\ watcher' = "starting"))
  BY DEF Subscribe
<1>2. UNCHANGED <<draining, jobs, files, index, clock, own, foreign, dirty, updateItems, drains, flush, mishaps>>
  BY <1>1 DEF disk, writes, watched, draining, indexing, history
<1>3. Inv'
  BY <1>2, StillInv DEF Inv, TypeInv
<1>4. ASSUME mishaps' = {} PROVE EditInv'
  <2>1. InTurn' /\ (watcher' # "ready" => dirty' = {})
    BY <1>1, <1>2, <1>4, StillFiles DEF EditInv
  <2>2. ASSUME NEW p \in Paths PROVE FileInv(p)'
    <3>1. FileInv(p)
      BY <1>2, <1>4 DEF EditInv
    <3>2. (Told(p)' <=> Told(p)) /\ (LastRemoves(p)' <=> LastRemoves(p))
          /\ (OwnRemoves(p)' => OwnRemoves(p))
      BY <1>2, StillFiles
    <3> QED
      BY <1>2, <3>1, <3>2 DEF FileInv
  <2> QED
    BY <2>1, <2>2 DEF EditInv
<1> QED
  BY <1>3, <1>4 DEF EditInv

LEMMA WatcherReadyInv ==
    ASSUME Inv, EditInv, WatcherReady
    PROVE  Inv' /\ EditInv'
<1>1. /\ UNCHANGED <<disk, writes, dirty, draining, indexing, history>>
      /\ watcher = "starting" /\ watcher' = "ready" /\ foreign' = {}
  BY DEF WatcherReady
<1>2. UNCHANGED <<draining, jobs, files, index, clock, own, dirty, updateItems, drains, flush, mishaps>>
  BY <1>1 DEF disk, writes, draining, indexing, history
<1>3. Inv'
  BY <1>1, <1>2, StillInv DEF Inv, TypeInv
<1>4. ASSUME mishaps' = {} PROVE EditInv'
  <2>1. InTurn' /\ dirty = {}
    BY <1>1, <1>2, <1>4, StillFiles DEF EditInv
  <2>2. ASSUME NEW p \in Paths PROVE FileInv(p)'
    <3>1. FileInv(p) /\ p \notin foreign
      BY <1>2, <1>4, <2>1 DEF EditInv, FileInv
    <3>2. (Told(p)' <=> Told(p)) /\ (LastRemoves(p)' <=> LastRemoves(p))
          /\ (OwnRemoves(p)' => OwnRemoves(p))
      BY <1>2, StillFiles
    <3> QED
      BY <1>1, <1>2, <3>1, <3>2 DEF FileInv
  <2> QED
    BY <1>1, <2>1, <2>2 DEF EditInv
<1> QED
  BY <1>3, <1>4 DEF EditInv

LEMMA CleanupInv ==
    ASSUME Inv, EditInv, NEW c \in Clients, Cleanup(c)
    PROVE  Inv' /\ EditInv'
<1>1. /\ UNCHANGED <<disk, writes, known, foreign, draining, indexing>>
      /\ \/ watcher' = "none" /\ dirty' = {} /\ (mishaps' = {} => mishaps = {} /\ dirty = {})
         \/ UNCHANGED <<watcher, dirty, mishaps>>
  BY DEF Cleanup
<1>2. UNCHANGED <<draining, jobs, files, index, clock, own, foreign, updateItems, drains, flush>>
  BY <1>1 DEF disk, writes, draining, indexing
<1>3. Inv'
  BY <1>2, StillInv DEF Inv, TypeInv
<1>4. ASSUME mishaps' = {} PROVE EditInv'
  <2>1. InTurn' /\ mishaps = {} /\ dirty' = dirty /\ (watcher' # "ready" => dirty' = {})
    BY <1>1, <1>2, <1>4, StillFiles DEF EditInv
  <2>2. ASSUME NEW p \in Paths PROVE FileInv(p)'
    <3>1. FileInv(p)
      BY <2>1 DEF EditInv
    <3>2. (Told(p)' <=> Told(p)) /\ (LastRemoves(p)' <=> LastRemoves(p))
          /\ (OwnRemoves(p)' => OwnRemoves(p))
      BY <1>2, StillFiles
    <3> QED
      BY <1>2, <2>1, <3>1, <3>2 DEF FileInv
  <2> QED
    BY <2>1, <2>2 DEF EditInv
<1> QED
  BY <1>3, <1>4 DEF EditInv

LEMMA EditsInv ==
    ASSUME Inv, EditInv, NEW p \in Paths, Edit(p)
    PROVE  Inv' /\ EditInv'
<1>1. /\ UNCHANGED <<writes, listening, known, draining, indexing>>
      /\ clock' = clock + 1
      /\ \E v \in {clock + 1, 0} : files' = [files EXCEPT ![p] = v]
      /\ dirty' = IF watcher = "ready" THEN dirty \cup {p} ELSE dirty
      /\ foreign' = foreign \cup {p}
      /\ mishaps' = {} => mishaps = {} /\ watcher = "ready"
  BY DEF Edit, Change
<1>2. UNCHANGED <<draining, jobs, index, own, watcher, updateItems, drains, flush>>
  BY <1>1 DEF writes, listening, draining, indexing
<1>3. Inv'
  <2>1. TypeInv'
    BY <1>1, <1>2 DEF Inv, TypeInv
  <2> QED
    BY <1>2, <2>1, StillInv
<1>4. ASSUME mishaps' = {} PROVE EditInv'
  <2>1. InTurn' /\ watcher' = "ready" /\ mishaps = {} /\ dirty' = dirty \cup {p}
    BY <1>1, <1>2, <1>4, StillFiles DEF EditInv
  <2>2. ASSUME NEW q \in Paths PROVE FileInv(q)'
    <3>1. FileInv(q) /\ (q # p => files'[q] = files[q])
      BY <1>1, <2>1 DEF EditInv, Inv, TypeInv
    <3>2. (Told(q)' <=> Told(q)) /\ (LastRemoves(q)' <=> LastRemoves(q))
          /\ (OwnRemoves(q)' => OwnRemoves(q))
      BY <1>2, StillFiles
    <3> QED
      BY <1>1, <1>2, <2>1, <3>1, <3>2 DEF FileInv
  <2> QED
    BY <2>1, <2>2 DEF EditInv
<1> QED
  BY <1>3, <1>4 DEF EditInv

LEMMA TrackOwnWriteInv ==
    ASSUME Inv, EditInv, NEW p \in Paths, NEW kind \in {"write", "delete"}, TrackOwnWrite(p, kind)
    PROVE  Inv' /\ EditInv'
<1>1. /\ UNCHANGED <<disk, listening, watched, draining, indexing>>
      /\ own[p] = "idle" /\ own' = [own EXCEPT ![p] = kind]
      /\ mishaps' = IF Told(p) THEN mishaps \cup {"raced"} ELSE mishaps
  BY DEF TrackOwnWrite
<1>2. UNCHANGED <<draining, jobs, index, files, clock, watcher, foreign, dirty, updateItems, drains, flush>>
  BY <1>1 DEF disk, listening, watched, draining, indexing
<1>3. \A q \in Paths : own'[q] = IF q = p THEN kind ELSE own[q]
  BY <1>1 DEF Inv, TypeInv
<1>4. Inv'
  <2>1. TypeInv'
    BY <1>1, <1>2 DEF Inv, TypeInv
  <2> QED
    BY <1>1, <1>2, <1>3, <2>1, StillInv
<1>5. ASSUME mishaps' = {} PROVE EditInv'
  <2>1. mishaps = {} /\ ~Told(p)
    BY <1>1, <1>5
  <2>2. InTurn' /\ (watcher' # "ready" => dirty' = {})
    BY <1>2, <2>1, StillFiles DEF EditInv
  <2>3. ASSUME NEW q \in Paths PROVE FileInv(q)'
    <3>1. FileInv(q)
      BY <2>1 DEF EditInv
    <3>2. (Told(q)' <=> Told(q)) /\ (LastRemoves(q)' <=> LastRemoves(q))
          /\ (OwnRemoves(q)' => OwnRemoves(q))
      BY <1>2, <1>3, StillFiles
    <3> QED
      BY <1>1, <1>2, <1>3, <2>1, <3>1, <3>2 DEF FileInv
  <2> QED
    BY <2>2, <2>3 DEF EditInv
<1> QED
  BY <1>4, <1>5 DEF EditInv

LEMMA ChangeOwnInv ==
    ASSUME Inv, EditInv, NEW p \in Paths, ChangeOwn(p)
    PROVE  Inv' /\ EditInv'
<1>1. /\ UNCHANGED <<listening, draining, indexing, mishaps>>
      /\ clock' = clock + 1
      /\ own[p] \in {"write", "delete"}
      /\ own' = [own EXCEPT ![p] = IF own[p] = "write" THEN "written" ELSE "deleted"]
      /\ files' = [files EXCEPT ![p] = IF own[p] = "write" THEN clock + 1 ELSE 0]
      /\ dirty' = IF watcher = "ready" THEN dirty \cup {p} ELSE dirty
      /\ foreign' = foreign \ {p}
  BY DEF ChangeOwn, Change, history
<1>2. UNCHANGED <<draining, jobs, index, watcher, updateItems, drains, flush>>
  BY <1>1 DEF listening, draining, indexing
<1>3. /\ \A q \in Paths : q # p => own'[q] = own[q] /\ files'[q] = files[q]
      /\ own'[p] \in {"written", "deleted"}
      /\ own'[p] = "deleted" => files'[p] = 0
  BY <1>1 DEF Inv, TypeInv
<1>4. Inv'
  <2>1. TypeInv'
    BY <1>1, <1>2 DEF Inv, TypeInv
  <2> QED
    BY <1>1, <1>2, <1>3, <2>1, StillInv
<1>5. ASSUME mishaps' = {} PROVE EditInv'
  <2>1. mishaps = {}
    BY <1>1, <1>5
  <2>2. InTurn' /\ (watcher' # "ready" => dirty' = {})
    BY <1>1, <1>2, <2>1, StillFiles DEF EditInv
  <2>3. ASSUME NEW q \in Paths, q # p PROVE FileInv(q)'
    <3>1. FileInv(q)
      BY <2>1 DEF EditInv
    <3>2. (Told(q)' <=> Told(q)) /\ (LastRemoves(q)' <=> LastRemoves(q))
          /\ (OwnRemoves(q)' => OwnRemoves(q))
      BY <1>2, <1>3, <2>3, StillFiles
    <3> QED
      BY <1>1, <1>2, <1>3, <2>3, <3>1, <3>2 DEF FileInv
  <2>4. FileInv(p)'
    <3>1. ~Told(p)
      BY <1>1, <2>1 DEF EditInv, FileInv
    <3>2. ~Told(p)' /\ ~LastRemoves(p)'
      BY <1>2, <3>1, StillFiles, LastMentions, ToldIs DEF LastRemoves
    <3>3. OwnRemoves(p)' => own'[p] = "deleted"
      <4>1. \A k \in DOMAIN jobs : jobs[k].by = Realm /\ jobs[k].path = p => FALSE
        BY <1>1 DEF Inv, JobInv
      <4> QED
        BY <1>2, <4>1 DEF OwnRemoves
    <3> QED
      BY <1>1, <1>3, <3>2, <3>3 DEF FileInv
  <2> QED
    BY <2>2, <2>3, <2>4 DEF EditInv
<1> QED
  BY <1>4, <1>5 DEF EditInv

LEMMA ForgetInv ==
    ASSUME Inv, EditInv, NEW h, Forget(h)
    PROVE  Inv' /\ EditInv'
<1>1. UNCHANGED <<disk, own, listening, watched, draining, indexing, history>>
  BY DEF Forget
<1>2. UNCHANGED <<draining, jobs, index, files, clock, own, watcher, foreign, dirty, updateItems, drains, flush,
                  mishaps>>
  BY <1>1 DEF disk, listening, watched, draining, indexing, history
<1>3. Inv'
  BY <1>2, StillInv DEF Inv, TypeInv
<1>4. ASSUME mishaps' = {} PROVE EditInv'
  <2>1. InTurn' /\ (watcher' # "ready" => dirty' = {})
    BY <1>2, <1>4, StillFiles DEF EditInv
  <2>2. ASSUME NEW p \in Paths PROVE FileInv(p)'
    <3>1. FileInv(p)
      BY <1>2, <1>4 DEF EditInv
    <3>2. (Told(p)' <=> Told(p)) /\ (LastRemoves(p)' <=> LastRemoves(p))
          /\ (OwnRemoves(p)' => OwnRemoves(p))
      BY <1>2, StillFiles
    <3> QED
      BY <1>2, <3>1, <3>2 DEF FileInv
  <2> QED
    BY <2>1, <2>2 DEF EditInv
<1> QED
  BY <1>3, <1>4 DEF EditInv

-----------------------------------------------------------------------------
(* What becomes an update, last of all, is taken by a new call of
   drainUpdates. *)
NewDrain == [phase |-> "called", awaits |-> flush, items |-> <<>>]

LEMMA TellInv ==
    ASSUME Inv, NEW h \in Item, \A d \in DOMAIN drains : ~CanResume(d),
           updateItems' = Append(updateItems, h), drains' = Append(drains, NewDrain),
           UNCHANGED <<disk, own, flush, indexing>>, foreign' \subseteq Paths
    PROVE  /\ Inv' /\ (InTurn' <=> InTurn)
           /\ \A p \in Paths :
                 /\ Told(p)' <=> Told(p) \/ h.path = p
                 /\ OwnRemoves(p)' => OwnRemoves(p)
                 /\ LastRemoves(p)' => IF h.path = p THEN h.type = "removed" ELSE LastRemoves(p)
<1> PICK n : n = Len(drains) + 1
  OBVIOUS
<1>1. UNCHANGED <<files, clock, own, flush, jobs, index>>
  BY DEF disk, indexing
<1>2. TypeInv /\ flush \in 0..Len(drains)
  BY DEF Inv, TypeInv
<1>3. NewDrain \in Drain
  <2>1. <<>> \in Seq(Item) /\ flush \in Nat
    BY <1>2, EmptySeq, TypeFacts
  <2> QED
    BY <2>1 DEF NewDrain, Drain, Phases
<1>4. /\ Len(drains) \in Nat /\ DOMAIN drains = 1..Len(drains)
      /\ drains' \in Seq(Drain) /\ Len(drains') = n /\ DOMAIN drains' = 1..n
      /\ \A d \in DOMAIN drains : drains'[d] = drains[d]
      /\ drains'[n] = NewDrain
      /\ updateItems' \in Seq(Item)
  BY <1>2, <1>3, AppendFacts DEF TypeInv
<1>5. /\ n \notin DOMAIN drains /\ DOMAIN drains' = DOMAIN drains \cup {n}
      /\ \A d \in DOMAIN drains : d < n /\ d \in Nat
      /\ n \in Nat
  BY <1>4
<1>6. TypeInv'
  <2>1. flush' \in 0..Len(drains')
    BY <1>1, <1>2, <1>4, <1>5
  <2> QED
    BY <1>1, <1>2, <1>4, <2>1 DEF TypeInv
<1>7. /\ \A d \in DOMAIN drains : /\ Phase(d)' = Phase(d) /\ Items(d)' = Items(d)
                                  /\ drains'[d].awaits = drains[d].awaits
      /\ Phase(n)' = "called" /\ Items(n)' = <<>> /\ drains'[n].awaits = flush
  BY <1>4 DEF Phase, Items, NewDrain
<1>8. Busy' = Busy
  <2>1. \A d \in DOMAIN drains' : d \in Busy' <=> Phase(d)' \in {"publishing", "queued"}
    BY DEF Busy, Phase
  <2>2. \A d \in DOMAIN drains : d \in Busy <=> Phase(d) \in {"publishing", "queued"}
    BY DEF Busy, Phase
  <2>3. Busy' \subseteq DOMAIN drains' /\ Busy \subseteq DOMAIN drains
    BY DEF Busy
  <2> QED
    BY <1>5, <1>7, <2>1, <2>2, <2>3
<1>9. DrainInv'
  <2>1. flush < n
    BY <1>2, <1>4
  <2>2. n \notin Busy
    BY <1>5 DEF Busy
  <2> QED
    BY <1>5, <1>7, <1>8, <2>1, <2>2 DEF Inv, DrainInv
<1>10. JobInv'
  <2>1. \A k \in DOMAIN jobs : jobs[k].by # Realm => jobs[k].by \in DOMAIN drains
    BY DEF Inv, JobInv
  <2> QED
    BY <1>1, <1>5, <1>7, <2>1 DEF Inv, JobInv
<1>11. WaitInv'
  <2>1. \A d \in DOMAIN drains : Phase(d) = "called" => drains[d].awaits = flush
    BY DEF Inv, WaitInv
  <2>2. ASSUME NEW d \in DOMAIN drains', NEW e \in DOMAIN drains', Phase(d)' = "called"
        PROVE  /\ IF Phase(e)' = "called" THEN drains'[d].awaits = drains'[e].awaits ELSE e < d
               /\ drains'[d].awaits = flush'
    <3>1. drains'[d].awaits = flush'
      BY <1>1, <1>5, <1>7, <2>1, <2>2
    <3>2. Phase(e)' = "called" => drains'[e].awaits = flush'
      BY <1>1, <1>5, <1>7, <2>1, <2>2
    <3>3. Phase(e)' # "called" => e < d
      BY <1>5, <1>7, <2>2 DEF Inv, WaitInv
    <3> QED
      BY <3>1, <3>2, <3>3
  <2> QED
    BY <1>5, <1>7, <2>2 DEF WaitInv
<1>12. InTurn' <=> InTurn
  <2>1. Busy \subseteq DOMAIN drains
    BY DEF Busy
  <2> QED
    BY <1>7, <1>8, <2>1 DEF InTurn
<1>13. ASSUME NEW p \in Paths
       PROVE  /\ Told(p)' <=> Told(p) \/ h.path = p
              /\ OwnRemoves(p)' => OwnRemoves(p)
              /\ LastRemoves(p)' => IF h.path = p THEN h.type = "removed" ELSE LastRemoves(p)
  <2>1. updateItems \in Seq(Item)
    BY <1>2 DEF TypeInv
  <2>2. /\ Mentions(updateItems', p) <=> Mentions(updateItems, p) \/ h.path = p
        /\ h.path = p => (LastIs(updateItems', p, "removed") => h.type = "removed")
        /\ h.path # p => (LastIs(updateItems', p, "removed") => LastIs(updateItems, p, "removed"))
    BY <2>1, LastOfAppend
  <2>3. ~Mentions(Items(n)', p) /\ ~LastIs(Items(n)', p, "removed")
    BY <1>7, EmptyMentions
  <2>4. Told(p)' <=> \/ Mentions(updateItems', p)
                     \/ \E d \in DOMAIN drains' : Mentions(Items(d)', p)
    BY DEF Told, Mentions, Items
  <2>5. Told(p)' <=> Told(p) \/ h.path = p
    BY <1>5, <1>7, <2>2, <2>3, <2>4, ToldIs
  <2>6. OwnRemoves(p)' => OwnRemoves(p)
    BY <1>1 DEF OwnRemoves
  <2>7. LastRemoves(p)' <=>
           \/ LastIs(updateItems', p, "removed")
           \/ /\ ~Mentions(updateItems', p)
              /\ \E d \in DOMAIN drains' :
                    /\ LastIs(Items(d)', p, "removed")
                    /\ \A e \in DOMAIN drains' : d < e => ~Mentions(Items(e)', p)
    BY DEF LastRemoves, LastIs, Mentions, Items
  <2>8. LastRemoves(p)' => IF h.path = p THEN h.type = "removed" ELSE LastRemoves(p)
    BY <1>5, <1>7, <2>2, <2>3, <2>7 DEF LastRemoves
  <2> QED
    BY <2>5, <2>6, <2>8
<1> QED
  BY <1>6, <1>9, <1>10, <1>11, <1>12, <1>13 DEF Inv

LEMMA DeliverInv ==
    ASSUME Inv, EditInv, NEW p \in Paths, Deliver(p)
    PROVE  Inv' /\ EditInv'
<1> DEFINE type == IF files[p] # 0 THEN (IF p \in known THEN "updated" ELSE "added") ELSE "removed"
           h == [type |-> type, path |-> p]
<1>1. /\ dirty' = dirty \ {p} /\ foreign' = foreign \ {p}
      /\ UNCHANGED <<disk, own, listening, indexing, failures>>
      /\ \A d \in DOMAIN drains : ~CanResume(d)
      /\ \/ Tell(p, type)
         \/ mishaps' = mishaps \cup {"coalesced"} /\ UNCHANGED draining
  BY DEF Deliver
<1>2. UNCHANGED <<files, clock, own, watcher, jobs, index>>
  BY <1>1 DEF disk, listening, indexing
<1>3. foreign' \subseteq Paths
  BY <1>1 DEF Inv, TypeInv
<1>4. h \in Item /\ h.path = p /\ h.type = type
  BY DEF Item, Types
<1> HIDE DEF h
<1>5. CASE UNCHANGED draining /\ (mishaps' = {} => mishaps = {} /\ p \notin foreign)
  <2>1. UNCHANGED <<draining, jobs, updateItems, drains, flush>>
    BY <1>2, <1>5 DEF draining
  <2>2. Inv'
    <3>1. TypeInv'
      BY <1>2, <1>3, <2>1 DEF Inv, TypeInv
    <3> QED
      BY <1>2, <2>1, <3>1, StillInv
  <2>3. ASSUME mishaps' = {} PROVE EditInv'
    <3>1. InTurn' /\ mishaps = {} /\ foreign' = foreign /\ (watcher' # "ready" => dirty' = {})
      BY <1>1, <1>2, <1>5, <2>1, <2>3, StillFiles DEF EditInv
    <3>2. ASSUME NEW q \in Paths PROVE FileInv(q)'
      <4>1. FileInv(q)
        BY <3>1 DEF EditInv
      <4>2. (Told(q)' <=> Told(q)) /\ (LastRemoves(q)' <=> LastRemoves(q))
            /\ (OwnRemoves(q)' => OwnRemoves(q))
        BY <1>2, <2>1, StillFiles
      <4> QED
        BY <1>1, <1>2, <1>5, <2>3, <3>1, <4>1, <4>2 DEF FileInv
    <3> QED
      BY <3>1, <3>2 DEF EditInv
  <2> QED
    BY <2>2, <2>3 DEF EditInv
<1>6. CASE /\ updateItems' = Append(updateItems, h) /\ drains' = Append(drains, NewDrain)
           /\ UNCHANGED flush /\ (mishaps' = {} => mishaps = {} /\ own[p] = "idle")
  <2>1. /\ Inv' /\ (InTurn' <=> InTurn)
        /\ \A q \in Paths :
              /\ Told(q)' <=> Told(q) \/ p = q
              /\ OwnRemoves(q)' => OwnRemoves(q)
              /\ LastRemoves(q)' => IF p = q THEN type = "removed" ELSE LastRemoves(q)
    BY <1>1, <1>3, <1>4, <1>6, TellInv
  <2>2. ASSUME mishaps' = {} PROVE EditInv'
    <3>1. InTurn' /\ mishaps = {} /\ own[p] = "idle" /\ (watcher' # "ready" => dirty' = {})
      BY <1>1, <1>2, <1>6, <2>1, <2>2 DEF EditInv
    <3>2. ASSUME NEW q \in Paths, q # p PROVE FileInv(q)'
      <4>1. FileInv(q)
        BY <3>1 DEF EditInv
      <4> QED
        BY <1>1, <1>2, <2>1, <3>2, <4>1 DEF FileInv
    <3>3. FileInv(p)'
      <4>1. ~OwnRemoves(p)
        BY <3>1 DEF OwnRemoves, Inv, JobInv
      <4>2. type = "removed" => files[p] = 0
        OBVIOUS
      <4> QED
        BY <1>1, <1>2, <2>1, <3>1, <4>1, <4>2 DEF FileInv
    <3> QED
      BY <3>1, <3>2, <3>3 DEF EditInv
  <2> QED
    BY <2>1, <2>2 DEF EditInv
<1>7. CASE mishaps' = mishaps \cup {"coalesced"} /\ UNCHANGED draining
  BY <1>5, <1>7
<1>8. CASE Tell(p, type)
  <2>1. CASE h \in recentWrites
    <3>1. /\ mishaps' = IF p \in foreign THEN mishaps \cup {"echoed"} ELSE mishaps
          /\ UNCHANGED draining
      BY <1>8, <2>1 DEF Tell, h
    <3> QED
      BY <1>5, <3>1
  <2>2. CASE h \notin recentWrites
    <3>1. /\ updateItems' = Append(updateItems, h) /\ drains' = Append(drains, NewDrain)
          /\ UNCHANGED flush
          /\ mishaps' = IF own[p] # "idle" THEN mishaps \cup {"raced"} ELSE mishaps
      BY <1>8, <2>2 DEF Tell, h, NewDrain
    <3> QED
      BY <1>6, <3>1
  <2> QED
    BY <2>1, <2>2
<1> QED
  BY <1>1, <1>7, <1>8

LEMMA PublishOwnInv ==
    ASSUME Inv, EditInv, NEW p \in Paths, PublishOwn(p)
    PROVE  Inv' /\ EditInv'
<1> DEFINE j == [type |-> IF own[p] = "written" THEN "updated" ELSE "removed", path |-> p, by |-> Realm]
<1>1. /\ UNCHANGED <<disk, listening, watched, draining, index, history>>
      /\ own[p] \in {"written", "deleted"} /\ own' = [own EXCEPT ![p] = "queued"]
      /\ jobs' = Append(jobs, j)
  BY DEF PublishOwn, Publish
<1>2. UNCHANGED <<files, clock, watcher, foreign, dirty, updateItems, drains, flush, index, mishaps>>
  BY <1>1 DEF disk, listening, watched, draining, history
<1>3. j \in Job /\ j.by = Realm /\ j.path = p /\ (j.type = "removed" => own[p] = "deleted")
  BY <1>1 DEF Job, Types
<1> HIDE DEF j
<1>4. /\ \A q \in Paths : own'[q] = IF q = p THEN "queued" ELSE own[q]
      /\ TypeInv
  BY <1>1 DEF Inv, TypeInv
<1>5. /\ Len(jobs) \in Nat /\ DOMAIN jobs = 1..Len(jobs)
      /\ jobs' \in Seq(Job) /\ DOMAIN jobs' = 1..(Len(jobs) + 1)
      /\ \A k \in DOMAIN jobs : jobs'[k] = jobs[k]
      /\ jobs'[Len(jobs) + 1] = j
  BY <1>1, <1>3, <1>4, AppendFacts DEF TypeInv
<1>6. /\ DOMAIN jobs' = DOMAIN jobs \cup {Len(jobs) + 1} /\ Len(jobs) + 1 \notin DOMAIN jobs
  BY <1>5
<1>7. \A k \in DOMAIN jobs : jobs[k].path \in Paths
                             /\ ~(jobs[k].by = Realm /\ jobs[k].path = p)
  BY <1>1, <1>4, TypeFacts DEF Inv, JobInv, Job
<1>8. Inv'
  <2>1. TypeInv'
    BY <1>1, <1>2, <1>4, <1>5 DEF TypeInv
  <2>2. DrainInv' /\ WaitInv'
    BY <1>2 DEF Inv, DrainInv, Busy, Items, WaitInv, CanResume, Settled, Phase
  <2>3. JobInv'
    <3>1. \A k \in DOMAIN jobs' :
             IF jobs'[k].by = Realm THEN own'[jobs'[k].path] = "queued"
             ELSE \E d \in DOMAIN drains :
                     /\ jobs'[k].by = d /\ Phase(d) = "queued"
                     /\ jobs'[k].type = Items(d)[1].type /\ jobs'[k].path = Items(d)[1].path
      BY <1>3, <1>4, <1>5, <1>6, <1>7 DEF Inv, JobInv
    <3>2. \A k, l \in DOMAIN jobs' :
             jobs'[k].by = jobs'[l].by /\ jobs'[k].path = jobs'[l].path => k = l
      BY <1>3, <1>5, <1>6, <1>7 DEF Inv, JobInv
    <3>3. \A d \in DOMAIN drains : Phase(d) = "queued" => \E k \in DOMAIN jobs' : jobs'[k].by = d
      BY <1>5, <1>6 DEF Inv, JobInv
    <3> QED
      BY <1>2, <3>1, <3>2, <3>3 DEF JobInv, Phase, Items
  <2> QED
    BY <2>1, <2>2, <2>3 DEF Inv
<1>9. ASSUME mishaps' = {} PROVE EditInv'
  <2>1. InTurn' /\ (watcher' # "ready" => dirty' = {})
    BY <1>2, <1>9 DEF EditInv, InTurn, Busy, Phase
  <2>2. ASSUME NEW q \in Paths PROVE FileInv(q)'
    <3>1. FileInv(q)
      BY <1>2, <1>9 DEF EditInv
    <3>2. (Told(q)' <=> Told(q)) /\ (LastRemoves(q)' <=> LastRemoves(q))
      BY <1>2 DEF Told, LastRemoves, LastIs, Mentions, Items
    <3>3. OwnRemoves(q)' => OwnRemoves(q)
      BY <1>3, <1>4, <1>5, <1>6 DEF OwnRemoves
    <3> QED
      BY <1>1, <1>2, <1>4, <3>1, <3>2, <3>3 DEF FileInv
  <2> QED
    BY <2>1, <2>2 DEF EditInv
<1> QED
  BY <1>8, <1>9 DEF EditInv

-----------------------------------------------------------------------------
LEMMA ResumeInv ==
    ASSUME Inv, EditInv, NEW d \in DOMAIN drains, Resume(d)
    PROVE  Inv' /\ EditInv'
<1>1. /\ CanResume(d) /\ \A e \in 1..(d - 1) : ~CanResume(e)
      /\ flush' = d /\ updateItems' = <<>>
      /\ drains' = [drains EXCEPT ![d].items = updateItems,
                       ![d].phase = IF updateItems = <<>> THEN "ended" ELSE "publishing"]
      /\ UNCHANGED <<disk, writes, listening, watched, indexing, history>>
  BY DEF Resume
<1>2. UNCHANGED <<files, clock, own, watcher, foreign, dirty, jobs, index, mishaps>>
  BY <1>1 DEF disk, writes, listening, watched, indexing, history
<1>3. /\ TypeInv /\ Len(drains) \in Nat /\ DOMAIN drains = 1..Len(drains)
      /\ drains[d] \in Drain /\ d \in 1..Len(drains)
      /\ updateItems \in Seq(Item) /\ <<>> \in Seq(Item)
  BY TypeFacts, EmptySeq DEF Inv, TypeInv
<1>4. /\ drains' \in Seq(Drain) /\ Len(drains') = Len(drains) /\ DOMAIN drains' = DOMAIN drains
      /\ \A e \in DOMAIN drains \ {d} : drains'[e] = drains[e]
      /\ drains'[d].items = updateItems /\ drains'[d].awaits = drains[d].awaits
      /\ drains'[d].phase = IF updateItems = <<>> THEN "ended" ELSE "publishing"
  <2> DEFINE x == [drains[d] EXCEPT !.items = updateItems,
                                    !.phase = IF updateItems = <<>> THEN "ended" ELSE "publishing"]
  <2>1. x \in Drain /\ x.items = updateItems /\ x.awaits = drains[d].awaits
        /\ x.phase = IF updateItems = <<>> THEN "ended" ELSE "publishing"
    BY <1>3 DEF Drain, Phases
  <2>2. drains' = [drains EXCEPT ![d] = x]
    BY <1>1
  <2> HIDE DEF x
  <2>3. drains' \in Seq(Drain) /\ Len(drains') = Len(drains)
        /\ \A e \in 1..Len(drains) : drains'[e] = IF e = d THEN x ELSE drains[e]
    BY <1>3, <2>1, <2>2, ExceptSeq DEF TypeInv
  <2>4. DOMAIN drains' = DOMAIN drains
    BY <2>2
  <2> QED
    BY <1>3, <2>1, <2>3, <2>4
<1>5. /\ \A e \in DOMAIN drains \ {d} : /\ Phase(e)' = Phase(e) /\ Items(e)' = Items(e)
                                        /\ drains'[e].awaits = drains[e].awaits
      /\ Phase(d) = "called" /\ Phase(d)' = IF updateItems = <<>> THEN "ended" ELSE "publishing"
      /\ Items(d) = <<>> /\ Items(d)' = updateItems
  <2>1. Phase(d) = "called" /\ d \notin Busy
    BY <1>1 DEF CanResume, Phase, Busy
  <2>2. Items(d) = <<>>
    BY <2>1 DEF Inv, DrainInv
  <2> QED
    BY <1>3, <1>4, <2>1, <2>2 DEF Phase, Items
<1>6. TypeInv'
  BY <1>1, <1>2, <1>3, <1>4 DEF TypeInv
<1>7. \A e \in DOMAIN drains : /\ e \in Busy <=> Phase(e) \in {"publishing", "queued"}
                               /\ e \in Busy' <=> Phase(e)' \in {"publishing", "queued"}
  BY <1>4 DEF Busy, Phase
<1>8. DrainInv'
  BY <1>4, <1>5, <1>7 DEF Inv, DrainInv
<1>9. JobInv'
  <2>1. \A k \in DOMAIN jobs : jobs[k].by # Realm => jobs[k].by \in DOMAIN drains \ {d}
    BY <1>5 DEF Inv, JobInv
  <2>2. \A e \in DOMAIN drains : Phase(e)' = "queued" => Phase(e) = "queued"
    BY <1>5
  <2> QED
    BY <1>2, <1>4, <1>5, <2>1, <2>2 DEF Inv, JobInv
<1>10. WaitInv'
  <2>1. ASSUME NEW e \in DOMAIN drains, Phase(e)' = "called"
        PROVE  CanResume(e)' /\ Phase(e) = "called" /\ drains[e].awaits = drains[d].awaits /\ d < e
    <3>1. e # d /\ Phase(e) = "called" /\ drains[e].awaits = drains[d].awaits
      BY <1>5, <2>1 DEF Inv, WaitInv
    <3>2. CanResume(e)
      BY <1>1, <3>1 DEF CanResume, Phase
    <3>3. d < e
      BY <1>1, <1>3, <3>1, <3>2
    <3>4. drains[e].awaits # 0 =>
             drains[e].awaits \in DOMAIN drains \ {d} /\ drains[drains[e].awaits].phase = "ended"
      <4>1. drains[e].awaits \in Nat /\ drains[e].awaits < e
        BY TypeFacts DEF Inv, DrainInv
      <4> QED
        BY <1>3, <1>5, <3>2, <4>1 DEF CanResume, Settled, Phase
    <3>5. CanResume(e)'
      BY <1>4, <2>1, <3>1, <3>4 DEF CanResume, Settled, Phase
    <3> QED
      BY <3>1, <3>3, <3>5
  <2>2. ASSUME NEW e \in DOMAIN drains, Phase(e)' = "called", NEW f \in DOMAIN drains
        PROVE  IF Phase(f)' = "called" THEN drains'[e].awaits = drains'[f].awaits ELSE f < e
    <3>1. CASE Phase(f)' = "called"
      BY <1>4, <1>5, <2>1, <2>2, <3>1
    <3>2. CASE Phase(f)' # "called" /\ f = d
      BY <2>1, <2>2, <3>2
    <3>3. CASE Phase(f)' # "called" /\ f # d
      BY <1>5, <2>1, <2>2, <3>3 DEF Inv, WaitInv
    <3> QED
      BY <3>1, <3>2, <3>3
  <2> QED
    BY <1>1, <1>4, <2>1, <2>2 DEF WaitInv
<1>11. ASSUME mishaps' = {} PROVE EditInv'
  <2>1. InTurn /\ (watcher' # "ready" => dirty' = {})
    BY <1>2, <1>11 DEF EditInv
  <2>2. InTurn'
    <3> SUFFICES ASSUME NEW e \in Busy', NEW f \in Busy', Phase(e)' = "queued" PROVE e <= f
      BY DEF InTurn
    <3>1. e \in DOMAIN drains \ {d} /\ f \in DOMAIN drains /\ Phase(e) = "queued" /\ e \in Busy
      BY <1>4, <1>5, <1>7 DEF Busy
    <3>2. CASE f = d
      <4>1. e < d
        BY <1>5, <3>1 DEF Inv, WaitInv
      <4> QED
        BY <1>3, <3>1, <3>2, <4>1
    <3>3. CASE f # d
      BY <1>5, <1>7, <2>1, <3>1, <3>3 DEF InTurn
    <3> QED
      BY <3>2, <3>3
  <2>3. ASSUME NEW p \in Paths PROVE FileInv(p)'
    <3>1. FileInv(p)
      BY <1>2, <1>11 DEF EditInv
    <3>2. /\ ~Mentions(updateItems', p) /\ ~LastIs(updateItems', p, "removed")
          /\ ~Mentions(Items(d), p)
      BY <1>1, <1>5, EmptyMentions
    <3>3. Told(p)' <=> Told(p)
      <4>1. Told(p)' <=> \/ Mentions(updateItems', p)
                         \/ \E e \in DOMAIN drains' : Mentions(Items(e)', p)
        BY DEF Told, Mentions, Items
      <4> QED
        BY <1>4, <1>5, <3>2, <4>1, ToldIs
    <3>4. LastRemoves(p)' => LastRemoves(p)
      <4> SUFFICES ASSUME LastRemoves(p)' PROVE LastRemoves(p)
        OBVIOUS
      <4>1. PICK e \in DOMAIN drains : /\ LastIs(Items(e)', p, "removed")
                                       /\ \A f \in DOMAIN drains : e < f => ~Mentions(Items(f)', p)
        <5>1. LastRemoves(p)' <=>
                 \/ LastIs(updateItems', p, "removed")
                 \/ /\ ~Mentions(updateItems', p)
                    /\ \E e \in DOMAIN drains' :
                          /\ LastIs(Items(e)', p, "removed")
                          /\ \A f \in DOMAIN drains' : e < f => ~Mentions(Items(f)', p)
          BY DEF LastRemoves, LastIs, Mentions, Items
        <5> QED
          BY <1>4, <3>2, <5>1
      <4>2. CASE e = d
        BY <1>5, <4>1, <4>2 DEF LastRemoves
      <4>3. CASE e # d
        <5>1. LastIs(Items(e), p, "removed") /\ Items(e) # <<>>
          BY <1>5, <4>1, <4>3, EmptyMentions
        <5>2. e < d
          <6>1. e \in Busy
            BY <5>1 DEF Inv, DrainInv
          <6>2. Phase(e) # "called"
            BY <1>7, <6>1
          <6> QED
            BY <1>5, <6>2 DEF Inv, WaitInv
        <5>3. ~Mentions(updateItems, p)
          BY <1>5, <4>1, <5>2
        <5>4. \A f \in DOMAIN drains : e < f => ~Mentions(Items(f), p)
          BY <1>5, <3>2, <4>1
        <5> QED
          BY <5>1, <5>3, <5>4 DEF LastRemoves
      <4> QED
        BY <4>2, <4>3
    <3>5. OwnRemoves(p)' => OwnRemoves(p)
      BY <1>2 DEF OwnRemoves
    <3> QED
      BY <1>2, <3>1, <3>3, <3>4, <3>5 DEF FileInv
  <2> QED
    BY <2>1, <2>2, <2>3 DEF EditInv
<1> QED
  BY <1>6, <1>8, <1>9, <1>10, <1>11 DEF Inv, EditInv

LEMMA PublishItemInv ==
    ASSUME Inv, EditInv, NEW d \in DOMAIN drains, PublishItem(d)
    PROVE  Inv' /\ EditInv'
<1> PICK j : j = [type |-> Head(Items(d)).type, path |-> Head(Items(d)).path, by |-> d]
  OBVIOUS
<1>1. /\ Phase(d) = "publishing"
      /\ jobs' = Append(jobs, j)
      /\ drains' = [drains EXCEPT ![d].phase = "queued"]
      /\ mishaps' = IF Cardinality(Busy) > 1 THEN mishaps \cup {"overlapped"} ELSE mishaps
      /\ UNCHANGED <<disk, writes, listening, watched, updateItems, flush, index, failures>>
  BY DEF PublishItem, Publish, Phase, Items
<1>2. UNCHANGED <<files, clock, own, watcher, foreign, dirty, updateItems, flush, index>>
  BY <1>1 DEF disk, writes, listening, watched
<1>3. /\ TypeInv /\ Len(drains) \in Nat /\ DOMAIN drains = 1..Len(drains)
      /\ drains[d] \in Drain /\ d \in 1..Len(drains) /\ d \in Nat
      /\ Items(d) \in Seq(Item) /\ Items(d) # <<>>
  <2>1. d \in Busy
    BY <1>1 DEF Busy, Phase
  <2>2. Items(d) # <<>>
    BY <2>1 DEF Inv, DrainInv
  <2> QED
    BY <2>2, TypeFacts DEF Inv
<1>4. j \in Job /\ j.type = Items(d)[1].type /\ j.path = Items(d)[1].path /\ j.by = d
      /\ d # Realm
  BY <1>3, ItemFacts, RealmAssumption DEF Job
<1>5. /\ Len(jobs) \in Nat /\ DOMAIN jobs = 1..Len(jobs)
      /\ jobs' \in Seq(Job) /\ DOMAIN jobs' = 1..(Len(jobs) + 1)
      /\ \A k \in DOMAIN jobs : jobs'[k] = jobs[k]
      /\ jobs'[Len(jobs) + 1] = j
  BY <1>1, <1>3, <1>4, AppendFacts DEF TypeInv
<1>6. DOMAIN jobs' = DOMAIN jobs \cup {Len(jobs) + 1} /\ Len(jobs) + 1 \notin DOMAIN jobs
  BY <1>5
<1>7. /\ drains' \in Seq(Drain) /\ Len(drains') = Len(drains) /\ DOMAIN drains' = DOMAIN drains
      /\ \A e \in DOMAIN drains \ {d} : drains'[e] = drains[e]
      /\ drains'[d].items = Items(d) /\ drains'[d].awaits = drains[d].awaits
      /\ drains'[d].phase = "queued"
  <2> DEFINE x == [drains[d] EXCEPT !.phase = "queued"]
  <2>1. x \in Drain /\ x.items = Items(d) /\ x.awaits = drains[d].awaits /\ x.phase = "queued"
    BY <1>3 DEF Drain, Phases, Items
  <2>2. drains' = [drains EXCEPT ![d] = x]
    BY <1>1
  <2> HIDE DEF x
  <2>3. drains' \in Seq(Drain) /\ Len(drains') = Len(drains)
        /\ \A e \in 1..Len(drains) : drains'[e] = IF e = d THEN x ELSE drains[e]
    BY <1>3, <2>1, <2>2, ExceptSeq DEF TypeInv
  <2>4. DOMAIN drains' = DOMAIN drains
    BY <2>2
  <2> QED
    BY <1>3, <2>1, <2>3, <2>4
<1>8. /\ \A e \in DOMAIN drains : Items(e)' = Items(e) /\ drains'[e].awaits = drains[e].awaits
      /\ \A e \in DOMAIN drains \ {d} : Phase(e)' = Phase(e)
      /\ Phase(d)' = "queued"
  BY <1>7 DEF Phase, Items
<1>9. /\ \A e \in DOMAIN drains : /\ e \in Busy <=> Phase(e) \in {"publishing", "queued"}
                                  /\ e \in Busy' <=> Phase(e)' \in {"publishing", "queued"}
      /\ d \in Busy /\ Busy \subseteq DOMAIN drains /\ Busy' = Busy
  <2>1. \A e \in DOMAIN drains : /\ e \in Busy <=> Phase(e) \in {"publishing", "queued"}
                                 /\ e \in Busy' <=> Phase(e)' \in {"publishing", "queued"}
    BY <1>7 DEF Busy, Phase
  <2>2. Busy \subseteq DOMAIN drains /\ Busy' \subseteq DOMAIN drains
    BY <1>7 DEF Busy
  <2> QED
    BY <1>1, <1>8, <2>1, <2>2
<1>10. TypeInv'
  BY <1>2, <1>3, <1>5, <1>7 DEF TypeInv
<1>11. DrainInv'
  BY <1>7, <1>8, <1>9 DEF Inv, DrainInv
<1>12. JobInv'
  <2>1. \A k \in DOMAIN jobs : jobs[k].by # d
    BY <1>1, <1>4 DEF Inv, JobInv
  <2>2. ASSUME NEW k \in DOMAIN jobs'
        PROVE  IF jobs'[k].by = Realm THEN own'[jobs'[k].path] = "queued"
               ELSE \E e \in DOMAIN drains' :
                       /\ jobs'[k].by = e /\ Phase(e)' = "queued"
                       /\ jobs'[k].type = Items(e)'[1].type /\ jobs'[k].path = Items(e)'[1].path
    <3>1. CASE k = Len(jobs) + 1
      BY <1>4, <1>5, <1>7, <1>8, <3>1
    <3>2. CASE k \in DOMAIN jobs
      <4>1. jobs'[k] = jobs[k] /\ jobs[k].by # d
        BY <1>5, <2>1, <3>2
      <4> QED
        BY <1>2, <1>7, <1>8, <3>2, <4>1 DEF Inv, JobInv
    <3> QED
      BY <1>6, <3>1, <3>2
  <2>3. \A k, l \in DOMAIN jobs' :
           jobs'[k].by = jobs'[l].by /\ jobs'[k].path = jobs'[l].path => k = l
    BY <1>4, <1>5, <1>6, <2>1 DEF Inv, JobInv
  <2>4. \A e \in DOMAIN drains : Phase(e)' = "queued" => \E k \in DOMAIN jobs' : jobs'[k].by = e
    BY <1>4, <1>5, <1>6, <1>8 DEF Inv, JobInv
  <2> QED
    BY <1>7, <2>2, <2>3, <2>4 DEF JobInv, Phase, Items
<1>13. WaitInv'
  <2>1. ASSUME NEW e \in DOMAIN drains, Phase(e)' = "called"
        PROVE  /\ Phase(e) = "called"
               /\ \A f \in DOMAIN drains :
                     IF Phase(f)' = "called" THEN drains'[e].awaits = drains'[f].awaits ELSE f < e
               /\ CanResume(e)' \/ drains'[e].awaits = flush'
    <3>1. e # d /\ Phase(e) = "called"
      BY <1>8, <2>1
    <3>2. \A f \in DOMAIN drains :
             IF Phase(f)' = "called" THEN drains'[e].awaits = drains'[f].awaits ELSE f < e
      BY <1>1, <1>8, <3>1 DEF Inv, WaitInv
    <3>3. CanResume(e) => CanResume(e)'
      <4>1. drains[e].awaits \in Nat /\ drains[e].awaits < e /\ e \in 1..Len(drains)
        BY <1>3, TypeFacts DEF Inv, DrainInv
      <4>2. drains[e].awaits # 0 => drains[e].awaits \in DOMAIN drains
        BY <1>3, <4>1
      <4>3. drains[e].awaits # 0 /\ drains[drains[e].awaits].phase = "ended" =>
               drains'[drains[e].awaits].phase = "ended"
        BY <1>1, <1>7, <4>2 DEF Phase
      <4> QED
        BY <1>7, <3>1, <4>3 DEF CanResume, Settled, Phase
    <3>4. CanResume(e) \/ drains[e].awaits = flush
      BY <3>1 DEF Inv, WaitInv
    <3> QED
      BY <1>2, <1>8, <3>1, <3>2, <3>3, <3>4
  <2>2. updateItems' # <<>> => \E e \in DOMAIN drains : Phase(e)' = "called"
    BY <1>1, <1>2, <1>8 DEF Inv, WaitInv
  <2> QED
    BY <1>7, <2>1, <2>2 DEF WaitInv
<1>14. ASSUME mishaps' = {} PROVE EditInv'
  <2>1. mishaps = {} /\ ~(Cardinality(Busy) > 1) /\ (watcher' # "ready" => dirty' = {})
    BY <1>1, <1>2, <1>14 DEF EditInv
  <2>2. Busy = {d}
    <3> SUFFICES ASSUME NEW e \in Busy, e # d PROVE FALSE
      BY <1>9
    <3>1. IsFiniteSet(Busy)
      <4>1. IsFiniteSet(1..Len(drains))
        BY <1>3, FS_Interval
      <4> QED
        BY <1>3, <1>9, <4>1, FS_Subset
    <3>2. Cardinality({d, e}) = 2
      <4>1. IsFiniteSet({d}) /\ Cardinality({d}) = 1
        BY FS_Singleton
      <4>2. Cardinality({d} \cup {e}) = Cardinality({d}) + 1
        BY <4>1, FS_AddElement
      <4>3. {d, e} = {d} \cup {e}
        OBVIOUS
      <4> QED
        BY <4>1, <4>2, <4>3
    <3>3. Cardinality({d, e}) <= Cardinality(Busy) /\ Cardinality(Busy) \in Nat
      BY <1>9, <3>1, FS_Subset, FS_CardinalityType
    <3> QED
      BY <2>1, <3>2, <3>3
  <2>3. InTurn'
    BY <1>3, <1>9, <2>2 DEF InTurn
  <2>4. ASSUME NEW p \in Paths PROVE FileInv(p)'
    <3>1. FileInv(p)
      BY <2>1 DEF EditInv
    <3>2. Told(p)' <=> Told(p)
      BY <1>2, <1>7, <1>8 DEF Told, Items
    <3>3. LastRemoves(p)' => LastRemoves(p)
      <4>1. LastRemoves(p)' <=>
               \/ LastIs(updateItems', p, "removed")
               \/ /\ ~Mentions(updateItems', p)
                  /\ \E e \in DOMAIN drains' :
                        /\ LastIs(Items(e)', p, "removed")
                        /\ \A f \in DOMAIN drains' : e < f => ~Mentions(Items(f)', p)
        BY DEF LastRemoves, LastIs, Mentions, Items
      <4> QED
        BY <1>2, <1>7, <1>8, <4>1 DEF LastRemoves
    <3>4. OwnRemoves(p)' => OwnRemoves(p)
      BY <1>2, <1>4, <1>5, <1>6 DEF OwnRemoves
    <3> QED
      BY <1>2, <3>1, <3>2, <3>3, <3>4 DEF FileInv
  <2> QED
    BY <2>1, <2>3, <2>4 DEF EditInv
<1> QED
  BY <1>10, <1>11, <1>12, <1>13, <1>14 DEF Inv, EditInv

-----------------------------------------------------------------------------
(* The first job is over: its write has come to its end, or its drain goes on
   with the next item, or ends. *)
LEMMA JobEndsInv ==
    ASSUME Inv, NEW result, JobEnds(result), index' \in [Paths -> Nat]
    PROVE  Inv'
<1> PICK j : j = jobs[1]
  OBVIOUS
<1>1. TypeInv /\ jobs \in Seq(Job) /\ jobs # <<>>
  BY DEF Inv, TypeInv, JobEnds
<1>2. /\ Len(jobs) \in Nat /\ DOMAIN jobs = 1..Len(jobs) /\ 1 \in DOMAIN jobs
      /\ Head(jobs) = j /\ j \in Job
  BY <1>1, NotEmpty, LenProperties
<1>3. /\ Tail(jobs) \in Seq(Job) /\ DOMAIN Tail(jobs) = 1..(Len(jobs) - 1)
      /\ \A i \in 1..(Len(jobs) - 1) : Tail(jobs)[i] = jobs[i + 1]
  BY <1>1, TailFacts
<1>4. /\ jobs' = Tail(jobs)
      /\ UNCHANGED <<files, clock, foreign, updateItems, flush>>
  BY DEF JobEnds, disk, watched
<1>5. /\ \A k \in DOMAIN jobs' : /\ k + 1 \in DOMAIN jobs /\ jobs'[k] = jobs[k + 1]
                                 /\ k \in Nat /\ k + 1 # 1
      /\ \A k \in DOMAIN jobs \ {1} : k - 1 \in DOMAIN jobs' /\ jobs'[k - 1] = jobs[k]
  BY <1>2, <1>3, <1>4
<1>6. \A k, l \in DOMAIN jobs' :
         jobs'[k].by = jobs'[l].by /\ jobs'[k].path = jobs'[l].path => k = l
  <2>1. ASSUME NEW k \in DOMAIN jobs', NEW l \in DOMAIN jobs',
               jobs'[k].by = jobs'[l].by, jobs'[k].path = jobs'[l].path
        PROVE  k = l
    <3>1. k + 1 = l + 1
      BY <1>5, <2>1 DEF Inv, JobInv
    <3> QED
      BY <1>5, <3>1
  <2> QED
    BY <2>1
<1>7. \A k \in DOMAIN jobs' : /\ jobs'[k].path \in Paths
                              /\ ~(jobs'[k].by = j.by /\ jobs'[k].path = j.path)
  <2>1. ASSUME NEW k \in DOMAIN jobs', jobs'[k].by = j.by, jobs'[k].path = j.path PROVE FALSE
    <3>1. k + 1 = 1
      BY <1>2, <1>5, <2>1 DEF Inv, JobInv
    <3> QED
      BY <1>5, <3>1
  <2> QED
    BY <1>1, <1>5, <2>1, TypeFacts DEF Job
<1>8. CASE j.by = Realm
  <2>1. own' = [own EXCEPT ![j.path] = "idle"] /\ UNCHANGED drains
    BY <1>2, <1>8 DEF JobEnds
  <2>2. TypeInv'
    BY <1>1, <1>3, <1>4, <2>1 DEF TypeInv
  <2>3. DrainInv' /\ WaitInv'
    BY <1>4, <2>1
       DEF Inv, DrainInv, Busy, Items, WaitInv, CanResume, Settled, Phase
  <2>4. \A p \in Paths : p # j.path => own'[p] = own[p]
    BY <1>1, <2>1 DEF TypeInv
  <2>5. \A k \in DOMAIN jobs' :
           IF jobs'[k].by = Realm THEN own'[jobs'[k].path] = "queued"
           ELSE \E d \in DOMAIN drains :
                   /\ jobs'[k].by = d /\ Phase(d) = "queued"
                   /\ jobs'[k].type = Items(d)[1].type /\ jobs'[k].path = Items(d)[1].path
    BY <1>5, <1>7, <1>8, <2>4 DEF Inv, JobInv
  <2>6. ASSUME NEW d \in DOMAIN drains, Phase(d) = "queued"
        PROVE  \E k \in DOMAIN jobs' : jobs'[k].by = d
    <3>1. PICK k \in DOMAIN jobs : jobs[k].by = d
      BY <2>6 DEF Inv, JobInv
    <3>2. d # Realm
      BY <1>1, TypeFacts, RealmAssumption
    <3> QED
      BY <1>5, <1>8, <3>1, <3>2
  <2>7. JobInv'
    BY <1>6, <2>1, <2>5, <2>6 DEF JobInv, Phase, Items
  <2> QED
    BY <2>2, <2>3, <2>7 DEF Inv
<1>9. CASE j.by # Realm
  <2>1. PICK d \in DOMAIN drains : /\ j.by = d /\ Phase(d) = "queued"
                                   /\ j.type = Items(d)[1].type /\ j.path = Items(d)[1].path
    BY <1>2, <1>9 DEF Inv, JobInv
  <2>2. /\ own' = own
        /\ drains' = [drains EXCEPT ![d] =
              IF result = "failed" THEN [drains[d] EXCEPT !.phase = "failed", !.items = <<>>]
              ELSE [drains[d] EXCEPT !.items = Tail(Items(d)),
                       !.phase = IF Len(Items(d)) = 1 THEN "ended" ELSE "publishing"]]
    <3>1. /\ own' = own
          /\ drains' = [drains EXCEPT ![j.by] =
                IF result = "failed" THEN [drains[j.by] EXCEPT !.phase = "failed", !.items = <<>>]
                ELSE [drains[j.by] EXCEPT !.items = Tail(drains[j.by].items),
                         !.phase = IF Len(drains[j.by].items) = 1 THEN "ended" ELSE "publishing"]]
      BY <1>2, <1>9, Zenon DEF JobEnds
    <3> QED
      BY <2>1, <3>1 DEF Items
  <2>3. /\ Len(drains) \in Nat /\ DOMAIN drains = 1..Len(drains) /\ d \in 1..Len(drains)
        /\ drains[d] \in Drain /\ Items(d) \in Seq(Item) /\ Items(d) # <<>>
    <3>1. d \in Busy
      BY <2>1 DEF Busy, Phase
    <3> QED
      BY <1>1, <3>1, TypeFacts DEF Inv, DrainInv
  <2>4. /\ drains' \in Seq(Drain) /\ Len(drains') = Len(drains) /\ DOMAIN drains' = DOMAIN drains
        /\ \A e \in DOMAIN drains \ {d} : drains'[e] = drains[e]
        /\ drains'[d].awaits = drains[d].awaits
        /\ \/ drains'[d].items = <<>> /\ drains'[d].phase \in {"ended", "failed"}
           \/ drains'[d].items # <<>> /\ drains'[d].phase = "publishing"
    <3> DEFINE x == IF result = "failed" THEN [drains[d] EXCEPT !.phase = "failed", !.items = <<>>]
                    ELSE [drains[d] EXCEPT !.items = Tail(Items(d)),
                             !.phase = IF Len(Items(d)) = 1 THEN "ended" ELSE "publishing"]
    <3>1. /\ Tail(Items(d)) \in Seq(Item) /\ <<>> \in Seq(Item)
          /\ Tail(Items(d)) = <<>> <=> Len(Items(d)) = 1
      BY <2>3, TailFacts, LastOfTail, EmptySeq
    <3>2. /\ x \in Drain /\ x.awaits = drains[d].awaits
          /\ \/ x.items = <<>> /\ x.phase \in {"ended", "failed"}
             \/ x.items # <<>> /\ x.phase = "publishing"
      BY <2>3, <3>1 DEF Drain, Phases
    <3>3. drains' = [drains EXCEPT ![d] = x]
      BY <2>2
    <3> HIDE DEF x
    <3>4. drains' \in Seq(Drain) /\ Len(drains') = Len(drains)
          /\ \A e \in 1..Len(drains) : drains'[e] = IF e = d THEN x ELSE drains[e]
      BY <1>1, <2>3, <3>2, <3>3, ExceptSeq DEF TypeInv
    <3>5. DOMAIN drains' = DOMAIN drains
      BY <3>3
    <3> QED
      BY <2>3, <3>2, <3>4, <3>5
  <2>5. /\ \A e \in DOMAIN drains : drains'[e].awaits = drains[e].awaits
        /\ \A e \in DOMAIN drains \ {d} : Phase(e)' = Phase(e) /\ Items(e)' = Items(e)
        /\ \/ Items(d)' = <<>> /\ Phase(d)' \in {"ended", "failed"}
           \/ Items(d)' # <<>> /\ Phase(d)' = "publishing"
    BY <2>4 DEF Phase, Items
  <2>6. TypeInv'
    BY <1>1, <1>3, <1>4, <2>2, <2>4 DEF TypeInv
  <2>7. DrainInv'
    <3>1. \A e \in DOMAIN drains : /\ e \in Busy <=> Phase(e) \in {"publishing", "queued"}
                                   /\ e \in Busy' <=> Phase(e)' \in {"publishing", "queued"}
      BY <2>4 DEF Busy, Phase
    <3> QED
      BY <2>4, <2>5, <3>1 DEF Inv, DrainInv
  <2>8. JobInv'
    <3>1. \A k \in DOMAIN jobs : jobs[k].by = d => jobs[k].path = j.path
      BY <1>1, <2>1, TypeFacts, RealmAssumption DEF Inv, JobInv
    <3>2. \A k \in DOMAIN jobs' : jobs'[k].by # d
      BY <1>5, <1>7, <2>1, <3>1
    <3>3. \A k \in DOMAIN jobs' :
             IF jobs'[k].by = Realm THEN own'[jobs'[k].path] = "queued"
             ELSE \E e \in DOMAIN drains' :
                     /\ jobs'[k].by = e /\ Phase(e)' = "queued"
                     /\ jobs'[k].type = Items(e)'[1].type /\ jobs'[k].path = Items(e)'[1].path
      <4> SUFFICES ASSUME NEW k \in DOMAIN jobs'
                   PROVE  IF jobs'[k].by = Realm THEN own'[jobs'[k].path] = "queued"
                          ELSE \E e \in DOMAIN drains' :
                                  /\ jobs'[k].by = e /\ Phase(e)' = "queued"
                                  /\ jobs'[k].type = Items(e)'[1].type
                                  /\ jobs'[k].path = Items(e)'[1].path
        OBVIOUS
      <4>1. CASE jobs'[k].by = Realm
        BY <1>5, <2>2, <4>1 DEF Inv, JobInv
      <4>2. CASE jobs'[k].by # Realm
        <5>1. PICK e \in DOMAIN drains :
                 /\ jobs'[k].by = e /\ Phase(e) = "queued"
                 /\ jobs'[k].type = Items(e)[1].type /\ jobs'[k].path = Items(e)[1].path
          BY <1>5, <4>2 DEF Inv, JobInv
        <5>2. e # d
          BY <3>2, <5>1
        <5> QED
          BY <2>4, <2>5, <4>2, <5>1, <5>2
      <4> QED
        BY <4>1, <4>2
    <3>4. ASSUME NEW e \in DOMAIN drains, Phase(e)' = "queued"
          PROVE  \E k \in DOMAIN jobs' : jobs'[k].by = e
      <4>1. e # d /\ Phase(e) = "queued"
        BY <2>5, <3>4
      <4>2. PICK k \in DOMAIN jobs : jobs[k].by = e
        BY <4>1 DEF Inv, JobInv
      <4>3. k # 1
        BY <2>1, <4>1, <4>2
      <4> QED
        BY <1>5, <4>2, <4>3
    <3> QED
      BY <1>6, <2>4, <3>3, <3>4 DEF JobInv, Phase, Items
  <2>9. WaitInv'
    <3>1. ASSUME NEW e \in DOMAIN drains, Phase(e)' = "called"
          PROVE  /\ \A f \in DOMAIN drains :
                       IF Phase(f)' = "called" THEN drains'[e].awaits = drains'[f].awaits ELSE f < e
                 /\ CanResume(e)' \/ drains'[e].awaits = flush'
      <4>1. e # d /\ Phase(e) = "called"
        BY <2>5, <3>1
      <4>2. \A f \in DOMAIN drains :
               IF Phase(f)' = "called" THEN drains'[e].awaits = drains'[f].awaits ELSE f < e
        BY <2>1, <2>5, <4>1 DEF Inv, WaitInv
      <4>3. CanResume(e) => CanResume(e)'
        <5>1. drains[e].awaits \in Nat /\ drains[e].awaits < e /\ e \in 1..Len(drains)
          BY <1>1, <2>3, TypeFacts DEF Inv, DrainInv
        <5>2. drains[e].awaits # 0 => drains[e].awaits \in DOMAIN drains
          BY <2>3, <5>1
        <5>3. drains[e].awaits # 0 /\ drains[drains[e].awaits].phase = "ended" =>
                 drains'[drains[e].awaits].phase = "ended"
          BY <2>1, <2>4, <5>2 DEF Phase
        <5> QED
          BY <2>5, <3>1, <5>3 DEF CanResume, Settled, Phase
      <4>4. CanResume(e) \/ drains[e].awaits = flush
        BY <4>1 DEF Inv, WaitInv
      <4> QED
        BY <1>4, <2>5, <4>2, <4>3, <4>4
    <3>2. updateItems' # <<>> => \E e \in DOMAIN drains : Phase(e)' = "called"
      BY <1>4, <2>1, <2>5 DEF Inv, WaitInv
    <3> QED
      BY <2>4, <3>1, <3>2 DEF WaitInv
  <2> QED
    BY <2>6, <2>7, <2>8, <2>9 DEF Inv
<1> QED
  BY <1>8, <1>9

LEMMA JobFailsInv ==
    ASSUME Inv, JobFails
    PROVE  Inv' /\ EditInv'
<1>1. Inv'
  <2>1. index' \in [Paths -> Nat] /\ JobEnds("failed")
    BY DEF JobFails, Inv, TypeInv
  <2> QED
    BY <2>1, JobEndsInv
<1>2. mishaps' # {}
  BY DEF JobFails
<1> QED
  BY <1>1, <1>2 DEF EditInv

LEMMA JobDoneInv ==
    ASSUME Inv, EditInv, JobDone
    PROVE  Inv' /\ EditInv'
<1> PICK j : j = jobs[1]
  OBVIOUS
<1>1. TypeInv /\ jobs \in Seq(Job) /\ jobs # <<>> /\ JobEnds("done")
  BY DEF Inv, TypeInv, JobDone, JobEnds
<1>2. /\ Len(jobs) \in Nat /\ DOMAIN jobs = 1..Len(jobs) /\ 1 \in DOMAIN jobs
      /\ Head(jobs) = j /\ j \in Job /\ j.path \in Paths
  <2>1. /\ Len(jobs) \in Nat /\ DOMAIN jobs = 1..Len(jobs) /\ 1 \in DOMAIN jobs
        /\ Head(jobs) = j /\ j \in Job
    BY <1>1, NotEmpty, LenProperties
  <2> QED
    BY <2>1 DEF Job
<1>3. /\ DOMAIN Tail(jobs) = 1..(Len(jobs) - 1)
      /\ \A i \in 1..(Len(jobs) - 1) : Tail(jobs)[i] = jobs[i + 1]
  BY <1>1, TailFacts
<1>4. /\ jobs' = Tail(jobs)
      /\ UNCHANGED <<files, watcher, foreign, dirty, updateItems, flush, mishaps>>
      /\ index' = [index EXCEPT ![j.path] = IF j.type = "removed" THEN 0 ELSE files[j.path]]
  BY <1>2 DEF JobDone, JobEnds, disk, listening, watched, history
<1>5. /\ \A k \in DOMAIN jobs' : k + 1 \in DOMAIN jobs /\ jobs'[k] = jobs[k + 1] /\ k + 1 # 1
  BY <1>2, <1>3, <1>4
<1>6. /\ index' \in [Paths -> Nat]
      /\ \A p \in Paths : p # j.path => index'[p] = index[p]
      /\ index'[j.path] = IF j.type = "removed" THEN 0 ELSE files[j.path]
  BY <1>1, <1>2, <1>4 DEF TypeInv
<1>7. Inv'
  BY <1>1, <1>6, JobEndsInv
<1>8. ASSUME NEW p \in Paths, own'[p] = own[p] PROVE OwnRemoves(p)' => OwnRemoves(p)
  BY <1>5, <1>8 DEF OwnRemoves
<1>9. CASE j.by = Realm /\ mishaps = {}
  <2>1. own' = [own EXCEPT ![j.path] = "idle"] /\ UNCHANGED drains /\ own[j.path] = "queued"
    BY <1>1, <1>2, <1>9 DEF JobEnds, Inv, JobInv
  <2>2. \A p \in Paths : own'[p] = IF p = j.path THEN "idle" ELSE own[p]
    BY <1>1, <2>1 DEF TypeInv
  <2>3. InTurn'
    BY <1>9, <2>1 DEF EditInv, InTurn, Busy, Phase
  <2>4. ASSUME NEW p \in Paths PROVE FileInv(p)'
    <3>1. FileInv(p)
      BY <1>9 DEF EditInv
    <3>2. (Told(p)' <=> Told(p)) /\ (LastRemoves(p)' <=> LastRemoves(p))
      BY <1>4, <2>1 DEF Told, LastRemoves, LastIs, Mentions, Items
    <3>3. CASE p # j.path
      <4>1. OwnRemoves(p)' => OwnRemoves(p)
        BY <1>8, <2>2, <3>3
      <4> QED
        BY <1>4, <1>6, <2>2, <3>1, <3>2, <3>3, <4>1 DEF FileInv
    <3>4. CASE p = j.path
      <4>1. ~Told(p) /\ ~LastRemoves(p)
        BY <2>1, <3>1, <3>4, LastMentions, ToldIs DEF FileInv, LastRemoves
      <4>2. ~OwnRemoves(p)'
        <5>1. \A k \in DOMAIN jobs' : ~(jobs'[k].by = Realm /\ jobs'[k].path = p)
          BY <1>2, <1>5, <1>9, <3>4 DEF Inv, JobInv
        <5> QED
          BY <2>2, <3>4, <5>1 DEF OwnRemoves
      <4>3. p \notin foreign => index'[p] = files[p]
        <5>1. j.type = "removed" => OwnRemoves(p)
          BY <1>2, <1>9, <3>4 DEF OwnRemoves
        <5> QED
          BY <1>6, <3>1, <3>4, <5>1 DEF FileInv
      <4> QED
        BY <1>4, <2>2, <3>1, <3>2, <3>4, <4>1, <4>2, <4>3 DEF FileInv
    <3> QED
      BY <3>3, <3>4
  <2> QED
    BY <1>4, <1>7, <1>9, <2>3, <2>4 DEF EditInv
<1>10. CASE j.by # Realm /\ mishaps = {}
  <2>1. PICK d \in DOMAIN drains : /\ j.by = d /\ Phase(d) = "queued"
                                   /\ j.type = Items(d)[1].type /\ j.path = Items(d)[1].path
    BY <1>2, <1>10 DEF Inv, JobInv
  <2>2. /\ own' = own
        /\ drains' = [drains EXCEPT ![d] =
              [drains[d] EXCEPT !.items = Tail(Items(d)),
                  !.phase = IF Len(Items(d)) = 1 THEN "ended" ELSE "publishing"]]
    <3>1. /\ own' = own
          /\ drains' = [drains EXCEPT ![j.by] =
                IF "done" = "failed" THEN [drains[j.by] EXCEPT !.phase = "failed", !.items = <<>>]
                ELSE [drains[j.by] EXCEPT !.items = Tail(drains[j.by].items),
                         !.phase = IF Len(drains[j.by].items) = 1 THEN "ended" ELSE "publishing"]]
      BY <1>1, <1>2, <1>10, Zenon DEF JobEnds
    <3> QED
      BY <2>1, <3>1 DEF Items
  <2>3. /\ Len(drains) \in Nat /\ DOMAIN drains = 1..Len(drains) /\ d \in Busy
        /\ drains[d] \in Drain /\ Items(d) \in Seq(Item) /\ Items(d) # <<>>
    <3>1. d \in Busy
      BY <2>1 DEF Busy, Phase
    <3> QED
      BY <1>1, <3>1, TypeFacts DEF Inv, DrainInv
  <2>4. /\ DOMAIN drains' = DOMAIN drains
        /\ \A e \in DOMAIN drains \ {d} : Phase(e)' = Phase(e) /\ Items(e)' = Items(e)
        /\ Items(d)' = Tail(Items(d)) /\ Phase(d)' # "queued"
    BY <2>2, <2>3 DEF Phase, Items, Drain
  <2>5. InTurn'
    <3> SUFFICES ASSUME NEW e \in Busy', NEW f \in Busy', Phase(e)' = "queued" PROVE e <= f
      BY DEF InTurn
    <3>1. e \in DOMAIN drains \ {d} /\ f \in DOMAIN drains
      BY <2>4 DEF Busy
    <3>2. e \in Busy /\ Phase(e) = "queued"
      BY <2>4, <3>1 DEF Busy, Phase
    <3>3. f \in Busy
      <4>1. CASE f = d
        BY <2>3, <4>1
      <4>2. CASE f # d
        <5>1. Phase(f)' \in {"publishing", "queued"}
          BY DEF Busy, Phase
        <5> QED
          BY <2>4, <3>1, <4>2, <5>1 DEF Busy, Phase
      <4> QED
        BY <4>1, <4>2
    <3> QED
      BY <1>10, <3>2, <3>3 DEF EditInv, InTurn
  <2>6. \A e \in DOMAIN drains : e < d => Items(e) = <<>>
    <3>1. \A e \in DOMAIN drains : e < d => e \notin Busy
      BY <1>10, <2>1, <2>3 DEF EditInv, InTurn
    <3> QED
      BY <3>1 DEF Inv, DrainInv
  <2>7. ASSUME NEW p \in Paths PROVE FileInv(p)'
    <3>1. FileInv(p)
      BY <1>10 DEF EditInv
    <3>2. /\ Mentions(Tail(Items(d)), p) => Mentions(Items(d), p)
          /\ Mentions(Items(d), p) => Mentions(Tail(Items(d)), p) \/ Items(d)[1].path = p
          /\ LastIs(Tail(Items(d)), p, "removed") => LastIs(Items(d), p, "removed")
      BY <2>3, LastOfTail
    <3>3. Told(p)' <=> \/ Mentions(updateItems, p)
                       \/ \E e \in DOMAIN drains : Mentions(Items(e)', p)
      <4>1. Told(p)' <=> \/ Mentions(updateItems', p)
                         \/ \E e \in DOMAIN drains' : Mentions(Items(e)', p)
        BY DEF Told, Mentions, Items
      <4> QED
        BY <1>4, <2>4, <4>1
    <3>4. (Told(p)' => Told(p)) /\ (Told(p) => Told(p)' \/ p = j.path)
      BY <2>1, <2>4, <3>2, <3>3, ToldIs
    <3>5. OwnRemoves(p)' => OwnRemoves(p)
      BY <1>8, <2>2
    <3>6. LastRemoves(p)' => LastRemoves(p)
      <4> SUFFICES ASSUME LastRemoves(p)' PROVE LastRemoves(p)
        OBVIOUS
      <4>1. \/ LastIs(updateItems, p, "removed")
            \/ /\ ~Mentions(updateItems, p)
               /\ \E e \in DOMAIN drains :
                     /\ LastIs(Items(e)', p, "removed")
                     /\ \A f \in DOMAIN drains : e < f => ~Mentions(Items(f)', p)
        <5>1. LastRemoves(p)' <=>
                 \/ LastIs(updateItems', p, "removed")
                 \/ /\ ~Mentions(updateItems', p)
                    /\ \E e \in DOMAIN drains' :
                          /\ LastIs(Items(e)', p, "removed")
                          /\ \A f \in DOMAIN drains' : e < f => ~Mentions(Items(f)', p)
          BY DEF LastRemoves, LastIs, Mentions, Items
        <5> QED
          BY <1>4, <2>4, <5>1
      <4>2. CASE LastIs(updateItems, p, "removed")
        BY <4>2 DEF LastRemoves
      <4>3. CASE ~LastIs(updateItems, p, "removed")
        <5>1. PICK e \in DOMAIN drains :
                 /\ LastIs(Items(e)', p, "removed")
                 /\ \A f \in DOMAIN drains : e < f => ~Mentions(Items(f)', p)
          BY <4>1, <4>3
        <5>2. LastIs(Items(e), p, "removed") /\ ~(e < d)
          BY <2>4, <2>6, <3>2, <5>1, EmptyMentions
        <5>3. \A f \in DOMAIN drains : e < f => ~Mentions(Items(f), p)
          BY <2>3, <2>4, <5>1, <5>2
        <5> QED
          BY <4>1, <4>3, <5>2, <5>3 DEF LastRemoves
      <4> QED
        BY <4>2, <4>3
    <3>7. ASSUME p \notin foreign, own[p] \in {"idle", "write", "delete"}, ~Told(p)'
          PROVE  index'[p] = files[p]
      <4>1. CASE p # j.path
        BY <1>6, <3>1, <3>4, <3>7, <4>1 DEF FileInv
      <4>2. CASE p = j.path
        <5>1. ~Mentions(updateItems, p)
              /\ \A e \in DOMAIN drains : e # d => ~Mentions(Items(e), p)
          BY <2>4, <3>3, <3>7
        <5>2. j.type = "removed" => LastIs(Items(d), p, "removed")
          <6>1. 1 \in DOMAIN Items(d) /\ Len(Items(d)) \in Nat /\ DOMAIN Items(d) = 1..Len(Items(d))
            BY <2>3, ItemFacts
          <6>2. \A l \in DOMAIN Items(d) : 1 < l => Items(d)[l].path # p
            <7> SUFFICES ASSUME NEW l \in DOMAIN Items(d), 1 < l, Items(d)[l].path = p PROVE FALSE
              OBVIOUS
            <7>1. l - 1 \in DOMAIN Tail(Items(d)) /\ Tail(Items(d))[l - 1] = Items(d)[l]
              <8>1. l - 1 \in 1..(Len(Items(d)) - 1) /\ (l - 1) + 1 = l
                BY <6>1
              <8> QED
                BY <2>3, <8>1, TailFacts
            <7>2. Mentions(Items(d)', p)
              BY <2>4, <7>1 DEF Mentions
            <7> QED
              BY <3>3, <3>7, <7>2
          <6> QED
            BY <2>1, <4>2, <6>1, <6>2 DEF LastIs
        <5>3. j.type = "removed" => LastRemoves(p)
          BY <2>3, <5>1, <5>2 DEF LastRemoves
        <5> QED
          BY <1>6, <3>1, <3>7, <4>2, <5>3 DEF FileInv
      <4> QED
        BY <4>1, <4>2
    <3> QED
      BY <1>4, <2>2, <3>1, <3>4, <3>5, <3>6, <3>7 DEF FileInv
  <2> QED
    BY <1>4, <1>7, <1>10, <2>5, <2>7 DEF EditInv
<1>11. CASE mishaps # {}
  BY <1>4, <1>7, <1>11 DEF EditInv
<1> QED
  BY <1>9, <1>10, <1>11

-----------------------------------------------------------------------------
LEMMA StepInv ==
    ASSUME Inv, EditInv, [Next]_vars
    PROVE  Inv' /\ EditInv'
<1>1. ASSUME NEW c \in Clients, Subscribe(c) PROVE Inv' /\ EditInv'
  BY <1>1, SubscribeInv
<1>2. ASSUME NEW c \in Clients, Cleanup(c) PROVE Inv' /\ EditInv'
  BY <1>2, CleanupInv
<1>3. CASE WatcherReady
  BY <1>3, WatcherReadyInv
<1>4. ASSUME NEW p \in Paths, Edit(p) PROVE Inv' /\ EditInv'
  BY <1>4, EditsInv
<1>5. ASSUME NEW p \in Paths, Deliver(p) PROVE Inv' /\ EditInv'
  BY <1>5, DeliverInv
<1>6. ASSUME NEW p \in Paths, NEW kind \in {"write", "delete"}, TrackOwnWrite(p, kind)
      PROVE  Inv' /\ EditInv'
  BY <1>6, TrackOwnWriteInv
<1>7. ASSUME NEW p \in Paths, ChangeOwn(p) PROVE Inv' /\ EditInv'
  BY <1>7, ChangeOwnInv
<1>8. ASSUME NEW p \in Paths, PublishOwn(p) PROVE Inv' /\ EditInv'
  BY <1>8, PublishOwnInv
<1>9. ASSUME NEW h \in recentWrites, Forget(h) PROVE Inv' /\ EditInv'
  BY <1>9, ForgetInv
<1>10. ASSUME NEW d \in DOMAIN drains, Resume(d) PROVE Inv' /\ EditInv'
  BY <1>10, ResumeInv
<1>11. ASSUME NEW d \in DOMAIN drains, PublishItem(d) PROVE Inv' /\ EditInv'
  BY <1>11, PublishItemInv
<1>12. CASE JobDone
  BY <1>12, JobDoneInv
<1>13. CASE JobFails
  BY <1>13, JobFailsInv
<1>14. CASE UNCHANGED vars
  <2>1. UNCHANGED <<disk, writes, listening, watched, draining, indexing, history>>
    BY <1>14 DEF vars
  <2>2. UNCHANGED <<files, clock, own, watcher, foreign, dirty, updateItems, flush, drains, jobs,
                    index, mishaps>>
    BY <2>1 DEF disk, writes, listening, watched, draining, indexing, history
  <2>3. Inv'
    BY <2>1, <2>2, StillInv DEF Inv, TypeInv
  <2>4. ASSUME NEW p \in Paths PROVE FileInv(p)' <=> FileInv(p)
    BY <2>2 DEF FileInv, Told, LastRemoves, OwnRemoves, LastIs, Mentions, Items
  <2>5. EditInv'
    BY <2>2, <2>4 DEF EditInv, InTurn, Busy, Phase
  <2> QED
    BY <2>3, <2>5
<1> QED
  BY <1>1, <1>2, <1>3, <1>4, <1>5, <1>6, <1>7, <1>8, <1>9, <1>10, <1>11, <1>12,
     <1>13, <1>14
     DEF Next

(* What holds of the drains, the jobs and the promises between them, whatever
   fails; and, unless one of the mishaps has happened, of each file. *)
THEOREM Invariants == Spec => [](Inv /\ EditInv)
<1>1. Init => Inv /\ EditInv
  BY InitInv
<1>2. (Inv /\ EditInv) /\ [Next]_vars => (Inv /\ EditInv)'
  BY StepInv
<1> QED
  BY <1>1, <1>2, PTL DEF Spec

(* At rest, the first drain that has not ended and does not wait for a stuck
   one would have failed, or could go on. *)
LEMMA RestIsStuck ==
    ASSUME Inv
    PROVE  OnlyFailuresStop
<1> SUFFICES ASSUME AtRest PROVE /\ \A d \in DOMAIN drains : Phase(d) = "ended" \/ d \in Stuck
                                 /\ updateItems # <<>> => Stuck # {}
  BY DEF OnlyFailuresStop, Phase
<1>1. /\ Len(drains) \in Nat /\ DOMAIN drains = 1..Len(drains)
      /\ \A d \in DOMAIN drains : Phase(d) \in Phases /\ drains[d].awaits \in Nat
  BY TypeFacts DEF Inv
<1>2. ASSUME NEW d \in DOMAIN drains, Phase(d) # "ended"
      PROVE  Phase(d) = "failed" \/ (Phase(d) = "called" /\ ~CanResume(d))
  <2>1. DOMAIN jobs = {}
    BY DEF AtRest
  <2>2. Phase(d) # "queued"
    BY <2>1 DEF Inv, JobInv
  <2> QED
    BY <1>1, <1>2, <2>2 DEF AtRest, Phase, Phases
<1>3. ASSUME NEW d \in DOMAIN drains, Phase(d) # "ended" PROVE d \in Stuck
  <2> SUFFICES ASSUME NEW S \in SUBSET DOMAIN drains,
                      \A e \in DOMAIN drains : FailsOrAwaits(e, S) => e \in S
               PROVE  d \in S
    BY DEF Stuck
  <2> DEFINE T == {e \in DOMAIN drains : Phase(e) # "ended" /\ e \notin S}
  <2>1. T = {}
    <3> SUFFICES ASSUME T # {} PROVE FALSE
      OBVIOUS
    <3>1. T \subseteq Nat
      BY <1>1
    <3>2. PICK e \in T : \A f \in T : e <= f
      <4> HIDE DEF T
      <4> QED
        BY <3>1, Smallest, Zenon
    <3>3. ~FailsOrAwaits(e, S)
      OBVIOUS
    <3>4. Phase(e) = "called" /\ ~CanResume(e) /\ drains[e].awaits \notin S
      BY <1>2, <3>3 DEF FailsOrAwaits, Phase
    <3>5. drains[e].awaits # 0 /\ drains[drains[e].awaits].phase # "ended"
      BY <3>4 DEF CanResume, Settled, Phase
    <3>6. drains[e].awaits \in DOMAIN drains /\ drains[e].awaits < e
      BY <1>1, <3>5 DEF Inv, DrainInv
    <3>7. drains[e].awaits \in T
      BY <3>4, <3>5, <3>6 DEF Phase
    <3> QED
      BY <1>1, <3>2, <3>6, <3>7
  <2> QED
    BY <1>3, <2>1
<1>4. updateItems # <<>> => \E d \in DOMAIN drains : Phase(d) # "ended"
  BY DEF Inv, WaitInv
<1> QED
  BY <1>3, <1>4

(* When nothing can go on, only a failed update has kept a call of drainUpdates
   from its end, or an update from being taken (drainUpdates, realm.ts). *)
THEOREM DrainsEnd == Spec => []OnlyFailuresStop
<1>1. Inv => OnlyFailuresStop
  BY RestIsStuck
<1> QED
  BY <1>1, Invariants, PTL

LEMMA QuietIsIndexed ==
    ASSUME Inv, EditInv
    PROVE  EditsAreIndexed
<1> SUFFICES ASSUME Quiet, mishaps = {} PROVE index = files
  BY DEF EditsAreIndexed
<1>1. ASSUME NEW p \in Paths PROVE index[p] = files[p]
  <2>1. FileInv(p) /\ own[p] = "idle" /\ p \notin foreign
    BY DEF EditInv, FileInv, Quiet
  <2>2. \A d \in DOMAIN drains : Phase(d) = "ended" /\ Items(d) = <<>>
    BY DEF Quiet, Phase, Inv, DrainInv, Busy
  <2>3. updateItems = <<>>
    BY <2>2 DEF Inv, WaitInv
  <2>4. ~Told(p)
    BY <2>2, <2>3, EmptyMentions, ToldIs
  <2> QED
    BY <2>1, <2>4 DEF FileInv
<1> QED
  BY <1>1 DEF Inv, TypeInv

(* Whatever the realm and others do to its files, once nothing is under way the
   index has every file as it was left, unless one of the mishaps has happened
   (subscribe, getTrackedWrite and drainUpdates, realm.ts). *)
THEOREM EditsReachTheIndex == Spec => []EditsAreIndexed
<1>1. Inv /\ EditInv => EditsAreIndexed
  BY QuietIsIndexed
<1> QED
  BY <1>1, Invariants, PTL
=============================================================================
