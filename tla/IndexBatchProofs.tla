-------------------------- MODULE IndexBatchProofs --------------------------
(***************************************************************************)
(* Theorems about IndexBatch, for any files and any bounds: unless one of  *)
(* the mishaps happens that it does not survive, the index is right when   *)
(* no job is left, and realm_meta counts what searches find.               *)
(***************************************************************************)
EXTENDS IndexBatch, SequenceLemmas, TLAPS

-----------------------------------------------------------------------------
(* What is reached in a graph of modules, which contents describes. *)

(* What is reached are modules, those referred to and all they lead to. *)
LEMMA ReachClosed ==
    ASSUME NEW refs \in SUBSET Modules, NEW c, \A v \in Modules : c[v].refs \subseteq Modules
    PROVE  /\ Reach(refs, c) \subseteq Modules /\ refs \subseteq Reach(refs, c)
           /\ \A w \in Reach(refs, c) : c[w].refs \subseteq Reach(refs, c)
BY DEF Reach

(* It is the least set of this kind. *)
LEMMA ReachLeast ==
    ASSUME NEW refs \in SUBSET Modules, NEW c, NEW S \in SUBSET Modules,
           refs \subseteq S, \A w \in S : c[w].refs \subseteq S
    PROVE  Reach(refs, c) \subseteq S
BY DEF Reach

(* If modules lead to less, less is reached. *)
LEMMA ReachLess ==
    ASSUME NEW refs \in SUBSET Modules, NEW c, NEW d,
           \A v \in Modules : c[v].refs \subseteq Modules,
           \A w \in Reach(refs, c) : d[w].refs \subseteq c[w].refs
    PROVE  Reach(refs, d) \subseteq Reach(refs, c)
<1>1. /\ Reach(refs, c) \subseteq Modules /\ refs \subseteq Reach(refs, c)
      /\ \A w \in Reach(refs, c) : c[w].refs \subseteq Reach(refs, c)
  BY ReachClosed
<1> QED
  BY <1>1, ReachLeast

(* What is reached depends on the contents of what is reached only. *)
LEMMA ReachSame ==
    ASSUME NEW refs \in SUBSET Modules, NEW c, NEW d,
           \A v \in Modules : c[v].refs \subseteq Modules,
           \A v \in Modules : d[v].refs \subseteq Modules,
           \A w \in Reach(refs, c) : d[w] = c[w]
    PROVE  Reach(refs, d) = Reach(refs, c)
<1>1. Reach(refs, d) \subseteq Reach(refs, c)
  BY ReachLess
<1>2. \A w \in Reach(refs, d) : c[w].refs \subseteq d[w].refs
  BY <1>1
<1>3. Reach(refs, c) \subseteq Reach(refs, d)
  BY <1>2, ReachLess
<1> QED
  BY <1>1, <1>3

(* From a module that is reached, one gets no further. *)
LEMMA ReachFrom ==
    ASSUME NEW refs \in SUBSET Modules, NEW c, NEW v \in Reach(refs, c),
           \A w \in Modules : c[w].refs \subseteq Modules
    PROVE  {v} \cup Reach(c[v].refs, c) \subseteq Reach(refs, c)
<1>1. /\ Reach(refs, c) \subseteq Modules
      /\ \A w \in Reach(refs, c) : c[w].refs \subseteq Reach(refs, c)
  BY ReachClosed
<1> QED
  BY <1>1, ReachLeast

(* From a module, what it refers to is reached, and itself. *)
LEMMA ReachItself ==
    ASSUME NEW v \in Modules, NEW c, \A w \in Modules : c[w].refs \subseteq Modules
    PROVE  Reach({v}, c) = {v} \cup Reach(c[v].refs, c)
<1>1. /\ Reach({v}, c) \subseteq Modules /\ v \in Reach({v}, c)
      /\ \A w \in Reach({v}, c) : c[w].refs \subseteq Reach({v}, c)
  BY ReachClosed
<1>2. /\ Reach(c[v].refs, c) \subseteq Modules /\ c[v].refs \subseteq Reach(c[v].refs, c)
      /\ \A w \in Reach(c[v].refs, c) : c[w].refs \subseteq Reach(c[v].refs, c)
  BY ReachClosed
<1>3. Reach({v}, c) \subseteq {v} \cup Reach(c[v].refs, c)
  <2> DEFINE S == {v} \cup Reach(c[v].refs, c)
  <2>1. /\ S \in SUBSET Modules /\ {v} \in SUBSET Modules /\ {v} \subseteq S
        /\ \A w \in S : c[w].refs \subseteq S
    BY <1>2
  <2> HIDE DEF S
  <2>2. Reach({v}, c) \subseteq S
    BY <2>1, ReachLeast
  <2> QED
    BY <2>2 DEF S
<1>4. Reach(c[v].refs, c) \subseteq Reach({v}, c)
  BY <1>1, ReachLeast
<1> QED
  BY <1>1, <1>3, <1>4

-----------------------------------------------------------------------------
(* The state. *)
Batch == [version : Nat, invalidations : SUBSET Urls, visits : SUBSET Urls,
          loaded : UNION {[D -> Source] : D \in SUBSET Modules}]

TypeInv ==
    /\ files \in [Urls -> Source] /\ clock \in Nat /\ second \in Nat
    /\ jobs \in Seq(Job)
    /\ working \in [Urls -> Row] /\ production \in [Urls -> Row]
    /\ meta \in [version : Nat, counts : SUBSET Instances] /\ version \in Nat
    /\ batch \in Batch \cup {NoBatch}
    /\ Running => batch \in Batch /\ batch.version = version + 1 /\ jobs # <<>>
    /\ mishaps \subseteq Mishap
    /\ failures \in 0..MaxFailures

(* A file that is not there refers to nothing, and no row is of a later version
   than all files. *)
VersionInv ==
    \A u \in Urls :
        /\ files[u].ver = 0 => files[u].refs = {}
        /\ files[u].ver <= clock
        /\ working[u].source.ver <= clock /\ production[u].source.ver <= clock

LEMMA InitTypeInv == Init => TypeInv /\ VersionInv
<1> SUFFICES ASSUME Init PROVE TypeInv /\ VersionInv
  OBVIOUS
<1>1. /\ files \in [Urls -> Source]
      /\ \A u \in Urls : files[u] = None \/ files[u].ver = 1
      /\ clock = 1 /\ second = 1
  BY FilesAssumption DEF Init, None
<1>2. \A u \in Urls : files[u].ver \in Nat /\ files[u].refs \subseteq Modules
  BY <1>1 DEF Source
<1>3. ASSUME NEW u \in Urls PROVE production[u] \in Row /\ production[u].source.ver <= 1
  <2>1. CASE files[u].ver = 0
    BY <2>1, <1>1 DEF Init, NoRow, Row, None, Source
  <2>2. CASE files[u].ver # 0
    <3> DEFINE R == Reach(files[u].refs, files) \ {u}
    <3>1. R \subseteq Modules
      BY <1>2, ReachClosed DEF Urls
    <3>2. {<<u, files[u].ver>>} \cup {<<v, files[v].ver>> : v \in R} \subseteq Urls \X Nat
      BY <3>1, <1>2 DEF Urls
    <3>3. production[u] = Entry(u, files[u], files[u].refs, files)
      BY <2>2 DEF Init
    <3> QED
      BY <3>1, <3>2, <3>3, <1>1, <1>2, <2>2 DEF Entry, Row, None
  <2> QED
    BY <2>1, <2>2
<1>4. production \in [Urls -> Row] /\ working = production
  BY <1>3 DEF Init
<1>5. TypeInv
  BY <1>1, <1>4, BoundsAssumption
     DEF Init, TypeInv, NoBatch, Running, Mishap, Job
<1>6. VersionInv
  BY <1>1, <1>3, <1>4 DEF VersionInv, None
<1> QED
  BY <1>5, <1>6

Basic == TypeInv /\ VersionInv

(* What the files and the rows are, taken apart. *)
LEMMA BasicFacts ==
    ASSUME Basic
    PROVE  /\ None \in Source /\ Modules \subseteq Urls /\ Instances \subseteq Urls
           /\ \A u \in Urls : /\ files[u] \in Source /\ files[u].ver \in Nat
                              /\ files[u].refs \in SUBSET Modules
                              /\ working[u] \in Row /\ production[u] \in Row
                              /\ working[u].source \in Source /\ production[u].source \in Source
                              /\ working[u].deps \in SUBSET Modules
                              /\ production[u].deps \in SUBSET Modules
                              /\ working[u].source.ver \in Nat /\ production[u].source.ver \in Nat
BY DEF Basic, TypeInv, Source, None, Row, Urls

LEMMA BatchFacts ==
    ASSUME Basic, Running
    PROVE  /\ batch.invalidations \in SUBSET Urls /\ batch.visits \in SUBSET Urls
           /\ DOMAIN batch.loaded \in SUBSET Modules
           /\ \A v \in DOMAIN batch.loaded : batch.loaded[v] \in Source
           /\ batch.version = version + 1 /\ version \in Nat
           /\ batch = [version |-> batch.version, invalidations |-> batch.invalidations,
                       visits |-> batch.visits, loaded |-> batch.loaded]
           /\ jobs \in Seq(Job) /\ jobs # <<>>
<1>1. batch \in Batch
  BY DEF Basic, TypeInv
<1>2. PICK D \in SUBSET Modules : batch.loaded \in [D -> Source]
  BY <1>1 DEF Batch
<1> QED
  BY <1>1, <1>2 DEF Basic, TypeInv, Batch

(* The contents the loader has, or will be served. *)
LEMMA ServedFacts ==
    ASSUME Basic, Running
    PROVE  /\ \A v \in Modules : Serve(v) \in Source
           /\ \A v \in Modules : Served[v] \in Source /\ Served[v].refs \in SUBSET Modules
                                 /\ Served[v].ver \in Nat
           /\ Served \in [Modules -> Source]
<1>1. \A v \in Modules : Serve(v) \in Source
  BY BasicFacts DEF Serve
<1>2. \A v \in Modules : Served[v] \in Source
  BY <1>1, BatchFacts DEF Served
<1> QED
  BY <1>1, <1>2 DEF Source, Served

LEMMA EntryType ==
    ASSUME NEW u \in Urls, NEW source \in Source, NEW refs \in SUBSET Modules, NEW c,
           \A v \in Modules : c[v] \in Source
    PROVE  Entry(u, source, refs, c) \in Row
<1> DEFINE R == Reach(refs, c) \ {u}
<1>1. R \subseteq Modules /\ \A v \in Modules : c[v].ver \in Nat
  BY ReachClosed DEF Source
<1>2. {<<u, source.ver>>} \cup {<<v, c[v].ver>> : v \in R} \subseteq Urls \X Nat
  BY <1>1 DEF Urls, Source
<1> QED
  BY <1>1, <1>2 DEF Entry, Row

LEMMA StartFromType ==
    ASSUME Basic, NEW u \in Urls
    PROVE  StartFrom(u) \in SUBSET Modules
BY BasicFacts DEF StartFrom

(* A change of a file. *)
LEMMA PutBasic ==
    ASSUME Basic, NEW u \in Urls, \/ \E refs \in Refs[u] : Put(u, refs)
                                  \/ Erase(u)
    PROVE  /\ clock' = clock + 1 /\ clock' \in Nat /\ second' \in Nat
           /\ files' \in [Urls -> Source]
           /\ \A v \in Urls \ {u} : files'[v] = files[v]
           /\ \A v \in Urls : (files'[v].ver = 0 => files'[v].refs = {}) /\ files'[v].ver <= clock'
           /\ files'[u].ver \in {0, clock + 1}
<1> USE DEF Basic, TypeInv, VersionInv
<1>1. CASE Erase(u)
  BY <1>1 DEF Erase, None, Source
<1>2. ASSUME NEW refs \in Refs[u], Put(u, refs)
      PROVE  LET file == [ver |-> clock + 1, refs |-> refs, modified |-> second']
             IN  /\ clock' = clock + 1 /\ clock' \in Nat /\ second' \in Nat
                 /\ files' = [files EXCEPT ![u] = file] /\ file \in Source
  <2>1. refs \in SUBSET Modules
    BY RefsAssumption
  <2> QED
    BY <1>2, <2>1 DEF Put, Source
<1>3. CASE \E refs \in Refs[u] : Put(u, refs)
  <2>1. PICK refs \in Refs[u] : Put(u, refs)
    BY <1>3
  <2> DEFINE file == [ver |-> clock + 1, refs |-> refs, modified |-> second']
  <2>2. /\ clock' = clock + 1 /\ clock' \in Nat /\ second' \in Nat
        /\ files' = [files EXCEPT ![u] = file] /\ file \in Source
    BY <2>1, <1>2
  <2>3. files' \in [Urls -> Source] /\ files'[u].ver = clock + 1
        /\ \A v \in Urls \ {u} : files'[v] = files[v]
    BY <2>2
  <2>4. \A v \in Urls : files[v].ver \in Nat
    BY DEF Source
  <2> QED
    BY <2>2, <2>3, <2>4
<1> QED
  BY <1>1, <1>3

(* A batch that begins puts tombstones over the rows it will visit; all that
   depends on one of them is among them. *)
LEMMA InvalidateFacts ==
    ASSUME NEW us \in SUBSET Urls
    PROVE  /\ Invalidate(us) \in SUBSET Urls /\ us \subseteq Invalidate(us)
           /\ \A u \in Invalidate(us), v \in Urls :
                 u \in working[v].deps => v \in Invalidate(us)
<1> DEFINE Stable(S) == \A w \in S : ItemsThatReference(w) \subseteq S
<1>1. \A u \in Urls : CalculateInvalidations(u) \subseteq Urls
  BY DEF CalculateInvalidations
<1>2. ASSUME NEW u \in us PROVE /\ ItemsThatReference(u) \subseteq CalculateInvalidations(u)
                                /\ Stable(CalculateInvalidations(u))
  <2>1. ItemsThatReference(u) \subseteq CalculateInvalidations(u)
    BY DEF CalculateInvalidations, ItemsThatReference
  <2>2. ASSUME NEW w \in CalculateInvalidations(u), NEW v \in ItemsThatReference(w)
        PROVE  v \in CalculateInvalidations(u)
    <3>1. v \in Urls
      BY DEF ItemsThatReference
    <3>2. ASSUME NEW S \in SUBSET Urls, ItemsThatReference(u) \subseteq S, Stable(S)
          PROVE  v \in S
      BY <3>2 DEF CalculateInvalidations
    <3> QED
      BY <3>1, <3>2 DEF CalculateInvalidations
  <2> QED
    BY <2>1, <2>2
<1>3. ASSUME NEW u \in Invalidate(us), NEW v \in Urls, u \in working[v].deps
      PROVE  v \in Invalidate(us)
  <2>1. v \in ItemsThatReference(u)
    BY <1>3 DEF ItemsThatReference
  <2>2. CASE u \in us
    BY <2>1, <2>2, <1>2 DEF Invalidate
  <2>3. ASSUME NEW w \in us, u \in CalculateInvalidations(w) PROVE v \in Invalidate(us)
    BY <2>1, <2>3, <1>2 DEF Invalidate
  <2> QED
    BY <2>2, <2>3 DEF Invalidate
<1> QED
  BY <1>1, <1>3 DEF Invalidate

LEMMA TombstoneFacts ==
    ASSUME Basic, NEW us \in SUBSET Urls
    PROVE  /\ WithTombstones(us) \in [Urls -> Row]
           /\ \A u \in Urls : /\ WithTombstones(us)[u].deps = working[u].deps
                              /\ WithTombstones(us)[u].source = working[u].source
           /\ \A u \in us : /\ WithTombstones(us)[u].type = "entry"
                            /\ WithTombstones(us)[u].deleted
           /\ \A u \in Urls \ us : WithTombstones(us)[u] = working[u]
<1>1. ASSUME NEW r \in Row
      PROVE  /\ Tombstone(r) \in Row /\ Tombstone(r).deps = r.deps
             /\ Tombstone(r).source = r.source
             /\ Tombstone(r).type = "entry" /\ Tombstone(r).deleted
  BY DEF Tombstone, Row
<1>2. \A u \in Urls : working[u] \in Row
  BY BasicFacts
<1> QED
  BY <1>1, <1>2 DEF WithTombstones

(* The batch of a job that begins. *)
LEMMA BeginFacts ==
    ASSUME Basic, NEW inv \in SUBSET Urls, NEW vis \in SUBSET Urls, Begin(inv, vis)
    PROVE  /\ batch' \in Batch /\ batch'.version = version + 1
           /\ batch'.invalidations = inv /\ batch'.visits = vis
           /\ DOMAIN batch'.loaded = {} /\ batch' # NoBatch
<1>1. version + 1 \in Nat /\ version + 1 # 0
  BY DEF Basic, TypeInv
<1>2. <<>> \in [{} -> Source] /\ DOMAIN <<>> = {}
  OBVIOUS
<1>3. <<>> \in UNION {[D -> Source] : D \in SUBSET Modules}
  BY <1>2
<1> QED
  BY <1>1, <1>2, <1>3 DEF Begin, Batch, NoBatch

(* A visit that writes a row. *)
LEMMA UpdateFacts ==
    ASSUME Basic, Running, NEW u \in batch.visits, NEW row \in Row, UpdateEntry(u, row)
    PROVE  /\ working' \in [Urls -> Row] /\ working'[u] = row
           /\ \A v \in Urls \ {u} : working'[v] = working[v]
           /\ batch' \in Batch /\ batch'.version = batch.version
           /\ batch'.invalidations = batch.invalidations \cup {u}
           /\ batch'.visits = batch.visits \ {u}
           /\ DOMAIN batch'.loaded = DOMAIN batch.loaded \cup Reach(StartFrom(u), Served)
           /\ \A v \in DOMAIN batch'.loaded : batch'.loaded[v] = Served[v]
           /\ batch' # NoBatch
<1>1. u \in Urls /\ batch \in Batch
  BY BatchFacts DEF Basic, TypeInv
<1> DEFINE D == DOMAIN batch.loaded \cup Reach(StartFrom(u), Served)
<1>2. D \subseteq Modules
  BY <1>1, StartFromType, ServedFacts, BatchFacts, ReachClosed
<1>3. [v \in D |-> Served[v]] \in [D -> Source]
  BY <1>2, ServedFacts
<1>4. [v \in D |-> Served[v]] \in UNION {[E -> Source] : E \in SUBSET Modules}
  BY <1>2, <1>3
<1>5. batch' = [batch EXCEPT !.visits = batch.visits \ {u},
          !.invalidations = batch.invalidations \cup {u},
          !.loaded = [v \in D |-> Served[v]]]
  BY DEF UpdateEntry
<1>6. working' \in [Urls -> Row] /\ working'[u] = row /\ \A v \in Urls \ {u} : working'[v] = working[v]
  BY <1>1 DEF UpdateEntry, Basic, TypeInv
<1>7. version + 1 # 0 /\ batch.version = version + 1
  BY DEF Basic, TypeInv
<1> QED
  BY <1>1, <1>4, <1>5, <1>6, <1>7 DEF Batch, NoBatch

LEMMA BeginEffect ==
    ASSUME Basic, Incremental \/ FromScratch
    PROVE  /\ ~Running /\ jobs # <<>>
           /\ UNCHANGED <<files, clock, second, jobs, production, meta, version, failures>>
           /\ mishaps' \subseteq Mishap
           /\ \E inv, vis \in SUBSET Urls : Begin(inv, vis) /\ working' = WithTombstones(inv)
<1>1. working = WithTombstones({})
  BY DEF WithTombstones, Basic, TypeInv
<1>2. CASE Incremental
  <2> DEFINE I == Invalidate({Head(jobs).url})
             V == IF Head(jobs).kind = "delete" THEN I \ {Head(jobs).url} ELSE I
  <2>1. jobs \in Seq(Job) /\ jobs # <<>>
    BY <1>2 DEF Incremental, Basic, TypeInv
  <2>2. Head(jobs) \in Job
    BY <2>1, NotEmpty
  <2>3. I \in SUBSET Urls /\ V \in SUBSET Urls
    BY <2>2, InvalidateFacts DEF Job
  <2>4. Begin(I, V) /\ working' = WithTombstones(I)
    BY <1>2 DEF Incremental
  <2> QED
    BY <1>2, <2>3, <2>4 DEF Incremental, disk, index, Basic, TypeInv
<1>3. CASE FromScratch
  <2> DEFINE P == {u \in Urls : files[u].ver # 0}
             O == {u \in P : Outdated(u)}
  <2>1. P \in SUBSET Urls /\ O \in SUBSET Urls
    OBVIOUS
  <2>2. Invalidate(O) \in SUBSET Urls
    BY <2>1, InvalidateFacts
  <2>3. \/ /\ Begin({}, O) /\ working' = working
           /\ mishaps' = mishaps \cup IF \E u \in Urls : working[u].type # "none" THEN {"wholesale"} ELSE {}
        \/ /\ Begin(Invalidate(O), Invalidate(O)) /\ working' = WithTombstones(Invalidate(O))
           /\ mishaps' = mishaps \ {"changed", "failed", "unlinked"}
    BY <1>3 DEF FromScratch
  <2>4. mishaps' \subseteq Mishap
    BY <2>3 DEF Mishap, Basic, TypeInv
  <2>5. \E inv, vis \in SUBSET Urls : Begin(inv, vis) /\ working' = WithTombstones(inv)
    <3>1. CASE Begin({}, O) /\ working' = working
      BY <3>1, <2>1, <1>1
    <3>2. CASE Begin(Invalidate(O), Invalidate(O)) /\ working' = WithTombstones(Invalidate(O))
      BY <3>2, <2>2
    <3> QED
      BY <3>1, <3>2, <2>3
  <2> QED
    BY <1>3, <2>4, <2>5 DEF FromScratch, disk, index
<1> QED
  BY <1>2, <1>3

(* What visits write are rows, of no later version than the files. *)
LEMMA VisitEffect ==
    ASSUME Basic, VersionInv, NEW u \in Urls, Visit(u)
    PROVE  /\ Running /\ u \in batch.visits
           /\ UNCHANGED <<files, clock, second, jobs, production, meta, version, failures>>
           /\ mishaps' \subseteq Mishap /\ mishaps \subseteq mishaps'
           /\ \/ /\ files[u].ver = 0 /\ UNCHANGED <<working, mishaps>>
                 /\ batch' = [batch EXCEPT !.visits = @ \ {u}]
              \/ \E row \in Row : row.source.ver <= clock /\ UpdateEntry(u, row)
<1>1. /\ Running /\ u \in batch.visits
      /\ UNCHANGED <<files, clock, second, jobs, production, meta, version, failures>>
      /\ VisitEntry(u) \/ VisitError(u) \/ VisitMissing(u)
      /\ mishaps \in SUBSET Mishap
  BY DEF Visit, disk, index, Basic, TypeInv
<1>2. CASE VisitEntry(u)
  <2>1. Entry(u, files[u], StartFrom(u), Served) \in Row
    BY <1>1, BasicFacts, StartFromType, ServedFacts, EntryType
  <2>2. Entry(u, files[u], StartFrom(u), Served).source = files[u]
    BY DEF Entry
  <2> QED
    BY <1>1, <1>2, <2>1, <2>2 DEF VisitEntry, VersionInv
<1>3. CASE VisitError(u)
  <2>1. PICK deps \in ErrorDeps(u) :
          /\ UpdateEntry(u, ErrorEntry(u, deps))
          /\ mishaps' = mishaps \cup
                IF u \in Modules /\ ~(Reach(StartFrom(u), Served) \ {u} \subseteq
                                        production[u].deps \cup deps)
                THEN {"unlinked"} ELSE {}
    BY <1>3 DEF VisitError
  <2>2. deps \in SUBSET Modules
    <3>1. Reach(StartFrom(u), Served) \subseteq Modules
      BY <1>1, StartFromType, ServedFacts, ReachClosed
    <3> QED
      BY <3>1, BasicFacts DEF ErrorDeps
  <2>3. production[u] \in Row
    BY BasicFacts
  <2>4. ErrorEntry(u, deps) \in Row /\ ErrorEntry(u, deps).source = production[u].source
    BY <2>2, <2>3 DEF ErrorEntry, Row
  <2>5. mishaps' \subseteq Mishap /\ mishaps \subseteq mishaps'
    BY <1>1, <2>1 DEF Mishap
  <2> QED
    BY <1>1, <2>1, <2>4, <2>5 DEF VersionInv
<1>4. CASE VisitMissing(u)
  BY <1>1, <1>4 DEF VisitMissing
<1> QED
  BY <1>1, <1>2, <1>3, <1>4

LEMMA FileEffect ==
    ASSUME Basic, NEW u \in Urls, Write(u) \/ Delete(u) \/ Restart(u)
    PROVE  /\ UNCHANGED <<working, production, meta, version, batch, failures>>
           /\ mishaps \subseteq mishaps' /\ mishaps' \subseteq Mishap
           /\ \E kind \in {"update", "delete", "full"} :
                 /\ [kind |-> kind, url |-> u] \in Job
                 /\ jobs' = Append(jobs, [kind |-> kind, url |-> u])
           /\ \/ \E refs \in Refs[u] : Put(u, refs)
              \/ Erase(u)
<1>1. mishaps \subseteq Mishap /\ \A kind \in {"update", "delete", "full"} : [kind |-> kind, url |-> u] \in Job
  BY DEF Basic, TypeInv, Job
<1>2. CASE Write(u)
  BY <1>1, <1>2 DEF Write, Publish, index
<1>3. CASE Delete(u)
  BY <1>1, <1>3 DEF Delete, Publish, index
<1>4. CASE Restart(u)
  <2>1. /\ UNCHANGED <<working, production, meta, version, batch, failures>>
        /\ jobs' = Append(jobs, [kind |-> "full", url |-> u])
    BY <1>4 DEF Restart, Publish, index
  <2>2. \/ (\E refs \in Refs[u] : Put(u, refs)) /\ mishaps \subseteq mishaps' /\ mishaps' \subseteq Mishap
        \/ Erase(u) /\ mishaps \subseteq mishaps' /\ mishaps' \subseteq Mishap
    BY <1>1, <1>4 DEF Restart, Mishap
  <2> QED
    BY <1>1, <2>1, <2>2
<1> QED
  BY <1>2, <1>3, <1>4

LEMMA DoneEffect ==
    ASSUME Basic, Done
    PROVE  /\ Running /\ batch.visits = {} /\ batch' = NoBatch /\ ~Running'
           /\ jobs # <<>> /\ jobs' = Tail(jobs)
           /\ UNCHANGED <<files, clock, second, working, mishaps, failures>>
           /\ version' = version + 1
           /\ meta' = [version |-> version + 1, counts |-> Counted]
           /\ production' \in [Urls -> Row]
           /\ \A u \in Urls : production'[u] = IF u \in batch.invalidations THEN working[u]
                                               ELSE production[u]
BY BatchFacts DEF Done, ApplyBatchUpdates, disk, Basic, TypeInv, Running

LEMMA StepBasic == Basic /\ [Next]_vars => Basic'
<1> SUFFICES ASSUME Basic, [Next]_vars PROVE TypeInv' /\ VersionInv'
  BY DEF Basic
<1>0. TypeInv /\ VersionInv /\ jobs \in Seq(Job)
  BY DEF Basic, TypeInv
<1>1. ASSUME NEW u \in Urls, Write(u) \/ Delete(u) \/ Restart(u) PROVE TypeInv' /\ VersionInv'
  <2>1. PICK kind \in {"update", "delete", "full"} :
           /\ [kind |-> kind, url |-> u] \in Job
           /\ jobs' = Append(jobs, [kind |-> kind, url |-> u])
    BY <1>1, FileEffect
  <2>2. jobs' \in Seq(Job) /\ jobs' # <<>>
    BY <2>1, <1>0, AppendFacts
  <2>3. /\ UNCHANGED <<working, production, meta, version, batch, failures>>
        /\ mishaps' \subseteq Mishap
    BY <1>1, FileEffect
  <2>4. /\ clock' = clock + 1 /\ clock' \in Nat /\ second' \in Nat
        /\ files' \in [Urls -> Source]
        /\ \A v \in Urls : (files'[v].ver = 0 => files'[v].refs = {}) /\ files'[v].ver <= clock'
    BY <1>1, FileEffect, PutBasic
  <2>5. TypeInv'
    BY <2>2, <2>3, <2>4, <1>0 DEF TypeInv, Running
  <2>6. VersionInv'
    BY <2>3, <2>4, <1>0, BasicFacts DEF VersionInv, TypeInv
  <2> QED
    BY <2>5, <2>6
<1>2. CASE Incremental \/ FromScratch
  <2>1. /\ jobs # <<>> /\ mishaps' \subseteq Mishap
        /\ UNCHANGED <<files, clock, second, jobs, production, meta, version, failures>>
    BY <1>2, BeginEffect
  <2>2. PICK inv \in SUBSET Urls, vis \in SUBSET Urls : Begin(inv, vis) /\ working' = WithTombstones(inv)
    BY <1>2, BeginEffect
  <2>3. batch' \in Batch /\ batch'.version = version + 1
    BY <2>2, BeginFacts
  <2>4. /\ working' \in [Urls -> Row]
        /\ \A u \in Urls : working'[u].source = working[u].source
    BY <2>2, TombstoneFacts
  <2>5. TypeInv'
    BY <1>0, <2>1, <2>3, <2>4 DEF TypeInv
  <2>6. VersionInv'
    BY <1>0, <2>1, <2>4 DEF VersionInv
  <2> QED
    BY <2>5, <2>6
<1>3. ASSUME NEW u \in Urls, Visit(u) PROVE TypeInv' /\ VersionInv'
  <2>1. /\ Running /\ u \in batch.visits /\ mishaps' \subseteq Mishap
        /\ UNCHANGED <<files, clock, second, jobs, production, meta, version, failures>>
    BY <1>0, <1>3, VisitEffect
  <2>2. CASE UNCHANGED working /\ batch' = [batch EXCEPT !.visits = @ \ {u}]
    <3>1. batch' \in Batch /\ batch'.version = batch.version
      BY <2>1, <2>2, BatchFacts, <1>0 DEF TypeInv, Batch
    <3> QED
      BY <1>0, <2>1, <2>2, <3>1 DEF TypeInv, VersionInv
  <2>3. ASSUME NEW row \in Row, row.source.ver <= clock, UpdateEntry(u, row)
        PROVE  TypeInv' /\ VersionInv'
    <3>1. /\ working' \in [Urls -> Row] /\ working'[u] = row
          /\ \A v \in Urls \ {u} : working'[v] = working[v]
          /\ batch' \in Batch /\ batch'.version = batch.version
      BY <2>1, <2>3, UpdateFacts
    <3>2. TypeInv'
      BY <1>0, <2>1, <3>1 DEF TypeInv
    <3>3. VersionInv'
      BY <1>0, <2>1, <2>3, <3>1 DEF VersionInv
    <3> QED
      BY <3>2, <3>3
  <2> QED
    BY <1>0, <1>3, <2>2, <2>3, VisitEffect
<1>4. CASE Done
  <2>1. jobs' \in Seq(Job)
    BY <1>0, <1>4, DoneEffect, TailFacts
  <2>2. meta' \in [version : Nat, counts : SUBSET Instances] /\ version' \in Nat
    BY <1>0, <1>4, DoneEffect DEF TypeInv, Counted
  <2>3. TypeInv'
    BY <1>0, <1>4, <2>1, <2>2, DoneEffect DEF TypeInv
  <2>4. VersionInv'
    BY <1>0, <1>4, DoneEffect DEF VersionInv
  <2> QED
    BY <2>3, <2>4
<1>5. CASE Fail
  <2>1. jobs # <<>> /\ jobs' \in Seq(Job)
    BY <1>0, <1>5, BatchFacts, TailFacts DEF Fail
  <2> QED
    BY <1>0, <1>5, <2>1, BoundsAssumption
    DEF Fail, Budget, TypeInv, VersionInv, disk, index, Running, Mishap
<1>6. CASE WorkerDies
  BY <1>0, <1>6, BoundsAssumption
  DEF WorkerDies, Budget, TypeInv, VersionInv, disk, index, Running
<1>7. CASE DatabaseCrashes
  <2>1. NoRow \in Row /\ NoRow.source.ver = 0
    BY DEF NoRow, None, Row, Source
  <2>2. /\ working' \in [Urls -> Row]
        /\ \A u \in Urls : working'[u].source.ver = 0
    BY <1>7, <2>1 DEF DatabaseCrashes
  <2>3. /\ UNCHANGED <<files, clock, second, jobs, production, meta, version, batch>>
        /\ mishaps' = mishaps \cup {"truncated"} /\ failures' \in 0..MaxFailures
    BY <1>0, <1>7, BoundsAssumption
       DEF DatabaseCrashes, Budget, disk, index, TypeInv
  <2>4. TypeInv'
    BY <1>0, <2>2, <2>3 DEF TypeInv, Running, Mishap
  <2>5. VersionInv'
    BY <1>0, <2>2, <2>3 DEF VersionInv, TypeInv
  <2> QED
    BY <2>4, <2>5
<1>8. CASE UNCHANGED vars
  BY <1>0, <1>8 DEF vars, disk, index, TypeInv, VersionInv, Running
<1> QED
  BY <1>1, <1>2, <1>3, <1>4, <1>5, <1>6, <1>7, <1>8 DEF Next

LEMMA BasicInvariant == Spec => []Basic
<1>1. Init => Basic
  BY InitTypeInv DEF Basic
<1> QED
  BY <1>1, StepBasic, PTL DEF Spec

(* The state is of its type; a batch has the next version, touches files of the
   realm only, and belongs to a job. *)
THEOREM TypeCorrectness == Spec => []TypeOK
<1>1. Basic => TypeOK
  <2> SUFFICES ASSUME Basic PROVE TypeOK
    OBVIOUS
  <2> QED
    BY BatchFacts DEF Basic, TypeInv, TypeOK
<1> QED
  BY <1>1, BasicInvariant, PTL

-----------------------------------------------------------------------------
(* What the rows should say, if f are the files. *)

(* A file and the modules it reaches. *)
Around(u, f) == {u} \cup Reach(f[u].refs, f)

(* As IsCurrent. *)
Current(u, f, row) ==
    IF f[u].ver = 0 THEN row.type = "none" \/ row.deleted
    ELSE IF Loads(f[u].refs, f) THEN row = Entry(u, f[u], f[u].refs, f)
    ELSE row.type = "error"

(* A row depends on what its file refers to. *)
Linked(u, f, row) == f[u].refs \ {u} \subseteq row.deps

(* What a loader is served for a module: its contents, or nothing when it could
   not be loaded anyway. *)
Sound(v, f, c) == c = f[v] \/ (c = None /\ ~Loads({v}, f))

LEMMA AroundFacts ==
    ASSUME NEW f \in [Urls -> Source], NEW u \in Urls
    PROVE  /\ f[u].refs \in SUBSET Modules /\ u \in Around(u, f)
           /\ Reach(f[u].refs, f) \in SUBSET Modules /\ f[u].refs \subseteq Reach(f[u].refs, f)
           /\ Around(u, f) \in SUBSET Urls
           /\ \A v \in Around(u, f) : f[v].refs \subseteq Reach(f[u].refs, f)
           /\ \A v \in Around(u, f) : Around(v, f) \subseteq Around(u, f)
           /\ \A v \in Reach(f[u].refs, f) : Around(v, f) \subseteq Reach(f[u].refs, f)
           /\ f[u].refs = {} => Around(u, f) = {u}
<1> DEFINE R == Reach(f[u].refs, f)
<1>1. \A v \in Urls : f[v].refs \in SUBSET Modules
  BY DEF Source
<1>2. \A v \in Modules : f[v].refs \subseteq Modules
  BY <1>1 DEF Urls
<1>3. R \subseteq Modules /\ f[u].refs \subseteq R /\ \A w \in R : f[w].refs \subseteq R
  BY <1>1, <1>2, ReachClosed
<1>4. \A v \in R : Around(v, f) \subseteq R
  BY <1>1, <1>2, ReachFrom DEF Around
<1>5. ASSUME f[u].refs = {} PROVE Around(u, f) = {u}
  <2>1. R \subseteq {}
    BY <1>5, <1>1, ReachLeast
  <2> QED
    BY <2>1 DEF Around
<1> QED
  BY <1>1, <1>3, <1>4, <1>5 DEF Around, Urls

(* All this depends on the contents of what is reached only. *)
LEMMA AroundSame ==
    ASSUME NEW f \in [Urls -> Source], NEW g \in [Urls -> Source], NEW u \in Urls,
           \A v \in Around(u, f) : g[v] = f[v]
    PROVE  /\ Around(u, g) = Around(u, f) /\ Reach(g[u].refs, g) = Reach(f[u].refs, f)
           /\ \A row : Current(u, g, row) <=> Current(u, f, row)
           /\ u \in Modules => (Loads({u}, g) <=> Loads({u}, f))
<1> DEFINE R == Reach(f[u].refs, f)
<1>1. /\ \A v \in Modules : f[v].refs \subseteq Modules
      /\ \A v \in Modules : g[v].refs \subseteq Modules
  BY DEF Source, Urls
<1>2. g[u] = f[u] /\ f[u].refs \in SUBSET Modules /\ R \subseteq Modules /\ \A v \in R : g[v] = f[v]
  BY AroundFacts DEF Around
<1>3. Reach(g[u].refs, g) = R
  BY <1>1, <1>2, ReachSame
<1>4. Around(u, g) = Around(u, f)
  BY <1>3 DEF Around
<1>5. Loads(g[u].refs, g) <=> Loads(f[u].refs, f)
  BY <1>2, <1>3 DEF Loads
<1>6. Entry(u, g[u], g[u].refs, g) = Entry(u, f[u], f[u].refs, f)
  <2>1. {<<v, g[v].ver>> : v \in R \ {u}} = {<<v, f[v].ver>> : v \in R \ {u}}
    BY <1>2
  <2> QED
    BY <1>2, <1>3, <2>1 DEF Entry
<1>7. \A row : Current(u, g, row) <=> Current(u, f, row)
  BY <1>2, <1>5, <1>6 DEF Current
<1>8. ASSUME u \in Modules PROVE Loads({u}, g) <=> Loads({u}, f)
  <2>1. Reach({u}, f) = {u} \cup R /\ Reach({u}, g) = {u} \cup R
    BY <1>1, <1>3, <1>8, ReachItself
  <2> QED
    BY <1>2, <2>1 DEF Loads
<1> QED
  BY <1>3, <1>4, <1>7, <1>8

(* What reaches a module that does not load does not load. *)
LEMMA LoadsAll ==
    ASSUME NEW f \in [Urls -> Source], NEW refs \in SUBSET Modules, NEW v \in Reach(refs, f),
           Loads(refs, f)
    PROVE  Loads({v}, f)
<1>1. \A w \in Modules : f[w].refs \subseteq Modules
  BY DEF Source, Urls
<1>2. v \in Modules
  BY <1>1, ReachClosed
<1>3. Reach({v}, f) \subseteq Reach(refs, f)
  BY <1>1, <1>2, ReachFrom, ReachItself
<1> QED
  BY <1>3 DEF Loads

(* A visit of a file that is served sound contents finds what it should. *)
LEMMA VisitIsRight ==
    ASSUME NEW f \in [Urls -> Source], NEW c, NEW u \in Urls, f[u].ver # 0,
           \A v \in Modules : c[v] \in Source,
           \A v \in Around(u, f) \cap Modules : Sound(v, f, c[v]),
           u \in Modules => c[u] = f[u],
           NEW refs, refs = IF u \in Modules THEN {u} ELSE f[u].refs
    PROVE  /\ Reach(refs, c) \subseteq Around(u, f)
           /\ Loads(refs, c) => /\ Loads(f[u].refs, f)
                                /\ Entry(u, f[u], refs, c) = Entry(u, f[u], f[u].refs, f)
           /\ ~Loads(refs, c) => ~Loads(f[u].refs, f)
<1> DEFINE R == Reach(f[u].refs, f)
<1>1. /\ \A v \in Modules : f[v].refs \subseteq Modules
      /\ \A v \in Modules : c[v].refs \subseteq Modules
      /\ f[u].refs \in SUBSET Modules /\ refs \in SUBSET Modules
      /\ R \in SUBSET Modules
  BY AroundFacts DEF Source, Urls
<1>2. Reach(refs, f) = IF u \in Modules THEN {u} \cup R ELSE R
  BY <1>1, ReachItself
<1>3. \A v \in Reach(refs, f) : v \in Around(u, f) \cap Modules
  BY <1>1, <1>2 DEF Around
<1> DEFINE Same(v) == c[v] = f[v]
           Empty(v) == c[v] = None /\ ~Loads({v}, f)
<1>a. \A v \in Reach(refs, f) : Same(v) \/ Empty(v)
  BY <1>3 DEF Sound
<1>b. None.refs = {} /\ None.ver = 0
  BY DEF None
<1>4. Reach(refs, c) \subseteq Reach(refs, f)
  <2>1. \A v \in Reach(refs, f) : c[v].refs \subseteq f[v].refs
    BY <1>a, <1>b
  <2> QED
    BY <1>1, <2>1, ReachLess
<1>5. ASSUME Loads(refs, c)
      PROVE  /\ Loads(f[u].refs, f)
             /\ Entry(u, f[u], refs, c) = Entry(u, f[u], f[u].refs, f)
  <2>1. /\ \A v \in Reach(refs, c) : f[v] = c[v]
        /\ \A v \in Reach(refs, c) : c[v].ver # 0
    BY <1>a, <1>b, <1>4, <1>5 DEF Loads
  <2>2. Reach(refs, f) = Reach(refs, c)
    BY <1>1, <2>1, ReachSame
  <2>3. \A v \in R : f[v].ver # 0
    BY <1>2, <2>1, <2>2
  <2>4. Reach(refs, c) \ {u} = R \ {u}
    BY <1>2, <2>2
  <2>5. {<<v, c[v].ver>> : v \in Reach(refs, c) \ {u}} = {<<v, f[v].ver>> : v \in R \ {u}}
    BY <2>1, <2>4
  <2> QED
    BY <2>3, <2>4, <2>5 DEF Loads, Entry
<1>6. ASSUME ~Loads(refs, c) PROVE ~Loads(f[u].refs, f)
  <2>1. PICK v \in Reach(refs, c) : c[v].ver = 0
    BY <1>6 DEF Loads
  <2>2. v \in R
    BY <2>1, <1>2, <1>4
  <2>3. f[v].ver = 0 \/ ~Loads({v}, f)
    BY <2>1, <1>a, <1>4
  <2> QED
    BY <1>1, <2>2, <2>3, LoadsAll DEF Loads
<1> QED
  BY <1>3, <1>4, <1>5, <1>6

-----------------------------------------------------------------------------
(* The invariants of IndexIsCurrent. *)

(* The mishaps that the index does not get over, and those that the next full
   indexing makes up for. *)
Irreparable == {"lost", "removed", "outlived", "wholesale", "truncated", "hurried"}
Repairable == {"changed", "failed", "unlinked"}
Sane == mishaps \cap Irreparable = {}

(* The jobs of q bring v up to date: one of them is about it, or looks for
   files that are outdated. *)
Asks(q, v) == \E k \in DOMAIN q : q[k].kind # "full" /\ q[k].url = v
LooksAround(q) == \E k \in DOMAIN q : q[k].kind = "full"
Finds(q, v) == (LooksAround(q) \/ mishaps \cap Repairable # {}) /\ Outdated(v)

(* What will be brought up to date if the batch is given up, and by the jobs
   after it if it is done. *)
Pending == {v \in Urls : Asks(jobs, v) \/ Finds(jobs, v)}
Touched == batch.invalidations \cup batch.visits
Remaining == {v \in Urls : Asks(Tail(jobs), v) \/ (v \notin Touched /\ Finds(Tail(jobs), v))}

Clear(u, T) == Around(u, files) \cap T = {}
ClearBelow(u, T) == Reach(files[u].refs, files) \cap T = {}

(* An instance has a row of the file as it is, which searches find. *)
Fresh(i, row) == /\ files[i].ver # 0 /\ row.source.ver = files[i].ver
                 /\ row.type = "entry" /\ ~row.deleted

(* A job deletes a file that is not there, and updates one that is, unless
   there is a later job for it. *)
QueueInv ==
    \A k \in DOMAIN jobs :
        \/ jobs[k].kind = "full"
        \/ jobs[k].kind = "delete" /\ files[jobs[k].url].ver = 0
        \/ jobs[k].kind = "update" /\ files[jobs[k].url].ver # 0
        \/ \E l \in DOMAIN jobs : k < l /\ jobs[l].kind # "full" /\ jobs[l].url = jobs[k].url

(* What holds with a batch and without: the working index knows what refers to
   what, the index has what no pending change affects, and the working index
   serves no outdated contents of it. *)
LinkInv ==
    /\ \A u \in Urls : files[u].ver # 0 => Linked(u, files, working[u]) \/ u \in Pending
    /\ \A v \in Modules : files[v].ver # 0 => Linked(v, files, production[v]) \/ v \in Pending
    /\ \A i \in Instances : files[i].ver # 0 =>
          /\ working[i].source.ver = files[i].ver => Linked(i, files, working[i])
          /\ production[i].source.ver = files[i].ver => working[i].source.ver = files[i].ver

RowInv ==
    /\ \A u \in Urls : Clear(u, Pending) => Current(u, files, production[u])
    /\ \A i \in Instances : Fresh(i, production[i]) /\ ClearBelow(i, Pending)
                            => Current(i, files, production[i])

ServeInv == \A v \in Modules : Clear(v, Pending) => Sound(v, files, Serve(v))

(* A batch: the rows to visit are tombstones, or there are none yet, and what
   the loader has of their modules is as it is, unless there is a job for it. *)
VisitInv ==
    /\ \A v \in batch.visits :
          IF v \in batch.invalidations THEN working[v].deleted
          ELSE working[v].type = "none" /\ (files[v].ver # 0 \/ Asks(Tail(jobs), v))
    /\ \A v \in batch.visits \cap Modules : Served[v] = files[v] \/ Asks(Tail(jobs), v)

(* The row searches will find when the batch is done. *)
Upcoming(u) == IF u \in batch.invalidations THEN working[u] ELSE production[u]

(* ... and what will hold then. *)
NextLinkInv ==
    /\ \A u \in Urls \ batch.visits : files[u].ver # 0 =>
          \/ Linked(u, files, working[u]) \/ u \in Remaining
          \/ u \in batch.invalidations /\ "unlinked" \in mishaps /\ working[u].type = "error"
    /\ \A v \in Modules \ Touched : files[v].ver # 0 =>
          Linked(v, files, production[v]) \/ v \in Remaining

NextRowInv ==
    /\ \A u \in Urls \ batch.visits : Clear(u, Remaining) => Current(u, files, Upcoming(u))
    /\ \A i \in Instances \ batch.visits : Fresh(i, Upcoming(i)) /\ ClearBelow(i, Remaining)
                                           => Current(i, files, Upcoming(i))

NextServeInv ==
    /\ \A v \in Modules \ batch.visits : Clear(v, Remaining) => Sound(v, files, Serve(v))
    /\ \A v \in Modules : Clear(v, Remaining) => Sound(v, files, Served[v])

RestInv == QueueInv /\ LinkInv /\ RowInv /\ ServeInv
BatchInv == VisitInv /\ NextLinkInv /\ NextRowInv /\ NextServeInv
Inv == Sane => RestInv /\ (Running => BatchInv)

LEMMA InitInv == Init => Inv
<1> SUFFICES ASSUME Init PROVE Inv
  OBVIOUS
<1>0. Basic
  BY InitTypeInv DEF Basic
<1>1. /\ files \in [Urls -> Source]
      /\ \A u \in Urls : files[u] = None \/ files[u].ver = 1
      /\ \A u \in Urls : \A v \in files[u].refs : files[v].ver = 1
  BY FilesAssumption DEF Init, None
<1>2. /\ working = production /\ ~Running /\ jobs = <<>> /\ DOMAIN jobs = {}
      /\ \A u \in Urls : production[u] = IF files[u].ver = 0 THEN NoRow
                                          ELSE Entry(u, files[u], files[u].refs, files)
  BY DEF Init, Running
<1>3. ASSUME NEW u \in Urls PROVE Loads(files[u].refs, files)
  <2> DEFINE S == {v \in Modules : files[v].ver = 1}
  <2>1. files[u].refs \subseteq S /\ \A w \in S : files[w].refs \subseteq S
    BY <1>0, <1>1, BasicFacts DEF Urls
  <2>2. S \in SUBSET Modules /\ files[u].refs \in SUBSET Modules
    BY <1>0, BasicFacts
  <2> HIDE DEF S
  <2>3. Reach(files[u].refs, files) \subseteq S
    BY <2>1, <2>2, ReachLeast
  <2> QED
    BY <2>3 DEF S, Loads
<1>4. ASSUME NEW u \in Urls PROVE Current(u, files, production[u])
  BY <1>2, <1>3 DEF Current, NoRow
<1>5. ASSUME NEW u \in Urls, files[u].ver # 0
      PROVE  Linked(u, files, production[u]) /\ production[u].source = files[u]
             /\ production[u].type = "entry" /\ ~production[u].deleted
  <2>1. files[u].refs \subseteq Reach(files[u].refs, files)
    BY <1>1, AroundFacts
  <2>2. production[u] = Entry(u, files[u], files[u].refs, files)
    BY <1>2, <1>5
  <2> QED
    BY <2>1, <2>2 DEF Linked, Entry
<1>6. ASSUME NEW v \in Modules PROVE Serve(v) = files[v]
  <2>1. v \in Urls
    BY DEF Urls
  <2>2. CASE files[v].ver = 0
    BY <1>2, <2>1, <2>2 DEF Serve, NoRow
  <2>3. CASE files[v].ver # 0
    BY <1>2, <1>5, <2>1, <2>3 DEF Serve
  <2> QED
    BY <2>2, <2>3
<1>7. QueueInv
  BY <1>2 DEF QueueInv
<1>8. LinkInv
  BY <1>2, <1>5 DEF LinkInv, Urls
<1>9. RowInv
  BY <1>4 DEF RowInv, Urls
<1>10. ServeInv
  BY <1>6 DEF ServeInv, Sound
<1> QED
  BY <1>2, <1>7, <1>8, <1>9, <1>10 DEF Inv, RestInv

-----------------------------------------------------------------------------
(* A change reaches nothing from files whose rows are not among those that
   depend on what has changed. *)
LEMMA Spread ==
    ASSUME Basic, NEW I \in SUBSET Urls, NEW u \in Urls, u \notin I,
           \A x \in I, v \in Urls : x \in working[v].deps => v \in I,
           \A x \in Around(u, files) \ I : files[x].ver # 0 => Linked(x, files, working[x])
    PROVE  Around(u, files) \cap I = {}
<1> DEFINE R == Reach(files[u].refs, files)
           S == {x \in R : x \notin I}
<1>1. files \in [Urls -> Source]
  BY DEF Basic, TypeInv
<1>2. /\ R \in SUBSET Modules /\ files[u].refs \subseteq R /\ files[u].refs \in SUBSET Modules
      /\ \A v \in Around(u, files) : files[v].refs \subseteq R
      /\ Around(u, files) \in SUBSET Urls /\ Around(u, files) = {u} \cup R
  BY <1>1, AroundFacts DEF Around
<1>3. ASSUME NEW x \in Around(u, files), x \notin I PROVE files[x].refs \subseteq S
  <2>1. x \in Urls /\ files[x].refs \subseteq R
    BY <1>2
  <2>2. ASSUME NEW y \in files[x].refs PROVE y \notin I
    <3>1. files[x].ver # 0
      BY <2>1 DEF Basic, VersionInv
    <3>2. y = x \/ y \in working[x].deps
      BY <1>3, <3>1 DEF Linked
    <3> QED
      BY <1>3, <2>1, <3>2
  <2> QED
    BY <2>1, <2>2
<1>4. S \in SUBSET Modules /\ files[u].refs \subseteq S /\ \A w \in S : files[w].refs \subseteq S
  BY <1>2, <1>3
<1> HIDE DEF S
<1>5. Reach(files[u].refs, files) \subseteq S
  BY <1>2, <1>4, ReachLeast
<1> QED
  BY <1>2, <1>5 DEF S

(* The jobs there are when the first is done, and when one is published. *)
LEMMA QueueTail ==
    ASSUME NEW q \in Seq(Job), q # <<>>
    PROVE  /\ \A v : Asks(q, v) <=> (Head(q).kind # "full" /\ Head(q).url = v) \/ Asks(Tail(q), v)
           /\ LooksAround(q) <=> Head(q).kind = "full" \/ LooksAround(Tail(q))
<1>1. /\ DOMAIN Tail(q) = 1..(Len(q) - 1) /\ Len(q) \in Nat /\ Len(q) > 0
      /\ \A i \in 1..(Len(q) - 1) : Tail(q)[i] = q[i + 1]
      /\ Head(q) = q[1] /\ DOMAIN q = 1..Len(q)
  BY NotEmpty, TailFacts, LenProperties
<1>2. \A k \in 1..Len(q) : k = 1 \/ (k - 1 \in 1..(Len(q) - 1) /\ q[k] = Tail(q)[k - 1])
  BY <1>1
<1>3. \A k \in 1..(Len(q) - 1) : k + 1 \in 1..Len(q) /\ q[k + 1] = Tail(q)[k]
  BY <1>1
<1>4. 1 \in 1..Len(q)
  BY <1>1
<1> DEFINE t == Tail(q)
<1>5. /\ DOMAIN t = 1..(Len(q) - 1) /\ Head(q) = q[1] /\ DOMAIN q = 1..Len(q)
      /\ \A k \in 1..Len(q) : k = 1 \/ (k - 1 \in 1..(Len(q) - 1) /\ q[k] = t[k - 1])
      /\ \A k \in 1..(Len(q) - 1) : k + 1 \in 1..Len(q) /\ q[k + 1] = t[k]
  BY <1>1, <1>2, <1>3
<1> HIDE DEF t
<1>6. ASSUME NEW v PROVE Asks(q, v) <=> (q[1].kind # "full" /\ q[1].url = v) \/ Asks(t, v)
  <2>1. ASSUME NEW k \in DOMAIN q, q[k].kind # "full", q[k].url = v
        PROVE  (q[1].kind # "full" /\ q[1].url = v) \/ Asks(t, v)
    <3>1. CASE k = 1
      BY <2>1, <3>1
    <3>2. CASE k # 1
      <4>1. k - 1 \in DOMAIN t /\ q[k] = t[k - 1]
        BY <1>5, <3>2
      <4> QED
        BY <2>1, <4>1 DEF Asks
    <3> QED
      BY <3>1, <3>2
  <2>2. ASSUME NEW k \in DOMAIN t, t[k].kind # "full", t[k].url = v PROVE Asks(q, v)
    <3>1. k + 1 \in DOMAIN q /\ q[k + 1] = t[k]
      BY <1>5
    <3> QED
      BY <2>2, <3>1 DEF Asks
  <2>3. ASSUME q[1].kind # "full", q[1].url = v PROVE Asks(q, v)
    BY <1>4, <1>5, <2>3 DEF Asks
  <2> QED
    BY <2>1, <2>2, <2>3 DEF Asks
<1>7. LooksAround(q) <=> q[1].kind = "full" \/ LooksAround(t)
  <2>1. ASSUME NEW k \in DOMAIN q, q[k].kind = "full" PROVE q[1].kind = "full" \/ LooksAround(t)
    <3>1. CASE k = 1
      BY <2>1, <3>1
    <3>2. CASE k # 1
      <4>1. k - 1 \in DOMAIN t /\ q[k] = t[k - 1]
        BY <1>5, <3>2
      <4> QED
        BY <2>1, <4>1 DEF LooksAround
    <3> QED
      BY <3>1, <3>2
  <2>2. ASSUME NEW k \in DOMAIN t, t[k].kind = "full" PROVE LooksAround(q)
    <3>1. k + 1 \in DOMAIN q /\ q[k + 1] = t[k]
      BY <1>5
    <3> QED
      BY <2>2, <3>1 DEF LooksAround
  <2>3. ASSUME q[1].kind = "full" PROVE LooksAround(q)
    BY <1>4, <1>5, <2>3 DEF LooksAround
  <2> QED
    BY <2>1, <2>2, <2>3 DEF LooksAround
<1> QED
  BY <1>5, <1>6, <1>7 DEF t

LEMMA QueueAppend ==
    ASSUME NEW q \in Seq(Job), NEW e \in Job
    PROVE  /\ Append(q, e) # <<>> /\ Append(q, e) \in Seq(Job)
           /\ \A v : Asks(Append(q, e), v) <=> Asks(q, v) \/ (e.kind # "full" /\ e.url = v)
           /\ LooksAround(Append(q, e)) <=> LooksAround(q) \/ e.kind = "full"
           /\ q # <<>> =>
                 /\ \A v : Asks(Tail(Append(q, e)), v) <=>
                              Asks(Tail(q), v) \/ (e.kind # "full" /\ e.url = v)
                 /\ LooksAround(Tail(Append(q, e))) <=> LooksAround(Tail(q)) \/ e.kind = "full"
                 /\ Head(Append(q, e)) = Head(q)
<1> DEFINE a == Append(q, e)
<1>1. /\ a \in Seq(Job) /\ a # <<>> /\ Len(q) \in Nat /\ Len(a) = Len(q) + 1
      /\ DOMAIN a = 1..(Len(q) + 1) /\ DOMAIN q = 1..Len(q)
      /\ \A i \in 1..Len(q) : a[i] = q[i]
      /\ a[Len(q) + 1] = e
  BY AppendFacts
<1>2. \A k \in 1..(Len(q) + 1) : k \in 1..Len(q) \/ k = Len(q) + 1
  BY <1>1
<1>3. \A k \in 1..Len(q) : k \in 1..(Len(q) + 1)
  BY <1>1
<1>4. Len(q) + 1 \in 1..(Len(q) + 1)
  BY <1>1
<1> HIDE DEF a
<1>5. /\ \A v : Asks(a, v) <=> Asks(q, v) \/ (e.kind # "full" /\ e.url = v)
      /\ LooksAround(a) <=> LooksAround(q) \/ e.kind = "full"
  BY <1>1, <1>2, <1>3, <1>4 DEF Asks, LooksAround
<1>6. ASSUME q # <<>>
      PROVE  /\ \A v : Asks(Tail(a), v) <=> Asks(Tail(q), v) \/ (e.kind # "full" /\ e.url = v)
             /\ LooksAround(Tail(a)) <=> LooksAround(Tail(q)) \/ e.kind = "full"
             /\ Head(a) = Head(q)
  <2>1. /\ DOMAIN Tail(q) = 1..(Len(q) - 1) /\ Len(q) > 0
        /\ \A i \in 1..(Len(q) - 1) : Tail(q)[i] = q[i + 1]
        /\ Head(q) = q[1]
    BY <1>6, NotEmpty, TailFacts
  <2>2. /\ DOMAIN Tail(a) = 1..Len(q)
        /\ \A i \in 1..Len(q) : Tail(a)[i] = a[i + 1]
        /\ Head(a) = a[1]
    BY <1>1, NotEmpty, TailFacts
  <2>3. \A i \in 1..(Len(q) - 1) : i \in 1..Len(q) /\ i + 1 \in 1..Len(q)
    BY <1>1
  <2>4. \A i \in 1..(Len(q) - 1) : Tail(a)[i] = Tail(q)[i]
    BY <1>1, <2>1, <2>2, <2>3
  <2>5. Len(q) \in 1..Len(q) /\ 1 \in 1..Len(q) /\ Tail(a)[Len(q)] = e
    BY <1>1, <2>1, <2>2
  <2>6. \A i \in 1..Len(q) : i \in 1..(Len(q) - 1) \/ i = Len(q)
    <3>1. Len(q) \in Nat
      BY <1>1
    <3> QED
      BY <3>1
  <2>7. Head(a) = Head(q)
    BY <1>1, <2>1, <2>2, <2>5
  <2> QED
    BY <2>1, <2>2, <2>3, <2>4, <2>5, <2>6, <2>7 DEF Asks, LooksAround
<1> QED
  BY <1>1, <1>5, <1>6 DEF a

(* If the first job is not about a file any more, a later one is. *)
LEMMA FirstIsCurrent ==
    ASSUME Basic, QueueInv, jobs # <<>>, Head(jobs).kind # "full"
    PROVE  /\ Head(jobs).url \in Urls /\ Head(jobs).kind \in {"update", "delete"}
           /\ Head(jobs).kind = "delete" =>
                 files[Head(jobs).url].ver = 0 \/ Asks(Tail(jobs), Head(jobs).url)
           /\ Head(jobs).kind = "update" =>
                 files[Head(jobs).url].ver # 0 \/ Asks(Tail(jobs), Head(jobs).url)
<1>1. /\ DOMAIN Tail(jobs) = 1..(Len(jobs) - 1) /\ Len(jobs) \in Nat /\ Len(jobs) > 0
      /\ \A i \in 1..(Len(jobs) - 1) : Tail(jobs)[i] = jobs[i + 1]
      /\ Head(jobs) = jobs[1] /\ DOMAIN jobs = 1..Len(jobs) /\ Head(jobs) \in Job
  BY NotEmpty, TailFacts, LenProperties DEF Basic, TypeInv
<1>2. 1 \in DOMAIN jobs
  BY <1>1
<1>3. ASSUME NEW l \in DOMAIN jobs, 1 < l, jobs[l].kind # "full", jobs[l].url = Head(jobs).url
      PROVE  Asks(Tail(jobs), Head(jobs).url)
  <2>1. l - 1 \in DOMAIN Tail(jobs) /\ Tail(jobs)[l - 1] = jobs[l]
    BY <1>1, <1>3
  <2> QED
    BY <1>3, <2>1 DEF Asks
<1> QED
  BY <1>1, <1>2, <1>3 DEF QueueInv, Job

-----------------------------------------------------------------------------
(* A batch begins. *)

(* It will bring up to date all that is pending, unless a later job does. *)
LEMMA BeginPending ==
    ASSUME Basic, QueueInv, Sane', Incremental \/ FromScratch
    PROVE  /\ Sane /\ Pending' = Pending
           /\ Remaining' \subseteq Pending /\ Pending \subseteq Remaining' \cup Touched'
           /\ batch'.invalidations \in SUBSET Urls /\ batch'.visits \in SUBSET Urls
           /\ DOMAIN batch'.loaded = {}
           /\ \A u \in Urls : working'[u].deps = working[u].deps /\ working'[u].source = working[u].source
           /\ \A u \in batch'.invalidations : working'[u].type = "entry" /\ working'[u].deleted
           /\ \A u \in Urls \ batch'.invalidations : working'[u] = working[u]
           /\ \A u \in batch'.visits \ batch'.invalidations : working[u].type = "none" /\ files[u].ver # 0
           /\ \A u \in batch'.invalidations \ batch'.visits :
                 files[u].ver = 0 \/ (Asks(Tail(jobs), u) /\ u \in Remaining')
           /\ \/ \A x \in Touched', v \in Urls : x \in working[v].deps => v \in Touched'
              \/ /\ \A u \in Urls \ Touched' : files[u].ver = 0
                 /\ \A u \in Urls : working[u].type = "none"
<1> DEFINE head == Head(jobs)
           rest == Tail(jobs)
<1>1. /\ ~Running /\ jobs # <<>> /\ jobs \in Seq(Job)
      /\ UNCHANGED <<files, clock, second, jobs, production, meta, version, failures>>
  BY BeginEffect DEF Basic, TypeInv
<1>2. /\ \A v : Asks(jobs, v) <=> (head.kind # "full" /\ head.url = v) \/ Asks(rest, v)
      /\ LooksAround(jobs) <=> head.kind = "full" \/ LooksAround(rest)
      /\ head \in Job
  BY <1>1, QueueTail, NotEmpty
<1>3. \A v : Outdated(v)' <=> Outdated(v)
  BY <1>1 DEF Outdated, Dated
<1>4. /\ Pending' = {v \in Urls : Asks(jobs, v) \/
                        ((LooksAround(jobs) \/ mishaps' \cap Repairable # {}) /\ Outdated(v))}
      /\ Remaining' = {v \in Urls : Asks(rest, v) \/ (v \notin Touched' /\
                        (LooksAround(rest) \/ mishaps' \cap Repairable # {}) /\ Outdated(v))}
  BY <1>1, <1>3 DEF Pending, Remaining, Finds
<1>5. CASE Incremental
  <2> DEFINE I == Invalidate({head.url})
             V == IF head.kind = "delete" THEN I \ {head.url} ELSE I
  <2>1. head.kind # "full" /\ head.url \in Urls /\ mishaps' = mishaps
        /\ Begin(I, V) /\ working' = WithTombstones(I)
    BY <1>2, <1>5 DEF Incremental, Job
  <2>2. I \in SUBSET Urls /\ head.url \in I /\ V \in SUBSET Urls
        /\ \A u \in I, v \in Urls : u \in working[v].deps => v \in I
    BY <2>1, InvalidateFacts
  <2>3. batch'.invalidations = I /\ batch'.visits = V /\ DOMAIN batch'.loaded = {} /\ Touched' = I
    <3>1. V \subseteq I
      OBVIOUS
    <3> HIDE DEF I, V
    <3>2. batch'.invalidations = I /\ batch'.visits = V /\ DOMAIN batch'.loaded = {}
      BY <2>1, <2>2, BeginFacts
    <3> QED
      BY <3>1, <3>2 DEF Touched
  <2>4. /\ \A u \in Urls : working'[u].deps = working[u].deps /\ working'[u].source = working[u].source
        /\ \A u \in I : working'[u].type = "entry" /\ working'[u].deleted
        /\ \A u \in Urls \ I : working'[u] = working[u]
    BY <2>1, <2>2, TombstoneFacts
  <2>5. Sane /\ Pending' = Pending
    BY <1>4, <2>1 DEF Sane, Pending, Finds
  <2>6. Remaining' \subseteq Pending /\ Pending \subseteq Remaining' \cup Touched'
    BY <1>2, <1>4, <2>1, <2>2, <2>3, <2>5
  <2>7. ASSUME NEW u \in I \ V PROVE files[u].ver = 0 \/ (Asks(rest, u) /\ u \in Remaining')
    <3>1. head.kind = "delete" /\ u = head.url
      BY <2>7
    <3>2. files[u].ver = 0 \/ Asks(rest, u)
      BY <1>1, <2>1, <3>1, FirstIsCurrent
    <3> QED
      BY <1>4, <2>1, <3>1, <3>2
  <2>8. V \ I = {}
    OBVIOUS
  <2> QED
    BY <2>2, <2>3, <2>4, <2>5, <2>6, <2>7, <2>8
<1>6. CASE FromScratch
  <2> DEFINE P == {u \in Urls : files[u].ver # 0}
             O == {u \in P : Outdated(u)}
  <2>1. /\ head.kind = "full"
        /\ \/ /\ O = P /\ Begin({}, O) /\ working' = working
              /\ mishaps' = mishaps \cup IF \E u \in Urls : working[u].type # "none" THEN {"wholesale"} ELSE {}
           \/ /\ Begin(Invalidate(O), Invalidate(O)) /\ working' = WithTombstones(Invalidate(O))
              /\ mishaps' = mishaps \ {"changed", "failed", "unlinked"}
    BY <1>6 DEF FromScratch
  <2>2. Sane
    BY <2>1 DEF Sane, Irreparable
  <2>3. Pending' = Pending /\ \A v \in Pending : Asks(rest, v) \/ Outdated(v)
    BY <1>2, <1>4, <2>1 DEF Pending, Finds
  <2>4. \A v \in Urls : Outdated(v) => v \in O
    BY DEF Outdated, Dated
  <2>5. Remaining' \subseteq Pending
    BY <1>2, <1>4, <2>1, <2>3
  <2> HIDE DEF head, rest
  <2>6. CASE /\ O = P /\ Begin({}, O) /\ working' = working
             /\ mishaps' = mishaps \cup IF \E u \in Urls : working[u].type # "none" THEN {"wholesale"} ELSE {}
    <3>1. batch'.invalidations = {} /\ batch'.visits = O /\ DOMAIN batch'.loaded = {} /\ Touched' = O
          /\ O \in SUBSET Urls
      BY <2>6, BeginFacts, ZenonT(60) DEF Touched
    <3>2. \A u \in Urls : working[u].type = "none"
      BY <2>6 DEF Sane, Irreparable
    <3>3. Pending \subseteq Remaining' \cup Touched'
      BY <1>4, <2>3, <2>4, <3>1 DEF Pending
    <3>4. \A u \in O : files[u].ver # 0
      OBVIOUS
    <3>5. \A u \in Urls \ Touched' : files[u].ver = 0
      BY <2>6, <3>1
    <3> HIDE DEF O
    <3> QED
      BY <2>2, <2>3, <2>5, <2>6, <3>1, <3>2, <3>3, <3>4, <3>5
  <2>7. CASE /\ Begin(Invalidate(O), Invalidate(O)) /\ working' = WithTombstones(Invalidate(O))
    <3> DEFINE I == Invalidate(O)
    <3>1. O \in SUBSET Urls
      OBVIOUS
    <3>2. I \in SUBSET Urls /\ O \subseteq I
          /\ \A u \in I, v \in Urls : u \in working[v].deps => v \in I
      BY <3>1, InvalidateFacts
    <3> HIDE DEF O
    <3> HIDE DEF I
    <3>a. Begin(I, I) /\ working' = WithTombstones(I)
      BY <2>7 DEF I
    <3>3. batch'.invalidations = I /\ batch'.visits = I /\ DOMAIN batch'.loaded = {} /\ Touched' = I
      BY <3>a, <3>2, BeginFacts DEF Touched
    <3>4. /\ \A u \in Urls : working'[u].deps = working[u].deps /\ working'[u].source = working[u].source
          /\ \A u \in I : working'[u].type = "entry" /\ working'[u].deleted
          /\ \A u \in Urls \ I : working'[u] = working[u]
      BY <3>a, <3>2, TombstoneFacts
    <3>5. Pending \subseteq Remaining' \cup Touched'
      BY <1>4, <2>3, <2>4, <3>2, <3>3 DEF Pending
    <3> QED
      BY <2>2, <2>3, <2>5, <3>2, <3>3, <3>4, <3>5
  <2> QED
    BY <2>1, <2>6, <2>7
<1> QED
  BY <1>5, <1>6

(* Where it leaves a file out, and no later job is about the file or what that
   reaches, nothing is pending there. *)
LEMMA BeginClear ==
    ASSUME Basic, QueueInv, LinkInv, Sane', Incremental \/ FromScratch,
           NEW u \in Urls \ Touched',
           \A x \in Around(u, files) \ {u} : x \notin Remaining',
           files[u].ver = 0 \/ Linked(u, files, working[u]) \/ u \notin Remaining'
    PROVE  (Around(u, files) \ {u}) \cap Pending = {} /\ (u \in Pending => u \in Remaining')
<1>1. /\ Pending \subseteq Remaining' \cup Touched' /\ Touched' \in SUBSET Urls
      /\ \/ \A x \in Touched', v \in Urls : x \in working[v].deps => v \in Touched'
         \/ \A w \in Urls \ Touched' : files[w].ver = 0
  BY BeginPending DEF Touched
<1>2. files \in [Urls -> Source]
  BY DEF Basic, TypeInv
<1>3. CASE \A x \in Touched', v \in Urls : x \in working[v].deps => v \in Touched'
  <2>1. ASSUME NEW x \in Around(u, files) \ Touched', files[x].ver # 0
        PROVE  Linked(x, files, working[x])
    <3>1. x \in Urls
      BY <1>2, AroundFacts
    <3>2. CASE x = u
      BY <1>1, <2>1, <3>1, <3>2 DEF LinkInv
    <3>3. CASE x # u
      BY <1>1, <2>1, <3>1, <3>3 DEF LinkInv
    <3> QED
      BY <3>2, <3>3
  <2> DEFINE T == Touched'
  <2> HIDE DEF T
  <2>2. Around(u, files) \cap T = {}
    <3>1. T \in SUBSET Urls /\ u \in Urls /\ u \notin T
      BY <1>1 DEF T
    <3>2. \A x \in T, v \in Urls : x \in working[v].deps => v \in T
      BY <1>3 DEF T
    <3>3. \A x \in Around(u, files) \ T : files[x].ver # 0 => Linked(x, files, working[x])
      BY <2>1 DEF T
    <3> QED
      BY <3>1, <3>2, <3>3, Spread
  <2> QED
    BY <1>1, <2>2 DEF T
<1>4. CASE \A w \in Urls \ Touched' : files[w].ver = 0
  <2>1. files[u].refs = {}
    BY <1>4 DEF Basic, VersionInv
  <2>2. Around(u, files) = {u}
    BY <1>2, <2>1, AroundFacts
  <2> QED
    BY <1>1, <2>2
<1> QED
  BY <1>1, <1>3, <1>4

LEMMA BeginInv ==
    ASSUME Basic, Inv, Sane', Incremental \/ FromScratch
    PROVE  RestInv' /\ BatchInv'
<1>1. /\ Sane /\ Pending' = Pending
      /\ Remaining' \subseteq Pending /\ Pending \subseteq Remaining' \cup Touched'
      /\ batch'.invalidations \in SUBSET Urls /\ batch'.visits \in SUBSET Urls
      /\ DOMAIN batch'.loaded = {}
      /\ \A u \in Urls : working'[u].deps = working[u].deps /\ working'[u].source = working[u].source
      /\ \A u \in batch'.invalidations : working'[u].type = "entry" /\ working'[u].deleted
      /\ \A u \in Urls \ batch'.invalidations : working'[u] = working[u]
      /\ \A u \in batch'.visits \ batch'.invalidations : working[u].type = "none" /\ files[u].ver # 0
      /\ \A u \in batch'.invalidations \ batch'.visits :
            files[u].ver = 0 \/ (Asks(Tail(jobs), u) /\ u \in Remaining')
  <2>1. QueueInv
    <3>1. Sane
      BY BeginEffect DEF Sane, Irreparable, FromScratch, Incremental
    <3> QED
      BY <3>1 DEF Inv, RestInv
  <2> QED
    BY <2>1, BeginPending
<1>2. QueueInv /\ LinkInv /\ RowInv /\ ServeInv
  BY <1>1 DEF Inv, RestInv
<1>3. files' = files /\ jobs' = jobs /\ production' = production
  BY BeginEffect
<1>4. files \in [Urls -> Source] /\ Modules \subseteq Urls /\ Instances \subseteq Urls
      /\ Touched' = batch'.invalidations \cup batch'.visits
  BY DEF Basic, TypeInv, Urls, Touched
<1>6. ASSUME NEW u \in Urls PROVE /\ Around(u, files) \in SUBSET Urls /\ u \in Around(u, files)
                                  /\ Around(u, files) = {u} \cup Reach(files[u].refs, files)
                                  /\ Linked(u, files, working'[u]) <=> Linked(u, files, working[u])
  BY <1>1, <1>4, AroundFacts DEF Around, Linked
<1>7. \A v \in Modules \cap batch'.invalidations : Serve(v)' = files[v]
  BY <1>1, <1>3, <1>4 DEF Serve
<1>8. \A v \in batch'.visits \cap Modules : Serve(v)' = files[v]
  BY <1>1, <1>3, <1>4 DEF Serve
<1>9. \A v \in Modules \ batch'.invalidations : Serve(v)' = Serve(v)
  BY <1>1, <1>3, <1>4 DEF Serve
<1>10. \A v \in Modules : Served'[v] = Serve(v)'
  BY <1>1 DEF Served
<1>11. ASSUME NEW u \in Urls \ Touched', Around(u, files) \cap Remaining' = {}
       PROVE  Around(u, files) \cap Pending = {}
  <2>1. (Around(u, files) \ {u}) \cap Pending = {} /\ (u \in Pending => u \in Remaining')
    BY <1>2, <1>6, <1>11, BeginClear
  <2> QED
    BY <1>6, <1>11, <2>1
<1>12. QueueInv'
  BY <1>2, <1>3 DEF QueueInv
<1>13. LinkInv'
  BY <1>1, <1>2, <1>3, <1>4, <1>6 DEF LinkInv
<1>14. RowInv'
  BY <1>1, <1>2, <1>3 DEF RowInv, Clear, ClearBelow, Fresh
<1>15. ServeInv'
  <2> SUFFICES ASSUME NEW v \in Modules, Around(v, files) \cap Pending = {}
               PROVE  Sound(v, files, Serve(v)')
    BY <1>1, <1>3 DEF ServeInv, Clear
  <2>1. CASE v \in batch'.invalidations
    BY <1>7, <2>1 DEF Sound
  <2>2. CASE v \notin batch'.invalidations
    BY <1>2, <1>9, <2>2 DEF ServeInv, Clear
  <2> QED
    BY <2>1, <2>2
<1>16. VisitInv'
  <2>1. ASSUME NEW v \in batch'.visits
        PROVE  IF v \in batch'.invalidations THEN working'[v].deleted
               ELSE working'[v].type = "none" /\ (files'[v].ver # 0 \/ Asks(Tail(jobs), v)')
    BY <1>1, <1>3
  <2>2. \A v \in batch'.visits \cap Modules : Served'[v] = files'[v]
    BY <1>3, <1>8, <1>10
  <2> QED
    BY <2>1, <2>2 DEF VisitInv
<1>17. NextLinkInv'
  <2>1. ASSUME NEW u \in Urls \ batch'.visits, files[u].ver # 0
        PROVE  Linked(u, files, working'[u]) \/ u \in Remaining'
    <3>1. CASE u \in batch'.invalidations
      BY <1>1, <2>1, <3>1
    <3>2. CASE u \notin batch'.invalidations
      BY <1>1, <1>2, <1>4, <1>6, <2>1, <3>2 DEF LinkInv
    <3> QED
      BY <3>1, <3>2
  <2>2. ASSUME NEW v \in Modules \ Touched', files[v].ver # 0
        PROVE  Linked(v, files, production[v]) \/ v \in Remaining'
    BY <1>1, <1>2, <2>2 DEF LinkInv
  <2> QED
    BY <1>3, <2>1, <2>2 DEF NextLinkInv
<1>18. NextRowInv'
  <2>1. ASSUME NEW u \in Urls \ batch'.visits, Around(u, files) \cap Remaining' = {}
        PROVE  Current(u, files, Upcoming(u)')
    <3>1. CASE u \in batch'.invalidations
      <4>1. files[u].ver = 0 /\ Upcoming(u)' = working'[u] /\ working'[u].deleted
        BY <1>1, <1>6, <2>1, <3>1 DEF Upcoming
      <4> QED
        BY <4>1 DEF Current
    <3>2. CASE u \notin batch'.invalidations
      <4>1. Upcoming(u)' = production[u]
        BY <1>3, <3>2 DEF Upcoming
      <4> QED
        BY <1>2, <1>4, <1>11, <2>1, <3>2, <4>1 DEF RowInv, Clear
    <3> QED
      BY <3>1, <3>2
  <2>2. ASSUME NEW i \in Instances \ batch'.visits, Fresh(i, Upcoming(i))',
               Reach(files[i].refs, files) \cap Remaining' = {}
        PROVE  Current(i, files, Upcoming(i)')
    <3>1. i \notin batch'.invalidations
      BY <1>1, <2>2 DEF Fresh, Upcoming
    <3>2. Upcoming(i)' = production[i] /\ Fresh(i, production[i]) /\ i \in Urls \ Touched'
      BY <1>3, <1>4, <2>2, <3>1 DEF Fresh, Upcoming
    <3>3. Linked(i, files, working[i])
      BY <1>2, <3>2 DEF LinkInv, Fresh
    <3>4. (Around(i, files) \ {i}) \cap Pending = {}
      BY <1>2, <1>6, <2>2, <3>2, <3>3, BeginClear
    <3>5. Reach(files[i].refs, files) \subseteq Modules /\ i \notin Modules
      BY <1>4, AroundFacts, UrlsAssumption
    <3>6. ClearBelow(i, Pending)
      BY <1>6, <3>2, <3>4, <3>5 DEF ClearBelow
    <3> QED
      BY <1>2, <3>2, <3>6 DEF RowInv
  <2> QED
    BY <1>3, <2>1, <2>2 DEF NextRowInv, Clear, ClearBelow
<1>19. NextServeInv'
  <2>1. ASSUME NEW v \in Modules \ batch'.visits, Around(v, files) \cap Remaining' = {}
        PROVE  Sound(v, files, Serve(v)')
    <3>1. CASE v \in batch'.invalidations
      BY <1>4, <1>7, <2>1, <3>1 DEF Sound
    <3>2. CASE v \notin batch'.invalidations
      <4>1. Around(v, files) \cap Pending = {}
        BY <1>4, <1>11, <2>1, <3>2
      <4> QED
        BY <1>2, <1>9, <3>2, <4>1 DEF ServeInv, Clear
    <3> QED
      BY <3>1, <3>2
  <2>2. ASSUME NEW v \in Modules, Around(v, files) \cap Remaining' = {}
        PROVE  Sound(v, files, Served'[v])
    <3>1. CASE v \in batch'.visits
      BY <1>8, <1>10, <3>1 DEF Sound
    <3>2. CASE v \notin batch'.visits
      BY <1>10, <2>1, <2>2, <3>2
    <3> QED
      BY <3>1, <3>2
  <2> QED
    BY <1>3, <2>1, <2>2 DEF NextServeInv, Clear
<1> QED
  BY <1>12, <1>13, <1>14, <1>15, <1>16, <1>17, <1>18, <1>19
     DEF RestInv, BatchInv

-----------------------------------------------------------------------------
(* A file is visited. *)

(* The row depends on what the file refers to, unless the loader has an earlier
   version of it. *)
LEMMA RowIsLinked ==
    ASSUME Basic, Running, VisitInv, NEW u \in batch.visits
    PROVE  /\ u \in Urls /\ StartFrom(u) \in SUBSET Modules
           /\ u \in Modules => u \in Reach(StartFrom(u), Served)
           /\ u \in Instances => files[u].refs \subseteq StartFrom(u)
           /\ \/ files[u].refs \subseteq Reach(StartFrom(u), Served)
              \/ u \in Modules /\ Asks(Tail(jobs), u)
<1>1. u \in Urls /\ StartFrom(u) \in SUBSET Modules /\ \A v \in Modules : Served[v].refs \subseteq Modules
  BY BatchFacts, StartFromType, ServedFacts
<1>2. /\ StartFrom(u) \subseteq Reach(StartFrom(u), Served)
      /\ \A w \in Reach(StartFrom(u), Served) : Served[w].refs \subseteq Reach(StartFrom(u), Served)
  BY <1>1, ReachClosed
<1> QED
  BY <1>1, <1>2, UrlsAssumption DEF StartFrom, VisitInv, Urls

(* It is what it should be, if no later job is about a module it is made from. *)
LEMMA RowIsRight ==
    ASSUME Basic, Running, VisitInv, NextServeInv, NEW u \in batch.visits, files[u].ver # 0,
           \A v \in Around(u, files) \cap Modules : v \notin Remaining
    PROVE  /\ Loads(StartFrom(u), Served) =>
                 Current(u, files, Entry(u, files[u], StartFrom(u), Served))
           /\ ~Loads(StartFrom(u), Served) =>
                 ~Loads(files[u].refs, files) /\ (u \in Modules => ~Loads({u}, files))
           /\ Reach(StartFrom(u), Served) \subseteq Around(u, files)
<1>1. files \in [Urls -> Source] /\ u \in Urls /\ Modules \subseteq Urls
      /\ \A v \in Modules : Served[v] \in Source
  BY BatchFacts, ServedFacts DEF Basic, TypeInv, Urls
<1>2. ASSUME NEW v \in Around(u, files) \cap Modules PROVE Sound(v, files, Served[v])
  <2>1. Around(v, files) \subseteq Around(u, files) \cap Modules
    <3>1. Around(v, files) \subseteq Around(u, files)
      BY <1>1, AroundFacts
    <3>2. Around(v, files) \subseteq Modules
      BY <1>1, AroundFacts DEF Around
    <3> QED
      BY <3>1, <3>2
  <2> QED
    BY <2>1 DEF NextServeInv, Clear
<1>3. u \in Modules => Served[u] = files[u]
  <2>1. u \in Around(u, files)
    BY <1>1, AroundFacts
  <2> QED
    BY <1>1, <2>1 DEF VisitInv, Remaining
<1> DEFINE refs == IF u \in Modules THEN {u} ELSE files[u].refs
           c == Served
<1>4. StartFrom(u) = refs
  BY DEF StartFrom
<1>a. /\ \A v \in Modules : c[v] \in Source
      /\ \A v \in Around(u, files) \cap Modules : Sound(v, files, c[v])
      /\ u \in Modules => c[u] = files[u]
  BY <1>1, <1>2, <1>3
<1> HIDE DEF c
<1>5. /\ Reach(refs, c) \subseteq Around(u, files)
      /\ Loads(refs, c) => /\ Loads(files[u].refs, files)
                           /\ Entry(u, files[u], refs, c) = Entry(u, files[u], files[u].refs, files)
      /\ ~Loads(refs, c) => ~Loads(files[u].refs, files)
  BY <1>1, <1>a, VisitIsRight, ZenonT(60)
<1>6. ASSUME u \in Modules, ~Loads(files[u].refs, files) PROVE ~Loads({u}, files)
  <2>1. Reach({u}, files) = {u} \cup Reach(files[u].refs, files)
    BY <1>1, <1>6, ReachItself DEF Source
  <2> QED
    BY <1>6, <2>1 DEF Loads
<1> QED
  BY <1>4, <1>5, <1>6 DEF c, Current

(* The row a visit writes. *)
LEMMA VisitRow ==
    ASSUME Basic, Running, VisitInv, NextServeInv, NEW u \in batch.visits, files[u].ver # 0,
           VisitEntry(u) \/ VisitError(u)
    PROVE  \E row \in Row :
              /\ UpdateEntry(u, row) /\ mishaps' \in {mishaps, mishaps \cup {"unlinked"}}
              /\ row.type = "entry" => row.source = files[u] /\ ~row.deleted
              /\ row.type \in {"entry", "error"}
              /\ row.type = "error" => production[u].deps \subseteq row.deps
              /\ \/ Linked(u, files, row) \/ (u \in Modules /\ Asks(Tail(jobs), u))
                 \/ u \in Modules /\ "unlinked" \in mishaps' /\ row.type = "error"
              /\ production[u].source.ver = files[u].ver => row.source.ver = files[u].ver
              /\ (\A v \in Around(u, files) \cap Modules : v \notin Remaining) =>
                    /\ Current(u, files, row)
                    /\ u \in Modules /\ row.type = "error" => ~Loads({u}, files)
                    /\ row.deps \subseteq production[u].deps \cup Around(u, files)
<1>1. /\ u \in Urls /\ StartFrom(u) \in SUBSET Modules
      /\ u \in Modules => u \in Reach(StartFrom(u), Served)
      /\ u \in Instances => files[u].refs \subseteq StartFrom(u)
      /\ \/ files[u].refs \subseteq Reach(StartFrom(u), Served)
         \/ u \in Modules /\ Asks(Tail(jobs), u)
  BY RowIsLinked
<1>2. production[u] \in Row /\ production[u].deps \in SUBSET Modules
      /\ files[u] \in Source
      /\ Reach(StartFrom(u), Served) \subseteq Modules
  BY <1>1, BasicFacts, ServedFacts, ReachClosed
<1>3. CASE VisitEntry(u)
  <2> DEFINE row == Entry(u, files[u], StartFrom(u), Served)
  <2>1. row \in Row
    BY <1>1, <1>2, ServedFacts, EntryType
  <2>2. Loads(StartFrom(u), Served) /\ UpdateEntry(u, row) /\ mishaps' = mishaps
    BY <1>3 DEF VisitEntry
  <2>3. row.type = "entry" /\ ~row.deleted /\ row.source = files[u]
        /\ row.deps = Reach(StartFrom(u), Served) \ {u}
    BY DEF Entry
  <2>4. (\A v \in Around(u, files) \cap Modules : v \notin Remaining) =>
            Current(u, files, row) /\ row.deps \subseteq Around(u, files)
    BY <2>2, <2>3, RowIsRight
  <2>5. Linked(u, files, row) \/ (u \in Modules /\ Asks(Tail(jobs), u))
    BY <1>1, <2>3 DEF Linked
  <2> HIDE DEF row
  <2> QED
    BY <2>1, <2>2, <2>3, <2>4, <2>5
<1>4. CASE VisitError(u)
  <2>1. PICK deps \in ErrorDeps(u) :
          /\ UpdateEntry(u, ErrorEntry(u, deps))
          /\ mishaps' = mishaps \cup
                IF u \in Modules /\ ~(Reach(StartFrom(u), Served) \ {u} \subseteq
                                        production[u].deps \cup deps)
                THEN {"unlinked"} ELSE {}
    BY <1>4 DEF VisitError
  <2> DEFINE row == ErrorEntry(u, deps)
  <2>2. ~Loads(StartFrom(u), Served)
    BY <1>4 DEF VisitError
  <2>3. deps \in SUBSET Modules /\ (u \in Instances => files[u].refs \subseteq deps)
    BY <1>2, <2>1, BasicFacts, <1>1 DEF ErrorDeps
  <2>4. row \in Row /\ row.type = "error" /\ row.deps = production[u].deps \cup deps
        /\ row.source = production[u].source
    BY <1>2, <2>3 DEF ErrorEntry, Row
  <2>5. mishaps' \in {mishaps, mishaps \cup {"unlinked"}}
    BY <2>1
  <2>6. \/ Linked(u, files, row) \/ (u \in Modules /\ Asks(Tail(jobs), u))
        \/ u \in Modules /\ "unlinked" \in mishaps' /\ row.type = "error"
    <3>1. CASE u \in Instances
      BY <2>3, <2>4, <3>1 DEF Linked
    <3>2. CASE u \in Modules /\ Reach(StartFrom(u), Served) \ {u} \subseteq production[u].deps \cup deps
      BY <1>1, <2>4, <3>2 DEF Linked
    <3>3. CASE u \in Modules /\ ~(Reach(StartFrom(u), Served) \ {u} \subseteq production[u].deps \cup deps)
      BY <2>1, <2>4, <3>3
    <3> QED
      BY <1>1, <3>1, <3>2, <3>3 DEF Urls
  <2>7. (\A v \in Around(u, files) \cap Modules : v \notin Remaining) =>
                    /\ Current(u, files, row)
                    /\ u \in Modules /\ row.type = "error" => ~Loads({u}, files)
                    /\ row.deps \subseteq production[u].deps \cup Around(u, files)
    <3>1. deps \subseteq files[u].refs \cup Reach(StartFrom(u), Served)
      BY <2>1 DEF ErrorDeps
    <3>2. files[u].refs \subseteq Around(u, files)
      BY <1>1, AroundFacts DEF Around, Basic, TypeInv
    <3> QED
      BY <2>2, <2>4, <3>1, <3>2, RowIsRight DEF Current
  <2> HIDE DEF row
  <2>8. UpdateEntry(u, row)
    BY <2>1 DEF row
  <2> QED
    BY <2>4, <2>5, <2>6, <2>7, <2>8
<1> QED
  BY <1>3, <1>4

LEMMA VisitMissingInv ==
    ASSUME Basic, Running, Sane, RestInv, BatchInv, NEW u \in batch.visits, files[u].ver = 0,
           UNCHANGED <<files, jobs, production, working, mishaps>>,
           batch' = [batch EXCEPT !.visits = @ \ {u}]
    PROVE  RestInv' /\ BatchInv'
<1>1. /\ batch'.visits = batch.visits \ {u} /\ batch'.invalidations = batch.invalidations
      /\ batch'.loaded = batch.loaded /\ u \in Urls
  BY BatchFacts
<1>2. Pending' = Pending /\ Remaining' = Remaining
  <2>1. ~Outdated(u)
    BY DEF Outdated, Dated
  <2> QED
    BY <1>1, <2>1 DEF Pending, Remaining, Finds, Outdated, Dated, Touched
<1>3. RestInv'
  BY <1>2 DEF RestInv, QueueInv, LinkInv, RowInv, ServeInv, Clear, ClearBelow,
         Fresh, Serve
<1>4. (\A v \in Modules : Serve(v)' = Serve(v)) /\ Served' = Served
  BY <1>1 DEF Serve, Served
<1>5. VisitInv'
  BY <1>1, <1>4 DEF BatchInv, VisitInv
<1>6. NextLinkInv'
  BY <1>1, <1>2 DEF BatchInv, NextLinkInv, Touched
<1>7. NextRowInv'
  <2>1. ASSUME Clear(u, Remaining) PROVE Current(u, files, Upcoming(u))
    <3>1. u \notin Remaining
      BY <2>1 DEF Clear, Around
    <3>2. CASE u \in batch.invalidations
      BY <3>2 DEF BatchInv, VisitInv, Upcoming, Current
    <3>3. CASE u \notin batch.invalidations
      BY <1>1, <3>1, <3>3 DEF BatchInv, VisitInv, Remaining
    <3> QED
      BY <3>2, <3>3
  <2>2. \A v \in Urls : Upcoming(v)' = Upcoming(v)
    BY <1>1 DEF Upcoming
  <2>3. \A i \in Instances : ~Fresh(i, Upcoming(i)) \/ i # u
    BY DEF Fresh
  <2>4. Instances \subseteq Urls
    BY DEF Urls
  <2> QED
    BY <1>1, <1>2, <2>1, <2>2, <2>3, <2>4
       DEF BatchInv, NextRowInv, Clear, ClearBelow, Fresh
<1>8. NextServeInv'
  <2>1. ASSUME u \in Modules PROVE Serve(u) = files[u]
    BY <1>1 DEF BatchInv, VisitInv, Serve
  <2> QED
    BY <1>1, <1>2, <1>4, <2>1 DEF BatchInv, NextServeInv, Clear, Sound
<1> QED
  BY <1>3, <1>5, <1>6, <1>7, <1>8 DEF BatchInv

LEMMA VisitRowInv ==
    ASSUME Basic, Running, Sane, RestInv, BatchInv, NEW u \in batch.visits, files[u].ver # 0,
           VisitEntry(u) \/ VisitError(u), UNCHANGED <<files, jobs, production>>
    PROVE  RestInv' /\ BatchInv'
<1>1. u \in Urls /\ Modules \subseteq Urls /\ Instances \subseteq Urls
      /\ files \in [Urls -> Source] /\ u \in Around(u, files)
      /\ Around(u, files) = {u} \cup Reach(files[u].refs, files)
  BY BatchFacts, AroundFacts DEF Basic, TypeInv, Urls, Around
<1>2. PICK row \in Row :
        /\ UpdateEntry(u, row) /\ mishaps' \in {mishaps, mishaps \cup {"unlinked"}}
        /\ row.type = "entry" => row.source = files[u] /\ ~row.deleted
        /\ row.type \in {"entry", "error"}
        /\ \/ Linked(u, files, row) \/ (u \in Modules /\ Asks(Tail(jobs), u))
           \/ u \in Modules /\ "unlinked" \in mishaps' /\ row.type = "error"
        /\ row.type = "error" => production[u].deps \subseteq row.deps
        /\ production[u].source.ver = files[u].ver => row.source.ver = files[u].ver
        /\ (\A v \in Around(u, files) \cap Modules : v \notin Remaining) =>
              /\ Current(u, files, row)
              /\ u \in Modules /\ row.type = "error" => ~Loads({u}, files)
  BY VisitRow DEF BatchInv
<1>3. /\ working' \in [Urls -> Row] /\ working'[u] = row
      /\ \A v \in Urls \ {u} : working'[v] = working[v]
      /\ batch'.invalidations = batch.invalidations \cup {u}
      /\ batch'.visits = batch.visits \ {u}
      /\ DOMAIN batch'.loaded = DOMAIN batch.loaded \cup Reach(StartFrom(u), Served)
      /\ \A v \in DOMAIN batch'.loaded : batch'.loaded[v] = Served[v]
  BY <1>2, UpdateFacts
<1>4. Touched' = Touched /\ \A v : Outdated(v)' <=> Outdated(v)
  BY <1>3 DEF Touched, Outdated, Dated
<1>5. Pending \subseteq Pending' /\ Remaining \subseteq Remaining'
  BY <1>2, <1>4 DEF Pending, Remaining, Finds
<1>6. Remaining \subseteq Pending
  <2>1. jobs \in Seq(Job) /\ jobs # <<>>
    BY BatchFacts
  <2> QED
    BY <2>1, QueueTail DEF Pending, Remaining, Finds
<1>7. Asks(Tail(jobs), u) => u \in Remaining
  BY <1>1 DEF Remaining
<1>8. \A v \in Modules \ {u} : Serve(v)' = Serve(v)
  BY <1>1, <1>3 DEF Serve
<1>9. \A v \in Modules : Served'[v] = Served[v]
  <2> SUFFICES ASSUME NEW v \in Modules PROVE Served'[v] = Served[v]
    OBVIOUS
  <2>1. CASE v \in DOMAIN batch'.loaded
    BY <1>3, <2>1 DEF Served
  <2>2. CASE v \notin DOMAIN batch'.loaded
    <3>1. v # u /\ v \notin DOMAIN batch.loaded
      BY <1>3, <2>2, RowIsLinked DEF BatchInv
    <3> QED
      BY <1>8, <2>2, <3>1 DEF Served
  <2> QED
    BY <2>1, <2>2
<1>10. ASSUME \A v \in Around(u, files) \cap Modules : v \notin Remaining'
       PROVE  Current(u, files, row) /\ (u \in Modules => Sound(u, files, Serve(u)'))
  <2>1. Current(u, files, row) /\ (u \in Modules /\ row.type = "error" => ~Loads({u}, files))
    BY <1>2, <1>5, <1>10
  <2>2. ASSUME u \in Modules PROVE Sound(u, files, Serve(u)')
    BY <1>2, <1>3, <2>1, <2>2 DEF Serve, Sound
  <2> QED
    BY <2>1, <2>2
<1>11. \A v \in Urls : Upcoming(v)' = IF v = u THEN row ELSE Upcoming(v)
  BY <1>3 DEF Upcoming
<1>12. LinkInv'
  <2>1. ASSUME NEW v \in Urls, files[v].ver # 0
        PROVE  Linked(v, files, working'[v]) \/ v \in Pending'
    <3>1. CASE v # u
      BY <1>3, <1>5, <2>1, <3>1 DEF RestInv, LinkInv
    <3>2. CASE v = u /\ Asks(Tail(jobs), u)
      BY <1>5, <1>6, <1>7, <3>2
    <3>3. CASE v = u /\ Linked(u, files, row)
      BY <1>3, <3>3
    <3>4. CASE /\ v = u /\ u \in Modules /\ "unlinked" \in mishaps'
               /\ row.type = "error" /\ production[u].deps \subseteq row.deps
      <4>1. CASE Outdated(u)
        BY <1>1, <1>4, <3>4, <4>1 DEF Pending, Finds, Repairable
      <4>2. CASE u \in Pending
        BY <1>5, <3>4, <4>2
      <4>3. CASE Linked(u, files, production[u])
        BY <1>3, <3>4, <4>3 DEF Linked
      <4> QED
        BY <2>1, <3>4, <4>2, <4>3 DEF RestInv, LinkInv
    <3> QED
      BY <1>2, <3>1, <3>2, <3>3, <3>4
  <2>2. ASSUME NEW v \in Modules, files[v].ver # 0
        PROVE  Linked(v, files, production[v]) \/ v \in Pending'
    BY <1>5, <2>2 DEF RestInv, LinkInv
  <2>3. ASSUME NEW i \in Instances, files[i].ver # 0
        PROVE  /\ working'[i].source.ver = files[i].ver => Linked(i, files, working'[i])
               /\ production[i].source.ver = files[i].ver => working'[i].source.ver = files[i].ver
    <3>1. CASE i # u
      BY <1>1, <1>3, <2>3, <3>1 DEF RestInv, LinkInv
    <3>2. CASE i = u
      BY <1>2, <1>3, <3>2, UrlsAssumption
    <3> QED
      BY <3>1, <3>2
  <2> QED
    BY <2>1, <2>2, <2>3 DEF LinkInv
<1>13. RowInv'
  BY <1>5 DEF RestInv, RowInv, Clear, ClearBelow, Fresh
<1>14. ServeInv'
  <2> SUFFICES ASSUME NEW v \in Modules, Around(v, files) \cap Pending' = {}
               PROVE  Sound(v, files, Serve(v)')
    BY DEF ServeInv, Clear
  <2>1. CASE v # u
    <3>1. Sound(v, files, Serve(v))
      BY <1>5 DEF RestInv, ServeInv, Clear
    <3> QED
      BY <1>8, <2>1, <3>1
  <2>2. CASE v = u
    <3>1. Remaining' \subseteq Pending'
      <4>1. jobs \in Seq(Job) /\ jobs # <<>>
        BY BatchFacts
      <4> QED
        BY <4>1, QueueTail DEF Pending, Remaining, Finds
    <3> QED
      BY <1>10, <2>2, <3>1
  <2> QED
    BY <2>1, <2>2
<1>15. VisitInv'
  <2>1. ASSUME NEW v \in batch'.visits
        PROVE  IF v \in batch'.invalidations THEN working'[v].deleted
               ELSE working'[v].type = "none" /\ (files'[v].ver # 0 \/ Asks(Tail(jobs), v)')
    <3>1. v # u /\ v \in batch.visits /\ v \in Urls
      BY <1>3, BatchFacts
    <3> QED
      BY <1>3, <3>1 DEF BatchInv, VisitInv
  <2>2. \A v \in batch'.visits \cap Modules : Served'[v] = files'[v] \/ Asks(Tail(jobs), v)'
    BY <1>3, <1>9 DEF BatchInv, VisitInv
  <2> QED
    BY <2>1, <2>2 DEF VisitInv
<1>16. NextLinkInv'
  <2>1. ASSUME NEW v \in Urls \ batch'.visits, files[v].ver # 0
        PROVE  \/ Linked(v, files, working'[v]) \/ v \in Remaining'
               \/ v \in batch'.invalidations /\ "unlinked" \in mishaps' /\ working'[v].type = "error"
    <3>1. CASE v # u
      BY <1>2, <1>3, <1>5, <2>1, <3>1 DEF BatchInv, NextLinkInv
    <3>2. CASE v = u
      BY <1>2, <1>3, <1>5, <1>7, <3>2
    <3> QED
      BY <3>1, <3>2
  <2>2. ASSUME NEW v \in Modules \ Touched', files[v].ver # 0
        PROVE  Linked(v, files, production[v]) \/ v \in Remaining'
    BY <1>4, <1>5, <2>2 DEF BatchInv, NextLinkInv
  <2> QED
    BY <2>1, <2>2 DEF NextLinkInv
<1>17. NextRowInv'
  <2>1. ASSUME NEW v \in Urls \ batch'.visits, Around(v, files) \cap Remaining' = {}
        PROVE  Current(v, files, Upcoming(v)')
    <3>1. CASE v # u
      BY <1>3, <1>5, <1>11, <2>1, <3>1 DEF BatchInv, NextRowInv, Clear
    <3>2. CASE v = u
      BY <1>10, <1>11, <2>1, <3>2
    <3> QED
      BY <3>1, <3>2
  <2>2. ASSUME NEW i \in Instances \ batch'.visits, Fresh(i, Upcoming(i)'),
               Reach(files[i].refs, files) \cap Remaining' = {}
        PROVE  Current(i, files, Upcoming(i)')
    <3>1. CASE i # u
      <4>1. Upcoming(i)' = Upcoming(i) /\ Reach(files[i].refs, files) \cap Remaining = {}
        BY <1>1, <1>5, <1>11, <2>2, <3>1
      <4> QED
        BY <1>3, <2>2, <3>1, <4>1 DEF BatchInv, NextRowInv, ClearBelow
    <3>2. CASE i = u
      BY <1>1, <1>10, <1>11, <2>2, <3>2, UrlsAssumption
    <3> QED
      BY <3>1, <3>2
  <2> QED
    BY <2>1, <2>2 DEF NextRowInv, Clear, ClearBelow, Fresh
<1>18. NextServeInv'
  <2>1. ASSUME NEW v \in Modules \ batch'.visits, Around(v, files) \cap Remaining' = {}
        PROVE  Sound(v, files, Serve(v)')
    <3>1. CASE v # u
      <4>1. Sound(v, files, Serve(v))
        BY <1>3, <1>5, <2>1, <3>1 DEF BatchInv, NextServeInv, Clear
      <4> QED
        BY <1>8, <3>1, <4>1
    <3>2. CASE v = u
      BY <1>10, <2>1, <3>2
    <3> QED
      BY <3>1, <3>2
  <2>2. ASSUME NEW v \in Modules, Around(v, files) \cap Remaining' = {}
        PROVE  Sound(v, files, Served'[v])
    <3>1. Sound(v, files, Served[v])
      BY <1>5, <2>2 DEF BatchInv, NextServeInv, Clear
    <3> QED
      BY <1>9, <3>1
  <2> QED
    BY <2>1, <2>2 DEF NextServeInv, Clear
<1>19. QueueInv'
  BY DEF RestInv, QueueInv
<1> QED
  BY <1>12, <1>13, <1>14, <1>15, <1>16, <1>17, <1>18, <1>19
     DEF RestInv, BatchInv

-----------------------------------------------------------------------------
(* A batch ends. *)

LEMMA QueueInvTail ==
    ASSUME Basic, QueueInv, jobs # <<>>, jobs' = Tail(jobs), files' = files
    PROVE  QueueInv'
<1> DEFINE n == Len(jobs)
<1>1. /\ DOMAIN Tail(jobs) = 1..(n - 1) /\ n \in Nat /\ DOMAIN jobs = 1..n
      /\ \A i \in 1..(n - 1) : Tail(jobs)[i] = jobs[i + 1]
  BY NotEmpty, TailFacts, LenProperties DEF Basic, TypeInv
<1> DEFINE t == Tail(jobs)
<1> HIDE DEF n, t
<1>2. DOMAIN t = 1..(n - 1) /\ \A i \in 1..(n - 1) : t[i] = jobs[i + 1]
  BY <1>1 DEF t
<1> SUFFICES ASSUME NEW k \in DOMAIN t
             PROVE  \/ t[k].kind = "full"
                    \/ t[k].kind = "delete" /\ files[t[k].url].ver = 0
                    \/ t[k].kind = "update" /\ files[t[k].url].ver # 0
                    \/ \E l \in DOMAIN t : k < l /\ t[l].kind # "full" /\ t[l].url = t[k].url
  BY DEF QueueInv, t
<1>3. k \in 1..(n - 1) /\ k + 1 \in DOMAIN jobs /\ t[k] = jobs[k + 1]
  BY <1>1, <1>2
<1>4. ASSUME NEW l \in DOMAIN jobs, k + 1 < l
      PROVE  l - 1 \in DOMAIN t /\ k < l - 1 /\ t[l - 1] = jobs[l]
  <2>1. l - 1 \in 1..(n - 1) /\ k < l - 1 /\ (l - 1) + 1 = l
    BY <1>1, <1>3, <1>4
  <2> QED
    BY <1>2, <2>1
<1>5. ASSUME NEW l \in DOMAIN jobs, k + 1 < l, jobs[l].kind # "full", jobs[l].url = jobs[k + 1].url
      PROVE  \E m \in DOMAIN t : k < m /\ t[m].kind # "full" /\ t[m].url = t[k].url
  <2>1. l - 1 \in DOMAIN t /\ k < l - 1 /\ t[l - 1] = jobs[l]
    BY <1>4, <1>5
  <2> QED
    BY <1>3, <1>5, <2>1
<1> QED
  BY <1>3, <1>5 DEF QueueInv

(* What is left to bring up to date is pending then. *)
LEMMA DonePending ==
    ASSUME Basic, Done
    PROVE  Remaining \subseteq Pending'
<1>1. /\ Running /\ batch.visits = {} /\ jobs' = Tail(jobs)
      /\ files' = files /\ mishaps' = mishaps
      /\ \A u \in Urls : production'[u] = Upcoming(u)
  BY DoneEffect DEF Upcoming
<1>2. \A v \in Urls \ Touched : Outdated(v)' <=> Outdated(v)
  BY <1>1 DEF Outdated, Dated, Upcoming, Touched
<1> QED
  BY <1>1, <1>2 DEF Remaining, Pending, Finds

LEMMA DoneInv ==
    ASSUME Basic, Inv, Sane', Done
    PROVE  RestInv'
<1>1. /\ Running /\ batch.visits = {} /\ jobs # <<>> /\ jobs' = Tail(jobs) /\ jobs \in Seq(Job)
      /\ files' = files /\ working' = working /\ mishaps' = mishaps
      /\ batch.invalidations \in SUBSET Urls /\ Touched = batch.invalidations
      /\ \A u \in Urls : production'[u] = Upcoming(u)
  BY DoneEffect, BatchFacts DEF Basic, TypeInv, Upcoming, Touched
<1>2. RestInv /\ BatchInv
  BY <1>1 DEF Inv, Sane
<1>3. Pending' = {v \in Urls : Asks(Tail(jobs), v) \/
          ((LooksAround(Tail(jobs)) \/ mishaps \cap Repairable # {}) /\ Outdated(v)')}
  BY <1>1 DEF Pending, Finds
<1>4. Remaining \subseteq Pending'
  BY DonePending
<1>5. \A v \in Urls : files[v].ver # 0 /\ Upcoming(v).type = "error" => Outdated(v)'
  BY <1>1 DEF Outdated, Dated
<1>6. Modules \subseteq Urls /\ Instances \subseteq Urls
  BY DEF Urls
<1>7. ASSUME NEW u \in Urls, files[u].ver # 0
      PROVE  Linked(u, files, working[u]) \/ u \in Pending'
  <2>1. CASE u \in batch.invalidations /\ "unlinked" \in mishaps /\ working[u].type = "error"
    BY <1>3, <1>5, <1>7, <2>1 DEF Upcoming, Repairable
  <2> QED
    BY <1>1, <1>2, <1>4, <1>7, <2>1 DEF BatchInv, NextLinkInv
<1>8. ASSUME NEW v \in Modules, files[v].ver # 0
      PROVE  Linked(v, files, Upcoming(v)) \/ v \in Pending'
  <2>1. CASE v \in batch.invalidations
    BY <1>6, <1>7, <1>8, <2>1 DEF Upcoming
  <2>2. CASE v \notin batch.invalidations
    BY <1>1, <1>2, <1>4, <1>8, <2>2 DEF Upcoming, BatchInv, NextLinkInv
  <2> QED
    BY <2>1, <2>2
<1>9. ASSUME NEW i \in Instances, files[i].ver # 0
      PROVE  /\ working[i].source.ver = files[i].ver => Linked(i, files, working[i])
             /\ Upcoming(i).source.ver = files[i].ver => working[i].source.ver = files[i].ver
  BY <1>2, <1>9 DEF RestInv, LinkInv, Upcoming
<1>10. LinkInv'
  BY <1>1, <1>6, <1>7, <1>8, <1>9 DEF LinkInv
<1>11. RowInv'
  <2>1. ASSUME NEW u \in Urls, Around(u, files) \cap Pending' = {}
        PROVE  Current(u, files, Upcoming(u))
    BY <1>1, <1>2, <1>4, <2>1 DEF BatchInv, NextRowInv, Clear
  <2>2. ASSUME NEW i \in Instances, Fresh(i, Upcoming(i)),
               Reach(files[i].refs, files) \cap Pending' = {}
        PROVE  Current(i, files, Upcoming(i))
    BY <1>1, <1>2, <1>4, <2>2 DEF BatchInv, NextRowInv, ClearBelow
  <2> QED
    BY <1>1, <1>6, <2>1, <2>2 DEF RowInv, Clear, ClearBelow, Fresh
<1>12. ServeInv'
  <2>1. \A v \in Modules : Serve(v)' = Serve(v)
    BY <1>1 DEF Serve
  <2>2. ASSUME NEW v \in Modules, Around(v, files) \cap Pending' = {}
        PROVE  Sound(v, files, Serve(v))
    BY <1>1, <1>2, <1>4, <2>2 DEF BatchInv, NextServeInv, Clear
  <2> QED
    BY <1>1, <2>1, <2>2 DEF ServeInv, Clear
<1>13. QueueInv'
  BY <1>1, <1>2, QueueInvTail DEF RestInv
<1> QED
  BY <1>10, <1>11, <1>12, <1>13 DEF RestInv

LEMMA FailInv ==
    ASSUME Basic, Inv, Sane', Fail
    PROVE  RestInv'
<1>1. /\ Running /\ jobs' = Tail(jobs) /\ jobs \in Seq(Job) /\ jobs # <<>>
      /\ UNCHANGED <<files, working, production>>
  BY BatchFacts DEF Fail, disk, index
<1>2. ~Unnoticed /\ mishaps' = mishaps \cup {"leftover", "failed"} /\ Sane
  BY DEF Fail, Sane, Irreparable
<1>3. RestInv
  BY <1>2 DEF Inv
<1>4. Modules \subseteq Urls /\ Instances \subseteq Urls /\ files \in [Urls -> Source]
      /\ Instances \cap Modules = {}
  BY UrlsAssumption DEF Basic, TypeInv, Urls
<1>5. Pending' = {v \in Urls : Asks(Tail(jobs), v) \/ Outdated(v)}
  BY <1>1, <1>2 DEF Pending, Finds, Outdated, Dated, Repairable
<1>6. \A v \in Pending \ Pending' : /\ Head(jobs).kind # "full" /\ Head(jobs).url = v
                                    /\ ~Asks(Tail(jobs), v) /\ ~Outdated(v)
  BY <1>1, <1>5, QueueTail DEF Pending, Finds
<1>7. ASSUME NEW v \in Pending \ Pending'
      PROVE  v \in Instances /\ Fresh(v, production[v])
  <2>1. /\ Head(jobs).kind = "update" /\ files[v].ver # 0 /\ ~Outdated(v)
    BY <1>1, <1>2, <1>3, <1>6, FirstIsCurrent DEF Unnoticed, RestInv
  <2>2. v \in Urls /\ v \notin Modules /\ ~production[v].deleted /\ production[v].source = files[v]
    BY <1>2, <1>6, <2>1 DEF Unnoticed, Pending
  <2> QED
    BY <2>1, <2>2 DEF Urls, Outdated, Dated, Fresh
<1>8. \A u \in Urls : Around(u, files) = {u} \cup Reach(files[u].refs, files)
                      /\ Reach(files[u].refs, files) \in SUBSET Modules
  BY <1>4, AroundFacts DEF Around
<1>9. \A u \in Urls : ClearBelow(u, Pending') => ClearBelow(u, Pending)
  BY <1>4, <1>7, <1>8 DEF ClearBelow
<1>10. ASSUME NEW u \in Urls, Around(u, files) \cap Pending' = {}
       PROVE  Clear(u, Pending) \/ (u \in Instances /\ Fresh(u, production[u]))
  BY <1>4, <1>7, <1>8, <1>10 DEF Clear
<1>11. QueueInv'
  BY <1>1, <1>3, QueueInvTail DEF RestInv
<1>12. LinkInv'
  <2>1. ASSUME NEW u \in Urls, files[u].ver # 0
        PROVE  Linked(u, files, working[u]) \/ u \in Pending'
    BY <1>3, <1>7, <2>1 DEF RestInv, LinkInv, Fresh
  <2>2. ASSUME NEW v \in Modules, files[v].ver # 0
        PROVE  Linked(v, files, production[v]) \/ v \in Pending'
    BY <1>3, <1>4, <1>7, <2>2 DEF RestInv, LinkInv
  <2> QED
    BY <1>1, <1>3, <2>1, <2>2 DEF RestInv, LinkInv
<1>13. RowInv'
  <2>1. ASSUME NEW u \in Urls, Around(u, files) \cap Pending' = {}
        PROVE  Current(u, files, production[u])
    <3>1. CASE Clear(u, Pending)
      BY <1>3, <3>1 DEF RestInv, RowInv
    <3>2. CASE u \in Instances /\ Fresh(u, production[u])
      <4>1. ClearBelow(u, Pending)
        BY <1>8, <1>9, <2>1 DEF ClearBelow
      <4> QED
        BY <1>3, <3>2, <4>1 DEF RestInv, RowInv
    <3> QED
      BY <1>10, <2>1, <3>1, <3>2
  <2>2. ASSUME NEW i \in Instances, Fresh(i, production[i]), ClearBelow(i, Pending')
        PROVE  Current(i, files, production[i])
    BY <1>3, <1>4, <1>9, <2>2 DEF RestInv, RowInv
  <2> QED
    BY <1>1, <2>1, <2>2 DEF RowInv, Clear, ClearBelow, Fresh
<1>14. ServeInv'
  <2>1. \A v \in Modules : Serve(v)' = Serve(v)
    BY <1>1 DEF Serve
  <2>2. ASSUME NEW v \in Modules, Around(v, files) \cap Pending' = {}
        PROVE  Sound(v, files, Serve(v))
    <3>1. Clear(v, Pending)
      BY <1>4, <1>10, <2>2
    <3> QED
      BY <1>3, <3>1 DEF RestInv, ServeInv
  <2> QED
    BY <1>1, <2>1, <2>2 DEF ServeInv, Clear
<1> QED
  BY <1>11, <1>12, <1>13, <1>14 DEF RestInv

LEMMA WorkerDiesInv ==
    ASSUME Basic, Inv, Sane', WorkerDies
    PROVE  RestInv'
<1>1. UNCHANGED <<files, jobs, working, production, mishaps>>
  BY DEF WorkerDies, disk, index
<1>2. RestInv
  BY <1>1 DEF Inv, Sane
<1>3. Pending' = Pending
  BY <1>1 DEF Pending, Finds, Outdated, Dated
<1> QED
  BY <1>1, <1>2, <1>3
  DEF RestInv, QueueInv, LinkInv, RowInv, ServeInv, Clear, ClearBelow, Fresh, Serve

-----------------------------------------------------------------------------
(* A file changes. *)

(* Then there is a job for it, and a deleted file has no other version left. *)
LEMMA ChangeEffect ==
    ASSUME Basic, Sane', NEW w \in Urls, Write(w) \/ Delete(w) \/ Restart(w)
    PROVE  /\ files' \in [Urls -> Source] /\ \A v \in Urls \ {w} : files'[v] = files[v]
           /\ files'[w].ver \in {0, clock + 1} /\ clock \in Nat
           /\ \E kind \in {"update", "delete", "full"} :
                 /\ [kind |-> kind, url |-> w] \in Job
                 /\ jobs' = Append(jobs, [kind |-> kind, url |-> w])
                 /\ kind = "delete" => files'[w].ver = 0
                 /\ kind # "delete" => files'[w].ver = clock + 1
                 /\ kind = "full" => /\ ~Running /\ ~Dated(w, files'[w])
                                     /\ [kind |-> "delete", url |-> w] \notin Range(jobs)
<1>1. /\ files' \in [Urls -> Source] /\ \A v \in Urls \ {w} : files'[v] = files[v]
      /\ files'[w].ver \in {0, clock + 1} /\ clock \in Nat
  BY FileEffect, PutBasic DEF Basic, TypeInv
<1>2. \A kind \in {"update", "delete", "full"} : [kind |-> kind, url |-> w] \in Job
  BY DEF Job
<1>3. (\E refs \in Refs[w] : Put(w, refs)) => files'[w].ver = clock + 1
  BY DEF Put, Basic, TypeInv
<1>4. Erase(w) => files'[w].ver = 0
  BY DEF Erase, None, Basic, TypeInv
<1>5. CASE Write(w)
  BY <1>1, <1>2, <1>3, <1>5 DEF Write, Publish
<1>6. CASE Delete(w)
  BY <1>1, <1>2, <1>4, <1>6 DEF Delete, Publish
<1>7. CASE Restart(w)
  <2>1. /\ \E refs \in Refs[w] : Put(w, refs)
        /\ mishaps' = mishaps \cup {"changed"} \cup
                (IF [kind |-> "delete", url |-> w] \in Range(jobs) THEN {"outlived"} ELSE {})
                \cup (IF Dated(w, files'[w]) THEN {"hurried"} ELSE {})
    BY <1>7 DEF Restart, Sane, Irreparable
  <2>2. [kind |-> "delete", url |-> w] \notin Range(jobs) /\ ~Dated(w, files'[w])
    BY <2>1 DEF Sane, Irreparable
  <2> QED
    BY <1>1, <1>2, <1>3, <1>7, <2>1, <2>2 DEF Restart, Publish
<1> QED
  BY <1>5, <1>6, <1>7

(* What it does not reach is as it was. *)
LEMMA ChangeAround ==
    ASSUME Basic, NEW w \in Urls, files' \in [Urls -> Source],
           \A v \in Urls \ {w} : files'[v] = files[v],
           NEW u \in Urls, w \notin Around(u, files')
    PROVE  /\ Around(u, files) = Around(u, files') /\ files'[u] = files[u]
           /\ Reach(files[u].refs, files) = Reach(files'[u].refs, files')
           /\ \A row : Current(u, files, row) <=> Current(u, files', row)
           /\ u \in Modules => \A c : Sound(u, files, c) <=> Sound(u, files', c)
<1>1. files \in [Urls -> Source]
  BY DEF Basic, TypeInv
<1> DEFINE f == files'
<1>2. f \in [Urls -> Source] /\ \A v \in Urls \ {w} : f[v] = files[v] /\ w \notin Around(u, f)
  OBVIOUS
<1> HIDE DEF f
<1>3. u \in Around(u, f) /\ Around(u, f) \subseteq Urls
  BY <1>2, AroundFacts
<1>a. w \notin Around(u, f)
  BY DEF f
<1>4. \A v \in Around(u, f) : files[v] = f[v]
  BY <1>2, <1>3, <1>a
<1>5. /\ Around(u, files) = Around(u, f) /\ Reach(files[u].refs, files) = Reach(f[u].refs, f)
      /\ \A row : Current(u, files, row) <=> Current(u, f, row)
      /\ u \in Modules => (Loads({u}, files) <=> Loads({u}, f))
  BY <1>1, <1>2, <1>4, AroundSame
<1> QED
  BY <1>3, <1>4, <1>5 DEF Sound, f

LEMMA ChangeQueue ==
    ASSUME Basic, QueueInv, Sane', NEW w \in Urls, Write(w) \/ Delete(w) \/ Restart(w)
    PROVE  QueueInv'
<1>1. PICK kind \in {"update", "delete", "full"} :
         /\ [kind |-> kind, url |-> w] \in Job
         /\ jobs' = Append(jobs, [kind |-> kind, url |-> w])
         /\ kind = "delete" => files'[w].ver = 0
         /\ kind # "delete" => files'[w].ver = clock + 1
         /\ kind = "full" => [kind |-> "delete", url |-> w] \notin Range(jobs)
  BY ChangeEffect
<1>2. /\ \A v \in Urls \ {w} : files'[v] = files[v]
      /\ clock \in Nat /\ jobs \in Seq(Job)
  BY ChangeEffect DEF Basic, TypeInv
<1> DEFINE n == Len(jobs)
           q == jobs'
<1>3. /\ n \in Nat /\ DOMAIN q = 1..(n + 1) /\ DOMAIN jobs = 1..n
      /\ \A i \in 1..n : q[i] = jobs[i]
      /\ q[n + 1] = [kind |-> kind, url |-> w]
      /\ \A i \in 1..n : jobs[i] \in Job
  BY <1>1, <1>2, AppendFacts, ElementOfSeq
<1>4. \A i \in 1..n : i \in 1..(n + 1) /\ i < n + 1 /\ n + 1 \in 1..(n + 1)
  BY <1>3
<1>5. \A i \in 1..n : jobs[i] \in Range(jobs)
  BY <1>3 DEF Range
<1> HIDE DEF n
<1>6. ASSUME NEW k \in 1..n
      PROVE  \/ q[k].kind = "full"
             \/ q[k].kind = "delete" /\ files'[q[k].url].ver = 0
             \/ q[k].kind = "update" /\ files'[q[k].url].ver # 0
             \/ \E l \in DOMAIN q : k < l /\ q[l].kind # "full" /\ q[l].url = q[k].url
  <2>1. q[k] = jobs[k] /\ jobs[k].kind \in {"full", "update", "delete"} /\ jobs[k].url \in Urls
        /\ jobs[k] = [kind |-> jobs[k].kind, url |-> jobs[k].url]
    BY <1>3 DEF Job
  <2>2. CASE jobs[k].url # w
    <3>1. \A l \in DOMAIN jobs : l \in DOMAIN q /\ q[l] = jobs[l]
      BY <1>3, <1>4
    <3>2. files'[jobs[k].url] = files[jobs[k].url]
      BY <1>2, <2>1, <2>2
    <3> QED
      BY <1>3, <2>1, <3>1, <3>2 DEF QueueInv
  <2>3. CASE jobs[k].url = w /\ kind # "full"
    <3>1. n + 1 \in DOMAIN q /\ k < n + 1 /\ q[n + 1].kind # "full" /\ q[n + 1].url = w
      BY <1>3, <1>4, <2>3
    <3> QED
      BY <2>1, <2>3, <3>1
  <2>4. CASE jobs[k].url = w /\ kind = "full"
    <3>1. jobs[k].kind # "delete"
      BY <1>1, <1>5, <2>1, <2>4
    <3>2. files'[w].ver # 0
      BY <1>1, <1>2, <2>4
    <3> QED
      BY <2>1, <2>4, <3>1, <3>2
  <2> QED
    BY <2>2, <2>3, <2>4
<1>7. \/ q[n + 1].kind = "full"
      \/ q[n + 1].kind = "delete" /\ files'[q[n + 1].url].ver = 0
      \/ q[n + 1].kind = "update" /\ files'[q[n + 1].url].ver # 0
  BY <1>1, <1>2, <1>3
<1>8. \A k \in 1..(n + 1) : k \in 1..n \/ k = n + 1
  BY <1>3
<1> QED
  BY <1>3, <1>6, <1>7, <1>8 DEF QueueInv

LEMMA ChangePending ==
    ASSUME Basic, Sane', NEW w \in Urls, Write(w) \/ Delete(w) \/ Restart(w)
    PROVE  /\ Pending \subseteq Pending' /\ w \in Pending'
           /\ Running => /\ Remaining \subseteq Remaining' /\ w \in Remaining'
                         /\ Pending' \subseteq Pending \cup {w}
                         /\ Asks(Tail(jobs), w)'
                         /\ \A v : Asks(Tail(jobs), v) => Asks(Tail(jobs), v)'
<1>1. PICK kind \in {"update", "delete", "full"} :
         /\ [kind |-> kind, url |-> w] \in Job
         /\ jobs' = Append(jobs, [kind |-> kind, url |-> w])
         /\ kind = "delete" => files'[w].ver = 0
         /\ kind # "delete" => files'[w].ver = clock + 1
         /\ kind = "full" => ~Running /\ ~Dated(w, files'[w])
  BY ChangeEffect
<1>2. /\ \A v \in Urls \ {w} : files'[v] = files[v]
      /\ clock \in Nat /\ jobs \in Seq(Job) /\ production[w].source.ver \in Nat
      /\ production[w].source.ver <= clock
  BY ChangeEffect, BasicFacts DEF Basic, TypeInv, VersionInv
<1>3. UNCHANGED <<production, batch, working>> /\ mishaps \subseteq mishaps'
  BY FileEffect
<1>4. \A v \in Urls \ {w} : Outdated(v)' <=> Outdated(v)
  BY <1>2, <1>3 DEF Outdated, Dated
<1> DEFINE e == [kind |-> kind, url |-> w]
<1>5. /\ e \in Job /\ jobs' = Append(jobs, e) /\ e.kind = kind /\ e.url = w
  BY <1>1
<1> HIDE DEF e
<1>6. /\ \A v : Asks(jobs, v)' <=> Asks(jobs, v) \/ (kind # "full" /\ w = v)
      /\ LooksAround(jobs)' <=> LooksAround(jobs) \/ kind = "full"
      /\ jobs # <<>> =>
            /\ \A v : Asks(Tail(jobs), v)' <=> Asks(Tail(jobs), v) \/ (kind # "full" /\ w = v)
            /\ LooksAround(Tail(jobs))' <=> LooksAround(Tail(jobs)) \/ kind = "full"
  BY <1>2, <1>5, QueueAppend
<1>7. w \in Pending'
  <2>1. CASE kind # "full"
    BY <1>6, <2>1 DEF Pending
  <2>2. CASE kind = "full"
    <3>1. files'[w].ver # 0 /\ ~Dated(w, files'[w])
      BY <1>1, <1>2, <2>2
    <3>2. Outdated(w)'
      BY <1>3, <3>1 DEF Outdated, Dated
    <3> QED
      BY <1>6, <2>2, <3>2 DEF Pending, Finds
  <2> QED
    BY <2>1, <2>2
<1>8. Pending \subseteq Pending'
  BY <1>3, <1>4, <1>6, <1>7 DEF Pending, Finds
<1>9. ASSUME Running
      PROVE  /\ Remaining \subseteq Remaining' /\ w \in Remaining'
             /\ Pending' \subseteq Pending \cup {w}
             /\ Asks(Tail(jobs), w)'
             /\ \A v : Asks(Tail(jobs), v) => Asks(Tail(jobs), v)'
  <2>1. jobs # <<>> /\ kind # "full"
    BY <1>1, <1>9, BatchFacts
  <2>2. w \in Remaining'
    BY <1>6, <2>1 DEF Remaining
  <2>3. Remaining \subseteq Remaining'
    BY <1>3, <1>4, <1>6, <2>1, <2>2 DEF Remaining, Finds, Touched
  <2>4. mishaps' = mishaps
    BY <1>9 DEF Write, Delete, Restart
  <2>5. Pending' \subseteq Pending \cup {w}
    BY <1>4, <1>6, <2>1, <2>4 DEF Pending, Finds
  <2> QED
    BY <1>6, <2>1, <2>2, <2>3, <2>5
<1> QED
  BY <1>7, <1>8, <1>9

LEMMA ChangeInv ==
    ASSUME Basic, Inv, Sane', NEW w \in Urls, Write(w) \/ Delete(w) \/ Restart(w)
    PROVE  RestInv' /\ (Running => BatchInv')
<1>1. UNCHANGED <<working, production, batch>> /\ mishaps \subseteq mishaps'
  BY FileEffect
<1>2. RestInv /\ (Running => BatchInv)
  BY <1>1 DEF Inv, Sane
<1>3. /\ files' \in [Urls -> Source] /\ \A v \in Urls \ {w} : files'[v] = files[v]
      /\ files'[w].ver \in {0, clock + 1} /\ clock \in Nat
  BY ChangeEffect
<1>4. /\ Pending \subseteq Pending' /\ w \in Pending'
      /\ Running => /\ Remaining \subseteq Remaining' /\ w \in Remaining'
                    /\ Asks(Tail(jobs), w)'
                    /\ \A v : Asks(Tail(jobs), v) => Asks(Tail(jobs), v)'
  BY ChangePending
<1>5. /\ Modules \subseteq Urls /\ Instances \subseteq Urls /\ Instances \cap Modules = {}
      /\ working[w].source.ver \in Nat /\ production[w].source.ver \in Nat
      /\ working[w].source.ver <= clock /\ production[w].source.ver <= clock
  BY UrlsAssumption, BasicFacts DEF Urls, Basic, VersionInv
<1>6. files'[w].ver # 0 => files'[w].ver # working[w].source.ver
                           /\ files'[w].ver # production[w].source.ver
  BY <1>3, <1>5
<1>7. \A u \in Urls \ {w} : \A row : Linked(u, files', row) <=> Linked(u, files, row)
  BY <1>3 DEF Linked
<1>8. ASSUME NEW u \in Urls, w \notin Around(u, files')
      PROVE  /\ Around(u, files) = Around(u, files') /\ files'[u] = files[u]
             /\ Reach(files[u].refs, files) = Reach(files'[u].refs, files')
             /\ \A row : Current(u, files, row) <=> Current(u, files', row)
             /\ u \in Modules => \A c : Sound(u, files, c) <=> Sound(u, files', c)
             /\ u # w
  <2>1. u # w
    BY <1>3, <1>8, AroundFacts
  <2> QED
    BY <1>3, <1>8, <2>1, ChangeAround
<1>9. \A u \in Urls : Around(u, files') = {u} \cup Reach(files'[u].refs, files')
  BY DEF Around
<1>10. ASSUME NEW i \in Instances, NEW row, Fresh(i, row)', w \notin Reach(files'[i].refs, files'),
              i = w => row.source.ver <= clock /\ row.source.ver \in Nat
       PROVE  w \notin Around(i, files') /\ Fresh(i, row) /\ i # w
  <2>1. i # w
    BY <1>3, <1>10 DEF Fresh
  <2> QED
    BY <1>3, <1>5, <1>9, <1>10, <2>1 DEF Fresh
<1>11. \A v \in Modules \ {w} : Serve(v)' = Serve(v)
  BY <1>1, <1>3, <1>5 DEF Serve
<1>12. \A v \in Modules \ {w} : Served'[v] = Served[v]
  BY <1>1, <1>11 DEF Served
<1>13. QueueInv'
  BY <1>1, <1>2, ChangeQueue DEF RestInv
<1>14. LinkInv'
  <2>1. ASSUME NEW u \in Urls, files'[u].ver # 0
        PROVE  Linked(u, files', working[u]) \/ u \in Pending'
    BY <1>2, <1>3, <1>4, <1>7, <2>1 DEF RestInv, LinkInv
  <2>2. ASSUME NEW v \in Modules, files'[v].ver # 0
        PROVE  Linked(v, files', production[v]) \/ v \in Pending'
    BY <1>2, <1>3, <1>4, <1>5, <1>7, <2>2 DEF RestInv, LinkInv
  <2>3. ASSUME NEW i \in Instances, files'[i].ver # 0
        PROVE  /\ working[i].source.ver = files'[i].ver => Linked(i, files', working[i])
               /\ production[i].source.ver = files'[i].ver => working[i].source.ver = files'[i].ver
    BY <1>2, <1>3, <1>5, <1>6, <1>7, <2>3 DEF RestInv, LinkInv
  <2> QED
    BY <1>1, <2>1, <2>2, <2>3 DEF LinkInv
<1>15. RowInv'
  <2>1. ASSUME NEW u \in Urls, Around(u, files') \cap Pending' = {}
        PROVE  Current(u, files', production[u])
    <3>1. Clear(u, Pending)
      BY <1>4, <1>8, <2>1 DEF Clear
    <3> QED
      BY <1>2, <1>4, <1>8, <2>1, <3>1 DEF RestInv, RowInv
  <2>2. ASSUME NEW i \in Instances, Fresh(i, production[i])',
               Reach(files'[i].refs, files') \cap Pending' = {}
        PROVE  Current(i, files', production[i])
    <3>1. w \notin Around(i, files') /\ Fresh(i, production[i])
      BY <1>1, <1>4, <1>5, <1>10, <2>2 DEF Fresh
    <3>2. ClearBelow(i, Pending)
      BY <1>4, <1>5, <1>8, <2>2, <3>1 DEF ClearBelow
    <3> QED
      BY <1>2, <1>5, <1>8, <3>1, <3>2 DEF RestInv, RowInv
  <2> QED
    BY <1>1, <2>1, <2>2 DEF RowInv, Clear, ClearBelow
<1>16. ServeInv'
  <2> SUFFICES ASSUME NEW v \in Modules, Around(v, files') \cap Pending' = {}
               PROVE  Sound(v, files', Serve(v)')
    BY DEF ServeInv, Clear
  <2>1. w \notin Around(v, files') /\ v \in Urls
    BY <1>4, <1>5
  <2>2. Clear(v, Pending) /\ v # w
    BY <1>4, <1>8, <2>1 DEF Clear
  <2> QED
    BY <1>2, <1>8, <1>11, <2>1, <2>2 DEF RestInv, ServeInv
<1>17. ASSUME Running PROVE VisitInv'
  <2>1. ASSUME NEW v \in batch.visits
        PROVE  IF v \in batch.invalidations THEN working[v].deleted
               ELSE working[v].type = "none" /\ (files'[v].ver # 0 \/ Asks(Tail(jobs), v)')
    <3>1. v \in Urls
      BY <1>17, BatchFacts
    <3> QED
      BY <1>2, <1>3, <1>4, <1>17, <3>1 DEF BatchInv, VisitInv
  <2>2. \A v \in batch.visits \cap Modules : Served'[v] = files'[v] \/ Asks(Tail(jobs), v)'
    BY <1>2, <1>3, <1>4, <1>5, <1>12, <1>17 DEF BatchInv, VisitInv
  <2> QED
    BY <1>1, <2>1, <2>2 DEF VisitInv
<1>18. ASSUME Running PROVE NextLinkInv'
  <2>1. ASSUME NEW u \in Urls \ batch.visits, files'[u].ver # 0
        PROVE  \/ Linked(u, files', working[u]) \/ u \in Remaining'
               \/ u \in batch.invalidations /\ "unlinked" \in mishaps' /\ working[u].type = "error"
    BY <1>1, <1>2, <1>3, <1>4, <1>7, <1>18, <2>1 DEF BatchInv, NextLinkInv
  <2>2. ASSUME NEW v \in Modules \ Touched, files'[v].ver # 0
        PROVE  Linked(v, files', production[v]) \/ v \in Remaining'
    BY <1>2, <1>3, <1>4, <1>5, <1>7, <1>18, <2>2 DEF BatchInv, NextLinkInv
  <2> QED
    BY <1>1, <2>1, <2>2 DEF NextLinkInv, Touched
<1>19. ASSUME Running PROVE NextRowInv'
  <2>1. \A u : Upcoming(u)' = Upcoming(u) /\ Upcoming(u) \in {working[u], production[u]}
    BY <1>1 DEF Upcoming
  <2>2. ASSUME NEW u \in Urls \ batch.visits, Around(u, files') \cap Remaining' = {}
        PROVE  Current(u, files', Upcoming(u))
    <3>1. Clear(u, Remaining)
      BY <1>4, <1>8, <1>19, <2>2 DEF Clear
    <3> QED
      BY <1>2, <1>4, <1>8, <1>19, <2>2, <3>1 DEF BatchInv, NextRowInv
  <2>3. ASSUME NEW i \in Instances \ batch.visits, Fresh(i, Upcoming(i))',
               Reach(files'[i].refs, files') \cap Remaining' = {}
        PROVE  Current(i, files', Upcoming(i))
    <3> DEFINE row == Upcoming(i)
    <3>1. i = w => row.source.ver <= clock /\ row.source.ver \in Nat
      BY <1>5, <2>1
    <3>2. row' = row
      BY <2>1
    <3>3. w \notin Reach(files'[i].refs, files')
      BY <1>4, <1>19, <2>3
    <3>4. Fresh(i, row)'
      BY <2>3
    <3> HIDE DEF row
    <3>5. w \notin Around(i, files') /\ Fresh(i, row)
      <4>1. i # w
        BY <1>3, <3>1, <3>2, <3>4 DEF Fresh
      <4> QED
        BY <1>3, <1>5, <1>9, <3>2, <3>3, <3>4, <4>1 DEF Fresh
    <3>6. ClearBelow(i, Remaining)
      BY <1>4, <1>5, <1>8, <1>19, <2>3, <3>5 DEF ClearBelow
    <3>7. Current(i, files, Upcoming(i))
      BY <1>2, <1>19, <3>5, <3>6 DEF BatchInv, NextRowInv, row
    <3> QED
      BY <1>5, <1>8, <3>5, <3>7
  <2> QED
    BY <1>1, <2>1, <2>2, <2>3 DEF NextRowInv, Clear, ClearBelow
<1>20. ASSUME Running PROVE NextServeInv'
  <2>1. ASSUME NEW v \in Modules, Around(v, files') \cap Remaining' = {}
        PROVE  /\ v \notin batch.visits => Sound(v, files', Serve(v)')
               /\ Sound(v, files', Served'[v])
    <3>1. w \notin Around(v, files') /\ v \in Urls
      BY <1>4, <1>5, <1>20, <2>1
    <3>2. Clear(v, Remaining) /\ v # w
      BY <1>4, <1>8, <1>20, <2>1, <3>1 DEF Clear
    <3>3. /\ v \notin batch.visits => Sound(v, files, Serve(v))
          /\ Sound(v, files, Served[v])
      BY <1>2, <1>20, <3>2 DEF BatchInv, NextServeInv
    <3> QED
      BY <1>8, <1>11, <1>12, <3>1, <3>2, <3>3
  <2> QED
    BY <1>1, <2>1 DEF NextServeInv, Clear
<1> QED
  BY <1>13, <1>14, <1>15, <1>16, <1>17, <1>18, <1>19, <1>20
     DEF RestInv, BatchInv

-----------------------------------------------------------------------------
(* The index is right. *)

LEMMA StepInv == Basic /\ Inv /\ [Next]_vars => Inv'
<1> SUFFICES ASSUME Basic, Inv, [Next]_vars, Sane' PROVE RestInv' /\ (Running' => BatchInv')
  BY DEF Inv
<1>1. ASSUME NEW u \in Urls, Write(u) \/ Delete(u) \/ Restart(u)
      PROVE  RestInv' /\ (Running' => BatchInv')
  <2>1. Running' <=> Running
    BY <1>1, FileEffect DEF Running
  <2> QED
    BY <1>1, <2>1, ChangeInv
<1>2. CASE Incremental \/ FromScratch
  BY <1>2, BeginInv
<1>3. ASSUME NEW u \in Urls, Visit(u) PROVE RestInv' /\ (Running' => BatchInv')
  <2>1. /\ Running /\ u \in batch.visits /\ UNCHANGED <<files, jobs, production>>
        /\ VisitEntry(u) \/ VisitError(u) \/ VisitMissing(u)
        /\ mishaps \subseteq mishaps'
    BY <1>3, VisitEffect DEF Visit, Basic
  <2>2. Sane /\ RestInv /\ BatchInv
    BY <2>1 DEF Inv, Sane
  <2>3. CASE VisitMissing(u)
    BY <2>1, <2>2, <2>3, VisitMissingInv DEF VisitMissing
  <2>4. CASE VisitEntry(u) \/ VisitError(u)
    BY <2>1, <2>2, <2>4, VisitRowInv DEF VisitEntry, VisitError
  <2> QED
    BY <2>1, <2>3, <2>4
<1>4. CASE Done
  BY <1>4, DoneInv, DoneEffect
<1>5. CASE Fail
  BY <1>5, FailInv DEF Fail, Running
<1>6. CASE WorkerDies
  BY <1>6, WorkerDiesInv DEF WorkerDies, Running
<1>7. CASE DatabaseCrashes
  BY <1>7 DEF DatabaseCrashes, Sane, Irreparable
<1>8. CASE UNCHANGED vars
  <2>1. UNCHANGED <<files, clock, second, jobs, working, production, batch, mishaps>>
    BY <1>8 DEF vars, disk, index
  <2>2. RestInv /\ (Running => BatchInv) /\ (Running' <=> Running)
    BY <2>1 DEF Inv, Sane, Running
  <2>3. /\ Pending' = Pending /\ Remaining' = Remaining /\ Touched' = Touched
        /\ \A v \in Modules : Serve(v)' = Serve(v)
        /\ Served' = Served
        /\ \A u : Upcoming(u)' = Upcoming(u)
    BY <2>1 DEF Pending, Remaining, Touched, Finds, Outdated, Dated, Serve, Served,
           Upcoming
  <2>4. RestInv'
    BY <2>1, <2>2, <2>3
    DEF RestInv, QueueInv, LinkInv, RowInv, ServeInv, Clear, ClearBelow, Fresh
  <2>5. ASSUME Running PROVE BatchInv'
    <3>1. VisitInv' /\ NextLinkInv'
      BY <2>1, <2>2, <2>3, <2>5 DEF BatchInv, VisitInv, NextLinkInv
    <3>2. NextRowInv' /\ NextServeInv'
      BY <2>1, <2>2, <2>3, <2>5
         DEF BatchInv, NextRowInv, NextServeInv, Clear, ClearBelow, Fresh
    <3> QED
      BY <3>1, <3>2 DEF BatchInv
  <2> QED
    BY <2>2, <2>4, <2>5
<1> QED
  BY <1>1, <1>2, <1>3, <1>4, <1>5, <1>6, <1>7, <1>8 DEF Next

LEMMA InvInvariant == Spec => []Inv
<1> QED
  BY InitInv, StepInv, BasicInvariant, PTL DEF Spec

(* When no job is left, the index is what it would be had everything been
   indexed anew, unless it has not been told of a change: whatever the batches
   of the jobs before have left in the working index when they failed. *)
THEOREM IndexingIsExact == Spec => []IndexIsCurrent
<1>1. Basic /\ Inv => IndexIsCurrent
  <2> SUFFICES ASSUME Basic, Inv, Idle, mishaps \subseteq {"leftover"}, NEW u \in Urls
               PROVE  IsCurrent(u, production[u])
    BY DEF IndexIsCurrent
  <2>1. Sane /\ mishaps \cap Repairable = {}
    BY DEF Sane, Irreparable, Repairable
  <2>2. Pending = {}
    BY <2>1 DEF Pending, Finds, Asks, LooksAround, Idle
  <2>3. Current(u, files, production[u])
    BY <2>1, <2>2 DEF Inv, RestInv, RowInv, Clear
  <2> QED
    BY <2>3 DEF IsCurrent, Current
<1> QED
  BY <1>1, InvInvariant, BasicInvariant, PTL

-----------------------------------------------------------------------------
(* The invariants of MetaCountsTheIndex.  No batch has failed, so that the
   working index has nothing that will not be in the index. *)
Honest == Sane /\ "leftover" \notin mishaps

Counts(row) == row.type = "entry" /\ ~row.deleted

(* Files that depend on each other only, as far as the working index knows. *)
Closed(S) == \A u \in S : working[u].deps \subseteq S

NoneInv == \A u \in Urls : working[u].type = "none" => working[u].deps = {}

(* Where nothing is pending, the working index knows no dependency that the
   index has not and the file does not lead to; ... *)
DepsInv == \A u \in Urls : Clear(u, Pending) =>
              working[u].deps \subseteq production[u].deps \cup Around(u, files)

(* ... and both, and realm_meta, have the same instances. *)
CountInv ==
    \A S \in SUBSET Urls : Closed(S) /\ S \cap Pending = {} =>
        \A i \in S \cap Instances : /\ Counts(working[i]) <=> Counts(production[i])
                                    /\ i \in meta.counts <=> Counts(production[i])

(* A batch touches all that depends on what it touches, and what it will not
   bring up to date is left to later jobs. *)
ReachInv ==
    /\ \A u \in Urls \ Touched : working[u].deps \cap Touched = {}
    /\ Pending \subseteq Remaining \cup Touched

NextDepsInv == \A u \in Urls \ Touched : Clear(u, Remaining) =>
                  working[u].deps \subseteq production[u].deps \cup Around(u, files)

MetaInv == Honest => /\ NoneInv /\ DepsInv /\ CountInv
                     /\ Running => ReachInv /\ NextDepsInv

LEMMA InitMetaInv == Init => MetaInv
<1> SUFFICES ASSUME Init PROVE MetaInv
  OBVIOUS
<1>1. /\ working = production /\ batch = NoBatch
      /\ meta.counts = {i \in Instances : files[i].ver # 0}
  BY DEF Init
<1>2. \A u \in Urls : production[u] = IF files[u].ver = 0 THEN NoRow
                                      ELSE Entry(u, files[u], files[u].refs, files)
  BY DEF Init
<1>a. ASSUME NEW u \in Urls
      PROVE  /\ Counts(production[u]) <=> files[u].ver # 0
             /\ production[u].type = "none" => production[u].deps = {}
  <2>1. CASE files[u].ver = 0
    <3>1. production[u] = NoRow
      BY <1>2, <2>1
    <3> QED
      BY <2>1, <3>1 DEF NoRow, Counts
  <2>2. CASE files[u].ver # 0
    <3>1. production[u] = Entry(u, files[u], files[u].refs, files)
      BY <1>2, <2>2
    <3>2. production[u].type = "entry" /\ ~production[u].deleted
      BY <3>1 DEF Entry
    <3> QED
      BY <2>2, <3>2 DEF Counts
  <2> QED
    BY <2>1, <2>2
<1>3. NoneInv
  BY <1>1, <1>a DEF NoneInv
<1>4. \A i \in Instances : i \in meta.counts <=> Counts(production[i])
  BY <1>1, <1>a DEF Urls
<1>5. DepsInv /\ CountInv
  BY <1>1, <1>4 DEF DepsInv, CountInv
<1> QED
  BY <1>1, <1>3, <1>5 DEF MetaInv, Running

(* What depends on nothing that is invalid is not invalidated. *)
LEMMA InvalidateLeast ==
    ASSUME NEW us \in SUBSET Urls, NEW S \in SUBSET Urls, S \cap us = {}, Closed(S)
    PROVE  S \cap Invalidate(us) = {}
<1> DEFINE T == Urls \ S
<1>1. ASSUME NEW w \in T, NEW v \in ItemsThatReference(w) PROVE v \in T
  BY DEF ItemsThatReference, Closed
<1>2. ASSUME NEW u \in us PROVE CalculateInvalidations(u) \subseteq T
  <2>1. T \in SUBSET Urls /\ u \in T
    OBVIOUS
  <2>2. ItemsThatReference(u) \subseteq T /\ \A w \in T : ItemsThatReference(w) \subseteq T
    BY <1>1, <2>1
  <2> HIDE DEF T
  <2> QED
    BY <2>1, <2>2 DEF CalculateInvalidations
<1> QED
  BY <1>2 DEF Invalidate

(* A batch touches only what is pending, and what depends on that. *)
LEMMA BeginLeast ==
    ASSUME Basic, Incremental \/ FromScratch,
           NEW S \in SUBSET Urls, Closed(S), S \cap Pending = {}
    PROVE  S \cap batch'.invalidations = {}
<1>1. jobs \in Seq(Job) /\ jobs # <<>>
  BY BeginEffect DEF Basic, TypeInv
<1>2. /\ Head(jobs) \in Job
      /\ \A v : Asks(jobs, v) <=> (Head(jobs).kind # "full" /\ Head(jobs).url = v) \/ Asks(Tail(jobs), v)
      /\ LooksAround(jobs) <=> Head(jobs).kind = "full" \/ LooksAround(Tail(jobs))
  BY <1>1, QueueTail, NotEmpty
<1>3. CASE Incremental
  <2> DEFINE I == Invalidate({Head(jobs).url})
             V == IF Head(jobs).kind = "delete" THEN I \ {Head(jobs).url} ELSE I
  <2>1. Begin(I, V) /\ Head(jobs).kind # "full"
    BY <1>3 DEF Incremental
  <2>2. batch'.invalidations = I
    BY <2>1 DEF Begin
  <2>3. Head(jobs).url \in Pending
    BY <1>2, <2>1 DEF Pending, Job
  <2>4. {Head(jobs).url} \in SUBSET Urls /\ S \cap {Head(jobs).url} = {}
    BY <2>3 DEF Pending
  <2>5. S \cap I = {}
    BY <2>4, InvalidateLeast
  <2> QED
    BY <2>2, <2>5
<1>4. CASE FromScratch
  <2> DEFINE P == {u \in Urls : files[u].ver # 0}
             O == {u \in P : Outdated(u)}
  <2>1. Head(jobs).kind = "full" /\ (Begin({}, O) \/ Begin(Invalidate(O), Invalidate(O)))
    BY <1>4 DEF FromScratch
  <2>2. batch'.invalidations = {} \/ batch'.invalidations = Invalidate(O)
    BY <2>1 DEF Begin
  <2>3. O \in SUBSET Urls /\ O \subseteq Pending
    BY <1>2, <2>1 DEF Pending, Finds
  <2> HIDE DEF O
  <2>4. S \cap Invalidate(O) = {}
    BY <2>3, InvalidateLeast
  <2> QED
    BY <2>2, <2>4
<1> QED
  BY <1>3, <1>4

LEMMA BeginMeta ==
    ASSUME Basic, Inv, MetaInv, Honest', Incremental \/ FromScratch
    PROVE  NoneInv' /\ DepsInv' /\ CountInv' /\ ReachInv' /\ NextDepsInv'
<1>0. Honest /\ QueueInv /\ LinkInv
  <2>1. Honest
    BY DEF Honest, Sane, Irreparable, FromScratch, Incremental
  <2> QED
    BY <2>1 DEF Honest, Inv, RestInv
<1>1. /\ Pending' = Pending /\ Remaining' \subseteq Pending
      /\ Pending \subseteq Remaining' \cup Touched'
      /\ batch'.invalidations \in SUBSET Urls /\ batch'.visits \in SUBSET Urls
      /\ \A u \in Urls : working'[u].deps = working[u].deps
      /\ \A u \in batch'.invalidations : working'[u].type = "entry" /\ working'[u].deleted
      /\ \A u \in Urls \ batch'.invalidations : working'[u] = working[u]
      /\ \/ \A x \in Touched', v \in Urls : x \in working[v].deps => v \in Touched'
         \/ \A u \in Urls : working[u].type = "none"
  BY <1>0, BeginPending DEF Honest
<1>2. UNCHANGED <<files, production, meta>>
  BY BeginEffect
<1>3. NoneInv /\ DepsInv /\ CountInv
  BY <1>0 DEF MetaInv
<1>4. NoneInv'
  BY <1>1, <1>3 DEF NoneInv
<1>5. DepsInv'
  BY <1>1, <1>2, <1>3 DEF DepsInv, Clear
<1>6. CountInv'
  <2> SUFFICES ASSUME NEW S \in SUBSET Urls, \A u \in S : working'[u].deps \subseteq S,
                      S \cap Pending = {}, NEW i \in S \cap Instances
               PROVE  /\ Counts(working'[i]) <=> Counts(production[i])
                      /\ i \in meta.counts <=> Counts(production[i])
    BY <1>1, <1>2 DEF CountInv, Closed, Counts
  <2>1. Closed(S)
    BY <1>1 DEF Closed
  <2>2. i \notin batch'.invalidations
    BY <2>1, BeginLeast
  <2> QED
    BY <1>1, <1>3, <2>1, <2>2 DEF CountInv
<1>7. ReachInv'
  <2>1. ASSUME NEW u \in Urls \ Touched' PROVE working'[u].deps \cap Touched' = {}
    BY <1>1, <1>3, <2>1 DEF NoneInv
  <2> QED
    BY <1>1, <2>1 DEF ReachInv
<1>8. NextDepsInv'
  <2> SUFFICES ASSUME NEW u \in Urls \ Touched', Around(u, files) \cap Remaining' = {}
               PROVE  working[u].deps \subseteq production[u].deps \cup Around(u, files)
    BY <1>1, <1>2 DEF NextDepsInv, Clear
  <2>1. u \in Around(u, files)
    BY DEF Around
  <2>2. (Around(u, files) \ {u}) \cap Pending = {} /\ (u \in Pending => u \in Remaining')
    BY <1>0, <2>1, BeginClear DEF Honest
  <2>3. Clear(u, Pending)
    BY <2>1, <2>2 DEF Clear
  <2> QED
    BY <1>3, <2>3 DEF DepsInv
<1> QED
  BY <1>4, <1>5, <1>6, <1>7, <1>8

LEMMA VisitMissingMeta ==
    ASSUME Basic, Running, Honest, MetaInv, RestInv, BatchInv,
           NEW u \in batch.visits, files[u].ver = 0,
           UNCHANGED <<files, jobs, production, meta, working, mishaps>>,
           batch' = [batch EXCEPT !.visits = @ \ {u}]
    PROVE  NoneInv' /\ DepsInv' /\ CountInv' /\ ReachInv' /\ NextDepsInv'
<1>1. /\ batch'.visits = batch.visits \ {u} /\ batch'.invalidations = batch.invalidations
      /\ u \in Urls /\ Touched' \subseteq Touched /\ Touched \subseteq Touched' \cup {u}
  BY BatchFacts DEF Touched
<1>2. NoneInv /\ DepsInv /\ CountInv /\ ReachInv /\ NextDepsInv
  BY DEF MetaInv
<1>3. Pending' = Pending /\ Remaining' = Remaining
  <2>1. ~Outdated(u)
    BY DEF Outdated, Dated
  <2> QED
    BY <1>1, <2>1 DEF Pending, Remaining, Finds, Outdated, Dated, Touched
<1>4. ASSUME u \notin Touched' PROVE working[u].deps = {} /\ u \in Remaining
  <2>1. u \notin batch.invalidations
    BY <1>1, <1>4 DEF Touched
  <2>2. working[u].type = "none" /\ Asks(Tail(jobs), u)
    BY <2>1 DEF BatchInv, VisitInv
  <2> QED
    BY <1>1, <1>2, <2>2 DEF NoneInv, Remaining
<1>5. NoneInv' /\ DepsInv' /\ CountInv'
  BY <1>2, <1>3 DEF NoneInv, DepsInv, CountInv, Clear, Closed
<1>6. ReachInv'
  BY <1>1, <1>2, <1>3, <1>4 DEF ReachInv
<1>7. NextDepsInv'
  BY <1>1, <1>2, <1>3, <1>4 DEF NextDepsInv, Clear
<1> QED
  BY <1>5, <1>6, <1>7

LEMMA VisitRowMeta ==
    ASSUME Basic, Running, Honest, MetaInv, RestInv, BatchInv, LinkInv',
           NEW u \in batch.visits, files[u].ver # 0, VisitEntry(u) \/ VisitError(u),
           UNCHANGED <<files, jobs, production, meta>>
    PROVE  NoneInv' /\ DepsInv' /\ CountInv' /\ ReachInv' /\ NextDepsInv'
<1>1. u \in Urls /\ Modules \subseteq Urls /\ Instances \subseteq Urls
      /\ files \in [Urls -> Source] /\ u \in Touched
  BY BatchFacts DEF Basic, TypeInv, Urls, Touched
<1>2. PICK row \in Row :
        /\ UpdateEntry(u, row) /\ mishaps' \in {mishaps, mishaps \cup {"unlinked"}}
        /\ row.type \in {"entry", "error"}
        /\ row.type = "error" => production[u].deps \subseteq row.deps
        /\ (\A v \in Around(u, files) \cap Modules : v \notin Remaining) =>
              /\ Current(u, files, row)
              /\ row.deps \subseteq production[u].deps \cup Around(u, files)
  BY VisitRow DEF BatchInv
<1>3. /\ working' \in [Urls -> Row] /\ working'[u] = row
      /\ \A v \in Urls \ {u} : working'[v] = working[v]
      /\ batch'.invalidations = batch.invalidations \cup {u}
      /\ batch'.visits = batch.visits \ {u}
  BY <1>2, UpdateFacts
<1>4. Touched' = Touched /\ \A v : Outdated(v)' <=> Outdated(v)
  BY <1>3 DEF Touched, Outdated, Dated
<1>5. Pending \subseteq Pending' /\ Remaining \subseteq Remaining' /\ Remaining \subseteq Pending
  <2>1. Pending \subseteq Pending' /\ Remaining \subseteq Remaining'
    BY <1>2, <1>4 DEF Pending, Remaining, Finds
  <2>2. jobs \in Seq(Job) /\ jobs # <<>>
    BY BatchFacts
  <2> QED
    BY <2>1, <2>2, QueueTail DEF Pending, Remaining, Finds
<1>6. NoneInv /\ DepsInv /\ CountInv /\ ReachInv /\ NextDepsInv
  BY DEF MetaInv
<1>7. ASSUME Around(u, files) \cap Pending' = {}
      PROVE  /\ Current(u, files, row) /\ Current(u, files, production[u])
             /\ row.deps \subseteq production[u].deps \cup Around(u, files)
             /\ working[u].deps \subseteq production[u].deps \cup Around(u, files)
  <2>1. Clear(u, Pending)
    BY <1>5, <1>7 DEF Clear
  <2>2. \A v \in Around(u, files) \cap Modules : v \notin Remaining
    BY <1>5, <1>7
  <2> QED
    BY <1>1, <1>2, <1>6, <2>1, <2>2 DEF DepsInv, RestInv, RowInv
<1>8. NoneInv'
  <2> SUFFICES ASSUME NEW v \in Urls, working'[v].type = "none" PROVE working'[v].deps = {}
    BY DEF NoneInv
  <2>1. v # u
    BY <1>2, <1>3
  <2> QED
    BY <1>3, <1>6, <2>1 DEF NoneInv
<1>9. DepsInv'
  <2> SUFFICES ASSUME NEW v \in Urls, Around(v, files) \cap Pending' = {}
               PROVE  working'[v].deps \subseteq production[v].deps \cup Around(v, files)
    BY DEF DepsInv, Clear
  <2>1. CASE v = u
    BY <1>3, <1>7, <2>1
  <2>2. CASE v # u
    BY <1>3, <1>5, <1>6, <2>2 DEF DepsInv, Clear
  <2> QED
    BY <2>1, <2>2
<1>10. CountInv'
  <2> SUFFICES ASSUME NEW S \in SUBSET Urls, \A v \in S : working'[v].deps \subseteq S,
                      S \cap Pending' = {}, NEW i \in S \cap Instances
               PROVE  /\ Counts(working'[i]) <=> Counts(production[i])
                      /\ i \in meta.counts <=> Counts(production[i])
    BY DEF CountInv, Closed, Counts
  <2>1. ASSUME NEW x \in S PROVE files[x].refs \subseteq S
    <3>1. CASE files[x].ver = 0
      BY <3>1 DEF Basic, VersionInv
    <3>2. CASE files[x].ver # 0
      <4>1. Linked(x, files, working'[x])
        BY <3>2 DEF LinkInv
      <4> QED
        BY <4>1 DEF Linked
    <3> QED
      BY <3>1, <3>2
  <2>2. ASSUME u \in S PROVE Around(u, files) \subseteq S
    <3> DEFINE T == S \cap Modules
    <3>1. T \in SUBSET Modules /\ files[u].refs \in SUBSET Modules
          /\ files[u].refs \subseteq T /\ \A v \in T : files[v].refs \subseteq T
      BY <1>1, <2>1, <2>2, BasicFacts
    <3> HIDE DEF T
    <3>2. Reach(files[u].refs, files) \subseteq T
      BY <3>1, ReachLeast
    <3> QED
      BY <2>2, <3>2 DEF T, Around
  <2>3. ASSUME u \in S
        PROVE  production[u].deps \subseteq S /\ (Counts(row) <=> Counts(production[u]))
    <3>1. /\ Around(u, files) \subseteq S /\ Current(u, files, row)
          /\ Current(u, files, production[u]) /\ row.deps \subseteq S
      BY <1>3, <1>7, <2>2, <2>3
    <3>2. CASE Loads(files[u].refs, files)
      BY <3>1, <3>2 DEF Current
    <3>3. CASE ~Loads(files[u].refs, files)
      BY <1>2, <3>1, <3>3 DEF Current, Counts
    <3> QED
      BY <3>2, <3>3
  <2>4. ASSUME u \in S PROVE working[u].deps \subseteq S
    BY <1>7, <2>2, <2>3, <2>4
  <2>5. Closed(S)
    BY <1>3, <2>4 DEF Closed
  <2>6. /\ Counts(working[i]) <=> Counts(production[i])
        /\ i \in meta.counts <=> Counts(production[i])
    BY <1>5, <1>6, <2>5 DEF CountInv
  <2> QED
    BY <1>1, <1>3, <2>3, <2>6
<1>11. ReachInv'
  <2>1. Pending' \subseteq Remaining' \cup Touched'
    <3> SUFFICES ASSUME NEW v \in Pending' \ Touched PROVE v \in Remaining'
      BY <1>4
    <3>1. CASE v \in Pending
      BY <1>5, <1>6, <3>1 DEF ReachInv
    <3>2. CASE v \notin Pending
      <4>1. v \in Urls /\ Outdated(v) /\ mishaps' \cap Repairable # {}
        BY <1>4, <3>2 DEF Pending, Finds
      <4> QED
        BY <1>4, <4>1 DEF Remaining, Finds
    <3> QED
      BY <3>1, <3>2
  <2>2. ASSUME NEW v \in Urls \ Touched PROVE working'[v].deps \cap Touched = {}
    BY <1>1, <1>3, <1>6, <2>2 DEF ReachInv
  <2> QED
    BY <1>4, <2>1, <2>2 DEF ReachInv
<1>12. NextDepsInv'
  <2> SUFFICES ASSUME NEW v \in Urls \ Touched, Around(v, files) \cap Remaining' = {}
               PROVE  working'[v].deps \subseteq production[v].deps \cup Around(v, files)
    BY <1>4 DEF NextDepsInv, Clear
  <2> QED
    BY <1>1, <1>3, <1>5, <1>6 DEF NextDepsInv, Clear
<1> QED
  BY <1>8, <1>9, <1>10, <1>11, <1>12

LEMMA DoneMeta ==
    ASSUME Basic, MetaInv, Honest', Done
    PROVE  NoneInv' /\ DepsInv' /\ CountInv'
<1>1. /\ Running /\ batch.visits = {} /\ UNCHANGED <<files, working, mishaps>>
      /\ Touched = batch.invalidations
      /\ meta'.counts = Counted
      /\ \A u \in Urls : production'[u] = IF u \in batch.invalidations THEN working[u]
                                          ELSE production[u]
  BY DoneEffect DEF Touched
<1>2. Remaining \subseteq Pending'
  BY DonePending
<1>3. NoneInv /\ DepsInv /\ CountInv /\ ReachInv /\ NextDepsInv
  BY <1>1 DEF MetaInv, Honest, Sane
<1>4. NoneInv'
  BY <1>1, <1>3 DEF NoneInv
<1>5. DepsInv'
  <2> SUFFICES ASSUME NEW u \in Urls, Around(u, files) \cap Pending' = {}
               PROVE  working[u].deps \subseteq production'[u].deps \cup Around(u, files)
    BY <1>1 DEF DepsInv, Clear
  <2> QED
    BY <1>1, <1>2, <1>3 DEF NextDepsInv, Clear
<1>6. CountInv'
  <2> SUFFICES ASSUME NEW S \in SUBSET Urls, Closed(S), S \cap Pending' = {},
                      NEW i \in S \cap Instances
               PROVE  /\ Counts(working[i]) <=> Counts(production'[i])
                      /\ i \in meta'.counts <=> Counts(production'[i])
    BY <1>1 DEF CountInv, Closed, Counts
  <2>1. i \in Counted <=> Counts(working[i])
    BY DEF Counted, Counts
  <2>2. CASE i \in batch.invalidations
    BY <1>1, <2>1, <2>2
  <2>3. CASE i \notin batch.invalidations
    <3> DEFINE T == S \ Touched
    <3>1. T \in SUBSET Urls /\ Closed(T) /\ T \cap Pending = {} /\ i \in T \cap Instances
      BY <1>1, <1>2, <1>3, <2>3 DEF Closed, ReachInv
    <3> HIDE DEF T
    <3>2. Counts(working[i]) <=> Counts(production[i])
      BY <1>3, <3>1 DEF CountInv
    <3> QED
      BY <1>1, <2>1, <2>3, <3>2
  <2> QED
    BY <2>2, <2>3
<1> QED
  BY <1>4, <1>5, <1>6

LEMMA ChangeMeta ==
    ASSUME Basic, MetaInv, Honest', NEW w \in Urls, Write(w) \/ Delete(w) \/ Restart(w)
    PROVE  NoneInv' /\ DepsInv' /\ CountInv' /\ (Running => ReachInv' /\ NextDepsInv')
<1>1. UNCHANGED <<working, production, meta, batch>> /\ mishaps \subseteq mishaps'
  BY FileEffect
<1>2. /\ Pending \subseteq Pending' /\ w \in Pending'
      /\ Running => /\ Remaining \subseteq Remaining' /\ w \in Remaining'
                    /\ Pending' \subseteq Pending \cup {w}
  BY ChangePending DEF Honest
<1>3. NoneInv /\ DepsInv /\ CountInv /\ (Running => ReachInv /\ NextDepsInv)
  BY <1>1 DEF MetaInv, Honest, Sane
<1>4. ASSUME NEW u \in Urls, w \notin Around(u, files')
      PROVE  Around(u, files) = Around(u, files')
  BY <1>4, ChangeEffect, ChangeAround DEF Honest
<1>5. Touched' = Touched
  BY <1>1 DEF Touched
<1>6. NoneInv' /\ CountInv'
  BY <1>1, <1>2, <1>3 DEF NoneInv, CountInv, Closed
<1>7. DepsInv'
  <2> SUFFICES ASSUME NEW u \in Urls, Around(u, files') \cap Pending' = {}
               PROVE  working[u].deps \subseteq production[u].deps \cup Around(u, files')
    BY <1>1 DEF DepsInv, Clear
  <2> QED
    BY <1>2, <1>3, <1>4 DEF DepsInv, Clear
<1>8. ASSUME Running PROVE ReachInv' /\ NextDepsInv'
  <2>1. ReachInv'
    BY <1>1, <1>2, <1>3, <1>5, <1>8 DEF ReachInv
  <2>2. ASSUME NEW u \in Urls \ Touched, Around(u, files') \cap Remaining' = {}
        PROVE  working[u].deps \subseteq production[u].deps \cup Around(u, files')
    BY <1>2, <1>3, <1>4, <1>8, <2>2 DEF NextDepsInv, Clear
  <2> QED
    BY <1>1, <1>5, <2>1, <2>2 DEF NextDepsInv, Clear
<1> QED
  BY <1>6, <1>7, <1>8

LEMMA StepMetaInv == Basic /\ Inv /\ MetaInv /\ [Next]_vars => MetaInv'
<1> SUFFICES ASSUME Basic, Inv, MetaInv, [Next]_vars, Honest'
             PROVE  NoneInv' /\ DepsInv' /\ CountInv' /\ (Running' => ReachInv' /\ NextDepsInv')
  BY DEF MetaInv
<1>1. ASSUME NEW u \in Urls, Write(u) \/ Delete(u) \/ Restart(u)
      PROVE  NoneInv' /\ DepsInv' /\ CountInv' /\ (Running' => ReachInv' /\ NextDepsInv')
  <2>1. Running' <=> Running
    BY <1>1, FileEffect DEF Running
  <2> QED
    BY <1>1, <2>1, ChangeMeta
<1>2. CASE Incremental \/ FromScratch
  BY <1>2, BeginMeta
<1>3. ASSUME NEW u \in Urls, Visit(u)
      PROVE  NoneInv' /\ DepsInv' /\ CountInv' /\ (Running' => ReachInv' /\ NextDepsInv')
  <2>1. /\ Running /\ u \in batch.visits /\ UNCHANGED <<files, jobs, production, meta>>
        /\ VisitEntry(u) \/ VisitError(u) \/ VisitMissing(u)
        /\ mishaps \subseteq mishaps'
    BY <1>3, VisitEffect DEF Visit, Basic
  <2>2. Honest /\ RestInv /\ BatchInv
    BY <2>1 DEF Inv, Honest, Sane
  <2>3. CASE VisitMissing(u)
    BY <2>1, <2>2, <2>3, VisitMissingMeta DEF VisitMissing
  <2>4. CASE VisitEntry(u) \/ VisitError(u)
    <3>1. files[u].ver # 0
      BY <2>4 DEF VisitEntry, VisitError
    <3>2. LinkInv'
      BY <2>1, <2>2, <2>4, <3>1, VisitRowInv DEF Honest, RestInv
    <3> QED
      BY <2>1, <2>2, <2>4, <3>1, <3>2, VisitRowMeta
  <2> QED
    BY <2>1, <2>3, <2>4
<1>4. CASE Done
  BY <1>4, DoneMeta, DoneEffect
<1>5. CASE Fail
  BY <1>5 DEF Fail, Honest
<1>6. CASE WorkerDies
  <2>1. UNCHANGED <<files, jobs, working, production, meta, mishaps>> /\ ~Running'
    BY <1>6 DEF WorkerDies, disk, index, Running
  <2>2. Pending' = Pending
    BY <2>1 DEF Pending, Finds, Outdated, Dated
  <2>3. NoneInv /\ DepsInv /\ CountInv
    BY <2>1 DEF MetaInv, Honest, Sane
  <2> QED
    BY <2>1, <2>2, <2>3 DEF NoneInv, DepsInv, CountInv, Clear, Closed
<1>7. CASE DatabaseCrashes
  BY <1>7 DEF DatabaseCrashes, Honest, Sane, Irreparable
<1>8. CASE UNCHANGED vars
  <2>1. UNCHANGED <<files, jobs, working, production, meta, batch, mishaps>>
    BY <1>8 DEF vars, disk, index
  <2>2. Pending' = Pending /\ Remaining' = Remaining /\ Touched' = Touched
    BY <2>1 DEF Pending, Remaining, Touched, Finds, Outdated, Dated
  <2>3. /\ NoneInv /\ DepsInv /\ CountInv /\ (Running => ReachInv /\ NextDepsInv)
        /\ Running' <=> Running
    BY <2>1 DEF MetaInv, Honest, Sane, Running
  <2>4. NoneInv' /\ DepsInv' /\ CountInv'
    BY <2>1, <2>2, <2>3 DEF NoneInv, DepsInv, CountInv, Clear, Closed
  <2>5. ASSUME Running PROVE ReachInv' /\ NextDepsInv'
    BY <2>1, <2>2, <2>3, <2>5 DEF ReachInv, NextDepsInv, Clear
  <2> QED
    BY <2>3, <2>4, <2>5
<1> QED
  BY <1>1, <1>2, <1>3, <1>4, <1>5, <1>6, <1>7, <1>8 DEF Next

(* When no job is left, realm_meta counts the instances searches find, though
   it counts those of the working index. *)
THEOREM MetaIsExact == Spec => []MetaCountsTheIndex
<1>1. Basic /\ MetaInv => MetaCountsTheIndex
  <2> SUFFICES ASSUME Basic, MetaInv, Idle, mishaps = {}
               PROVE  meta.counts = {i \in Instances : Counts(production[i])}
    BY DEF MetaCountsTheIndex, Counts
  <2>1. Honest
    BY DEF Honest, Sane
  <2>2. Pending = {}
    BY DEF Pending, Finds, Asks, LooksAround, Idle
  <2>3. Closed(Urls) /\ Instances \subseteq Urls /\ meta.counts \subseteq Instances
    BY BasicFacts DEF Closed, Urls, Basic, TypeInv
  <2>4. \A i \in Urls \cap Instances : i \in meta.counts <=> Counts(production[i])
    BY <2>1, <2>2, <2>3 DEF MetaInv, CountInv
  <2> QED
    BY <2>3, <2>4
<1> QED
  BY <1>1, InitMetaInv, StepMetaInv, InvInvariant, BasicInvariant, PTL DEF Spec
=============================================================================
