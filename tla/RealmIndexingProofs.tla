------------------------ MODULE RealmIndexingProofs ------------------------
(***************************************************************************)
(* Theorems about RealmIndexing, for any operations, requests, paths and   *)
(* number of failures: a write that was answered is in the index, and      *)
(* patches compose.                                                        *)
(***************************************************************************)
EXTENDS RealmIndexing, SequenceLemmas, TLAPS

(* An operation has changed its file, or is a full indexing under way. *)
Changed(o) == at[o] \in {"written", "preparing", "queued", "indexed", "unindexed"}

Writes(o) == Kind(o) \in {"post", "patch"}

(* Which kinds get where; the job that runs is the first of its operation, and
   what it reads and changes is its own. *)
PhaseInv ==
    /\ \A o \in Ops : /\ at[o] = "found" => Kind(o) \in {"patch", "delete"}
                      /\ at[o] = "awaiting" => Writes(o)
                      /\ at[o] = "written" => Kind(o) # "full"
                      /\ Changed(o) /\ at[o] # "written" => deferreds # <<>>
    /\ \A i, j \in DOMAIN queue : queue[i] = queue[j] => i = j
    /\ running = Nobody => visits = {} /\ batch = NoBatch
    /\ running # Nobody =>
          CASE Writes(running) -> /\ visits \subseteq {File(running)}
                                  /\ DOMAIN batch = {File(running)}
            [] Kind(running) = "delete" -> visits = {} /\ DOMAIN batch = {File(running)}
            [] Kind(running) = "full" -> TRUE

(* Operations that are under way together have all overlapped. *)
OverlapInv == \A o, b \in Active : o # b => o \in overlapped

(* A version is the last of its file unless another operation has made one; a
   file that was written is there unless another operation has removed it. *)
FileInv ==
    /\ \A o \in Ops : wrote[o] <= files[File(o)].ver
    /\ \A o \in Ops : Changed(o) =>
          \/ DeleteRaced(File(o))
          \/ /\ Kind(o) = "delete" => wrote[o] = files[File(o)].ver
             /\ Writes(o) => files[File(o)].ops # {}
    /\ \A p \in visits : files[p].ops # {} \/ DeleteRaced(p)

(* The row of a file is as new as what o has written. *)
Reflects(o, row) == wrote[o] <= row.ver \/ DeleteRaced(File(o))

Indexed(o) == Kind(o) # "full" /\ at[o] \in {"indexed", "done"}

IndexInv ==
    /\ \A o \in Ops : Indexed(o) => Reflects(o, index[File(o)])
    /\ \A p \in DOMAIN batch \ visits, o \in Ops :
          File(o) = p /\ (Indexed(o) \/ (o = running /\ Kind(o) # "full")) =>
              Reflects(o, batch[p])

(* The job of an operation will still read the file. *)
ToBeRead(p) ==
    \E o \in Ops : /\ File(o) = p /\ Kind(o) # "full"
                   /\ at[o] \in {"written", "preparing", "queued"}
                   /\ o # running \/ p \in visits

(* The index misses nothing that is in a file, once the job that runs is done
   and the others that will read it are; it may have lost the file altogether.
   A patch that is alone starts from all there is. *)
ComposeInv ==
    failures = 0 =>
        /\ \A p \in Paths : \/ ToBeRead(p)
                            \/ Applied[p].ops = {}
                            \/ files[p].ops \subseteq Applied[p].ops
        /\ \A o \in Ops : at[o] \in {"found", "awaiting"} /\ Kind(o) = "patch"
                             /\ o \notin overlapped =>
              files[File(o)].ops \subseteq original[o]

Inv == TypeOK /\ PhaseInv /\ OverlapInv /\ FileInv /\ IndexInv

-----------------------------------------------------------------------------
LEMMA Types ==
    ASSUME TypeOK
    PROVE  /\ \A o \in Ops : /\ Kind(o) \in Kinds /\ File(o) \in Paths
                             /\ wrote[o] \in Nat
                             /\ files[File(o)] \in Content /\ files[File(o)].ver \in Nat
                             /\ index[File(o)] \in Content /\ index[File(o)].ver \in Nat
           /\ \A p \in DOMAIN batch : batch[p] \in Content /\ batch[p].ver \in Nat
           /\ Len(queue) \in Nat /\ DOMAIN queue = 1..Len(queue)
           /\ \A k \in DOMAIN queue : queue[k] \in Ops
           /\ Len(deferreds) \in Nat /\ DOMAIN deferreds = 1..Len(deferreds)
<1>1. queue \in Seq(Ops) /\ deferreds \in Seq({"pending", "fulfilled", "rejected"})
  BY DEF TypeOK
<1>2. Len(queue) \in Nat /\ DOMAIN queue = 1..Len(queue)
      /\ \A k \in 1..Len(queue) : queue[k] \in Ops
  BY <1>1, LenProperties, ElementOfSeq, Zenon
<1>3. Len(deferreds) \in Nat /\ DOMAIN deferreds = 1..Len(deferreds)
  BY <1>1, LenProperties, Zenon
<1>4. \A o \in Ops : Kind(o) \in Kinds /\ File(o) \in Paths
  BY DEF TypeOK, Kind, File
<1>5. \A p \in Paths : files[p] \in Content /\ index[p] \in Content
  BY DEF TypeOK
<1>6. \A c \in Content : c.ver \in Nat
  BY DEF Content
<1>7. /\ \A o \in Ops : wrote[o] \in Nat
      /\ \A p \in DOMAIN batch : batch[p] \in Content
  BY DEF TypeOK
<1> QED
  BY <1>2, <1>3, <1>4, <1>5, <1>6, <1>7

LEMMA InitInv == Init => Inv /\ ComposeInv
<1> SUFFICES ASSUME Init PROVE Inv /\ ComposeInv
  OBVIOUS
<1>1. /\ request \in [Ops -> [kind : Kinds, path : Paths]]
      /\ <<>> \in Seq(Ops) /\ <<>> \in Seq({"pending", "fulfilled", "rejected"})
      /\ Len(<<>>) = 0 /\ DOMAIN <<>> = {} /\ ToSet(<<>>) = {}
  BY RequestsAssumption, EmptySeq DEF Init, ToSet
<1>2. \A p \in Paths : files[p] \in Content /\ files[p].ver = 1 /\ files[p].ops = {Original}
  BY DEF Init, Content
<1>3. TypeOK
  <2>1. /\ at \in [Ops -> {"idle", "found", "awaiting", "written", "preparing",
                           "queued", "indexed", "unindexed"} \cup Ended]
        /\ original \in [Ops -> SUBSET (Ops \cup {Original})]
        /\ awaited \in [Ops -> 0..Len(deferreds)] /\ wrote \in [Ops -> Nat]
    BY <1>1 DEF Init
  <2>2. files \in [Paths -> Content] /\ index \in [Paths -> Content]
    BY <1>2 DEF Init
  <2>3. queue \in Seq(Ops) /\ deferreds \in Seq({"pending", "fulfilled", "rejected"})
        /\ \A o \in Ops : at[o] = "queued" <=> o \in ToSet(queue)
    BY <1>1 DEF Init
  <2>4. running = Nobody /\ visits = {} /\ DOMAIN batch = {} /\ overlapped = {} /\ failures = 0
    BY DEF Init, NoBatch
  <2> QED
    BY <1>1, <2>1, <2>2, <2>3, <2>4, NobodyAssumption DEF TypeOK
<1>4. PhaseInv /\ OverlapInv
  BY <1>1 DEF Init, PhaseInv, OverlapInv, Changed, Active
<1>5. FileInv /\ IndexInv
  BY <1>1, <1>2, <1>3, Types
     DEF Init, FileInv, IndexInv, Changed, Indexed, NoBatch
<1>6. ComposeInv
  <2>1. \A p \in Paths : Applied[p] = index[p]
    BY DEF Init, Applied, NoBatch
  <2> QED
    BY <2>1 DEF Init, ComposeInv
<1> QED
  BY <1>3, <1>4, <1>5, <1>6 DEF Inv

(* An operation that only goes from one place to another keeps what the
   invariants say of the files and of the index. *)
LEMMA MoveInv ==
    ASSUME Inv, ComposeInv, NEW o \in Ops, NEW where, at' = [at EXCEPT ![o] = where],
           at \in [Ops -> {"idle", "found", "awaiting", "written", "preparing",
                           "queued", "indexed", "unindexed"} \cup Ended],
           UNCHANGED <<request, wrote, files, index, running, visits, batch>>,
           overlapped \subseteq overlapped',
           where \in {"written", "preparing", "queued", "indexed", "unindexed"} =>
               Changed(o) \/ Kind(o) = "full",
           where \in {"indexed", "done"} => at[o] \in {"indexed", "done"},
           at[o] \in {"written", "preparing", "queued"} =>
               where \in {"written", "preparing", "queued"} \/ failures' # 0,
           failures' = 0 => failures = 0,
           \A b \in Ops \ {o} : original'[b] = original[b],
           failures' = 0 /\ where \in {"found", "awaiting"} /\ Kind(o) = "patch"
               /\ o \notin overlapped' => files[File(o)].ops \subseteq original'[o]
    PROVE  FileInv' /\ IndexInv' /\ ComposeInv'
<1>1. \A p \in Paths : DeleteRaced(p) => DeleteRaced(p)'
  BY DEF DeleteRaced, Kind, File
<1>2. \A b \in Ops : Kind(b)' = Kind(b) /\ File(b)' = File(b) /\ (Writes(b)' <=> Writes(b))
                     /\ (b # o => at'[b] = at[b])
  BY DEF Kind, File, Writes
<1>3. \A b \in Ops : Changed(b)' => Changed(b) \/ Kind(b) = "full"
  BY <1>2 DEF Changed
<1>4. FileInv'
  <2>1. \A b \in Ops : wrote'[b] <= files'[File(b)'].ver
    BY <1>2 DEF Inv, FileInv
  <2>2. ASSUME NEW b \in Ops, Changed(b)'
        PROVE  \/ DeleteRaced(File(b))'
               \/ /\ Kind(b)' = "delete" => wrote'[b] = files'[File(b)'].ver
                  /\ Writes(b)' => files'[File(b)'].ops # {}
    <3>1. CASE Kind(b) = "full"
      BY <1>2, <3>1 DEF Writes
    <3>2. CASE Changed(b)
      <4>1. DeleteRaced(File(b)) => DeleteRaced(File(b))'
        BY <1>1, <1>2 DEF DeleteRaced, Kind, File
      <4> QED
        BY <1>2, <3>2, <4>1 DEF Inv, FileInv
    <3> QED
      BY <1>3, <2>2, <3>1, <3>2
  <2>3. \A p \in visits' : files'[p].ops # {} \/ DeleteRaced(p)'
    BY <1>1 DEF Inv, FileInv, TypeOK
  <2> QED
    BY <2>1, <2>2, <2>3 DEF FileInv
<1>5. \A b \in Ops : Indexed(b)' => Indexed(b)
  BY <1>2 DEF Indexed
<1>6. IndexInv'
  <2>1. ASSUME NEW b \in Ops, NEW row, Reflects(b, row)
        PROVE  wrote'[b] <= row.ver \/ DeleteRaced(File(b))'
    BY <1>1, <1>2, <2>1 DEF Reflects, DeleteRaced, Kind, File
  <2>2. ASSUME NEW b \in Ops, Indexed(b)'
        PROVE  Reflects(b, index[File(b)])'
    BY <1>2, <1>5, <2>1, <2>2 DEF Inv, IndexInv, Reflects
  <2>3. ASSUME NEW p \in DOMAIN batch \ visits, NEW b \in Ops, File(b) = p,
               Indexed(b)' \/ (b = running /\ Kind(b) # "full")
        PROVE  Reflects(b, batch[p])'
    BY <1>2, <1>5, <2>1, <2>3 DEF Inv, IndexInv, Reflects
  <2> QED
    BY <1>2, <2>2, <2>3 DEF IndexInv
<1>7. Applied' = Applied
  BY DEF Applied
<1>8. ASSUME NEW p \in Paths, ToBeRead(p), ~ (failures' # 0) PROVE ToBeRead(p)'
  <2>1. PICK b \in Ops : /\ File(b) = p /\ Kind(b) # "full"
                         /\ at[b] \in {"written", "preparing", "queued"}
                         /\ b # running \/ p \in visits
    BY <1>8 DEF ToBeRead
  <2>2. at'[b] \in {"written", "preparing", "queued"}
    BY <1>2, <1>8, <2>1
  <2> QED
    BY <1>2, <2>1, <2>2 DEF ToBeRead
<1>9. ComposeInv'
  <2> SUFFICES ASSUME failures' = 0 PROVE ComposeInv'
    BY DEF ComposeInv
  <2>1. ASSUME NEW p \in Paths
        PROVE  (ToBeRead(p) \/ Applied[p].ops = {} \/ files[p].ops \subseteq Applied[p].ops)'
    <3>1. ToBeRead(p) \/ Applied[p].ops = {} \/ files[p].ops \subseteq Applied[p].ops
      BY DEF ComposeInv
    <3>2. ToBeRead(p) => ToBeRead(p)'
      BY <1>8
    <3> QED
      BY <1>7, <3>1, <3>2
  <2>2. ASSUME NEW b \in Ops, at'[b] \in {"found", "awaiting"}, Kind(b)' = "patch",
               b \notin overlapped'
        PROVE  files'[File(b)'].ops \subseteq original'[b]
    <3>1. CASE b = o
      BY <1>2, <2>2, <3>1
    <3>2. CASE b # o
      BY <1>2, <2>2, <3>2 DEF ComposeInv
    <3> QED
      BY <3>1, <3>2
  <2> QED
    BY <2>1, <2>2 DEF ComposeInv
<1> QED
  BY <1>4, <1>6, <1>9

LEMMA MoveTypes ==
    ASSUME TypeOK, NEW o \in Ops,
           NEW where \in {"idle", "found", "awaiting", "written", "preparing", "queued",
                          "indexed", "unindexed"} \cup Ended,
           at' = [at EXCEPT ![o] = where],
           UNCHANGED <<request, wrote, files, index, running, visits, batch>>,
           original' \in [Ops -> SUBSET (Ops \cup {Original})],
           awaited' \in [Ops -> 0..Len(deferreds')],
           deferreds' \in Seq({"pending", "fulfilled", "rejected"}),
           at[o] # "queued",
           \/ queue' = queue /\ where # "queued"
           \/ queue' = Append(queue, o) /\ where = "queued",
           overlapped' \subseteq Ops, failures' \in Nat
    PROVE  TypeOK'
<1>1. at' \in [Ops -> {"idle", "found", "awaiting", "written", "preparing",
                       "queued", "indexed", "unindexed"} \cup Ended]
  BY DEF TypeOK
<1>2. /\ queue' \in Seq(Ops) /\ ToSet(queue) \subseteq ToSet(queue')
      /\ \A b \in Ops : at'[b] = "queued" <=> b \in ToSet(queue')
  <2>1. queue \in Seq(Ops)
    BY DEF TypeOK
  <2>2. CASE queue' = queue /\ where # "queued"
    BY <2>1, <2>2 DEF TypeOK
  <2>3. CASE queue' = Append(queue, o) /\ where = "queued"
    <3>1. queue' \in Seq(Ops) /\ ToSet(queue') = ToSet(queue) \cup {o}
      <4>1. Append(queue, o) \in Seq(Ops)
        BY <2>1, AppendFacts
      <4>2. ToSet(Append(queue, o)) = ToSet(queue) \cup {o}
        BY <2>1, AppendSet
      <4> QED
        BY <2>3, <4>1, <4>2
    <3> QED
      BY <2>3, <3>1 DEF TypeOK
  <2> QED
    BY <2>2, <2>3
<1>3. running' # Nobody => running' \in ToSet(queue')
  BY <1>2 DEF TypeOK
<1> QED
  BY <1>1, <1>2, <1>3 DEF TypeOK

LEMMA MovePhase ==
    ASSUME Inv, NEW o \in Ops, NEW where, at' = [at EXCEPT ![o] = where],
           UNCHANGED <<request, running, visits, batch>>,
           queue' = queue \/ \A i, j \in DOMAIN queue' : queue'[i] = queue'[j] => i = j,
           where = "found" => Kind(o) \in {"patch", "delete"},
           where = "awaiting" => Writes(o),
           where = "written" => Kind(o) # "full",
           where \in {"preparing", "queued", "indexed", "unindexed"} => deferreds' # <<>>,
           deferreds # <<>> => deferreds' # <<>>
    PROVE  PhaseInv'
<1>1. \A b \in Ops : /\ Kind(b)' = Kind(b) /\ File(b)' = File(b) /\ (Writes(b)' <=> Writes(b))
                     /\ at'[b] = IF b = o THEN where ELSE at[b]
  BY DEF Kind, File, Writes, Inv, TypeOK
<1>2. ASSUME NEW b \in Ops
      PROVE  /\ at'[b] = "found" => Kind(b)' \in {"patch", "delete"}
             /\ at'[b] = "awaiting" => Writes(b)'
             /\ at'[b] = "written" => Kind(b)' # "full"
             /\ Changed(b)' /\ at'[b] # "written" => deferreds' # <<>>
  <2>1. CASE b = o
    BY <1>1, <2>1 DEF Changed
  <2>2. CASE b # o
    BY <1>1, <2>2 DEF Inv, PhaseInv, Changed
  <2> QED
    BY <2>1, <2>2
<1>3. /\ \A i, j \in DOMAIN queue' : queue'[i] = queue'[j] => i = j
      /\ running' = Nobody => visits' = {} /\ batch' = NoBatch'
  BY DEF Inv, PhaseInv, NoBatch
<1>4. running' # Nobody =>
        CASE Writes(running)' -> /\ visits' \subseteq {File(running)'}
                                 /\ DOMAIN batch' = {File(running)'}
          [] Kind(running)' = "delete" -> visits' = {} /\ DOMAIN batch' = {File(running)'}
          [] Kind(running)' = "full" -> TRUE
  BY DEF Inv, PhaseInv, Writes, Kind, File
<1> QED
  BY <1>2, <1>3, <1>4 DEF PhaseInv

(* Whoever begins while others are under way has overlapped with them, and
   they with it. *)
LEMMA MoveOverlap ==
    ASSUME TypeOK, OverlapInv, NEW o \in Ops, NEW where, at' = [at EXCEPT ![o] = where],
           \/ o \in Active /\ overlapped' = overlapped
           \/ overlapped' = IF Active = {} THEN overlapped ELSE overlapped \cup Active \cup {o}
    PROVE  OverlapInv' /\ overlapped \subseteq overlapped' /\ overlapped' \subseteq Ops
<1>1. \A b \in Ops : at'[b] = IF b = o THEN where ELSE at[b]
  BY DEF TypeOK
<1>2. Active' \subseteq Active \cup {o} /\ Active \subseteq Ops /\ overlapped \subseteq Ops
  BY <1>1 DEF Active, TypeOK
<1>3. CASE o \in Active /\ overlapped' = overlapped
  BY <1>2, <1>3 DEF OverlapInv
<1>4. CASE overlapped' = IF Active = {} THEN overlapped ELSE overlapped \cup Active \cup {o}
  BY <1>2, <1>4 DEF OverlapInv
<1> QED
  BY <1>2, <1>3, <1>4

-----------------------------------------------------------------------------
LEMMA LookUpInv ==
    ASSUME Inv, ComposeInv, NEW o \in Ops, NEW content \in {index, files}, LookUp(o, content)
    PROVE  Inv' /\ ComposeInv'
<1> DEFINE where == IF content[File(o)].ops = {} THEN "notFound" ELSE "found"
<1>0. TypeOK
  BY DEF Inv
<1>1. /\ at[o] = "idle" /\ at' = [at EXCEPT ![o] = where]
      /\ overlapped' = IF Active = {} THEN overlapped ELSE overlapped \cup Active \cup {o}
      /\ failures' = failures
      /\ UNCHANGED <<request, awaited, wrote, files, index, deferreds,
                     queue, running, visits, batch>>
      /\ Kind(o) \in {"delete", "patch"} /\ (Kind(o) = "patch" => content = index)
      /\ original' = [original EXCEPT ![o] =
                         IF Kind(o) = "patch" THEN content[File(o)].ops ELSE {}]
  BY DEF LookUp, Begin, Goto, job
<1>2. where \in {"notFound", "found"} /\ (where = "found" => content[File(o)].ops # {})
  OBVIOUS
<1>3. /\ original' \in [Ops -> SUBSET (Ops \cup {Original})]
      /\ original'[o] = IF Kind(o) = "patch" THEN content[File(o)].ops ELSE {}
      /\ \A b \in Ops \ {o} : original'[b] = original[b]
  <2>1. content[File(o)].ops \in SUBSET (Ops \cup {Original})
    BY <1>0, Types DEF Content
  <2> QED
    BY <1>0, <1>1, <2>1 DEF TypeOK
<1> HIDE DEF where
<1>4. OverlapInv' /\ overlapped \subseteq overlapped' /\ overlapped' \subseteq Ops
  BY <1>1, MoveOverlap DEF Inv
<1>5. TypeOK'
  BY <1>0, <1>1, <1>2, <1>3, <1>4, MoveTypes DEF TypeOK, Ended
<1>6. PhaseInv'
  BY <1>1, <1>2, MovePhase
<1>7. failures' = 0 /\ where \in {"found", "awaiting"} /\ Kind(o) = "patch"
        /\ o \notin overlapped' => files[File(o)].ops \subseteq original'[o]
  <2> SUFFICES ASSUME failures = 0, where = "found", Kind(o) = "patch", o \notin overlapped'
               PROVE  files[File(o)].ops \subseteq original'[o]
    BY <1>1, <1>2
  <2>1. Active = {}
    BY <1>1
  <2>2. \A b \in Ops : at[b] \in Ended \cup {"idle"}
    BY <2>1 DEF Active
  <2>3. \A p \in Paths : ~ ToBeRead(p)
    BY <2>2 DEF ToBeRead, Ended
  <2>4. running = Nobody
    BY <1>0, <2>2 DEF TypeOK, Ended
  <2>5. Applied = index
    <3>1. batch = NoBatch
      BY <2>4 DEF Inv, PhaseInv
    <3>2. index = [p \in Paths |-> index[p]]
      BY <1>0 DEF TypeOK
    <3> QED
      BY <3>1, <3>2 DEF Applied, NoBatch
  <2>6. File(o) \in Paths /\ index[File(o)].ops # {}
    BY <1>0, <1>1, <1>2, Types
  <2> QED
    BY <1>1, <1>3, <2>3, <2>5, <2>6 DEF ComposeInv
<1>8. FileInv' /\ IndexInv' /\ ComposeInv'
  BY <1>0, <1>1, <1>2, <1>3, <1>4, <1>7, MoveInv DEF TypeOK
<1> QED
  BY <1>4, <1>5, <1>6, <1>8 DEF Inv

LEMMA BeginWriteInv ==
    ASSUME Inv, ComposeInv, NEW o \in Ops, BeginWrite(o)
    PROVE  Inv' /\ ComposeInv'
<1>0. TypeOK
  BY DEF Inv
<1>1. /\ at' = [at EXCEPT ![o] = "awaiting"] /\ failures' = failures
      /\ UNCHANGED <<request, original, wrote, files, index, deferreds,
                     queue, running, visits, batch>>
      /\ awaited' = [awaited EXCEPT ![o] = Len(deferreds)]
      /\ Writes(o) /\ at[o] \in {"idle", "found"}
  BY DEF BeginWrite, Begin, Goto, AwaitIndexing, Current, job, history, Writes
<1>2. awaited' \in [Ops -> 0..Len(deferreds')]
  BY <1>0, <1>1, Types DEF TypeOK
<1>3. OverlapInv' /\ overlapped \subseteq overlapped' /\ overlapped' \subseteq Ops
  <2>1. CASE Begin(o, "awaiting")
    BY <1>1, <2>1, MoveOverlap DEF Inv, Begin
  <2>2. CASE at[o] = "found" /\ UNCHANGED history
    BY <1>1, <2>2, MoveOverlap DEF Inv, Active, Ended, history
  <2> QED
    BY <2>1, <2>2 DEF BeginWrite
<1>4. TypeOK'
  BY <1>0, <1>1, <1>2, <1>3, MoveTypes DEF TypeOK
<1>5. PhaseInv'
  BY <1>1, MovePhase
<1>6. failures' = 0 /\ Kind(o) = "patch" /\ o \notin overlapped' =>
          files[File(o)].ops \subseteq original'[o]
  <2>1. Kind(o) = "patch" => at[o] = "found"
    BY DEF BeginWrite
  <2> QED
    BY <1>1, <1>3, <2>1 DEF ComposeInv
<1>7. FileInv' /\ IndexInv' /\ ComposeInv'
  BY <1>0, <1>1, <1>3, <1>6, MoveInv DEF TypeOK
<1> QED
  BY <1>3, <1>4, <1>5, <1>7 DEF Inv

LEMMA WriteFailsInv ==
    ASSUME Inv, ComposeInv, NEW o \in Ops, WriteFails(o)
    PROVE  Inv' /\ ComposeInv'
<1>0. TypeOK
  BY DEF Inv
<1>1. /\ at[o] = "awaiting" /\ at' = [at EXCEPT ![o] = "failed"]
      /\ UNCHANGED <<request, original, awaited, wrote, files, index, deferreds,
                     queue, running, visits, batch, overlapped, failures>>
  BY DEF WriteFails, Goto, requests, job, history
<1>2. OverlapInv' /\ overlapped' \subseteq Ops
  BY <1>1, MoveOverlap DEF Inv, Active, Ended
<1>3. TypeOK'
  BY <1>0, <1>1, <1>2, MoveTypes DEF TypeOK, Ended
<1>4. PhaseInv'
  BY <1>1, MovePhase
<1>5. FileInv' /\ IndexInv' /\ ComposeInv'
  BY <1>0, <1>1, MoveInv DEF TypeOK
<1> QED
  BY <1>2, <1>3, <1>4, <1>5 DEF Inv

LEMMA PublishFailsInv ==
    ASSUME Inv, ComposeInv, NEW o \in Ops, PublishFails(o)
    PROVE  Inv' /\ ComposeInv'
<1>0. TypeOK
  BY DEF Inv
<1>1. /\ at[o] = "preparing" /\ at' = [at EXCEPT ![o] = "unindexed"]
      /\ failures' = failures + 1
      /\ UNCHANGED <<request, original, awaited, wrote, files, index, deferreds,
                     queue, running, visits, batch, overlapped>>
  BY DEF PublishFails, Goto, requests, job
<1>2. failures' \in Nat /\ failures' # 0
  BY <1>0, <1>1 DEF TypeOK
<1>3. OverlapInv' /\ overlapped' \subseteq Ops
  BY <1>1, MoveOverlap DEF Inv, Active, Ended
<1>4. TypeOK'
  BY <1>0, <1>1, <1>2, <1>3, MoveTypes DEF TypeOK
<1>5. PhaseInv'
  BY <1>1, MovePhase DEF Inv, PhaseInv, Changed
<1>6. FileInv' /\ IndexInv' /\ ComposeInv'
  BY <1>0, <1>1, <1>2, MoveInv DEF TypeOK, Changed
<1> QED
  BY <1>3, <1>4, <1>5, <1>6 DEF Inv

LEMMA UpdateInv ==
    ASSUME Inv, ComposeInv, NEW o \in Ops, Update(o)
    PROVE  Inv' /\ ComposeInv'
<1>0. TypeOK
  BY DEF Inv
<1>1. /\ at' = [at EXCEPT ![o] = "preparing"] /\ failures' = failures
      /\ UNCHANGED <<request, original, awaited, wrote, files, index,
                     queue, running, visits, batch>>
      /\ deferreds' = Append(deferreds, "pending")
      /\ at[o] \in {"idle", "written"} /\ (at[o] = "idle" => Kind(o) = "full")
  BY DEF Update, Begin, Goto, requests, job, history
<1>2. /\ deferreds' \in Seq({"pending", "fulfilled", "rejected"}) /\ deferreds' # <<>>
      /\ Len(deferreds') = Len(deferreds) + 1 /\ Len(deferreds) \in Nat
  <2>1. deferreds \in Seq({"pending", "fulfilled", "rejected"})
    BY <1>0 DEF TypeOK
  <2> QED
    BY <1>1, <2>1, AppendFacts
<1>3. awaited' \in [Ops -> 0..Len(deferreds')]
  <2>1. 0..Len(deferreds) \subseteq 0..Len(deferreds')
    BY <1>2
  <2> QED
    BY <1>0, <1>1, <2>1 DEF TypeOK
<1>4. OverlapInv' /\ overlapped \subseteq overlapped' /\ overlapped' \subseteq Ops
  <2>1. CASE Begin(o, "preparing")
    BY <1>1, <2>1, MoveOverlap DEF Inv, Begin
  <2>2. CASE at[o] = "written" /\ UNCHANGED history
    BY <1>1, <2>2, MoveOverlap DEF Inv, Active, Ended, history
  <2> QED
    BY <2>1, <2>2 DEF Update
<1>5. TypeOK'
  BY <1>0, <1>1, <1>2, <1>3, <1>4, MoveTypes DEF TypeOK
<1>6. PhaseInv'
  BY <1>1, <1>2, MovePhase
<1>7. FileInv' /\ IndexInv' /\ ComposeInv'
  BY <1>0, <1>1, <1>4, MoveInv DEF TypeOK, Changed
<1> QED
  BY <1>4, <1>5, <1>6, <1>7 DEF Inv

LEMMA FinishInv ==
    ASSUME Inv, ComposeInv, NEW o \in Ops, Finish(o)
    PROVE  Inv' /\ ComposeInv'
<1> DEFINE where == IF at[o] = "indexed" THEN "done" ELSE "failed"
           result == IF at[o] = "indexed" THEN "fulfilled" ELSE "rejected"
<1>0. TypeOK
  BY DEF Inv
<1>1. /\ at[o] \in {"indexed", "unindexed"} /\ at' = [at EXCEPT ![o] = where]
      /\ UNCHANGED <<request, original, awaited, wrote, files, index,
                     queue, running, visits, batch, overlapped, failures>>
      /\ deferreds' = IF deferreds[Len(deferreds)] = "pending"
                      THEN [deferreds EXCEPT ![Len(deferreds)] = result] ELSE deferreds
  BY DEF Finish, Goto, Settle, Current, requests, job, history
<1>2. where \in {"done", "failed"} /\ (where = "done" => at[o] = "indexed")
  OBVIOUS
<1>3. /\ deferreds' \in Seq({"pending", "fulfilled", "rejected"}) /\ deferreds' # <<>>
      /\ Len(deferreds') = Len(deferreds)
  <2>1. deferreds \in Seq({"pending", "fulfilled", "rejected"}) /\ deferreds # <<>>
    BY <1>0, <1>1 DEF TypeOK, Inv, PhaseInv, Changed
  <2>2. result \in {"pending", "fulfilled", "rejected"}
    OBVIOUS
  <2>3. Len(deferreds) \in Nat /\ Len(deferreds) > 0
    BY <2>1, NotEmpty
  <2> DEFINE settled == [deferreds EXCEPT ![Len(deferreds)] = result]
  <2>4. settled \in Seq({"pending", "fulfilled", "rejected"}) /\ Len(settled) = Len(deferreds)
    BY <2>1, <2>2, <2>3, ExceptSeq
  <2>5. deferreds' = IF deferreds[Len(deferreds)] = "pending" THEN settled ELSE deferreds
    BY <1>1
  <2> HIDE DEF settled
  <2>6. deferreds' \in Seq({"pending", "fulfilled", "rejected"})
        /\ Len(deferreds') = Len(deferreds)
    BY <2>1, <2>4, <2>5
  <2> QED
    BY <2>3, <2>6, EmptySeq
<1> HIDE DEF where, result
<1>4. OverlapInv' /\ overlapped' \subseteq Ops
  BY <1>1, MoveOverlap DEF Inv, Active, Ended
<1>5. awaited' \in [Ops -> 0..Len(deferreds')]
  BY <1>0, <1>1, <1>3 DEF TypeOK
<1>6. TypeOK'
  BY <1>0, <1>1, <1>2, <1>3, <1>4, <1>5, MoveTypes DEF TypeOK, Ended
<1>7. PhaseInv'
  BY <1>1, <1>2, <1>3, MovePhase
<1>8. FileInv' /\ IndexInv' /\ ComposeInv'
  BY <1>0, <1>1, <1>2, MoveInv DEF TypeOK
<1> QED
  BY <1>4, <1>6, <1>7, <1>8 DEF Inv

LEMMA PublishInv ==
    ASSUME Inv, ComposeInv, NEW o \in Ops, Publish(o)
    PROVE  Inv' /\ ComposeInv'
<1>0. TypeOK
  BY DEF Inv
<1>1. /\ at[o] = "preparing" /\ at' = [at EXCEPT ![o] = "queued"]
      /\ queue' = Append(queue, o)
      /\ UNCHANGED <<request, original, awaited, wrote, files, index, deferreds,
                     running, visits, batch, overlapped, failures>>
  BY DEF Publish, Goto, requests, history
<1>2. OverlapInv' /\ overlapped' \subseteq Ops
  BY <1>1, MoveOverlap DEF Inv, Active, Ended
<1>3. TypeOK'
  BY <1>0, <1>1, <1>2, MoveTypes DEF TypeOK
<1>4. \A i, j \in DOMAIN queue' : queue'[i] = queue'[j] => i = j
  <2>1. queue \in Seq(Ops) /\ \A i \in DOMAIN queue : queue[i] # o
    BY <1>0, <1>1 DEF TypeOK, ToSet
  <2>2. \A i, j \in DOMAIN queue : queue[i] = queue[j] => i = j
    BY DEF Inv, PhaseInv
  <2>3. /\ Len(queue) \in Nat /\ DOMAIN queue' = 1..(Len(queue) + 1)
        /\ DOMAIN queue = 1..Len(queue)
        /\ \A i \in 1..Len(queue) : queue'[i] = queue[i]
        /\ queue'[Len(queue) + 1] = o
    BY <1>1, <2>1, AppendFacts
  <2>4. \A i \in DOMAIN queue' : i \in DOMAIN queue \/ i = Len(queue) + 1
    BY <2>3
  <2> QED
    BY <2>1, <2>2, <2>3, <2>4
<1>5. PhaseInv'
  BY <1>1, <1>4, MovePhase DEF Inv, PhaseInv, Changed
<1>6. FileInv' /\ IndexInv' /\ ComposeInv'
  BY <1>0, <1>1, MoveInv DEF TypeOK, Changed
<1> QED
  BY <1>2, <1>3, <1>5, <1>6 DEF Inv

-----------------------------------------------------------------------------
(* A file changes.  Whoever else is under way has overlapped with o, so that
   a deletion of the same file, be it o or the other, has raced. *)
LEMMA ChangeInv ==
    ASSUME Inv, ComposeInv, NEW o \in Ops, NEW ops \in SUBSET (Ops \cup {Original}),
           at[o] \in {"found", "awaiting"}, Kind(o) # "full", Writes(o) => ops # {},
           ChangeFile(o, ops), Goto(o, "written"),
           UNCHANGED <<request, original, awaited, index, deferreds, job, history>>
    PROVE  Inv' /\ ComposeInv'
<1> DEFINE f == File(o)
           new == [ver |-> files[f].ver + 1, ops |-> ops]
<1>0. TypeOK /\ OverlapInv
  BY DEF Inv
<1>1. /\ at' = [at EXCEPT ![o] = "written"]
      /\ files' = [files EXCEPT ![f] = new]
      /\ wrote' = [wrote EXCEPT ![o] = files[f].ver + 1]
      /\ UNCHANGED <<request, original, awaited, index, deferreds, queue,
                     running, visits, batch, overlapped, failures>>
  BY DEF ChangeFile, Goto, job, history
<1>2. f \in Paths /\ files[f].ver \in Nat /\ new.ver = files[f].ver + 1 /\ new.ops = ops
      /\ new \in Content
  BY <1>0, Types DEF Content
<1> HIDE DEF f, new
<1>3. /\ \A p \in Paths : files'[p] = IF p = f THEN new ELSE files[p]
      /\ \A b \in Ops : wrote'[b] = IF b = o THEN new.ver ELSE wrote[b]
      /\ \A b \in Ops : at'[b] = IF b = o THEN "written" ELSE at[b]
  BY <1>0, <1>1, <1>2 DEF TypeOK
<1>4. /\ \A b \in Ops : /\ Kind(b)' = Kind(b) /\ File(b)' = File(b)
                        /\ (Writes(b)' <=> Writes(b)) /\ File(b) \in Paths
                        /\ Kind(b) \in Kinds
      /\ \A p : DeleteRaced(p)' <=> DeleteRaced(p)
  BY <1>0, <1>1, Types DEF Kind, File, Writes, DeleteRaced
<1>5. o \in Active /\ \A b \in Active : b # o => b \in overlapped /\ o \in overlapped
  BY <1>0 DEF OverlapInv, Active, Ended
<1>6. running # o /\ (running # Nobody => running \in Active)
  <2>1. running # Nobody => running \in Ops /\ at[running] = "queued"
    BY <1>0 DEF TypeOK
  <2> QED
    BY <2>1, NobodyAssumption DEF Active, Ended
<1>7. TypeOK'
  <2>1. files' \in [Paths -> Content] /\ wrote' \in [Ops -> Nat]
    BY <1>0, <1>1, <1>2 DEF TypeOK
  <2>2. at' \in [Ops -> {"idle", "found", "awaiting", "written", "preparing",
                         "queued", "indexed", "unindexed"} \cup Ended]
        /\ \A b \in Ops : at'[b] = "queued" <=> b \in ToSet(queue)
    BY <1>0, <1>1 DEF TypeOK
  <2> QED
    BY <1>0, <1>1, <2>1, <2>2 DEF TypeOK
<1>8. PhaseInv'
  BY <1>1, MovePhase
<1>9. OverlapInv'
  BY <1>0, <1>1, <1>5, MoveOverlap
<1>10. FileInv'
  <2>1. ASSUME NEW b \in Ops PROVE wrote'[b] <= files'[File(b)].ver
    <3>1. wrote[b] \in Nat /\ wrote[b] <= files[File(b)].ver
      BY <1>0, Types DEF Inv, FileInv
    <3> QED
      BY <1>2, <1>3, <1>4, <3>1 DEF f
  <2>2. ASSUME NEW b \in Ops, Changed(b)'
        PROVE  \/ DeleteRaced(File(b))
               \/ /\ Kind(b) = "delete" => wrote'[b] = files'[File(b)].ver
                  /\ Writes(b) => files'[File(b)].ops # {}
    <3>1. CASE b = o
      BY <1>2, <1>3, <3>1 DEF f
    <3>2. CASE b # o /\ File(b) = f
      <4>1. b \in Active
        BY <1>3, <2>2, <3>2 DEF Changed, Active, Ended
      <4>2. b \in overlapped /\ o \in overlapped
        BY <1>5, <3>2, <4>1
      <4>3. Kind(b) = "delete" \/ Kind(o) = "delete" => DeleteRaced(f)
        BY <3>2, <4>2 DEF DeleteRaced, f
      <4>4. ops # {} \/ Kind(o) = "delete"
        BY <1>4 DEF Writes, Kinds
      <4> QED
        BY <1>2, <1>3, <3>2, <4>3, <4>4
    <3>3. CASE b # o /\ File(b) # f
      BY <1>3, <1>4, <2>2, <3>3 DEF Inv, FileInv, Changed
    <3> QED
      BY <3>1, <3>2, <3>3
  <2>3. ASSUME NEW p \in visits PROVE files'[p].ops # {} \/ DeleteRaced(p)
    <3>1. p \in Paths /\ (files[p].ops # {} \/ DeleteRaced(p))
      BY <1>0 DEF TypeOK, Inv, FileInv
    <3>2. CASE p = f /\ ops = {}
      <4>1. running # Nobody
        BY DEF Inv, PhaseInv
      <4>2. o \in overlapped /\ Kind(o) = "delete"
        BY <1>4, <1>5, <1>6, <3>2, <4>1 DEF Writes, Kinds
      <4> QED
        BY <3>2, <4>2 DEF DeleteRaced, f
    <3> QED
      BY <1>2, <1>3, <3>1, <3>2
  <2> QED
    BY <1>1, <1>4, <2>1, <2>2, <2>3 DEF FileInv
<1>11. IndexInv'
  <2>1. \A b \in Ops : Indexed(b)' => b # o /\ Indexed(b)
    BY <1>3, <1>4 DEF Indexed
  <2>2. ASSUME NEW b \in Ops, Indexed(b)' PROVE Reflects(b, index[File(b)])'
    BY <1>1, <1>3, <1>4, <2>1, <2>2 DEF Inv, IndexInv, Reflects
  <2>3. ASSUME NEW p \in DOMAIN batch \ visits, NEW b \in Ops, File(b) = p,
               Indexed(b)' \/ (b = running /\ Kind(b) # "full")
        PROVE  Reflects(b, batch[p])'
    BY <1>1, <1>3, <1>4, <1>6, <2>1, <2>3 DEF Inv, IndexInv, Reflects
  <2> QED
    BY <1>1, <1>4, <2>2, <2>3 DEF IndexInv
<1>12. ComposeInv'
  <2> SUFFICES ASSUME failures = 0 PROVE ComposeInv'
    BY <1>1 DEF ComposeInv
  <2>1. Applied' = Applied
    BY <1>1 DEF Applied
  <2>2. \A p \in Paths : ToBeRead(p) => ToBeRead(p)'
    BY <1>1, <1>3, <1>4 DEF ToBeRead
  <2>3. \A p \in Paths : p = f => ToBeRead(p)'
    BY <1>1, <1>3, <1>4, <1>6 DEF ToBeRead, f
  <2>4. ASSUME NEW p \in Paths
        PROVE  (ToBeRead(p) \/ Applied[p].ops = {} \/ files[p].ops \subseteq Applied[p].ops)'
    <3>1. ToBeRead(p) \/ Applied[p].ops = {} \/ files[p].ops \subseteq Applied[p].ops
      BY DEF ComposeInv
    <3>2. CASE p = f
      BY <2>3, <3>2
    <3>3. CASE p # f
      <4>1. files'[p] = files[p] /\ Applied'[p] = Applied[p]
        BY <1>3, <2>1, <3>3
      <4>2. (Applied[p].ops = {} \/ files[p].ops \subseteq Applied[p].ops)' <=>
               Applied[p].ops = {} \/ files[p].ops \subseteq Applied[p].ops
        BY <4>1
      <4> QED
        BY <2>2, <3>1, <4>2
    <3> QED
      BY <3>2, <3>3
  <2>5. ASSUME NEW b \in Ops, at'[b] \in {"found", "awaiting"}, b \notin overlapped PROVE FALSE
    BY <1>3, <1>5, <2>5 DEF Active, Ended
  <2> QED
    BY <1>1, <2>4, <2>5 DEF ComposeInv
<1> QED
  BY <1>7, <1>8, <1>9, <1>10, <1>11, <1>12 DEF Inv

LEMMA WriteFileInv ==
    ASSUME Inv, ComposeInv, NEW o \in Ops, WriteFile(o)
    PROVE  Inv' /\ ComposeInv'
<1>1. original[o] \cup {o} \in SUBSET (Ops \cup {Original})
  BY DEF Inv, TypeOK
<1>2. at[o] = "awaiting" /\ Kind(o) # "full"
  BY DEF WriteFile, Inv, PhaseInv, Writes
<1> QED
  BY <1>1, <1>2, ChangeInv DEF WriteFile

LEMMA RemoveFileInv ==
    ASSUME Inv, ComposeInv, NEW o \in Ops, RemoveFile(o)
    PROVE  Inv' /\ ComposeInv'
<1>1. Kind(o) = "delete" /\ at[o] = "found" /\ {} \in SUBSET (Ops \cup {Original})
  BY DEF RemoveFile
<1> QED
  BY <1>1, ChangeInv DEF RemoveFile, Writes

-----------------------------------------------------------------------------
(* What a job that starts is to read is there, or has been deleted in a race;
   what it changes without reading it is as new as every write of the file. *)
LEMMA StartInv ==
    ASSUME Inv, ComposeInv, NEW o \in Ops,
           NEW toVisit \in SUBSET Paths, NEW ps \in SUBSET Paths, NEW ver \in Nat,
           StartJob(o, toVisit, Tombstones(ps, ver)),
           \A p \in toVisit : files[p].ops # {} \/ DeleteRaced(p),
           Kind(o) # "full" => ps = {File(o)},
           Writes(o) => toVisit = {File(o)},
           Kind(o) = "delete" => toVisit = {},
           \A p \in ps \ toVisit, b \in Ops : File(b) = p => wrote[b] <= ver \/ DeleteRaced(p)
    PROVE  Inv' /\ ComposeInv'
<1>0. TypeOK /\ running = Nobody /\ batch = NoBatch
  BY DEF Inv, PhaseInv, StartJob
<1>1. /\ o \in ToSet(queue) /\ running' = o /\ visits' = toVisit
      /\ batch' = Tombstones(ps, ver)
      /\ UNCHANGED <<request, original, awaited, wrote, at, files, index, deferreds,
                     queue, overlapped, failures>>
  BY DEF StartJob, requests, history
<1>2. /\ DOMAIN batch' = ps
      /\ \A p \in ps : batch'[p].ver = ver /\ batch'[p].ops = {} /\ batch'[p] \in Content
  BY <1>1 DEF Tombstones, Content
<1>3. /\ \A b \in Ops : /\ Kind(b)' = Kind(b) /\ File(b)' = File(b)
                        /\ (Writes(b)' <=> Writes(b)) /\ Kind(b) \in Kinds
                        /\ (Changed(b)' <=> Changed(b)) /\ (Indexed(b)' <=> Indexed(b))
      /\ \A p : DeleteRaced(p)' <=> DeleteRaced(p)
  BY <1>0, <1>1, Types DEF Kind, File, Writes, DeleteRaced, Changed, Indexed
<1>4. o # Nobody /\ Nobody \notin Ops
  BY NobodyAssumption
<1>5. TypeOK'
  BY <1>0, <1>1, <1>2, <1>4 DEF TypeOK
<1>6. PhaseInv'
  <2>1. (CASE Writes(o)' -> visits' \subseteq {File(o)'} /\ DOMAIN batch' = {File(o)'}
           [] Kind(o)' = "delete" -> visits' = {} /\ DOMAIN batch' = {File(o)'}
           [] Kind(o)' = "full" -> TRUE)
    BY <1>1, <1>2, <1>3 DEF Writes, Kinds
  <2>2. /\ \A b \in Ops : /\ at'[b] = "found" => Kind(b)' \in {"patch", "delete"}
                          /\ at'[b] = "awaiting" => Writes(b)'
                          /\ at'[b] = "written" => Kind(b)' # "full"
                          /\ Changed(b)' /\ at'[b] # "written" => deferreds' # <<>>
        /\ \A i, j \in DOMAIN queue' : queue'[i] = queue'[j] => i = j
    BY <1>1, <1>3 DEF Inv, PhaseInv
  <2>3. running' # Nobody =>
          CASE Writes(running)' -> /\ visits' \subseteq {File(running)'}
                                   /\ DOMAIN batch' = {File(running)'}
            [] Kind(running)' = "delete" -> visits' = {} /\ DOMAIN batch' = {File(running)'}
            [] Kind(running)' = "full" -> TRUE
    BY <1>1, <2>1 DEF Writes, Kind, File
  <2> QED
    BY <1>1, <1>4, <2>2, <2>3 DEF PhaseInv
<1>7. OverlapInv'
  BY <1>1 DEF Inv, OverlapInv, Active
<1>8. FileInv'
  BY <1>1, <1>3 DEF Inv, FileInv
<1>9. IndexInv'
  <2>1. \A b \in Ops : Indexed(b) => wrote'[b] <= index'[File(b)].ver \/ DeleteRaced(File(b))
    BY <1>1 DEF Inv, IndexInv, Reflects
  <2>2. \A p \in DOMAIN batch' \ visits', b \in Ops :
            File(b) = p => wrote'[b] <= batch'[p].ver \/ DeleteRaced(File(b))
    BY <1>1, <1>2
  <2> QED
    BY <1>3, <2>1, <2>2 DEF IndexInv, Reflects
<1>10. ComposeInv'
  <2> SUFFICES ASSUME failures = 0 PROVE ComposeInv'
    BY <1>1 DEF ComposeInv
  <2>1. ASSUME NEW p \in Paths
        PROVE  (ToBeRead(p) \/ Applied[p].ops = {} \/ files[p].ops \subseteq Applied[p].ops)'
    <3>1. ToBeRead(p) \/ Applied[p].ops = {} \/ files[p].ops \subseteq Applied[p].ops
      BY DEF ComposeInv
    <3>2. CASE p \in ps
      <4>1. Applied'[p].ops = {}
        BY <1>2, <3>2 DEF Applied
      <4> QED
        BY <4>1
    <3>3. CASE p \notin ps
      <4>1. Applied'[p] = Applied[p]
        BY <1>0, <1>1, <1>2, <3>3 DEF Applied, NoBatch
      <4>2. ToBeRead(p) => ToBeRead(p)'
        <5>1. \A b \in Ops : File(b) = p /\ Kind(b) # "full" => b # o
          BY <3>3
        <5> QED
          BY <1>1, <1>3, <5>1 DEF ToBeRead
      <4>3. (Applied[p].ops = {} \/ files[p].ops \subseteq Applied[p].ops)' <=>
               Applied[p].ops = {} \/ files[p].ops \subseteq Applied[p].ops
        BY <1>1, <4>1
      <4> QED
        BY <3>1, <4>2, <4>3
    <3> QED
      BY <3>2, <3>3
  <2> QED
    BY <1>1, <1>3, <2>1 DEF ComposeInv
<1> QED
  BY <1>5, <1>6, <1>7, <1>8, <1>9, <1>10 DEF Inv

LEMMA StartFullInv ==
    ASSUME Inv, ComposeInv, NEW o \in Ops, StartFull(o)
    PROVE  Inv' /\ ComposeInv'
<1> DEFINE listed == {p \in Paths : files[p].ops # {}}
           changed == {p \in listed : index[p] # files[p]}
           ps == IF changed = listed THEN {} ELSE changed
<1>1. Kind(o) = "full" /\ StartJob(o, changed, Tombstones(ps, 0))
  BY DEF StartFull, Tombstones, NoBatch
<1>2. /\ changed \in SUBSET Paths /\ ps \in SUBSET Paths /\ ps \ changed = {} /\ 0 \in Nat
      /\ \A p \in changed : files[p].ops # {}
  OBVIOUS
<1> HIDE DEF listed, changed, ps
<1> QED
  BY <1>1, <1>2, StartInv DEF Writes

LEMMA StartIncrementalInv ==
    ASSUME Inv, ComposeInv, NEW o \in Ops, StartIncremental(o)
    PROVE  Inv' /\ ComposeInv'
<1> DEFINE ps == {File(o)}
<1>0. TypeOK
  BY DEF Inv
<1>1. o \in ToSet(queue)
  BY DEF StartIncremental, StartJob
<1>2. at[o] = "queued" /\ Changed(o)
  BY <1>0, <1>1 DEF TypeOK, Changed
<1>3. ps \in SUBSET Paths /\ {} \in SUBSET Paths /\ wrote[o] \in Nat /\ 0 \in Nat
  BY <1>0, Types
<1>4. CASE Kind(o) = "delete" /\ StartJob(o, {}, Tombstones(ps, wrote[o]))
  <2>1. \A p \in ps, b \in Ops : File(b) = p => wrote[b] <= wrote[o] \/ DeleteRaced(p)
    BY <1>2, <1>4 DEF Inv, FileInv
  <2> HIDE DEF ps
  <2>2. ps \ {} = ps /\ ps = {File(o)}
    BY DEF ps
  <2> QED
    BY <1>3, <1>4, <2>1, <2>2, StartInv DEF Writes
<1>5. CASE Kind(o) \in {"post", "patch"} /\ StartJob(o, ps, Tombstones(ps, 0))
  <2>1. \A p \in ps : files[p].ops # {} \/ DeleteRaced(p)
    BY <1>2, <1>5 DEF Inv, FileInv, Writes
  <2> HIDE DEF ps
  <2>2. ps \ ps = {} /\ ps = {File(o)}
    BY DEF ps
  <2> QED
    BY <1>3, <1>5, <2>1, <2>2, StartInv DEF Writes
<1> QED
  BY <1>4, <1>5 DEF StartIncremental

(* What is read is the file as it is, with every write in it. *)
LEMMA VisitInv ==
    ASSUME Inv, ComposeInv, NEW p \in Paths, Visit(p)
    PROVE  Inv' /\ ComposeInv'
<1>0. TypeOK
  BY DEF Inv
<1>1. /\ p \in visits /\ visits' = visits \ {p}
      /\ UNCHANGED <<request, original, awaited, wrote, at, files, index, deferreds,
                     queue, running, overlapped, failures>>
  BY DEF Visit, requests, history
<1>2. \/ files[p].ops = {} /\ p \notin DOMAIN batch /\ batch' = batch
      \/ /\ DOMAIN batch' = DOMAIN batch \cup {p} /\ batch'[p] = files[p]
         /\ \A q \in DOMAIN batch \ {p} : batch'[q] = batch[q]
  BY DEF Visit
<1>3. /\ DOMAIN batch' \subseteq DOMAIN batch \cup {p} /\ DOMAIN batch \subseteq DOMAIN batch'
      /\ \A q \in DOMAIN batch' \ {p} : q \in DOMAIN batch /\ batch'[q] = batch[q]
      /\ p \in DOMAIN batch' => batch'[p] = files[p]
      /\ p \notin DOMAIN batch' => files[p].ops = {}
  BY <1>2
<1>4. /\ \A b \in Ops : /\ Kind(b)' = Kind(b) /\ File(b)' = File(b)
                        /\ (Writes(b)' <=> Writes(b)) /\ Kind(b) \in Kinds
                        /\ (Changed(b)' <=> Changed(b)) /\ (Indexed(b)' <=> Indexed(b))
      /\ \A q : DeleteRaced(q)' <=> DeleteRaced(q)
  BY <1>0, <1>1, Types DEF Kind, File, Writes, DeleteRaced, Changed, Indexed
<1>5. TypeOK'
  <2>1. DOMAIN batch' \subseteq Paths /\ \A q \in DOMAIN batch' : batch'[q] \in Content
    BY <1>0, <1>3 DEF TypeOK
  <2> QED
    BY <1>0, <1>1, <2>1 DEF TypeOK
<1>6. PhaseInv'
  <2>1. running # Nobody /\ running \in Ops
    BY <1>0, <1>1 DEF Inv, PhaseInv, TypeOK
  <2>2. /\ Writes(running) => visits \subseteq {File(running)} /\ DOMAIN batch = {File(running)}
        /\ Kind(running) # "delete"
    BY <1>1, <2>1 DEF Inv, PhaseInv, Writes
  <2>3. running' # Nobody =>
          CASE Writes(running)' -> /\ visits' \subseteq {File(running)'}
                                   /\ DOMAIN batch' = {File(running)'}
            [] Kind(running)' = "delete" -> visits' = {} /\ DOMAIN batch' = {File(running)'}
            [] Kind(running)' = "full" -> TRUE
    <3>1. /\ Kind(running)' = Kind(running) /\ File(running)' = File(running)
          /\ (Writes(running)' <=> Writes(running)) /\ Kind(running) \in Kinds
      BY <1>1, <1>4, <2>1 DEF Kind, File, Writes
    <3>2. Writes(running) => /\ visits' \subseteq {File(running)}
                             /\ DOMAIN batch' = {File(running)}
      BY <1>1, <1>3, <2>2
    <3> QED
      BY <2>2, <3>1, <3>2 DEF Writes, Kinds
  <2> QED
    BY <1>1, <1>4, <2>1, <2>3 DEF Inv, PhaseInv
<1>7. OverlapInv'
  BY <1>1 DEF Inv, OverlapInv, Active
<1>8. FileInv'
  BY <1>1, <1>4 DEF Inv, FileInv
<1>9. IndexInv'
  <2>1. \A b \in Ops : Indexed(b) => wrote'[b] <= index'[File(b)].ver \/ DeleteRaced(File(b))
    BY <1>1 DEF Inv, IndexInv, Reflects
  <2>2. ASSUME NEW q \in DOMAIN batch' \ visits', NEW b \in Ops, File(b) = q,
               Indexed(b) \/ (b = running /\ Kind(b) # "full")
        PROVE  wrote'[b] <= batch'[q].ver \/ DeleteRaced(File(b))
    <3>1. CASE q = p
      BY <1>1, <1>3, <2>2, <3>1 DEF Inv, FileInv
    <3>2. CASE q # p
      BY <1>1, <1>3, <2>2, <3>2 DEF Inv, IndexInv, Reflects
    <3> QED
      BY <3>1, <3>2
  <2> QED
    BY <1>1, <1>4, <2>1, <2>2 DEF IndexInv, Reflects
<1>10. ComposeInv'
  <2> SUFFICES ASSUME failures = 0 PROVE ComposeInv'
    BY <1>1 DEF ComposeInv
  <2>1. ASSUME NEW q \in Paths
        PROVE  (ToBeRead(q) \/ Applied[q].ops = {} \/ files[q].ops \subseteq Applied[q].ops)'
    <3>1. ToBeRead(q) \/ Applied[q].ops = {} \/ files[q].ops \subseteq Applied[q].ops
      BY DEF ComposeInv
    <3>2. CASE q = p
      <4>1. files'[q].ops \subseteq Applied'[q].ops
        BY <1>1, <1>3, <3>2 DEF Applied
      <4> QED
        BY <4>1
    <3>3. CASE q # p
      <4>1. Applied'[q] = Applied[q]
        BY <1>1, <1>3, <3>3 DEF Applied
      <4>2. ToBeRead(q) => ToBeRead(q)'
        BY <1>1, <1>4, <3>3 DEF ToBeRead
      <4>3. (Applied[q].ops = {} \/ files[q].ops \subseteq Applied[q].ops)' <=>
               Applied[q].ops = {} \/ files[q].ops \subseteq Applied[q].ops
        BY <1>1, <4>1
      <4> QED
        BY <3>1, <4>2, <4>3
    <3> QED
      BY <3>2, <3>3
  <2> QED
    BY <1>1, <1>4, <2>1 DEF ComposeInv
<1> QED
  BY <1>5, <1>6, <1>7, <1>8, <1>9, <1>10 DEF Inv

(* The job's operation is neither the one that waits nor in the queue any
   more; every write that is in the index stays there. *)
LEMMA EndInv ==
    ASSUME Inv, ComposeInv, NEW result \in {"indexed", "unindexed"}, EndJob(result),
           result = "indexed" => index' = Applied, index' \in {index, Applied},
           failures' \in Nat, failures' = 0 => failures = 0 /\ result = "indexed"
    PROVE  Inv' /\ ComposeInv'
<1>0. TypeOK /\ OverlapInv
  BY DEF Inv
<1>1. /\ running # Nobody /\ visits = {} /\ running' = Nobody /\ batch' = NoBatch
      /\ at' = [at EXCEPT ![running] = result]
      /\ UNCHANGED <<request, original, awaited, wrote, files, deferreds, visits, overlapped>>
  BY DEF EndJob, requests
<1>2. PICK r \in Ops : r = running
  BY <1>0, <1>1 DEF TypeOK
<1>3. PICK k \in DOMAIN queue : queue[k] = r /\ queue' = RemoveAt(queue, k)
  BY <1>2 DEF EndJob
<1>4. /\ queue \in Seq(Ops) /\ k \in 1..Len(queue)
      /\ \A i, j \in DOMAIN queue : queue[i] = queue[j] => i = j
  BY <1>0, <1>3, Types DEF TypeOK, Inv, PhaseInv
<1>5. queue' \in Seq(Ops) /\ ToSet(queue') = ToSet(queue) \ {r}
      /\ \A i, j \in DOMAIN queue' : queue'[i] = queue'[j] => i = j
  <2>1. queue' \in Seq(Ops)
    BY <1>3, <1>4, RemoveAtFacts
  <2>2. /\ ToSet(RemoveAt(queue, k)) = ToSet(queue) \ {queue[k]}
        /\ \A i, j \in DOMAIN RemoveAt(queue, k) :
              RemoveAt(queue, k)[i] = RemoveAt(queue, k)[j] => i = j
    BY <1>4, RemoveAtSet
  <2> QED
    BY <1>3, <2>1, <2>2
<1>6. /\ \A b \in Ops : at'[b] = IF b = r THEN result ELSE at[b]
      /\ at[r] = "queued" /\ Changed(r)
  BY <1>0, <1>1, <1>2 DEF TypeOK, Changed
<1>7. /\ \A b \in Ops : /\ Kind(b)' = Kind(b) /\ File(b)' = File(b)
                        /\ (Writes(b)' <=> Writes(b)) /\ Kind(b) \in Kinds
                        /\ File(b) \in Paths /\ (Changed(b)' => Changed(b))
                        /\ (Indexed(b)' => Indexed(b) \/
                               (b = r /\ Kind(b) # "full" /\ result = "indexed"))
      /\ \A p : DeleteRaced(p)' <=> DeleteRaced(p)
  BY <1>0, <1>1, <1>6, Types
     DEF Kind, File, Writes, DeleteRaced, Changed, Indexed
<1>8. /\ \A p \in Paths : Applied[p] = IF p \in DOMAIN batch THEN batch[p] ELSE index[p]
      /\ Applied \in [Paths -> Content] /\ index' \in [Paths -> Content]
  BY <1>0 DEF Applied, TypeOK
<1>9. TypeOK'
  <2>1. at' \in [Ops -> {"idle", "found", "awaiting", "written", "preparing",
                         "queued", "indexed", "unindexed"} \cup Ended]
    BY <1>0, <1>1 DEF TypeOK
  <2>2. \A b \in Ops : at'[b] = "queued" <=> b \in ToSet(queue')
    BY <1>0, <1>5, <1>6 DEF TypeOK
  <2>3. DOMAIN batch' = {}
    BY <1>1 DEF NoBatch
  <2> QED
    BY <1>0, <1>1, <1>5, <1>8, <2>1, <2>2, <2>3 DEF TypeOK
<1>10. PhaseInv'
  <2>1. /\ \A b \in Ops : /\ at'[b] = "found" => Kind(b)' \in {"patch", "delete"}
                          /\ at'[b] = "awaiting" => Writes(b)'
                          /\ at'[b] = "written" => Kind(b)' # "full"
                          /\ Changed(b)' /\ at'[b] # "written" => deferreds' # <<>>
    BY <1>1, <1>6, <1>7 DEF Inv, PhaseInv
  <2> QED
    BY <1>1, <1>5, <2>1 DEF PhaseInv, NoBatch
<1>11. OverlapInv'
  <2>1. r \in Active
    BY <1>6 DEF Active, Ended
  <2> QED
    BY <1>0, <1>1, <1>2, <2>1, MoveOverlap
<1>12. FileInv'
  BY <1>1, <1>7 DEF Inv, FileInv
<1>13. IndexInv'
  <2>1. ASSUME NEW b \in Ops, Indexed(b) PROVE Reflects(b, Applied[File(b)])
    <3>1. CASE File(b) \in DOMAIN batch
      BY <1>1, <1>7, <1>8, <2>1, <3>1 DEF Inv, IndexInv
    <3>2. CASE File(b) \notin DOMAIN batch
      BY <1>7, <1>8, <2>1, <3>2 DEF Inv, IndexInv
    <3> QED
      BY <3>1, <3>2
  <2>2. ASSUME Kind(r) # "full" PROVE Reflects(r, Applied[File(r)])
    <3>1. File(r) \in DOMAIN batch
      BY <1>1, <1>2, <1>7, <2>2 DEF Inv, PhaseInv, Writes, Kinds
    <3> QED
      BY <1>1, <1>2, <1>7, <1>8, <2>2, <3>1 DEF Inv, IndexInv
  <2>3. ASSUME NEW b \in Ops, Indexed(b)' PROVE Reflects(b, index'[File(b)])
    <3>1. CASE Indexed(b)
      BY <2>1, <3>1 DEF Inv, IndexInv
    <3>2. CASE b = r /\ Kind(b) # "full" /\ result = "indexed"
      BY <2>2, <3>2
    <3> QED
      BY <1>7, <2>3, <3>1, <3>2
  <2>4. ASSUME NEW b \in Ops, Indexed(b)' PROVE Reflects(b, index[File(b)])'
    BY <1>1, <1>7, <2>3, <2>4 DEF Reflects
  <2>5. DOMAIN batch' = {}
    BY <1>1 DEF NoBatch
  <2> QED
    BY <2>4, <2>5 DEF IndexInv
<1>14. ComposeInv'
  <2> SUFFICES ASSUME failures' = 0 PROVE ComposeInv'
    BY DEF ComposeInv
  <2>1. failures = 0 /\ result = "indexed" /\ index' = Applied
    OBVIOUS
  <2>2. \A p \in Paths : Applied'[p] = Applied[p]
    BY <1>1, <2>1 DEF Applied, NoBatch
  <2>3. ASSUME NEW p \in Paths
        PROVE  (ToBeRead(p) \/ Applied[p].ops = {} \/ files[p].ops \subseteq Applied[p].ops)'
    <3>1. ToBeRead(p) \/ Applied[p].ops = {} \/ files[p].ops \subseteq Applied[p].ops
      BY <2>1 DEF ComposeInv
    <3>2. ToBeRead(p) => ToBeRead(p)'
      BY <1>1, <1>2, <1>6, <1>7, NobodyAssumption DEF ToBeRead
    <3>3. (Applied[p].ops = {} \/ files[p].ops \subseteq Applied[p].ops)' <=>
             Applied[p].ops = {} \/ files[p].ops \subseteq Applied[p].ops
      BY <1>1, <2>2
    <3> QED
      BY <3>1, <3>2, <3>3
  <2>4. \A b \in Ops : at'[b] \in {"found", "awaiting"} => at[b] = at'[b]
    BY <1>6
  <2> QED
    BY <1>1, <1>7, <2>1, <2>3, <2>4 DEF ComposeInv
<1> QED
  BY <1>9, <1>10, <1>11, <1>12, <1>13, <1>14 DEF Inv

LEMMA JobDoneInv ==
    ASSUME Inv, ComposeInv, JobDone
    PROVE  Inv' /\ ComposeInv'
<1>1. failures \in Nat /\ EndJob("indexed") /\ index' = Applied /\ failures' = failures
  BY DEF JobDone, Inv, TypeOK
<1> QED
  BY <1>1, EndInv

LEMMA JobFailsInv ==
    ASSUME Inv, ComposeInv, JobFails
    PROVE  Inv' /\ ComposeInv'
<1>1. failures' \in Nat /\ failures' # 0
  BY DEF JobFails, Inv, TypeOK
<1>2. EndJob("unindexed") /\ index' \in {index, Applied}
  BY DEF JobFails
<1> QED
  BY <1>1, <1>2, EndInv

LEMMA StutterInv ==
    ASSUME Inv, ComposeInv, UNCHANGED vars
    PROVE  Inv' /\ ComposeInv'
<1>1. UNCHANGED <<request, original, awaited, wrote, at, files, index, deferreds, queue,
                  running, visits, batch, overlapped, failures>>
  BY DEF vars, requests, job, history
<1>2. TypeOK' /\ OverlapInv'
  BY <1>1 DEF Inv, TypeOK, OverlapInv, Active
<1>3. PhaseInv'
  BY <1>1 DEF Inv, PhaseInv, Changed, Writes, Kind, File, NoBatch
<1>4. FileInv'
  BY <1>1 DEF Inv, FileInv, Changed, Writes, DeleteRaced, Kind, File
<1>5. IndexInv'
  BY <1>1 DEF Inv, IndexInv, Indexed, Reflects, DeleteRaced, Kind, File
<1>6. ComposeInv'
  BY <1>1 DEF ComposeInv, ToBeRead, Applied, Kind, File
<1> QED
  BY <1>2, <1>3, <1>4, <1>5, <1>6 DEF Inv

LEMMA StepInv == Inv /\ ComposeInv /\ [Next]_vars => Inv' /\ ComposeInv'
<1> SUFFICES ASSUME Inv, ComposeInv, [Next]_vars PROVE Inv' /\ ComposeInv'
  OBVIOUS
<1>1. ASSUME NEW o \in Ops,
             \/ LookUp(o, index) \/ LookUp(o, files) \/ BeginWrite(o) \/ WriteFile(o)
             \/ WriteFails(o) \/ RemoveFile(o) \/ Update(o) \/ Publish(o)
             \/ PublishFails(o) \/ Finish(o)
      PROVE  Inv' /\ ComposeInv'
  BY <1>1, LookUpInv, BeginWriteInv, WriteFileInv, WriteFailsInv, RemoveFileInv,
     UpdateInv, PublishInv, PublishFailsInv, FinishInv
<1>2. CASE JobStep
  <2>1. ASSUME NEW o \in Ops, StartFull(o) \/ StartIncremental(o)
        PROVE  Inv' /\ ComposeInv'
    BY <2>1, StartFullInv, StartIncrementalInv
  <2>2. ASSUME NEW p \in Paths, Visit(p) PROVE Inv' /\ ComposeInv'
    BY <2>2, VisitInv
  <2>3. CASE JobDone \/ JobFails
    BY <2>3, JobDoneInv, JobFailsInv
  <2> QED
    BY <1>2, <2>1, <2>2, <2>3 DEF JobStep
<1>3. CASE UNCHANGED vars
  BY <1>3, StutterInv
<1> QED
  BY <1>1, <1>2, <1>3 DEF Next

(* The content and the version of every file, the places of the operations
   and the queue of their jobs agree; so do the operations that were under
   way together, and the batch of the job that runs. *)
THEOREM Invariants == Spec => [](Inv /\ ComposeInv)
<1> QED
  BY InitInv, StepInv, PTL DEF Spec

(* Every variable keeps its type, and a request waits for a job exactly as
   long as its job is in the queue. *)
THEOREM TypeCorrectness == Spec => []TypeOK
<1>1. Inv => TypeOK
  BY DEF Inv
<1> QED
  BY <1>1, Invariants, PTL

(* When a write, a patch or a deletion is answered with success (realm.ts,
   after RealmIndexUpdater.update), what it has made of the file, or something
   newer, is in the index, unless a deletion of the file has raced. *)
THEOREM AnsweredIsIndexed == Spec => []AcknowledgedIsIndexed
<1>1. Inv => AcknowledgedIsIndexed
  <2> SUFFICES ASSUME Inv, NEW o \in Ops, at[o] = "done", Kind(o) # "full"
               PROVE  index[File(o)].ver >= wrote[o] \/ DeleteRaced(File(o))
    BY DEF AcknowledgedIsIndexed
  <2>1. wrote[o] <= index[File(o)].ver \/ DeleteRaced(File(o))
    BY DEF Inv, IndexInv, Indexed, Reflects
  <2>2. wrote[o] \in Nat /\ index[File(o)].ver \in Nat
    BY Types DEF Inv
  <2> QED
    BY <2>1, <2>2
<1> QED
  BY <1>1, Invariants, PTL

(* A patch that is alone keeps what earlier patches have put in the file, as
   long as no indexing has failed: the index from which it starts had caught
   up with the file. *)
THEOREM PatchesKeepWhatIsThere == Spec => PatchesCompose
<1> DEFINE Step ==
       \A o \in Ops :
          WriteFile(o) /\ Kind(o) = "patch" /\ o \notin overlapped /\ failures = 0 =>
              files[File(o)].ops \subseteq files'[File(o)].ops
<1>1. Inv /\ ComposeInv => Step
  <2> SUFFICES ASSUME Inv, ComposeInv, NEW o \in Ops, WriteFile(o), Kind(o) = "patch",
                      o \notin overlapped, failures = 0
               PROVE  files[File(o)].ops \subseteq files'[File(o)].ops
    OBVIOUS
  <2>1. files[File(o)].ops \subseteq original[o]
    BY DEF ComposeInv, WriteFile
  <2>2. File(o) \in Paths /\ files \in [Paths -> Content]
    BY Types DEF Inv, TypeOK
  <2>3. files'[File(o)].ops = original[o] \cup {o}
    BY <2>2 DEF WriteFile, ChangeFile
  <2> QED
    BY <2>1, <2>3
<1> QED
  BY <1>1, Invariants, PTL DEF PatchesCompose
========================================
