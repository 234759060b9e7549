--------------------------- MODULE RunStore_proofs ---------------------------
(***************************************************************************)
(* Proofs about RunStore, for any number of runs, writers, operations and  *)
(* crashes: the run files of runs with one writer are whole whatever the   *)
(* processes, and if all writers share one process (and so its index lock) *)
(* the index is whole, agrees with the files, and implements RunIndex.     *)
(***************************************************************************)
EXTENDS RunStore, FiniteSetTheorems, FunctionTheorems, TLAPS

\* What _index_lock covers: it is a threading.Lock of one process.
OneProcess == \A v, w \in Writers : Process[v] = Process[w]

\* The paths that only one writer at a time works on.
Safe == Owned \cup (IF OneProcess THEN {"index"} ELSE {})

-----------------------------------------------------------------------------
(* The inductive invariant.                                                *)

Writing(w) == pc[w] \in {"open", "fill", "replace"}
OnIndex(w) == Writing(w) /\ path[w] = "index"
Holding(w) == At(w, "read") \/ OnIndex(w)

\* A writer works on a run of its own, on its file first and then on the index.
JobInv ==
  \A w \in Writers :
    /\ ~At(w, "idle") => job[w].run \in Runs /\ job[w].run \in Saves[w] \cup Prunes[w]
    /\ At(w, "unlink_tmp") => job[w].report = None
    /\ Writing(w) /\ path[w] # "index" => path[w] = job[w].run /\ job[w].report # None
    /\ fd[w] # 0 <=> At(w, "fill")

\* The index lock is held from the read of the index to its replacement.
LockInv ==
  /\ \A w \in Writers : w \in lock[Process[w]] <=> Holding(w)
  /\ \A p \in DOMAIN lock : \A v, w \in lock[p] : v = w /\ Process[w] = p

\* No inode has two names, and an open one has no other name than the writer's.
HeapInv ==
  /\ \A p, q \in Paths : p # q =>
       /\ file[p] # 0 => file[p] # file[q]
       /\ tmp[p] # 0 => tmp[p] # tmp[q]
  /\ \A p, q \in Paths : tmp[p] # 0 => tmp[p] # file[q]
  /\ \A w \in Writers : At(w, "fill") =>
       \A q \in Paths \ {path[w]} : fd[w] # tmp[q] /\ fd[w] # file[q]

\* What is renamed over a safe path was written whole under its other name.
Kept(p) ==
  /\ file[p] # 0 =>
       /\ data[file[p]].kind = "whole"
       /\ p \in Runs => data[file[p]].map[p] # None
  /\ \A w \in Writers : Writing(w) /\ path[w] = p =>
       /\ At(w, "fill") => fd[w] = tmp[p] /\ data[fd[w]].kind = "empty"
       /\ At(w, "replace") =>
            /\ tmp[p] # 0
            /\ data[tmp[p]].kind = "whole"
            /\ p \in Runs => data[tmp[p]].map[p] = job[w].report

FileInv == \A p \in Safe : Kept(p)

IInv == TypeOK /\ JobInv /\ LockInv /\ HeapInv /\ FileInv

\* Under one process, the index as it was read is still the index when it is
\* written, and a run that is past its file says there what will be reported.
ReadInv ==
  \A w \in Writers : OnIndex(w) =>
    /\ At(w, "open") \/ At(w, "fill") => copy[w] = Index
    /\ At(w, "replace") =>
         data[tmp["index"]].map = [Index EXCEPT ![job[w].run] = job[w].report]

PastFile(w) == ~At(w, "idle") /\ (Writing(w) => path[w] = "index")

ReportInv ==
  \A w \in Writers : PastFile(w) /\ job[w].run \in Owned =>
    StatusOnFile(job[w].run) = job[w].report

IndexInv == ReadInv /\ ReportInv /\ IndexAgrees

-----------------------------------------------------------------------------
(* Types.                                                                  *)

LEMMA SomePaths ==
  /\ IsFiniteSet(Paths) /\ Cardinality(Paths) \in Nat /\ Cardinality(Writers) \in Nat
  /\ Runs \subseteq Paths /\ "index" \in Paths /\ "index" \notin Runs
BY FiniteAssumption, WritersAssumption, FS_AddElement, FS_CardinalityType DEF Paths

LEMMA EntriesType ==
  /\ Nothing \in Entries /\ Empty \in Content /\ Torn \in Content
  /\ \A m \in Entries : Whole(m) \in Content
  /\ \A m \in Entries, r \in Runs, s \in Status \cup {None} : [m EXCEPT ![r] = s] \in Entries
BY DEF Nothing, Entries, Empty, Torn, Whole, Content

LEMMA IndexType == ASSUME TypeOK PROVE Index \in Entries
BY EntriesType, SomePaths DEF TypeOK, Index, Content

\* There are more inodes than names and open files.
LEMMA NodeFree ==
  ASSUME TypeOK, JobInv, NEW w \in Writers, At(w, "open")
  PROVE  NewInode \in Inodes /\ NewInode \notin Used
<1> DEFINE T == {tmp[p] : p \in Paths}
           F == {file[p] : p \in Paths}
           V == Writers \ {w}
           g == [v \in V |-> fd[v]]
           D == {fd[v] : v \in V}
           P == Cardinality(Paths)
           N == 2 * P + Cardinality(Writers)
<1>1. IsFiniteSet(T) /\ Cardinality(T) \in Nat /\ Cardinality(T) <= P
  <2>1. tmp \in Surjection(Paths, T)
    BY DEF TypeOK, Surjection
  <2>2. QED  BY <2>1, SomePaths, FS_Surjection, FS_CardinalityType
<1>2. IsFiniteSet(F) /\ Cardinality(F) \in Nat /\ Cardinality(F) <= P
  <2>1. file \in Surjection(Paths, F)
    BY DEF TypeOK, Surjection
  <2>2. QED  BY <2>1, SomePaths, FS_Surjection, FS_CardinalityType
<1>3. IsFiniteSet(D) /\ Cardinality(D) \in Nat /\ Cardinality(D) <= Cardinality(Writers) - 1
  <2>1. g \in Surjection(V, D)
    BY DEF Surjection
  <2>2. IsFiniteSet(V) /\ Cardinality(V) = Cardinality(Writers) - 1
    BY FiniteAssumption, FS_RemoveElement
  <2>3. QED  BY <2>1, <2>2, FS_Surjection, FS_CardinalityType
<1>4. IsFiniteSet(T \cup F \cup D) /\ Cardinality(T \cup F \cup D) \in Nat
      /\ Cardinality(T \cup F \cup D) <= N - 1
  <2>1. IsFiniteSet(T \cup F) /\ Cardinality(T \cup F) \in Nat /\ Cardinality(T \cup F) <= 2 * P
    <3>1. IsFiniteSet(T \cap F) /\ Cardinality(T \cap F) \in Nat
      BY <1>1, <1>2, FS_Intersection, FS_CardinalityType
    <3>2. Cardinality(T \cup F) = Cardinality(T) + Cardinality(F) - Cardinality(T \cap F)
          /\ IsFiniteSet(T \cup F)
      BY <1>1, <1>2, FS_Union
    <3> HIDE DEF T, F
    <3>3. QED  BY <3>1, <3>2, <1>1, <1>2, SomePaths, FS_CardinalityType
  <2>2. IsFiniteSet((T \cup F) \cap D) /\ Cardinality((T \cup F) \cap D) \in Nat
    BY <1>3, <2>1, FS_Intersection, FS_CardinalityType
  <2>3. /\ Cardinality((T \cup F) \cup D)
             = Cardinality(T \cup F) + Cardinality(D) - Cardinality((T \cup F) \cap D)
        /\ IsFiniteSet((T \cup F) \cup D)
    BY <1>3, <2>1, FS_Union
  <2> HIDE DEF T, F, D
  <2>4. QED  BY <2>1, <2>2, <2>3, <1>3, SomePaths, FS_CardinalityType
<1>5. ~(Inodes \subseteq Used)
  <2> SUFFICES ASSUME Inodes \subseteq Used PROVE FALSE
    OBVIOUS
  <2>1. 1..N \subseteq T \cup F \cup D
    BY DEF Inodes, Used, JobInv, At
  <2>2. N \in Nat
    BY SomePaths
  <2>3. Cardinality(1..N) = N /\ IsFiniteSet(1..N)
    BY <2>2, FS_Interval
  <2> HIDE DEF T, F, D, N
  <2>4. Cardinality(1..N) <= Cardinality(T \cup F \cup D)
    BY <2>1, <1>4, FS_Subset
  <2>5. QED  BY <2>2, <2>3, <2>4, <1>4
<1>6. QED  BY <1>5 DEF NewInode

LEMMA AtMostOne ==
  ASSUME NEW S, S \subseteq Writers, \A v, w \in S : v = w
  PROVE  Cardinality(S) <= 1
<1>1. CASE S = {}
  BY <1>1, FS_EmptySet
<1>2. CASE S # {}
  <2>1. PICK w \in S : S = {w}
    BY <1>2
  <2>2. QED  BY <2>1, FS_Singleton
<1>3. QED  BY <1>1, <1>2

\* Everything but how many hold a lock, which LockInv' says.
Types ==
  /\ tmp \in [Paths -> {0} \cup Inodes] /\ file \in [Paths -> {0} \cup Inodes]
  /\ data \in [Inodes -> Content]
  /\ pc \in [Writers -> {"idle", "unlink_tmp", "open", "fill", "replace", "lock", "read"}]
  /\ job \in [Writers -> [run : Runs, report : Status \cup {None}] \cup {NoJob}]
  /\ path \in [Writers -> Paths]
  /\ fd \in [Writers -> {0} \cup Inodes]
  /\ copy \in [Writers -> Entries]
  /\ lock \in [{Process[w] : w \in Writers} -> SUBSET Writers]
  /\ cut \subseteq Runs /\ crashes \in 0..MaxCrashes
  /\ ops \in [Writers -> Nat] /\ \A w \in Writers : ops[w] <= MaxOps[w]

LEMMA TypesSuffice == ASSUME Types, LockInv PROVE TypeOK
BY AtMostOne DEF Types, LockInv, TypeOK

LEMMA TypesOfTypeOK == TypeOK => Types
BY DEF TypeOK, Types

LEMMA InitTypes == Init => Types
BY EntriesType, SomePaths, BoundsAssumption, WritersAssumption DEF Init, Types, NoJob

LEMMA OneMoreOp ==
  ASSUME TypeOK, NEW w \in Writers, ops[w] < MaxOps[w], ops' = [ops EXCEPT ![w] = @ + 1]
  PROVE  ops' \in [Writers -> Nat] /\ \A v \in Writers : ops'[v] <= MaxOps[v]
<1>1. ops \in [Writers -> Nat] /\ \A v \in Writers : ops[v] <= MaxOps[v]
  BY DEF TypeOK
<1>2. ops[w] + 1 \in Nat /\ ops[w] + 1 <= MaxOps[w]
  BY <1>1, BoundsAssumption
<1>3. QED  BY <1>1, <1>2

LEMMA ActionTypes ==
  ASSUME TypeOK, JobInv, Next PROVE Types'
<1> USE SomePaths, WritersAssumption DEF TypeOK, Types, At, Goto, Leave
<1>1. ASSUME NEW w \in Writers, BeginSave(w) PROVE Types'
  <2>1. PICK r \in Saves[w], s \in Status :
          /\ job' = [job EXCEPT ![w] = [run |-> r, report |-> s]]
          /\ path' = [path EXCEPT ![w] = r] /\ cut' = cut \ {r}
    BY <1>1 DEF BeginSave
  <2>2. ops' \in [Writers -> Nat] /\ \A v \in Writers : ops'[v] <= MaxOps[v]
    BY <1>1, OneMoreOp DEF BeginSave
  <2>3. [run |-> r, report |-> s] \in [run : Runs, report : Status \cup {None}] /\ r \in Paths
    BY <2>1
  <2> QED  BY <1>1, <2>1, <2>2, <2>3 DEF BeginSave
<1>2. ASSUME NEW w \in Writers, Unlink(w) PROVE Types'
  <2>1. PICK r \in Prunes[w] :
          /\ job' = [job EXCEPT ![w] = [run |-> r, report |-> None]]
          /\ file' = [file EXCEPT ![r] = 0] /\ cut' = cut \ {r}
    BY <1>2 DEF Unlink
  <2>2. ops' \in [Writers -> Nat] /\ \A v \in Writers : ops'[v] <= MaxOps[v]
    BY <1>2, OneMoreOp DEF Unlink
  <2>3. [run |-> r, report |-> None] \in [run : Runs, report : Status \cup {None}] /\ r \in Paths
    BY <2>1
  <2> QED  BY <1>2, <2>1, <2>2, <2>3 DEF Unlink
<1>3. ASSUME NEW w \in Writers, UnlinkTmp(w) PROVE Types'
  BY <1>3 DEF UnlinkTmp, JobInv
<1>4. ASSUME NEW w \in Writers, Open(w) PROVE Types'
  BY <1>4, NodeFree, EntriesType DEF Open
<1>5. ASSUME NEW w \in Writers, Fill(w) PROVE Types'
  <2>1. Text(w) \in Content
    <3>1. job[w].run \in Runs /\ job[w].report \in Status \cup {None} /\ copy[w] \in Entries
      BY <1>5 DEF JobInv, Fill, NoJob
    <3>2. [copy[w] EXCEPT ![job[w].run] = job[w].report] \in Entries
          /\ [Nothing EXCEPT ![job[w].run] = job[w].report] \in Entries
      BY <3>1, EntriesType
    <3>3. QED  BY <3>2, EntriesType DEF Text, RunFile
  <2>2. QED  BY <1>5, <2>1, EntriesType DEF Fill, JobInv
<1>6. ASSUME NEW w \in Writers, Replace(w) PROVE Types'
  BY <1>6 DEF Replace, Unlocked
<1>7. ASSUME NEW w \in Writers, ReplaceFails(w) PROVE Types'
  BY <1>7 DEF ReplaceFails, Unlocked
<1>8. ASSUME NEW w \in Writers, Lock(w) PROVE Types'
  BY <1>8 DEF Lock
<1>9. ASSUME NEW w \in Writers, ReadIndex(w) PROVE Types'
  <2>1. CASE job[w].report = None /\ Index[job[w].run] = None
    <3>1. Leave(w) /\ lock' = Unlocked(w)
          /\ UNCHANGED <<copy, tmp, file, data, fd, cut, ops, crashes>>
      BY <1>9, <2>1 DEF ReadIndex
    <3>2. QED  BY <3>1 DEF Unlocked
  <2>2. CASE ~(job[w].report = None /\ Index[job[w].run] = None)
    <3>1. copy' = [copy EXCEPT ![w] = Index] /\ path' = [path EXCEPT ![w] = "index"]
          /\ Goto(w, "open") /\ UNCHANGED <<lock, job, tmp, file, data, fd, cut, ops, crashes>>
      BY <1>9, <2>2 DEF ReadIndex
    <3>2. copy' \in [Writers -> Entries]
      BY <3>1, IndexType
    <3> HIDE DEF TypeOK
    <3>3. QED  BY <3>1, <3>2, TypesOfTypeOK
  <2>3. QED  BY <2>1, <2>2
<1>10. ASSUME NEW p \in {Process[w] : w \in Writers}, Crash(p) PROVE Types'
  <2>1. cut' \subseteq Runs
    <3> DEFINE D == {v \in Writers : Process[v] = p /\ ~At(v, "idle")}
    <3>1. cut' = cut \cup {job[v].run : v \in D}
      BY <1>10 DEF Crash
    <3>2. \A v \in D : job[v].run \in Runs
      BY DEF JobInv
    <3> HIDE DEF D
    <3>3. QED  BY <3>1, <3>2
  <2>2. crashes' \in 0..MaxCrashes /\ UNCHANGED <<tmp, file, data, ops>>
    BY <1>10, BoundsAssumption DEF Crash
  <2>3. /\ pc' = [v \in Writers |-> IF Process[v] = p THEN "idle" ELSE pc[v]]
        /\ job' = [v \in Writers |-> IF Process[v] = p THEN NoJob ELSE job[v]]
        /\ path' = [v \in Writers |-> IF Process[v] = p THEN "index" ELSE path[v]]
        /\ fd' = [v \in Writers |-> IF Process[v] = p THEN 0 ELSE fd[v]]
        /\ copy' = [v \in Writers |-> IF Process[v] = p THEN Nothing ELSE copy[v]]
        /\ lock' = [lock EXCEPT ![p] = {}]
    BY <1>10 DEF Crash
  <2>4. QED  BY <2>1, <2>2, <2>3, EntriesType
<1>11. QED
  BY <1>1, <1>2, <1>3, <1>4, <1>5, <1>6, <1>7, <1>8, <1>9, <1>10 DEF Next, Step

-----------------------------------------------------------------------------
(* What a writer does, and the lock.                                       *)

LEMMA CrashFacts ==
  ASSUME TypeOK, NEW p \in {Process[w] : w \in Writers}, Crash(p)
  PROVE  /\ \A w \in Writers :
              IF Process[w] = p
              THEN pc'[w] = "idle" /\ fd'[w] = 0
              ELSE /\ pc'[w] = pc[w] /\ job'[w] = job[w] /\ path'[w] = path[w]
                   /\ fd'[w] = fd[w] /\ copy'[w] = copy[w]
         /\ \A w \in Writers : Process[w] = p /\ ~At(w, "idle") => job[w].run \in cut'
         /\ cut \subseteq cut'
         /\ lock' = [lock EXCEPT ![p] = {}]
         /\ UNCHANGED <<tmp, file, data>>
BY DEF Crash

LEMMA OpenFacts ==
  ASSUME TypeOK, JobInv, NEW w \in Writers, Open(w)
  PROVE  \E i \in Inodes :
           /\ IF tmp[path[w]] = 0 THEN i \notin Used ELSE i = tmp[path[w]]
           /\ tmp' = [tmp EXCEPT ![path[w]] = i] /\ fd' = [fd EXCEPT ![w] = i]
           /\ data' = [data EXCEPT ![i] = Empty]
           /\ pc' = [pc EXCEPT ![w] = "fill"]
           /\ UNCHANGED <<file, job, path, copy, lock, cut>>
<1>1. CASE tmp[path[w]] = 0
  BY <1>1, NodeFree DEF Open, Goto
<1>2. CASE tmp[path[w]] # 0
  BY <1>2 DEF Open, Goto, TypeOK
<1>3. QED  BY <1>1, <1>2

LEMMA JobStep == ASSUME TypeOK, JobInv, Next PROVE JobInv'
<1> USE SomePaths, WritersAssumption DEF TypeOK, JobInv, At, Goto, Leave, Writing
<1>1. ASSUME NEW w \in Writers, BeginSave(w) PROVE JobInv'
  BY <1>1 DEF BeginSave, None
<1>2. ASSUME NEW w \in Writers, Unlink(w) PROVE JobInv'
  BY <1>2 DEF Unlink
<1>3. ASSUME NEW w \in Writers, UnlinkTmp(w) PROVE JobInv'
  BY <1>3 DEF UnlinkTmp
<1>4. ASSUME NEW w \in Writers, Open(w) PROVE JobInv'
  <2>1. 0 \notin Inodes
    BY SomePaths DEF Inodes
  <2>2. PICK i \in Inodes : fd' = [fd EXCEPT ![w] = i]
    BY <1>4, OpenFacts
  <2>3. At(w, "open") /\ pc' = [pc EXCEPT ![w] = "fill"] /\ UNCHANGED <<path, job>>
    BY <1>4 DEF Open
  <2>4. QED  BY <2>1, <2>2, <2>3
<1>5. ASSUME NEW w \in Writers, Fill(w) PROVE JobInv'
  BY <1>5 DEF Fill
<1>6. ASSUME NEW w \in Writers, Replace(w) PROVE JobInv'
  BY <1>6, SMTT(30) DEF Replace
<1>7. ASSUME NEW w \in Writers, ReplaceFails(w) PROVE JobInv'
  BY <1>7 DEF ReplaceFails
<1>8. ASSUME NEW w \in Writers, Lock(w) PROVE JobInv'
  BY <1>8 DEF Lock
<1>9. ASSUME NEW w \in Writers, ReadIndex(w) PROVE JobInv'
  BY <1>9 DEF ReadIndex
<1>10. ASSUME NEW p \in {Process[w] : w \in Writers}, Crash(p) PROVE JobInv'
  BY <1>10, CrashFacts, ZenonT(60)
<1>11. QED
  BY <1>1, <1>2, <1>3, <1>4, <1>5, <1>6, <1>7, <1>8, <1>9, <1>10 DEF Next, Step

LEMMA LockStep == ASSUME TypeOK, JobInv, LockInv, Next PROVE LockInv'
<1>0. /\ pc \in [Writers -> {"idle", "unlink_tmp", "open", "fill", "replace", "lock", "read"}]
      /\ path \in [Writers -> Paths]
      /\ lock \in [{Process[w] : w \in Writers} -> SUBSET Writers]
  BY DEF TypeOK
<1> USE <1>0, SomePaths, WritersAssumption DEF LockInv, Holding, OnIndex, Writing, At, Goto, Leave
<1>1. ASSUME NEW w \in Writers, BeginSave(w) PROVE LockInv'
  BY <1>1 DEF BeginSave
<1>2. ASSUME NEW w \in Writers, Unlink(w) PROVE LockInv'
  BY <1>2 DEF Unlink
<1>3. ASSUME NEW w \in Writers, UnlinkTmp(w) PROVE LockInv'
  BY <1>3 DEF UnlinkTmp
<1>4. ASSUME NEW w \in Writers, Open(w) PROVE LockInv'
  <2>1. At(w, "open") /\ pc' = [pc EXCEPT ![w] = "fill"] /\ UNCHANGED <<path, lock>>
    BY <1>4 DEF Open
  <2>2. QED  BY <2>1
<1>5. ASSUME NEW w \in Writers, Fill(w) PROVE LockInv'
  BY <1>5 DEF Fill
<1>6. ASSUME NEW w \in Writers, Replace(w) PROVE LockInv'
  BY <1>6 DEF Replace, Unlocked
<1>7. ASSUME NEW w \in Writers, ReplaceFails(w) PROVE LockInv'
  BY <1>7 DEF ReplaceFails, Unlocked
<1>8. ASSUME NEW w \in Writers, Lock(w) PROVE LockInv'
  BY <1>8 DEF Lock
<1>9. ASSUME NEW w \in Writers, ReadIndex(w) PROVE LockInv'
  <2>1. CASE job[w].report = None /\ Index[job[w].run] = None
    <3>1. At(w, "read") /\ Leave(w) /\ lock' = Unlocked(w)
      BY <1>9, <2>1 DEF ReadIndex
    <3>2. QED  BY <3>1 DEF Unlocked
  <2>2. CASE ~(job[w].report = None /\ Index[job[w].run] = None)
    <3>1. At(w, "read") /\ path' = [path EXCEPT ![w] = "index"] /\ Goto(w, "open") /\ lock' = lock
      BY <1>9, <2>2 DEF ReadIndex
    <3>2. QED  BY <3>1
  <2>3. QED  BY <2>1, <2>2
<1>10. ASSUME NEW p \in {Process[w] : w \in Writers}, Crash(p) PROVE LockInv'
  <2>1. /\ pc' = [v \in Writers |-> IF Process[v] = p THEN "idle" ELSE pc[v]]
        /\ path' = [v \in Writers |-> IF Process[v] = p THEN "index" ELSE path[v]]
        /\ lock' = [lock EXCEPT ![p] = {}]
    BY <1>10 DEF Crash
  <2>2. QED  BY <2>1
<1>11. QED
  BY <1>1, <1>2, <1>3, <1>4, <1>5, <1>6, <1>7, <1>8, <1>9, <1>10 DEF Next, Step

-----------------------------------------------------------------------------
(* Who works on a path, and what is under its names.                       *)

LEMMA OneOwner ==
  ASSUME NEW r \in Owned, NEW v \in Writers, NEW w \in Writers,
         r \in Saves[v] \cup Prunes[v], r \in Saves[w] \cup Prunes[w]
  PROVE  v = w
<1> DEFINE S == {u \in Writers : r \in Saves[u] \cup Prunes[u]}
<1>1. Cardinality(S) = 1 /\ IsFiniteSet(S)
  BY FiniteAssumption, FS_Subset DEF Owned
<1>2. PICK x : S = {x}
  BY <1>1, FS_Singleton
<1>3. QED  BY <1>2

LEMMA Alone ==
  ASSUME TypeOK, JobInv, LockInv, NEW p \in Safe, NEW v \in Writers, NEW w \in Writers,
         Writing(v), Writing(w), path[v] = p, path[w] = p
  PROVE  v = w
<1>1. CASE p = "index"
  <2>1. OneProcess
    BY <1>1, SomePaths DEF Safe, Owned
  <2>2. v \in lock[Process[v]] /\ w \in lock[Process[v]]
    BY <1>1, <2>1 DEF LockInv, Holding, OnIndex, OneProcess
  <2>3. QED  BY <2>2 DEF LockInv, TypeOK
<1>2. CASE p # "index"
  <2>1. p \in Owned
    BY <1>2 DEF Safe
  <2>2. job[v].run = p /\ job[w].run = p /\ ~At(v, "idle") /\ ~At(w, "idle")
    BY <1>2 DEF JobInv, Writing, At
  <2>3. QED  BY <2>1, <2>2, OneOwner DEF JobInv
<1>3. QED  BY <1>1, <1>2

LEMMA HeapStep == ASSUME TypeOK, JobInv, HeapInv, Next PROVE HeapInv'
<1>0. /\ pc \in [Writers -> {"idle", "unlink_tmp", "open", "fill", "replace", "lock", "read"}]
      /\ path \in [Writers -> Paths] /\ fd \in [Writers -> {0} \cup Inodes]
      /\ tmp \in [Paths -> {0} \cup Inodes] /\ file \in [Paths -> {0} \cup Inodes]
      /\ 0 \notin Inodes
      /\ \A w \in Writers : pc[w] = "fill" => fd[w] # 0
  BY SomePaths DEF TypeOK, Inodes, JobInv, At
<1> USE <1>0, SomePaths DEF HeapInv, At, Goto, Leave
<1>1. ASSUME NEW w \in Writers, BeginSave(w) PROVE HeapInv'
  BY <1>1 DEF BeginSave
<1>2. ASSUME NEW w \in Writers, Unlink(w) PROVE HeapInv'
  <2>1. PICK r \in Prunes[w] : file' = [file EXCEPT ![r] = 0]
    BY <1>2 DEF Unlink
  <2>2. r \in Paths
    BY WritersAssumption
  <2>3. QED  BY <1>2, <2>1, <2>2 DEF Unlink
<1>3. ASSUME NEW w \in Writers, UnlinkTmp(w) PROVE HeapInv'
  <2>1. job[w].run \in Paths
    BY <1>3 DEF JobInv, UnlinkTmp
  <2>2. QED  BY <1>3, <2>1 DEF UnlinkTmp
<1>4. ASSUME NEW w \in Writers, Open(w) PROVE HeapInv'
  <2>1. PICK i \in Inodes :
           /\ IF tmp[path[w]] = 0 THEN i \notin Used ELSE i = tmp[path[w]]
           /\ tmp' = [tmp EXCEPT ![path[w]] = i] /\ fd' = [fd EXCEPT ![w] = i]
           /\ pc' = [pc EXCEPT ![w] = "fill"]
           /\ UNCHANGED <<file, path>>
    BY <1>4, OpenFacts
  <2>2. path[w] \in Paths
    OBVIOUS
  <2>3. CASE tmp[path[w]] = 0
    <3>1. /\ \A q \in Paths : i # tmp[q] /\ i # file[q]
          /\ \A v \in Writers : i # fd[v]
      BY <2>1, <2>3 DEF Used
    <3>2. QED  BY <2>1, <2>2, <3>1
  <2>4. CASE tmp[path[w]] # 0
    BY <2>1, <2>2, <2>4
  <2>5. QED  BY <2>3, <2>4
<1>5. ASSUME NEW w \in Writers, Fill(w) PROVE HeapInv'
  BY <1>5 DEF Fill
<1>6. ASSUME NEW w \in Writers, Replace(w) PROVE HeapInv'
  <2>1. /\ At(w, "replace") /\ tmp[path[w]] # 0 /\ path[w] \in Paths
        /\ file' = [file EXCEPT ![path[w]] = tmp[path[w]]]
        /\ tmp' = [tmp EXCEPT ![path[w]] = 0] /\ fd' = fd
        /\ \A v \in Writers : At(v, "fill")' => At(v, "fill") /\ path'[v] = path[v]
    BY <1>6 DEF Replace
  <2>2. QED  BY <2>1
<1>7. ASSUME NEW w \in Writers, ReplaceFails(w) PROVE HeapInv'
  BY <1>7 DEF ReplaceFails
<1>8. ASSUME NEW w \in Writers, Lock(w) PROVE HeapInv'
  BY <1>8 DEF Lock
<1>9. ASSUME NEW w \in Writers, ReadIndex(w) PROVE HeapInv'
  <2>1. /\ UNCHANGED <<tmp, file, fd>>
        /\ \A v \in Writers : At(v, "fill")' => At(v, "fill") /\ path'[v] = path[v]
    BY <1>9 DEF ReadIndex
  <2>2. QED  BY <2>1
<1>10. ASSUME NEW p \in {Process[w] : w \in Writers}, Crash(p) PROVE HeapInv'
  <2>1. /\ UNCHANGED <<tmp, file>>
        /\ \A v \in Writers : At(v, "fill")' =>
             At(v, "fill") /\ path'[v] = path[v] /\ fd'[v] = fd[v]
    BY <1>10 DEF Crash
  <2>2. QED  BY <2>1
<1>11. QED
  BY <1>1, <1>2, <1>3, <1>4, <1>5, <1>6, <1>7, <1>8, <1>9, <1>10 DEF Next, Step

LEMMA FileStep == ASSUME IInv, Next PROVE FileInv'
<1> SUFFICES ASSUME NEW p \in Safe PROVE Kept(p)'
  BY DEF FileInv
<1>0. /\ pc \in [Writers -> {"idle", "unlink_tmp", "open", "fill", "replace", "lock", "read"}]
      /\ path \in [Writers -> Paths] /\ fd \in [Writers -> {0} \cup Inodes]
      /\ tmp \in [Paths -> {0} \cup Inodes] /\ file \in [Paths -> {0} \cup Inodes]
      /\ 0 \notin Inodes /\ data \in [Inodes -> Content]
      /\ job \in [Writers -> [run : Runs, report : Status \cup {None}] \cup {NoJob}]
  BY SomePaths DEF IInv, TypeOK, Inodes
<1>k. p \in Paths /\ Kept(p)
  BY SomePaths DEF IInv, FileInv, Safe, Owned
<1>a. \A v, w \in Writers : Writing(v) /\ Writing(w) /\ path[v] = p /\ path[w] = p => v = w
  BY Alone DEF IInv
<1>h. /\ \A q \in Paths : q # p /\ tmp[p] # 0 => tmp[p] # tmp[q]
      /\ \A q \in Paths : tmp[q] # 0 => tmp[q] # file[p]
      /\ \A w \in Writers : pc[w] = "fill" =>
           /\ fd[w] # 0
           /\ path[w] # p => fd[w] # tmp[p] /\ fd[w] # file[p]
  BY <1>k DEF IInv, HeapInv, JobInv, At
<1> USE <1>0, <1>k DEF Kept, Writing, At, Goto, Leave
<1>1. ASSUME NEW w \in Writers, BeginSave(w) PROVE Kept(p)'
  BY <1>1 DEF BeginSave
<1>2. ASSUME NEW w \in Writers, Unlink(w) PROVE Kept(p)'
  <2>1. file'[p] = 0 \/ file'[p] = file[p]
    BY <1>2 DEF Unlink
  <2>2. QED  BY <1>2, <2>1 DEF Unlink
<1>3. ASSUME NEW w \in Writers, UnlinkTmp(w) PROVE Kept(p)'
  <2>1. CASE job[w].run = p
    <3>1. ~\E v \in Writers : Writing(v) /\ path[v] = p
      <4> SUFFICES ASSUME NEW v \in Writers, Writing(v), path[v] = p PROVE FALSE
        OBVIOUS
      <4>1. p \in Runs /\ p # "index" /\ p \in Owned
        BY <1>3, <2>1, SomePaths DEF UnlinkTmp, IInv, JobInv, Safe
      <4>2. v = w
        BY <1>3, <2>1, <4>1, OneOwner DEF UnlinkTmp, IInv, JobInv
      <4>3. QED  BY <1>3, <4>2 DEF UnlinkTmp
    <3>2. QED  BY <1>3, <3>1 DEF UnlinkTmp
  <2>2. CASE job[w].run # p
    BY <1>3, <2>2 DEF UnlinkTmp
  <2>3. QED  BY <2>1, <2>2
<1>4. ASSUME NEW w \in Writers, Open(w) PROVE Kept(p)'
  <2>1. PICK i \in Inodes :
           /\ IF tmp[path[w]] = 0 THEN i \notin Used ELSE i = tmp[path[w]]
           /\ tmp' = [tmp EXCEPT ![path[w]] = i] /\ fd' = [fd EXCEPT ![w] = i]
           /\ data' = [data EXCEPT ![i] = Empty]
           /\ pc' = [pc EXCEPT ![w] = "fill"]
           /\ UNCHANGED <<file, path, job>>
    BY <1>4, OpenFacts DEF IInv
  <2>2. file[p] # i /\ (path[w] # p => tmp[p] # i)
    <3>1. CASE tmp[path[w]] = 0
      BY <2>1, <3>1 DEF Used
    <3>2. CASE tmp[path[w]] # 0
      BY <2>1, <3>2, <1>h
    <3>3. QED  BY <3>1, <3>2
  <2>3. file'[p] = file[p] /\ (file[p] # 0 => data'[file[p]] = data[file[p]])
    BY <2>1, <2>2
  <2>4. At(w, "open")
    BY <1>4 DEF Open
  <2>5. ASSUME NEW v \in Writers, Writing(v)', path'[v] = p
        PROVE  /\ pc'[v] = "fill" => fd'[v] = tmp'[p] /\ data'[fd'[v]].kind = "empty"
               /\ pc'[v] = "replace" =>
                    /\ tmp'[p] # 0 /\ data'[tmp'[p]].kind = "whole"
                    /\ p \in Runs => data'[tmp'[p]].map[p] = job'[v].report
    <3>1. CASE v = w
      BY <2>1, <2>4, <2>5, <3>1 DEF Empty
    <3>2. CASE v # w
      <4>1. pc'[v] = pc[v] /\ Writing(v) /\ path[v] = p /\ fd'[v] = fd[v] /\ job'[v] = job[v]
        BY <2>1, <2>5, <3>2
      <4>2. path[w] # p
        BY <2>4, <4>1, <3>2, <1>a
      <4>3. tmp'[p] = tmp[p] /\ tmp[p] # i
        BY <2>1, <2>2, <4>2
      <4>4. tmp[p] # 0 => data'[tmp[p]] = data[tmp[p]]
        BY <2>1, <4>3
      <4>5. QED  BY <4>1, <4>3, <4>4, <1>h
    <3>3. QED  BY <3>1, <3>2
  <2>6. QED  BY <2>3, <2>5
<1>5. ASSUME NEW w \in Writers, Fill(w) PROVE Kept(p)'
  <2>1. PICK c \in {Text(w)} \cup (IF data[fd[w]].kind = "empty" THEN {} ELSE {Torn}) :
           data' = [data EXCEPT ![fd[w]] = c]
    BY <1>5 DEF Fill
  <2>2. /\ At(w, "fill") /\ pc' = [pc EXCEPT ![w] = "replace"] /\ fd' = [fd EXCEPT ![w] = 0]
        /\ UNCHANGED <<tmp, file, path, job>>
    BY <1>5 DEF Fill
  <2>3. CASE path[w] = p
    <3>1. fd[w] = tmp[p] /\ tmp[p] # 0 /\ c = Text(w)
      BY <2>1, <2>2, <2>3, <1>h
    <3>2. data'[tmp[p]] = Text(w)
      BY <2>1, <3>1
    <3>3. Text(w).kind = "whole"
      BY DEF Text, RunFile, Whole
    <3>4. ASSUME p \in Runs PROVE Text(w).map[p] = job[w].report
      <4>1. p # "index" /\ job[w].run = p
        BY <3>4, <2>2, <2>3, SomePaths DEF IInv, JobInv
      <4>2. QED  BY <4>1, <2>3, <3>4 DEF Text, RunFile, Whole, Nothing
    <3>5. file[p] # tmp[p]
      BY <1>h, <3>1
    <3>6. \A v \in Writers : Writing(v)' /\ path'[v] = p => v = w
      BY <2>2, <2>3, <1>a
    <3>7. file[p] # 0 => data'[file[p]] = data[file[p]]
      BY <2>1, <3>1, <3>5
    <3>8. QED  BY <2>2, <3>1, <3>2, <3>3, <3>4, <3>6, <3>7
  <2>4. CASE path[w] # p
    <3>1. fd[w] # tmp[p] /\ fd[w] # file[p]
      BY <2>2, <2>4, <1>h
    <3>2. /\ file[p] # 0 => data'[file[p]] = data[file[p]]
          /\ tmp[p] # 0 => data'[tmp[p]] = data[tmp[p]]
      BY <2>1, <3>1
    <3>3. \A v \in Writers : Writing(v)' /\ path'[v] = p =>
            Writing(v) /\ path[v] = p /\ pc'[v] = pc[v] /\ fd'[v] = fd[v] /\ job'[v] = job[v]
      BY <2>2, <2>4
    <3>4. QED  BY <2>2, <3>2, <3>3, <1>h
  <2>5. QED  BY <2>3, <2>4
<1>6. ASSUME NEW w \in Writers, Replace(w) PROVE Kept(p)'
  <2>1. /\ At(w, "replace") /\ tmp[path[w]] # 0 /\ path[w] \in Paths
        /\ file' = [file EXCEPT ![path[w]] = tmp[path[w]]]
        /\ tmp' = [tmp EXCEPT ![path[w]] = 0]
        /\ UNCHANGED <<data, fd>>
        /\ \A v \in Writers : Writing(v)' =>
             v # w /\ Writing(v) /\ path'[v] = path[v] /\ pc'[v] = pc[v] /\ job'[v] = job[v]
    BY <1>6 DEF Replace
  <2>2. CASE path[w] = p
    <3>1. \A v \in Writers : ~(Writing(v)' /\ path'[v] = p)
      BY <2>1, <2>2, <1>a
    <3>2. p \in Runs => job[w].report # None
      BY <2>1, <2>2, SomePaths DEF IInv, JobInv
    <3>3. QED  BY <2>1, <2>2, <3>1, <3>2
  <2>3. CASE path[w] # p
    BY <2>1, <2>3
  <2>4. QED  BY <2>2, <2>3
<1>7. ASSUME NEW w \in Writers, ReplaceFails(w) PROVE Kept(p)'
  BY <1>7 DEF ReplaceFails
<1>8. ASSUME NEW w \in Writers, Lock(w) PROVE Kept(p)'
  BY <1>8 DEF Lock
<1>9. ASSUME NEW w \in Writers, ReadIndex(w) PROVE Kept(p)'
  <2>1. /\ UNCHANGED <<tmp, file, data, fd>>
        /\ \A v \in Writers : pc'[v] \in {"fill", "replace"} =>
             pc'[v] = pc[v] /\ path'[v] = path[v] /\ job'[v] = job[v]
    BY <1>9 DEF ReadIndex
  <2>2. QED  BY <2>1
<1>10. ASSUME NEW q \in {Process[w] : w \in Writers}, Crash(q) PROVE Kept(p)'
  <2>1. /\ UNCHANGED <<tmp, file, data>>
        /\ \A v \in Writers : Writing(v)' =>
             pc'[v] = pc[v] /\ path'[v] = path[v] /\ fd'[v] = fd[v] /\ job'[v] = job[v]
    BY <1>10 DEF Crash
  <2>2. QED  BY <2>1
<1>11. QED
  BY <1>1, <1>2, <1>3, <1>4, <1>5, <1>6, <1>7, <1>8, <1>9, <1>10 DEF Next, Step

LEMMA InitIInv == Init => IInv
<1> SUFFICES ASSUME Init PROVE IInv
  OBVIOUS
<1>1. JobInv /\ LockInv /\ HeapInv /\ FileInv
  BY SomePaths DEF Init, JobInv, LockInv, HeapInv, FileInv, Kept, Holding, OnIndex, Writing, At,
                   Safe, Owned
<1>2. QED  BY <1>1, InitTypes, TypesSuffice DEF IInv

LEMMA StepIInv == IInv /\ [Next]_vars => IInv'
<1>1. ASSUME IInv, Next PROVE IInv'
  <2>1. Types' /\ JobInv' /\ LockInv' /\ HeapInv' /\ FileInv'
    BY <1>1, ActionTypes, JobStep, LockStep, HeapStep, FileStep DEF IInv
  <2>2. \A p \in DOMAIN lock' : Cardinality(lock'[p]) <= 1
    BY <2>1, AtMostOne DEF Types, LockInv
  <2>3. QED  BY <2>1, <2>2 DEF IInv, Types, TypeOK
<1>2. ASSUME IInv, UNCHANGED vars PROVE IInv'
  BY <1>2 DEF vars, IInv, TypeOK, JobInv, LockInv, HeapInv, FileInv, Kept, Holding, OnIndex,
              Writing, At
<1>3. QED  BY <1>1, <1>2

LEMMA AlwaysIInv == Spec => []IInv
BY InitIInv, StepIInv, PTL DEF Spec

\* Names lead to inodes, and a lock has at most one holder.
THEOREM TypeCorrect == Spec => []TypeOK
<1>1. IInv => TypeOK
  BY DEF IInv
<1>2. QED  BY <1>1, AlwaysIInv, PTL

\* A file that FilesWhole speaks of.
WholeAt(p) ==
  file[p] # 0 => data[file[p]].kind = "whole" /\ (p \in Runs => data[file[p]].map[p] # None)

\* The file of a run with one writer is absent or whole at every moment, for any
\* processes and crashes (run_store.py:6-8).
THEOREM RunFilesAreWhole == Spec => [](\A r \in Owned : WholeAt(r))
<1>1. IInv => \A r \in Owned : WholeAt(r)
  BY DEF IInv, FileInv, Kept, WholeAt, Safe
<1>2. QED  BY <1>1, AlwaysIInv, PTL

\* If all writers are in one process, so is the index (run_store.py:6-8).
THEOREM FilesAreWhole == ASSUME OneProcess PROVE Spec => []FilesWhole
<1>1. IInv => FilesWhole
  BY DEF IInv, FileInv, Kept, FilesWhole, Safe
<1>2. QED  BY <1>1, AlwaysIInv, PTL

-----------------------------------------------------------------------------
(* The index.                                                              *)

\* An open file is not the one under a safe name.
LEMMA UnderName ==
  ASSUME IInv, Next, NEW p \in Safe, file[p] # 0
  PROVE  data'[file[p]] = data[file[p]]
<1>0. /\ p \in Paths /\ data \in [Inodes -> Content] /\ 0 \notin Inodes
      /\ path \in [Writers -> Paths]
      /\ tmp \in [Paths -> {0} \cup Inodes] /\ file \in [Paths -> {0} \cup Inodes]
  BY SomePaths DEF IInv, TypeOK, Safe, Owned, Inodes
<1>1. ASSUME NEW w \in Writers, Open(w) PROVE data'[file[p]] = data[file[p]]
  <2>1. PICK i \in Inodes :
           /\ IF tmp[path[w]] = 0 THEN i \notin Used ELSE i = tmp[path[w]]
           /\ data' = [data EXCEPT ![i] = Empty]
    BY <1>1, OpenFacts DEF IInv
  <2>2. i # file[p]
    BY <1>0, <2>1 DEF IInv, HeapInv, Used
  <2>3. QED  BY <1>0, <2>1, <2>2
<1>2. ASSUME NEW w \in Writers, Fill(w) PROVE data'[file[p]] = data[file[p]]
  <2>1. At(w, "fill") /\ \E c : data' = [data EXCEPT ![fd[w]] = c]
    BY <1>2 DEF Fill
  <2>2. fd[w] # file[p]
    <3>1. CASE path[w] = p
      <4>1. fd[w] = tmp[p] /\ fd[w] # 0
        BY <2>1, <3>1 DEF IInv, FileInv, Kept, JobInv, Writing, At
      <4>2. QED  BY <1>0, <4>1 DEF IInv, HeapInv
    <3>2. CASE path[w] # p
      BY <1>0, <2>1, <3>2 DEF IInv, HeapInv
    <3>3. QED  BY <3>1, <3>2
  <2>3. QED  BY <1>0, <2>1, <2>2
<1>3. Next => data' = data \/ \E w \in Writers : Open(w) \/ Fill(w)
  BY DEF Next, Step, BeginSave, Unlink, UnlinkTmp, Replace, ReplaceFails, Lock, ReadIndex, Crash
<1>4. QED  BY <1>1, <1>2, <1>3

\* Nor is it the tmp file that another writer is about to rename to a safe name.
LEMMA UnderTmp ==
  ASSUME IInv, Next, NEW p \in Safe, NEW w \in Writers,
         At(w, "replace"), At(w, "replace")', path[w] = p
  PROVE  tmp'[p] = tmp[p] /\ data'[tmp[p]] = data[tmp[p]]
<1>0. /\ p \in Paths /\ data \in [Inodes -> Content] /\ 0 \notin Inodes
      /\ path \in [Writers -> Paths] /\ pc \in [Writers -> {"idle", "unlink_tmp", "open", "fill", "replace", "lock", "read"}]
      /\ tmp \in [Paths -> {0} \cup Inodes] /\ file \in [Paths -> {0} \cup Inodes]
  BY SomePaths DEF IInv, TypeOK, Safe, Owned, Inodes
<1>a. tmp[p] # 0 /\ tmp[p] \in Inodes
  BY <1>0 DEF IInv, FileInv, Kept, Writing, At
<1>b. \A v \in Writers : Writing(v) /\ path[v] = p => v = w
  BY Alone DEF IInv, Writing, At
<1>1. ASSUME NEW v \in Writers, Open(v) PROVE tmp'[p] = tmp[p] /\ data'[tmp[p]] = data[tmp[p]]
  <2>1. PICK i \in Inodes :
           /\ IF tmp[path[v]] = 0 THEN i \notin Used ELSE i = tmp[path[v]]
           /\ data' = [data EXCEPT ![i] = Empty]
           /\ tmp' = [tmp EXCEPT ![path[v]] = i]
    BY <1>1, OpenFacts DEF IInv
  <2>2. path[v] # p /\ path[v] \in Paths
    BY <1>0, <1>1, <1>b DEF Open, Writing, At
  <2>3. i # tmp[p]
    BY <1>0, <1>a, <2>1, <2>2 DEF IInv, HeapInv, Used
  <2>4. QED  BY <1>0, <1>a, <2>1, <2>2, <2>3
<1>2. ASSUME NEW v \in Writers, Fill(v) PROVE tmp'[p] = tmp[p] /\ data'[tmp[p]] = data[tmp[p]]
  <2>1. At(v, "fill") /\ tmp' = tmp /\ \E c : data' = [data EXCEPT ![fd[v]] = c]
    BY <1>2 DEF Fill
  <2>2. path[v] # p
    BY <2>1, <1>b DEF Writing, At
  <2>3. fd[v] # tmp[p]
    BY <1>0, <2>1, <2>2 DEF IInv, HeapInv
  <2>4. QED  BY <1>0, <1>a, <2>1, <2>3
<1>3. ASSUME NEW v \in Writers, Replace(v) PROVE tmp'[p] = tmp[p] /\ data'[tmp[p]] = data[tmp[p]]
  <2>1. v # w
    BY <1>3, <1>0 DEF Replace, Goto, Leave, At
  <2>2. path[v] # p
    BY <1>3, <1>b, <2>1 DEF Replace, Writing, At
  <2>3. QED  BY <1>0, <1>3, <2>2 DEF Replace
<1>4. ASSUME NEW v \in Writers, UnlinkTmp(v)
      PROVE  tmp'[p] = tmp[p] /\ data'[tmp[p]] = data[tmp[p]]
  <2>1. v # w
    BY <1>4 DEF UnlinkTmp, At
  <2>2. job[v].run # p
    <3> SUFFICES ASSUME job[v].run = p PROVE FALSE
      OBVIOUS
    <3>1. p \in Owned /\ p # "index" /\ p \in Saves[v] \cup Prunes[v]
      BY <1>4, SomePaths DEF IInv, JobInv, Safe, UnlinkTmp, At
    <3>2. p \in Saves[w] \cup Prunes[w]
      BY <3>1 DEF IInv, JobInv, Writing, At
    <3>3. QED  BY <2>1, <3>1, <3>2, OneOwner
  <2>3. QED  BY <1>0, <1>4, <2>2 DEF UnlinkTmp
<1>5. Next => \/ UNCHANGED <<tmp, data>>
              \/ \E v \in Writers : Open(v) \/ Fill(v) \/ Replace(v) \/ UnlinkTmp(v)
  BY DEF Next, Step, BeginSave, Unlink, ReplaceFails, Lock, ReadIndex, Crash
<1>6. QED  BY <1>1, <1>2, <1>3, <1>4, <1>5

\* A writer leaves what the others are doing alone.
LEMMA OthersStay ==
  ASSUME TypeOK, NEW v \in Writers, NEW w \in Writers, v # w,
         BeginSave(v) \/ Unlink(v) \/ Step(v)
  PROVE  /\ pc'[w] = pc[w] /\ job'[w] = job[w] /\ path'[w] = path[w]
         /\ fd'[w] = fd[w] /\ copy'[w] = copy[w]
<1> USE DEF TypeOK, Goto, Leave
<1>1. CASE BeginSave(v) \/ Unlink(v)
  BY <1>1 DEF BeginSave, Unlink
<1>2. CASE UnlinkTmp(v) \/ Lock(v)
  BY <1>2 DEF UnlinkTmp, Lock
<1>3. CASE Open(v)
  BY <1>3 DEF Open
<1>4. CASE Fill(v)
  BY <1>4 DEF Fill
<1>5. CASE Replace(v) \/ ReplaceFails(v)
  BY <1>5 DEF Replace, ReplaceFails
<1>6. CASE ReadIndex(v)
  BY <1>6 DEF ReadIndex
<1>7. QED  BY <1>1, <1>2, <1>3, <1>4, <1>5, <1>6 DEF Step

LEMMA IndexIsSafe == ASSUME OneProcess PROVE "index" \in Safe
BY DEF Safe

\* Only the end of an update moves the index, and it changes the entry reported.
LEMMA IndexMoves ==
  ASSUME OneProcess, IInv, ReadInv, Next
  PROVE  \/ /\ Index' = Index
            /\ \A w \in Writers : Replace(w) => path[w] # "index"
         \/ \E w \in Writers : /\ Replace(w) /\ path[w] = "index"
                               /\ Index' = [Index EXCEPT ![job[w].run] = job[w].report]
<1>0. /\ path \in [Writers -> Paths] /\ data \in [Inodes -> Content]
      /\ tmp \in [Paths -> {0} \cup Inodes] /\ file \in [Paths -> {0} \cup Inodes]
  BY DEF IInv, TypeOK
<1>1. ASSUME NEW w \in Writers, Replace(w), path[w] = "index"
      PROVE  Index' = [Index EXCEPT ![job[w].run] = job[w].report]
  <2>1. /\ tmp["index"] # 0 /\ data[tmp["index"]].kind = "whole"
        /\ data[tmp["index"]].map = [Index EXCEPT ![job[w].run] = job[w].report]
    BY <1>1, IndexIsSafe DEF IInv, FileInv, Kept, ReadInv, OnIndex, Writing, Replace, At
  <2>2. file'["index"] = tmp["index"] /\ data' = data
    BY <1>0, <1>1, SomePaths DEF Replace
  <2>3. QED  BY <2>1, <2>2 DEF Index
<1>2. ASSUME \A w \in Writers : Replace(w) => path[w] # "index"
      PROVE  Index' = Index
  <2>1. file'["index"] = file["index"]
    <3>1. \A w \in Writers : Replace(w) \/ Unlink(w) => file'["index"] = file["index"]
      BY <1>0, <1>2, SomePaths, WritersAssumption, SMTT(30) DEF Replace, Unlink
    <3>2. Next => file' = file \/ \E w \in Writers : Replace(w) \/ Unlink(w)
      BY DEF Next, Step, BeginSave, UnlinkTmp, Open, Fill, ReplaceFails, Lock, ReadIndex, Crash
    <3>3. QED  BY <3>1, <3>2
  <2>2. file["index"] # 0 => data'[file["index"]] = data[file["index"]]
    BY UnderName, IndexIsSafe
  <2>3. QED  BY <2>1, <2>2 DEF Index
<1>3. QED  BY <1>1, <1>2

LEMMA ReadStep == ASSUME OneProcess, IInv, ReadInv, Next PROVE ReadInv'
<1> SUFFICES ASSUME NEW w \in Writers, OnIndex(w)'
             PROVE  /\ (At(w, "open") \/ At(w, "fill"))' => copy'[w] = Index'
                    /\ At(w, "replace")' => data'[tmp'["index"]].map
                                            = [Index' EXCEPT ![job'[w].run] = job'[w].report]
  BY DEF ReadInv
<1>0. /\ pc \in [Writers -> {"idle", "unlink_tmp", "open", "fill", "replace", "lock", "read"}]
      /\ path \in [Writers -> Paths] /\ copy \in [Writers -> Entries] /\ data \in [Inodes -> Content]
      /\ tmp \in [Paths -> {0} \cup Inodes] /\ file \in [Paths -> {0} \cup Inodes]
      /\ fd \in [Writers -> {0} \cup Inodes]
      /\ job \in [Writers -> [run : Runs, report : Status \cup {None}] \cup {NoJob}]
  BY DEF IInv, TypeOK
<1>1. Index' = Index
  <2> SUFFICES ASSUME NEW v \in Writers, Replace(v), path[v] = "index" PROVE FALSE
    BY IndexMoves
  <2>1. v # w /\ OnIndex(w)
    BY <1>0 DEF Replace, Leave, Goto, OnIndex, Writing, At
  <2>2. OnIndex(v)
    BY DEF Replace, OnIndex, Writing, At
  <2>3. QED  BY <2>1, <2>2, Alone, IndexIsSafe DEF IInv, OnIndex
<1>2. CASE ReadIndex(w)
  <2>1. pc'[w] = "open" /\ copy'[w] = Index
    BY <1>0, <1>2 DEF ReadIndex, Leave, Goto, OnIndex, Writing, At
  <2>2. QED  BY <1>1, <2>1 DEF At
<1>3. CASE Fill(w)
  <2>1. OnIndex(w) /\ At(w, "fill") /\ pc'[w] = "replace" /\ job' = job /\ tmp' = tmp
    BY <1>0, <1>3 DEF Fill, Goto, OnIndex, Writing, At
  <2>2. fd[w] = tmp["index"] /\ fd[w] \in Inodes /\ data[fd[w]].kind = "empty" /\ copy[w] = Index
    BY <1>0, <2>1, IndexIsSafe DEF IInv, FileInv, Kept, OnIndex, JobInv, ReadInv
  <2>3. data'[fd[w]] = Text(w)
    BY <1>0, <1>3, <2>2 DEF Fill
  <2>4. Text(w).map = [Index EXCEPT ![job[w].run] = job[w].report]
    BY <2>1, <2>2 DEF Text, Whole, OnIndex
  <2>5. QED  BY <1>1, <2>1, <2>2, <2>3, <2>4 DEF At
<1>4. CASE Open(w)
  BY <1>0, <1>1, <1>4 DEF Open, Goto, OnIndex, Writing, At, ReadInv
<1>5. CASE ~ReadIndex(w) /\ ~Fill(w) /\ ~Open(w)
  <2>1. OnIndex(w) /\ pc'[w] = pc[w] /\ copy'[w] = copy[w] /\ job'[w] = job[w]
    <3>1. \A v \in Writers \ {w} : BeginSave(v) \/ Unlink(v) \/ Step(v) =>
            OnIndex(w) /\ pc'[w] = pc[w] /\ copy'[w] = copy[w] /\ job'[w] = job[w]
      BY OthersStay DEF IInv, OnIndex, Writing
    <3>2. ~(BeginSave(w) \/ Unlink(w) \/ Step(w))
      BY <1>0, <1>5, SomePaths, WritersAssumption
         DEF Step, BeginSave, Unlink, UnlinkTmp, Replace, ReplaceFails, Lock, Leave, Goto, OnIndex,
             Writing
    <3>3. \A p \in {Process[v] : v \in Writers} : Crash(p) =>
            OnIndex(w) /\ pc'[w] = pc[w] /\ copy'[w] = copy[w] /\ job'[w] = job[w]
      BY <1>0, CrashFacts DEF OnIndex, Writing, IInv
    <3>4. QED  BY <3>1, <3>2, <3>3 DEF Next
  <2>2. At(w, "replace")' => tmp'["index"] = tmp["index"] /\ data'[tmp["index"]] = data[tmp["index"]]
    BY <2>1, UnderTmp, IndexIsSafe DEF At, OnIndex
  <2>3. QED  BY <1>1, <2>1, <2>2 DEF ReadInv, At
<1>6. QED  BY <1>2, <1>3, <1>4, <1>5

\* The file of a run changes its status when it is replaced or unlinked.
LEMMA StatusMoves ==
  ASSUME IInv, Next, NEW r \in Owned
  PROVE  \/ /\ StatusOnFile(r)' = StatusOnFile(r)
            /\ \A w \in Writers : ~(Replace(w) /\ path[w] = r)
            /\ \A w \in Writers : Unlink(w) => job'[w].run # r
         \/ \E w \in Writers : Replace(w) /\ path[w] = r /\ StatusOnFile(r)' = job[w].report
         \/ \E w \in Writers : Unlink(w) /\ job'[w].run = r /\ StatusOnFile(r)' = None
<1>0. /\ r \in Paths /\ r \in Safe /\ r \in Runs
      /\ path \in [Writers -> Paths] /\ job \in [Writers -> [run : Runs, report : Status \cup {None}] \cup {NoJob}]
      /\ tmp \in [Paths -> {0} \cup Inodes] /\ file \in [Paths -> {0} \cup Inodes]
  BY SomePaths DEF IInv, TypeOK, Safe, Owned
<1>1. ASSUME NEW w \in Writers, Replace(w), path[w] = r
      PROVE  StatusOnFile(r)' = job[w].report
  <2>1. tmp[r] # 0 /\ data[tmp[r]].map[r] = job[w].report
    BY <1>0, <1>1 DEF IInv, FileInv, Kept, Writing, Replace, At
  <2>2. file'[r] = tmp[r] /\ data' = data
    BY <1>0, <1>1 DEF Replace
  <2>3. QED  BY <2>1, <2>2 DEF StatusOnFile
<1>2. ASSUME NEW w \in Writers, Unlink(w), job'[w].run = r
      PROVE  StatusOnFile(r)' = None
  <2>1. file'[r] = 0
    BY <1>0, <1>2 DEF Unlink
  <2>2. QED  BY <2>1 DEF StatusOnFile
<1>3. ASSUME \A w \in Writers : ~(Replace(w) /\ path[w] = r),
             \A w \in Writers : Unlink(w) => job'[w].run # r
      PROVE  StatusOnFile(r)' = StatusOnFile(r)
  <2>1. file'[r] = file[r]
    <3>1. \A w \in Writers : Replace(w) \/ Unlink(w) => file'[r] = file[r]
      BY <1>0, <1>3, SMTT(30) DEF Replace, Unlink
    <3>2. Next => file' = file \/ \E w \in Writers : Replace(w) \/ Unlink(w)
      BY DEF Next, Step, BeginSave, UnlinkTmp, Open, Fill, ReplaceFails, Lock, ReadIndex, Crash
    <3>3. QED  BY <3>1, <3>2
  <2>2. file[r] # 0 => data'[file[r]] = data[file[r]]
    BY <1>0, UnderName
  <2>3. QED  BY <2>1, <2>2 DEF StatusOnFile
<1>4. QED  BY <1>1, <1>2, <1>3

LEMMA ReportStep == ASSUME IInv, ReportInv, Next PROVE ReportInv'
<1> SUFFICES ASSUME NEW w \in Writers, PastFile(w)', NEW r \in Owned, job'[w].run = r
             PROVE  StatusOnFile(r)' = job'[w].report
  BY DEF ReportInv
<1>0. /\ pc \in [Writers -> {"idle", "unlink_tmp", "open", "fill", "replace", "lock", "read"}]
      /\ path \in [Writers -> Paths]
      /\ job \in [Writers -> [run : Runs, report : Status \cup {None}] \cup {NoJob}]
  BY DEF IInv, TypeOK
<1>1. CASE Unlink(w)
  <2>1. job'[w].report = None
    BY <1>0, <1>1 DEF Unlink
  <2>2. \A v \in Writers : Replace(v) => v = w
    BY <1>0, <1>1, OthersStay DEF Unlink, Goto, Replace, Leave, IInv, Step, At
  <2>3. ~Replace(w)
    BY <1>1 DEF Unlink, Replace, At
  <2>4. \A v \in Writers : Unlink(v) => v = w
    BY <1>0, <1>1, OthersStay DEF Unlink, Goto, IInv, At
  <2>5. QED  BY <1>1, <2>1, <2>2, <2>3, StatusMoves
<1>2. CASE Replace(w) /\ path[w] # "index"
  <2>1. r = job[w].run /\ job'[w].report = job[w].report /\ path[w] = r
    BY <1>0, <1>2 DEF Replace, IInv, JobInv, Writing, At
  <2>2. r \in Safe /\ r \in Runs /\ r \in Paths
    BY SomePaths DEF Safe, Owned
  <2>3. tmp[r] # 0 /\ data[tmp[r]].map[r] = job[w].report
    BY <1>0, <1>2, <2>1, <2>2 DEF IInv, FileInv, Kept, Writing, Replace, At
  <2>4. file'[r] = tmp[r] /\ data' = data
    BY <1>2, <2>1, <2>2 DEF Replace, IInv, TypeOK
  <2>5. QED  BY <2>1, <2>3, <2>4 DEF StatusOnFile
<1>3. CASE ~Unlink(w) /\ ~(Replace(w) /\ path[w] # "index")
  <2>1. PastFile(w) /\ job'[w] = job[w]
    <3>1. \A v \in Writers \ {w} : BeginSave(v) \/ Unlink(v) \/ Step(v) =>
            PastFile(w) /\ job'[w] = job[w]
      BY OthersStay DEF IInv, PastFile, Writing, At
    <3>2. BeginSave(w) => PastFile(w) /\ job'[w] = job[w]
      BY <1>0, SomePaths, WritersAssumption DEF BeginSave, PastFile, Writing, At, Goto
    <3>3. Step(w) => PastFile(w) /\ job'[w] = job[w]
      BY <1>0, <1>3 DEF Step, UnlinkTmp, Open, Fill, Replace, ReplaceFails, Lock, ReadIndex,
                        PastFile, Writing, At, Goto, Leave
    <3>4. \A p \in {Process[v] : v \in Writers} : Crash(p) => PastFile(w) /\ job'[w] = job[w]
      BY <1>0, CrashFacts DEF PastFile, Writing, IInv, At
    <3>5. QED  BY <1>3, <3>1, <3>2, <3>3, <3>4 DEF Next
  <2>2. r \in Saves[w] \cup Prunes[w] /\ StatusOnFile(r) = job[w].report
    BY <2>1 DEF PastFile, IInv, JobInv, ReportInv
  <2>3. ASSUME NEW v \in Writers, Unlink(v) PROVE job'[v].run # r
    <3> SUFFICES ASSUME job'[v].run = r PROVE FALSE
      OBVIOUS
    <3>1. r \in Prunes[v]
      BY <1>0, <2>3 DEF Unlink
    <3>2. QED  BY <1>3, <2>2, <2>3, <3>1, OneOwner
  <2>4. ASSUME NEW v \in Writers, Replace(v), path[v] = r PROVE FALSE
    <3>1. job[v].run = r /\ r \in Saves[v] \cup Prunes[v] /\ r # "index"
      BY <2>4, SomePaths DEF Replace, IInv, JobInv, Writing, At, Owned
    <3>2. v = w
      BY <2>2, <3>1, OneOwner
    <3>3. QED  BY <1>3, <2>4, <3>1, <3>2
  <2>5. StatusOnFile(r)' = StatusOnFile(r)
    BY <2>3, <2>4, StatusMoves
  <2>6. QED  BY <2>1, <2>2, <2>5
<1>4. QED  BY <1>1, <1>2, <1>3

LEMMA AgreeStep ==
  ASSUME OneProcess, IInv, IndexInv, Next PROVE IndexAgrees'
<1> SUFFICES ASSUME NEW r \in Owned, ~Busy(r)', r \notin cut'
             PROVE  Index'[r] = StatusOnFile(r)'
  BY DEF IndexAgrees
<1>0. /\ pc \in [Writers -> {"idle", "unlink_tmp", "open", "fill", "replace", "lock", "read"}]
      /\ path \in [Writers -> Paths] /\ Index \in Entries
      /\ job \in [Writers -> [run : Runs, report : Status \cup {None}] \cup {NoJob}]
      /\ r \in Runs /\ r \in Safe /\ r # "index"
  BY IndexType, SomePaths DEF IInv, TypeOK, Owned, Safe
<1>1. \A w \in Writers : ~Unlink(w) \/ job'[w].run # r
  BY <1>0 DEF Unlink, Goto, Busy, At
<1>2. \A w \in Writers : ~(Replace(w) /\ path[w] = r)
  <2> SUFFICES ASSUME NEW w \in Writers, Replace(w), path[w] = r PROVE FALSE
    OBVIOUS
  <2>1. job'[w].run = r /\ pc'[w] = "lock"
    BY <1>0 DEF Replace, IInv, JobInv, Writing, At, Goto
  <2>2. QED  BY <2>1 DEF Busy, At
<1>3. StatusOnFile(r)' = StatusOnFile(r)
  BY <1>1, <1>2, StatusMoves
<1>4. CASE Busy(r)
  <2>1. PICK w \in Writers : ~At(w, "idle") /\ job[w].run = r
    BY <1>4 DEF Busy
  <2>2. \A p \in {Process[v] : v \in Writers} : ~Crash(p)
    BY <1>0, <2>1, CrashFacts DEF IInv, Busy, At
  <2>3. \A v \in Writers \ {w} : ~(BeginSave(v) \/ Unlink(v) \/ Step(v))
    BY <2>1, OthersStay DEF IInv, Busy, At
  <2>4. ~BeginSave(w) /\ ~Unlink(w)
    BY <2>1 DEF BeginSave, Unlink
  <2>5. Step(w)
    BY <2>2, <2>3, <2>4 DEF Next
  <2>6. pc'[w] = "idle" \/ job'[w].run # r
    BY DEF Busy, At
  <2>7. ~ReplaceFails(w)
    <3> SUFFICES ASSUME At(w, "replace") PROVE tmp[path[w]] # 0
      BY DEF ReplaceFails
    <3>1. path[w] \in Safe
      BY <1>0, <2>1, IndexIsSafe DEF IInv, JobInv, Writing, At
    <3>2. QED  BY <3>1 DEF IInv, FileInv, Kept, Writing, At
  <2>8. CASE Replace(w)
    <3>1. path[w] = "index"
      BY <1>0, <2>6, <2>8, <2>1 DEF Replace, Goto
    <3>2. StatusOnFile(r) = job[w].report
      BY <2>1, <3>1 DEF IndexInv, ReportInv, PastFile
    <3>3. Index' = [Index EXCEPT ![job[w].run] = job[w].report]
      <4>1. PICK v \in Writers : /\ Replace(v) /\ path[v] = "index"
                                 /\ Index' = [Index EXCEPT ![job[v].run] = job[v].report]
        BY <2>8, <3>1, IndexMoves DEF IndexInv
      <4>2. v = w
        BY <2>3, <4>1 DEF Step
      <4>3. QED  BY <4>1, <4>2
    <3>4. QED  BY <1>0, <1>3, <2>1, <3>2, <3>3 DEF Entries
  <2>9. CASE ReadIndex(w)
    <3>1. job[w].report = None /\ Index[r] = None
      BY <1>0, <2>1, <2>6, <2>9 DEF ReadIndex, Goto
    <3>2. StatusOnFile(r) = job[w].report
      BY <2>1, <2>9 DEF IndexInv, ReportInv, PastFile, ReadIndex, Writing, At
    <3>3. Index' = Index
      BY <2>3, <2>9, IndexMoves DEF IndexInv, Step, ReadIndex, Replace, At
    <3>4. QED  BY <1>3, <3>1, <3>2, <3>3
  <2>10. CASE UnlinkTmp(w) \/ Open(w) \/ Fill(w) \/ Lock(w)
    <3>1. pc'[w] # "idle" /\ job'[w] = job[w]
      BY <1>0, <2>10 DEF UnlinkTmp, Open, Fill, Lock, Goto
    <3>2. QED  BY <2>1, <2>6, <3>1
  <2>11. QED  BY <2>5, <2>7, <2>8, <2>9, <2>10 DEF Step
<1>5. CASE ~Busy(r)
  <2>1. r \notin cut
    <3> SUFFICES ASSUME r \in cut PROVE FALSE
      OBVIOUS
    <3>1. \A w \in Writers : BeginSave(w) \/ Unlink(w) => r \in cut'
      BY <1>0 DEF BeginSave, Unlink, Busy, At, Goto
    <3>2. \A w \in Writers : Step(w) => r \in cut'
      BY DEF Step, UnlinkTmp, Open, Fill, Replace, ReplaceFails, Lock, ReadIndex
    <3>3. \A p \in {Process[v] : v \in Writers} : Crash(p) => r \in cut'
      BY DEF Crash
    <3>4. QED  BY <3>1, <3>2, <3>3 DEF Next
  <2>2. Index[r] = StatusOnFile(r)
    BY <1>5, <2>1 DEF IndexInv, IndexAgrees
  <2>3. Index'[r] = Index[r]
    <3>1. \A w \in Writers : Replace(w) => job[w].run # r
      BY <1>5 DEF Replace, Busy, At
    <3>2. QED  BY <1>0, <3>1, IndexMoves DEF IndexInv, Entries
  <2>4. QED  BY <1>3, <2>2, <2>3
<1>6. QED  BY <1>4, <1>5

LEMMA InitIndexInv == Init => IndexInv
BY SomePaths DEF Init, IndexInv, ReadInv, ReportInv, IndexAgrees, OnIndex, PastFile, Writing, At,
                 Index, StatusOnFile, Nothing, Owned

LEMMA StepIndexInv == ASSUME OneProcess PROVE IInv /\ IndexInv /\ [Next]_vars => IndexInv'
<1>1. ASSUME IInv, IndexInv, Next PROVE IndexInv'
  BY <1>1, ReadStep, ReportStep, AgreeStep DEF IndexInv
<1>2. ASSUME IndexInv, UNCHANGED vars PROVE IndexInv'
  BY <1>2 DEF vars, IndexInv, ReadInv, ReportInv, IndexAgrees, OnIndex, PastFile, Writing, At,
              Index, StatusOnFile, Busy
<1>3. QED  BY <1>1, <1>2

\* A run's status is not dropped from the index by the updates of other runs, as
\* long as they share the lock (run_store.py:63-67).
THEOREM IndexAlwaysAgrees == ASSUME OneProcess PROVE Spec => []IndexAgrees
<1>1. IInv /\ IndexInv /\ [Next]_vars => IndexInv'
  BY StepIndexInv
<1>2. IndexInv => IndexAgrees
  BY DEF IndexInv
<1>3. QED  BY <1>1, <1>2, InitIndexInv, AlwaysIInv, PTL DEF Spec

-----------------------------------------------------------------------------
(* RunStore implements RunIndex.                                           *)

\* Every step leaves the index as it is, or sets or drops one entry of it.
LEMMA StepImplements ==
  ASSUME OneProcess, IInv, IndexInv, [Next]_vars
  PROVE  [Map!Next]_Index
<1>1. CASE UNCHANGED vars
  BY <1>1 DEF vars, Index
<1>2. ASSUME Next, NEW w \in Writers, Replace(w), path[w] = "index",
             Index' = [Index EXCEPT ![job[w].run] = job[w].report]
      PROVE  Map!Next
  <2>1. job[w].run \in Runs /\ job[w].report \in Status \cup {None}
    BY <1>2 DEF IInv, TypeOK, JobInv, Replace, At, NoJob
  <2>2. CASE job[w].report = None
    BY <1>2, <2>1, <2>2 DEF Map!Next, Map!Remove, Map!None, None
  <2>3. CASE job[w].report \in Status
    BY <1>2, <2>1, <2>3 DEF Map!Next, Map!Put
  <2>4. QED  BY <2>1, <2>2, <2>3
<1>3. QED  BY <1>1, <1>2, IndexMoves DEF IndexInv

\* Threads that share one lock update the index one run at a time, although each
\* rewrites the whole file and may crash in between (run_store.py:58-79).
THEOREM IndexIsAtomic == ASSUME OneProcess PROVE Spec => AtomicIndex
<1>1. Init => Map!Init
  BY SomePaths DEF Init, Index, Map!Init, Nothing, Map!None, None
<1>2. IInv /\ IndexInv /\ [Next]_vars => IndexInv'
  BY StepIndexInv
<1>3. IInv /\ IndexInv /\ [Next]_vars => [Map!Next]_Index
  BY StepImplements
<1>4. QED
  BY <1>1, <1>2, <1>3, InitIndexInv, AlwaysIInv, PTL DEF Spec, AtomicIndex, Map!Spec
=============================================================================
