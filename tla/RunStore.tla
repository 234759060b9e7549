------------------------------ MODULE RunStore ------------------------------
(***************************************************************************)
(* The run files and their index, agents/common/run_store.py, at the level *)
(* of its file operations.  A write goes to <path>.tmp, which is opened    *)
(* (and so emptied), filled and renamed over <path>.  save_run writes the  *)
(* run file, then reads and rewrites the index under a lock; the lock is a *)
(* threading.Lock, so it excludes the writers of one process only.         *)
(*                                                                         *)
(* The writers are the executor's background calls (one process) and the   *)
(* Synthesizer's loop (another process, on the same directory), which also *)
(* prunes.  A process may crash between any two steps and start again.     *)
(***************************************************************************)
EXTENDS Integers, FiniteSets

CONSTANTS
  Runs,        \* run ids
  Status,      \* overall_status, as far as the index is concerned
  Writers,     \* threads that save or prune
  Process,     \* the process each of them belongs to
  Saves,       \* the runs each of them saves
  Prunes,      \* the runs each of them may find old enough to prune
  MaxOps,      \* saves and prunes explored, per writer
  MaxCrashes   \* crashes explored

ASSUME WritersAssumption ==
  /\ \A w \in Writers : Saves[w] \subseteq Runs /\ Prunes[w] \subseteq Runs
  /\ "index" \notin Runs /\ "none" \notin Status
ASSUME FiniteAssumption == IsFiniteSet(Runs) /\ IsFiniteSet(Writers)
ASSUME BoundsAssumption == MaxOps \in [Writers -> Nat] /\ MaxCrashes \in Nat

VARIABLES
  tmp, file,   \* directory entries <path>.tmp and <path>: an inode, 0 = absent
  data,        \* what each inode holds
  pc,          \* where each writer is
  job,         \* what it is doing: the run, and the status it saves ("none": prune)
  path,        \* the path its _write_atomic works on
  fd,          \* the inode it has open
  copy,        \* the index as it read it
  lock,        \* _index_lock of each process
  cut,         \* history: runs whose last save or prune was cut short by a crash
  ops, crashes

vars == <<tmp, file, data, pc, job, path, fd, copy, lock, cut, ops, crashes>>

-----------------------------------------------------------------------------
None    == "none"
Paths   == Runs \cup {"index"}
Inodes  == 1..(2 * Cardinality(Paths) + Cardinality(Writers))
Entries == [Runs -> Status \cup {None}]
Nothing == [r \in Runs |-> None]
Content == [kind : {"empty", "torn", "whole"}, map : Entries]
NoJob   == [run |-> None, report |-> None]
Empty   == [kind |-> "empty", map |-> Nothing]
Torn    == [kind |-> "torn", map |-> Nothing]
Whole(m) == [kind |-> "whole", map |-> m]

\* A run file holds its run's status; it is written as a map of one entry.
RunFile(r, s) == Whole([Nothing EXCEPT ![r] = s])

Init ==
  /\ tmp = [p \in Paths |-> 0] /\ file = [p \in Paths |-> 0]
  /\ data = [i \in Inodes |-> Empty]
  /\ pc = [w \in Writers |-> "idle"]
  /\ job = [w \in Writers |-> NoJob]
  /\ path = [w \in Writers |-> "index"]
  /\ fd = [w \in Writers |-> 0]
  /\ copy = [w \in Writers |-> Nothing]
  /\ lock = [p \in {Process[w] : w \in Writers} |-> {}]
  /\ cut = {} /\ ops = [w \in Writers |-> 0] /\ crashes = 0

\* _read_index: a missing or unreadable file counts as an empty index.
Index ==
  IF file["index"] = 0 \/ data[file["index"]].kind # "whole" THEN Nothing
  ELSE data[file["index"]].map

At(w, where) == pc[w] = where
Goto(w, where) == pc' = [pc EXCEPT ![w] = where]

\* save_run or prune_old_runs is left, with or without an exception.
Leave(w) ==
  /\ Goto(w, "idle")
  /\ job' = [job EXCEPT ![w] = NoJob]
  /\ path' = [path EXCEPT ![w] = "index"]

-----------------------------------------------------------------------------
\* save_run: an object with any status may come, from a writer of that run.
BeginSave(w) ==
  /\ At(w, "idle") /\ ops[w] < MaxOps[w]
  /\ \E r \in Saves[w], s \in Status :
       /\ job' = [job EXCEPT ![w] = [run |-> r, report |-> s]]
       /\ path' = [path EXCEPT ![w] = r]
       /\ cut' = cut \ {r}
  /\ ops' = [ops EXCEPT ![w] = @ + 1]
  /\ Goto(w, "open")
  /\ UNCHANGED <<tmp, file, data, fd, copy, lock, crashes>>

\* prune_old_runs on one old file: both its names are unlinked, then its entry.
Unlink(w) ==
  /\ At(w, "idle") /\ ops[w] < MaxOps[w]
  /\ \E r \in Prunes[w] :
       /\ file[r] # 0
       /\ job' = [job EXCEPT ![w] = [run |-> r, report |-> None]]
       /\ file' = [file EXCEPT ![r] = 0]
       /\ cut' = cut \ {r}
  /\ ops' = [ops EXCEPT ![w] = @ + 1]
  /\ Goto(w, "unlink_tmp")
  /\ UNCHANGED <<tmp, data, path, fd, copy, lock, crashes>>

\* Slip: the pruned run stays in the index.
UnlinkOnly(w) ==
  /\ At(w, "unlink_tmp")
  /\ tmp' = [tmp EXCEPT ![job[w].run] = 0]
  /\ Leave(w)
  /\ UNCHANGED <<file, data, fd, copy, lock, cut, ops, crashes>>

UnlinkTmp(w) ==
  /\ At(w, "unlink_tmp")
  /\ tmp' = [tmp EXCEPT ![job[w].run] = 0]
  /\ Goto(w, "lock")
  /\ UNCHANGED <<file, data, job, path, fd, copy, lock, cut, ops, crashes>>

(* _write_atomic(path, content).                                           *)

Used == {tmp[p] : p \in Paths} \cup {file[p] : p \in Paths} \cup {fd[w] : w \in Writers}
NewInode == CHOOSE i \in Inodes : i \notin Used

\* Slip: the file is written in place.
OpenInPlace(w) ==
  /\ At(w, "open")
  /\ LET i == IF file[path[w]] = 0 THEN NewInode ELSE file[path[w]] IN
       /\ file' = [file EXCEPT ![path[w]] = i]
       /\ tmp' = [tmp EXCEPT ![path[w]] = i]
       /\ fd' = [fd EXCEPT ![w] = i]
       /\ data' = [data EXCEPT ![i] = Empty]
  /\ Goto(w, "fill")
  /\ UNCHANGED <<job, path, copy, lock, cut, ops, crashes>>

\* tmp_path.write_text: opening empties a file that is already there.
Open(w) ==
  /\ At(w, "open")
  /\ LET i == IF tmp[path[w]] = 0 THEN NewInode ELSE tmp[path[w]] IN
       /\ tmp' = [tmp EXCEPT ![path[w]] = i]
       /\ fd' = [fd EXCEPT ![w] = i]
       /\ data' = [data EXCEPT ![i] = Empty]
  /\ Goto(w, "fill")
  /\ UNCHANGED <<file, job, path, copy, lock, cut, ops, crashes>>

Text(w) ==
  IF path[w] = "index" THEN Whole([copy[w] EXCEPT ![job[w].run] = job[w].report])
  ELSE RunFile(job[w].run, job[w].report)

\* A text written over another writer's is whole only if it is the longer one.
Fill(w) ==
  /\ At(w, "fill")
  /\ \E c \in {Text(w)} \cup (IF data[fd[w]].kind = "empty" THEN {} ELSE {Torn}) :
       data' = [data EXCEPT ![fd[w]] = c]
  /\ fd' = [fd EXCEPT ![w] = 0]
  /\ copy' = [copy EXCEPT ![w] = Nothing]
  /\ Goto(w, "replace")
  /\ UNCHANGED <<tmp, file, job, path, lock, cut, ops, crashes>>

Unlocked(w) == [lock EXCEPT ![Process[w]] = @ \ {w}]

\* Slip: the index lock is not given back.
ReplaceLocked(w) ==
  /\ At(w, "replace") /\ tmp[path[w]] # 0
  /\ file' = [file EXCEPT ![path[w]] = tmp[path[w]]]
  /\ tmp' = [tmp EXCEPT ![path[w]] = 0]
  /\ IF path[w] = "index" THEN Leave(w) ELSE Goto(w, "lock") /\ UNCHANGED <<job, path>>
  /\ UNCHANGED <<data, fd, copy, lock, cut, ops, crashes>>

\* os.replace; the rewritten index is the end of the operation.
Replace(w) ==
  /\ At(w, "replace") /\ tmp[path[w]] # 0
  /\ file' = [file EXCEPT ![path[w]] = tmp[path[w]]]
  /\ tmp' = [tmp EXCEPT ![path[w]] = 0]
  /\ lock' = Unlocked(w)
  /\ IF path[w] = "index" THEN Leave(w) ELSE Goto(w, "lock") /\ UNCHANGED <<job, path>>
  /\ UNCHANGED <<data, fd, copy, cut, ops, crashes>>

\* Another writer has renamed or unlinked the shared tmp file: os.replace
\* raises, out of save_run.
ReplaceFails(w) ==
  /\ At(w, "replace") /\ tmp[path[w]] = 0
  /\ lock' = Unlocked(w)
  /\ Leave(w)
  /\ UNCHANGED <<tmp, file, data, fd, copy, cut, ops, crashes>>

(* _update_index and _remove_from_index.                                   *)

\* Slip: the lock does not exclude anyone.
LockShared(w) ==
  /\ At(w, "lock")
  /\ lock' = [lock EXCEPT ![Process[w]] = @ \cup {w}]
  /\ Goto(w, "read")
  /\ UNCHANGED <<tmp, file, data, job, path, fd, copy, cut, ops, crashes>>

Lock(w) ==
  /\ At(w, "lock") /\ lock[Process[w]] = {}
  /\ lock' = [lock EXCEPT ![Process[w]] = {w}]
  /\ Goto(w, "read")
  /\ UNCHANGED <<tmp, file, data, job, path, fd, copy, cut, ops, crashes>>

\* A prune of a run that has no entry writes nothing.
ReadIndex(w) ==
  /\ At(w, "read")
  /\ IF job[w].report = None /\ Index[job[w].run] = None
     THEN Leave(w) /\ lock' = Unlocked(w) /\ UNCHANGED copy
     ELSE /\ copy' = [copy EXCEPT ![w] = Index]
          /\ path' = [path EXCEPT ![w] = "index"]
          /\ Goto(w, "open")
          /\ UNCHANGED <<lock, job>>
  /\ UNCHANGED <<tmp, file, data, fd, cut, ops, crashes>>

-----------------------------------------------------------------------------
\* A process dies: its locks and open files go, the directory stays.
Crash(p) ==
  /\ crashes < MaxCrashes
  /\ \E w \in Writers : Process[w] = p /\ ~At(w, "idle")
  /\ LET Dead(w) == Process[w] = p IN
       /\ cut' = cut \cup {job[w].run : w \in {v \in Writers : Dead(v) /\ ~At(v, "idle")}}
       /\ pc' = [w \in Writers |-> IF Dead(w) THEN "idle" ELSE pc[w]]
       /\ job' = [w \in Writers |-> IF Dead(w) THEN NoJob ELSE job[w]]
       /\ path' = [w \in Writers |-> IF Dead(w) THEN "index" ELSE path[w]]
       /\ fd' = [w \in Writers |-> IF Dead(w) THEN 0 ELSE fd[w]]
       /\ copy' = [w \in Writers |-> IF Dead(w) THEN Nothing ELSE copy[w]]
  /\ lock' = [lock EXCEPT ![p] = {}]
  /\ crashes' = crashes + 1
  /\ UNCHANGED <<tmp, file, data, ops>>

Step(w) ==
  \/ UnlinkTmp(w) \/ Open(w) \/ Fill(w) \/ Replace(w) \/ ReplaceFails(w)
  \/ Lock(w) \/ ReadIndex(w)

Next ==
  \/ \E w \in Writers : BeginSave(w) \/ Unlink(w) \/ Step(w)
  \/ \E p \in {Process[w] : w \in Writers} : Crash(p)

Spec == Init /\ [][Next]_vars

\* A thread that is inside save_run or prune_old_runs keeps running.
FairSpec == Spec /\ \A w \in Writers : WF_vars(Step(w))

-----------------------------------------------------------------------------
(* Properties.                                                             *)

\* Type invariant: names lead to inodes, and a lock has at most one holder.
TypeOK ==
  /\ tmp \in [Paths -> {0} \cup Inodes] /\ file \in [Paths -> {0} \cup Inodes]
  /\ data \in [Inodes -> Content]
  /\ pc \in [Writers -> {"idle", "unlink_tmp", "open", "fill", "replace", "lock", "read"}]
  /\ job \in [Writers -> [run : Runs, report : Status \cup {None}] \cup {NoJob}]
  /\ path \in [Writers -> Paths]
  /\ fd \in [Writers -> {0} \cup Inodes]
  /\ copy \in [Writers -> Entries]
  /\ lock \in [{Process[w] : w \in Writers} -> SUBSET Writers]
  /\ \A p \in DOMAIN lock : Cardinality(lock[p]) <= 1
  /\ cut \subseteq Runs /\ crashes \in 0..MaxCrashes
  /\ ops \in [Writers -> Nat] /\ \A w \in Writers : ops[w] <= MaxOps[w]

\* Runs that one writer alone saves or prunes: two calls that resume the same
\* run at once also share its tmp file, and can leave a torn run file behind.
Owned == {r \in Runs : Cardinality({w \in Writers : r \in Saves[w] \cup Prunes[w]}) = 1}

\* "Writes are atomic ... so a crash mid-write never leaves a corrupt/partial
\* run file" (run_store.py:6-8): a reader of the index, or of the file of a run
\* with one writer, always finds it absent or whole, and a run file its run's.
FilesWhole ==
  \A p \in Owned \cup {"index"} : file[p] # 0 =>
    /\ data[file[p]].kind = "whole"
    /\ p \in Runs => data[file[p]].map[p] # None

StatusOnFile(r) == IF file[r] = 0 THEN None ELSE data[file[r]].map[r]
Busy(r) == \E w \in Writers : ~At(w, "idle") /\ job[w].run = r

\* No run's status is dropped from the index (run_store.py:63-67): when nothing
\* is being done to a run, and a crash did not cut the last change short, the
\* index says of it what its own file says, whatever is being done to others.
\* Nothing mends a run that a crash did cut short: of those nothing is promised.
IndexAgrees == \A r \in Owned : ~Busy(r) /\ r \notin cut => Index[r] = StatusOnFile(r)

\* A save or a prune comes to its end, whoever holds the index lock.  (What may
\* raise here does so before the lock is taken; with one process nothing can take
\* the index's temporary file away under it.)
SavesEnd == \A w \in Writers : []<>At(w, "idle")

\* The index file, as its readers see it, is a map changed one run at a time.
Map == INSTANCE RunIndex WITH index <- Index
AtomicIndex == Map!Spec
=============================================================================
