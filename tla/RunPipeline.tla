----------------------------- MODULE RunPipeline -----------------------------
(***************************************************************************)
(* From the executor to the answer: the Orchestrator writes run files, and *)
(* the Synthesizer, another process that only shares their directory,      *)
(* notices ended runs in the index, drafts, announces and stores their     *)
(* answers, and prunes what is old.  From agents/synthesizer/watcher.py,   *)
(* agents/synthesizer/main.py and agents/common/run_store.py.              *)
(*                                                                         *)
(* A run here is what DagExecutor makes of it: it is running until it ends *)
(* (once); an action run, and one nothing supports, is answered by the     *)
(* executor in the write that ends it.  A file is replaced in one step     *)
(* (RunStore), its index entry after it, in a read and a write of the      *)
(* whole index between which the other process may write it: the index     *)
(* lock is one of threads.  Both processes write the index through the     *)
(* same .tmp file, so that two writes at once may also leave the other's   *)
(* index, the old one or one that does not parse (Rewrite).                *)
(***************************************************************************)
EXTENDS Integers, FiniteSets

CONSTANTS
  Research,    \* runs whose answer the Synthesizer drafts
  Action,      \* runs of an execute_action plan
  Unsupported, \* runs of a no_capability plan
  MaxFaults    \* crashes, failed polls and writes, garbled run files explored

Runs == Research \cup Action \cup Unsupported
Nobody == "nobody"

ASSUME RunsAssumption ==
  /\ Research \cap Action = {} /\ Research \cap Unsupported = {}
  /\ Action \cap Unsupported = {} /\ IsFiniteSet(Runs) /\ Nobody \notin Runs
ASSUME BoundsAssumption == MaxFaults \in Nat

VARIABLES
  file,        \* each run's file: its overall status and its answer
  garbled,     \* runs whose file does not parse
  index,       \* the run index
  hit,         \* the processes whose index .tmp the other one has written over
  old,         \* runs whose file is older than the retention limit
  born,        \* history: the runs created (a run id is never used twice)
  owed,        \* the status the Orchestrator has saved but not yet indexed
  ocopy,       \* the index as an Orchestrator thread read it, and for which run
  stage,       \* where the Synthesizer's loop is
  todo,        \* runs the poll has yet to load, then runs of the batch to handle
  batch,       \* the runs the poll returned
  busy,        \* the run being handled or pruned
  scopy,       \* the index as the Synthesizer read it
  seen,        \* its runs already handled, in memory
  seenFile,    \* and on disk
  told,        \* history: how often the Synthesizer announced each run
  drafted,     \* history: the status of the file each draft was made from
  faults

files == <<file, garbled>>
listing == <<index, hit>>
orchestrator == <<born, owed, ocopy>>
loop == <<stage, todo, batch, busy, scopy>>
history == <<told, drafted>>
vars == <<files, listing, old, orchestrator, loop, seen, seenFile, history, faults>>

-----------------------------------------------------------------------------
Ended    == "ended"    \* completed, failed or circuit_broken: watcher's _TERMINAL_STATUSES
Statuses == {"absent", "running", Ended, "no_capability"}
Answers  == {"none", "draft", "action", "unsupported"}
NoFile   == [status |-> "absent", answer |-> "none"]
NoIndex  == [r \in Runs |-> "absent"]
NoCopy   == [run |-> Nobody, index |-> NoIndex]
Exists(r) == file[r].status # "absent"

Init ==
  /\ file = [r \in Runs |-> NoFile] /\ garbled = {}
  /\ index = NoIndex /\ hit = {} /\ old = {}
  /\ born = {} /\ owed = [r \in Runs |-> "absent"] /\ ocopy = NoCopy
  /\ stage = "down" /\ todo = {} /\ batch = {} /\ busy = Nobody /\ scopy = NoIndex
  /\ seen = {} /\ seenFile = {}
  /\ told = [r \in Runs |-> 0] /\ drafted = [r \in Runs |-> {}]
  /\ faults = 0

-----------------------------------------------------------------------------
\* The writes of the index under way: a writer has read it and not written it yet.
OrchWriting  == ocopy.run # Nobody
SynthWriting == stage = "write" \/ (stage = "unwrite" /\ scopy[busy] # "absent")
OrchIndex    == [ocopy.index EXCEPT ![ocopy.run] = owed[ocopy.run]]
SynthIndex   ==
  [scopy EXCEPT ![busy] = IF stage = "write" THEN file[busy].status ELSE "absent"]

\* _write_atomic of the index by one process.  If the other one writes as well, its
\* content may be what is renamed, or a mixture of both, which the next reader takes
\* for an empty index; the other's own rename then finds no .tmp and raises, or moves
\* somebody else's.
Rewrite(me, mine, other, racing, theirs) ==
  /\ index' \in {mine} \cup (IF racing THEN {theirs, NoIndex} ELSE {})
                       \cup (IF me \in hit THEN {index, NoIndex} ELSE {})
  /\ hit' = (hit \ {me}) \cup (IF racing THEN {other} ELSE {})

OrchRewrites  == Rewrite("orchestrator", OrchIndex, "synthesizer", SynthWriting, SynthIndex)
SynthRewrites == Rewrite("synthesizer", SynthIndex, "orchestrator", OrchWriting, OrchIndex)

-----------------------------------------------------------------------------
(* The Orchestrator.                                                       *)

\* save_run: the file is replaced, the index entry is owed.
Save(r, status, answer) ==
  /\ file' = [file EXCEPT ![r] = [status |-> status, answer |-> answer]]
  /\ owed' = [owed EXCEPT ![r] = status]
  /\ garbled' = garbled \ {r} /\ old' = old \ {r}

CreateRun(r) ==
  /\ r \notin born /\ born' = born \cup {r}
  /\ Save(r, IF r \in Unsupported THEN "no_capability" ELSE "running", "none")
  /\ UNCHANGED <<listing, ocopy, loop, seen, seenFile, history, faults>>

\* The last write of the executor; a plan cut short by the breaker is not answered.
EndRun(r) ==
  /\ owed[r] = "absent"
  /\ \/ r \in Research /\ file[r].status = "running" /\ Save(r, Ended, "none")
     \/ /\ r \in Action /\ file[r].status = "running"
        /\ \E answer \in {"none", "action"} : Save(r, Ended, answer)
     \/ /\ r \in Unsupported /\ file[r] = [status |-> "no_capability", answer |-> "none"]
        /\ Save(r, "no_capability", "unsupported")
  /\ UNCHANGED <<listing, born, ocopy, loop, seen, seenFile, history, faults>>

\* _update_index, under the lock of this process.
OrchReadsIndex(r) ==
  /\ owed[r] # "absent" /\ ocopy = NoCopy
  /\ ocopy' = [run |-> r, index |-> index]
  /\ UNCHANGED <<files, listing, old, born, owed, loop, seen, seenFile, history, faults>>

\* If its write raises, the background call ends here, as it may at any point
\* (nothing makes a run end).
OrchWritesIndex(r) ==
  /\ ocopy.run = r
  /\ OrchRewrites
  /\ owed' = [owed EXCEPT ![r] = "absent"]
  /\ ocopy' = NoCopy
  /\ UNCHANGED <<files, old, born, loop, seen, seenFile, history, faults>>

\* The index entries it had yet to write are never written.
OrchCrashes ==
  /\ faults < MaxFaults /\ \E r \in Runs : owed[r] # "absent"
  /\ owed' = [r \in Runs |-> "absent"] /\ ocopy' = NoCopy
  /\ hit' = hit \ {"orchestrator"}
  /\ faults' = faults + 1
  /\ UNCHANGED <<files, index, old, born, loop, seen, seenFile, history>>

-----------------------------------------------------------------------------
\* A run's file no longer parses: its content did not survive a failure of the
\* machine (nothing is synced to disk), or was written by a version whose RunState
\* had other fields.  It stays so until somebody writes or prunes the file.
Garble(r) ==
  /\ faults < MaxFaults /\ faults' = faults + 1
  /\ Exists(r) /\ r \notin garbled
  /\ garbled' = garbled \cup {r}
  /\ UNCHANGED <<file, listing, old, orchestrator, loop, seen, seenFile, history>>

-----------------------------------------------------------------------------
(* The Synthesizer: poll_loop.                                             *)

Goto(where) == stage' = where

\* The container starts it again; what it has handled it reads from disk.
Start ==
  /\ stage = "down"
  /\ seen' = seenFile
  /\ Goto("poll")
  /\ UNCHANGED <<files, listing, old, orchestrator, todo, batch, busy, scopy,
                 seenFile, history, faults>>

\* poll_once: the index decides which runs to load.
PollTakes(new) ==
  /\ stage = "poll"
  /\ todo' = new
  /\ batch' = {}
  /\ Goto("load")
  /\ UNCHANGED <<files, listing, old, orchestrator, busy, scopy, seen, seenFile,
                 history, faults>>

\* Slips: any listed run is taken, or one that was handled before.
PollListed == PollTakes({r \in Runs \ seen : index[r] # "absent"})
PollAgain  == PollTakes({r \in Runs : index[r] = Ended})

Poll == PollTakes({r \in Runs \ seen : index[r] = Ended})

\* A file that vanished is skipped.
Load(r) ==
  /\ stage = "load" /\ r \in todo /\ r \notin garbled
  /\ todo' = todo \ {r}
  /\ batch' = IF Exists(r) THEN batch \cup {r} ELSE batch
  /\ UNCHANGED <<files, listing, old, orchestrator, stage, busy, scopy, seen,
                 seenFile, history, faults>>

\* One that does not parse raises out of poll_once, and out of every later one as
\* long as it is listed and not seen: of the others nobody is told either.
LoadRaises(r) ==
  /\ stage = "load" /\ r \in todo /\ r \in garbled
  /\ todo' = {} /\ batch' = {}
  /\ Goto("prune")
  /\ UNCHANGED <<files, listing, old, orchestrator, busy, scopy, seen, seenFile,
                 history, faults>>

\* Slip: the batch is marked before it has been handled.
LoadedMarking ==
  /\ stage = "load" /\ todo = {}
  /\ todo' = batch
  /\ seen' = seen \cup batch /\ seenFile' = seen \cup batch
  /\ Goto("handle")
  /\ UNCHANGED <<files, listing, old, orchestrator, batch, busy, scopy, history, faults>>

Loaded ==
  /\ stage = "load" /\ todo = {}
  /\ todo' = batch
  /\ Goto(IF batch = {} THEN "prune" ELSE "handle")
  /\ UNCHANGED <<files, listing, old, orchestrator, batch, busy, scopy, seen,
                 seenFile, history, faults>>

\* _handle_completed_runs, one run of the batch: the answer is announced ...
Tell(r) ==
  /\ stage = "handle" /\ busy = Nobody /\ r \in todo
  /\ told' = [told EXCEPT ![r] = @ + 1]
  /\ drafted' = [drafted EXCEPT ![r] = @ \cup {file[r].status}]
  /\ busy' = r
  /\ Goto("persist")
  /\ UNCHANGED <<files, listing, old, orchestrator, todo, batch, scopy, seen,
                 seenFile, faults>>

\* save_run of the answer, up to the index.
Store(r) ==
  /\ file' = [file EXCEPT ![r].answer = "draft"]
  /\ old' = old \ {r}

\* ... and stored in a freshly loaded object; a failure, of the load too, is only
\* logged.
Persist(r) ==
  /\ stage = "persist" /\ busy = r
  /\ \/ r \notin garbled /\ Store(r) /\ Goto("read") /\ UNCHANGED <<todo, busy, faults>>
     \/ /\ \/ r \in garbled /\ UNCHANGED <<file, old, faults>>
           \/ /\ faults < MaxFaults /\ faults' = faults + 1
              /\ (r \notin garbled /\ Store(r)) \/ UNCHANGED <<file, old>>
        /\ todo' = todo \ {r} /\ busy' = Nobody
        /\ Goto("handle")
  /\ UNCHANGED <<garbled, listing, orchestrator, batch, scopy, seen, seenFile, history>>

\* _update_index or, of a pruned run, _remove_from_index.
ReadIndex ==
  /\ stage \in {"read", "unlist"}
  /\ scopy' = index
  /\ Goto(IF stage = "read" THEN "write" ELSE "unwrite")
  /\ UNCHANGED <<files, listing, old, orchestrator, todo, batch, busy, seen, seenFile,
                 history, faults>>

WriteIndex(r) ==
  /\ stage = "write" /\ busy = r
  /\ SynthRewrites
  /\ todo' = todo \ {r} /\ busy' = Nobody /\ scopy' = NoIndex
  /\ Goto("handle")
  /\ UNCHANGED <<files, old, orchestrator, batch, seen, seenFile, history, faults>>

\* The callback has returned: the batch is marked, in memory and then on disk.
Mark ==
  /\ stage = "handle" /\ busy = Nobody /\ todo = {}
  /\ seen' = seen \cup batch
  /\ \/ seenFile' = seen' /\ UNCHANGED faults
     \/ faults < MaxFaults /\ faults' = faults + 1 /\ UNCHANGED seenFile
  /\ batch' = {}
  /\ Goto("prune")
  /\ UNCHANGED <<files, listing, old, orchestrator, todo, busy, scopy, history>>

\* Slip: what was loaded of a failed batch is marked with it.
PollFailsMarking ==
  /\ faults < MaxFaults /\ faults' = faults + 1
  /\ stage \in {"load", "handle"} /\ todo # {}
  /\ seen' = seen \cup batch /\ seenFile' = seen'
  /\ todo' = {} /\ batch' = {}
  /\ Goto("prune")
  /\ UNCHANGED <<files, listing, old, orchestrator, busy, scopy, history>>

\* Something raises once: the reading of a run file, or the announcement.  Nothing of
\* the batch is marked.
PollFails ==
  /\ faults < MaxFaults /\ faults' = faults + 1
  /\ stage \in {"load", "handle"} /\ todo # {}
  /\ todo' = {} /\ batch' = {}
  /\ Goto("prune")
  /\ UNCHANGED <<files, listing, old, orchestrator, busy, scopy, seen, seenFile,
                 history>>

\* Slip: old files are pruned before the poll.
PruneFirst(r) ==
  /\ stage \in {"prune", "poll"} /\ r \in old
  /\ file' = [file EXCEPT ![r] = NoFile]
  /\ garbled' = garbled \ {r} /\ old' = old \ {r}
  /\ busy' = r
  /\ Goto("unlist")
  /\ UNCHANGED <<listing, orchestrator, todo, batch, scopy, seen, seenFile, history,
                 faults>>

\* prune_old_runs, every few iterations.
Prune(r) ==
  /\ stage = "prune" /\ r \in old
  /\ file' = [file EXCEPT ![r] = NoFile]
  /\ garbled' = garbled \ {r} /\ old' = old \ {r}
  /\ busy' = r
  /\ Goto("unlist")
  /\ UNCHANGED <<listing, orchestrator, todo, batch, scopy, seen, seenFile, history,
                 faults>>

Unlist(r) ==
  /\ stage = "unwrite" /\ busy = r
  /\ IF SynthWriting THEN SynthRewrites ELSE UNCHANGED <<index, hit>>
  /\ busy' = Nobody /\ scopy' = NoIndex
  /\ Goto("prune")
  /\ UNCHANGED <<files, old, orchestrator, todo, batch, seen, seenFile, history, faults>>

Sleep ==
  /\ stage = "prune" /\ Goto("sleep")
  /\ UNCHANGED <<files, listing, old, orchestrator, todo, batch, busy, scopy, seen,
                 seenFile, history, faults>>

Wake ==
  /\ stage = "sleep" /\ Goto("poll")
  /\ UNCHANGED <<files, listing, old, orchestrator, todo, batch, busy, scopy, seen,
                 seenFile, history, faults>>

SynthCrashes ==
  /\ faults < MaxFaults /\ faults' = faults + 1
  /\ stage \notin {"down", "sleep"}
  /\ Goto("down")
  /\ todo' = {} /\ batch' = {} /\ busy' = Nobody /\ scopy' = NoIndex /\ seen' = {}
  /\ hit' = hit \ {"synthesizer"}
  /\ UNCHANGED <<files, index, old, orchestrator, seenFile, history>>

\* A day passes without a write of the file: an iteration of the loop, and the
\* rewriting of an index, are far shorter.
Age(r) ==
  /\ stage \in {"down", "sleep"} /\ ocopy = NoCopy
  /\ Exists(r) /\ owed[r] = "absent" /\ r \notin old
  /\ old' = old \cup {r}
  /\ UNCHANGED <<files, listing, orchestrator, loop, seen, seenFile, history, faults>>

-----------------------------------------------------------------------------
Indexing == \E r \in Runs : OrchReadsIndex(r) \/ OrchWritesIndex(r)

Looping ==
  \/ Start \/ Poll \/ Loaded \/ ReadIndex \/ Mark \/ Sleep \/ Wake
  \/ \E r \in Runs :
       Load(r) \/ LoadRaises(r) \/ Tell(r) \/ Persist(r) \/ WriteIndex(r) \/ Unlist(r)

Next ==
  \/ \E r \in Runs : CreateRun(r) \/ EndRun(r) \/ Garble(r) \/ Prune(r) \/ Age(r)
  \/ Indexing \/ Looping
  \/ OrchCrashes \/ SynthCrashes \/ PollFails

Spec == Init /\ [][Next]_vars

\* Both processes keep running, and are started again (restart: unless-stopped);
\* an iteration may prune, but sooner or later goes on to sleep.
FairSpec == Spec /\ WF_vars(Indexing) /\ WF_vars(Looping)

-----------------------------------------------------------------------------
(* Properties.                                                             *)

\* Type invariant: at most one thread of each process is rewriting the index.
TypeOK ==
  /\ file \in [Runs -> [status : Statuses, answer : Answers]]
  /\ garbled \subseteq Runs
  /\ index \in [Runs -> Statuses] /\ hit \subseteq {"orchestrator", "synthesizer"}
  /\ old \subseteq {r \in Runs : Exists(r)}
  /\ born \subseteq Runs /\ owed \in [Runs -> Statuses]
  /\ ocopy \in [run : Runs \cup {Nobody}, index : [Runs -> Statuses]]
  /\ ocopy.run # Nobody => owed[ocopy.run] # "absent"
  /\ stage \in {"down", "poll", "load", "handle", "persist", "read", "write", "prune",
                "unlist", "unwrite", "sleep"}
  /\ todo \subseteq Runs /\ batch \subseteq Runs /\ busy \in Runs \cup {Nobody}
  /\ scopy \in [Runs -> Statuses]
  /\ seen \subseteq Runs /\ seenFile \subseteq Runs
  /\ told \in [Runs -> Nat] /\ drafted \in [Runs -> SUBSET Statuses]
  /\ faults \in 0..MaxFaults

\* A draft is only ever made from the file of a run that has ended, although
\* the poll decides on the index, which both processes overwrite with copies
\* (watcher.py:9-14: terminal means "every node finished").
DraftsAreFinal == \A r \in Runs : drafted[r] \subseteq {Ended}

\* No run is marked as handled before it has been announced, whatever crashes
\* or raises in between (poll_once: it would silently never get an answer).
SeenWasTold == \A r \in seen \cup seenFile : told[r] > 0

\* seen run ids are persisted "so a container restart doesn't re-notify on old
\* runs": once a run is in the seen file it is never announced again.
ToldOnceSeen == [][\A r \in seenFile : told'[r] = told[r]]_vars

\* Retention never takes an ended, listed run before the user was told, however long
\* the Synthesizer was down and whatever two writers make of the index.  That is as
\* long as nothing has failed: after any fault (a crash or a failed poll in between,
\* an unwritten seen file, a run file that does not parse) the sweep goes on by age
\* alone.
PruneAfterTold ==
  [][\A r \in Runs : Exists(r) /\ ~Exists(r)' /\ index[r] = Ended /\ faults = 0
       => told[r] > 0]_vars

\* The runs a poll cannot get past: listed as ended, not seen, and not to be parsed.
Blocking == {r \in garbled \ seen : index[r] = Ended}

\* A run that the index keeps showing as ended is announced in the end, over
\* crashes of the Synthesizer and polls that fail, as long as no listed run's file
\* stays unreadable: one file that does not parse ends every poll before anything is
\* announced (watcher.py:104).
ListedIsTold ==
  \A r \in Runs :
    <>[](index[r] = Ended /\ Exists(r) /\ Blocking = {}) => <>(told[r] > 0)

\* list_runs (run_store.py:134-136) calls it consistent "with every other per-item
\* isolation in this codebase" that one unreadable file does not stop the others,
\* and poll_loop counts on the next poll for what a failed one left: a run whose own
\* file can be read is announced in the end.  (Refuted: poll_once has no such
\* isolation.)
ReadableIsTold ==
  \A r \in Runs :
    <>[](index[r] = Ended /\ Exists(r) /\ r \notin garbled) => <>(told[r] > 0)

\* dag.py:176-182 and executor.py:247-254: the outcome of an action run is set
\* by the executor and "never goes through the async Synthesizer".
ActionAnswerKept ==
  [][\A r \in Action : file[r].answer = "action" => file'[r].answer # "draft"]_vars
=============================================================================
