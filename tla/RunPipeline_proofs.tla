-------------------------- MODULE RunPipeline_proofs --------------------------
(***************************************************************************)
(* What two processes that only share files and an index promise about the *)
(* answers, for any number of runs, crashes and failed polls: no draft of  *)
(* an unfinished run, no run marked before it was announced, none          *)
(* announced again once it is in the seen file, and none pruned unseen     *)
(* unless something failed.                                                *)
(*                                                                         *)
(* The index is rewritten from copies either process may have read long    *)
(* ago, and loses entries when both write at once, so it can show a run as *)
(* it once was or not at all.  But a run ends once, and its id is not used *)
(* again: wherever it is listed as ended, now or in a copy, its file has   *)
(* ended or is gone (EndedInv).  What is old is in no writer's hands       *)
(* (OldInv), and what is listed of it anywhere was found by the last poll  *)
(* (PruneInv).                                                             *)
(***************************************************************************)
EXTENDS RunPipeline, TLAPS

Handling == {"handle", "persist", "read", "write"}
OneRun == {"persist", "read", "write"}
InBatch == Handling \cup {"load"}
Pruning == {"prune", "unlist", "unwrite"}

USE DEF files, listing

Listed(r) ==
  \/ index[r] = Ended \/ owed[r] = Ended
  \/ ocopy.index[r] = Ended \/ scopy[r] = Ended

EndedInv ==
  \A r \in Runs :
    /\ Exists(r) => r \in born
    /\ Listed(r) => r \in born /\ file[r].status \in {Ended, "absent"}

BatchInv ==
  /\ stage \in InBatch => \A r \in batch : file[r].status = Ended
  /\ stage = "load" => \A r \in todo : r \in born /\ file[r].status \in {Ended, "absent"}
  /\ stage \in Handling => todo \subseteq batch
  /\ stage \in OneRun => busy \in todo

SeenInv ==
  /\ \A r \in seen \cup seenFile : told[r] > 0
  /\ stage # "down" => seenFile \subseteq seen
  /\ stage \in InBatch => todo \cap seen = {} /\ batch \cap seen = {}
  /\ stage \in Handling => \A r \in batch \ todo : told[r] > 0
  /\ stage \in OneRun => told[busy] > 0

OldInv ==
  /\ \A r \in old : owed[r] = "absent"
  /\ stage \in {"read", "write", "unlist", "unwrite"} => busy \notin old

\* Shown as ended, to a reader or to a writer who may yet write it back.
Shown(r) ==
  \/ index[r] = Ended
  \/ OrchWriting /\ ocopy.index[r] = Ended
  \/ stage \in {"write", "unwrite"} /\ scopy[r] = Ended

\* What the poll after a run grew old found listed, it has told before it prunes.
PruneInv ==
  faults = 0 =>
    /\ garbled = {}
    /\ \A r \in old : Shown(r) =>
         /\ stage \in {"down", "sleep", "poll"} => told[r] > 0 \/ index[r] = Ended
         /\ stage \in Pruning => told[r] > 0
         /\ stage = "load" => told[r] > 0 \/ r \in todo \cup batch
         /\ stage \in Handling => told[r] > 0 \/ r \in todo

IInv ==
  /\ TypeOK /\ EndedInv /\ BatchInv /\ DraftsAreFinal
  /\ SeenInv /\ OldInv /\ PruneInv

-----------------------------------------------------------------------------
(* What a write of the index makes of it.                                  *)

\* An entry is left, lost, or taken from the copy of a writer.
LEMMA RewriteFacts ==
  ASSUME index \in [Runs -> Statuses], owed \in [Runs -> Statuses],
         ocopy \in [run : Runs \cup {Nobody}, index : [Runs -> Statuses]],
         scopy \in [Runs -> Statuses], busy \in Runs \cup {Nobody},
         file \in [Runs -> [status : Statuses, answer : Answers]],
         (OrchWriting /\ OrchRewrites) \/ (SynthWriting /\ SynthRewrites)
  PROVE  /\ index' \in [Runs -> Statuses]
         /\ hit' \subseteq hit \cup {"orchestrator", "synthesizer"}
         /\ \A k \in Runs :
              \/ index'[k] \in {index[k], "absent"}
              \/ OrchWriting /\ k # ocopy.run /\ index'[k] = ocopy.index[k]
              \/ OrchWriting /\ k = ocopy.run /\ index'[k] = owed[k]
              \/ SynthWriting /\ k # busy /\ index'[k] = scopy[k]
              \/ stage = "write" /\ k = busy /\ index'[k] = file[k].status
<1> DEFINE oi == OrchIndex
           si == SynthIndex
<1>1. NoIndex \in [Runs -> Statuses] /\ \A k \in Runs : NoIndex[k] = "absent"
  BY DEF NoIndex, Statuses
<1>2. OrchWriting => /\ oi \in [Runs -> Statuses]
                     /\ \A k \in Runs : oi[k] = IF k = ocopy.run THEN owed[k]
                                                 ELSE ocopy.index[k]
  BY DEF OrchIndex, OrchWriting
<1>3. SynthWriting => /\ si \in [Runs -> Statuses]
                      /\ \A k \in Runs :
                           \/ k # busy /\ si[k] = scopy[k]
                           \/ k = busy /\ stage = "write" /\ si[k] = file[k].status
                           \/ si[k] = "absent"
  BY DEF SynthIndex, SynthWriting, Statuses
<1>4. /\ index' \in {index, NoIndex, oi, si}
      /\ index' = oi => OrchWriting \/ index' \in {index, NoIndex, si}
      /\ index' = si => SynthWriting \/ index' \in {index, NoIndex, oi}
      /\ hit' \subseteq hit \cup {"orchestrator", "synthesizer"}
  BY DEF OrchRewrites, SynthRewrites, Rewrite
<1>5. \/ index' \in {index, NoIndex}
      \/ OrchWriting /\ index' = oi
      \/ SynthWriting /\ index' = si
  BY <1>4
<1> HIDE DEF oi, si
<1>6. QED  BY <1>1, <1>2, <1>3, <1>4, <1>5

-----------------------------------------------------------------------------
(* Types.                                                                  *)

LEMMA TypeStep == TypeOK /\ [Next]_vars => TypeOK'
<1> SUFFICES ASSUME TypeOK, [Next]_vars PROVE TypeOK'
  OBVIOUS
<1> USE RunsAssumption, BoundsAssumption
    DEF TypeOK, Statuses, Answers, Ended, Exists, NoFile, NoIndex, NoCopy, orchestrator, loop,
        history, Goto
<1>1. ASSUME NEW r \in Runs, CreateRun(r) PROVE TypeOK'
  BY <1>1 DEF CreateRun, Save
<1>2. ASSUME NEW r \in Runs, EndRun(r) PROVE TypeOK'
  <2>1. PICK status \in Statuses \ {"absent"}, answer \in Answers : Save(r, status, answer)
    BY <1>2 DEF EndRun
  <2>2. /\ owed[r] = "absent"
        /\ UNCHANGED <<listing, born, ocopy, loop, seen, seenFile, history, faults>>
    BY <1>2 DEF EndRun
  <2>3. /\ file' \in [Runs -> [status : Statuses, answer : Answers]]
        /\ owed' \in [Runs -> Statuses] /\ garbled' \subseteq Runs
        /\ \A k \in Runs : Exists(k) => Exists(k)'
    BY <2>1 DEF Save
  <2>4. old' \subseteq {k \in Runs : Exists(k)}' /\ owed[r] = "absent"
        /\ \A k \in Runs : owed[k] # "absent" => owed'[k] = owed[k]
    BY <2>1, <2>2, <2>3 DEF Save
  <2>5. ocopy'.run # Nobody => owed'[ocopy'.run] # "absent"
    BY <2>2, <2>4
  <2>6. QED  BY <2>2, <2>3, <2>4, <2>5
<1>3. ASSUME NEW r \in Runs, OrchReadsIndex(r) PROVE TypeOK'
  BY <1>3 DEF OrchReadsIndex
<1>4. ASSUME NEW r \in Runs, OrchWritesIndex(r) PROVE TypeOK'
  <2>1. OrchWriting /\ OrchRewrites
    BY <1>4 DEF OrchWritesIndex, OrchWriting
  <2>2. index' \in [Runs -> Statuses] /\ hit' \subseteq {"orchestrator", "synthesizer"}
    BY <2>1, RewriteFacts
  <2>3. QED  BY <1>4, <2>2 DEF OrchWritesIndex
<1>5. CASE OrchCrashes
  BY <1>5 DEF OrchCrashes
<1>6. CASE Start \/ Poll \/ Loaded \/ ReadIndex \/ Mark \/ Sleep \/ Wake
  <2>1. CASE Start
    BY <2>1 DEF Start
  <2>2. CASE Poll
    BY <2>2 DEF Poll, PollTakes
  <2>3. CASE Loaded
    BY <2>3 DEF Loaded
  <2>4. CASE ReadIndex
    BY <2>4 DEF ReadIndex
  <2>5. CASE Mark
    BY <2>5 DEF Mark
  <2>6. CASE Sleep \/ Wake
    BY <2>6 DEF Sleep, Wake
  <2>7. QED  BY <1>6, <2>1, <2>2, <2>3, <2>4, <2>5, <2>6
<1>7. ASSUME NEW r \in Runs, Load(r) \/ LoadRaises(r) \/ Garble(r) \/ Tell(r) PROVE TypeOK'
  <2>1. CASE Load(r)
    BY <2>1 DEF Load
  <2>4. CASE LoadRaises(r)
    BY <2>4 DEF LoadRaises
  <2>5. CASE Garble(r)
    BY <2>5 DEF Garble
  <2>2. CASE Tell(r)
    <3>1. told[r] + 1 \in Nat /\ file[r].status \in Statuses
      OBVIOUS
    <3>2. told' \in [Runs -> Nat] /\ drafted' \in [Runs -> SUBSET Statuses]
      BY <2>2, <3>1 DEF Tell
    <3>3. QED  BY <2>2, <3>2 DEF Tell
  <2>3. QED  BY <1>7, <2>1, <2>2, <2>4, <2>5
<1>8. ASSUME NEW r \in Runs, Persist(r) PROVE TypeOK'
  <2>1. /\ file' \in [Runs -> [status : Statuses, answer : Answers]]
        /\ old' \subseteq {k \in Runs : Exists(k)}'
    <3>1. CASE Store(r)
      <4>1. "draft" \in Answers /\ file[r] \in [status : Statuses, answer : Answers]
        BY DEF Answers
      <4>2. [file[r] EXCEPT !.answer = "draft"] \in [status : Statuses, answer : Answers]
        BY <4>1
      <4>3. /\ file' \in [Runs -> [status : Statuses, answer : Answers]]
            /\ \A k \in Runs : file'[k].status = file[k].status
        BY <3>1, <4>2 DEF Store
      <4>4. old' \subseteq {k \in Runs : Exists(k)}'
        BY <3>1, <4>3 DEF Store
      <4>5. QED  BY <4>3, <4>4
    <3>2. CASE UNCHANGED <<file, old>>
      BY <3>2
    <3>3. QED  BY <1>8, <3>1, <3>2 DEF Persist
  <2>2. faults' \in 0..MaxFaults /\ todo' \subseteq Runs /\ busy' \in Runs \cup {Nobody}
        /\ stage' \in {"read", "handle"}
    BY <1>8 DEF Persist
  <2>3. QED  BY <1>8, <2>1, <2>2 DEF Persist
<1>9. ASSUME NEW r \in Runs, WriteIndex(r) \/ Unlist(r) PROVE TypeOK'
  <2>1. (SynthWriting /\ SynthRewrites) \/ UNCHANGED <<index, hit>>
    BY <1>9 DEF WriteIndex, Unlist, SynthWriting
  <2>2. index' \in [Runs -> Statuses] /\ hit' \subseteq {"orchestrator", "synthesizer"}
    BY <2>1, RewriteFacts
  <2>3. QED  BY <1>9, <2>2 DEF WriteIndex, Unlist
<1>10. ASSUME NEW r \in Runs, Prune(r) \/ Age(r) PROVE TypeOK'
  <2>1. CASE Prune(r)
    <3>1. file' \in [Runs -> [status : Statuses, answer : Answers]]
          /\ old' \subseteq {k \in Runs : Exists(k)}'
      BY <2>1 DEF Prune
    <3>2. QED  BY <2>1, <3>1 DEF Prune
  <2>2. CASE Age(r)
    BY <2>2 DEF Age
  <2>3. QED  BY <1>10, <2>1, <2>2
<1>11. CASE SynthCrashes \/ PollFails
  <2>1. CASE SynthCrashes
    BY <2>1 DEF SynthCrashes
  <2>2. CASE PollFails
    BY <2>2 DEF PollFails
  <2>3. QED  BY <1>11, <2>1, <2>2
<1>12. CASE UNCHANGED vars
  BY <1>12 DEF vars
<1>13. QED
  BY <1>1, <1>2, <1>3, <1>4, <1>5, <1>6, <1>7, <1>8, <1>9, <1>10, <1>11, <1>12
     DEF Next, Indexing, Looping

-----------------------------------------------------------------------------
(* A run listed as ended has ended.                                        *)

\* The functions, for what follows.
Shapes ==
  /\ file \in [Runs -> [status : Statuses, answer : Answers]]
  /\ index \in [Runs -> Statuses] /\ owed \in [Runs -> Statuses]
  /\ ocopy \in [run : Runs \cup {Nobody}, index : [Runs -> Statuses]]
  /\ scopy \in [Runs -> Statuses]
  /\ old \subseteq {r \in Runs : Exists(r)}
  /\ told \in [Runs -> Nat] /\ drafted \in [Runs -> SUBSET Statuses]
  /\ faults \in Nat
  /\ todo \subseteq Runs /\ batch \subseteq Runs
  /\ seen \subseteq Runs /\ seenFile \subseteq Runs /\ busy \in Runs \cup {Nobody}
  /\ ocopy.run # Nobody => owed[ocopy.run] # "absent"

LEMMA ShapesHold == TypeOK => Shapes
BY BoundsAssumption DEF TypeOK, Shapes

\* What a step makes of a run's file: it is created once, it ends, it is
\* removed, or its status stays.
Stays(r) == file'[r].status = file[r].status /\ (r \in born' <=> r \in born)
Created(r) ==
  r \notin born /\ r \in born' /\ file'[r].status \in {"running", "no_capability"}
Closed(r) ==
  /\ (r \in born' <=> r \in born)
  /\ \/ file[r].status = "running" /\ file'[r].status = Ended
     \/ stage = "prune" /\ file'[r].status = "absent"

LEMMA FileMoves ==
  ASSUME Shapes, [Next]_vars, NEW k \in Runs
  PROVE  Stays(k) \/ Created(k) \/ Closed(k)
<1> USE DEF Shapes, Statuses, Answers, Ended, NoFile, orchestrator, loop, Stays
<1>1. ASSUME NEW r \in Runs, CreateRun(r) PROVE Stays(k) \/ Created(k)
  <2>1. PICK status \in {"running", "no_capability"} : Save(r, status, "none")
    BY <1>1 DEF CreateRun
  <2>2. r \notin born /\ born' = born \cup {r}
    BY <1>1 DEF CreateRun
  <2>3. QED  BY <2>1, <2>2 DEF Save, Created
<1>2. ASSUME NEW r \in Runs, EndRun(r) PROVE Stays(k) \/ Closed(k)
  <2>1. PICK status \in Statuses, answer \in Answers :
          /\ Save(r, status, answer)
          /\ \/ file[r].status = "running" /\ status = Ended
             \/ file[r].status = status
    BY <1>2 DEF EndRun
  <2>2. born' = born
    BY <1>2 DEF EndRun
  <2>3. QED  BY <2>1, <2>2 DEF Save, Closed
<1>3. ASSUME NEW r \in Runs, Persist(r) PROVE Stays(k)
  <2>1. (Store(r) \/ file' = file) /\ born' = born
    BY <1>3 DEF Persist
  <2>2. QED  BY <2>1 DEF Store
<1>4. ASSUME NEW r \in Runs, Prune(r) PROVE Stays(k) \/ Closed(k)
  BY <1>4 DEF Prune, Closed
<1>5. CASE file' = file /\ born' = born
  BY <1>5
<1>6. QED
  BY <1>1, <1>2, <1>3, <1>4, <1>5 DEF Next, Indexing, Looping, OrchReadsIndex, OrchWritesIndex,
     OrchCrashes, Start, Poll, PollTakes, Loaded, ReadIndex, Mark, Sleep, Wake, Load, Tell,
     WriteIndex, Unlist, Age, SynthCrashes, PollFails, LoadRaises, Garble, vars

\* A listing is copied, or made when a file ends or is found ended.
LEMMA ListMoves ==
  ASSUME Shapes, BatchInv, [Next]_vars, NEW k \in Runs, Listed(k)'
  PROVE  Listed(k) \/ file'[k].status = Ended
<1> USE DEF Shapes, Statuses, Ended, NoIndex, NoCopy, orchestrator, loop, Listed
<1>1. ASSUME NEW r \in Runs, CreateRun(r) PROVE Listed(k)
  BY <1>1 DEF CreateRun, Save
<1>2. ASSUME NEW r \in Runs, EndRun(r) PROVE Listed(k) \/ file'[k].status = Ended
  <2>1. PICK status \in Statuses, answer \in Answers : Save(r, status, answer)
    BY <1>2 DEF EndRun, Answers
  <2>2. UNCHANGED <<index, ocopy, scopy>>
    BY <1>2 DEF EndRun
  <2>3. QED  BY <2>1, <2>2 DEF Save
<1>3. ASSUME NEW r \in Runs, OrchReadsIndex(r) PROVE Listed(k)
  BY <1>3 DEF OrchReadsIndex
<1>4. ASSUME NEW r \in Runs, OrchWritesIndex(r) \/ WriteIndex(r) \/ Unlist(r)
      PROVE  Listed(k) \/ file'[k].status = Ended
  <2>1. file' = file
    BY <1>4 DEF OrchWritesIndex, WriteIndex, Unlist
  <2>2. index'[k] = Ended => Listed(k) \/ file[k].status = Ended
    <3>1. UNCHANGED index \/ (OrchWriting /\ OrchRewrites) \/ (SynthWriting /\ SynthRewrites)
      BY <1>4, RunsAssumption
         DEF OrchWritesIndex, WriteIndex, Unlist, OrchWriting, SynthWriting
    <3>2. QED  BY <3>1, RewriteFacts
  <2>3. /\ owed'[k] = Ended => owed[k] = Ended
        /\ ocopy'.index[k] = Ended => ocopy.index[k] = Ended
        /\ scopy'[k] = Ended => scopy[k] = Ended
    BY <1>4 DEF OrchWritesIndex, WriteIndex, Unlist
  <2>4. QED  BY <2>1, <2>2, <2>3
<1>5. CASE OrchCrashes \/ ReadIndex \/ SynthCrashes
  BY <1>5 DEF OrchCrashes, ReadIndex, SynthCrashes
<1>6. CASE UNCHANGED <<index, owed, ocopy, scopy>>
  BY <1>6
<1>7. QED
  BY <1>1, <1>2, <1>3, <1>4, <1>5, <1>6 DEF Next, Indexing, Looping, Start, Poll, PollTakes,
     Loaded, Mark, Sleep, Wake, Load, Tell, Persist, Prune, Age, PollFails, LoadRaises, Garble, vars

LEMMA EndedStep ==
  ASSUME Shapes, EndedInv, BatchInv, [Next]_vars
  PROVE  EndedInv'
<1> SUFFICES ASSUME NEW k \in Runs
             PROVE  /\ Exists(k)' => k \in born'
                    /\ Listed(k)' => k \in born' /\ file'[k].status \in {Ended, "absent"}
  BY DEF EndedInv
<1>1. /\ Exists(k) => k \in born
      /\ Listed(k) => k \in born /\ file[k].status \in {Ended, "absent"}
  BY DEF EndedInv
<1>2. Listed(k)' => Listed(k) \/ file'[k].status = Ended
  BY ListMoves
<1>3. Stays(k) \/ Created(k) \/ Closed(k)
  BY FileMoves
<1>4. QED
  BY <1>1, <1>2, <1>3 DEF Stays, Created, Closed, Exists, Ended

-----------------------------------------------------------------------------
(* What is drafted, told and marked.                                       *)

\* The steps that are not the Synthesizer's.
Elsewhere ==
  \/ \E r \in Runs : CreateRun(r) \/ EndRun(r) \/ Garble(r) \/ Age(r)
  \/ Indexing \/ OrchCrashes \/ UNCHANGED vars

LEMMA ElsewhereFrame ==
  Elsewhere => UNCHANGED <<loop, seen, seenFile, history>>
BY DEF Elsewhere, Indexing, CreateRun, EndRun, Garble, Age, OrchReadsIndex, OrchWritesIndex,
   OrchCrashes, vars

LEMMA BatchStep ==
  ASSUME Shapes, EndedInv, BatchInv, [Next]_vars
  PROVE  BatchInv'
<1> USE DEF BatchInv, InBatch, Handling, OneRun
<1>1. ASSUME NEW r \in Runs, stage \in InBatch, file[r].status = Ended
      PROVE  file'[r].status = Ended
  <2>1. Stays(r) \/ Created(r) \/ Closed(r)
    BY FileMoves
  <2>2. r \in born
    BY <1>1 DEF EndedInv, Exists, Ended
  <2>3. QED  BY <1>1, <2>1, <2>2 DEF Stays, Created, Closed, Ended
<1>2. ASSUME NEW r \in Runs, stage = "load", r \in born, file[r].status \in {Ended, "absent"}
      PROVE  r \in born' /\ file'[r].status \in {Ended, "absent"}
  <2>1. Stays(r) \/ Created(r) \/ Closed(r)
    BY FileMoves
  <2>2. QED  BY <1>2, <2>1 DEF Stays, Created, Closed, Ended
<1>3. CASE Elsewhere
  BY <1>1, <1>2, <1>3, ElsewhereFrame DEF Shapes, loop
<1>4. CASE Start \/ ReadIndex \/ Mark \/ Sleep \/ Wake
  BY <1>1, <1>2, <1>4 DEF Shapes, Start, ReadIndex, Mark, Sleep, Wake, Goto
<1>5. CASE Poll
  <2>1. /\ stage = "poll" /\ stage' = "load" /\ batch' = {}
        /\ todo' = {r \in Runs \ seen : index[r] = Ended}
        /\ UNCHANGED <<file, born>>
    BY <1>5 DEF Poll, PollTakes, Goto, orchestrator
  <2>2. \A r \in todo' : r \in born /\ file[r].status \in {Ended, "absent"}
    BY <2>1 DEF EndedInv, Listed
  <2>3. QED  BY <2>1, <2>2
<1>6. ASSUME NEW r \in Runs, Load(r) PROVE BatchInv'
  <2>1. /\ stage = "load" /\ stage' = "load" /\ r \in todo /\ todo' = todo \ {r}
        /\ batch' = IF Exists(r) THEN batch \cup {r} ELSE batch
        /\ UNCHANGED <<file, born>>
    BY <1>6 DEF Load, orchestrator
  <2>2. Exists(r) => file[r].status = Ended
    BY <2>1 DEF Exists
  <2>3. QED  BY <2>1, <2>2
<1>7. CASE Loaded
  BY <1>7 DEF Loaded, Goto
<1>8. ASSUME NEW r \in Runs, Tell(r) \/ Persist(r) \/ WriteIndex(r) \/ Unlist(r) \/ Prune(r)
      PROVE  BatchInv'
  <2>1. CASE Tell(r)
    BY <2>1 DEF Tell, Goto
  <2>2. CASE Persist(r)
    <3>1. /\ stage = "persist" /\ batch' = batch
          /\ \/ stage' = "read" /\ UNCHANGED <<todo, busy>>
             \/ stage' = "handle" /\ todo' = todo \ {r}
      BY <2>2 DEF Persist, Goto
    <3>2. QED  BY <1>1, <3>1 DEF Shapes
  <2>3. CASE WriteIndex(r)
    BY <2>3 DEF WriteIndex, Goto
  <2>4. CASE Unlist(r)
    BY <2>4 DEF Unlist, Goto
  <2>5. CASE Prune(r)
    BY <2>5 DEF Prune, Goto
  <2>6. QED  BY <1>8, <2>1, <2>2, <2>3, <2>4, <2>5
<1>9. CASE SynthCrashes \/ PollFails \/ \E r \in Runs : LoadRaises(r)
  BY <1>9 DEF SynthCrashes, PollFails, LoadRaises, Garble, Goto
<1>10. QED
  BY <1>3, <1>4, <1>5, <1>6, <1>7, <1>8, <1>9 DEF Next, Looping, Elsewhere

LEMMA DraftStep ==
  ASSUME Shapes, BatchInv, DraftsAreFinal, [Next]_vars
  PROVE  DraftsAreFinal'
<1>1. CASE UNCHANGED drafted
  BY <1>1 DEF DraftsAreFinal
<1>2. ASSUME NEW r \in Runs, Tell(r) PROVE DraftsAreFinal'
  <2>1. file[r].status = Ended
    BY <1>2 DEF Tell, BatchInv, InBatch, Handling
  <2>2. drafted' = [drafted EXCEPT ![r] = drafted[r] \cup {Ended}]
    BY <1>2, <2>1 DEF Tell
  <2>3. QED  BY <2>2 DEF DraftsAreFinal, Shapes
<1>3. QED
  BY <1>1, <1>2, ElsewhereFrame DEF Next, Looping, Elsewhere, history, Start, Poll, PollTakes,
     Loaded, ReadIndex, Mark, Sleep, Wake, Load, Persist, WriteIndex, Unlist, Prune,
     SynthCrashes, PollFails, LoadRaises, Garble

LEMMA SeenStep ==
  ASSUME Shapes, BatchInv, SeenInv, [Next]_vars
  PROVE  SeenInv'
<1> USE DEF SeenInv, InBatch, Handling, OneRun
<1>1. CASE Elsewhere
  BY <1>1, ElsewhereFrame DEF loop, history
<1>2. CASE Start \/ ReadIndex \/ Sleep \/ Wake
  BY <1>2 DEF Start, ReadIndex, Sleep, Wake, Goto, history
<1>3. CASE Poll
  BY <1>3 DEF Poll, PollTakes, Goto, history
<1>4. CASE Loaded
  BY <1>4 DEF Loaded, Goto, history
<1>5. CASE Mark
  <2>1. /\ stage = "handle" /\ todo = {} /\ stage' = "prune" /\ told' = told
        /\ seen' = seen \cup batch /\ seenFile' \in {seen', seenFile}
    BY <1>5 DEF Mark, Goto, history
  <2>2. QED  BY <2>1
<1>6. ASSUME NEW r \in Runs, Load(r) PROVE SeenInv'
  BY <1>6 DEF Load, history
<1>7. ASSUME NEW r \in Runs, Tell(r) PROVE SeenInv'
  <2>1. /\ stage = "handle" /\ stage' = "persist" /\ r \in todo /\ busy' = r
        /\ UNCHANGED <<todo, batch, seen, seenFile>>
    BY <1>7 DEF Tell, Goto
  <2>2. told'[r] > 0 /\ \A k \in Runs : told[k] > 0 => told'[k] > 0
    BY <1>7 DEF Tell, Shapes
  <2>3. QED  BY <2>1, <2>2 DEF Shapes
<1>8. ASSUME NEW r \in Runs, Persist(r) \/ WriteIndex(r) PROVE SeenInv'
  BY <1>8 DEF Persist, WriteIndex, Goto, history, Shapes
<1>9. ASSUME NEW r \in Runs, Unlist(r) \/ Prune(r) PROVE SeenInv'
  BY <1>9 DEF Unlist, Prune, Goto, history
<1>10. CASE SynthCrashes \/ PollFails \/ \E r \in Runs : LoadRaises(r)
  BY <1>10 DEF SynthCrashes, PollFails, LoadRaises, Garble, Goto, history
<1>11. QED
  BY <1>1, <1>2, <1>3, <1>4, <1>5, <1>6, <1>7, <1>8, <1>9, <1>10
     DEF Next, Looping, Elsewhere

-----------------------------------------------------------------------------
(* What is old is in nobody's hands, and was told.                         *)

LEMMA OldStep ==
  ASSUME Shapes, OldInv, [Next]_vars
  PROVE  OldInv'
<1> USE RunsAssumption DEF OldInv
<1>1. ASSUME NEW r \in Runs, CreateRun(r) \/ EndRun(r) PROVE OldInv'
  <2>1. PICK status \in Statuses, answer \in Answers : Save(r, status, answer)
    BY <1>1 DEF CreateRun, EndRun, Statuses, Answers, Ended
  <2>2. UNCHANGED <<stage, busy>>
    BY <1>1 DEF CreateRun, EndRun, loop
  <2>3. QED  BY <2>1, <2>2 DEF Save, Shapes
<1>2. ASSUME NEW r \in Runs, OrchReadsIndex(r) \/ OrchWritesIndex(r) \/ Garble(r) PROVE OldInv'
  <2>1. UNCHANGED <<old, stage, busy>> /\ \A k \in Runs : owed'[k] \in {owed[k], "absent"}
    BY <1>2 DEF OrchReadsIndex, OrchWritesIndex, Garble, loop, orchestrator, Shapes
  <2>2. QED  BY <2>1 DEF Shapes
<1>3. CASE OrchCrashes
  BY <1>3 DEF OrchCrashes, loop, Shapes
<1>4. CASE Start \/ Poll \/ Loaded \/ ReadIndex \/ Mark \/ Sleep \/ Wake
  BY <1>4 DEF Start, Poll, PollTakes, Loaded, ReadIndex, Mark, Sleep, Wake, Goto, orchestrator
<1>5. ASSUME NEW r \in Runs, Load(r) \/ LoadRaises(r) \/ Tell(r) PROVE OldInv'
  BY <1>5 DEF Load, LoadRaises, Tell, Goto, orchestrator
<1>6. ASSUME NEW r \in Runs, Persist(r) PROVE OldInv'
  <2>1. /\ busy = r /\ UNCHANGED owed
        /\ \/ Store(r) /\ stage' = "read" /\ busy' = busy
           \/ (Store(r) \/ old' = old) /\ stage' = "handle"
    BY <1>6 DEF Persist, Goto, orchestrator
  <2>2. QED  BY <2>1 DEF Store
<1>7. ASSUME NEW r \in Runs, WriteIndex(r) \/ Unlist(r) PROVE OldInv'
  BY <1>7 DEF WriteIndex, Unlist, Goto, orchestrator
<1>8. ASSUME NEW r \in Runs, Prune(r) PROVE OldInv'
  BY <1>8 DEF Prune, Goto, orchestrator
<1>9. ASSUME NEW r \in Runs, Age(r) PROVE OldInv'
  BY <1>9 DEF Age, Goto, orchestrator, loop
<1>10. CASE SynthCrashes \/ PollFails
  BY <1>10 DEF SynthCrashes, PollFails, Goto, orchestrator
<1>11. CASE UNCHANGED vars
  BY <1>11 DEF vars, orchestrator, loop
<1>12. QED
  BY <1>1, <1>2, <1>3, <1>4, <1>5, <1>6, <1>7, <1>8, <1>9, <1>10, <1>11
     DEF Next, Indexing, Looping

\* What stays old is not shown as ended anew.
LEMMA OldListing ==
  ASSUME Shapes, OldInv, [Next]_vars, NEW k \in old, k \in old', Shown(k)'
  PROVE  Shown(k)
<1> USE DEF Shown
<1>1. k \in Runs /\ owed[k] = "absent" /\ "absent" # Ended
  BY DEF Shapes, OldInv, Ended
<1>2. ASSUME NEW r \in Runs, OrchWritesIndex(r) \/ WriteIndex(r) \/ Unlist(r) PROVE Shown(k)
  <2>1. index'[k] = Ended => Shown(k)
    <3>1. UNCHANGED index \/ (OrchWriting /\ OrchRewrites) \/ (SynthWriting /\ SynthRewrites)
      BY <1>2, RunsAssumption
         DEF OrchWritesIndex, WriteIndex, Unlist, OrchWriting, SynthWriting
    <3>2. stage = "write" => k # busy
      BY DEF OldInv
    <3>3. SynthWriting => stage \in {"write", "unwrite"}
      BY DEF SynthWriting
    <3>4. CASE UNCHANGED index
      BY <3>4
    <3>5. CASE ~UNCHANGED index
      <4>1. \/ index'[k] \in {index[k], "absent"}
            \/ OrchWriting /\ k # ocopy.run /\ index'[k] = ocopy.index[k]
            \/ OrchWriting /\ k = ocopy.run /\ index'[k] = owed[k]
            \/ SynthWriting /\ k # busy /\ index'[k] = scopy[k]
            \/ stage = "write" /\ k = busy /\ index'[k] = file[k].status
        BY <1>1, <3>1, <3>5, RewriteFacts DEF Shapes
      <4>2. QED  BY <1>1, <3>2, <3>3, <4>1
    <3>6. QED  BY <3>4, <3>5
  <2>2. OrchWriting' => OrchWriting /\ ocopy' = ocopy
    BY <1>2 DEF OrchWritesIndex, WriteIndex, Unlist, OrchWriting, NoCopy, orchestrator
  <2>3. stage' \in {"write", "unwrite"} => stage' = stage /\ scopy' = scopy
    BY <1>2 DEF OrchWritesIndex, WriteIndex, Unlist, Goto, loop
  <2>4. QED  BY <2>1, <2>2, <2>3
<1>3. ASSUME NEW r \in Runs, OrchReadsIndex(r) PROVE Shown(k)
  BY <1>3 DEF OrchReadsIndex, loop
<1>4. CASE ReadIndex
  BY <1>4 DEF ReadIndex, orchestrator, OrchWriting
<1>5. CASE OrchCrashes
  BY <1>5 DEF OrchCrashes, NoCopy, OrchWriting, loop
<1>6. CASE /\ UNCHANGED <<index, ocopy>>
           /\ stage' \in {"write", "unwrite"} => stage' = stage /\ scopy' = scopy
  BY <1>6 DEF OrchWriting
<1>7. CASE Elsewhere
  BY <1>2, <1>3, <1>5, <1>6, <1>7
     DEF Elsewhere, Indexing, CreateRun, EndRun, Garble, Age, vars, loop, orchestrator
<1>8. CASE Looping
  BY <1>2, <1>4, <1>6, <1>8 DEF Looping, Start, Poll, PollTakes, Loaded, Mark, Sleep, Wake, Load,
     LoadRaises, Tell, Persist, Goto, orchestrator
<1>9. QED
  BY <1>6, <1>7, <1>8 DEF Next, Elsewhere, Prune, SynthCrashes, PollFails, Goto, orchestrator

LEMMA PruneStep ==
  ASSUME Shapes, BatchInv, SeenInv, OldInv, PruneInv, [Next]_vars
  PROVE  PruneInv'
<1>0. ASSUME faults' = 0 PROVE faults = 0 /\ garbled = {} /\ garbled' = {}
  <2>1. faults' = faults \/ faults' = faults + 1
    BY DEF Next, Indexing, Looping, CreateRun, EndRun, Age, OrchReadsIndex, OrchWritesIndex,
       OrchCrashes, Start, Poll, PollTakes, Loaded, ReadIndex, Mark, Sleep, Wake, Load, Tell,
       Persist, WriteIndex, Unlist, Prune, SynthCrashes, PollFails, LoadRaises, Garble, vars
  <2>2. faults = 0 /\ garbled = {}
    BY <1>0, <2>1 DEF Shapes, PruneInv
  <2>3. ASSUME NEW r \in Runs PROVE ~Garble(r)
    BY <1>0, <2>2 DEF Garble
  <2>4. garbled' \subseteq garbled
    BY <2>3 DEF Next, Indexing, Looping, CreateRun, EndRun, Save, Age, OrchReadsIndex,
       OrchWritesIndex, OrchCrashes, Start, Poll, PollTakes, Loaded, ReadIndex, Mark, Sleep,
       Wake, Load, Tell, Persist, WriteIndex, Unlist, Prune, SynthCrashes, PollFails,
       LoadRaises, vars
  <2>5. QED  BY <2>2, <2>4
<1> SUFFICES ASSUME faults' = 0, NEW k \in old', Shown(k)'
             PROVE  /\ stage' \in {"down", "sleep", "poll"} => told'[k] > 0 \/ index'[k] = Ended
                    /\ stage' \in Pruning => told'[k] > 0
                    /\ stage' = "load" => told'[k] > 0 \/ k \in todo' \cup batch'
                    /\ stage' \in Handling => told'[k] > 0 \/ k \in todo'
  BY <1>0 DEF PruneInv
<1> USE DEF Pruning, Handling
<1>1. ASSUME NEW r \in Runs, Age(r), r = k
      PROVE  stage' \in {"down", "sleep"} /\ index'[k] = Ended
  <2>1. stage' = stage /\ stage \in {"down", "sleep"} /\ ocopy' = NoCopy
    BY <1>1 DEF Age, loop, orchestrator
  <2>2. QED  BY <2>1 DEF Shown, OrchWriting, NoCopy
<1>2. ASSUME k \in old, faults = 0, garbled = {}, Shown(k)
      PROVE  /\ stage' \in {"down", "sleep", "poll"} => told'[k] > 0 \/ index'[k] = Ended
             /\ stage' \in Pruning => told'[k] > 0
             /\ stage' = "load" => told'[k] > 0 \/ k \in todo' \cup batch'
             /\ stage' \in Handling => told'[k] > 0 \/ k \in todo'
  <2>0. /\ k \in Runs /\ Exists(k)
        /\ stage \in {"down", "sleep", "poll"} => told[k] > 0 \/ index[k] = Ended
        /\ stage \in Pruning => told[k] > 0
        /\ stage = "load" => told[k] > 0 \/ k \in todo \cup batch
        /\ stage \in Handling => told[k] > 0 \/ k \in todo
    BY <1>2 DEF PruneInv, Shapes
  <2>1. CASE Elsewhere
    <3>1. UNCHANGED <<stage, todo, batch, scopy, told>>
      BY <2>1, ElsewhereFrame DEF loop, history
    <3>2. ASSUME stage \in {"down", "sleep", "poll"}, told[k] = 0 PROVE index'[k] = Ended
      <4>1. index[k] = Ended /\ stage' = stage
        BY <2>0, <3>1, <3>2 DEF Shapes
      <4>2. CASE index' = index
        BY <4>1, <4>2
      <4>3. CASE index' # index
        <5>1. PICK r \in Runs : OrchWritesIndex(r)
          BY <2>1, <4>3 DEF Elsewhere, Indexing, CreateRun, EndRun, Garble, Age, OrchReadsIndex,
             OrchCrashes, vars
        <5>2. ~OrchWriting'
          BY <5>1 DEF OrchWritesIndex, OrchWriting, NoCopy
        <5>3. QED  BY <3>2, <4>1, <5>2 DEF Shown
      <4>4. QED  BY <4>2, <4>3
    <3>3. QED  BY <2>0, <3>1, <3>2 DEF Shapes
  <2>2. CASE Start \/ ReadIndex \/ Sleep \/ Wake
    BY <2>0, <2>2 DEF Start, ReadIndex, Sleep, Wake, Goto, history
  <2>3. CASE Poll
    BY <1>2, <2>0, <2>3 DEF Poll, PollTakes, Goto, history, SeenInv
  <2>4. CASE Loaded
    BY <2>0, <2>4 DEF Loaded, Goto, history
  <2>5. CASE Mark
    BY <2>0, <2>5 DEF Mark, Goto, history
  <2>6. ASSUME NEW r \in Runs, Load(r)
        PROVE  stage' = "load" /\ (told'[k] > 0 \/ k \in todo' \cup batch')
    BY <2>0, <2>6 DEF Load, history
  <2>7. ASSUME NEW r \in Runs, Tell(r)
        PROVE  stage' = "persist" /\ (told'[k] > 0 \/ k \in todo')
    <3>1. stage = "handle" /\ stage' = "persist" /\ todo' = todo
          /\ told' = [told EXCEPT ![r] = @ + 1]
      BY <2>7 DEF Tell, Goto
    <3>2. told[k] > 0 => told'[k] > 0
      BY <2>0, <3>1 DEF Shapes
    <3>3. QED  BY <2>0, <3>1, <3>2
  <2>8. ASSUME NEW r \in Runs, Persist(r) \/ WriteIndex(r)
        PROVE  stage' \in Handling /\ (told'[k] > 0 \/ k \in todo')
    <3>1. /\ stage \in OneRun /\ busy = r /\ stage' \in Handling /\ told' = told
          /\ todo' = todo \/ todo' = todo \ {r}
      BY <2>8 DEF Persist, WriteIndex, Goto, history, OneRun
    <3>2. told[r] > 0
      BY <3>1 DEF SeenInv
    <3>3. QED  BY <2>0, <3>1, <3>2 DEF OneRun
  <2>9. ASSUME NEW r \in Runs, Unlist(r) \/ Prune(r)
        PROVE  stage' \in Pruning /\ told'[k] > 0
    BY <2>0, <2>9 DEF Unlist, Prune, Goto, history
  <2>10. CASE SynthCrashes \/ PollFails \/ \E r \in Runs : LoadRaises(r)
    <3>1. \A r \in Runs : ~LoadRaises(r)
      BY <1>2 DEF LoadRaises
    <3>2. faults' = faults + 1
      BY <2>10, <3>1 DEF SynthCrashes, PollFails
    <3>3. QED  BY <1>2, <3>2
  <2>11. QED
    BY <2>1, <2>2, <2>3, <2>4, <2>5, <2>6, <2>7, <2>8, <2>9, <2>10
       DEF Next, Looping, Elsewhere
<1>3. faults = 0 /\ garbled = {}
  BY <1>0
<1>4. CASE k \in old
  <2>1. Shown(k)
    BY <1>4, OldListing
  <2>2. QED  BY <1>2, <1>3, <1>4, <2>1
<1>5. CASE k \notin old
  <2>1. Age(k) /\ k \in Runs
    BY <1>5 DEF Next, Indexing, Looping, CreateRun, EndRun, Save, Age, OrchReadsIndex,
       OrchWritesIndex, OrchCrashes, Start, Poll, PollTakes, Loaded, ReadIndex, Mark, Sleep,
       Wake, Load, Tell, Persist, Store, WriteIndex, Unlist, Prune, SynthCrashes, PollFails,
       LoadRaises, Garble, vars
  <2>2. QED  BY <1>1, <2>1
<1>6. QED  BY <1>4, <1>5

-----------------------------------------------------------------------------
(* The inductive invariant.                                                *)

LEMMA InvInit == Init => IInv
<1> SUFFICES ASSUME Init PROVE IInv
  OBVIOUS
<1> USE DEF Init, NoFile, NoIndex, NoCopy, Statuses, Answers, Ended, Exists
<1>1. TypeOK
  BY BoundsAssumption DEF TypeOK
<1>2. EndedInv
  BY DEF EndedInv, Listed
<1>3. BatchInv /\ SeenInv /\ OldInv /\ PruneInv
  BY DEF BatchInv, SeenInv, OldInv, PruneInv, Shown, OrchWriting, InBatch, Handling, OneRun,
     Pruning
<1>4. DraftsAreFinal
  BY DEF DraftsAreFinal
<1>5. QED  BY <1>1, <1>2, <1>3, <1>4 DEF IInv

LEMMA InvStep == IInv /\ [Next]_vars => IInv'
<1> SUFFICES ASSUME IInv, [Next]_vars PROVE IInv'
  OBVIOUS
<1>1. /\ TypeOK /\ Shapes /\ EndedInv /\ BatchInv /\ DraftsAreFinal
      /\ SeenInv /\ OldInv /\ PruneInv
  BY ShapesHold DEF IInv
<1>2. TypeOK' /\ EndedInv' /\ BatchInv' /\ DraftsAreFinal'
  BY <1>1, TypeStep, EndedStep, BatchStep, DraftStep
<1>3. SeenInv' /\ OldInv' /\ PruneInv'
  BY <1>1, SeenStep, OldStep, PruneStep
<1>4. QED  BY <1>2, <1>3 DEF IInv

LEMMA Invariance == Spec => []IInv
BY InvInit, InvStep, PTL DEF Spec

-----------------------------------------------------------------------------
(* The theorems.                                                           *)

\* Type invariant.
THEOREM TypeCorrect == Spec => []TypeOK
<1>1. IInv => TypeOK
  BY DEF IInv
<1>2. QED  BY Invariance, <1>1, PTL

\* However stale the listing a poll reads, only ended runs are drafted.
THEOREM OnlyEndedRunsAreDrafted == Spec => []DraftsAreFinal
<1>1. IInv => DraftsAreFinal
  BY DEF IInv
<1>2. QED  BY Invariance, <1>1, PTL

\* Wherever the Synthesizer stops or raises, what is marked was announced.
THEOREM MarkedRunsWereTold == Spec => []SeenWasTold
<1>1. IInv => SeenWasTold
  BY DEF IInv, SeenInv, SeenWasTold
<1>2. QED  BY Invariance, <1>1, PTL

\* The seen file ends a run's announcements, over restarts too.
THEOREM SeenRunsAreNotToldAgain == Spec => ToldOnceSeen
<1>1. IInv /\ [Next]_vars => [\A r \in seenFile : told'[r] = told[r]]_vars
  <2> SUFFICES ASSUME IInv, [Next]_vars, NEW k \in seenFile PROVE told'[k] = told[k]
    OBVIOUS
  <2>1. Shapes /\ BatchInv /\ SeenInv
    BY ShapesHold DEF IInv
  <2>2. ASSUME NEW r \in Runs, Tell(r) PROVE told'[k] = told[k]
    <3>1. stage = "handle" /\ r \in todo /\ told' = [told EXCEPT ![r] = @ + 1]
      BY <2>2 DEF Tell
    <3>2. k # r
      BY <2>1, <3>1 DEF SeenInv, InBatch, Handling
    <3>3. QED  BY <2>1, <3>1, <3>2 DEF Shapes
  <2>3. CASE UNCHANGED told
    BY <2>3
  <2>4. QED
    BY <2>2, <2>3, ElsewhereFrame DEF Next, Looping, Elsewhere, history, Start, Poll, PollTakes,
       Loaded, ReadIndex, Mark, Sleep, Wake, Load, Persist, WriteIndex, Unlist, Prune,
       SynthCrashes, PollFails, LoadRaises, Garble
<1>2. QED  BY Invariance, <1>1, PTL DEF Spec, ToldOnceSeen

\* A retention limit longer than a poll takes nothing from a user who was not told.
THEOREM PrunedRunsWereTold == Spec => PruneAfterTold
<1>1. IInv /\ [Next]_vars =>
        [\A r \in Runs : Exists(r) /\ ~Exists(r)' /\ index[r] = Ended /\ faults = 0
           => told[r] > 0]_vars
  <2> SUFFICES ASSUME IInv, [Next]_vars, NEW k \in Runs, Exists(k), ~Exists(k)',
                      index[k] = Ended, faults = 0
               PROVE  told[k] > 0
    OBVIOUS
  <2>1. Shapes /\ PruneInv
    BY ShapesHold DEF IInv
  <2>2. Prune(k)
    <3>1. file'[k].status # file[k].status /\ file'[k].status \notin {"running", "no_capability"}
      <4>1. file'[k].status = "absent" /\ file[k].status # "absent"
        BY DEF Exists
      <4>2. QED  BY <4>1
    <3>2. ASSUME NEW r \in Runs, CreateRun(r) \/ EndRun(r) PROVE FALSE
      <4>1. PICK status \in Statuses \ {"absent"}, answer \in Answers : Save(r, status, answer)
        BY <3>2 DEF CreateRun, EndRun, Statuses, Answers, Ended
      <4>2. QED  BY <2>1, <4>1 DEF Save, Shapes, Exists
    <3>3. ASSUME NEW r \in Runs, Persist(r) PROVE FALSE
      <4>1. Store(r) \/ file' = file
        BY <3>3 DEF Persist
      <4>2. QED  BY <2>1, <3>1, <4>1 DEF Store, Shapes
    <3>4. ASSUME NEW r \in Runs, Prune(r) PROVE r = k
      BY <2>1, <3>1, <3>4 DEF Prune, Shapes
    <3>5. file' # file
      BY <3>1
    <3>6. QED
      BY <3>2, <3>3, <3>4, <3>5 DEF Next, Indexing, Looping, Age, OrchReadsIndex,
         OrchWritesIndex, OrchCrashes, Start, Poll, PollTakes, Loaded, ReadIndex, Mark, Sleep,
         Wake, Load, Tell, WriteIndex, Unlist, SynthCrashes, PollFails, LoadRaises, Garble, vars
  <2>3. QED  BY <2>1, <2>2 DEF Prune, PruneInv, Pruning, Shown
<1>2. QED  BY Invariance, <1>1, PTL DEF Spec, PruneAfterTold

\* An action's answer is overwritten by the Synthesizer (ActionAnswerKept), a
\* refusal is not: a run that no source or tool can serve, whose refusal the
\* executor stores and announces, is never announced nor drafted by the Synthesizer,
\* which takes what is listed as ended (watcher.py:39, 102), however stale the
\* copies are from which the index was rewritten.
RefusalsStand ==
  \A r \in Unsupported :
    /\ file[r].status \in {"absent", "no_capability"} /\ file[r].answer # "draft"
    /\ told[r] = 0 /\ drafted[r] = {}

THEOREM RefusalsAreKept == Spec => []RefusalsStand
<1>1. Init => RefusalsStand
  BY RunsAssumption DEF Init, NoFile, RefusalsStand, Runs
<1>2. IInv /\ RefusalsStand /\ [Next]_vars => RefusalsStand'
  <2> SUFFICES ASSUME IInv, RefusalsStand, [Next]_vars, NEW k \in Unsupported
               PROVE  /\ file'[k].status \in {"absent", "no_capability"}
                      /\ file'[k].answer # "draft"
                      /\ told'[k] = 0 /\ drafted'[k] = {}
    BY DEF RefusalsStand
  <2>1. /\ Shapes /\ BatchInv
        /\ k \in Runs /\ k \notin Research /\ k \notin Action
        /\ file[k].status \in {"absent", "no_capability"} /\ file[k].answer # "draft"
        /\ told[k] = 0 /\ drafted[k] = {}
    BY ShapesHold, RunsAssumption DEF IInv, RefusalsStand, Runs
  <2>2. \A r \in todo : stage \in Handling => r # k
    BY <2>1 DEF BatchInv, InBatch, Ended
  <2>3. ASSUME NEW r \in Runs, CreateRun(r) PROVE
          file'[k].status \in {"absent", "no_capability"} /\ file'[k].answer # "draft"
    <3>1. PICK status \in {"running", "no_capability"} :
            Save(r, status, "none") /\ (r = k => status = "no_capability")
      BY <2>3 DEF CreateRun
    <3>2. QED  BY <2>1, <3>1 DEF Save, Shapes
  <2>4. ASSUME NEW r \in Runs, EndRun(r) PROVE
          file'[k].status \in {"absent", "no_capability"} /\ file'[k].answer # "draft"
    <3>1. PICK status \in Statuses, answer \in {"none", "action", "unsupported"} :
            Save(r, status, answer) /\ (r = k => status = "no_capability")
      BY <2>1, <2>4 DEF EndRun, Statuses, Ended
    <3>2. QED  BY <2>1, <3>1 DEF Save, Shapes
  <2>5. ASSUME NEW r \in Runs, Persist(r) PROVE file'[k] = file[k]
    <3>1. r # k
      BY <2>1, <2>2, <2>5 DEF Persist, BatchInv, OneRun, Handling
    <3>2. Store(r) \/ file' = file
      BY <2>5 DEF Persist
    <3>3. QED  BY <2>1, <3>1, <3>2 DEF Store, Shapes
  <2>6. ASSUME NEW r \in Runs, Prune(r) PROVE
          file'[k].status \in {"absent", "no_capability"} /\ file'[k].answer # "draft"
    BY <2>1, <2>6 DEF Prune, Shapes, NoFile
  <2>7. ASSUME NEW r \in Runs, Tell(r) PROVE told'[k] = told[k] /\ drafted'[k] = drafted[k]
    <3>1. r # k
      BY <2>2, <2>7 DEF Tell, Handling
    <3>2. QED  BY <2>1, <2>7, <3>1 DEF Tell, Shapes
  <2>8. file' = file \/ \E r \in Runs : CreateRun(r) \/ EndRun(r) \/ Persist(r) \/ Prune(r)
    BY DEF Next, Indexing, Looping, Age, OrchReadsIndex, OrchWritesIndex, OrchCrashes, Start,
       Poll, PollTakes, Loaded, ReadIndex, Mark, Sleep, Wake, Load, Tell, WriteIndex, Unlist,
       SynthCrashes, PollFails, LoadRaises, Garble, vars
  <2>9. UNCHANGED <<told, drafted>> \/ \E r \in Runs : Tell(r)
    BY ElsewhereFrame DEF Next, Looping, Elsewhere, history, Start, Poll, PollTakes,
       Loaded, ReadIndex, Mark, Sleep, Wake, Load, Persist, WriteIndex, Unlist, Prune,
       SynthCrashes, PollFails, LoadRaises, Garble
  <2>10. QED
    BY <2>1, <2>3, <2>4, <2>5, <2>6, <2>7, <2>8, <2>9
<1>3. QED  BY Invariance, <1>1, <1>2, PTL DEF Spec
=============================================================================
