-------------------------- MODULE DagExecutor_proofs --------------------------
(***************************************************************************)
(* Type correctness of DagExecutor and the safety of the run file, for     *)
(* every set of plans, every number of (overlapping) calls, every pool     *)
(* size and every number of faults.                                        *)
(*                                                                         *)
(* The file is only ever a copy of some call's object, so the inductive    *)
(* invariant says, per call and per place in the walk, what that object    *)
(* looks like (WalkInv), and of the file only what it looks like when it   *)
(* claims that the run is paused or ended (DiskInv).                       *)
(***************************************************************************)
EXTENDS DagExecutor, FiniteSetTheorems, TLAPS

LEMMA PlanFacts ==
  ASSUME plan \in Plans
  PROVE  /\ plan.size \in Nat
         /\ plan.deps \in [Nodes -> SUBSET Nodes]
         /\ \A n \in Nodes : \A d \in plan.deps[n] : d < n
         /\ plan.retries \in [Nodes -> Nat]
         /\ plan.threshold \in Nat \ {0}
         /\ plan.capable \in BOOLEAN
         /\ ~plan.capable => plan.gated = {}
         /\ Nodes \subseteq Nat
BY PlansAssumption DEF PlanShape, Nodes

LEMMA FreshType == ASSUME plan \in Plans PROVE Fresh \in Snapshot /\ NoRun \in Snapshot
BY PlanFacts DEF Fresh, NoRun, Snapshot, Status, Overall, Answer

LEMMA MarkType ==
  ASSUME TypeOK, NEW c \in Calls, NEW n \in Nodes, NEW st \in Status
  PROVE  /\ Mark(c, n, st) \in Snapshot
         /\ Mark(c, n, st).status = [mem[c].status EXCEPT ![n] = st]
         /\ Mark(c, n, st).failures = mem[c].failures
         /\ Mark(c, n, st).overall = mem[c].overall
         /\ Mark(c, n, st).pending = mem[c].pending
         /\ Mark(c, n, st).wanted = mem[c].wanted
BY DEF TypeOK, Mark, Snapshot

LEMMA VerdictType ==
  ASSUME TypeOK, NEW c \in Calls, NEW o \in Overall, NEW a \in Answer
  PROVE  /\ [mem[c] EXCEPT !.overall = o] \in Snapshot
         /\ [mem[c] EXCEPT !.overall = o, !.answer = a] \in Snapshot
BY DEF TypeOK, Snapshot

LEMMA GatedType ==
  ASSUME TypeOK, NEW c \in Calls, cur[c] \in Nodes, NEW fs \in SUBSET Fields
  PROVE  /\ Gated(c, cur[c], fs) \in Snapshot
         /\ Gated(c, cur[c], fs) = [Mark(c, cur[c], "awaiting_input")
                                     EXCEPT !.pending = cur[c], !.wanted = fs]
<1>1. Mark(c, cur[c], "awaiting_input") \in Snapshot
  BY MarkType DEF Status
<1>2. QED  BY <1>1 DEF Gated, Snapshot

LEMMA FailType ==
  ASSUME TypeOK, NEW c \in Calls, cur[c] \in Nodes, FailNode(c)
  PROVE  disk' \in Snapshot /\ mem' \in [Calls -> Snapshot]
<1> DEFINE s == Mark(c, cur[c], "failed")
<1>1. s \in Snapshot
  BY MarkType DEF Status
<1>2. [s EXCEPT !.failures = @ + 1] \in Snapshot
  <2> HIDE DEF s
  <2> QED  BY <1>1 DEF Snapshot
<1>3. QED  BY <1>1, <1>2 DEF FailNode, TypeOK

LEMMA ResumedType ==
  ASSUME TypeOK, NEW c \in Calls, disk.pending \in Nodes
  PROVE  Resumed(c) \in Snapshot
<1> DEFINE i == [disk.inputs EXCEPT ![disk.pending] = @ \cup (provided[c] \ Secret)]
<1>1. i \in [Nodes -> SUBSET Fields]
  BY DEF TypeOK, Snapshot
<1>2. [disk EXCEPT !.inputs = i, !.pending = 0, !.wanted = {}, !.overall = "running"]
        \in Snapshot
  <2> HIDE DEF i
  <2> QED  BY <1>1 DEF TypeOK, Snapshot, Overall
<1>3. QED  BY <1>2 DEF TypeOK, Snapshot, Resumed

LEMMA SaveType ==
  ASSUME TypeOK, NEW c \in Calls, NEW s \in Snapshot, Save(c, s)
  PROVE  mem' \in [Calls -> Snapshot] /\ disk' \in Snapshot
BY DEF TypeOK, Save
\* The plan of a run never changes, so neither do the sets built from it.
LEMMA PlanConstant ==
  ASSUME [Next]_vars
  PROVE  plan' = plan /\ Nodes' = Nodes /\ Snapshot' = Snapshot /\ Thread' = Thread
<1>1. plan' = plan
  BY DEF Next, vars, env, Step, CreateRun, PostResume, LoadRun, ResumeAt, Reopen,
         SkipNode, EnterNode, NoHandler, Attempt, Timeout, HandlerRaised,
         HandlerReturned, HandlerGated, Pause, GiveUp, Advance, Trip, TripSkip,
         CircuitBroken, Finish, FinalSave, Refuse, Announce, CallDies,
         StartThread, ThreadEnds, Crash
<1>2. QED  BY <1>1 DEF Nodes, Snapshot, Thread

LEMMA TypeStep == TypeOK /\ [Next]_vars => TypeOK'
<1> SUFFICES ASSUME TypeOK, [Next]_vars PROVE TypeOK'
  OBVIOUS
<1> USE PlanFacts, PlanConstant DEF TypeOK, At, Goto, walk, pool, env
<1>1. ASSUME NEW c \in Calls, CreateRun(c) PROVE TypeOK'
  BY <1>1, FreshType, SaveType DEF CreateRun
<1>2. ASSUME NEW c \in Calls, PostResume(c) PROVE TypeOK'
  BY <1>2 DEF PostResume
<1>3. ASSUME NEW c \in Calls, LoadRun(c) PROVE TypeOK'
  <2>1. disk.pending \in {0} \cup Nodes
    BY DEF Snapshot
  <2>2. CASE pc'[c] = "done"
    BY <1>3, <2>2 DEF LoadRun, ResumeAt
  <2>3. CASE pc'[c] # "done"
    <3>1. disk.pending \in Nodes /\ disk.pending \in Nat \ {0}
      BY <1>3, <2>1, <2>3 DEF LoadRun, ResumeAt, Nodes
    <3>2. mem' \in [Calls -> Snapshot]
      BY <1>3, <2>3, <3>1, ResumedType DEF LoadRun, ResumeAt
    <3>3. QED  BY <1>3, <2>3, <3>1, <3>2 DEF LoadRun, ResumeAt
  <2>4. QED  BY <2>2, <2>3
<1>4. ASSUME NEW c \in Calls, Reopen(c) PROVE TypeOK'
  BY <1>4, SaveType DEF Reopen
<1>5. ASSUME NEW c \in Calls, SkipNode(c) PROVE TypeOK'
  <2>1. cur[c] \in Nodes
    BY <1>5 DEF SkipNode, HasNode, Nodes
  <2>2. Mark(c, cur[c], "skipped") \in Snapshot
    BY <2>1, MarkType DEF Status
  <2>3. QED  BY <1>5, <2>2, SaveType DEF SkipNode
<1>6. ASSUME NEW c \in Calls, EnterNode(c) PROVE TypeOK'
  BY <1>6 DEF EnterNode, Admitted, HasNode, Nodes
<1>7. ASSUME NEW c \in Calls, NoHandler(c) PROVE TypeOK'
  <2>1. cur[c] \in Nodes
    BY <1>7 DEF NoHandler, Admitted, HasNode, Nodes
  <2>2. QED  BY <1>7, <2>1, FailType DEF NoHandler
<1>8. ASSUME NEW c \in Calls, Attempt(c) PROVE TypeOK'
  <2>1. Mark(c, cur[c], IF att[c] = 0 THEN "running" ELSE "retrying") \in Snapshot
    BY <1>8, MarkType DEF Attempt, Status
  <2>2. [call |-> c, node |-> cur[c], attempt |-> att[c] + 1] \in Thread
    BY <1>8 DEF Attempt, Thread
  <2>3. QED  BY <1>8, <2>1, <2>2, SaveType DEF Attempt
<1>9. ASSUME NEW c \in Calls, Timeout(c) PROVE TypeOK'
  BY <1>9 DEF Timeout
<1>10. ASSUME NEW c \in Calls, HandlerRaised(c) PROVE TypeOK'
  BY <1>10 DEF HandlerRaised
<1>11. ASSUME NEW c \in Calls, HandlerReturned(c) PROVE TypeOK'
  BY <1>11, SaveType, MarkType DEF HandlerReturned, Status
<1>12. ASSUME NEW c \in Calls, HandlerGated(c) PROVE TypeOK'
  <2>1. Mark(c, cur[c], "awaiting_input") \in Snapshot
    BY <1>12, MarkType DEF HandlerGated, Status
  <2>2. PICK fs \in SUBSET Fields : mem' = [mem EXCEPT ![c] = Gated(c, cur[c], fs)]
    BY <1>12 DEF HandlerGated
  <2>3. Gated(c, cur[c], fs) \in Snapshot
    BY <1>12, GatedType DEF HandlerGated
  <2>4. QED  BY <1>12, <2>1, <2>2, <2>3 DEF HandlerGated
<1>13. ASSUME NEW c \in Calls, Pause(c) PROVE TypeOK'
  BY <1>13, SaveType, VerdictType DEF Pause, Overall, Answer
<1>14. ASSUME NEW c \in Calls, GiveUp(c) PROVE TypeOK'
  BY <1>14, FailType DEF GiveUp
<1>15. ASSUME NEW c \in Calls, Advance(c) PROVE TypeOK'
  BY <1>15 DEF Advance
<1>16. ASSUME NEW c \in Calls, Trip(c) PROVE TypeOK'
  BY <1>16 DEF Trip
<1>17. ASSUME NEW c \in Calls, TripSkip(c) PROVE TypeOK'
  BY <1>17, SaveType, MarkType DEF TripSkip, Unvisited, Status
<1>18. ASSUME NEW c \in Calls, CircuitBroken(c) PROVE TypeOK'
  BY <1>18, SaveType, VerdictType DEF CircuitBroken, Overall, Answer
<1>19. ASSUME NEW c \in Calls, Finish(c) PROVE TypeOK'
  <2>1. Verdict(c) \in Overall /\ ActionAnswer(c) \in Answer
    BY DEF Verdict, ActionAnswer, Overall, Answer, Snapshot
  <2>2. Judged(c) \in Snapshot
    BY <2>1, VerdictType DEF Judged
  <2>3. QED  BY <1>19, <2>2 DEF Finish
<1>20. ASSUME NEW c \in Calls, FinalSave(c) PROVE TypeOK'
  <2>1. mem[c] \in Snapshot
    OBVIOUS
  <2>2. QED  BY <1>20, <2>1, SaveType DEF FinalSave
<1>21. ASSUME NEW c \in Calls, Refuse(c) PROVE TypeOK'
  <2>1. "no_capability" \in Overall /\ "unsupported" \in Answer
    BY DEF Overall, Answer
  <2>2. [mem[c] EXCEPT !.overall = "no_capability", !.answer = "unsupported"] \in Snapshot
    BY <2>1, VerdictType
  <2>3. QED  BY <1>21, <2>2, SaveType DEF Refuse
<1>22. ASSUME NEW c \in Calls, Announce(c) PROVE TypeOK'
  BY <1>22 DEF Announce
<1>23. ASSUME NEW c \in Calls, CallDies(c) PROVE TypeOK'
  BY <1>23 DEF CallDies
<1>24. ASSUME NEW t \in queued, StartThread(t) PROVE TypeOK'
  BY <1>24 DEF StartThread
<1>25. ASSUME NEW t \in running, NEW o \in {"ok", "error", "gate"}, ThreadEnds(t, o)
      PROVE  TypeOK'
  BY <1>25 DEF ThreadEnds, Thread
<1>26. ASSUME Crash PROVE TypeOK'
  BY <1>26 DEF Crash
<1>27. ASSUME UNCHANGED vars PROVE TypeOK'
  BY <1>27 DEF vars
<1>28. QED
  BY <1>1, <1>2, <1>3, <1>4, <1>5, <1>6, <1>7, <1>8, <1>9, <1>10, <1>11, <1>12, <1>13, <1>14,
     <1>15, <1>16, <1>17, <1>18, <1>19, <1>20, <1>21, <1>22, <1>23, <1>24, <1>25, <1>26, <1>27 DEF Next, Step

LEMMA TypeInit == Init => TypeOK
<1> SUFFICES ASSUME Init PROVE TypeOK
  OBVIOUS
<1>1. NoRun \in Snapshot
  BY FreshType DEF Init
<1>2. /\ disk \in Snapshot /\ mem \in [Calls -> Snapshot]
      /\ cur \in [Calls -> Nat \ {0}] /\ att \in [Calls -> Nat]
  BY <1>1 DEF Init
<1>3. /\ \A c \in Calls : pc[c] = "new"
      /\ outputs \in [Calls -> SUBSET Nodes] /\ provided \in [Calls -> SUBSET Fields]
      /\ future \in [Calls -> {"none", "ok", "error", "gate"}]
  BY DEF Init
<1>4. QED  BY <1>2, <1>3 DEF Init, TypeOK

\* Every variable keeps its type: in particular a call that is at a node is at
\* a node of the plan, and the file is always a whole snapshot of this run.
THEOREM TypeCorrect == Spec => []TypeOK
BY TypeInit, TypeStep, PTL DEF Spec

\* Whatever the request and whatever the search API replies, the plan that
\* build_plan makes has the shape the executor's proofs assume of it.
THEOREM PlansAreShaped ==
  ASSUME NEW request \in {"question", "command"}, NEW found \in BOOLEAN,
         NEW retries \in Nat, NEW threshold \in Nat \ {0}
  PROVE  PlanShape(BuildPlan(request, found, retries, threshold))
<1>1. PlanShape(ResearchPlan(retries, threshold))
  BY DEF PlanShape, ResearchPlan, Pages, Embed
<1>2. PlanShape(ActionPlan(threshold))
  BY DEF PlanShape, ActionPlan
<1>3. PlanShape(NoCapability(threshold))
  BY DEF PlanShape, NoCapability
<1>4. QED  BY <1>1, <1>2, <1>3 DEF BuildPlan

-----------------------------------------------------------------------------
(* The run file.                                                           *)

\* What the file must be for a walk to be picked up at its pending node.
Resumable(s) ==
  /\ plan.capable
  /\ s.pending \in Nodes /\ s.wanted # {}
  /\ s.status[s.pending] = "awaiting_input"
  /\ \A d \in plan.deps[s.pending] : s.status[d] = "succeeded"
  /\ \A n \in Nodes : n < s.pending => s.status[n] \in Settled
  /\ \A n \in Nodes : n > s.pending => s.status[n] = "pending"
  /\ s.failures = Cardinality(Failed(s)) /\ s.failures < plan.threshold
  /\ Failed(s) = {} => \A n \in Nodes : n < s.pending => s.status[n] = "succeeded"

\* What the file must be when the run has ended.
Ended(s) ==
  /\ s.pending = 0
  /\ \A n \in Nodes : s.status[n] \in Settled
  /\ s.failures = Cardinality(Failed(s))
  /\ s.overall = "circuit_broken" <=> s.failures >= plan.threshold
  /\ s.overall = "failed" => Failed(s) # {}
  /\ s.overall = "completed" => \A n \in Nodes : s.status[n] = "succeeded"

DiskInv ==
  /\ disk.pending # 0 => disk.overall = "awaiting_human_input"
  /\ disk.overall = "awaiting_human_input" => Resumable(disk)
  /\ disk.overall \in Terminal => Ended(disk)

\* The places of a walk at which the node it is at is not settled yet.
Open == {"reopen", "visit", "retry", "wait", "pause"}
InWalk == Open \cup {"after", "trip"}

\* Everywhere in a walk.
WalkBase(c) ==
  /\ cur[c] \in 1..(plan.size + 1)
  /\ mem[c].overall = Fresh.overall
  /\ mem[c].failures = Cardinality(Failed(mem[c]))
  /\ \A n \in Nodes : n < cur[c] => mem[c].status[n] \in Settled
  /\ pc[c] # "pause" => mem[c].pending = 0

\* At a node that is not settled: its successors have not begun, the breaker
\* is closed, and unless a node failed every node so far has succeeded.
WalkOpen(c) ==
  /\ \A n \in Nodes : n >= cur[c] => mem[c].status[n] \notin Settled
  /\ \A n \in Nodes : n > cur[c] => mem[c].status[n] = "pending"
  /\ plan.capable => mem[c].failures < plan.threshold
  /\ Failed(mem[c]) = {} =>
       \A n \in Nodes : n < cur[c] => mem[c].status[n] = "succeeded"

WalkAtNode(c) ==
  /\ cur[c] \in Nodes
  /\ \A d \in plan.deps[cur[c]] : mem[c].status[d] = "succeeded"

WalkAfter(c) ==
  /\ cur[c] \in Nodes
  /\ mem[c].status[cur[c]] \in Settled
  /\ \A n \in Nodes : n > cur[c] => mem[c].status[n] = "pending"
  /\ Failed(mem[c]) = {} =>
       \A n \in Nodes : n <= cur[c] => mem[c].status[n] = "succeeded"

WalkTrip(c) ==
  /\ plan.capable
  /\ mem[c].failures >= plan.threshold
  /\ \A n \in Nodes : n >= cur[c] => mem[c].status[n] \in {"pending", "skipped"}

WalkInv(c) ==
  /\ pc[c] \in InWalk => WalkBase(c)
  /\ pc[c] \in Open => WalkOpen(c)
  /\ pc[c] \in {"reopen", "retry", "wait", "pause"} => WalkAtNode(c)
  /\ pc[c] = "after" => WalkAfter(c)
  /\ pc[c] = "trip" => WalkTrip(c)
  /\ pc[c] = "pause" => /\ plan.capable /\ mem[c].pending = cur[c]
                        /\ mem[c].wanted # {}
                        /\ mem[c].status[cur[c]] = "awaiting_input"
  /\ pc[c] = "reopen" => plan.capable
  /\ pc[c] = "new" => cur[c] = 1
  /\ pc[c] = "final" => mem[c].overall \in {"completed", "failed"} /\ Ended(mem[c])
  /\ future[c] = "gate" => plan.capable

\* The threads of a call find their node's dependencies succeeded in the
\* call's object, and a call that has not loaded an object has no threads.
ThreadInv ==
  \A t \in queued \cup running \cup begun :
    /\ pc[t.call] \notin {"new", "load"}
    /\ \A d \in plan.deps[t.node] : mem[t.call].status[d] = "succeeded"

IInv == TypeOK /\ DiskInv /\ (\A c \in Calls : WalkInv(c)) /\ ThreadInv

-----------------------------------------------------------------------------
(* Counting failures.                                                      *)

LEMMA FailedFinite ==
  ASSUME plan \in Plans, NEW s
  PROVE  IsFiniteSet(Failed(s)) /\ Cardinality(Failed(s)) \in Nat
<1>1. IsFiniteSet(Nodes)
  BY FS_Interval, PlanFacts DEF Nodes
<1>2. Failed(s) \subseteq Nodes
  BY DEF Failed
<1>3. QED  BY <1>1, <1>2, FS_Subset, FS_CardinalityType

\* Marking a node that had not failed leaves the count, or raises it by one.
LEMMA MarkCount ==
  ASSUME TypeOK, NEW c \in Calls, NEW n \in Nodes, NEW st \in Status,
         mem[c].status[n] # "failed"
  PROVE  /\ st # "failed" => Failed(Mark(c, n, st)) = Failed(mem[c])
         /\ st = "failed" => /\ Failed(Mark(c, n, st)) = Failed(mem[c]) \cup {n}
                             /\ Cardinality(Failed(Mark(c, n, st)))
                                  = Cardinality(Failed(mem[c])) + 1
<1> DEFINE s == Mark(c, n, st)
<1>1. s.status = [mem[c].status EXCEPT ![n] = st] /\ mem[c].status \in [Nodes -> Status]
  BY MarkType DEF TypeOK, Snapshot
<1>2. st # "failed" => Failed(s) = Failed(mem[c])
  <2> HIDE DEF s
  <2> QED  BY <1>1 DEF Failed
<1>3. st = "failed" => Failed(s) = Failed(mem[c]) \cup {n}
  <2> HIDE DEF s
  <2> QED  BY <1>1 DEF Failed
<1>4. n \notin Failed(mem[c]) /\ IsFiniteSet(Failed(mem[c]))
  BY FailedFinite DEF Failed, TypeOK
<1>5. QED  BY <1>2, <1>3, <1>4, FS_AddElement

-----------------------------------------------------------------------------
(* One step of one call: what it makes of its own place in the walk, of    *)
(* the file, and of the nodes that had succeeded.                          *)

Kept(c) ==
  pc[c] \notin {"new", "load"} =>
    /\ pc'[c] \notin {"new", "load"}
    /\ \A n \in Nodes : mem[c].status[n] = "succeeded" => mem'[c].status[n] = "succeeded"

StepOk(c) == WalkInv(c)' /\ DiskInv' /\ Kept(c)

\* A file that says the run goes on says nothing DiskInv is about.
LEMMA QuietDisk ==
  ASSUME disk'.overall \in {"absent", "running", "no_capability"}, disk'.pending = 0
  PROVE  DiskInv'
BY DEF DiskInv, Terminal

LEMMA FreshFacts ==
  ASSUME plan \in Plans
  PROVE  /\ Fresh.overall \in {"running", "no_capability"}
         /\ plan.capable => Fresh.overall = "running"
         /\ Fresh.pending = 0 /\ Fresh.failures = 0
         /\ Failed(Fresh) = {} /\ \A n \in Nodes : Fresh.status[n] = "pending"
BY PlanFacts DEF Fresh, Failed

\* A call's object after Mark, where the node had neither failed nor succeeded.
LEMMA MarkFacts ==
  ASSUME TypeOK, plan' = plan, NEW c \in Calls, NEW n \in Nodes, NEW st \in Status,
         mem[c].status[n] \notin {"failed", "succeeded"}, mem'[c] = Mark(c, n, st)
  PROVE  /\ mem'[c].status[n] = st
         /\ \A m \in Nodes : m # n => mem'[c].status[m] = mem[c].status[m]
         /\ mem'[c].failures = mem[c].failures /\ mem'[c].overall = mem[c].overall
         /\ mem'[c].pending = mem[c].pending
         /\ st # "failed" => Failed(mem[c])' = Failed(mem[c])
<1> DEFINE s == Mark(c, n, st)
<1>1. mem[c].status \in [Nodes -> Status]
  BY DEF TypeOK, Snapshot
<1>2. mem'[c] = s /\ Failed(mem[c])' = Failed(s)
  BY DEF Failed, Nodes
<1>3. /\ s.status = [mem[c].status EXCEPT ![n] = st]
      /\ s.failures = mem[c].failures /\ s.overall = mem[c].overall
      /\ s.pending = mem[c].pending
  BY MarkType
<1>4. st # "failed" => Failed(s) = Failed(mem[c])
  BY MarkCount
<1> HIDE DEF s
<1>5. QED  BY <1>1, <1>2, <1>3, <1>4

LEMMA FailFacts ==
  ASSUME TypeOK, plan' = plan, NEW c \in Calls, cur[c] \in Nodes,
         mem[c].status[cur[c]] \notin {"failed", "succeeded"}, FailNode(c),
         mem[c].failures = Cardinality(Failed(mem[c]))
  PROVE  /\ mem'[c].status[cur[c]] = "failed"
         /\ \A m \in Nodes : m # cur[c] => mem'[c].status[m] = mem[c].status[m]
         /\ mem'[c].overall = mem[c].overall /\ mem'[c].pending = mem[c].pending
         /\ mem'[c].failures = Cardinality(Failed(mem[c]))'
         /\ Failed(mem[c])' # {}
         /\ disk'.overall = mem[c].overall /\ disk'.pending = mem[c].pending
<1> DEFINE s == Mark(c, cur[c], "failed")
           r == [s EXCEPT !.failures = @ + 1]
<1>1. /\ s \in Snapshot /\ s.status = [mem[c].status EXCEPT ![cur[c]] = "failed"]
      /\ s.failures = mem[c].failures
      /\ s.overall = mem[c].overall /\ s.pending = mem[c].pending
  BY MarkType DEF Status
<1>2. /\ Failed(s) = Failed(mem[c]) \cup {cur[c]}
      /\ Cardinality(Failed(s)) = mem[c].failures + 1
  BY MarkCount DEF Status
<1>3. /\ r.status = s.status /\ r.failures = s.failures + 1
      /\ r.overall = s.overall /\ r.pending = s.pending
  <2> HIDE DEF s
  <2> QED  BY <1>1 DEF Snapshot
<1>4. mem'[c] = r /\ disk' = s
  BY DEF FailNode, TypeOK
<1>5. Failed(mem[c])' = Failed(s)
  <2> HIDE DEF s, r
  <2> QED  BY <1>3, <1>4 DEF Failed, Nodes
<1>6. mem[c].status \in [Nodes -> Status]
  BY DEF TypeOK, Snapshot
<1> HIDE DEF s, r
<1>7. QED  BY <1>1, <1>2, <1>3, <1>4, <1>5, <1>6

\* Lemmas SkipOk to AnnounceOk: each step of a call, for the call itself.
LEMMA Constants ==
  ASSUME TypeOK, plan' = plan
  PROVE  Nodes' = Nodes /\ Fresh' = Fresh
BY DEF Nodes, Fresh

LEMMA Places ==
  ASSUME TypeOK, NEW c \in Calls
  PROVE  /\ cur[c] \in Nat /\ HasNode(c) <=> cur[c] \in Nodes
         /\ cur[c] \in Nodes => cur[c] + 1 \in 1..(plan.size + 1)
         /\ \A n \in Nodes : /\ n < cur[c] + 1 <=> n < cur[c] \/ n = cur[c]
                             /\ n <= cur[c] <=> n < cur[c] \/ n = cur[c]
                             /\ n >= cur[c] + 1 <=> n > cur[c]
                             /\ n > cur[c] + 1 => n > cur[c]
                             /\ n >= cur[c] <=> n > cur[c] \/ n = cur[c]
                             /\ n > cur[c] => n # cur[c]
                             /\ n < cur[c] => n # cur[c]
<1>1. cur[c] \in Nat \ {0} /\ plan.size \in Nat
  BY PlanFacts DEF TypeOK
<1>2. QED  BY <1>1 DEF Nodes, HasNode

\* Writing a marked object that does not claim to be paused leaves DiskInv.
LEMMA SaveMarkQuiet ==
  ASSUME TypeOK, NEW c \in Calls, NEW n \in Nodes, NEW st \in Status,
         mem[c].overall = Fresh.overall, mem[c].pending = 0,
         disk' = Mark(c, n, st)
  PROVE  DiskInv'
<1>1. disk'.overall = mem[c].overall /\ disk'.pending = mem[c].pending
  BY MarkType
<1>2. mem[c].overall \in {"absent", "running", "no_capability"}
  BY FreshFacts DEF TypeOK
<1>3. QED  BY <1>1, <1>2, QuietDisk

LEMMA SkipOk ==
  ASSUME TypeOK, plan' = plan, NEW c \in Calls, WalkInv(c), SkipNode(c)
  PROVE  StepOk(c)
<1>1. /\ pc[c] = "visit" /\ pc'[c] = "visit" /\ cur'[c] = cur[c] + 1
      /\ cur[c] \in Nodes /\ future'[c] = future[c] /\ Nodes' = Nodes /\ Fresh' = Fresh
  BY Constants, Places DEF TypeOK, SkipNode, At
<1>2. WalkBase(c) /\ WalkOpen(c) /\ mem[c].pending = 0
  BY <1>1 DEF WalkInv, InWalk, Open, WalkBase
<1>3. mem[c].status[cur[c]] \notin {"failed", "succeeded"}
  BY <1>1, <1>2, Places DEF WalkOpen, Settled
<1>4. mem'[c] = Mark(c, cur[c], "skipped") /\ disk' = Mark(c, cur[c], "skipped")
  BY DEF SkipNode, Save, TypeOK
<1>5. /\ mem'[c].status[cur[c]] = "skipped"
      /\ \A m \in Nodes : m # cur[c] => mem'[c].status[m] = mem[c].status[m]
      /\ mem'[c].failures = mem[c].failures /\ mem'[c].overall = mem[c].overall
      /\ mem'[c].pending = mem[c].pending
      /\ Failed(mem[c])' = Failed(mem[c])
  BY <1>1, <1>3, <1>4, MarkFacts DEF Status
<1>6. Failed(mem[c]) # {}
  <2>1. PICK d \in plan.deps[cur[c]] : mem[c].status[d] # "succeeded"
    BY DEF SkipNode, DepsOk
  <2>2. d \in Nodes /\ d < cur[c]
    BY <1>1, PlanFacts DEF TypeOK
  <2>3. QED  BY <1>2, <2>1, <2>2 DEF WalkOpen
<1>7. WalkBase(c)'
  BY <1>1, <1>2, <1>5, Places DEF WalkBase, Settled
<1>8. WalkOpen(c)'
  BY <1>1, <1>2, <1>5, <1>6, Places DEF WalkOpen
<1>9. WalkInv(c)'
  BY <1>1, <1>7, <1>8 DEF WalkInv
<1>10. Kept(c)
  BY <1>1, <1>3, <1>5 DEF Kept
<1>11. DiskInv'
  BY <1>1, <1>2, <1>4, SaveMarkQuiet DEF Status, WalkBase
<1>12. QED  BY <1>9, <1>10, <1>11 DEF StepOk

LEMMA EnterOk ==
  ASSUME TypeOK, DiskInv, plan' = plan, NEW c \in Calls, WalkInv(c), EnterNode(c)
  PROVE  StepOk(c)
<1>1. /\ pc[c] = "visit" /\ pc'[c] = "retry" /\ cur[c] \in Nodes /\ DepsOk(c)
      /\ Nodes' = Nodes /\ Fresh' = Fresh
      /\ UNCHANGED <<disk, mem, cur, future, plan>>
  BY Places, Constants DEF TypeOK, EnterNode, Admitted, At, Goto
<1>2. WalkInv(c)'
  BY <1>1 DEF WalkInv, InWalk, Open, WalkBase, WalkOpen, WalkAtNode, DepsOk, Failed
<1>3. Kept(c)
  BY <1>1 DEF Kept
<1>4. DiskInv'
  BY <1>1 DEF DiskInv, Resumable, Ended, Failed
<1>5. QED  BY <1>2, <1>3, <1>4 DEF StepOk

\* NoHandler and GiveUp alike: the node the walk is at fails.
LEMMA FailOk ==
  ASSUME TypeOK, plan' = plan, NEW c \in Calls, WalkInv(c), FailNode(c),
         pc[c] \in {"visit", "retry"}, pc'[c] = "after", cur[c] \in Nodes,
         UNCHANGED <<cur, future>>
  PROVE  StepOk(c)
<1>1. Nodes' = Nodes /\ Fresh' = Fresh
  BY Constants
<1>2. WalkBase(c) /\ WalkOpen(c) /\ mem[c].pending = 0
  BY DEF WalkInv, InWalk, Open, WalkBase
<1>3. mem[c].status[cur[c]] \notin {"failed", "succeeded"}
  BY <1>2, Places DEF WalkOpen, Settled
<1>4. /\ mem'[c].status[cur[c]] = "failed"
      /\ \A m \in Nodes : m # cur[c] => mem'[c].status[m] = mem[c].status[m]
      /\ mem'[c].overall = mem[c].overall /\ mem'[c].pending = mem[c].pending
      /\ mem'[c].failures = Cardinality(Failed(mem[c]))'
      /\ Failed(mem[c])' # {}
      /\ disk'.overall = mem[c].overall /\ disk'.pending = mem[c].pending
  BY <1>2, <1>3, FailFacts DEF WalkBase
<1>5. WalkBase(c)'
  BY <1>1, <1>2, <1>4, Places DEF WalkBase, Settled
<1>6. WalkAfter(c)'
  BY <1>1, <1>2, <1>4, Places DEF WalkOpen, WalkAfter, Settled
<1>7. WalkInv(c)'
  BY <1>5, <1>6 DEF WalkInv, Open
<1>8. Kept(c)
  BY <1>3, <1>4 DEF Kept
<1>9. mem[c].overall \in {"absent", "running", "no_capability"}
  BY <1>2, FreshFacts DEF WalkBase, TypeOK
<1>10. DiskInv'
  BY <1>2, <1>4, <1>9, QuietDisk
<1>11. QED  BY <1>7, <1>8, <1>10 DEF StepOk

LEMMA NoHandlerOk ==
  ASSUME TypeOK, plan' = plan, NEW c \in Calls, WalkInv(c), NoHandler(c)
  PROVE  StepOk(c)
BY FailOk, Places DEF NoHandler, Admitted, At, Goto, walk, TypeOK

LEMMA GiveUpOk ==
  ASSUME TypeOK, plan' = plan, NEW c \in Calls, WalkInv(c), GiveUp(c)
  PROVE  StepOk(c)
BY FailOk DEF GiveUp, At, Goto, walk, TypeOK

LEMMA AttemptOk ==
  ASSUME TypeOK, plan' = plan, NEW c \in Calls, WalkInv(c), Attempt(c)
  PROVE  StepOk(c)
<1> DEFINE st == IF att[c] = 0 THEN "running" ELSE "retrying"
<1>1. /\ pc[c] = "retry" /\ pc'[c] = "wait" /\ cur'[c] = cur[c] /\ future'[c] = "none"
      /\ Nodes' = Nodes /\ Fresh' = Fresh
  BY Constants DEF TypeOK, Attempt, At, Goto
<1>2. WalkBase(c) /\ WalkOpen(c) /\ WalkAtNode(c) /\ mem[c].pending = 0
  BY <1>1 DEF WalkInv, InWalk, Open, WalkBase
<1>3. cur[c] \in Nodes /\ mem[c].status[cur[c]] \notin {"failed", "succeeded", "skipped"}
  BY <1>2, Places DEF WalkOpen, WalkAtNode, Settled
<1>4. mem'[c] = Mark(c, cur[c], st) /\ disk' = Mark(c, cur[c], st)
  BY DEF Attempt, Save, TypeOK
<1>5. st \in Status /\ st \notin Settled
  BY DEF Status, Settled
<1> HIDE DEF st
<1>6. /\ mem'[c].status[cur[c]] = st
      /\ \A m \in Nodes : m # cur[c] => mem'[c].status[m] = mem[c].status[m]
      /\ mem'[c].failures = mem[c].failures /\ mem'[c].overall = mem[c].overall
      /\ mem'[c].pending = mem[c].pending
      /\ Failed(mem[c])' = Failed(mem[c])
  BY <1>3, <1>4, <1>5, MarkFacts DEF Settled
<1>7. WalkBase(c)'
  BY <1>1, <1>2, <1>6, Places DEF WalkBase
<1>8. WalkOpen(c)'
  BY <1>1, <1>2, <1>5, <1>6, Places DEF WalkOpen
<1>9. WalkAtNode(c)'
  <2>1. \A d \in plan.deps[cur[c]] : d \in Nodes /\ d # cur[c]
    BY <1>3, PlanFacts, Places DEF TypeOK
  <2>2. QED  BY <1>1, <1>2, <1>3, <1>6, <2>1 DEF WalkAtNode
<1>10. WalkInv(c)'
  BY <1>1, <1>7, <1>8, <1>9 DEF WalkInv
<1>11. Kept(c)
  BY <1>1, <1>3, <1>6 DEF Kept
<1>12. DiskInv'
  BY <1>2, <1>3, <1>4, <1>5, SaveMarkQuiet DEF WalkBase
<1>13. QED  BY <1>10, <1>11, <1>12 DEF StepOk

LEMMA RetryOk ==
  ASSUME TypeOK, DiskInv, plan' = plan, NEW c \in Calls, WalkInv(c),
         Timeout(c) \/ HandlerRaised(c)
  PROVE  StepOk(c)
<1>1. /\ pc[c] = "wait" /\ pc'[c] = "retry" /\ Nodes' = Nodes /\ Fresh' = Fresh
      /\ UNCHANGED <<disk, mem, cur, future, plan>>
  BY Constants DEF TypeOK, Timeout, HandlerRaised, At, Goto, walk
<1>2. WalkInv(c)'
  BY <1>1 DEF WalkInv, InWalk, Open, WalkBase, WalkOpen, WalkAtNode, Failed
<1>3. Kept(c)
  BY <1>1 DEF Kept
<1>4. DiskInv'
  BY <1>1 DEF DiskInv, Resumable, Ended, Failed
<1>5. QED  BY <1>2, <1>3, <1>4 DEF StepOk

LEMMA ReturnedOk ==
  ASSUME TypeOK, plan' = plan, NEW c \in Calls, WalkInv(c), HandlerReturned(c)
  PROVE  StepOk(c)
<1>1. /\ pc[c] = "wait" /\ pc'[c] = "after" /\ cur'[c] = cur[c] /\ future'[c] = future[c]
      /\ Nodes' = Nodes /\ Fresh' = Fresh
  BY Constants DEF TypeOK, HandlerReturned, At, Goto, walk
<1>2. WalkBase(c) /\ WalkOpen(c) /\ cur[c] \in Nodes /\ mem[c].pending = 0
  BY <1>1 DEF WalkInv, InWalk, Open, WalkBase, WalkAtNode
<1>3. mem[c].status[cur[c]] \notin {"failed", "succeeded"}
  BY <1>2, Places DEF WalkOpen, Settled
<1>4. mem'[c] = Mark(c, cur[c], "succeeded") /\ disk' = Mark(c, cur[c], "succeeded")
  BY DEF HandlerReturned, Save, TypeOK
<1>5. /\ mem'[c].status[cur[c]] = "succeeded"
      /\ \A m \in Nodes : m # cur[c] => mem'[c].status[m] = mem[c].status[m]
      /\ mem'[c].failures = mem[c].failures /\ mem'[c].overall = mem[c].overall
      /\ mem'[c].pending = mem[c].pending
      /\ Failed(mem[c])' = Failed(mem[c])
  BY <1>2, <1>3, <1>4, MarkFacts DEF Status
<1>6. WalkBase(c)'
  BY <1>1, <1>2, <1>5, Places DEF WalkBase
<1>7. WalkAfter(c)'
  BY <1>1, <1>2, <1>5, Places DEF WalkOpen, WalkAfter, Settled
<1>8. WalkInv(c)'
  BY <1>1, <1>6, <1>7 DEF WalkInv, Open
<1>9. Kept(c)
  BY <1>1, <1>3, <1>5 DEF Kept
<1>10. DiskInv'
  BY <1>2, <1>4, SaveMarkQuiet DEF Status, WalkBase
<1>11. QED  BY <1>8, <1>9, <1>10 DEF StepOk

LEMMA GatedOk ==
  ASSUME TypeOK, plan' = plan, NEW c \in Calls, WalkInv(c), HandlerGated(c)
  PROVE  StepOk(c)
<1> DEFINE s == Mark(c, cur[c], "awaiting_input")
<1>1. /\ pc[c] = "wait" /\ pc'[c] = "pause" /\ cur'[c] = cur[c] /\ future'[c] = future[c]
      /\ Nodes' = Nodes /\ Fresh' = Fresh
      /\ disk' = s /\ plan.capable
  BY Constants DEF TypeOK, HandlerGated, At, Goto, walk, WalkInv
<1>2. WalkBase(c) /\ WalkOpen(c) /\ WalkAtNode(c) /\ mem[c].pending = 0
  BY <1>1 DEF WalkInv, InWalk, Open, WalkBase
<1>3. cur[c] \in Nodes /\ mem[c].status[cur[c]] \notin {"failed", "succeeded"}
  BY <1>2, Places DEF WalkOpen, WalkAtNode, Settled
<1>4. PICK fs \in (SUBSET Fields) \ {{}} : mem'[c] = Gated(c, cur[c], fs)
  BY DEF HandlerGated, TypeOK
<1>5. /\ s \in Snapshot
      /\ s.status = [mem[c].status EXCEPT ![cur[c]] = "awaiting_input"]
      /\ s.failures = mem[c].failures /\ s.overall = mem[c].overall
      /\ Failed(s) = Failed(mem[c])
  BY <1>3, MarkType, MarkCount DEF Status
<1>6. mem'[c] = [s EXCEPT !.pending = cur[c], !.wanted = fs]
  BY <1>4, <1>3, GatedType
<1>7. mem[c].status \in [Nodes -> Status]
  BY DEF TypeOK, Snapshot
<1>8. /\ mem'[c].status[cur[c]] = "awaiting_input"
      /\ \A m \in Nodes : m # cur[c] => mem'[c].status[m] = mem[c].status[m]
      /\ mem'[c].failures = mem[c].failures /\ mem'[c].overall = mem[c].overall
      /\ mem'[c].pending = cur[c] /\ mem'[c].wanted = fs
      /\ Failed(mem[c])' = Failed(mem[c])
  <2> HIDE DEF s
  <2>1. /\ mem'[c].status = s.status /\ mem'[c].failures = s.failures
        /\ mem'[c].overall = s.overall
        /\ mem'[c].pending = cur[c] /\ mem'[c].wanted = fs
    BY <1>5, <1>6 DEF Snapshot
  <2>2. Failed(mem[c])' = Failed(s)
    BY <1>1, <2>1 DEF Failed
  <2>3. QED  BY <1>3, <1>5, <1>7, <2>1, <2>2
<1>9. WalkBase(c)'
  BY <1>1, <1>2, <1>8, Places DEF WalkBase
<1>10. WalkOpen(c)'
  BY <1>1, <1>2, <1>8, Places DEF WalkOpen, Settled
<1>11. WalkAtNode(c)'
  <2>1. \A d \in plan.deps[cur[c]] : d \in Nodes /\ d # cur[c]
    BY <1>3, PlanFacts, Places DEF TypeOK
  <2>2. QED  BY <1>1, <1>2, <1>3, <1>8, <2>1 DEF WalkAtNode
<1>12. WalkInv(c)'
  <2>1. fs # {}
    BY <1>4
  <2>2. /\ pc'[c] = "pause" /\ plan'.capable
        /\ mem'[c].pending = cur'[c] /\ mem'[c].wanted # {}
        /\ mem'[c].status[cur'[c]] = "awaiting_input"
    <3> HIDE DEF s
    <3> QED  BY <1>1, <1>8, <2>1
  <2>3. QED  BY <2>2, <1>9, <1>10, <1>11 DEF WalkInv
<1>13. Kept(c)
  BY <1>1, <1>3, <1>8 DEF Kept
<1>14. DiskInv'
  BY <1>1, <1>2, <1>3, SaveMarkQuiet DEF Status, WalkBase
<1>15. QED  BY <1>12, <1>13, <1>14 DEF StepOk

\* Rewriting the overall status (and the answer) leaves the rest.
LEMMA OverallFacts ==
  ASSUME TypeOK, NEW c \in Calls, NEW o \in Overall
  PROVE  LET s == [mem[c] EXCEPT !.overall = o] IN
         /\ s.status = mem[c].status /\ s.failures = mem[c].failures
         /\ s.overall = o /\ s.pending = mem[c].pending /\ s.wanted = mem[c].wanted
         /\ Failed(s) = Failed(mem[c])
BY DEF TypeOK, Snapshot, Failed

LEMMA PrimedFailed ==
  ASSUME TypeOK, plan' = plan, NEW c \in Calls
  PROVE  /\ Failed(disk)' = Failed(disk') /\ Failed(mem[c])' = Failed(mem'[c])
BY DEF Failed, Nodes

LEMMA PauseOk ==
  ASSUME TypeOK, plan' = plan, NEW c \in Calls, WalkInv(c), Pause(c)
  PROVE  StepOk(c)
<1> DEFINE s == [mem[c] EXCEPT !.overall = "awaiting_human_input"]
<1>1. /\ pc[c] = "pause" /\ pc'[c] = "done" /\ cur'[c] = cur[c] /\ future'[c] = future[c]
      /\ Nodes' = Nodes
  BY Constants DEF TypeOK, Pause, At, Goto, walk
<1>2. /\ WalkBase(c) /\ WalkOpen(c) /\ WalkAtNode(c) /\ plan.capable
      /\ mem[c].pending = cur[c] /\ mem[c].wanted # {}
      /\ mem[c].status[cur[c]] = "awaiting_input"
  BY <1>1 DEF WalkInv, InWalk, Open
<1>3. disk' = mem'[c] /\ disk' = s
  BY DEF Pause, Save, TypeOK
<1>4. /\ disk'.status = mem[c].status /\ disk'.failures = mem[c].failures
      /\ disk'.overall = "awaiting_human_input" /\ disk'.pending = mem[c].pending
      /\ disk'.wanted = mem[c].wanted
      /\ Failed(disk)' = Failed(mem[c])
  <2>1. /\ s.status = mem[c].status /\ s.failures = mem[c].failures
        /\ s.overall = "awaiting_human_input" /\ s.pending = mem[c].pending
        /\ s.wanted = mem[c].wanted /\ Failed(s) = Failed(mem[c])
    BY OverallFacts DEF Overall
  <2> HIDE DEF s
  <2>2. QED  BY <1>3, <2>1, PrimedFailed
<1>5. Resumable(disk)'
  BY <1>1, <1>2, <1>4 DEF Resumable, WalkBase, WalkOpen, WalkAtNode
<1>6. WalkInv(c)'
  BY <1>1 DEF WalkInv, InWalk, Open
<1>7. Kept(c)
  BY <1>1, <1>3, <1>4 DEF Kept
<1>8. DiskInv'
  BY <1>4, <1>5 DEF DiskInv, Terminal
<1>9. QED  BY <1>6, <1>7, <1>8 DEF StepOk

LEMMA AdvanceOk ==
  ASSUME TypeOK, DiskInv, plan' = plan, NEW c \in Calls, WalkInv(c), Advance(c)
  PROVE  StepOk(c)
<1>1. /\ pc[c] = "after" /\ pc'[c] = "visit" /\ cur'[c] = cur[c] + 1
      /\ plan.capable => ~BreakerOpen(c)
      /\ Nodes' = Nodes /\ Fresh' = Fresh
      /\ UNCHANGED <<disk, mem, future, plan>>
  BY Constants DEF TypeOK, Advance, At, Goto
<1>2. WalkBase(c) /\ WalkAfter(c) /\ mem[c].pending = 0
  BY <1>1 DEF WalkInv, InWalk, WalkBase
<1>3. Failed(mem[c])' = Failed(mem[c])
  BY <1>1 DEF Failed
<1>4. WalkBase(c)'
  BY <1>1, <1>2, <1>3, Places DEF WalkBase, WalkAfter
<1>5. mem[c].failures \in Nat /\ plan.threshold \in Nat
  BY PlanFacts DEF TypeOK, Snapshot
<1>6. WalkOpen(c)'
  BY <1>1, <1>2, <1>3, <1>5, Places DEF WalkAfter, WalkOpen, BreakerOpen, Settled
<1>7. WalkInv(c)'
  BY <1>1, <1>2, <1>4, <1>6 DEF WalkInv
<1>8. Kept(c)
  BY <1>1 DEF Kept
<1>9. DiskInv'
  BY <1>1 DEF DiskInv, Resumable, Ended, Failed
<1>10. QED  BY <1>7, <1>8, <1>9 DEF StepOk

\* Before a node the breaker is never found open: it was looked at after the
\* last one, and a skipped node does not count as a failure.
LEMMA TripOk ==
  ASSUME TypeOK, DiskInv, plan' = plan, NEW c \in Calls, WalkInv(c), Trip(c)
  PROVE  StepOk(c)
<1>1. /\ pc[c] \in {"visit", "after"} /\ pc'[c] = "trip" /\ plan.capable /\ BreakerOpen(c)
      /\ Nodes' = Nodes /\ Fresh' = Fresh
      /\ UNCHANGED <<disk, mem, future, plan>>
  BY Constants DEF TypeOK, Trip, At, Goto
<1>2. mem[c].failures \in Nat /\ plan.threshold \in Nat
  BY PlanFacts DEF TypeOK, Snapshot
<1>3. pc[c] = "after"
  BY <1>1, <1>2 DEF WalkInv, WalkOpen, BreakerOpen, Open
<1>4. cur'[c] = cur[c] + 1
  BY <1>3 DEF Trip, At, TypeOK
<1>5. WalkBase(c) /\ WalkAfter(c) /\ mem[c].pending = 0
  BY <1>3 DEF WalkInv, InWalk, WalkBase
<1>6. Failed(mem[c])' = Failed(mem[c])
  BY <1>1 DEF Failed
<1>7. WalkBase(c)'
  BY <1>1, <1>4, <1>5, <1>6, Places DEF WalkBase, WalkAfter
<1>8. WalkTrip(c)'
  BY <1>1, <1>4, <1>5, Places DEF WalkAfter, WalkTrip, BreakerOpen
<1>9. WalkInv(c)'
  BY <1>1, <1>7, <1>8 DEF WalkInv, Open
<1>10. Kept(c)
  BY <1>1, <1>3 DEF Kept
<1>11. DiskInv'
  BY <1>1 DEF DiskInv, Resumable, Ended, Failed
<1>12. QED  BY <1>9, <1>10, <1>11 DEF StepOk

LEMMA TripSkipOk ==
  ASSUME TypeOK, plan' = plan, NEW c \in Calls, WalkInv(c), TripSkip(c)
  PROVE  StepOk(c)
<1>1. /\ pc[c] = "trip" /\ pc'[c] = "trip" /\ cur'[c] = cur[c] /\ future'[c] = future[c]
      /\ Nodes' = Nodes /\ Fresh' = Fresh
  BY Constants DEF TypeOK, TripSkip, At, walk
<1>2. WalkBase(c) /\ WalkTrip(c) /\ mem[c].pending = 0
  BY <1>1 DEF WalkInv, InWalk, WalkBase
<1>3. PICK n \in Unvisited(c) : Save(c, Mark(c, n, "skipped"))
  BY DEF TripSkip
<1>4. n \in Nodes /\ n >= cur[c] /\ mem[c].status[n] = "pending"
  BY <1>3 DEF Unvisited
<1>5. mem'[c] = Mark(c, n, "skipped") /\ disk' = Mark(c, n, "skipped")
  BY <1>3 DEF Save, TypeOK
<1>6. /\ mem'[c].status[n] = "skipped"
      /\ \A m \in Nodes : m # n => mem'[c].status[m] = mem[c].status[m]
      /\ mem'[c].failures = mem[c].failures /\ mem'[c].overall = mem[c].overall
      /\ mem'[c].pending = mem[c].pending
      /\ Failed(mem[c])' = Failed(mem[c])
  BY <1>4, <1>5, MarkFacts DEF Status
<1>7. WalkBase(c)'
  BY <1>1, <1>2, <1>6 DEF WalkBase, Settled
<1>8. WalkTrip(c)'
  BY <1>1, <1>2, <1>6 DEF WalkTrip
<1>9. WalkInv(c)'
  BY <1>1, <1>7, <1>8 DEF WalkInv, Open
<1>10. Kept(c)
  BY <1>1, <1>4, <1>6 DEF Kept
<1>11. DiskInv'
  BY <1>2, <1>4, <1>5, SaveMarkQuiet DEF Status, WalkBase
<1>12. QED  BY <1>9, <1>10, <1>11 DEF StepOk

LEMMA BrokenOk ==
  ASSUME TypeOK, plan' = plan, NEW c \in Calls, WalkInv(c), CircuitBroken(c)
  PROVE  StepOk(c)
<1> DEFINE s == [mem[c] EXCEPT !.overall = "circuit_broken"]
<1>1. /\ pc[c] = "trip" /\ pc'[c] = "done" /\ future'[c] = future[c]
      /\ Unvisited(c) = {} /\ Nodes' = Nodes
  BY Constants DEF TypeOK, CircuitBroken, At, Goto, walk
<1>2. WalkBase(c) /\ WalkTrip(c) /\ mem[c].pending = 0
  BY <1>1 DEF WalkInv, InWalk, WalkBase
<1>3. disk' = mem'[c] /\ disk' = s
  BY DEF CircuitBroken, Save, TypeOK
<1>4. /\ disk'.status = mem[c].status /\ disk'.failures = mem[c].failures
      /\ disk'.overall = "circuit_broken" /\ disk'.pending = mem[c].pending
      /\ Failed(disk)' = Failed(mem[c])
  <2>1. /\ s.status = mem[c].status /\ s.failures = mem[c].failures
        /\ s.overall = "circuit_broken" /\ s.pending = mem[c].pending
        /\ Failed(s) = Failed(mem[c])
    BY OverallFacts DEF Overall
  <2> HIDE DEF s
  <2>2. QED  BY <1>3, <2>1, PrimedFailed
<1>5. \A n \in Nodes : mem[c].status[n] \in Settled
  <2>1. TAKE n \in Nodes
  <2>2. n < cur[c] \/ n >= cur[c]
    BY Places, PlanFacts DEF TypeOK
  <2>3. n >= cur[c] => mem[c].status[n] = "skipped"
    BY <1>1, <1>2 DEF WalkTrip, Unvisited
  <2>4. QED  BY <1>2, <2>2, <2>3 DEF WalkBase, Settled
<1>6. Ended(disk)'
  BY <1>1, <1>2, <1>4, <1>5 DEF Ended, WalkBase, WalkTrip
<1>7. WalkInv(c)'
  BY <1>1 DEF WalkInv, InWalk, Open
<1>8. Kept(c)
  BY <1>1, <1>3, <1>4 DEF Kept
<1>9. DiskInv'
  BY <1>2, <1>4, <1>6 DEF DiskInv
<1>10. QED  BY <1>7, <1>8, <1>9 DEF StepOk

LEMMA FinishOk ==
  ASSUME TypeOK, DiskInv, plan' = plan, NEW c \in Calls, WalkInv(c), Finish(c)
  PROVE  StepOk(c)
<1>1. /\ pc[c] = "visit" /\ pc'[c] = "final" /\ ~HasNode(c) /\ plan.capable
      /\ Nodes' = Nodes /\ mem'[c] = Judged(c)
      /\ UNCHANGED <<disk, future, cur, plan>>
  BY Constants DEF TypeOK, Finish, At, Goto, walk
<1>2. WalkBase(c) /\ WalkOpen(c) /\ mem[c].pending = 0
  BY <1>1 DEF WalkInv, InWalk, Open, WalkBase
<1>3. \A n \in Nodes : n < cur[c]
  BY <1>1, PlanFacts, Places DEF TypeOK, Nodes, HasNode
<1>4. /\ mem'[c].status = mem[c].status /\ mem'[c].failures = mem[c].failures
      /\ mem'[c].overall = Verdict(c) /\ mem'[c].pending = mem[c].pending
  BY <1>1 DEF TypeOK, Snapshot, Judged
<1>5. Failed(mem[c])' = Failed(mem[c])
  BY <1>1, <1>4 DEF Failed
<1>6. mem[c].failures \in Nat /\ plan.threshold \in Nat
  BY PlanFacts DEF TypeOK, Snapshot
<1>7. /\ Verdict(c) = "failed" => Failed(mem[c]) # {}
      /\ Verdict(c) = "completed" => Failed(mem[c]) = {}
      /\ Verdict(c) \in {"completed", "failed"}
  BY DEF Verdict, Failed
<1>8. Ended(mem[c])'
  <2>1. \A n \in Nodes : mem[c].status[n] \in Settled
    BY <1>2, <1>3 DEF WalkBase
  <2>2. Verdict(c) = "completed" => \A n \in Nodes : mem[c].status[n] = "succeeded"
    BY <1>2, <1>3, <1>7 DEF WalkOpen
  <2>3. mem[c].failures < plan.threshold /\ mem[c].failures = Cardinality(Failed(mem[c]))
    BY <1>1, <1>2 DEF WalkBase, WalkOpen
  <2>4. ~(mem[c].failures >= plan.threshold)
    BY <1>6, <2>3
  <2>5. QED  BY <1>1, <1>2, <1>4, <1>5, <1>7, <2>1, <2>2, <2>3, <2>4 DEF Ended
<1>9. WalkInv(c)'
  BY <1>1, <1>4, <1>7, <1>8 DEF WalkInv, InWalk, Open
<1>10. Kept(c)
  BY <1>1, <1>4 DEF Kept
<1>11. DiskInv'
  BY <1>1 DEF DiskInv, Resumable, Ended, Failed
<1>12. QED  BY <1>9, <1>10, <1>11 DEF StepOk

LEMMA FinalOk ==
  ASSUME TypeOK, plan' = plan, NEW c \in Calls, WalkInv(c), FinalSave(c)
  PROVE  StepOk(c)
<1>1. /\ pc[c] = "final" /\ pc'[c] = "done" /\ Nodes' = Nodes
      /\ future'[c] = future[c] /\ mem'[c] = mem[c] /\ disk' = mem[c]
  BY Constants DEF TypeOK, FinalSave, Save, At, Goto, walk
<1>2. mem[c].overall \in {"completed", "failed"} /\ Ended(mem[c])
  BY <1>1 DEF WalkInv
<1>3. Failed(disk)' = Failed(mem[c])
  BY <1>1, PrimedFailed
<1>4. Ended(disk)'
  BY <1>1, <1>2, <1>3 DEF Ended
<1>5. DiskInv'
  BY <1>1, <1>2, <1>4 DEF DiskInv, Ended
<1>6. WalkInv(c)'
  BY <1>1 DEF WalkInv, InWalk, Open
<1>7. Kept(c)
  BY <1>1 DEF Kept
<1>8. QED  BY <1>5, <1>6, <1>7 DEF StepOk

LEMMA RefuseOk ==
  ASSUME TypeOK, plan' = plan, NEW c \in Calls, WalkInv(c), Refuse(c)
  PROVE  StepOk(c)
<1> DEFINE s == [mem[c] EXCEPT !.overall = "no_capability", !.answer = "unsupported"]
<1>1. /\ pc[c] = "visit" /\ pc'[c] = "announce"
      /\ future'[c] = future[c] /\ mem'[c] = s /\ disk' = s
  BY DEF TypeOK, Refuse, Save, At, Goto, walk
<1>2. mem[c].pending = 0
  BY <1>1 DEF WalkInv, InWalk, Open, WalkBase
<1>3. /\ s.status = mem[c].status /\ s.overall = "no_capability"
      /\ s.pending = mem[c].pending
  BY DEF TypeOK, Snapshot
<1> HIDE DEF s
<1>4. WalkInv(c)'
  BY <1>1 DEF WalkInv, InWalk, Open
<1>5. Kept(c)
  BY <1>1, <1>3 DEF Kept
<1>6. DiskInv'
  BY <1>1, <1>2, <1>3, QuietDisk
<1>7. QED  BY <1>4, <1>5, <1>6 DEF StepOk

\* Announcing, posting a resume, and dying touch neither file nor object.
LEMMA LeaveOk ==
  ASSUME TypeOK, DiskInv, plan' = plan, NEW c \in Calls, WalkInv(c),
         \/ Announce(c) \/ PostResume(c) \/ CallDies(c)
         \/ LoadRun(c) /\ pc'[c] = "done"
  PROVE  StepOk(c)
<1>1. /\ pc[c] \in {"new", "load"} \/ pc'[c] \notin {"new", "load"}
      /\ pc'[c] \notin {"new", "reopen", "visit", "retry", "wait", "pause", "after", "trip", "final"}
      /\ Nodes' = Nodes
      /\ UNCHANGED <<disk, mem, future, plan>>
  BY Constants DEF TypeOK, Announce, PostResume, CallDies, LoadRun, ResumeAt,
       At, Goto, walk
<1>2. WalkInv(c)'
  BY <1>1 DEF WalkInv, InWalk, Open
<1>3. Kept(c)
  BY <1>1 DEF Kept
<1>4. DiskInv'
  BY <1>1 DEF DiskInv, Resumable, Ended, Failed
<1>5. QED  BY <1>2, <1>3, <1>4 DEF StepOk


LEMMA CreateOk ==
  ASSUME TypeOK, plan' = plan, NEW c \in Calls, WalkInv(c), CreateRun(c)
  PROVE  StepOk(c)
<1>1. /\ pc[c] = "new" /\ pc'[c] = "visit" /\ cur'[c] = 1 /\ future'[c] = future[c]
      /\ Nodes' = Nodes /\ Fresh' = Fresh /\ mem'[c] = Fresh /\ disk' = Fresh
  BY Constants DEF TypeOK, CreateRun, Save, At, Goto, walk, WalkInv
<1>2. /\ Fresh.overall \in {"running", "no_capability"}
      /\ Fresh.pending = 0 /\ Fresh.failures = 0
      /\ Failed(Fresh) = {} /\ \A n \in Nodes : Fresh.status[n] = "pending"
      /\ plan.size \in Nat /\ plan.threshold \in Nat \ {0} /\ Nodes \subseteq Nat \ {0}
  BY FreshFacts, PlanFacts DEF TypeOK, Nodes
<1>3. Failed(mem[c])' = {} /\ Cardinality({}) = 0
  BY <1>1, <1>2, PrimedFailed, FS_EmptySet
<1>4. WalkBase(c)'
  BY <1>1, <1>2, <1>3 DEF WalkBase
<1>5. WalkOpen(c)'
  <2>1. 0 < plan.threshold /\ \A n \in Nodes : ~(n < 1)
    BY <1>2
  <2>2. QED  BY <1>1, <1>2, <1>3, <2>1 DEF WalkOpen, Settled
<1>6. WalkInv(c)'
  BY <1>1, <1>4, <1>5 DEF WalkInv
<1>7. Kept(c)
  BY <1>1 DEF Kept
<1>8. DiskInv'
  BY <1>1, <1>2, QuietDisk
<1>9. QED  BY <1>6, <1>7, <1>8 DEF StepOk

LEMMA LoadOk ==
  ASSUME TypeOK, DiskInv, plan' = plan, NEW c \in Calls, WalkInv(c), LoadRun(c),
         pc'[c] # "done"
  PROVE  StepOk(c)
<1>1. /\ pc[c] = "load" /\ pc'[c] = "reopen" /\ cur'[c] = disk.pending
      /\ mem'[c] = Resumed(c) /\ disk.overall = "awaiting_human_input"
      /\ Nodes' = Nodes /\ Fresh' = Fresh
      /\ UNCHANGED <<disk, future, plan>>
  BY Constants DEF TypeOK, LoadRun, ResumeAt, At, Goto
<1>2. Resumable(disk)
  BY <1>1 DEF DiskInv
<1>3. /\ mem'[c].status = disk.status /\ mem'[c].failures = disk.failures
      /\ mem'[c].overall = "running" /\ mem'[c].pending = 0
  BY <1>1 DEF TypeOK, Snapshot, Resumed
<1>4. Failed(mem[c])' = Failed(disk)
  BY <1>3, PrimedFailed DEF Failed
<1>5. Fresh.overall = "running" /\ disk.pending \in 1..(plan.size + 1)
      /\ Nodes \subseteq Nat
  BY <1>2, FreshFacts, PlanFacts DEF TypeOK, Resumable, Nodes
<1>6. WalkBase(c)'
  BY <1>1, <1>2, <1>3, <1>4, <1>5 DEF WalkBase, Resumable
<1>7. WalkOpen(c)'
  <2> DEFINE k == disk.pending
  <2>1. \A n \in Nodes : n >= k => n = k \/ n > k
    <3>1. k \in Nat /\ Nodes \subseteq Nat
      BY <1>5
    <3> HIDE DEF k
    <3>2. QED  BY <3>1
  <2>2. QED
    BY <1>1, <1>2, <1>3, <1>4, <2>1 DEF WalkOpen, Resumable, Settled
<1>8. WalkAtNode(c)'
  BY <1>1, <1>2, <1>3 DEF WalkAtNode, Resumable
<1>9. WalkInv(c)'
  BY <1>1, <1>2, <1>6, <1>7, <1>8 DEF WalkInv, Resumable
<1>10. Kept(c)
  BY <1>1 DEF Kept
<1>11. DiskInv'
  BY <1>1 DEF DiskInv, Resumable, Ended, Failed
<1>12. QED  BY <1>9, <1>10, <1>11 DEF StepOk

LEMMA ReopenOk ==
  ASSUME TypeOK, plan' = plan, NEW c \in Calls, WalkInv(c), Reopen(c)
  PROVE  StepOk(c)
<1>1. /\ pc[c] = "reopen" /\ pc'[c] = "visit" /\ mem'[c] = mem[c] /\ disk' = mem[c]
      /\ Nodes' = Nodes /\ Fresh' = Fresh
      /\ UNCHANGED <<cur, future, plan>>
  BY Constants DEF TypeOK, Reopen, Save, At, Goto, walk
<1>2. WalkBase(c) /\ WalkOpen(c) /\ mem[c].pending = 0 /\ plan.capable
  BY <1>1 DEF WalkInv, InWalk, Open, WalkBase
<1>3. mem[c].overall = "running"
  BY <1>2, FreshFacts DEF TypeOK, WalkBase
<1>4. Failed(mem[c])' = Failed(mem[c])
  BY <1>1, PrimedFailed
<1>5. WalkBase(c)'
  BY <1>1, <1>2, <1>4 DEF WalkBase
<1>6. WalkOpen(c)'
  BY <1>1, <1>2, <1>4 DEF WalkOpen
<1>7. WalkInv(c)'
  BY <1>1, <1>2, <1>5, <1>6 DEF WalkInv
<1>8. Kept(c)
  BY <1>1 DEF Kept
<1>9. DiskInv'
  BY <1>1, <1>2, <1>3, QuietDisk
<1>10. QED  BY <1>7, <1>8, <1>9 DEF StepOk

LEMMA CallStep ==
  ASSUME TypeOK, DiskInv, plan' = plan, NEW c \in Calls, WalkInv(c),
         CreateRun(c) \/ PostResume(c) \/ Step(c) \/ CallDies(c)
  PROVE  StepOk(c)
<1>1. CASE CreateRun(c)
  BY <1>1, CreateOk
<1>2. CASE PostResume(c) \/ CallDies(c)
  BY <1>2, LeaveOk
<1>3. CASE Step(c)
  BY <1>3, LoadOk, LeaveOk, ReopenOk, SkipOk, EnterOk, NoHandlerOk, AttemptOk,
     RetryOk, ReturnedOk, GatedOk, PauseOk, GiveUpOk, AdvanceOk, TripOk, TripSkipOk,
     BrokenOk, FinishOk, FinalOk, RefuseOk DEF Step
<1>4. QED  BY <1>1, <1>2, <1>3

-----------------------------------------------------------------------------
(* The invariant.                                                          *)

CallMoves(c) == CreateRun(c) \/ PostResume(c) \/ Step(c) \/ CallDies(c)

\* A call's step leaves every other call's object and place alone.
LEMMA OthersUntouched ==
  ASSUME TypeOK, NEW c \in Calls, CallMoves(c), NEW d \in Calls, d # c
  PROVE  mem'[d] = mem[d] /\ pc'[d] = pc[d] /\ cur'[d] = cur[d] /\ future'[d] = future[d]
BY DEF TypeOK, CallMoves, Step, CreateRun, PostResume, LoadRun, ResumeAt, Reopen,
       SkipNode, EnterNode, NoHandler, FailNode, Attempt, Timeout, HandlerRaised,
       HandlerReturned, HandlerGated, Pause, GiveUp, Advance, Trip, TripSkip,
       CircuitBroken, Finish, FinalSave, Refuse, Announce, CallDies, Save, At, Goto,
       walk

\* The only threads a call's step adds are those of the node it is at.
LEMMA ThreadsOf ==
  ASSUME NEW c \in Calls, CallMoves(c), NEW t \in (queued \cup running \cup begun)'
  PROVE  \/ t \in queued \cup running \cup begun
         \/ pc[c] = "retry" /\ t.call = c /\ t.node = cur[c]
BY DEF CallMoves, Step, CreateRun, PostResume, LoadRun, ResumeAt, Reopen,
       SkipNode, EnterNode, NoHandler, Attempt, Timeout, HandlerRaised,
       HandlerReturned, HandlerGated, Pause, GiveUp, Advance, Trip, TripSkip,
       CircuitBroken, Finish, FinalSave, Refuse, Announce, CallDies, At, pool

LEMMA Frame ==
  ASSUME TypeOK, plan' = plan, NEW d \in Calls, WalkInv(d),
         mem'[d] = mem[d], pc'[d] = pc[d], cur'[d] = cur[d],
         future'[d] = "gate" => plan.capable
  PROVE  WalkInv(d)'
<1>1. Nodes' = Nodes /\ Fresh' = Fresh /\ Failed(mem[d])' = Failed(mem[d])
  BY Constants, PrimedFailed
<1>2. QED
  BY <1>1 DEF WalkInv, WalkBase, WalkOpen, WalkAtNode, WalkAfter, WalkTrip, Ended

LEMMA DiskFrame ==
  ASSUME TypeOK, plan' = plan, disk' = disk, DiskInv
  PROVE  DiskInv'
BY Constants DEF DiskInv, Resumable, Ended, Failed

\* What a call keeps of its object is enough for its threads.
LEMMA ThreadKept ==
  ASSUME TypeOK, plan' = plan, NEW t \in queued \cup running \cup begun, ThreadInv,
         Kept(t.call)
  PROVE  /\ pc'[t.call] \notin {"new", "load"}
         /\ \A d \in plan'.deps[t.node] : mem'[t.call].status[d] = "succeeded"
<1>1. t.call \in Calls /\ t.node \in Nodes
  BY DEF TypeOK, Thread
<1>2. \A d \in plan.deps[t.node] : d \in Nodes
  BY <1>1, PlanFacts DEF TypeOK
<1>3. QED  BY <1>1, <1>2 DEF ThreadInv, Kept

LEMMA CallInv ==
  ASSUME IInv, TypeOK', plan' = plan, NEW c \in Calls, CallMoves(c)
  PROVE  IInv'
<1>1. StepOk(c)
  BY CallStep DEF IInv, CallMoves
<1>2. \A d \in Calls : WalkInv(d)' /\ Kept(d)
  <2>1. TAKE d \in Calls
  <2>2. CASE d = c
    BY <1>1, <2>2 DEF StepOk
  <2>3. CASE d # c
    <3>1. mem'[d] = mem[d] /\ pc'[d] = pc[d] /\ cur'[d] = cur[d] /\ future'[d] = future[d]
      BY <2>3, OthersUntouched DEF IInv
    <3>2. WalkInv(d)'
      BY <3>1, Frame DEF IInv, WalkInv
    <3>3. QED  BY <3>1, <3>2 DEF Kept
  <2>4. QED  BY <2>2, <2>3
<1>3. ThreadInv'
  <2> SUFFICES ASSUME NEW t \in (queued \cup running \cup begun)'
               PROVE  /\ pc'[t.call] \notin {"new", "load"}
                      /\ \A d \in plan'.deps[t.node] :
                           mem'[t.call].status[d] = "succeeded"
    BY DEF ThreadInv
  <2>1. CASE t \in queued \cup running \cup begun
    <3>1. t.call \in Calls
      BY <2>1 DEF IInv, TypeOK, Thread
    <3>2. Kept(t.call)
      BY <1>2, <3>1
    <3>3. QED  BY <2>1, <3>2, ThreadKept DEF IInv
  <2>2. CASE pc[c] = "retry" /\ t.call = c /\ t.node = cur[c]
    <3>1. WalkAtNode(c)
      BY <2>2 DEF IInv, WalkInv
    <3>2. Kept(c) /\ \A d \in plan.deps[cur[c]] : d \in Nodes
      BY <1>1, <3>1, PlanFacts DEF StepOk, IInv, TypeOK, WalkAtNode
    <3>3. QED  BY <2>2, <3>1, <3>2 DEF Kept, WalkAtNode
  <2>3. QED  BY <2>1, <2>2, ThreadsOf
<1>4. QED  BY <1>1, <1>2, <1>3 DEF IInv, StepOk

\* Steps of the pool, and crashes, leave every object alone.
LEMMA PoolInv ==
  ASSUME IInv, TypeOK', plan' = plan, UNCHANGED <<disk, mem, cur>>,
         \A c \in Calls : /\ pc'[c] = pc[c] \/ pc'[c] = "dead"
                          /\ future'[c] = "gate" => plan.capable,
         (queued \cup running \cup begun)' \subseteq queued \cup running \cup begun
  PROVE  IInv'
<1>1. \A c \in Calls : WalkInv(c)' /\ Kept(c)
  <2>1. TAKE c \in Calls
  <2>2. Kept(c)
    BY DEF Kept
  <2>3. CASE pc'[c] = pc[c]
    BY <2>2, <2>3, Frame DEF IInv
  <2>4. CASE pc'[c] = "dead"
    BY <2>2, <2>4 DEF WalkInv, InWalk, Open
  <2>5. QED  BY <2>3, <2>4
<1>2. ThreadInv'
  <2> SUFFICES ASSUME NEW t \in queued \cup running \cup begun
               PROVE  /\ pc'[t.call] \notin {"new", "load"}
                      /\ \A d \in plan'.deps[t.node] :
                           mem'[t.call].status[d] = "succeeded"
    BY DEF ThreadInv
  <2>1. Kept(t.call)
    BY <1>1 DEF IInv, TypeOK, Thread
  <2>2. QED  BY <2>1, ThreadKept DEF IInv
<1>3. DiskInv'
  BY DiskFrame DEF IInv
<1>4. QED  BY <1>1, <1>2, <1>3 DEF IInv

LEMMA InvStep == IInv /\ [Next]_vars => IInv'
<1> SUFFICES ASSUME IInv, [Next]_vars PROVE IInv'
  OBVIOUS
<1>1. TypeOK' /\ plan' = plan
  BY TypeStep, PlanConstant DEF IInv
<1>2. \A c \in Calls : future[c] = "gate" => plan.capable
  BY DEF IInv, WalkInv
<1>3. ASSUME NEW c \in Calls, CallMoves(c) PROVE IInv'
  BY <1>1, <1>3, CallInv
<1>4. ASSUME NEW t \in queued, StartThread(t) PROVE IInv'
  <2>1. /\ UNCHANGED <<disk, mem, cur, pc, future>>
        /\ (queued \cup running \cup begun)' \subseteq queued \cup running \cup begun
    BY <1>4 DEF StartThread, walk
  <2>2. QED  BY <1>1, <1>2, <2>1, PoolInv
<1>5. ASSUME NEW t \in running, NEW o \in {"ok", "error", "gate"}, ThreadEnds(t, o)
      PROVE  IInv'
  <2>1. /\ UNCHANGED <<disk, mem, cur, pc>>
        /\ (queued \cup running \cup begun)' \subseteq queued \cup running \cup begun
    BY <1>5 DEF ThreadEnds
  <2>2. o = "gate" => plan.capable
    BY <1>5, PlanFacts DEF ThreadEnds, IInv, TypeOK
  <2>3. \A c \in Calls : future'[c] = future[c] \/ future'[c] = o
    BY <1>5 DEF ThreadEnds, IInv, TypeOK
  <2>4. QED  BY <1>1, <1>2, <2>1, <2>2, <2>3, PoolInv
<1>6. ASSUME Crash PROVE IInv'
  <2>1. /\ UNCHANGED <<disk, mem, cur, future>>
        /\ \A c \in Calls : pc'[c] = pc[c] \/ pc'[c] = "dead"
        /\ (queued \cup running \cup begun)' \subseteq queued \cup running \cup begun
    BY <1>6 DEF Crash, walk
  <2>2. QED  BY <1>1, <1>2, <2>1, PoolInv
<1>7. ASSUME UNCHANGED vars PROVE IInv'
  <2>1. UNCHANGED <<disk, mem, cur, pc, future, queued, running, begun>>
    BY <1>7 DEF vars, walk, pool
  <2>2. QED  BY <1>1, <1>2, <2>1, PoolInv
<1>8. QED
  BY <1>3, <1>4, <1>5, <1>6, <1>7 DEF Next, CallMoves

LEMMA InvInit == Init => IInv
<1> SUFFICES ASSUME Init PROVE IInv
  OBVIOUS
<1>1. TypeOK
  BY TypeInit
<1>2. disk.overall = "absent" /\ disk.pending = 0
  BY DEF Init, NoRun, Fresh
<1>3. \A c \in Calls : WalkInv(c)
  BY DEF Init, WalkInv, InWalk, Open
<1>4. QED  BY <1>1, <1>2, <1>3 DEF Init, IInv, DiskInv, ThreadInv, Terminal

LEMMA Invariant == Spec => []IInv
BY InvInit, InvStep, PTL DEF Spec

\* The file never says "completed" (that is: no node is FAILED) while a node
\* was skipped or left in flight, whatever overlaps, hangs or crashes.
THEOREM CompletedIsComplete == Spec => []CompletedMeansAllSucceeded
<1>1. IInv => CompletedMeansAllSucceeded
  BY DEF IInv, DiskInv, Ended, Terminal, CompletedMeansAllSucceeded
<1>2. QED  BY <1>1, Invariant, PTL

\* A finished run's verdict, failure counter and node statuses agree.
THEOREM OutcomeIsConsistent == Spec => []OutcomeMatchesNodes
<1>1. IInv => OutcomeMatchesNodes
  BY DEF IInv, DiskInv, Ended, OutcomeMatchesNodes
<1>2. QED  BY <1>1, Invariant, PTL

\* Whatever file says that the run waits for a human can be resumed from.
THEOREM PausedCanResume == Spec => []PauseIsResumable
<1>1. IInv => PauseIsResumable
  <2> SUFFICES ASSUME IInv PROVE PauseIsResumable
    OBVIOUS
  <2>1. disk.overall = "awaiting_human_input" => disk.pending \in Nodes /\ disk.pending # 0
    BY PlanFacts DEF IInv, TypeOK, DiskInv, Resumable, Nodes
  <2>2. QED  BY <2>1 DEF IInv, DiskInv, Resumable, PauseIsResumable
<1>2. QED  BY <1>1, Invariant, PTL

\* Every handler that ever starts, in an abandoned thread or after a resume
\* too, finds the nodes it depends on succeeded.
THEOREM HandlersFindDependencies == Spec => []DependenciesFirst
<1>1. IInv => DependenciesFirst
  BY DEF IInv, ThreadInv, DependenciesFirst
<1>2. QED  BY <1>1, Invariant, PTL

-----------------------------------------------------------------------------
(***************************************************************************)
(* What a client sees of a run, for every set of plans, every number of    *)
(* calls, every pool size and every number of faults: the answer of an     *)
(* action run, its announcement, the attempts made at its nodes, and the   *)
(* life RunLife allows.                                                    *)
(*                                                                         *)
(* Most of it holds only as long as no two calls walk the run at once      *)
(* (~overlapped).  Then the file is that of the one active call, and the   *)
(* invariant says where that call is from what the file claims (AloneInv), *)
(* and that a later call works on later nodes (BudgetInv).                 *)
(***************************************************************************)

\* The places of a walk that has reopened its run.
Walks == {"visit", "retry", "wait", "after", "pause", "trip", "final"}
Paused == disk.overall = "awaiting_human_input"
Threads == queued \cup running \cup begun

\* Before the run is created there is nothing.
BornInv ==
  pc[Execute] = "new" =>
    /\ disk = NoRun /\ notices = 0 /\ Threads = {}
    /\ \A c \in Calls : pc[c] = "new"

\* An action run whose walk came to its end has its answer, and it was announced.
Answered(s) ==
  IF plan.actions = {} THEN s.answer = "none"
  ELSE s.answer # "none" /\ notices >= 1

AnswerOf(c) ==
  /\ pc[c] \in InWalk => mem[c].answer = "none"
  /\ pc[c] = "final" => plan.capable /\ Answered(mem[c])

DiskAnswer ==
  /\ Paused => disk.answer = "none"
  /\ disk.overall \in {"completed", "failed"} => Answered(disk)
  /\ disk.overall = "circuit_broken" => disk.answer = "none"

AnswerInv == DiskAnswer /\ \A c \in Calls : AnswerOf(c)

\* As long as no two calls overlap.
AloneOf(c) ==
  /\ pc[c] \in {"load", "reopen"} => Paused
  /\ pc[c] \in Walks => disk.overall = Fresh.overall /\ disk.answer = "none"
  /\ pc[c] = "announce" => disk.overall = "no_capability"
  /\ notices # 0 /\ Active(c) => pc[c] = "final"

AloneInv ==
  ~overlapped =>
    /\ \A c, d \in Calls : Active(c) /\ Active(d) => c = d
    /\ \A c \in Calls : AloneOf(c)
    /\ notices <= 1
    /\ notices # 0 => ~Paused /\ disk.overall # "circuit_broken"

\* A node that waits for a human is one that may, and threads are numbered
\* within the retries of their node.
GateInv ==
  /\ \A t \in Threads : t.attempt \in 1..plan.retries[t.node]
  /\ \A c \in Calls :
       /\ pc[c] = "pause" => cur[c] \in plan.gated
       /\ pc[c] = "wait" /\ future[c] = "gate" => cur[c] \in plan.gated

\* A call works on nodes that no earlier call has got to, except the gated
\* node at which the earlier one stopped.
LaterOf(c) ==
  pc[c] \in Walks \cup {"reopen"} =>
    \A t \in Threads :
      /\ t.node <= cur[c]
      /\ t.call # c => t.node < cur[c] \/ t.node \in plan.gated

BudgetInv ==
  ~overlapped =>
    /\ Paused => /\ disk.pending \in plan.gated
                 /\ \A t \in Threads : t.node <= disk.pending
    /\ \A c \in Calls : LaterOf(c)
    /\ \A t, u \in Threads :
         t.node = u.node /\ t.node \notin plan.gated => t.call = u.call

LInv == IInv /\ BornInv /\ AnswerInv /\ AloneInv /\ GateInv /\ BudgetInv

-----------------------------------------------------------------------------
(* What the steps of a call do to what LInv is about.                      *)

\* The steps of the walk itself, between the reopening of the run and its end.
Turn(c) ==
  \/ SkipNode(c) \/ EnterNode(c) \/ NoHandler(c) \/ Attempt(c)
  \/ Timeout(c) \/ HandlerRaised(c) \/ HandlerReturned(c) \/ HandlerGated(c)
  \/ GiveUp(c) \/ Advance(c) \/ Trip(c) \/ TripSkip(c)

LEMMA MarkAnswer ==
  ASSUME TypeOK, NEW c \in Calls, NEW n \in Nodes, NEW st \in Status
  PROVE  /\ Mark(c, n, st).overall = mem[c].overall
         /\ Mark(c, n, st).answer = mem[c].answer
BY DEF TypeOK, Mark, Snapshot

\* The object a call writes keeps its verdict and its answer.
SameClaim(c) ==
  /\ mem'[c].overall = mem[c].overall /\ mem'[c].answer = mem[c].answer
  /\ \/ disk' = disk
     \/ disk'.overall = mem[c].overall /\ disk'.answer = mem[c].answer

LEMMA SaveMarkClaim ==
  ASSUME TypeOK, NEW c \in Calls, NEW n \in Nodes, NEW st \in Status,
         Save(c, Mark(c, n, st))
  PROVE  SameClaim(c)
<1>1. mem'[c] = Mark(c, n, st) /\ disk' = Mark(c, n, st)
  BY DEF TypeOK, Save
<1>2. QED  BY <1>1, MarkAnswer DEF SameClaim

LEMMA FailClaim ==
  ASSUME TypeOK, NEW c \in Calls, cur[c] \in Nodes, FailNode(c)
  PROVE  SameClaim(c)
<1> DEFINE s == Mark(c, cur[c], "failed")
<1>1. s \in Snapshot /\ s.overall = mem[c].overall /\ s.answer = mem[c].answer
  BY MarkType, MarkAnswer DEF Status
<1>2. disk' = s /\ mem'[c] = [s EXCEPT !.failures = @ + 1]
  BY DEF FailNode, TypeOK
<1>3. QED
  <2> HIDE DEF s
  <2> QED  BY <1>1, <1>2 DEF Snapshot, SameClaim

LEMMA GatedClaim ==
  ASSUME TypeOK, NEW c \in Calls, cur[c] \in Nodes, HandlerGated(c)
  PROVE  SameClaim(c)
<1> DEFINE s == Mark(c, cur[c], "awaiting_input")
<1>1. s \in Snapshot /\ s.overall = mem[c].overall /\ s.answer = mem[c].answer
  BY MarkType, MarkAnswer DEF Status
<1>2. PICK fs \in SUBSET Fields : mem' = [mem EXCEPT ![c] = Gated(c, cur[c], fs)]
  BY DEF HandlerGated
<1>3. disk' = s /\ mem'[c] = [s EXCEPT !.pending = cur[c], !.wanted = fs]
  BY <1>2 DEF HandlerGated, TypeOK, Gated
<1>4. QED
  <2> HIDE DEF s
  <2> QED  BY <1>1, <1>3 DEF Snapshot, SameClaim

LEMMA TurnClaim ==
  ASSUME TypeOK, NEW c \in Calls, Turn(c)
  PROVE  SameClaim(c)
<1>1. CASE EnterNode(c) \/ Timeout(c) \/ HandlerRaised(c) \/ Advance(c) \/ Trip(c)
  BY <1>1 DEF EnterNode, Timeout, HandlerRaised, Advance, Trip, SameClaim
<1>2. CASE SkipNode(c) \/ Attempt(c) \/ HandlerReturned(c)
  <2>1. cur[c] \in Nodes
    BY <1>2, Places DEF SkipNode, Attempt, HandlerReturned, At, TypeOK
  <2>2. PICK st \in Status : Save(c, Mark(c, cur[c], st))
    BY <1>2 DEF SkipNode, Attempt, HandlerReturned, Status
  <2>3. QED  BY <2>1, <2>2, SaveMarkClaim
<1>3. CASE NoHandler(c) \/ GiveUp(c)
  <2>1. cur[c] \in Nodes /\ FailNode(c)
    BY <1>3, Places DEF NoHandler, GiveUp, Admitted, At, TypeOK
  <2>2. QED  BY <2>1, FailClaim
<1>4. CASE HandlerGated(c)
  BY <1>4, GatedClaim DEF HandlerGated, At, TypeOK
<1>5. CASE TripSkip(c)
  <2>1. PICK n \in Nodes : Save(c, Mark(c, n, "skipped"))
    BY <1>5 DEF TripSkip, Unvisited
  <2>2. QED  BY <2>1, SaveMarkClaim DEF Status
<1>6. QED  BY <1>1, <1>2, <1>3, <1>4, <1>5 DEF Turn

\* Where a turn leaves the call.
LEMMA TurnPlace ==
  ASSUME TypeOK, NEW c \in Calls, Turn(c)
  PROVE  /\ pc[c] \in Walks \ {"final", "pause"} /\ pc'[c] \in Walks \ {"final"}
         /\ cur'[c] \in Nat /\ cur'[c] >= cur[c]
         /\ UNCHANGED <<plan, notices, overlapped, running, begun>>
<1>1. cur \in [Calls -> Nat \ {0}] /\ pc = [d \in Calls |-> pc[d]]
  BY DEF TypeOK
<1>2. CASE SkipNode(c) \/ EnterNode(c) \/ NoHandler(c)
  BY <1>1, <1>2 DEF SkipNode, EnterNode, NoHandler, Admitted, At, Goto, walk, env, pool, Walks
<1>3. CASE Attempt(c) \/ Timeout(c) \/ HandlerRaised(c) \/ HandlerReturned(c)
  BY <1>1, <1>3 DEF Attempt, Timeout, HandlerRaised, HandlerReturned, At, Goto, walk, env,
     pool, Walks
<1>4. CASE HandlerGated(c) \/ GiveUp(c) \/ TripSkip(c)
  BY <1>1, <1>4 DEF HandlerGated, GiveUp, TripSkip, At, Goto, walk, env, pool, Walks
<1>5. CASE Advance(c)
  BY <1>1, <1>5 DEF Advance, At, Goto, walk, env, pool, Walks
<1>6. CASE Trip(c)
  BY <1>1, <1>6 DEF Trip, At, Goto, walk, env, pool, Walks
<1>7. QED  BY <1>2, <1>3, <1>4, <1>5, <1>6 DEF Turn

LEMMA CallCases ==
  ASSUME NEW c \in Calls, CallMoves(c)
  PROVE  \/ CreateRun(c) \/ PostResume(c) \/ LoadRun(c) \/ Reopen(c) \/ Turn(c)
         \/ Pause(c) \/ CircuitBroken(c) \/ Finish(c) \/ FinalSave(c)
         \/ Refuse(c) \/ Announce(c) \/ CallDies(c)
BY DEF CallMoves, Step, Turn

LEMMA CreateEffect ==
  ASSUME TypeOK, NEW c \in Calls, CreateRun(c)
  PROVE  /\ c = Execute /\ pc[c] = "new" /\ pc'[c] = "visit"
         /\ mem'[c] = Fresh /\ disk' = Fresh
         /\ UNCHANGED <<cur, notices, overlapped, queued, running, begun>>
BY DEF TypeOK, CreateRun, Save, At, Goto, walk, env, pool

LEMMA ResumeEffect ==
  ASSUME TypeOK, NEW c \in Calls, PostResume(c)
  PROVE  /\ c # Execute /\ pc[c] = "new" /\ pc'[c] = "load" /\ Paused
         /\ overlapped' = (overlapped \/ \E d \in Calls : Active(d))
         /\ UNCHANGED <<disk, mem, cur, notices, queued, running, begun>>
BY DEF TypeOK, PostResume, At, Goto, walk, pool, Paused

LEMMA LoadEffect ==
  ASSUME TypeOK, NEW c \in Calls, LoadRun(c)
  PROVE  /\ pc[c] = "load"
         /\ \/ /\ pc'[c] = "reopen" /\ Paused /\ cur'[c] = disk.pending
               /\ mem'[c].answer = disk.answer
            \/ pc'[c] = "done"
         /\ UNCHANGED <<disk, notices, overlapped, queued, running, begun>>
<1>1. Resumed(c).answer = disk.answer
  BY DEF Resumed, TypeOK, Snapshot
<1>2. QED  BY <1>1 DEF TypeOK, LoadRun, ResumeAt, At, Goto, env, pool, Paused

LEMMA ReopenEffect ==
  ASSUME TypeOK, NEW c \in Calls, Reopen(c)
  PROVE  /\ pc[c] = "reopen" /\ pc'[c] = "visit"
         /\ mem'[c] = mem[c] /\ disk' = mem[c]
         /\ UNCHANGED <<cur, notices, overlapped, queued, running, begun>>
BY DEF TypeOK, Reopen, Save, At, Goto, walk, env, pool

LEMMA PauseEffect ==
  ASSUME TypeOK, NEW c \in Calls, Pause(c)
  PROVE  /\ pc[c] = "pause" /\ pc'[c] = "done"
         /\ disk'.overall = "awaiting_human_input"
         /\ disk'.answer = mem[c].answer /\ disk'.pending = mem[c].pending
         /\ UNCHANGED <<cur, notices, overlapped, queued, running, begun>>
BY DEF TypeOK, Snapshot, Pause, Save, At, Goto, walk, env, pool

LEMMA BrokenEffect ==
  ASSUME TypeOK, NEW c \in Calls, CircuitBroken(c)
  PROVE  /\ pc[c] = "trip" /\ pc'[c] = "done"
         /\ disk'.overall = "circuit_broken" /\ disk'.answer = mem[c].answer
         /\ UNCHANGED <<cur, notices, overlapped, queued, running, begun>>
BY DEF TypeOK, Snapshot, CircuitBroken, Save, At, Goto, walk, env, pool

LEMMA FinishEffect ==
  ASSUME TypeOK, NEW c \in Calls, Finish(c)
  PROVE  /\ pc[c] = "visit" /\ pc'[c] = "final" /\ plan.capable
         /\ mem'[c].overall \in {"completed", "failed"}
         /\ mem'[c].answer = ActionAnswer(c)
         /\ notices' = IF plan.actions = {} THEN notices ELSE notices + 1
         /\ UNCHANGED <<disk, cur, overlapped, queued, running, begun>>
<1>1. /\ Judged(c).overall \in {"completed", "failed"}
      /\ Judged(c).answer = ActionAnswer(c)
  BY DEF Judged, Verdict, TypeOK, Snapshot
<1>2. mem'[c] = Judged(c)
  BY DEF Finish, TypeOK
<1>3. QED  BY <1>1, <1>2 DEF TypeOK, Finish, At, Goto, walk, env, pool

LEMMA FinalEffect ==
  ASSUME TypeOK, NEW c \in Calls, FinalSave(c)
  PROVE  /\ pc[c] = "final" /\ pc'[c] = "done" /\ disk' = mem[c] /\ mem'[c] = mem[c]
         /\ UNCHANGED <<cur, notices, overlapped, queued, running, begun>>
BY DEF TypeOK, FinalSave, Save, At, Goto, walk, env, pool

LEMMA RefuseEffect ==
  ASSUME TypeOK, NEW c \in Calls, Refuse(c)
  PROVE  /\ pc[c] = "visit" /\ pc'[c] = "announce" /\ ~plan.capable
         /\ disk'.overall = "no_capability" /\ disk'.answer = "unsupported"
         /\ UNCHANGED <<cur, notices, overlapped, queued, running, begun>>
BY DEF TypeOK, Snapshot, Refuse, Save, At, Goto, walk, env, pool

LEMMA AnnounceEffect ==
  ASSUME TypeOK, NEW c \in Calls, Announce(c)
  PROVE  /\ pc[c] = "announce" /\ pc'[c] = "done" /\ notices' = notices + 1
         /\ UNCHANGED <<disk, cur, overlapped, queued, running, begun>>
BY DEF TypeOK, Announce, At, Goto, walk, env, pool

LEMMA DiesEffect ==
  ASSUME TypeOK, NEW c \in Calls, CallDies(c)
  PROVE  /\ Active(c) /\ pc'[c] = "dead"
         /\ UNCHANGED <<disk, cur, notices, overlapped, queued, running, begun>>
BY DEF TypeOK, CallDies, Goto, walk, pool

\* Only a request to resume takes a call from outside, and the creation.
LEMMA MovesActive ==
  ASSUME TypeOK, NEW c \in Calls, CallMoves(c)
  PROVE  CreateRun(c) \/ PostResume(c) \/ Active(c)
BY CallCases, TurnPlace, LoadEffect, ReopenEffect, PauseEffect, BrokenEffect, FinishEffect,
   FinalEffect, RefuseEffect, AnnounceEffect, DiesEffect DEF Active, Walks

-----------------------------------------------------------------------------
(* The parts of LInv, over a step of one call.                             *)

LEMMA BornCall ==
  ASSUME TypeOK, BornInv, plan' = plan, NEW c \in Calls, CallMoves(c)
  PROVE  BornInv'
<1> SUFFICES ASSUME pc'[Execute] = "new" PROVE FALSE
  BY DEF BornInv
<1>1. pc'[c] # "new"
  BY CallCases, TurnPlace, CreateEffect, ResumeEffect, LoadEffect, ReopenEffect,
     PauseEffect, BrokenEffect, FinishEffect, FinalEffect, RefuseEffect, AnnounceEffect,
     DiesEffect DEF Walks
<1>2. pc[Execute] = "new"
  BY <1>1, OthersUntouched, CallsAssumption
<1>3. disk.overall = "absent" /\ \A d \in Calls : pc[d] = "new"
  BY <1>2 DEF BornInv, NoRun, Fresh
<1>4. CreateRun(c)
  BY <1>3, MovesActive, ResumeEffect DEF Active, Paused
<1>5. QED  BY <1>1, <1>2, <1>4, CreateEffect

\* What the file or an object claims stays true while notices are only added.
LEMMA AnsweredKept ==
  ASSUME TypeOK, plan' = plan, NEW s, Answered(s), notices' \in Nat, notices' >= notices,
         NEW r, r.answer = s.answer
  PROVE  Answered(r)'
BY DEF Answered, TypeOK

LEMMA AnswerCall ==
  ASSUME IInv, AnswerInv, plan' = plan, NEW c \in Calls, CallMoves(c)
  PROVE  AnswerInv' /\ notices' \in Nat /\ notices' >= notices
<1>0. TypeOK
  BY DEF IInv
<1>1. /\ Fresh.overall \in {"running", "no_capability"} /\ Fresh.answer = "none"
      /\ plan.capable => Fresh.overall = "running"
      /\ Fresh' = Fresh /\ notices \in Nat
  BY <1>0, FreshFacts, Constants DEF TypeOK, Fresh
<1>2. WalkInv(c) /\ AnswerOf(c) /\ DiskAnswer
  BY DEF AnswerInv, IInv
<1>3. /\ notices' \in Nat /\ notices' >= notices
      /\ AnswerOf(c)'
      /\ \/ disk' = disk
         \/ disk'.overall \in {"running", "no_capability"}
         \/ disk'.overall = "circuit_broken" /\ disk'.answer = "none"
         \/ Paused' /\ disk'.answer = "none"
         \/ disk' = mem[c] /\ pc[c] = "final"
  <2> USE <1>0, <1>1, <1>2 DEF InWalk, Open
  <2>1. CASE CreateRun(c)
    BY <2>1, CreateEffect DEF AnswerOf
  <2>2. CASE PostResume(c) \/ CallDies(c)
    BY <1>1, <2>2, ResumeEffect, DiesEffect DEF AnswerOf, InWalk, Open
  <2>3. CASE LoadRun(c)
    BY <1>1, <1>2, <2>3, LoadEffect DEF AnswerOf, DiskAnswer, InWalk, Open
  <2>4. CASE Reopen(c)
    <3>1. mem[c].overall = Fresh.overall /\ mem[c].answer = "none"
      BY <1>2, <2>4, ReopenEffect DEF WalkInv, WalkBase, AnswerOf, InWalk, Open
    <3>2. QED  BY <1>1, <2>4, <3>1, ReopenEffect DEF AnswerOf
  <2>5. CASE Turn(c)
    <3>1. pc[c] \in InWalk /\ pc'[c] # "final" /\ notices' = notices
      BY <2>5, TurnPlace DEF Walks, InWalk, Open
    <3>2. mem[c].overall = Fresh.overall /\ mem[c].answer = "none"
      BY <1>2, <3>1 DEF WalkInv, WalkBase, AnswerOf
    <3>3. QED  BY <1>1, <2>5, <3>1, <3>2, TurnClaim DEF AnswerOf, SameClaim
  <2>6. CASE Pause(c)
    BY <1>1, <1>2, <2>6, PauseEffect DEF AnswerOf, InWalk, Open, Paused
  <2>7. CASE CircuitBroken(c) \/ Refuse(c) \/ Announce(c)
    BY <1>1, <2>7, BrokenEffect, RefuseEffect, AnnounceEffect DEF AnswerOf, InWalk, Open
  <2>8. CASE Finish(c)
    <3>1. mem[c].answer = "none"
      BY <1>2, <2>8, FinishEffect DEF AnswerOf, InWalk, Open
    <3>2. Answered(mem[c])'
      BY <1>1, <2>8, <3>1, FinishEffect DEF Answered, ActionAnswer
    <3>3. QED  BY <1>1, <2>8, <3>2, FinishEffect DEF AnswerOf, InWalk, Open
  <2>9. CASE FinalSave(c)
    BY <1>1, <2>9, FinalEffect DEF AnswerOf, InWalk, Open
  <2>10. QED
    BY <2>1, <2>2, <2>3, <2>4, <2>5, <2>6, <2>7, <2>8, <2>9, CallCases
<1>4. \A d \in Calls : AnswerOf(d)'
  <2>1. TAKE d \in Calls
  <2>2. CASE d # c
    <3>1. mem'[d] = mem[d] /\ pc'[d] = pc[d] /\ AnswerOf(d)
      BY <1>0, <2>2, OthersUntouched DEF AnswerInv
    <3>2. pc[d] = "final" => Answered(mem[d])'
      BY <1>0, <1>3, <3>1, AnsweredKept DEF AnswerOf
    <3>3. QED  BY <3>1, <3>2 DEF AnswerOf
  <2>3. QED  BY <1>3, <2>2
<1>5. DiskAnswer'
  <2>1. CASE disk' = disk
    BY <1>0, <1>2, <1>3, <2>1, AnsweredKept DEF DiskAnswer, Paused
  <2>2. CASE disk' = mem[c] /\ pc[c] = "final"
    <3>1. mem[c].overall \in {"completed", "failed"} /\ Answered(mem[c])
      BY <1>2, <2>2 DEF WalkInv, AnswerOf
    <3>2. Answered(disk)'
      BY <1>0, <1>3, <2>2, <3>1, AnsweredKept
    <3>3. QED  BY <2>2, <3>1, <3>2 DEF DiskAnswer, Paused
  <2>3. QED  BY <1>3, <2>1, <2>2 DEF DiskAnswer, Paused
<1>6. QED  BY <1>3, <1>4, <1>5 DEF AnswerInv

\* As long as there is no overlap, a call that moves is the only active one,
\* before and after its step.
LEMMA Alone ==
  ASSUME IInv, BornInv, AloneInv, plan' = plan, NEW c \in Calls, CallMoves(c), ~overlapped'
  PROVE  /\ ~overlapped
         /\ CreateRun(c) => \A d \in Calls : pc[d] = "new"
         /\ \A d \in Calls : Active(d) \/ Active(d)' => d = c
<1>0. TypeOK
  BY DEF IInv
<1>1. overlapped' = overlapped \/ (PostResume(c) /\ overlapped' =
         (overlapped \/ \E d \in Calls : Active(d)))
  BY <1>0, CallCases, TurnPlace, CreateEffect, ResumeEffect, LoadEffect, ReopenEffect,
     PauseEffect, BrokenEffect, FinishEffect, FinalEffect, RefuseEffect, AnnounceEffect,
     DiesEffect
<1>2. CreateRun(c) => \A d \in Calls : pc[d] = "new"
  BY <1>0, CreateEffect DEF BornInv
<1>3. ~overlapped
  <2>1. overlapped \in BOOLEAN /\ overlapped' \in BOOLEAN
    BY <1>0, <1>1 DEF TypeOK
  <2>2. QED  BY <1>1, <2>1
<1>4. \A d \in Calls : Active(d) => d = c
  <2>1. CASE CreateRun(c)
    BY <1>2, <2>1 DEF Active
  <2>2. CASE PostResume(c)
    <3>1. overlapped' = (overlapped \/ \E d \in Calls : Active(d))
      BY <1>0, <2>2, ResumeEffect
    <3>2. ~(\E d \in Calls : Active(d))
      BY <1>3, <3>1
    <3>3. QED  BY <3>2
  <2>3. CASE Active(c)
    BY <1>3, <2>3 DEF AloneInv
  <2>4. QED  BY <1>0, <2>1, <2>2, <2>3, MovesActive
<1>5. \A d \in Calls : Active(d)' => d = c
  BY <1>0, <1>4, OthersUntouched DEF Active
<1>6. QED  BY <1>2, <1>3, <1>4, <1>5

LEMMA AloneCall ==
  ASSUME IInv, BornInv, AnswerInv, AloneInv, plan' = plan, NEW c \in Calls, CallMoves(c)
  PROVE  AloneInv'
<1> SUFFICES ASSUME ~overlapped' PROVE AloneInv'
  BY DEF AloneInv
<1>0. TypeOK
  BY DEF IInv
<1>1. /\ Fresh.overall \in {"running", "no_capability"} /\ Fresh.answer = "none"
      /\ ~plan.capable => Fresh.overall = "no_capability"
      /\ Fresh' = Fresh /\ notices \in Nat
  BY <1>0, FreshFacts, Constants DEF TypeOK, Fresh
<1>2. /\ ~overlapped
      /\ CreateRun(c) => \A d \in Calls : pc[d] = "new"
      /\ \A d \in Calls : Active(d) \/ Active(d)' => d = c
  BY Alone
<1>3. /\ WalkInv(c) /\ AnswerOf(c) /\ AloneOf(c) /\ notices <= 1
      /\ notices # 0 => ~Paused /\ disk.overall # "circuit_broken"
  BY <1>2 DEF IInv, AnswerInv, AloneInv
<1>4. /\ AloneOf(c)' /\ notices' <= 1
      /\ notices' # 0 => ~Paused' /\ disk'.overall # "circuit_broken"
  <2> USE <1>0, <1>1, <1>3
  <2>1. CASE CreateRun(c)
    <3>1. notices = 0
      BY <2>1, CreateEffect DEF BornInv
    <3>2. QED  BY <2>1, <3>1, CreateEffect DEF AloneOf, Paused
  <2>2. CASE PostResume(c)
    BY <2>2, ResumeEffect DEF AloneOf, Paused, Walks
  <2>3. CASE LoadRun(c)
    BY <2>3, LoadEffect DEF AloneOf, Paused, Walks, Active
  <2>4. CASE Reopen(c)
    <3>1. mem[c].overall = Fresh.overall /\ mem[c].answer = "none"
      BY <2>4, ReopenEffect DEF WalkInv, WalkBase, AnswerOf, InWalk, Open
    <3>2. notices = 0
      BY <2>4, ReopenEffect DEF AloneOf, Active
    <3>3. QED  BY <2>4, <3>1, <3>2, ReopenEffect DEF AloneOf, Paused
  <2>5. CASE Turn(c)
    <3>1. /\ pc[c] \in InWalk /\ pc'[c] \in Walks \ {"final"} /\ notices' = notices
          /\ pc[c] \in Walks /\ pc[c] # "final"
      BY <2>5, TurnPlace DEF Walks, InWalk, Open
    <3>2. mem[c].overall = Fresh.overall /\ mem[c].answer = "none"
      BY <3>1 DEF WalkInv, WalkBase, AnswerOf
    <3>3. disk.overall = Fresh.overall /\ disk.answer = "none" /\ notices = 0
      BY <3>1 DEF AloneOf, Active, Walks
    <3>4. disk'.overall = Fresh.overall /\ disk'.answer = "none"
      BY <2>5, <3>2, <3>3, TurnClaim DEF SameClaim
    <3>5. QED  BY <3>1, <3>3, <3>4 DEF AloneOf, Walks, Paused
  <2>6. CASE Pause(c)
    BY <2>6, PauseEffect DEF AloneOf, Active, Walks
  <2>7. CASE CircuitBroken(c)
    BY <2>7, BrokenEffect DEF AloneOf, Active, Walks
  <2>8. CASE Finish(c)
    <3>1. notices = 0 /\ disk.overall = Fresh.overall /\ disk.answer = "none"
      BY <2>8, FinishEffect DEF AloneOf, Active, Walks
    <3>2. notices' <= 1
      BY <2>8, <3>1, FinishEffect
    <3>3. QED  BY <2>8, <3>1, <3>2, FinishEffect DEF AloneOf, Paused
  <2>9. CASE FinalSave(c)
    BY <2>9, FinalEffect DEF AloneOf, Active, Walks, WalkInv, Paused
  <2>10. CASE Refuse(c)
    BY <2>10, RefuseEffect DEF AloneOf, Active, Walks
  <2>11. CASE Announce(c)
    <3>1. notices = 0 /\ disk.overall = "no_capability"
      BY <2>11, AnnounceEffect DEF AloneOf, Active
    <3>2. QED  BY <2>11, <3>1, AnnounceEffect DEF AloneOf, Active, Walks, Paused
  <2>12. CASE CallDies(c)
    BY <2>12, DiesEffect DEF AloneOf, Active, Walks, Paused
  <2>13. QED
    BY <2>1, <2>2, <2>3, <2>4, <2>5, <2>6, <2>7, <2>8, <2>9, <2>10, <2>11, <2>12,
       CallCases
<1>5. \A d \in Calls : AloneOf(d)'
  <2>1. TAKE d \in Calls
  <2>2. CASE d = c
    BY <1>4, <2>2
  <2>3. CASE d # c
    BY <1>2, <2>3 DEF AloneOf, Active, Walks
  <2>4. QED  BY <2>2, <2>3
<1>6. QED  BY <1>2, <1>4, <1>5 DEF AloneInv

\* The threads a call's step adds.
LEMMA NewThread ==
  ASSUME TypeOK, NEW c \in Calls, CallMoves(c), NEW t \in Threads'
  PROVE  \/ t \in Threads
         \/ /\ pc[c] = "retry" /\ pc'[c] = "wait" /\ cur'[c] = cur[c]
            /\ t.call = c /\ t.node = cur[c]
            /\ t.attempt = att[c] + 1 /\ att[c] < plan.retries[cur[c]]
<1>1. CASE Attempt(c)
  BY <1>1 DEF Attempt, Threads, At, Goto, TypeOK
<1>2. CASE ~Attempt(c)
  BY <1>2 DEF CallMoves, Step, CreateRun, PostResume, LoadRun, ResumeAt, Reopen,
       SkipNode, EnterNode, NoHandler, Timeout, HandlerRaised,
       HandlerReturned, HandlerGated, Pause, GiveUp, Advance, Trip, TripSkip,
       CircuitBroken, Finish, FinalSave, Refuse, Announce, CallDies, At, pool, Threads
<1>3. QED  BY <1>1, <1>2

LEMMA GateCall ==
  ASSUME IInv, GateInv, plan' = plan, NEW c \in Calls, CallMoves(c)
  PROVE  GateInv'
<1>0. TypeOK
  BY DEF IInv
<1>1. \A t \in Threads' : t.attempt \in 1..plan.retries[t.node]
  <2>1. TAKE t \in Threads'
  <2>2. CASE t \in Threads
    BY <2>2 DEF GateInv
  <2>3. CASE t \notin Threads
    <3>1. /\ pc[c] = "retry" /\ t.node = cur[c]
          /\ t.attempt = att[c] + 1 /\ att[c] < plan.retries[cur[c]]
      BY <1>0, <2>3, NewThread
    <3>2. att[c] \in Nat /\ plan.retries[cur[c]] \in Nat
      BY <1>0, <3>1, PlanFacts DEF TypeOK
    <3>3. QED  BY <3>1, <3>2
  <2>4. QED  BY <2>2, <2>3
<1>2. /\ pc'[c] = "pause" => cur'[c] \in plan.gated
      /\ pc'[c] = "wait" /\ future'[c] = "gate" => cur'[c] \in plan.gated
  <2>1. CASE HandlerGated(c)
    BY <1>0, <2>1 DEF HandlerGated, GateInv, At, Goto, walk, TypeOK
  <2>2. CASE Attempt(c)
    BY <1>0, <2>2 DEF Attempt, Goto, TypeOK
  <2>3. CASE ~HandlerGated(c) /\ ~Attempt(c)
    <3>1. pc'[c] \notin {"pause", "wait"}
      BY <1>0, <2>3 DEF TypeOK, CallMoves, Step, CreateRun, PostResume, LoadRun,
         ResumeAt, Reopen, SkipNode, EnterNode, NoHandler, Timeout, HandlerRaised,
         HandlerReturned, Pause, GiveUp, Advance, Trip, TripSkip,
         CircuitBroken, Finish, FinalSave, Refuse, Announce, CallDies, At, Goto
    <3>2. QED  BY <3>1
  <2>4. QED  BY <2>1, <2>2, <2>3
<1>3. QED
  BY <1>0, <1>1, <1>2, OthersUntouched DEF GateInv

LEMMA BudgetCall ==
  ASSUME IInv, BornInv, AloneInv, GateInv, BudgetInv, plan' = plan,
         NEW c \in Calls, CallMoves(c)
  PROVE  BudgetInv'
<1> SUFFICES ASSUME ~overlapped' PROVE BudgetInv'
  BY DEF BudgetInv
<1>0. TypeOK
  BY DEF IInv
<1>1. /\ ~overlapped
      /\ CreateRun(c) => \A d \in Calls : pc[d] = "new"
      /\ \A d \in Calls : Active(d) \/ Active(d)' => d = c
  BY Alone
<1>2. /\ WalkInv(c) /\ AloneOf(c) /\ LaterOf(c)
      /\ Paused => disk.pending \in plan.gated /\ \A t \in Threads : t.node <= disk.pending
      /\ \A t, u \in Threads :
           t.node = u.node /\ t.node \notin plan.gated => t.call = u.call
  BY <1>1 DEF IInv, AloneInv, BudgetInv
<1>3. /\ cur[c] \in Nat /\ cur'[c] \in Nat
      /\ \A t \in Threads : t.node \in Nat
      /\ Fresh.overall # "awaiting_human_input" /\ Fresh' = Fresh
  <2>1. cur[c] \in Nat /\ Fresh.overall # "awaiting_human_input"
    BY <1>0, FreshFacts DEF TypeOK
  <2>2. cur'[c] \in Nat
    <3>1. CASE LoadRun(c)
      BY <1>0, <3>1 DEF LoadRun, ResumeAt, TypeOK, Snapshot, Nodes
    <3>2. CASE ~LoadRun(c)
      BY <1>0, <2>1, <3>2, CallCases, TurnPlace, CreateEffect, ResumeEffect, ReopenEffect,
         PauseEffect, BrokenEffect, FinishEffect, FinalEffect, RefuseEffect,
         AnnounceEffect, DiesEffect
    <3>3. QED  BY <3>1, <3>2
  <2>3. \A t \in Threads : t.node \in Nat
    BY <1>0, PlanFacts DEF TypeOK, Threads, Thread
  <2>4. QED  BY <1>0, <2>1, <2>2, <2>3, Constants
<1>4. CreateRun(c) => Threads = {}
  BY <1>0, CreateEffect DEF BornInv
<1>5. Threads' = Threads \/ Turn(c)
  BY <1>0, CallCases, CreateEffect, ResumeEffect, LoadEffect, ReopenEffect, PauseEffect,
     BrokenEffect, FinishEffect, FinalEffect, RefuseEffect, AnnounceEffect, DiesEffect
     DEF Threads
<1>6. LaterOf(c)'
  <2> SUFFICES ASSUME pc'[c] \in Walks \cup {"reopen"}, NEW t \in Threads'
               PROVE  /\ t.node <= cur'[c]
                      /\ t.call # c => t.node < cur'[c] \/ t.node \in plan.gated
    BY DEF LaterOf
  <2>1. CASE CreateRun(c)
    BY <1>0, <1>4, <2>1, NewThread, CreateEffect
  <2>2. CASE LoadRun(c)
    <3>1. /\ pc[c] = "load" /\ Paused /\ cur'[c] = disk.pending
      BY <1>0, <2>2, LoadEffect DEF Walks
    <3>2. t \in Threads
      BY <1>0, <3>1, NewThread
    <3>3. QED  BY <1>2, <1>3, <3>1, <3>2
  <2>3. CASE ~CreateRun(c) /\ ~LoadRun(c)
    <3>1. pc[c] \in Walks \cup {"reopen"} /\ cur'[c] >= cur[c]
      <4>1. CASE Turn(c)
        BY <1>0, <4>1, TurnPlace
      <4>2. CASE ~Turn(c)
        <5>1. Reopen(c) \/ Finish(c)
          BY <1>0, <2>3, <4>2, CallCases, ResumeEffect, PauseEffect, BrokenEffect,
             FinalEffect, RefuseEffect, AnnounceEffect, DiesEffect DEF Walks
        <5>2. QED  BY <1>0, <1>3, <5>1, ReopenEffect, FinishEffect DEF Walks
      <4>3. QED  BY <4>1, <4>2
    <3>2. CASE t \in Threads
      BY <1>2, <1>3, <3>1, <3>2 DEF LaterOf
    <3>3. CASE t \notin Threads
      BY <1>0, <1>3, <3>3, NewThread
    <3>4. QED  BY <3>2, <3>3
  <2>4. QED  BY <2>1, <2>2, <2>3
<1>7. \A d \in Calls : LaterOf(d)'
  BY <1>1, <1>6 DEF LaterOf, Active, Walks
<1>8. Paused' => /\ disk'.pending \in plan.gated
                 /\ \A t \in Threads' : t.node <= disk'.pending
  <2> SUFFICES ASSUME Paused'
               PROVE  /\ disk'.pending \in plan.gated
                      /\ \A t \in Threads' : t.node <= disk'.pending
    OBVIOUS
  <2>1. CASE Turn(c)
    <3>1. pc[c] \in InWalk /\ pc[c] \in Walks
      BY <1>0, <2>1, TurnPlace DEF Walks, InWalk, Open
    <3>2. mem[c].overall = Fresh.overall /\ disk.overall = Fresh.overall
      BY <1>2, <3>1 DEF WalkInv, WalkBase, AloneOf
    <3>3. QED  BY <1>0, <1>3, <2>1, <3>2, TurnClaim DEF SameClaim, Paused
  <2>2. CASE Pause(c)
    <3>1. pc[c] = "pause" /\ disk'.pending = mem[c].pending /\ Threads' = Threads
      BY <1>0, <2>2, PauseEffect DEF Threads
    <3>2. mem[c].pending = cur[c] /\ cur[c] \in plan.gated
      BY <1>2, <3>1 DEF WalkInv, GateInv
    <3>3. QED  BY <1>2, <3>1, <3>2 DEF LaterOf, Walks
  <2>3. CASE disk' = disk /\ Threads' = Threads
    BY <1>2, <2>3 DEF Paused
  <2>4. CASE CreateRun(c) \/ Reopen(c) \/ CircuitBroken(c) \/ Refuse(c) \/ FinalSave(c)
    <3>1. Reopen(c) => mem[c].overall = Fresh.overall
      BY <1>0, <1>2, ReopenEffect DEF WalkInv, WalkBase, InWalk, Open
    <3>2. FinalSave(c) => mem[c].overall \in {"completed", "failed"}
      BY <1>0, <1>2, FinalEffect DEF WalkInv
    <3>3. QED
      BY <1>0, <1>3, <2>4, <3>1, <3>2, CreateEffect, ReopenEffect, BrokenEffect,
         RefuseEffect, FinalEffect DEF Paused
  <2>5. QED
    BY <1>0, <1>5, <2>1, <2>2, <2>3, <2>4, CallCases, ResumeEffect, LoadEffect,
       FinishEffect, AnnounceEffect, DiesEffect
<1>9. \A t, u \in Threads' :
        t.node = u.node /\ t.node \notin plan.gated => t.call = u.call
  <2> SUFFICES ASSUME NEW t \in Threads', NEW u \in Threads', t.node = u.node,
                      t.node \notin plan.gated, t.call # u.call
               PROVE  FALSE
    OBVIOUS
  <2>1. ASSUME NEW v \in Threads, pc[c] = "retry", v.node = cur[c], v.call # c
        PROVE  v.node \in plan.gated
    BY <1>2, <1>3, <2>1 DEF LaterOf, Walks
  <2>2. QED  BY <1>0, <1>2, <2>1, NewThread
<1>10. QED  BY <1>7, <1>8, <1>9 DEF BudgetInv

-----------------------------------------------------------------------------
(* Steps of the pool, and crashes, write nothing and only lose threads.    *)

LEMMA PoolLife ==
  ASSUME LInv, TypeOK', plan' = plan, UNCHANGED <<disk, mem, cur, notices, overlapped>>,
         Threads' \subseteq Threads,
         \A c \in Calls :
           /\ pc'[c] = pc[c] \/ (pc[c] # "new" /\ pc'[c] = "dead")
           /\ pc'[c] = "wait" /\ future'[c] = "gate" => cur[c] \in plan.gated
  PROVE  BornInv' /\ AnswerInv' /\ AloneInv' /\ GateInv' /\ BudgetInv'
<1>0. TypeOK /\ BornInv /\ AnswerInv /\ AloneInv /\ GateInv /\ BudgetInv
  BY DEF LInv, IInv
<1>1. Fresh' = Fresh /\ NoRun' = NoRun
  BY <1>0, Constants DEF NoRun
<1>2. BornInv'
  BY <1>0, <1>1, CallsAssumption DEF BornInv
<1>3. AnswerInv'
  BY <1>0 DEF AnswerInv, AnswerOf, DiskAnswer, Answered, Paused, InWalk, Open
<1>4. AloneInv'
  BY <1>0, <1>1 DEF AloneInv, AloneOf, Active, Paused, Walks
<1>5. GateInv'
  BY <1>0 DEF GateInv
<1>6. BudgetInv'
  BY <1>0 DEF BudgetInv, LaterOf, Paused, Walks
<1>7. QED  BY <1>2, <1>3, <1>4, <1>5, <1>6

LEMMA LifeStep == LInv /\ [Next]_vars => LInv'
<1> SUFFICES ASSUME LInv, [Next]_vars PROVE LInv'
  OBVIOUS
<1>1. IInv' /\ TypeOK /\ TypeOK' /\ plan' = plan
  BY InvStep, PlanConstant DEF LInv, IInv
<1>2. ASSUME NEW c \in Calls, CallMoves(c) PROVE LInv'
  BY <1>1, <1>2, BornCall, AnswerCall, AloneCall, GateCall, BudgetCall DEF LInv
<1>3. ASSUME NEW t \in queued, StartThread(t) PROVE LInv'
  <2>1. /\ UNCHANGED <<disk, mem, cur, pc, future, notices, overlapped>>
        /\ Threads' \subseteq Threads
    BY <1>3 DEF StartThread, walk, env, Threads
  <2>2. QED  BY <1>1, <2>1, PoolLife DEF LInv, GateInv
<1>4. ASSUME NEW t \in running, NEW o \in {"ok", "error", "gate"}, ThreadEnds(t, o)
      PROVE  LInv'
  <2>1. /\ UNCHANGED <<disk, mem, cur, pc, notices, overlapped>>
        /\ Threads' \subseteq Threads
    BY <1>4 DEF ThreadEnds, env, Threads
  <2>2. \A c \in Calls : pc'[c] = "wait" /\ future'[c] = "gate" => cur[c] \in plan.gated
    <3>1. TAKE c \in Calls
    <3>2. CASE future'[c] = future[c]
      BY <2>1, <3>2 DEF LInv, GateInv
    <3>3. CASE future'[c] # future[c]
      <4>1. future'[c] = o /\ t = Awaited(c)
        BY <1>1, <1>4, <3>3 DEF ThreadEnds, TypeOK
      <4>2. QED  BY <1>4, <4>1 DEF ThreadEnds, Awaited
    <3>4. QED  BY <3>2, <3>3
  <2>3. QED  BY <1>1, <2>1, <2>2, PoolLife DEF LInv
<1>5. ASSUME Crash PROVE LInv'
  <2>1. /\ UNCHANGED <<disk, mem, cur, future, notices, overlapped>>
        /\ Threads' \subseteq Threads
        /\ \A c \in Calls : pc'[c] = pc[c] \/ (pc[c] # "new" /\ pc'[c] = "dead")
    BY <1>5 DEF Crash, walk, Threads, Active
  <2>2. QED  BY <1>1, <2>1, PoolLife DEF LInv, GateInv
<1>6. ASSUME UNCHANGED vars PROVE LInv'
  <2>1. UNCHANGED <<disk, mem, cur, pc, future, notices, overlapped, Threads>>
    BY <1>6 DEF vars, walk, pool, env, Threads
  <2>2. QED  BY <1>1, <2>1, PoolLife DEF LInv, GateInv
<1>7. QED
  BY <1>2, <1>3, <1>4, <1>5, <1>6 DEF Next, CallMoves

LEMMA LifeInit == Init => LInv
<1> SUFFICES ASSUME Init PROVE LInv
  OBVIOUS
<1>1. IInv
  BY InvInit
<1>2. \A c \in Calls : pc[c] = "new"
  BY DEF Init
<1>3. disk = NoRun /\ disk.overall = "absent" /\ notices = 0 /\ Threads = {}
  BY DEF Init, NoRun, Fresh, Threads
<1>4. BornInv
  BY <1>2, <1>3 DEF BornInv
<1>5. AnswerInv
  BY <1>2, <1>3 DEF AnswerInv, AnswerOf, DiskAnswer, Paused, InWalk, Open
<1>6. AloneInv
  BY <1>2, <1>3 DEF AloneInv, AloneOf, Active, Paused, Walks
<1>7. GateInv /\ BudgetInv
  BY <1>2, <1>3 DEF GateInv, BudgetInv, LaterOf, Paused, Walks
<1>8. QED  BY <1>1, <1>4, <1>5, <1>6, <1>7 DEF LInv

LEMMA LifeInvariant == Spec => []LInv
BY LifeInit, LifeStep, PTL DEF Spec

-----------------------------------------------------------------------------
(* The properties.                                                         *)

\* A run of an action plan whose walk came to its end is answered in the very write
\* that ends it, after the notification went out; one the breaker ended has no answer
\* and is never announced; nothing is announced twice unless two resumes were
\* accepted.
THEOREM EndedIsAnswered == Spec => []ActionAnswered
<1>1. LInv => ActionAnswered
  BY DEF LInv, AnswerInv, DiskAnswer, Answered, AloneInv, ActionAnswered
<1>2. QED  BY <1>1, LifeInvariant, PTL

LEMMA OneCallPerNode ==
  ASSUME TypeOK, GateInv, BudgetInv, ~overlapped, NEW n \in Nodes \ plan.gated
  PROVE  Cardinality({t \in begun : t.node = n}) <= plan.retries[n]
<1> DEFINE S == {t \in begun : t.node = n}
           k == plan.retries[n]
<1>1. k \in Nat
  BY PlanFacts DEF TypeOK
<1>2. CASE S = {}
  BY <1>1, <1>2, FS_EmptySet
<1>3. CASE S # {}
  <2>1. PICK u \in S : TRUE
    BY <1>3
  <2> DEFINE g == [a \in 1..k |-> [call |-> u.call, node |-> n, attempt |-> a]]
             T == {g[a] : a \in 1..k}
  <2>2. \A t \in S : t.call = u.call /\ t.node = n /\ t.attempt \in 1..k /\ t \in Thread
    BY <2>1 DEF TypeOK, GateInv, BudgetInv, Threads
  <2>3. S \subseteq T
    <3> SUFFICES ASSUME NEW t \in S PROVE t \in T
      OBVIOUS
    <3>1. t.call = u.call /\ t.node = n /\ t.attempt \in 1..k /\ t \in Thread
      BY <2>2
    <3>2. t = [call |-> t.call, node |-> t.node, attempt |-> t.attempt]
      BY <3>1 DEF Thread
    <3>3. t = g[t.attempt]
      BY <3>1, <3>2
    <3>4. QED  BY <3>1, <3>3
  <2>4. g \in Surjection(1..k, T)
    BY DEF Surjection
  <2>5. IsFiniteSet(1..k) /\ Cardinality(1..k) = k
    <3> HIDE DEF k
    <3> QED  BY <1>1, FS_Interval
  <2>6. IsFiniteSet(T) /\ Cardinality(T) <= k /\ Cardinality(T) \in Nat
    <3> HIDE DEF k, g, T
    <3> QED  BY <2>4, <2>5, FS_Surjection, FS_CardinalityType
  <2>7. Cardinality(S) <= Cardinality(T) /\ Cardinality(S) \in Nat
    <3> HIDE DEF S, T
    <3> QED  BY <2>3, <2>6, FS_Subset, FS_CardinalityType
  <2>8. Cardinality(S) <= k
    <3> HIDE DEF S, T, k
    <3> QED  BY <1>1, <2>6, <2>7
  <2>9. QED  BY <2>8
<1>4. QED  BY <1>2, <1>3

\* A node that cannot pause the run is executed at most max_retries times over
\* the whole life of the run, by however many calls, unless two of them overlap.
THEOREM AttemptsAreBounded == Spec => []WithinAttemptBudget
<1>1. LInv => WithinAttemptBudget
  BY OneCallPerNode DEF LInv, IInv, WithinAttemptBudget
<1>2. QED  BY <1>1, LifeInvariant, PTL

-----------------------------------------------------------------------------
(* The refinement of RunLife.                                              *)

LifeOf(s, a, d) == [status |-> s, answered |-> a, acts |-> d]
Show(s, a) == LifeOf(s, a, plan.actions # {})
Shown == Show(IF overlapped THEN "contended" ELSE disk.overall,
              ~overlapped /\ disk.answer # "none")

LEMMA LifeRecord ==
  ASSUME NEW s, NEW a, NEW d, NEW r
  PROVE  /\ LifeOf(s, a, d).status = s /\ LifeOf(s, a, d).acts = d
         /\ [LifeOf(s, a, d) EXCEPT !.status = r] = LifeOf(r, a, d)
         /\ [LifeOf(s, a, d) EXCEPT !.answered = r] = LifeOf(s, r, d)
BY DEF LifeOf

\* The same, for Zenon to instantiate with TRUE and FALSE.
LEMMA LifeAnswered ==
  ASSUME NEW s, NEW d
  PROVE  \A r, a : LifeOf(s, r, d) = [LifeOf(s, a, d) EXCEPT !.answered = r]
BY DEF LifeOf

LEMMA LifeMove ==
  ASSUME NEW s, NEW r, NEW a, NEW d, NEW T, r \in T
  PROVE  LifeOf(r, a, d) \in Life!Move(LifeOf(s, a, d), s, T)
<1>1. LifeOf(r, a, d) = [LifeOf(s, a, d) EXCEPT !.status = r] /\ LifeOf(s, a, d).status = s
  BY LifeRecord
<1>2. QED  BY <1>1 DEF Life!Move

\* The moves RunLife allows, as records.
LEMMA LifeMovesOf ==
  ASSUME NEW d
  PROVE
  /\ \A s \in {"running", "no_capability"} :
       LifeOf(s, FALSE, d) \in Life!Begin(LifeOf("absent", FALSE, d))
  /\ LifeOf("awaiting_human_input", FALSE, d) \in Life!Pause(LifeOf("running", FALSE, d))
  /\ LifeOf("running", FALSE, d) \in Life!Resume(LifeOf("awaiting_human_input", FALSE, d))
  /\ LifeOf("circuit_broken", FALSE, d) \in Life!Break(LifeOf("running", FALSE, d))
  /\ \A s \in {"completed", "failed"} :
       LifeOf(s, d, d) \in Life!End(LifeOf("running", FALSE, d))
  /\ LifeOf("no_capability", TRUE, d) \in Life!Refuse(LifeOf("no_capability", FALSE, d))
  /\ LifeOf("contended", FALSE, d) \in
       Life!Contend(LifeOf("awaiting_human_input", FALSE, d))
<1>1. \A s \in {"completed", "failed"} :
        LifeOf(s, d, d) \in Life!End(LifeOf("running", FALSE, d))
  <2>1. TAKE s \in {"completed", "failed"}
  <2>2. LifeOf(s, FALSE, d) \in
          Life!Move(LifeOf("running", FALSE, d), "running", {"completed", "failed"})
    BY LifeMove
  <2>3. \A f : LifeOf(s, d, d) = [LifeOf(s, f, d) EXCEPT !.answered = LifeOf(s, f, d).acts]
    <3>1. TAKE f
    <3>2. LifeOf(s, f, d).acts = d
      BY DEF LifeOf
    <3>3. LifeOf(s, d, d) = [LifeOf(s, f, d) EXCEPT !.answered = d]
      BY DEF LifeOf
    <3>4. QED  BY <3>2, <3>3, Zenon
  <2>4. LifeOf(s, d, d) =
          [LifeOf(s, FALSE, d) EXCEPT !.answered = LifeOf(s, FALSE, d).acts]
    BY <2>3, Zenon
  <2>5. QED  BY <2>2, <2>4 DEF Life!End
<1>2. LifeOf("no_capability", TRUE, d) \in Life!Refuse(LifeOf("no_capability", FALSE, d))
  <2>1. LifeOf("no_capability", FALSE, d) \in
          Life!Move(LifeOf("no_capability", FALSE, d), "no_capability", {"no_capability"})
    BY LifeMove
  <2>2. \A r, a : LifeOf("no_capability", r, d) = [LifeOf("no_capability", a, d) EXCEPT !.answered = r]
    BY LifeAnswered
  <2>3. LifeOf("no_capability", TRUE, d)
          = [LifeOf("no_capability", FALSE, d) EXCEPT !.answered = TRUE]
    BY <2>2, Zenon
  <2>4. QED  BY <2>1, <2>3 DEF Life!Refuse
<1>3. LifeOf("contended", FALSE, d) \in
        Life!Contend(LifeOf("awaiting_human_input", FALSE, d))
  <2>1. LifeOf("contended", FALSE, d) \in
          Life!Move(LifeOf("awaiting_human_input", FALSE, d), "awaiting_human_input",
                    {"contended"})
    BY LifeMove
  <2>2. \A r, a : LifeOf("contended", r, d) = [LifeOf("contended", a, d) EXCEPT !.answered = r]
    BY LifeAnswered
  <2>3. LifeOf("contended", FALSE, d)
          = [LifeOf("contended", FALSE, d) EXCEPT !.answered = FALSE]
    BY <2>2, Zenon
  <2>4. QED  BY <2>1, <2>3 DEF Life!Contend
<1>4. QED
  BY <1>1, <1>2, <1>3, LifeMove DEF Life!Begin, Life!Pause, Life!Resume, Life!Break

LEMMA LifeMoves ==
  /\ \A s \in {"running", "no_capability"} :
       Show(s, FALSE) \in Life!Begin(Show("absent", FALSE))
  /\ Show("awaiting_human_input", FALSE) \in Life!Pause(Show("running", FALSE))
  /\ Show("running", FALSE) \in Life!Resume(Show("awaiting_human_input", FALSE))
  /\ Show("circuit_broken", FALSE) \in Life!Break(Show("running", FALSE))
  /\ \A s \in {"completed", "failed"} :
       Show(s, plan.actions # {}) \in Life!End(Show("running", FALSE))
  /\ Show("no_capability", TRUE) \in Life!Refuse(Show("no_capability", FALSE))
  /\ Show("contended", FALSE) \in Life!Contend(Show("awaiting_human_input", FALSE))
<1> DEFINE d == plan.actions # {}
<1>1. \A s, a : Show(s, a) = LifeOf(s, a, d)
  BY DEF Show
<1> HIDE DEF d
<1>2. \A s \in {"completed", "failed"} : Show(s, d) \in Life!End(Show("running", FALSE))
  BY <1>1, LifeMovesOf
<1>3. QED  BY <1>1, <1>2, LifeMovesOf DEF d

LifeNext == Shown' \in Life!Progress(Shown) \cup Life!Resume(Shown) \cup Life!Contend(Shown)

LEMMA CallLife ==
  ASSUME LInv, LInv', plan' = plan, NEW c \in Calls, CallMoves(c)
  PROVE  LifeNext \/ Shown' = Shown
<1>0. TypeOK /\ TypeOK'
  BY DEF LInv, IInv
<1>1. /\ Fresh.overall \in {"running", "no_capability"} /\ Fresh.answer = "none"
      /\ Fresh.overall = IF plan.capable THEN "running" ELSE "no_capability"
  BY <1>0, FreshFacts DEF TypeOK, Fresh
<1>2. WalkInv(c) /\ AnswerOf(c) /\ DiskAnswer
  BY DEF LInv, IInv, AnswerInv
<1>4. CASE overlapped
  <2>1. overlapped'
    BY <1>0, <1>4, CallCases, TurnPlace, CreateEffect, ResumeEffect, LoadEffect,
       ReopenEffect, PauseEffect, BrokenEffect, FinishEffect, FinalEffect, RefuseEffect,
       AnnounceEffect, DiesEffect
  <2>2. QED  BY <1>4, <2>1 DEF Shown, Show, LifeOf
<1>5. CASE ~overlapped /\ overlapped'
  <2>1. Paused
    BY <1>0, <1>5, CallCases, TurnPlace, CreateEffect, ResumeEffect, LoadEffect,
       ReopenEffect, PauseEffect, BrokenEffect, FinishEffect, FinalEffect, RefuseEffect,
       AnnounceEffect, DiesEffect
  <2>2. Shown = Show("awaiting_human_input", FALSE) /\ Shown' = Show("contended", FALSE)
    BY <1>2, <1>5, <2>1 DEF Shown, Show, LifeOf, Paused, DiskAnswer
  <2>3. QED  BY <2>2, LifeMoves DEF LifeNext
<1>6. CASE ~overlapped /\ ~overlapped'
  <2>0. AloneOf(c)
    BY <1>6 DEF LInv, AloneInv
  <2>1. /\ Shown = Show(disk.overall, disk.answer # "none")
        /\ Shown' = Show(disk'.overall, disk'.answer # "none")
    BY <1>6 DEF Shown, Show, LifeOf
  <2>2. CASE disk' = disk
    BY <2>1, <2>2
  <2>3. CASE CreateRun(c)
    <3>1. disk.overall = "absent" /\ disk.answer = "none"
      BY <1>0, <2>3, CreateEffect DEF LInv, BornInv, NoRun, Fresh
    <3>2. Shown = Show("absent", FALSE) /\ Shown' = Show(Fresh.overall, FALSE)
      BY <1>0, <1>1, <2>1, <2>3, <3>1, CreateEffect
    <3>3. QED  BY <1>1, <3>2, LifeMoves DEF LifeNext, Life!Progress
  <2>4. CASE Reopen(c)
    <3>1. Paused /\ disk.answer = "none"
      BY <1>0, <1>2, <2>0, <2>4, ReopenEffect DEF AloneOf, DiskAnswer
    <3>2. disk'.overall = "running" /\ disk'.answer = "none"
      BY <1>0, <1>1, <1>2, <2>4, ReopenEffect DEF WalkInv, WalkBase, AnswerOf, InWalk, Open
    <3>3. QED  BY <2>1, <3>1, <3>2, LifeMoves DEF LifeNext, Paused
  <2>5. CASE Turn(c)
    <3>1. pc[c] \in InWalk /\ pc[c] \in Walks
      BY <1>0, <2>5, TurnPlace DEF Walks, InWalk, Open
    <3>2. /\ disk.overall = Fresh.overall /\ disk.answer = "none"
          /\ mem[c].overall = Fresh.overall /\ mem[c].answer = "none"
      BY <1>2, <2>0, <3>1 DEF WalkInv, WalkBase, AnswerOf, AloneOf
    <3>3. disk'.overall = disk.overall /\ disk'.answer = disk.answer
      BY <1>0, <2>5, <3>2, TurnClaim DEF SameClaim
    <3>4. QED  BY <2>1, <3>3
  <2>6. CASE Pause(c)
    <3>1. disk.overall = "running" /\ disk.answer = "none" /\ mem[c].answer = "none"
      BY <1>0, <1>1, <1>2, <2>0, <2>6, PauseEffect DEF WalkInv, AnswerOf, AloneOf, InWalk,
         Open, Walks
    <3>2. QED  BY <1>0, <2>1, <2>6, <3>1, PauseEffect, LifeMoves DEF LifeNext, Life!Progress
  <2>7. CASE CircuitBroken(c)
    <3>1. disk.overall = "running" /\ disk.answer = "none" /\ mem[c].answer = "none"
      BY <1>0, <1>1, <1>2, <2>0, <2>7, BrokenEffect DEF WalkInv, WalkTrip, AnswerOf, AloneOf,
         InWalk, Open, Walks
    <3>2. QED  BY <1>0, <2>1, <2>7, <3>1, BrokenEffect, LifeMoves DEF LifeNext, Life!Progress
  <2>8. CASE FinalSave(c)
    <3>1. /\ disk.overall = "running" /\ disk.answer = "none"
          /\ mem[c].overall \in {"completed", "failed"} /\ Answered(mem[c])
      BY <1>0, <1>1, <1>2, <2>0, <2>8, FinalEffect DEF WalkInv, AnswerOf, AloneOf, Walks
    <3>2. (mem[c].answer # "none") = (plan.actions # {}) /\ disk' = mem[c]
      BY <1>0, <2>8, <3>1, FinalEffect DEF Answered
    <3>3. QED  BY <2>1, <3>1, <3>2, LifeMoves DEF LifeNext, Life!Progress
  <2>9. CASE Refuse(c)
    <3>1. disk.overall = "no_capability" /\ disk.answer = "none"
      BY <1>0, <1>1, <2>0, <2>9, RefuseEffect DEF AloneOf, Walks
    <3>2. QED  BY <1>0, <2>1, <2>9, <3>1, RefuseEffect, LifeMoves DEF LifeNext, Life!Progress
  <2>10. QED
    BY <1>0, <2>2, <2>3, <2>4, <2>5, <2>6, <2>7, <2>8, <2>9, CallCases, ResumeEffect,
       LoadEffect, FinishEffect, AnnounceEffect, DiesEffect
<1>7. QED  BY <1>4, <1>5, <1>6

\* GET /runs/{run_id} shows a client a life RunLife allows, whatever crashes,
\* hangs or fails: a terminal status stays, a pause is left by a resume only, an
\* action's answer comes in the write that ends the run.
THEOREM RunsLiveAsShown == Spec => Lifecycle
<1>1. Init => Life!Init
  <2> SUFFICES ASSUME Init PROVE Life!Init
    OBVIOUS
  <2>1. Shown = Show("absent", FALSE)
    BY DEF Init, NoRun, Fresh, Shown, Show
  <2>2. Show("absent", FALSE) \in Life!Unborn
    BY DEF Show, LifeOf, Life!Unborn, Life!Lives, Life!LifeStatus
  <2>3. Shown \in Life!Unborn
    BY <2>1, <2>2
  <2>4. QED  BY <2>3 DEF Life!Init, Shown, Show, LifeOf
<1>2. LInv /\ LInv' /\ [Next]_vars => LifeNext \/ Shown' = Shown
  <2> SUFFICES ASSUME LInv, LInv', [Next]_vars PROVE LifeNext \/ Shown' = Shown
    OBVIOUS
  <2>1. plan' = plan
    BY PlanConstant
  <2>2. CASE \E c \in Calls : CallMoves(c)
    BY <2>1, <2>2, CallLife
  <2>3. CASE ~(\E c \in Calls : CallMoves(c))
    <3>1. disk' = disk /\ overlapped' = overlapped
      BY <2>3 DEF Next, CallMoves, StartThread, ThreadEnds, Crash, vars, env
    <3>2. QED  BY <2>1, <3>1 DEF Shown, Show, LifeOf
  <2>4. QED  BY <2>2, <2>3
<1>3. LInv /\ LInv' /\ [Next]_vars =>
        [Life!Next]_[status |-> IF overlapped THEN "contended" ELSE disk.overall,
                     answered |-> ~overlapped /\ disk.answer # "none",
                     acts |-> plan.actions # {}]
  BY <1>2 DEF LifeNext, Shown, Show, LifeOf, Life!Next
<1>4. QED
  BY <1>1, <1>3, LifeInvariant, PTL DEF Spec, Lifecycle, Life!Spec

-----------------------------------------------------------------------------
(***************************************************************************)
(* Without a gated node the file can never wait for a human, so that the   *)
(* run sees one call only, and what that call's RunContext.data holds      *)
(* covers the nodes it has marked as succeeded.                            *)
(***************************************************************************)
RanInv ==
  /\ pc[Execute] # "load"
  /\ plan.gated = {} => ~overlapped /\ \A c \in Calls \ {Execute} : pc[c] = "new"
  /\ \A c \in Calls : pc[c] = "wait" /\ future[c] = "ok" => cur[c] \in outputs[c]
  /\ \A n \in Nodes : mem[Execute].status[n] = "succeeded" => n \in outputs[Execute]
  /\ plan.gated = {} /\ plan.actions # {} =>
       /\ disk.overall = "completed" => disk.answer = "ran"
       /\ pc[Execute] = "final" /\ mem[Execute].overall = "completed" =>
            mem[Execute].answer = "ran"

\* A node newly succeeds only by the handler whose result its call awaited.
LEMMA StatusMoves ==
  ASSUME TypeOK, NEW c \in Calls, CallMoves(c), pc[c] # "load", NEW n \in Nodes,
         mem'[c].status[n] = "succeeded"
  PROVE  \/ mem[c].status[n] = "succeeded"
         \/ pc[c] = "wait" /\ future[c] = "ok" /\ n = cur[c]
<1>0. mem[c].status \in [Nodes -> Status] /\ mem[c] \in Snapshot
  BY DEF TypeOK, Snapshot
<1>1. ASSUME NEW m \in Nodes, NEW st \in Status, mem'[c].status = Mark(c, m, st).status
      PROVE  mem[c].status[n] = "succeeded" \/ (n = m /\ st = "succeeded")
  <2>1. mem'[c].status = [mem[c].status EXCEPT ![m] = st]
    BY <1>1, MarkType
  <2>2. QED  BY <1>0, <2>1
<1>2. CASE CreateRun(c)
  BY <1>2, CreateEffect DEF Fresh
<1>3. CASE SkipNode(c) \/ Attempt(c)
  <2>1. cur[c] \in Nodes
    BY <1>3, Places DEF SkipNode, Attempt, At, TypeOK
  <2>2. PICK st \in Status \ {"succeeded"} : mem' = [mem EXCEPT ![c] = Mark(c, cur[c], st)]
    BY <1>3 DEF SkipNode, Attempt, Save, Status
  <2>3. mem'[c] = Mark(c, cur[c], st)
    BY <2>2 DEF TypeOK
  <2>4. QED  BY <1>1, <2>1, <2>2, <2>3
<1>4. CASE NoHandler(c) \/ GiveUp(c)
  <2>1. cur[c] \in Nodes /\ FailNode(c)
    BY <1>4, Places DEF NoHandler, GiveUp, Admitted, At, TypeOK
  <2> DEFINE s == Mark(c, cur[c], "failed")
  <2>2. s \in Snapshot
    BY <2>1, MarkType DEF Status
  <2>3. mem'[c] = [s EXCEPT !.failures = @ + 1]
    BY <2>1 DEF FailNode, TypeOK
  <2>4. mem'[c].status = s.status
    <3> HIDE DEF s
    <3> QED  BY <2>2, <2>3 DEF Snapshot
  <2>5. "failed" \in Status
    BY DEF Status
  <2>6. QED  BY <1>1, <2>1, <2>4, <2>5
<1>5. CASE HandlerReturned(c)
  <2>1. cur[c] \in Nodes /\ pc[c] = "wait" /\ future[c] = "ok"
    BY <1>5 DEF HandlerReturned, At, TypeOK
  <2>2. mem'[c] = Mark(c, cur[c], "succeeded")
    BY <1>5 DEF HandlerReturned, Save, TypeOK
  <2>3. "succeeded" \in Status
    BY DEF Status
  <2>4. QED  BY <1>1, <2>1, <2>2, <2>3
<1>6. CASE HandlerGated(c)
  <2>1. cur[c] \in Nodes
    BY <1>6 DEF HandlerGated, At, TypeOK
  <2> DEFINE s == Mark(c, cur[c], "awaiting_input")
  <2>2. PICK fs \in SUBSET Fields : mem' = [mem EXCEPT ![c] = Gated(c, cur[c], fs)]
    BY <1>6 DEF HandlerGated
  <2>3. mem'[c] = [s EXCEPT !.pending = cur[c], !.wanted = fs]
    BY <2>2 DEF Gated, TypeOK
  <2>4. s \in Snapshot /\ "awaiting_input" \in Status
    BY <2>1, MarkType DEF Status
  <2>5. mem'[c].status = s.status
    <3> HIDE DEF s
    <3> QED  BY <2>3, <2>4 DEF Snapshot
  <2>6. QED  BY <1>1, <2>1, <2>4, <2>5
<1>7. CASE TripSkip(c)
  <2>1. PICK m \in Nodes : mem' = [mem EXCEPT ![c] = Mark(c, m, "skipped")]
    BY <1>7 DEF TripSkip, Unvisited, Save
  <2>2. mem'[c] = Mark(c, m, "skipped") /\ "skipped" \in Status
    BY <2>1 DEF TypeOK, Status
  <2>3. QED  BY <1>1, <2>2
<1>8. CASE Pause(c) \/ CircuitBroken(c) \/ Refuse(c) \/ Finish(c)
  <2>1. mem'[c].status = mem[c].status
    <3>1. ASSUME NEW o, NEW a
          PROVE  /\ [mem[c] EXCEPT !.overall = o].status = mem[c].status
                 /\ [mem[c] EXCEPT !.overall = o, !.answer = a].status = mem[c].status
      BY <1>0 DEF Snapshot
    <3>2. CASE Pause(c) \/ CircuitBroken(c)
      <4>1. PICK o \in Overall : mem' = [mem EXCEPT ![c] = [mem[c] EXCEPT !.overall = o]]
        BY <3>2 DEF Pause, CircuitBroken, Save, Overall
      <4>2. QED  BY <3>1, <4>1 DEF TypeOK
    <3>3. CASE Refuse(c)
      BY <3>1, <3>3 DEF Refuse, Save, TypeOK
    <3>4. CASE Finish(c)
      BY <3>1, <3>4 DEF Finish, Judged, TypeOK
    <3>5. QED  BY <1>8, <3>2, <3>3, <3>4
  <2>2. QED  BY <2>1
<1>9. CASE Reopen(c) \/ FinalSave(c)
  BY <1>9, ReopenEffect, FinalEffect
<1>10. CASE \/ PostResume(c) \/ EnterNode(c) \/ Timeout(c) \/ HandlerRaised(c)
            \/ Advance(c) \/ Trip(c) \/ Announce(c) \/ CallDies(c)
  BY <1>10 DEF PostResume, EnterNode, Timeout, HandlerRaised, Advance, Trip, Announce,
     CallDies
<1>11. CASE LoadRun(c)
  BY <1>11, LoadEffect
<1>12. QED
  BY <1>2, <1>3, <1>4, <1>5, <1>6, <1>7, <1>8, <1>9, <1>10, <1>11, CallCases DEF Turn

\* A call changes nothing in RunContext.data, and no result is awaited yet when
\* it begins to wait.
LEMMA WaitMoves ==
  ASSUME TypeOK, NEW c \in Calls, CallMoves(c)
  PROVE  outputs' = outputs /\ (pc'[c] = "wait" => future'[c] = "none")
<1>1. CASE Attempt(c)
  BY <1>1 DEF Attempt, TypeOK
<1>2. CASE ~Attempt(c)
  BY <1>2 DEF TypeOK, CallMoves, Step, CreateRun, PostResume, LoadRun,
     ResumeAt, Reopen, SkipNode, EnterNode, NoHandler, Timeout, HandlerRaised,
     HandlerReturned, HandlerGated, Pause, GiveUp, Advance, Trip, TripSkip,
     CircuitBroken, Finish, FinalSave, Refuse, Announce, CallDies, At, Goto
<1>3. QED  BY <1>1, <1>2

\* The file says "completed" only by a call's last write.
LEMMA CompletedMoves ==
  ASSUME IInv, NEW c \in Calls, CallMoves(c), disk'.overall = "completed"
  PROVE  disk' = disk \/ (disk' = mem[c] /\ pc[c] = "final")
<1>0. TypeOK /\ WalkInv(c) /\ Fresh.overall # "completed"
  BY FreshFacts DEF IInv, TypeOK
<1>1. CASE Turn(c)
  <2>1. pc[c] \in InWalk
    BY <1>0, <1>1, TurnPlace DEF Walks, InWalk, Open
  <2>2. mem[c].overall # "completed"
    BY <1>0, <2>1 DEF WalkInv, WalkBase
  <2>3. QED  BY <1>0, <1>1, <2>2, TurnClaim DEF SameClaim
<1>2. CASE Reopen(c)
  BY <1>0, <1>2, ReopenEffect DEF WalkInv, WalkBase, InWalk, Open
<1>3. QED
  BY <1>0, <1>1, <1>2, CallCases, CreateEffect, ResumeEffect, LoadEffect, PauseEffect,
     BrokenEffect, FinishEffect, FinalEffect, RefuseEffect, AnnounceEffect, DiesEffect

LEMMA RanCall ==
  ASSUME LInv, LInv', RanInv, plan' = plan, NEW c \in Calls, CallMoves(c)
  PROVE  RanInv'
<1>0. TypeOK /\ IInv /\ Nodes' = Nodes /\ Execute \in Calls
  BY Constants, CallsAssumption DEF LInv, IInv
<1>1. c = Execute => pc'[Execute] # "load"
  BY <1>0, CallCases, TurnPlace, CreateEffect, ResumeEffect, LoadEffect, ReopenEffect,
     PauseEffect, BrokenEffect, FinishEffect, FinalEffect, RefuseEffect, AnnounceEffect,
     DiesEffect DEF Walks, RanInv
<1>2. pc'[Execute] # "load"
  BY <1>0, <1>1, OthersUntouched DEF RanInv
<1>3. plan.gated = {} => c = Execute /\ overlapped' = overlapped
  <2> SUFFICES ASSUME plan.gated = {} PROVE c = Execute /\ overlapped' = overlapped
    OBVIOUS
  <2>1. ~overlapped /\ ~Paused
    BY DEF RanInv, LInv, BudgetInv
  <2>2. ~PostResume(c)
    BY <1>0, <2>1, ResumeEffect
  <2>3. c = Execute
    BY <1>0, <2>2, MovesActive, CreateEffect DEF RanInv, Active
  <2>4. overlapped' = overlapped
    BY <1>0, <2>2, CallCases, TurnPlace, CreateEffect, LoadEffect, ReopenEffect,
       PauseEffect, BrokenEffect, FinishEffect, FinalEffect, RefuseEffect, AnnounceEffect,
       DiesEffect
  <2>5. QED  BY <2>3, <2>4
<1>4. plan.gated = {} => ~overlapped' /\ \A d \in Calls \ {Execute} : pc'[d] = "new"
  BY <1>0, <1>3, OthersUntouched DEF RanInv
<1>5. \A d \in Calls : pc'[d] = "wait" /\ future'[d] = "ok" => cur'[d] \in outputs'[d]
  BY <1>0, OthersUntouched, WaitMoves DEF RanInv
<1>6. \A n \in Nodes : mem'[Execute].status[n] = "succeeded" => n \in outputs'[Execute]
  <2>1. TAKE n \in Nodes
  <2>2. CASE c = Execute
    BY <1>0, <2>2, StatusMoves, WaitMoves DEF RanInv
  <2>3. CASE c # Execute
    BY <1>0, <2>3, OthersUntouched, WaitMoves DEF RanInv
  <2>4. QED  BY <2>2, <2>3
<1>7. ASSUME plan.gated = {}, plan.actions # {}
      PROVE  /\ disk'.overall = "completed" => disk'.answer = "ran"
             /\ pc'[Execute] = "final" /\ mem'[Execute].overall = "completed" =>
                  mem'[Execute].answer = "ran"
  <2>1. c = Execute
    BY <1>3, <1>7
  <2>2. disk'.overall = "completed" => disk'.answer = "ran"
    BY <1>0, <1>7, <2>1, CompletedMoves DEF RanInv
  <2>3. CASE Finish(c)
    <3> SUFFICES ASSUME mem'[c].overall = "completed" PROVE mem'[c].answer = "ran"
      BY <2>1, <2>2
    <3>1. pc'[c] = "final" /\ mem'[c].answer = ActionAnswer(c)
      BY <1>0, <2>3, FinishEffect
    <3>2. \A n \in Nodes : mem'[c].status[n] = "succeeded"
      BY <1>0, <3>1 DEF LInv, IInv, WalkInv, Ended
    <3>3. Nodes \subseteq outputs[c]
      BY <1>0, <1>6, <2>1, <3>2, WaitMoves
    <3>4. plan.actions \subseteq Nodes
      BY <1>0, PlansAssumption DEF TypeOK, PlanShape, Nodes
    <3>5. QED  BY <1>7, <3>1, <3>3, <3>4 DEF ActionAnswer
  <2>4. CASE ~Finish(c)
    <3>1. pc'[c] # "final"
      BY <1>0, <2>4, CallCases, TurnPlace, CreateEffect, ResumeEffect, LoadEffect,
         ReopenEffect, PauseEffect, BrokenEffect, FinalEffect, RefuseEffect,
         AnnounceEffect, DiesEffect DEF Walks
    <3>2. QED  BY <2>1, <2>2, <3>1
  <2>5. QED  BY <2>3, <2>4
<1>8. QED  BY <1>0, <1>2, <1>4, <1>5, <1>6, <1>7 DEF RanInv

LEMMA RanStep == LInv /\ LInv' /\ RanInv /\ [Next]_vars => RanInv'
<1> SUFFICES ASSUME LInv, LInv', RanInv, [Next]_vars PROVE RanInv'
  OBVIOUS
<1>1. TypeOK /\ plan' = plan /\ Nodes' = Nodes /\ Execute \in Calls
  BY PlanConstant, Constants, CallsAssumption DEF LInv, IInv
<1>2. ASSUME NEW c \in Calls, CallMoves(c) PROVE RanInv'
  BY <1>1, <1>2, RanCall
<1>3. ASSUME NEW t \in queued, StartThread(t) PROVE RanInv'
  BY <1>1, <1>3 DEF StartThread, RanInv, walk, env
<1>4. ASSUME NEW t \in running, NEW o \in {"ok", "error", "gate"}, ThreadEnds(t, o)
      PROVE  RanInv'
  <2>1. UNCHANGED <<plan, disk, mem, pc, cur, overlapped>>
    BY <1>4 DEF ThreadEnds, env
  <2>2. \A c \in Calls : outputs[c] \subseteq outputs'[c]
    BY <1>1, <1>4 DEF ThreadEnds, TypeOK
  <2>3. \A c \in Calls : pc[c] = "wait" /\ future'[c] = "ok" => cur[c] \in outputs'[c]
    <3>1. TAKE c \in Calls
    <3>2. CASE future'[c] = future[c]
      BY <2>2, <3>2 DEF RanInv
    <3>3. CASE future'[c] # future[c]
      <4>1. future'[c] = o /\ t = Awaited(c) /\ t.call = c
        BY <1>1, <1>4, <3>3 DEF ThreadEnds, TypeOK, Awaited
      <4>2. o = "ok" => cur[c] \in outputs'[c]
        BY <1>1, <1>4, <4>1 DEF ThreadEnds, TypeOK, Awaited
      <4>3. QED  BY <4>1, <4>2
    <3>4. QED  BY <3>2, <3>3
  <2>4. QED  BY <1>1, <2>1, <2>2, <2>3 DEF RanInv
<1>5. ASSUME Crash PROVE RanInv'
  <2>1. /\ UNCHANGED <<plan, disk, mem, cur, future, outputs, overlapped>>
        /\ \A c \in Calls : pc'[c] = pc[c] \/ (pc[c] # "new" /\ pc'[c] = "dead")
    BY <1>5 DEF Crash, walk, Active
  <2>2. QED  BY <1>1, <2>1 DEF RanInv
<1>6. ASSUME UNCHANGED vars PROVE RanInv'
  BY <1>1, <1>6 DEF vars, walk, pool, env, RanInv
<1>7. QED
  BY <1>2, <1>3, <1>4, <1>5, <1>6 DEF Next, CallMoves

\* The positive half of AnswerIsTrue (executor.py:275), which fails for runs that
\* are not completed: of a plan that pauses for no human, as the planner's action
\* plan is, a completed run with an action node is never answered "the action node
\* did not run".
CompletedActionsRan ==
  plan.gated = {} /\ plan.actions # {} /\ disk.overall = "completed" => disk.answer = "ran"

THEOREM CompletedRunsDidRun == Spec => []CompletedActionsRan
<1>1. Init => RanInv
  <2> SUFFICES ASSUME Init PROVE RanInv
    OBVIOUS
  <2>1. plan \in Plans /\ Execute \in Calls
    BY CallsAssumption DEF Init
  <2>2. disk.overall = "absent" /\ mem[Execute].status = [n \in Nodes |-> "pending"]
    BY <2>1 DEF Init, NoRun, Fresh
  <2>3. QED  BY <2>1, <2>2 DEF Init, RanInv
<1>2. RanInv => CompletedActionsRan
  BY DEF RanInv, CompletedActionsRan
<1>3. QED  BY <1>1, <1>2, RanStep, LifeInvariant, PTL DEF Spec
=============================================================================
