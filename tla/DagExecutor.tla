----------------------------- MODULE DagExecutor -----------------------------
(***************************************************************************)
(* One run of a DAG plan, from agents/orchestrator/executor.py: the        *)
(* background call of execute_plan that creates the run and walks the      *)
(* plan, and the calls of resume_plan that continue it after a human has   *)
(* answered POST /runs/{run_id}/resume (agents/orchestrator/main.py).      *)
(*                                                                         *)
(* Every call works on its own RunState object (mem) and writes the whole  *)
(* object to the run file (disk).  A handler runs in a thread of the pool; *)
(* a timed-out thread is abandoned, not stopped.  The process may crash    *)
(* and a write of the run file may raise, each at any step (MaxFaults).    *)
(*                                                                         *)
(* The nodes of a plan are numbered by their place in the topological      *)
(* order, so a dependency has a smaller number than its dependents.        *)
(***************************************************************************)
EXTENDS Planner, FiniteSets

CONSTANTS
  Plans,       \* the plans the run may be created for
  Calls,       \* the background calls the run may see over its life
  Execute,     \* the one of them that is execute_plan; the others resume
  PoolSize,    \* max_workers of the thread pool
  Fields,      \* what a human can be asked for
  Secret,      \* the fields that are never persisted ("password")
  MaxFaults    \* crashes and failed writes explored

ASSUME PlansAssumption == \A p \in Plans : PlanShape(p)
ASSUME CallsAssumption == Execute \in Calls
ASSUME BoundsAssumption ==
  PoolSize \in Nat \ {0} /\ MaxFaults \in Nat /\ Secret \subseteq Fields

VARIABLES
  plan,        \* the plan, a constant of the behaviour
  disk,        \* the run file: the snapshot every reader sees
  mem,         \* the RunState object each call works on
  pc,          \* where each call is
  cur,         \* the node each call's walk is at
  att,         \* the attempt number of that node
  future,      \* what the awaited thread has delivered
  outputs,     \* RunContext.data: the nodes that left a result in it
  provided,    \* the fields each resume call was given
  queued,      \* threads submitted to the pool, not started
  running,     \* threads executing a handler, abandoned ones included
  begun,       \* history: every thread that ever started its handler
  notices,     \* history: how often notifier.notify was called
  overlapped,  \* history: a resume was accepted while a call was active
  faults

vars == <<plan, disk, mem, pc, cur, att, future, outputs, provided,
          queued, running, begun, notices, overlapped, faults>>
walk == <<cur, att, future>>
pool == <<queued, running, begun>>
env  == <<plan, overlapped, faults>>

-----------------------------------------------------------------------------
Status  == {"pending", "running", "retrying", "succeeded", "failed",
            "skipped", "awaiting_input"}
Overall == {"absent", "running", "completed", "failed", "circuit_broken",
            "no_capability", "awaiting_human_input"}
Answer  == {"none", "unsupported", "ran", "not_run"}
Settled == {"succeeded", "failed", "skipped"}
Terminal == {"completed", "failed", "circuit_broken"}

Nodes  == 1..plan.size
Thread == [call : Calls, node : Nodes, attempt : Nat]

Snapshot ==
  [status : [Nodes -> Status], failures : Nat, overall : Overall,
   pending : {0} \cup Nodes, wanted : SUBSET Fields,
   inputs : [Nodes -> SUBSET Fields], answer : Answer]

\* The RunState that create_run builds; NoRun stands for the missing file.
Fresh ==
  [status |-> [n \in Nodes |-> "pending"], failures |-> 0,
   overall |-> IF plan.capable THEN "running" ELSE "no_capability",
   pending |-> 0, wanted |-> {}, inputs |-> [n \in Nodes |-> {}],
   answer |-> "none"]
NoRun == [Fresh EXCEPT !.overall = "absent"]

Active(c) == pc[c] \notin {"new", "done", "dead"}
Walking(c) == Active(c) /\ pc[c] # "load"

Init ==
  /\ plan \in Plans
  /\ disk = NoRun
  /\ mem = [c \in Calls |-> NoRun]
  /\ pc = [c \in Calls |-> "new"]
  /\ cur = [c \in Calls |-> 1]
  /\ att = [c \in Calls |-> 0]
  /\ future = [c \in Calls |-> "none"]
  /\ outputs = [c \in Calls |-> {}]
  /\ provided = [c \in Calls |-> {}]
  /\ queued = {} /\ running = {} /\ begun = {}
  /\ notices = 0
  /\ overlapped = FALSE
  /\ faults = 0

-----------------------------------------------------------------------------
At(c, where) == pc[c] = where
Goto(c, where) == pc' = [pc EXCEPT ![c] = where]

\* run_store.save_run: the file becomes the call's object, as it is now.
Save(c, s) == mem' = [mem EXCEPT ![c] = s] /\ disk' = s

\* _transition / update_node_state on a copy of the call's object.
Mark(c, n, st) == [mem[c] EXCEPT !.status[n] = st]

\* Slip: the failure is recorded on the node but never counted.
FailNodeUncounted(c) == Save(c, Mark(c, cur[c], "failed"))

\* A node fails: the file is written first, the counter raised after it.
FailNode(c) ==
  LET s == Mark(c, cur[c], "failed") IN
  /\ disk' = s
  /\ mem' = [mem EXCEPT ![c] = [s EXCEPT !.failures = @ + 1]]

\* Slip: only a failed dependency stops a node, a skipped one does not.
DepsOkUnlessFailed(c) == \A d \in plan.deps[cur[c]] : mem[c].status[d] # "failed"

DepsOk(c) == \A d \in plan.deps[cur[c]] : mem[c].status[d] = "succeeded"
BreakerOpen(c) == mem[c].failures >= plan.threshold
HasNode(c) == cur[c] <= plan.size

\* execute_plan up to the walk: the run file is created.
CreateRun(c) ==
  /\ c = Execute /\ At(c, "new")
  /\ Save(c, Fresh)
  /\ Goto(c, "visit")
  /\ UNCHANGED <<walk, outputs, provided, pool, notices, env>>

\* POST /runs/{run_id}/resume: checked against the file, then handed to a
\* background task.  409 unless paused, 400 unless every field is supplied.
PostResume(c) ==
  /\ c # Execute /\ At(c, "new")
  /\ disk.overall = "awaiting_human_input" /\ disk.pending # 0
  /\ \E p \in SUBSET Fields :
       /\ disk.wanted \subseteq p
       /\ provided' = [provided EXCEPT ![c] = p]
  /\ Goto(c, "load")
  /\ overlapped' = (overlapped \/ \E other \in Calls : Active(other))
  /\ UNCHANGED <<disk, mem, walk, outputs, pool, notices, plan, faults>>

\* The paused object, reopened; what is not secret of the answer is kept in it.
Resumed(c) ==
  [disk EXCEPT !.inputs[disk.pending] = @ \cup (provided[c] \ Secret),
               !.pending = 0, !.wanted = {}, !.overall = "running"]

ResumeAt(c, n) ==
  /\ At(c, "load")
  /\ IF /\ disk.overall = "awaiting_human_input" /\ disk.pending # 0
        /\ disk.wanted \subseteq provided[c]
     THEN /\ mem' = [mem EXCEPT ![c] = Resumed(c)]
          /\ cur' = [cur EXCEPT ![c] = n]
          /\ Goto(c, "reopen")
     ELSE Goto(c, "done") /\ UNCHANGED <<mem, cur>>
  /\ UNCHANGED <<disk, att, future, outputs, provided, pool, notices, env>>

\* Slips: the walk is taken up after the node that waits, or from the start.
LoadRunPastNode(c) == ResumeAt(c, disk.pending + 1)
LoadRunFromStart(c) == ResumeAt(c, 1)

\* resume_plan loads the run afresh and checks again; the object is changed
\* in memory here and written by Reopen.
LoadRun(c) == ResumeAt(c, disk.pending)

Reopen(c) ==
  /\ At(c, "reopen")
  /\ Save(c, mem[c])
  /\ Goto(c, "visit")
  /\ UNCHANGED <<walk, outputs, provided, pool, notices, env>>

-----------------------------------------------------------------------------
(* The walk: _walk_plan's loop over the topological order.                 *)

SkipNode(c) ==
  /\ At(c, "visit") /\ HasNode(c) /\ ~DepsOk(c)
  /\ Save(c, Mark(c, cur[c], "skipped"))
  /\ cur' = [cur EXCEPT ![c] = @ + 1]
  /\ UNCHANGED <<pc, att, future, outputs, provided, pool, notices, env>>

Admitted(c) == At(c, "visit") /\ HasNode(c) /\ DepsOk(c) /\ ~BreakerOpen(c)

EnterNode(c) ==
  /\ Admitted(c) /\ cur[c] \in plan.handled
  /\ att' = [att EXCEPT ![c] = 0]
  /\ Goto(c, "retry")
  /\ UNCHANGED <<disk, mem, cur, future, outputs, provided, pool, notices, env>>

NoHandler(c) ==
  /\ Admitted(c) /\ cur[c] \notin plan.handled
  /\ FailNode(c)
  /\ Goto(c, "after")
  /\ UNCHANGED <<walk, outputs, provided, pool, notices, env>>

\* One turn of the retry loop: status written, handler submitted to the pool.
Attempt(c) ==
  /\ At(c, "retry") /\ att[c] < plan.retries[cur[c]]
  /\ Save(c, Mark(c, cur[c], IF att[c] = 0 THEN "running" ELSE "retrying"))
  /\ att' = [att EXCEPT ![c] = @ + 1]
  /\ future' = [future EXCEPT ![c] = "none"]
  /\ queued' = queued \cup
       {[call |-> c, node |-> cur[c], attempt |-> att[c] + 1]}
  /\ Goto(c, "wait")
  /\ UNCHANGED <<cur, outputs, provided, running, begun, notices, env>>

Awaited(c) == [call |-> c, node |-> cur[c], attempt |-> att[c]]

\* Slip: the wait ends only while the thread can still be cancelled.
TimeoutIfQueued(c) ==
  /\ At(c, "wait") /\ future[c] = "none" /\ Awaited(c) \in queued
  /\ queued' = queued \ {Awaited(c)}
  /\ Goto(c, "retry")
  /\ UNCHANGED <<disk, mem, walk, outputs, provided, running, begun, notices, env>>

\* future.result times out.  cancel() removes a thread that has not started
\* and does nothing to one that has.
Timeout(c) ==
  /\ At(c, "wait") /\ future[c] = "none"
  /\ queued' = queued \ {Awaited(c)}
  /\ Goto(c, "retry")
  /\ UNCHANGED <<disk, mem, walk, outputs, provided, running, begun, notices, env>>

HandlerRaised(c) ==
  /\ At(c, "wait") /\ future[c] = "error"
  /\ Goto(c, "retry")
  /\ UNCHANGED <<disk, mem, walk, outputs, provided, pool, notices, env>>

HandlerReturned(c) ==
  /\ At(c, "wait") /\ future[c] = "ok"
  /\ Save(c, Mark(c, cur[c], "succeeded"))
  /\ Goto(c, "after")
  /\ UNCHANGED <<walk, outputs, provided, pool, notices, env>>

Gated(c, n, fs) ==
  [Mark(c, cur[c], "awaiting_input") EXCEPT !.pending = n, !.wanted = fs]

\* Slips: the request is written before the run says that it waits, or names
\* the node after the one that waits.
HandlerGatedEarly(c) ==
  /\ At(c, "wait") /\ future[c] = "gate"
  /\ \E fs \in (SUBSET Fields) \ {{}} : Save(c, Gated(c, cur[c], fs))
  /\ Goto(c, "pause")
  /\ UNCHANGED <<walk, outputs, provided, pool, notices, env>>
HandlerGatedNext(c) ==
  /\ At(c, "wait") /\ future[c] = "gate"
  /\ \E fs \in (SUBSET Fields) \ {{}} : Save(c, Gated(c, cur[c] + 1, fs))
  /\ Goto(c, "pause")
  /\ UNCHANGED <<walk, outputs, provided, pool, notices, env>>

\* AwaitingHumanInputError: the node's status is written while the run still
\* says "running"; pending_input is set in memory only.
HandlerGated(c) ==
  /\ At(c, "wait") /\ future[c] = "gate"
  /\ disk' = Mark(c, cur[c], "awaiting_input")
  /\ \E fs \in (SUBSET Fields) \ {{}} :
       mem' = [mem EXCEPT ![c] = Gated(c, cur[c], fs)]
  /\ Goto(c, "pause")
  /\ UNCHANGED <<walk, outputs, provided, pool, notices, env>>

\* Slip: the walk stops without saying so.
PauseUnmarked(c) ==
  /\ At(c, "pause")
  /\ Save(c, mem[c])
  /\ Goto(c, "done")
  /\ UNCHANGED <<walk, outputs, provided, pool, notices, env>>

Pause(c) ==
  /\ At(c, "pause")
  /\ Save(c, [mem[c] EXCEPT !.overall = "awaiting_human_input"])
  /\ Goto(c, "done")
  /\ UNCHANGED <<walk, outputs, provided, pool, notices, env>>

GiveUp(c) ==
  /\ At(c, "retry") /\ att[c] >= plan.retries[cur[c]]
  /\ FailNode(c)
  /\ Goto(c, "after")
  /\ UNCHANGED <<walk, outputs, provided, pool, notices, env>>

Advance(c) ==
  /\ At(c, "after") /\ (plan.capable => ~BreakerOpen(c))
  /\ cur' = [cur EXCEPT ![c] = @ + 1]
  /\ Goto(c, "visit")
  /\ UNCHANGED <<disk, mem, att, future, outputs, provided, pool, notices, env>>

\* The breaker is looked at before a node (once its dependencies are known
\* to have succeeded) and again after it.
Trip(c) ==
  /\ pc[c] \in {"visit", "after"} /\ plan.capable
  /\ At(c, "visit") => HasNode(c) /\ DepsOk(c)
  /\ BreakerOpen(c)
  /\ cur' = [cur EXCEPT ![c] = IF At(c, "after") THEN @ + 1 ELSE @]
  /\ Goto(c, "trip")
  /\ UNCHANGED <<disk, mem, att, future, outputs, provided, pool, notices, env>>

Unvisited(c) == {n \in Nodes : n >= cur[c] /\ mem[c].status[n] = "pending"}

\* _skip_remaining_from: one write per node, then the verdict.
TripSkip(c) ==
  /\ At(c, "trip")
  /\ \E n \in Unvisited(c) :
       /\ \A m \in Unvisited(c) : n <= m
       /\ Save(c, Mark(c, n, "skipped"))
  /\ UNCHANGED <<pc, walk, outputs, provided, pool, notices, env>>

CircuitBroken(c) ==
  /\ At(c, "trip") /\ Unvisited(c) = {}
  /\ Save(c, [mem[c] EXCEPT !.overall = "circuit_broken"])
  /\ Goto(c, "done")
  /\ UNCHANGED <<walk, outputs, provided, pool, notices, env>>

Verdict(c) ==
  IF \E n \in Nodes : mem[c].status[n] = "failed" THEN "failed" ELSE "completed"
ActionAnswer(c) ==
  IF plan.actions = {} THEN mem[c].answer
  ELSE IF plan.actions \cap outputs[c] # {} THEN "ran" ELSE "not_run"
Judged(c) == [mem[c] EXCEPT !.overall = Verdict(c), !.answer = ActionAnswer(c)]

\* Slips: only a completed run is answered; the verdict is written before the
\* answer has been composed.
FinishIfCompleted(c) ==
  /\ At(c, "visit") /\ ~HasNode(c) /\ plan.capable
  /\ mem' = [mem EXCEPT ![c] = IF Verdict(c) = "completed" THEN Judged(c)
                               ELSE [@ EXCEPT !.overall = Verdict(c)]]
  /\ notices' = IF plan.actions = {} THEN notices ELSE notices + 1
  /\ Goto(c, "final")
  /\ UNCHANGED <<disk, walk, outputs, provided, pool, env>>
FinishEarly(c) ==
  /\ At(c, "visit") /\ ~HasNode(c) /\ plan.capable
  /\ disk' = [mem[c] EXCEPT !.overall = Verdict(c)]
  /\ mem' = [mem EXCEPT ![c] = Judged(c)]
  /\ notices' = IF plan.actions = {} THEN notices ELSE notices + 1
  /\ Goto(c, "final")
  /\ UNCHANGED <<walk, outputs, provided, pool, env>>

\* The end of the walk.  A run with an action node is answered here, from
\* RunContext.data, and announced before its last write.
Finish(c) ==
  /\ At(c, "visit") /\ ~HasNode(c) /\ plan.capable
  /\ mem' = [mem EXCEPT ![c] = Judged(c)]
  /\ notices' = IF plan.actions = {} THEN notices ELSE notices + 1
  /\ Goto(c, "final")
  /\ UNCHANGED <<disk, walk, outputs, provided, pool, env>>

FinalSave(c) ==
  /\ At(c, "final")
  /\ Save(c, mem[c])
  /\ Goto(c, "done")
  /\ UNCHANGED <<walk, outputs, provided, pool, notices, env>>

\* The no_capability branch: its one node (if any) has run; the message is
\* stored first and announced after.
Refuse(c) ==
  /\ At(c, "visit") /\ ~HasNode(c) /\ ~plan.capable
  /\ Save(c, [mem[c] EXCEPT !.overall = "no_capability", !.answer = "unsupported"])
  /\ Goto(c, "announce")
  /\ UNCHANGED <<walk, outputs, provided, pool, notices, env>>

Announce(c) ==
  /\ At(c, "announce")
  /\ notices' = notices + 1
  /\ Goto(c, "done")
  /\ UNCHANGED <<disk, mem, walk, outputs, provided, pool, env>>

-----------------------------------------------------------------------------
(* The thread pool.                                                        *)

StartThread(t) ==
  /\ t \in queued /\ Cardinality(running) < PoolSize
  /\ queued' = queued \ {t}
  /\ running' = running \cup {t}
  /\ begun' = begun \cup {t}
  /\ UNCHANGED <<disk, mem, pc, walk, outputs, provided, notices, env>>

\* A handler ends.  Its result reaches the call only if the call still waits
\* for it, what it left in RunContext.data is there either way.
ThreadEnds(t, outcome) ==
  /\ t \in running
  /\ outcome = "gate" => t.node \in plan.gated
  /\ running' = running \ {t}
  /\ outputs' = IF outcome = "ok"
                THEN [outputs EXCEPT ![t.call] = @ \cup {t.node}]
                ELSE outputs
  /\ future' = IF At(t.call, "wait") /\ t = Awaited(t.call)
               THEN [future EXCEPT ![t.call] = outcome]
               ELSE future
  /\ UNCHANGED <<disk, mem, pc, cur, att, provided, queued, begun, notices, env>>

-----------------------------------------------------------------------------
(* Faults.  Neither is ever repaired: nothing looks for a run that stays   *)
(* "running" with no call behind it.                                       *)

Crash ==
  /\ faults < MaxFaults
  /\ running # {} \/ \E c \in Calls : Active(c)
  /\ faults' = faults + 1
  /\ pc' = [c \in Calls |-> IF Active(c) THEN "dead" ELSE pc[c]]
  /\ queued' = {} /\ running' = {}
  /\ UNCHANGED <<plan, disk, mem, walk, outputs, provided, begun, notices, overlapped>>

\* A read or write of the run file or of the index raises, before or after the
\* file was replaced: the background task ends there.
CallDies(c) ==
  /\ faults < MaxFaults
  /\ Active(c)
  /\ At(c, "wait") => future[c] # "none"
  /\ faults' = faults + 1
  /\ Goto(c, "dead")
  /\ UNCHANGED <<plan, disk, mem, walk, outputs, provided, pool, notices, overlapped>>

-----------------------------------------------------------------------------
\* What a call does on its own, once it has been scheduled.
Step(c) ==
  \/ LoadRun(c) \/ Reopen(c)
  \/ SkipNode(c) \/ EnterNode(c) \/ NoHandler(c) \/ Attempt(c)
  \/ Timeout(c) \/ HandlerRaised(c) \/ HandlerReturned(c) \/ HandlerGated(c)
  \/ Pause(c) \/ GiveUp(c) \/ Advance(c) \/ Trip(c) \/ TripSkip(c)
  \/ CircuitBroken(c) \/ Finish(c) \/ FinalSave(c) \/ Refuse(c) \/ Announce(c)

Next ==
  \/ \E c \in Calls : CreateRun(c) \/ PostResume(c) \/ Step(c) \/ CallDies(c)
  \/ \E t \in queued : StartThread(t)
  \/ \E t \in running, outcome \in {"ok", "error", "gate"} : ThreadEnds(t, outcome)
  \/ Crash

Spec == Init /\ [][Next]_vars

\* A scheduled call keeps being scheduled, and future.result(timeout=...) does
\* time out.  Nothing is assumed of the human, of the pool or of a handler.
FairSpec == Spec /\ \A c \in Calls : WF_vars(Step(c))
-----------------------------------------------------------------------------
(* Properties.                                                             *)

\* Type invariant: the file and every call's RunState are whole snapshots of
\* this plan's run, and a call that works on a node is at a node of the plan.
TypeOK ==
  /\ plan \in Plans
  /\ disk \in Snapshot
  /\ mem \in [Calls -> Snapshot]
  /\ pc \in [Calls -> {"new", "load", "reopen", "visit", "retry", "wait", "after",
                       "pause", "trip", "final", "announce", "done", "dead"}]
  /\ cur \in [Calls -> Nat \ {0}]
  /\ \A c \in Calls : pc[c] \in {"retry", "wait", "after"} => cur[c] \in Nodes
  /\ att \in [Calls -> Nat]
  /\ future \in [Calls -> {"none", "ok", "error", "gate"}]
  /\ outputs \in [Calls -> SUBSET Nodes]
  /\ provided \in [Calls -> SUBSET Fields]
  /\ queued \subseteq Thread /\ running \subseteq Thread /\ begun \subseteq Thread
  /\ notices \in Nat /\ overlapped \in BOOLEAN /\ faults \in Nat

Failed(s) == {n \in Nodes : s.status[n] = "failed"}

\* "completed" is computed as "no node FAILED" (executor.py:243): a skipped
\* node is not looked at.  The file says "completed" only when every node
\* in fact succeeded.
CompletedMeansAllSucceeded ==
  disk.overall = "completed" => \A n \in Nodes : disk.status[n] = "succeeded"

\* A finished run's file is consistent: no node is left in flight, and the
\* verdict and the failure counter agree with the nodes' own statuses although
\* the counter is raised only after the failed status was written.
OutcomeMatchesNodes ==
  disk.overall \in Terminal =>
    /\ \A n \in Nodes : disk.status[n] \in Settled
    /\ disk.failures = Cardinality(Failed(disk))
    /\ disk.overall = "circuit_broken" <=> disk.failures >= plan.threshold
    /\ disk.overall = "failed" => Failed(disk) # {}

\* What a later resume_plan call finds in the file is a walk it can pick up:
\* one node awaits input, its dependencies succeeded, everything before it is
\* settled, nothing after it has begun, and the failures counted so far have
\* not reached the breaker.  Conversely a request is in the file only then.
PauseIsResumable ==
  /\ disk.pending # 0 <=> disk.overall = "awaiting_human_input"
  /\ disk.overall = "awaiting_human_input" =>
       /\ disk.wanted # {}
       /\ disk.status[disk.pending] = "awaiting_input"
       /\ \A d \in plan.deps[disk.pending] : disk.status[d] = "succeeded"
       /\ \A n \in Nodes : n < disk.pending => disk.status[n] \in Settled
       /\ \A n \in Nodes : n > disk.pending => disk.status[n] = "pending"
       /\ disk.failures = Cardinality(Failed(disk)) /\ disk.failures < plan.threshold

\* No handler ever starts before the nodes it depends on have succeeded, also
\* not in an abandoned thread that the pool starts late, nor after a resume.
DependenciesFirst ==
  \A t \in begun : \A d \in plan.deps[t.node] : mem[t.call].status[d] = "succeeded"

\* A node that cannot pause the run is executed at most max_retries times over
\* the whole life of the run, whatever is resumed, abandoned or crashes: the
\* planner gives an action node one attempt because a click cannot be undone.
\* (As long as no two calls walk the run at once.)
WithinAttemptBudget ==
  ~overlapped =>
    \A n \in Nodes \ plan.gated :
      Cardinality({t \in begun : t.node = n}) <= plan.retries[n]

\* A run of an action plan whose walk came to its end is answered in the very
\* write that ends it, and was announced before; one the breaker ended returns
\* before that (executor.py:234-241), so that its file has no answer and nobody is
\* told.  As long as no two calls overlap nothing is announced twice.
ActionAnswered ==
  /\ plan.actions # {} =>
       /\ disk.overall \in {"completed", "failed"} => disk.answer # "none" /\ notices >= 1
       /\ disk.overall = "circuit_broken" =>
            disk.answer = "none" /\ (overlapped \/ notices = 0)
  /\ ~overlapped => notices <= 1

\* The file shows a client nothing but a life RunLife allows: a status that is
\* terminal stays, a run that ends with an action's answer has it in the write
\* that ends it, a pause is left by a resume only.  Two resumes that were
\* accepted together are the one exception, and void it for good.
Life == INSTANCE RunLife WITH life <-
  [status |-> IF overlapped THEN "contended" ELSE disk.overall,
   answered |-> ~overlapped /\ disk.answer # "none",
   acts |-> plan.actions # {}]
Lifecycle == Life!Spec

\* A walk the executor has accepted always comes to an end, whatever hangs in
\* the pool: every background call returns or dies with its process.
EveryCallReturns == []<>(\A c \in Calls : ~Active(c))

\* A client that polls GET /runs sees "running" go away, unless a fault hit.
RunSettles ==
  disk.overall = "running" ~> (disk.overall # "running" \/ faults > 0)

\* executor.py:247-254 has an action run report "synchronously here", and
\* dag.py:176-182 its answer "set directly by executor.execute_plan": an action run
\* that is over has its answer.  (Refuted: the breaker's return skips it.)
EndedActionsAreAnswered ==
  disk.overall \in Terminal /\ plan.actions # {} => disk.answer # "none"

\* executor.py:275 tells the user "the action node did not run" whenever no
\* workflow reached RunContext.data.
AnswerIsTrue ==
  disk.answer = "not_run" => \A t \in begun : t.node \notin plan.actions

\* resume_plan (executor.py:140-145): when a call resumes the run "there is no
\* live thread" walking it already.
OneWalkAtATime == Cardinality({c \in Calls : Walking(c)}) <= 1
=============================================================================
