----------------------------- MODULE MCRunStore -----------------------------
(***************************************************************************)
(* Instances of RunStore for TLC: the threads of one process, and the      *)
(* Orchestrator beside the Synthesizer.                                    *)
(***************************************************************************)
EXTENDS RunStore

MCRuns == {"r1", "r2"}
MCStatus == {"running", "completed"}
MCWriters == {"t1", "t2"}

OneProcess == [w \in MCWriters |-> "orchestrator"]
TwoProcesses == [w \in MCWriters |-> IF w = "t1" THEN "orchestrator" ELSE "synthesizer"]

\* Every writer has a run of its own.
OwnRun == [w \in MCWriters |-> IF w = "t1" THEN {"r1"} ELSE {"r2"}]
\* The second one also saves the first one's run, and prunes its own.
SharedRun == [w \in MCWriters |-> IF w = "t1" THEN {"r1"} ELSE {"r1", "r2"}]
OwnOldRun == [w \in MCWriters |-> IF w = "t1" THEN {} ELSE {"r2"}]
MCOps == [w \in MCWriters |-> IF w = "t1" THEN 1 ELSE 2]
Never == [w \in MCWriters |-> {}]
=============================================================================
