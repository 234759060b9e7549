-------------------------- MODULE MCWorkflowMemory --------------------------
(***************************************************************************)
(* Instances of WorkflowMemory for TLC: two handler threads of one         *)
(* process that attempt the same task.                                     *)
(***************************************************************************)
EXTENDS WorkflowMemory

MCKeys == {"book"}
MCNear == [k \in MCKeys |-> MCKeys]
MCWorkers == {"t1", "t2"}
MCProcess == [w \in MCWorkers |-> "orchestrator"]
=============================================================================
