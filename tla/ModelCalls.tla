----------------------------- MODULE ModelCalls -----------------------------
(***************************************************************************)
(* The calls a process makes to a language or vision model:                *)
(* LyzrAgentWrapper.run (common/lyzr_wrapper.py) as the Synthesizer drafts *)
(* with it, or VisionAgentWrapper.decide_action (common/vision_wrapper.py) *)
(* as the action executor decides with it, each under the tracing          *)
(* decorator of common/langfuse_tracer.py.                                 *)
(*                                                                         *)
(* The calls of a process share one wrapper object, on which the last      *)
(* answer's model and token counts are left for the trace to pick up, and  *)
(* the module's one Langfuse client, which the first call builds.  The     *)
(* Synthesizer makes one call at a time; the action executor makes one for *)
(* every handler thread at work.  The models and Langfuse are external.    *)
(***************************************************************************)
EXTENDS Integers, Sequences

CONSTANTS
  Calls,
  None,
  MaxFaults    \* failures of a model or of Langfuse

ASSUME FaultsAssumption == MaxFaults \in Nat
ASSUME NoneAssumption == None \notin Calls

VARIABLES
  setup,       \* the wrapper, and the settings lyzr_enabled and langfuse_enabled
  attempted,   \* _langfuse_init_attempted
  client,      \* whether _langfuse_client is there
  last,        \* the wrapper's last_model and last_usage
  at,          \* where each call is
  call,        \* its own data
  reports,     \* the generations that were sent to Langfuse
  faults

vars == <<setup, attempted, client, last, at, call, reports, faults>>

Text == setup.wrapper = "text"

\* The backends in the order in which they are asked.
Backends ==
  IF ~Text THEN <<"vision">>
  ELSE IF setup.lyzr THEN <<"lyzr", "openrouter">> ELSE <<"openrouter">>

\* What an answer is made of when no model gave one: the template of
\* draft_answer, the step "stuck" of decide_next_action.
Substitute == IF Text THEN "template" ELSE "stuck"

\* What a reply is read as.  A draft is taken as it is; a decision must name a
\* kind of step that the executor knows, strictly parsed or salvaged.
Reading(reply) == IF ~Text /\ reply = "junk" THEN "stuck" ELSE reply

Fresh == [asked |-> 1, traced |-> FALSE, reply |-> "none", model |-> "none",
          usage |-> None, got |-> "none"]

Init ==
  /\ setup \in {s \in [wrapper : {"text", "vision"}, lyzr : BOOLEAN, langfuse : BOOLEAN] :
                  s.lyzr => s.wrapper = "text"}
  /\ attempted = FALSE /\ client = FALSE
  /\ last = [model |-> "none", usage |-> None]
  /\ at = [c \in Calls |-> "idle"]
  /\ call = [c \in Calls |-> Fresh]
  /\ reports = {}
  /\ faults = 0

Goto(c, where) == at' = [at EXCEPT ![c] = where]
Fault == faults < MaxFaults /\ faults' = faults + 1
Busy == {c \in Calls : at[c] \notin {"idle", "done"}}

-----------------------------------------------------------------------------
(* The decorator, up to the call.                                          *)

Begin(c) ==
  /\ at[c] = "idle"
  /\ Text => Busy = {}
  /\ Goto(c, "client")
  /\ UNCHANGED <<setup, attempted, client, last, call, reports, faults>>

\* _get_client looks at the flag and then sets it: two calls may both find it
\* unset, and then both build a client.
FindAttempted(c) ==
  /\ at[c] = "client"
  /\ Goto(c, IF attempted THEN "trace" ELSE "claim")
  /\ UNCHANGED <<setup, attempted, client, last, call, reports, faults>>

Claim(c) ==
  /\ at[c] = "claim"
  /\ attempted' = TRUE
  /\ Goto(c, IF setup.langfuse THEN "build" ELSE "trace")
  /\ UNCHANGED <<setup, client, last, call, reports, faults>>

\* A construction that fails takes away a client that another call has built.
BuildClient(c) ==
  /\ at[c] = "build"
  /\ \/ client' = TRUE /\ UNCHANGED faults
     \/ client' = FALSE /\ Fault
  /\ Goto(c, "trace")
  /\ UNCHANGED <<setup, attempted, last, call, reports>>

StartTrace(c) ==
  /\ at[c] = "trace"
  /\ \/ call' = [call EXCEPT ![c].traced = client] /\ UNCHANGED faults
     \/ client /\ Fault /\ UNCHANGED call
  /\ Goto(c, "ask")
  /\ UNCHANGED <<setup, attempted, client, last, reports>>

-----------------------------------------------------------------------------
(* The call.                                                               *)

Asked(c) == Backends[call[c].asked]

\* Slip: the text wrapper, too, keeps the usage of an earlier answer.
LeavesUsage(c, usage) ==
  last' = [model |-> Asked(c), usage |-> IF usage = None THEN last.usage ELSE usage]

\* What an answer leaves on the wrapper: the vision wrapper leaves the usage of
\* an earlier answer there if this one came without.
Leaves(c, usage) ==
  last' = [model |-> Asked(c),
           usage |-> IF ~Text /\ usage = None THEN last.usage ELSE usage]

Answers(c) ==
  /\ at[c] = "ask"
  /\ \E reply \in {"good", "junk"}, usage \in {c, None} :
       /\ call' = [call EXCEPT ![c].reply = reply, ![c].model = Asked(c), ![c].usage = usage]
       /\ Leaves(c, usage)
  /\ Goto(c, "report")
  /\ UNCHANGED <<setup, attempted, client, reports, faults>>

\* The primary backend's failure is logged and the fallback asked.
FallsBack(c) ==
  /\ at[c] = "ask" /\ call[c].asked < Len(Backends) /\ Fault
  /\ call' = [call EXCEPT ![c].asked = @ + 1]
  /\ UNCHANGED <<setup, attempted, client, last, at, reports>>

\* The last backend raises; the vision wrapper may also do so over an answer
\* without choices, when its usage is already noted.
Fails(c) ==
  /\ at[c] = "ask" /\ call[c].asked = Len(Backends) /\ Fault
  /\ \/ UNCHANGED last
     \/ ~Text /\ \E usage \in {c, None} : Leaves(c, usage)
  /\ Goto(c, "raise")
  /\ UNCHANGED <<setup, attempted, client, call, reports>>

-----------------------------------------------------------------------------
(* The decorator, after the call.                                          *)

Return(c, got) ==
  /\ call' = [call EXCEPT ![c].got = got]
  /\ Goto(c, "done")
  /\ UNCHANGED <<setup, attempted, client, last>>

\* What the trace of a call is told to have been used.
Reported(c, usage) == reports \cup {[call |-> c, model |-> last.model, usage |-> usage]}

\* The last usage is not one a ModelUsage can be made of: none is reported.
ModelUsageFails == last.usage # None /\ Fault

\* Slip: a ModelUsage that cannot be built raises in the caller's face.
ReportOrRaise(c) ==
  /\ at[c] = "report" /\ call[c].traced
  /\ \/ ModelUsageFails /\ UNCHANGED reports /\ Return(c, Substitute)
     \/ reports' = Reported(c, last.usage) /\ UNCHANGED faults /\ Return(c, Reading(call[c].reply))

\* Whatever becomes of the trace, the reply is returned.
Report(c) ==
  /\ at[c] = "report"
  /\ \/ ~call[c].traced /\ UNCHANGED <<reports, faults>>
     \/ call[c].traced /\ reports' = Reported(c, last.usage) /\ UNCHANGED faults
     \/ call[c].traced /\ ModelUsageFails /\ reports' = Reported(c, None)
     \/ call[c].traced /\ Fault /\ UNCHANGED reports
  /\ Return(c, Reading(call[c].reply))

\* The error goes into the trace, if that succeeds, and on to draft_answer or
\* decide_next_action, which never raise.
Raise(c) ==
  /\ at[c] = "raise"
  /\ Return(c, Substitute)
  /\ UNCHANGED <<reports, faults>>

Next ==
  \E c \in Calls :
    \/ Begin(c) \/ FindAttempted(c) \/ Claim(c) \/ BuildClient(c) \/ StartTrace(c)
    \/ Answers(c) \/ FallsBack(c) \/ Fails(c) \/ Report(c) \/ Raise(c)

Spec == Init /\ [][Next]_vars
-----------------------------------------------------------------------------
(* Properties.                                                             *)

TypeOK ==
  /\ setup \in [wrapper : {"text", "vision"}, lyzr : BOOLEAN, langfuse : BOOLEAN]
  /\ attempted \in BOOLEAN /\ client \in BOOLEAN
  /\ last \in [model : {"none", "lyzr", "openrouter", "vision"}, usage : Calls \cup {None}]
  /\ at \in [Calls -> {"idle", "client", "claim", "build", "trace", "ask", "report", "raise", "done"}]
  /\ call \in [Calls -> [asked : 1..2, traced : BOOLEAN, reply : {"none", "good", "junk"},
                         model : {"none", "lyzr", "openrouter", "vision"},
                         usage : Calls \cup {None},
                         got : {"none", "good", "junk", "template", "stuck"}]]
  /\ faults \in 0..MaxFaults

\* langfuse_tracer.py:1-9: tracing never costs an answer.  Whatever Langfuse does
\* and whichever calls overlap, a caller gets what its own model said, and the
\* substitute only if every model it could ask has failed.
TracingIsHarmless ==
  \A c \in Calls : at[c] = "done" =>
    call[c].got = IF call[c].reply = "none" THEN Substitute ELSE Reading(call[c].reply)

\* lyzr_wrapper.py:210-216: the Synthesizer's traces name the model and the
\* tokens of the call they are about, although these go through the wrapper
\* object and the earlier calls have left theirs there.
TextReportsAreOwn ==
  Text => \A g \in reports : /\ g.model = call[g.call].model
                             /\ g.usage \in {None, call[g.call].usage}

\* vision_wrapper.py:68-70: the last model and usage are stashed so that the
\* trace "can report the real model/token counts".
ReportsAreOwn == \A g \in reports : g.usage \in {None, call[g.call].usage}
=============================================================================
