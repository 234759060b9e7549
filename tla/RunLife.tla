------------------------------- MODULE RunLife -------------------------------
(***************************************************************************)
(* What GET /runs/{run_id} promises a client: the life of one run, as the  *)
(* file shows it.  DagExecutor is shown to implement this module, and      *)
(* UiSession uses it as its server.                                        *)
(*                                                                         *)
(* A life is a record: the run's overall status, whether it has an answer, *)
(* and whether its plan is an action plan, whose answer comes with its     *)
(* last status.  "contended" stands for a run that two accepted resumes    *)
(* walk at once: nothing is promised of it.                                *)
(***************************************************************************)

VARIABLE life

Ended == {"completed", "failed", "circuit_broken", "no_capability"}
LifeStatus ==
  Ended \cup {"absent", "running", "awaiting_human_input", "contended"}
Lives == [status : LifeStatus, answered : BOOLEAN, acts : BOOLEAN]

Unborn == {l \in Lives : l.status = "absent" /\ ~l.answered}

----------------------------------------------------------------------------
(* Where a life can go from l, one operator for each thing that can happen. *)

Move(l, from, to) == IF l.status = from THEN {[l EXCEPT !.status = s] : s \in to} ELSE {}

\* create_run.
Begin(l) == Move(l, "absent", {"running", "no_capability"})

\* The walk stops at a gate; a resume reopens it.
Pause(l)  == Move(l, "running", {"awaiting_human_input"})
Resume(l) == Move(l, "awaiting_human_input", {"running"})

\* The walk is over.  An action run is answered by the write that ends it,
\* unless the breaker ended it.
Break(l) == Move(l, "running", {"circuit_broken"})
End(l) == {[m EXCEPT !.answered = m.acts] : m \in Move(l, "running", {"completed", "failed"})}
Refuse(l) == {[m EXCEPT !.answered = TRUE] : m \in Move(l, "no_capability", {"no_capability"})}

\* A second resume is accepted before the first has reopened the run.
Contend(l) ==
  {[m EXCEPT !.answered = FALSE] : m \in Move(l, "awaiting_human_input", {"contended"})}

\* The Synthesizer stores a draft.
Draft(l) ==
  IF l.status \in Ended \ {"no_capability"} THEN {[l EXCEPT !.answered = TRUE]} ELSE {}

\* What a run does by itself, once it has been triggered.
Progress(l) == Begin(l) \cup Pause(l) \cup Break(l) \cup End(l) \cup Refuse(l) \cup Draft(l)

----------------------------------------------------------------------------
Init == life \in Unborn
Next == life' \in Progress(life) \cup Resume(life) \cup Contend(life)
Spec == Init /\ [][Next]_life
=============================================================================
