----------------------------- MODULE ActionLoop -----------------------------
(***************************************************************************)
(* agents/web_navigator/action_executor.py: what one handler thread does   *)
(* on a real page.  execute_action_loop asks the vision model for one      *)
(* action at a time and performs it, with a guard against payments and a   *)
(* recovery when actions seem to have no effect; execute_login_and_extract *)
(* fills in a login form with a human's credentials; replay_workflow       *)
(* performs the steps of an earlier success again, and explores afresh if  *)
(* anything raises.                                                        *)
(*                                                                         *)
(* The model and the page are the environment: every decision and every    *)
(* effect is possible.  A page is told apart by its HTML only where the    *)
(* code does so.                                                           *)
(***************************************************************************)
EXTENDS Integers, Sequences, SequencesExt

CONSTANTS
  MaxSteps,      \* action_max_steps
  Credentials,   \* what a human may have given for a login: sets of fields
  Legacy         \* step sequences other versions of this code have recorded

ASSUME MaxStepsAssumption == MaxSteps \in Nat \ {0}
ASSUME CredentialsAssumption == Credentials \subseteq SUBSET {"email", "password"}

VARIABLES
  pc,            \* where the thread is
  mode,          \* the function it is in: "explore", "login" or "replay"
  hook,          \* on_success_extract is given
  creds,         \* the credentials of a login
  prior,         \* the steps of a replay
  i,             \* the loop counter of the function
  steps,         \* the ActionSteps recorded so far
  success, refused, extracted, \* the other fields of the ActionWorkflow
  seen,          \* prev_signature could be taken
  changed,       \* the page's HTML has changed since
  stall,         \* stall_count
  hint,          \* the model is told that its action had no effect
  memory,        \* the steps stored for the task (WorkflowMemory), or << >>
  acted,         \* history: actions performed in this browser session
  performed,     \* history: their kinds in order, an abandoned replay's included
  typed,         \* history: how often each credential was typed
  paid,          \* history: something that looks like a payment was performed
  futile         \* history: the last action really had no effect

call == <<mode, hook, creds, prior>>
result == <<success, refused, extracted>>
watch == <<seen, changed, stall, hint>>
history == <<acted, performed, typed, paid, futile>>
vars == <<pc, call, i, steps, result, watch, memory, history>>

-----------------------------------------------------------------------------
\* A step: what to do, whether a click has coordinates, whether its words look like
\* a payment (_looks_like_payment_action), and the text it shows.
Acting == {"click", "type", "scroll"}
Ending == {"done", "refused", "stuck"}
Texts == {"none", "text", "email", "password", "redacted"}
ActionStep == [kind : Acting \cup Ending, aimed : BOOLEAN, pay : BOOLEAN, text : Texts]
ASSUME LegacyAssumption == Legacy \subseteq Seq(ActionStep)

Plain(kind) == [kind |-> kind, aimed |-> FALSE, pay |-> FALSE, text |-> "none"]

\* What decide_next_action may answer; any failure is "stuck".
Decision ==
  {s \in ActionStep : /\ s.aimed => s.kind = "click"
                      /\ s.text = IF s.kind = "type" THEN "text" ELSE "none"}

Performable(s) == s.kind \in Acting /\ (s.kind = "click" => s.aimed)
Given(f) == IF f \in creds THEN <<f>> ELSE << >>
Wanted == Given("email") \o Given("password")

\* How many of the first n steps act on the page.
ActsTo(ss, n) == Cardinality({m \in 1..n : ss[m].kind \in Acting})
Acts(ss) == ActsTo(ss, Len(ss))

Init ==
  /\ pc = "idle" /\ mode = "explore" /\ hook = FALSE /\ creds = {} /\ prior = << >>
  /\ i = 0 /\ steps = << >>
  /\ success = FALSE /\ refused = FALSE /\ extracted = FALSE
  /\ seen = FALSE /\ changed = FALSE /\ stall = 0 /\ hint = FALSE
  /\ acted = 0 /\ performed = << >> /\ paid = FALSE /\ futile = FALSE
  /\ typed = [f \in {"email", "password"} |-> 0]
  /\ memory \in Legacy \cup {<< >>}

\* An action on the page.
Touch(kind, pays) ==
  /\ acted' = acted + 1
  /\ performed' = Append(performed, kind)
  /\ paid' = (paid \/ pays)

\* It may do nothing, something the HTML does not show (a field gets the focus, or
\* a value), or something it shows.
Effect ==
  \/ changed' = FALSE /\ futile' \in BOOLEAN
  \/ changed' = TRUE /\ futile' = FALSE

\* Slip: only clicks are looked at, not what is typed.
LooksLikePaymentClick(s) == s.kind = "click" /\ s.pay

LooksLikePayment(s) == s.pay

-----------------------------------------------------------------------------
(* Beginning and ending a function.                                        *)

Begin(m, given, c, p) ==
  /\ pc = "idle"
  /\ mode' = m /\ hook' = given /\ creds' = c /\ prior' = p
  /\ pc' = "launch"
  /\ UNCHANGED <<i, steps, result, watch, memory, history>>

\* Bound: once this code has stored a workflow, only replays are begun; they may
\* still fall back to exploring.
Fresh == memory \in Legacy \cup {<< >>}

Explore == Fresh /\ \E given \in BOOLEAN : Begin("explore", given, {}, << >>)
Login == Fresh /\ \E c \in Credentials : Begin("login", TRUE, c, << >>)
Replay == memory # << >> /\ Begin("replay", FALSE, {}, memory)

\* launched_browser, new_page and goto.
Launch ==
  /\ pc = "launch"
  /\ acted' = 0 /\ futile' = FALSE
  /\ seen' \in (IF mode = "explore" THEN BOOLEAN ELSE {FALSE})
  /\ i' = 1
  /\ pc' = CASE mode = "explore" -> "decide"
             [] mode = "login" -> "field"
             [] mode = "replay" -> "replay"
  /\ UNCHANGED <<call, steps, result, changed, stall, hint, memory, performed, typed, paid>>

\* Any exception: a replay explores afresh, the others return what they have.
Raised ==
  IF mode = "replay"
  THEN /\ mode' = "explore" /\ prior' = << >> /\ pc' = "launch"
       /\ steps' = << >> /\ success' = FALSE /\ refused' = FALSE
       /\ UNCHANGED <<hook, creds, extracted>>
  ELSE /\ steps' = Append(steps, Plain("stuck")) /\ pc' = "return"
       /\ UNCHANGED <<call, result>>

\* Where an action is being performed.
Performing ==
  \/ pc = "execute" /\ Performable(Last(steps))
  \/ pc \in {"recover", "locate", "submit"}
  \/ pc = "pressed" /\ seen /\ ~changed
  \/ pc = "replay" /\ i <= Len(prior) /\ Performable(prior[i]) /\ ~LooksLikePayment(prior[i])

Doing ==
  CASE pc = "execute" -> Last(steps).kind
    [] pc = "replay" -> prior[i].kind
    [] OTHER -> "click"

\* The browser, the page or the disk raises, also in the middle of an action
\* that has been performed by then.
Fail ==
  /\ \/ pc = "launch" /\ acted' = 0 /\ UNCHANGED <<performed, typed, paid, futile>>
     \/ pc \in {"decide", "confirm", "close"} /\ UNCHANGED history
     \/ Performing /\ UNCHANGED history
     \/ Performing /\ Touch(Doing, FALSE) /\ UNCHANGED <<typed, futile>>
  /\ Raised
  /\ UNCHANGED <<i, watch, memory>>

Close ==
  /\ pc = "close"
  /\ pc' = "return"
  /\ UNCHANGED <<call, i, steps, result, watch, memory, history>>

\* handle_execute_action stores a success, if it can; what got past a gate is
\* not stored.
Return ==
  /\ pc = "return"
  /\ memory' \in {memory} \cup (IF success /\ ~hook THEN {steps} ELSE {})
  /\ pc' = "idle" /\ mode' = "explore" /\ hook' = FALSE /\ creds' = {} /\ prior' = << >>
  /\ i' = 0 /\ steps' = << >>
  /\ success' = FALSE /\ refused' = FALSE /\ extracted' = FALSE
  /\ seen' = FALSE /\ changed' = FALSE /\ stall' = 0 /\ hint' = FALSE
  /\ acted' = 0 /\ performed' = << >> /\ paid' = FALSE /\ futile' = FALSE
  /\ typed' = [f \in {"email", "password"} |-> 0]

-----------------------------------------------------------------------------
(* execute_action_loop.                                                    *)

\* A payment is replaced by a refusal, whatever the model thinks of it.
DecideWithin(limit) ==
  /\ pc = "decide" /\ i <= limit
  /\ \E d \in Decision :
       LET s == IF d.kind \in Acting /\ LooksLikePayment(d) THEN Plain("refused") ELSE d IN
         /\ steps' = Append(steps, s)
         /\ success' = (s.kind = "done") /\ refused' = (refused \/ s.kind = "refused")
         /\ extracted' \in (IF s.kind = "done" /\ hook THEN BOOLEAN ELSE {FALSE})
         /\ pc' = IF s.kind \in Acting THEN "execute" ELSE "close"
  /\ UNCHANGED <<call, i, watch, memory, history>>

\* Slip: one step more than action_max_steps.
DecideLong == DecideWithin(MaxSteps + 1)

Decide == DecideWithin(MaxSteps)

ExhaustedWith(verdict) ==
  /\ pc = "decide" /\ i > MaxSteps
  /\ success' = verdict
  /\ pc' = "close"
  /\ UNCHANGED <<call, i, steps, refused, extracted, watch, memory, history>>

\* Slip: a loop that was not stopped has succeeded.
ExhaustedWell == ExhaustedWith(TRUE)

Exhausted == ExhaustedWith(FALSE)

\* _execute_step, and a type into the focused field without coordinates.
Execute ==
  /\ pc = "execute" /\ Performable(Last(steps))
  /\ Touch(Last(steps).kind, Last(steps).pay) /\ Effect
  /\ pc' = "observe"
  /\ UNCHANGED <<call, i, steps, result, seen, stall, hint, memory, typed>>

\* _execute_step of a click without coordinates.
CannotExecute ==
  /\ pc = "execute" /\ ~Performable(Last(steps))
  /\ Raised
  /\ UNCHANGED <<i, watch, memory, history>>

\* _page_signature before and after: two that could not be taken are never equal.
Observe ==
  /\ pc = "observe"
  /\ seen' \in BOOLEAN /\ changed' = FALSE
  /\ LET unchanged == seen /\ seen' /\ ~changed IN
       /\ stall' = IF unchanged THEN stall + 1 ELSE 0
       /\ hint' = (hint /\ unchanged)
  /\ IF stall' >= 2 THEN pc' = "recover" /\ i' = i
                    ELSE pc' = "decide" /\ i' = i + 1
  /\ UNCHANGED <<call, steps, result, memory, history>>

\* A recovery of a type is one action, the click that finds the field included.
Recovered ==
  [Last(steps) EXCEPT !.kind = IF @ = "type" THEN "type" ELSE "click",
                      !.text = IF Last(steps).kind = "type" THEN @ ELSE "none",
                      !.aimed = FALSE]

\* _click_anywhere_by_reasoning finds an element, clicks it and, when the
\* stalled step was a type, types its text; recorded without coordinates.
RecoverWith(recorded, count) ==
  /\ pc = "recover"
  /\ Touch(Recovered.kind, Last(steps).pay)
  /\ steps' = recorded
  /\ stall' = count /\ hint' = FALSE /\ seen' \in BOOLEAN
  /\ pc' = "decide" /\ i' = i + 1
  /\ UNCHANGED <<call, result, changed, memory, typed, futile>>

\* Slip: what a recovery typed is recorded as the click that found the field.
RecoverMisrecorded ==
  RecoverWith(Append(steps, [Recovered EXCEPT !.kind = "click", !.text = "none"]), 0)

\* Slip: stall_count is not reset.
RecoverAgain == RecoverWith(Append(steps, Recovered), stall)

Recover == RecoverWith(Append(steps, Recovered), 0)

\* No element matches, or the page cannot be asked.
Hint ==
  /\ pc = "recover"
  /\ hint' = TRUE
  /\ pc' = "decide" /\ i' = i + 1
  /\ UNCHANGED <<call, steps, result, seen, changed, stall, memory, history>>

-----------------------------------------------------------------------------
(* execute_login_and_extract.                                              *)

Field == Wanted[i]
Filled(shown) == [Plain("type") EXCEPT !.text = shown]

\* Slip: the value typed is the value recorded.
ShownAsTyped(f) == f

Shown(f) == IF f = "password" THEN "redacted" ELSE f

\* _locate_field_directly finds the field by its HTML.
FillDirect ==
  /\ pc = "field" /\ i <= Len(Wanted)
  /\ Touch("type", FALSE) /\ typed' = [typed EXCEPT ![Field] = @ + 1]
  /\ steps' = Append(steps, Filled(Shown(Field)))
  /\ i' = i + 1
  /\ UNCHANGED <<pc, call, result, watch, memory, futile>>

\* It does not, or it raises, before or after typing: the model is asked.
AskForField ==
  /\ pc = "field" /\ i <= Len(Wanted)
  /\ \/ UNCHANGED history
     \/ Touch("type", FALSE) /\ typed' = [typed EXCEPT ![Field] = @ + 1] /\ UNCHANGED futile
  /\ pc' = "locate"
  /\ UNCHANGED <<call, i, steps, result, watch, memory>>

\* Where a login ends early: refused, or something that is no click on a place.
Stops(d) ==
  /\ refused' = (d.kind = "refused" \/ LooksLikePayment(d))
  /\ refused' \/ d.kind # "click" \/ ~d.aimed
  /\ steps' = Append(steps, Plain(IF refused' THEN "refused" ELSE "stuck"))
  /\ pc' = "close"
  /\ UNCHANGED <<call, i, success, extracted, watch, memory, history>>

Presses(d) ==
  /\ d.kind = "click" /\ d.aimed /\ ~LooksLikePayment(d)
  /\ Touch("click", d.pay)
  /\ UNCHANGED <<call, result, stall, hint, memory>>

FillLocated ==
  /\ pc = "locate"
  /\ \E d \in Decision :
       \/ Stops(d)
       \/ /\ Presses(d)
          /\ typed' = [typed EXCEPT ![Field] = @ + 1]
          /\ steps' = Append(steps, Filled(Shown(Field)))
          /\ pc' = "field" /\ i' = i + 1 /\ UNCHANGED <<seen, changed, futile>>

\* All fields are filled.
AskToSubmit ==
  /\ pc = "field" /\ i > Len(Wanted)
  /\ pc' = "submit"
  /\ UNCHANGED <<call, i, steps, result, watch, memory, history>>

Submit ==
  /\ pc = "submit"
  /\ \E d \in Decision :
       \/ Stops(d)
       \/ /\ Presses(d)
          /\ seen' \in BOOLEAN /\ Effect
          /\ steps' = Append(steps, d)
          /\ pc' = "pressed" /\ UNCHANGED <<i, typed>>

\* The click shows no effect: once, the button is looked for by its label.
Pressed ==
  /\ pc = "pressed"
  /\ \/ UNCHANGED <<steps, history>>
     \/ /\ seen /\ ~changed
        /\ Touch(Recovered.kind, Last(steps).pay) /\ UNCHANGED <<typed, futile>>
        /\ steps' = Append(steps, Recovered)
  /\ pc' = "confirm"
  /\ UNCHANGED <<call, i, result, watch, memory>>

Confirm ==
  /\ pc = "confirm"
  /\ \E d \in Decision :
       /\ steps' = Append(steps, d)
       /\ success' = (d.kind = "done")
       /\ extracted' \in (IF d.kind = "done" THEN BOOLEAN ELSE {FALSE})
  /\ pc' = "close"
  /\ UNCHANGED <<call, i, refused, watch, memory, history>>

-----------------------------------------------------------------------------
(* replay_workflow.                                                        *)

ReplayStep ==
  /\ pc = "replay" /\ i <= Len(prior)
  /\ LET s == prior[i] IN
       \/ /\ s.kind \in Ending
          /\ steps' = Append(steps, s) /\ i' = i + 1
          /\ UNCHANGED <<pc, mode, hook, creds, prior, result, history>>
       \/ /\ s.kind \in Acting /\ LooksLikePayment(s)
          /\ steps' = Append(steps, Plain("refused"))
          /\ refused' = TRUE /\ pc' = "close"
          /\ UNCHANGED <<i, call, success, extracted, history>>
       \/ /\ Performable(s) /\ ~LooksLikePayment(s)
          /\ Touch(s.kind, s.pay)
          /\ steps' = Append(steps, s) /\ i' = i + 1
          /\ UNCHANGED <<pc, call, result, typed, futile>>
       \/ /\ s.kind = "click" /\ ~s.aimed /\ ~LooksLikePayment(s)
          /\ Raised
          /\ UNCHANGED <<i, history>>
  /\ UNCHANGED <<watch, memory>>

Replayed ==
  /\ pc = "replay" /\ i > Len(prior)
  /\ success' = TRUE
  /\ pc' = "close"
  /\ UNCHANGED <<call, i, steps, refused, extracted, watch, memory, history>>

-----------------------------------------------------------------------------
Step ==
  \/ Launch \/ Decide \/ Exhausted \/ Execute \/ CannotExecute \/ Observe
  \/ Recover \/ Hint
  \/ FillDirect \/ AskForField \/ FillLocated \/ AskToSubmit \/ Submit \/ Pressed
  \/ Confirm \/ ReplayStep \/ Replayed
  \/ Fail \/ Close \/ Return

Next == Explore \/ Login \/ Replay \/ Step

\* No fairness: page.evaluate, page.content, the mouse and the keyboard have no
\* timeout, so a thread may stay in any of its calls.
Spec == Init /\ [][Next]_vars

-----------------------------------------------------------------------------
(* Properties.                                                             *)

\* Type invariant; the counters stay within what one function can do.
TypeOK ==
  /\ pc \in {"idle", "launch", "decide", "execute", "observe", "recover", "field", "locate",
             "submit", "pressed", "confirm", "replay", "close", "return"}
  /\ mode \in {"explore", "login", "replay"} /\ hook \in BOOLEAN
  /\ creds \in Credentials \cup {{}}
  /\ i \in Nat /\ seen \in BOOLEAN /\ changed \in BOOLEAN /\ stall \in Nat /\ acted \in Nat
  /\ <<success, refused, extracted, hint, paid>> \in BOOLEAN \X BOOLEAN \X BOOLEAN \X BOOLEAN \X BOOLEAN
  /\ pc \notin {"launch", "return"} =>
       i <= 1 + CASE mode = "explore" -> MaxSteps
                  [] mode = "login" -> Len(Wanted)
                  [] mode = "replay" -> Len(prior)
  /\ typed \in [{"email", "password"} -> 0..2] /\ futile \in BOOLEAN
  /\ performed \in Seq(Acting) /\ acted <= Len(performed)
  /\ \A ss \in {prior, steps, memory} : \A n \in DOMAIN ss : ss[n] \in ActionStep

\* Nothing that looks like a payment is ever performed, whether the model
\* proposed it, a recovery repeats it or a memory of it is replayed
\* (action_executor.py:13-18).
NothingPaidFor == ~paid

\* What is reported is what happened: a success was seen by the model after the
\* last action, or is a replay that performed every step, or a login that typed
\* every credential and pressed the button; only a success behind a gate has text.
OutcomeIsHonest ==
  pc = "return" =>
    /\ ~(success /\ refused)
    /\ extracted => success /\ hook
    /\ success =>
         CASE mode = "explore" ->
                \E n \in DOMAIN steps : /\ steps[n].kind = "done"
                                        /\ \A m \in n..Len(steps) : steps[m].kind \in Ending
           [] mode = "login" ->
                (\A f \in creds : typed[f] > 0) /\ acted > Len(Wanted)
           [] mode = "replay" -> acted = Acts(prior)

\* The password is typed, and is in no step: steps are shown to the model with
\* every later question, and are logged and stored (action_executor.py:467-480).
SecretStaysOut ==
  \A ss \in {prior, steps, memory} : \A n \in DOMAIN ss : ss[n].text # "password"

\* However confused the model and the page are, a function acts a bounded number
\* of times: recoveries come on top of action_max_steps, but only every other step.
\* A loop that a replay falls back to has its own bound.
EffortIsBounded ==
  pc # "launch" =>
    acted <= CASE mode = "explore" -> MaxSteps + MaxSteps \div 2
               [] mode = "login" -> 2 * Len(Wanted) + 2
               [] mode = "replay" -> Len(prior)

\* The steps that act say, in order, what the browser session did last.
TailIsSteps ==
  /\ acted = Acts(steps)
  /\ \A n \in DOMAIN steps :
       steps[n].kind \in Acting =>
         performed[Len(performed) - acted + ActsTo(steps, n)] = steps[n].kind

\* The steps a success leaves to be replayed are what was done in the browser
\* session that succeeded, each action by its kind and in the order they were
\* performed, recoveries included.  What a replay did in its own session before
\* it fell back is not among them (AllIsAuditable), and a recovered click
\* has lost its coordinates (StoredIsReplayable).
WhatWasDoneIsKept == pc = "return" /\ success /\ mode # "login" => TailIsSteps

\* "The full sequence of what this system actually did to a real page is
\* auditable after the fact" (action_executor.py:20-22): a success says how many
\* actions there have been.  A replay that falls back has acted too (:717-719).
AllIsAuditable ==
  pc = "return" /\ success /\ mode # "login" => Len(performed) = Acts(steps)

\* A success is "a recorded, replayable workflow" (models/action.py:2).
StoredIsReplayable ==
  memory \notin Legacy => \A n \in DOMAIN memory : memory[n].kind = "click" => memory[n].aimed

\* The recovery acts "only once the loop has PROOF (not a guess) that its last
\* action had no effect" (action_executor.py:65-66).
StallIsProof == pc = "recover" => futile
=============================================================================
