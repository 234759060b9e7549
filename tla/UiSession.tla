------------------------------ MODULE UiSession ------------------------------
(***************************************************************************)
(* One browser session of ui/app.py over the Orchestrator's HTTP interface *)
(* (POST /trigger, GET /runs/{run_id}, POST /runs/{run_id}/resume).        *)
(*                                                                         *)
(* Each event handler is a generator that Gradio runs in a thread of its   *)
(* own: "click" and "enter" are ask(), "continue" is resume_gate().  One   *)
(* event has at most one generator at a time, different events do not      *)
(* wait for each other, and every yield of any of them sets the whole      *)
(* screen.  A GET and the yield it leads to are one step; a click and the  *)
(* start of its handler are two: the boxes' content comes from the browser *)
(* with the click, the run id is a gr.State that is read when the queued   *)
(* event starts (app.py:436, :467-471).  The server is the abstract run    *)
(* life of RunLife; a resume it accepts is a background task that may      *)
(* start at any later time.                                                *)
(***************************************************************************)
EXTENDS Integers, SequencesExt

CONSTANTS
  Runs,        \* run ids the server can hand out
  Outcomes,    \* the last statuses explored: the client only prints them
  NoRun,       \* run_id_state when it is None, and an empty password box
  MaxPolls,    \* _MAX_WAIT_SECONDS in polls
  MaxPauses,   \* pauses explored, of all runs together
  MaxFaults    \* lost or garbled replies explored

ASSUME NoRunAssumption == NoRun \notin Runs
ASSUME OutcomesAssumption ==
  Outcomes \subseteq {"completed", "failed", "circuit_broken", "no_capability"}
ASSUME BoundsAssumption ==
  MaxPolls \in Nat \ {0} /\ MaxPauses \in Nat /\ MaxFaults \in Nat

VARIABLES
  life,        \* what GET /runs shows of each run
  wanted,      \* pending_input.fields of each run
  triggered,   \* runs POST /trigger has handed to a background task
  tasks,       \* accepted resumes of each run whose task has not started
  screen,      \* the outputs of the page; asked (history): which pause of the
               \* run it asks about, 0 if none or if a resume was under way
  box,         \* the password box: the run it was typed for, its state
  gen,         \* the generator of each event
  pauses,      \* history: how often each run has paused
  alone,       \* history: no question has been under way since the last Continue
  died,        \* history: events whose last generator ended without a yield
  faults

marks == <<alone, died>>
vars == <<life, wanted, triggered, tasks, screen, box, gen, pauses, marks, faults>>
server == <<life, wanted, triggered, tasks, pauses>>

Server(r) == INSTANCE RunLife WITH life <- life[r]

Asking == {"click", "enter"}
Events == Asking \cup {"continue"}
Fields == {"email", "password"}
AnyRun == Runs \cup {NoRun}
About  == {"idle", "sending", "following", "done", "paused", "lost", "timedout",
           "unreachable", "rejected"}

Idle == [at |-> "idle", run |-> NoRun, waited |-> 0, given |-> {}, secret |-> NoRun]
Empty == [run |-> NoRun, state |-> "empty"]

-----------------------------------------------------------------------------
(* What the yields make of the screen.  gr.update(visible=...) alone leaves *)
(* the content of a box, gr.update(value="") alone leaves its visibility.   *)

Hidden(r, about) ==
  [run |-> r, about |-> about, gate |-> FALSE, boxes |-> {}, asked |-> 0]

\* Slip: the box for a password is never shown.
PromptingForEmail(r) ==
  [run |-> r, about |-> "paused", gate |-> TRUE, boxes |-> {"email"},
   asked |-> IF tasks[r] = <<>> THEN pauses[r] ELSE 0]

\* The paused branch of the poll: password box shown if asked for.
Prompting(r) ==
  [run |-> r, about |-> "paused", gate |-> TRUE,
   boxes |-> {"email"} \cup (wanted[r] \cap {"password"}),
   asked |-> IF tasks[r] = <<>> THEN pauses[r] ELSE 0]

Continuing(r) == [screen EXCEPT !.run = r, !.about = "following", !.gate = FALSE]

\* The two error branches of resume_gate.
Retrying(r, about) ==
  [screen EXCEPT !.run = r, !.about = about, !.gate = TRUE, !.boxes = @ \cup {"email"},
                  !.asked = IF screen.run = r THEN @ ELSE 0]

Shown == IF screen.gate THEN screen.boxes ELSE {}

-----------------------------------------------------------------------------
\* Research plans: an action plan never pauses, and an answer that comes with
\* the last status is also what a client sees of a draft between two polls.
Init ==
  /\ life = [r \in Runs |-> [status |-> "absent", answered |-> FALSE, acts |-> FALSE]]
  /\ wanted = [r \in Runs |-> {}]
  /\ triggered = {}
  /\ tasks = [r \in Runs |-> <<>>]
  /\ screen = Hidden(NoRun, "idle")
  /\ box = Empty
  /\ gen = [g \in Events |-> Idle]
  /\ pauses = [r \in Runs |-> 0]
  /\ alone = TRUE /\ died = {}
  /\ faults = 0

Active(g) == gen[g].at # "idle"
Stop(g) == gen' = [gen EXCEPT ![g] = Idle]
Fault == faults < MaxFaults /\ faults' = faults + 1

\* A handler raises between two yields: what the page shows stays.
Dies(g) == Stop(g) /\ died' = died \cup {g} /\ UNCHANGED <<screen, box, alone>>

-----------------------------------------------------------------------------
(* ask(): the first yield, the trigger, and what the client makes of its    *)
(* reply.                                                                   *)

AskNothing(g) ==
  /\ ~Active(g)
  /\ screen' = Hidden(NoRun, "idle")
  /\ alone' = FALSE /\ died' = died \ {g}
  /\ UNCHANGED <<server, box, gen, faults>>

Ask(g) ==
  /\ ~Active(g) /\ triggered # Runs
  /\ gen' = [gen EXCEPT ![g].at = "trigger"]
  /\ screen' = Hidden(NoRun, "sending")
  /\ alone' = FALSE /\ died' = died \ {g}
  /\ UNCHANGED <<server, box, faults>>

Triggered(g) ==
  /\ gen[g].at = "trigger"
  /\ \E r \in Runs \ triggered :
       /\ triggered' = triggered \cup {r}
       /\ gen' = [gen EXCEPT ![g].at = "poll", ![g].run = r]
       /\ screen' = Hidden(r, "following")
  /\ UNCHANGED <<life, wanted, tasks, pauses, box, marks, faults>>

\* No reply, an error, or a body without a run id.  The client waits 10 s, the planner's search may take
\* longer: the run may be created all the same.
TriggerFails(g) ==
  /\ gen[g].at = "trigger"
  /\ Stop(g)
  /\ screen' = Hidden(NoRun, "unreachable")
  /\ \/ UNCHANGED <<triggered, faults>>
     \/ \E r \in Runs \ triggered : triggered' = triggered \cup {r} /\ Fault
  /\ UNCHANGED <<life, wanted, tasks, pauses, box, marks>>

\* A 200 whose body is not JSON: resp.json() is outside the try (app.py:185).
TriggerGarbled(g) ==
  /\ gen[g].at = "trigger" /\ Fault
  /\ Dies(g)
  /\ \/ UNCHANGED triggered
     \/ \E r \in Runs \ triggered : triggered' = triggered \cup {r}
  /\ UNCHANGED <<life, wanted, tasks, pauses>>

-----------------------------------------------------------------------------
(* _poll_until_done_or_gate, for ask() and for resume_gate().               *)

Polling(g) == gen[g].at = "poll" /\ gen[g].waited < MaxPolls

\* What a GET may show: a run that two walks write shows anything.
Seen(r) ==
  IF life[r].status = "contended"
  THEN {[life[r] EXCEPT !.status = s, !.answered = a] :
          s \in {"running", "awaiting_human_input", "completed"}, a \in BOOLEAN}
  ELSE {life[r]}

\* No reply, or 404: the run's background task has not created its file yet.
LoseContact(g) ==
  /\ Polling(g)
  /\ IF life[gen[g].run].status = "absent" THEN UNCHANGED faults ELSE Fault
  /\ Stop(g)
  /\ screen' = Hidden(gen[g].run, "lost")
  /\ UNCHANGED <<server, box, marks>>

\* The same of a poll (app.py:118).
PollGarbled(g) ==
  /\ Polling(g) /\ Fault
  /\ Dies(g)
  /\ UNCHANGED server

\* An answer is looked for first, whatever the status.
ShowAnswer(g) ==
  /\ Polling(g) /\ life[gen[g].run].status # "absent"
  /\ \E s \in Seen(gen[g].run) : s.answered
  /\ Stop(g)
  /\ screen' = Hidden(gen[g].run, "done")
  /\ UNCHANGED <<server, box, marks, faults>>

ShowGateTo(g, content) ==
  LET r == gen[g].run IN
  /\ Polling(g)
  /\ \E s \in Seen(r) : s.status = "awaiting_human_input" /\ ~s.answered
  /\ Stop(g)
  /\ screen' = Prompting(r)
  /\ box' = content
  /\ UNCHANGED <<server, marks, faults>>

\* Slip: the box keeps what was typed before.
ShowGateOver(g) == ShowGateTo(g, box)

\* The generator ends; the human's answer will start another one.
ShowGate(g) == ShowGateTo(g, Empty)

\* Slip: the ceiling is not looked at before the next poll.
TickOn(g) ==
  /\ gen[g].at = "poll"
  /\ \E s \in Seen(gen[g].run) :
       s.status \notin {"absent", "awaiting_human_input"} /\ ~s.answered
  /\ gen' = [gen EXCEPT ![g].waited = @ + 1]
  /\ screen' = Hidden(gen[g].run, "following")
  /\ UNCHANGED <<server, box, marks, faults>>

Tick(g) ==
  /\ Polling(g)
  /\ \E s \in Seen(gen[g].run) :
       s.status \notin {"absent", "awaiting_human_input"} /\ ~s.answered
  /\ gen' = [gen EXCEPT ![g].waited = @ + 1]
  /\ screen' = Hidden(gen[g].run, "following")
  /\ UNCHANGED <<server, box, marks, faults>>

TimeOut(g) ==
  /\ gen[g].at = "poll" /\ gen[g].waited >= MaxPolls
  /\ Stop(g)
  /\ screen' = Hidden(gen[g].run, "timedout")
  /\ UNCHANGED <<server, box, marks, faults>>

-----------------------------------------------------------------------------
(* The human and resume_gate().  The button is in the gate's group, which   *)
(* is never shown without a run id.                                         *)

Type ==
  /\ "password" \in Shown
  /\ box' = [run |-> screen.run, state |-> "typed"]
  /\ UNCHANGED <<server, screen, gen, marks, faults>>

\* What is in the boxes goes with the click, a password whether its box shows or
\* not; run is the run the page names at that moment.
Continue ==
  LET g == "continue" IN
  /\ ~Active(g) /\ screen.gate
  /\ \E email \in SUBSET {"email"} :
       gen' = [gen EXCEPT ![g] =
         [at |-> "queued", run |-> screen.run, waited |-> 0, secret |-> box.run,
          given |-> email \cup (IF box.run = NoRun THEN {} ELSE {"password"})]]
  /\ box' = IF box.run = NoRun THEN box ELSE [box EXCEPT !.state = "sent"]
  /\ alone' = (\A h \in Asking : ~Active(h)) /\ died' = died \ {g}
  /\ UNCHANGED <<server, screen, faults>>

Queued == gen["continue"].at = "queued"
Posting == gen["continue"].at = "post"
Target == gen["continue"].run
Given == gen["continue"].given

\* The queued event starts and takes the run id that the last yield of any
\* generator has left.  Bound: two tasks of a run at most.
ResumeStarts ==
  /\ Queued /\ screen.run # NoRun /\ Len(tasks[screen.run]) < 2
  /\ gen' = [gen EXCEPT !["continue"].at = "post", !["continue"].run = screen.run]
  /\ UNCHANGED <<server, screen, box, marks, faults>>

\* "No paused run to resume": the boxes are hidden and keep what they hold.
NothingToResume ==
  /\ Queued /\ screen.run = NoRun
  /\ Stop("continue")
  /\ screen' = Hidden(NoRun, "idle")
  /\ box' = IF box.state = "sent" THEN [box EXCEPT !.state = "typed"] ELSE box
  /\ UNCHANGED <<server, marks, faults>>

\* resume_run: 409 unless paused, 400 unless every field is there.
Acceptable(s) == s.status = "awaiting_human_input" /\ wanted[Target] \subseteq Given
Accept ==
  /\ \E s \in Seen(Target) : Acceptable(s)
  /\ tasks' = IF life[Target].status = "contended" THEN tasks
              ELSE [tasks EXCEPT ![Target] = Append(@, Given)]
  /\ UNCHANGED <<life, wanted, triggered, pauses>>

Accepted ==
  /\ Posting /\ Accept
  /\ gen' = [gen EXCEPT !["continue"].at = "poll", !["continue"].secret = NoRun,
                        !["continue"].given = {}]
  /\ screen' = Continuing(Target)
  /\ box' = Empty
  /\ UNCHANGED <<marks, faults>>

Rejected ==
  /\ Posting /\ \E s \in Seen(Target) : ~Acceptable(s)
  /\ Stop("continue")
  /\ screen' = Retrying(Target, "rejected")
  /\ box' = Empty
  /\ UNCHANGED <<server, marks, faults>>

\* No reply within 10 s; the request may have been accepted.
UnreachableTo(content) ==
  /\ Posting /\ Fault
  /\ UNCHANGED server \/ Accept
  /\ Stop("continue")
  /\ screen' = Retrying(Target, "unreachable")
  /\ box' = content
  /\ UNCHANGED marks

\* Slip: only the reply of the server clears the box.
UnreachableKeeping == UnreachableTo(box)
Unreachable == UnreachableTo(Empty)

\* A 500 whose body is not JSON: exc.response.json() raises in the except
\* branch (app.py:235).
Garbled ==
  /\ Posting /\ Fault
  /\ Dies("continue")
  /\ UNCHANGED server

-----------------------------------------------------------------------------
(* The server.                                                              *)

Proceeds(r) ==
  /\ r \in triggered
  /\ \E l \in Server(r)!Progress(life[r]) :
       /\ l # life[r] /\ l.status \in Outcomes \cup {"running"}
       /\ life' = [life EXCEPT ![r] = l]
  /\ UNCHANGED <<wanted, triggered, tasks, pauses, screen, box, gen, marks, faults>>

Pauses(r) ==
  /\ FoldFunction(+, 0, pauses) < MaxPauses
  /\ \E l \in Server(r)!Pause(life[r]) : life' = [life EXCEPT ![r] = l]
  /\ \E fs \in {{"email"}, {"email", "password"}} : wanted' = [wanted EXCEPT ![r] = fs]
  /\ pauses' = [pauses EXCEPT ![r] = @ + 1]
  /\ UNCHANGED <<triggered, tasks, screen, box, gen, marks, faults>>

Suffices(r, given) == life[r].status = "awaiting_human_input" /\ wanted[r] \subseteq given

\* resume_plan: it checks again, and does nothing if the run has moved on.
TaskStarts(r, i) ==
  /\ i \in DOMAIN tasks[r]
  /\ tasks' = [tasks EXCEPT ![r] = RemoveAt(@, i)]
  /\ IF Suffices(r, tasks[r][i])
     THEN \E l \in Server(r)!Resume(life[r]) :
            life' = [life EXCEPT ![r] = l] /\ wanted' = [wanted EXCEPT ![r] = {}]
     ELSE UNCHANGED <<life, wanted>>
  /\ UNCHANGED <<triggered, pauses, screen, box, gen, marks, faults>>

\* Two of them load the paused run before either has reopened it.
BothStart(r) ==
  /\ Len(tasks[r]) = 2 /\ \A i \in DOMAIN tasks[r] : Suffices(r, tasks[r][i])
  /\ tasks' = [tasks EXCEPT ![r] = <<>>]
  /\ \E l \in Server(r)!Contend(life[r]) : life' = [life EXCEPT ![r] = l]
  /\ UNCHANGED <<wanted, triggered, pauses, screen, box, gen, marks, faults>>

-----------------------------------------------------------------------------
AskStep(g) ==
  \/ Triggered(g) \/ TriggerFails(g) \/ TriggerGarbled(g)
  \/ LoseContact(g) \/ PollGarbled(g) \/ ShowAnswer(g) \/ ShowGate(g) \/ Tick(g) \/ TimeOut(g)

ContinueStep ==
  \/ ResumeStarts \/ NothingToResume
  \/ Accepted \/ Rejected \/ Unreachable \/ Garbled
  \/ LoseContact("continue") \/ PollGarbled("continue")
  \/ ShowAnswer("continue") \/ ShowGate("continue")
  \/ Tick("continue") \/ TimeOut("continue")

Next ==
  \/ \E g \in Asking : AskNothing(g) \/ Ask(g) \/ AskStep(g)
  \/ Type \/ Continue \/ ContinueStep
  \/ \E r \in Runs : Proceeds(r) \/ Pauses(r) \/ BothStart(r) \/ \E i \in 1..2 : TaskStarts(r, i)

Spec == Init /\ [][Next]_vars

-----------------------------------------------------------------------------
(* Properties.                                                              *)

\* Types; among them, that no generator polls past _MAX_WAIT_SECONDS.
TypeOK ==
  /\ life \in [Runs -> [status : {"absent", "running", "awaiting_human_input",
                                  "completed", "failed", "circuit_broken",
                                  "no_capability", "contended"},
                        answered : BOOLEAN, acts : BOOLEAN]]
  /\ wanted \in [Runs -> SUBSET Fields]
  /\ triggered \subseteq Runs
  /\ tasks \in [Runs -> Seq(SUBSET Fields)] /\ \A r \in Runs : Len(tasks[r]) <= 2
  /\ screen \in [run : AnyRun, about : About, gate : BOOLEAN, boxes : SUBSET Fields,
                 asked : 0..MaxPauses]
  /\ box \in [run : AnyRun, state : {"empty", "typed", "sent"}]
  /\ gen \in [Events -> [at : {"idle", "trigger", "poll", "queued", "post"}, run : AnyRun,
                         waited : 0..MaxPolls, given : SUBSET Fields, secret : AnyRun]]
  /\ pauses \in [Runs -> 0..MaxPauses] /\ faults \in 0..MaxFaults
  /\ alone \in BOOLEAN /\ died \subseteq Events

\* Only a question asked meanwhile can lead a password astray: what a click sends
\* is the password typed under the prompt it was clicked at, although generators
\* replace the prompt, the run id and the boxes' visibility while it is typed; and
\* it is posted to that run if no question was under way from the click on
\* (app.py:142-148, :155-161, :225-232).
PasswordStaysWithItsPrompt ==
  Queued \/ (Posting /\ alone) => gen["continue"].secret \in {NoRun, Target}

\* "Sends whatever the human typed straight to POST /runs/{run_id}/resume and
\* nowhere else" (app.py:212-213): to the run that asked for it.  Any yield of
\* ask() between the click and the start changes the run id.
PasswordGoesWhereAsked == Posting => gen["continue"].secret \in {NoRun, Target}

\* "the field is cleared in every yield below so a plaintext password never
\* lingers in the page's rendered state past the one request that needed it"
\* (app.py:214-217): true of every reply the client can read.
PasswordLeaves == box.state = "sent" => Queued \/ Posting \/ "continue" \in died

\* A screen that nobody updates any more tells the truth about the run it
\* names, and if that run waits for a human, the boxes it waits for are there.
\* Nothing is said of a gate shown while a resume was under way, nor after an
\* error reply that met another run's screen: then asked is 0; and a handler that
\* died has left "sending" or "following" for good.
ScreenIsTrue ==
  LET r == screen.run
      followed == \E g \in Events : gen[g].run = r /\ gen[g].at \in {"poll", "post"}
      waiting == life[r].status = "awaiting_human_input" /\ pauses[r] = screen.asked
      askable == screen.gate /\ wanted[r] \subseteq Shown
  IN /\ screen.about = "sending" => died # {} \/ \E g \in Asking : gen[g].at = "trigger"
     /\ r # NoRun /\ ~followed /\ life[r].status # "contended" =>
          /\ screen.about = "following" => died # {}
          /\ screen.about = "done" => life[r].answered
          /\ screen.about = "paused" /\ screen.asked # 0 => waiting /\ askable
          /\ screen.about = "rejected" /\ waiting => askable
=============================================================================
