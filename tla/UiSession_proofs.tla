-------------------------- MODULE UiSession_proofs --------------------------
(***************************************************************************)
(* What a browser session shows and posts, for any number of runs and of   *)
(* polls: a click sends the password typed under its own prompt, which     *)
(* goes to that prompt's run unless a question is under way, and leaves    *)
(* the page with the reply; a screen that nobody updates is true.          *)
(*                                                                         *)
(* Three event handlers write the whole screen, so the invariant ties what *)
(* the screen says to the run it names: by whom it is followed (FollowInv),*)
(* which pause it asks about and whether its boxes suffice (AskInv).       *)
(* The bounds of the type invariant follow last, with what the fold over   *)
(* the runs' pauses is for any finite set of runs (SumBounds).             *)
(***************************************************************************)
EXTENDS UiSession, FiniteSetTheorems, WellFoundedInduction, TLAPS

LifeStatus == {"absent", "running", "awaiting_human_input", "completed", "failed",
               "circuit_broken", "no_capability", "contended"}
Ended == {"completed", "failed", "circuit_broken", "no_capability"}
Lives == [status : LifeStatus, answered : BOOLEAN, acts : BOOLEAN]
Screens == [run : AnyRun, about : About, gate : BOOLEAN, boxes : SUBSET Fields, asked : Nat]
PasswordBoxes == [run : AnyRun, state : {"empty", "typed", "sent"}]
Generators == [at : {"idle", "trigger", "poll", "queued", "post"}, run : AnyRun, waited : Nat,
               given : SUBSET Fields, secret : AnyRun]

ServerShape ==
  /\ life \in [Runs -> Lives]
  /\ wanted \in [Runs -> SUBSET Fields]
  /\ triggered \subseteq Runs
  /\ tasks \in [Runs -> Seq(SUBSET Fields)]
  /\ pauses \in [Runs -> Nat]

ClientShape ==
  /\ screen \in Screens
  /\ box \in PasswordBoxes
  /\ gen \in [Events -> Generators]
  /\ faults \in Nat
  /\ alone \in BOOLEAN /\ died \subseteq Events

Resuming == {"queued", "post"}

\* A generator that polls or resumes has a run; only "continue" resumes.
GenInv ==
  /\ \A g \in Events : gen[g].at \in {"poll"} \cup Resuming => gen[g].run \in Runs
  /\ \A g \in Asking : gen[g].at \notin Resuming

\* An answer comes with an end, and a run that waits has paused.
LifeInv ==
  \A r \in Runs :
    /\ life[r].answered => life[r].status \in Ended
    /\ life[r].status = "awaiting_human_input" => pauses[r] >= 1

\* Where a password may be.
BoxInv ==
  /\ screen.gate => screen.run \in Runs /\ box.run \in {NoRun, screen.run}
  /\ Queued \/ (Posting /\ alone) => gen["continue"].secret \in {NoRun, Target}
  /\ box.state = "sent" => Queued \/ Posting \/ "continue" \in died

\* Alone, nothing moves the screen between the click and the start.
AloneInv == Queued /\ alone => Target = screen.run /\ \A g \in Asking : ~Active(g)

\* What the screen says of the run it names is kept up to date, or was true.
FollowInv ==
  /\ screen.about = "following" =>
       /\ died # {} \/ \E g \in Events : gen[g].at = "poll" /\ gen[g].run = screen.run
       /\ screen.asked # 0 => gen["continue"].at \notin Resuming
  /\ screen.about = "sending" => died # {} \/ \E g \in Asking : gen[g].at = "trigger"
  /\ screen.gate => screen.about \in {"paused", "rejected", "unreachable"}

TruthInv ==
  LET r == screen.run IN
  r \in Runs /\ life[r].status # "contended" =>
    /\ screen.about = "done" => life[r].answered
    /\ screen.about = "paused" /\ screen.asked # 0 =>
         /\ life[r].status = "awaiting_human_input" /\ pauses[r] = screen.asked
         /\ tasks[r] = << >>

\* A gate that asks about the present pause asks for all it needs.
AskInv ==
  /\ screen.about \in {"paused", "rejected"} => screen.gate
  /\ screen.about # "following" =>
       LET r == screen.run IN
       /\ screen.asked # 0 => r \in Runs /\ screen.asked <= pauses[r]
       /\ screen.asked # 0 /\ life[r].status = "awaiting_human_input"
            /\ pauses[r] = screen.asked => wanted[r] \subseteq screen.boxes

ScreenInv == FollowInv /\ TruthInv /\ AskInv
IInv ==
  ServerShape /\ ClientShape /\ GenInv /\ LifeInv /\ BoxInv /\ AloneInv /\ ScreenInv

client == <<screen, box, gen, marks, faults>>

-----------------------------------------------------------------------------
(* What the server may do to a life (RunLife).                             *)

LEMMA Proceeding ==
  ASSUME NEW r \in Runs, NEW l \in Lives, NEW m \in Server(r)!Progress(l),
         l.answered => l.status \in Ended, m.status \in Outcomes \cup {"running"}
  PROVE  /\ m \in Lives /\ m.status \notin {"awaiting_human_input", "contended"}
         /\ l.status \notin {"awaiting_human_input", "contended"}
         /\ m.answered => m.status \in Ended
         /\ l.answered => m.answered
<1>0. /\ l.status \in LifeStatus /\ l.answered \in BOOLEAN /\ l.acts \in BOOLEAN
      /\ m.status \in Ended \cup {"running"}
  BY OutcomesAssumption DEF Lives, Ended
<1>1. CASE m \in Server(r)!Begin(l)
  BY <1>0, <1>1 DEF Server!Begin, Server!Move, Lives, LifeStatus, Ended
<1>2. CASE m \in Server(r)!Pause(l)
  BY <1>0, <1>2 DEF Server!Pause, Server!Move, Lives, LifeStatus, Ended
<1>3. CASE m \in Server(r)!Break(l)
  BY <1>0, <1>3 DEF Server!Break, Server!Move, Lives, LifeStatus, Ended
<1>4. CASE m \in Server(r)!End(l)
  BY <1>0, <1>4 DEF Server!End, Server!Move, Lives, LifeStatus, Ended
<1>5. CASE m \in Server(r)!Refuse(l)
  <2>1. PICK k \in Server(r)!Move(l, "no_capability", {"no_capability"}) :
          m = [k EXCEPT !.answered = TRUE]
    BY <1>5 DEF Server!Refuse
  <2>2. k \in Lives /\ k.status = "no_capability" /\ l.status = "no_capability"
    BY <1>0, <2>1 DEF Server!Move, Lives, LifeStatus
  <2>3. m \in Lives /\ m.status = "no_capability" /\ m.answered = TRUE
    BY <2>1, <2>2 DEF Lives
  <2> QED
    BY <2>2, <2>3 DEF Ended
<1>6. CASE m \in Server(r)!Draft(l)
  BY <1>0, <1>6 DEF Server!Draft, Server!Ended, Lives, LifeStatus, Ended
<1> QED
  BY <1>1, <1>2, <1>3, <1>4, <1>5, <1>6 DEF Server!Progress

LEMMA Pausing ==
  ASSUME NEW r \in Runs, NEW l \in Lives, NEW m \in Server(r)!Pause(l)
  PROVE  /\ m \in Lives /\ l.status = "running" /\ m.status = "awaiting_human_input"
         /\ m.answered = l.answered
BY DEF Server!Pause, Server!Move, Lives, LifeStatus

LEMMA Reopening ==
  ASSUME NEW r \in Runs, NEW l \in Lives, NEW m \in Server(r)!Resume(l)
  PROVE  /\ m \in Lives /\ l.status = "awaiting_human_input" /\ m.status = "running"
         /\ m.answered = l.answered
BY DEF Server!Resume, Server!Move, Lives, LifeStatus

LEMMA Contending ==
  ASSUME NEW r \in Runs, NEW l \in Lives, NEW m \in Server(r)!Contend(l)
  PROVE  /\ m \in Lives /\ m.status = "contended" /\ m.answered = FALSE
<1>1. PICK k \in Server(r)!Move(l, "awaiting_human_input", {"contended"}) :
        m = [k EXCEPT !.answered = FALSE]
  BY DEF Server!Contend
<1>2. k \in Lives /\ k.status = "contended"
  BY <1>1 DEF Server!Move, Lives, LifeStatus
<1> QED
  BY <1>1, <1>2 DEF Lives

-----------------------------------------------------------------------------
(* The server's steps: the screen stands while the run moves.              *)

LEMMA InitHolds == Init => IInv
<1> SUFFICES ASSUME Init PROVE IInv
  OBVIOUS
<1>1. ServerShape
  BY DEF Init, ServerShape, Lives, LifeStatus
<1>2. /\ screen = Hidden(NoRun, "idle") /\ Idle \in Generators /\ Empty \in PasswordBoxes
      /\ \A g \in Events : gen[g] = Idle
  BY DEF Init, Idle, Empty, Generators, PasswordBoxes, AnyRun
<1>3. ClientShape
  BY <1>2 DEF Init, ClientShape, Hidden, Screens, AnyRun, About
<1>4. GenInv /\ LifeInv
  BY <1>2 DEF Init, GenInv, LifeInv, Idle, Asking, Events, Resuming
<1>5. BoxInv /\ AloneInv /\ ScreenInv
  BY <1>2 DEF Init, BoxInv, AloneInv, ScreenInv, FollowInv, TruthInv, AskInv, Hidden, Empty,
    Posting, Queued, Events, Idle
<1> QED
  BY <1>1, <1>3, <1>4, <1>5 DEF IInv

\* A step of the server leaves the client's half of the invariant alone.
LEMMA ServerKeeps ==
  ASSUME IInv, UNCHANGED client, ServerShape', LifeInv', TruthInv', AskInv'
  PROVE  IInv'
<1>1. ClientShape' /\ GenInv' /\ BoxInv' /\ AloneInv' /\ FollowInv'
  BY DEF IInv, client, marks, ClientShape, GenInv, BoxInv, AloneInv, ScreenInv, FollowInv,
    Posting, Queued, Target, Active
<1> QED
  BY <1>1 DEF IInv, ScreenInv

LEMMA ProceedsKeeps ==
  ASSUME IInv, NEW r \in Runs, Proceeds(r)
  PROVE  IInv'
<1>1. PICK l \in Server(r)!Progress(life[r]) :
        l.status \in Outcomes \cup {"running"} /\ life' = [life EXCEPT ![r] = l]
  BY DEF Proceeds
<1>2. UNCHANGED <<wanted, tasks, pauses, triggered>> /\ UNCHANGED client
  BY DEF Proceeds, client
<1>3. /\ life \in [Runs -> Lives] /\ life[r] \in Lives
      /\ (life[r].answered => life[r].status \in Ended)
  BY DEF IInv, ServerShape, LifeInv
<1>4. /\ l \in Lives /\ l.status \notin {"awaiting_human_input", "contended"}
      /\ life[r].status \notin {"awaiting_human_input", "contended"}
      /\ (l.answered => l.status \in Ended) /\ (life[r].answered => l.answered)
  BY <1>1, <1>3, Proceeding
<1>5. /\ life' \in [Runs -> Lives] /\ life'[r] = l
      /\ \A s \in Runs : s # r => life'[s] = life[s]
  BY <1>1, <1>3, <1>4
<1>6. ServerShape'
  BY <1>2, <1>5 DEF IInv, ServerShape
<1>7. LifeInv'
  BY <1>2, <1>4, <1>5 DEF IInv, LifeInv
<1>8. TruthInv'
  BY <1>2, <1>4, <1>5 DEF IInv, ScreenInv, TruthInv, client
<1>9. AskInv'
  <2>1. CASE screen.run = r
    BY <1>2, <1>4, <1>5, <2>1 DEF IInv, ScreenInv, AskInv, client
  <2>2. CASE screen.run # r
    BY <1>2, <1>5, <2>2 DEF IInv, ScreenInv, AskInv, client
  <2> QED
    BY <2>1, <2>2
<1> QED
  BY <1>2, <1>6, <1>7, <1>8, <1>9, ServerKeeps

\* A run that pauses again asks about a later pause than any screen does.
LEMMA PausesKeeps ==
  ASSUME IInv, NEW r \in Runs, Pauses(r)
  PROVE  IInv'
<1>1. PICK l \in Server(r)!Pause(life[r]) : life' = [life EXCEPT ![r] = l]
  BY DEF Pauses
<1>2. PICK fs \in {{"email"}, {"email", "password"}} : wanted' = [wanted EXCEPT ![r] = fs]
  BY DEF Pauses
<1>3. /\ UNCHANGED <<tasks, triggered>> /\ UNCHANGED client
      /\ pauses' = [pauses EXCEPT ![r] = @ + 1]
  BY DEF Pauses, client
<1>4. /\ life \in [Runs -> Lives] /\ life[r] \in Lives /\ pauses \in [Runs -> Nat]
      /\ wanted \in [Runs -> SUBSET Fields]
      /\ (life[r].answered => life[r].status \in Ended)
  BY DEF IInv, ServerShape, LifeInv
<1>5. /\ l \in Lives /\ life[r].status = "running" /\ l.status = "awaiting_human_input"
      /\ l.answered = life[r].answered
  BY <1>1, <1>4, Pausing
<1>6. /\ life' \in [Runs -> Lives] /\ life'[r] = l
      /\ \A s \in Runs : s # r => life'[s] = life[s]
  BY <1>1, <1>4, <1>5
<1>7. /\ wanted' \in [Runs -> SUBSET Fields] /\ \A s \in Runs : s # r => wanted'[s] = wanted[s]
  BY <1>2, <1>4 DEF Fields
<1>8. /\ pauses' \in [Runs -> Nat] /\ pauses'[r] = pauses[r] + 1 /\ pauses[r] \in Nat
      /\ \A s \in Runs : s # r => pauses'[s] = pauses[s]
  BY <1>3, <1>4
<1>9. ~life[r].answered
  BY <1>4, <1>5 DEF Ended
<1>10. ServerShape'
  BY <1>3, <1>6, <1>7, <1>8 DEF IInv, ServerShape
<1>11. LifeInv'
  BY <1>5, <1>6, <1>8, <1>9 DEF IInv, LifeInv
<1>12. TruthInv'
  BY <1>3, <1>5, <1>6, <1>8, <1>9 DEF IInv, ScreenInv, TruthInv, client
<1>13. AskInv'
  <2>1. CASE screen.run = r
    <3>1. screen.asked \in Nat
      BY DEF IInv, ClientShape, Screens
    <3>2. screen.about # "following" /\ screen.asked # 0 =>
            screen.asked <= pauses'[r] /\ screen.asked # pauses'[r]
      BY <1>8, <2>1, <3>1 DEF IInv, ScreenInv, AskInv
    <3> QED
      BY <1>3, <2>1, <3>2 DEF IInv, ScreenInv, AskInv, client
  <2>2. CASE screen.run # r
    BY <1>3, <1>6, <1>7, <1>8, <2>2 DEF IInv, ScreenInv, AskInv, client
  <2> QED
    BY <2>1, <2>2
<1> QED
  BY <1>3, <1>10, <1>11, <1>12, <1>13, ServerKeeps

\* No screen that asks about the present pause names a run with a task.
LEMMA TaskStartsKeeps ==
  ASSUME IInv, NEW r \in Runs, NEW i \in 1..2, TaskStarts(r, i)
  PROVE  IInv'
<1>1. /\ i \in DOMAIN tasks[r] /\ tasks' = [tasks EXCEPT ![r] = RemoveAt(@, i)]
      /\ UNCHANGED <<triggered, pauses>> /\ UNCHANGED client
  BY DEF TaskStarts, client
<1>2. /\ tasks \in [Runs -> Seq(SUBSET Fields)] /\ life \in [Runs -> Lives] /\ life[r] \in Lives
      /\ wanted \in [Runs -> SUBSET Fields]
      /\ (life[r].answered => life[r].status \in Ended)
  BY DEF IInv, ServerShape, LifeInv
<1>3. /\ tasks' \in [Runs -> Seq(SUBSET Fields)] /\ tasks[r] # << >>
      /\ \A s \in Runs : s # r => tasks'[s] = tasks[s]
  <2>1. tasks[r] \in Seq(SUBSET Fields) /\ tasks[r] # << >> /\ i \in 1..Len(tasks[r])
    BY <1>1, <1>2
  <2>2. RemoveAt(tasks[r], i) \in Seq(SUBSET Fields)
    BY <2>1 DEF RemoveAt
  <2> QED
    BY <1>1, <1>2, <2>1, <2>2
<1>4. screen.run = r /\ life[r].status # "contended" =>
        ~(screen.about = "paused" /\ screen.asked # 0)
  BY <1>3 DEF IInv, ScreenInv, TruthInv
<1>5. CASE UNCHANGED <<life, wanted>>
  <2>1. ServerShape' /\ LifeInv'
    BY <1>1, <1>3, <1>5 DEF IInv, ServerShape, LifeInv
  <2>2. TruthInv' /\ AskInv'
    BY <1>1, <1>3, <1>4, <1>5 DEF IInv, ScreenInv, TruthInv, AskInv, client
  <2> QED
    BY <1>1, <2>1, <2>2, ServerKeeps
<1>6. CASE \E l \in Server(r)!Resume(life[r]) :
             life' = [life EXCEPT ![r] = l] /\ wanted' = [wanted EXCEPT ![r] = {}]
  <2>1. PICK l \in Server(r)!Resume(life[r]) :
          life' = [life EXCEPT ![r] = l] /\ wanted' = [wanted EXCEPT ![r] = {}]
    BY <1>6
  <2>2. /\ l \in Lives /\ life[r].status = "awaiting_human_input" /\ l.status = "running"
        /\ l.answered = life[r].answered
    BY <1>2, <2>1, Reopening
  <2>3. /\ life' \in [Runs -> Lives] /\ life'[r] = l
        /\ \A s \in Runs : s # r => life'[s] = life[s]
    BY <1>2, <2>1, <2>2
  <2>4. /\ wanted' \in [Runs -> SUBSET Fields] /\ wanted'[r] = {}
        /\ \A s \in Runs : s # r => wanted'[s] = wanted[s]
    BY <1>2, <2>1
  <2>5. ~life[r].answered
    BY <1>2, <2>2 DEF Ended
  <2>6. ServerShape'
    BY <1>1, <1>3, <2>3, <2>4 DEF IInv, ServerShape
  <2>7. LifeInv'
    BY <1>1, <2>2, <2>3, <2>5 DEF IInv, LifeInv
  <2>8. TruthInv'
    BY <1>1, <1>3, <1>4, <2>2, <2>3, <2>5 DEF IInv, ScreenInv, TruthInv, client
  <2>9. AskInv'
    <3>1. CASE screen.run = r
      BY <1>1, <2>4, <3>1 DEF IInv, ScreenInv, AskInv, client
    <3>2. CASE screen.run # r
      BY <1>1, <2>3, <2>4, <3>2 DEF IInv, ScreenInv, AskInv, client
    <3> QED
      BY <3>1, <3>2
  <2> QED
    BY <1>1, <2>6, <2>7, <2>8, <2>9, ServerKeeps
<1> QED
  BY <1>5, <1>6 DEF TaskStarts

\* Nothing is said of a run from now on that two resumes walk.
LEMMA BothStartKeeps ==
  ASSUME IInv, NEW r \in Runs, BothStart(r)
  PROVE  IInv'
<1>1. PICK l \in Server(r)!Contend(life[r]) : life' = [life EXCEPT ![r] = l]
  BY DEF BothStart
<1>2. /\ tasks' = [tasks EXCEPT ![r] = << >>]
      /\ UNCHANGED <<wanted, triggered, pauses>> /\ UNCHANGED client
  BY DEF BothStart, client
<1>3. life \in [Runs -> Lives] /\ tasks \in [Runs -> Seq(SUBSET Fields)] /\ life[r] \in Lives
  BY DEF IInv, ServerShape
<1>4. l \in Lives /\ l.status = "contended" /\ l.answered = FALSE
  BY <1>1, <1>3, Contending
<1>5. /\ life' \in [Runs -> Lives] /\ life'[r] = l
      /\ \A s \in Runs : s # r => life'[s] = life[s]
  BY <1>1, <1>3, <1>4
<1>6. /\ tasks' \in [Runs -> Seq(SUBSET Fields)]
      /\ \A s \in Runs : s # r => tasks'[s] = tasks[s]
  BY <1>2, <1>3
<1>7. ServerShape' /\ LifeInv'
  BY <1>2, <1>4, <1>5, <1>6 DEF IInv, ServerShape, LifeInv
<1>8. TruthInv'
  BY <1>2, <1>4, <1>5, <1>6 DEF IInv, ScreenInv, TruthInv, client
<1>9. AskInv'
  <2>1. CASE screen.run = r
    BY <1>2, <1>4, <1>5, <2>1 DEF IInv, ScreenInv, AskInv, client
  <2>2. CASE screen.run # r
    BY <1>2, <1>5, <2>2 DEF IInv, ScreenInv, AskInv, client
  <2> QED
    BY <2>1, <2>2
<1> QED
  BY <1>2, <1>7, <1>8, <1>9, ServerKeeps

-----------------------------------------------------------------------------
(* The steps of asking and polling: what they make of the screen.          *)

LEMMA Types ==
  ASSUME IInv
  PROVE  /\ gen \in [Events -> Generators] /\ screen \in Screens /\ box \in PasswordBoxes
         /\ faults \in Nat /\ screen.asked \in Nat /\ screen.about \in About
         /\ screen.gate \in BOOLEAN /\ screen.boxes \in SUBSET Fields
         /\ Idle \in Generators /\ Empty \in PasswordBoxes
         /\ "continue" \in Events /\ Asking \subseteq Events /\ "continue" \notin Asking
         /\ NoRun \notin Runs /\ alone \in BOOLEAN /\ died \subseteq Events
<1>1. Idle \in Generators /\ Empty \in PasswordBoxes
  BY DEF Idle, Empty, Generators, PasswordBoxes, AnyRun
<1>2. screen \in Screens
  BY DEF IInv, ClientShape
<1> QED
  BY <1>1, <1>2, NoRunAssumption DEF IInv, ClientShape, Screens, Events, Asking

\* One generator moves on to x.
LEMMA GenSet ==
  ASSUME gen \in [Events -> Generators], GenInv, NEW g \in Events, NEW x \in Generators,
         gen' = [gen EXCEPT ![g] = x],
         x.at \in {"poll"} \cup Resuming => x.run \in Runs,
         g \in Asking => x.at \notin Resuming
  PROVE  /\ gen' \in [Events -> Generators] /\ GenInv' /\ gen'[g] = x
         /\ \A h \in Events : h # g => gen'[h] = gen[h]
<1>1. /\ gen' \in [Events -> Generators] /\ gen'[g] = x
      /\ \A h \in Events : h # g => gen'[h] = gen[h]
  OBVIOUS
<1>2. GenInv'
  BY <1>1 DEF GenInv, Events
<1> QED
  BY <1>1, <1>2

\* Where the boxes are hidden, only what the screen says of the run matters.
LEMMA HiddenKeeps ==
  ASSUME IInv, NEW r \in AnyRun, NEW about \in About, screen' = Hidden(r, about),
         UNCHANGED <<life, wanted, tasks, pauses, box>>,
         triggered' \subseteq Runs, faults' \in Nat,
         gen' \in [Events -> Generators], GenInv',
         gen'["continue"].at \in Resuming => gen'["continue"] = gen["continue"],
         gen'["continue"].at = "queued" => ~alone',
         box.state = "sent" =>
           gen'["continue"].at \in Resuming \/ "continue" \in died',
         alone' \in BOOLEAN, alone' => alone, died' \subseteq Events,
         about = "following" => \E g \in Events : gen'[g].at = "poll" /\ gen'[g].run = r,
         about = "sending" => \E g \in Asking : gen'[g].at = "trigger",
         about = "done" /\ r \in Runs /\ life[r].status # "contended" => life[r].answered,
         about \notin {"paused", "rejected"}
  PROVE  IInv'
<1>1. /\ screen'.run = r /\ screen'.about = about /\ screen'.gate = FALSE
      /\ screen'.asked = 0 /\ screen' \in Screens
  BY DEF Hidden, Screens
<1>2. ServerShape' /\ ClientShape' /\ LifeInv'
  BY <1>1 DEF IInv, ServerShape, ClientShape, LifeInv
<1>3. BoxInv' /\ AloneInv'
  BY <1>1 DEF IInv, BoxInv, AloneInv, Posting, Queued, Target, Resuming
<1>4. FollowInv'
  BY <1>1 DEF FollowInv
<1>5. TruthInv' /\ AskInv'
  BY <1>1 DEF TruthInv, AskInv
<1> QED
  BY <1>2, <1>3, <1>4, <1>5 DEF IInv, ScreenInv

\* An asking generator steps: then no click waits alone.
LEMMA OthersStep ==
  ASSUME IInv, UNCHANGED marks, NEW g \in Events, gen[g].at \in {"trigger", "poll"},
         \A h \in Events : h # g => gen'[h] = gen[h],
         gen'[g].at \notin Resuming
  PROVE  /\ gen'["continue"].at \in Resuming => gen'["continue"] = gen["continue"]
         /\ gen'["continue"].at = "queued" => ~alone'
         /\ box.state = "sent" => gen'["continue"].at \in Resuming \/ "continue" \in died'
         /\ alone' \in BOOLEAN /\ (alone' => alone) /\ died' \subseteq Events
<1>1. CASE g = "continue"
  BY <1>1, Types DEF IInv, BoxInv, Posting, Queued, marks, Resuming
<1>2. CASE g # "continue"
  <2>1. g \in Asking /\ gen'["continue"] = gen["continue"] /\ Active(g)
    BY <1>2, Types DEF Events, Active
  <2> QED
    BY <2>1, Types DEF IInv, BoxInv, AloneInv, Posting, Queued, marks, Resuming
<1> QED
  BY <1>1, <1>2

LEMMA AskNothingKeeps ==
  ASSUME IInv, NEW g \in Asking, AskNothing(g)
  PROVE  IInv'
<1>1. /\ screen' = Hidden(NoRun, "idle") /\ UNCHANGED <<server, box, gen, faults>>
      /\ alone' = FALSE /\ died' = died \ {g}
  BY DEF AskNothing
<1>2. NoRun \in AnyRun /\ "idle" \in About
  BY DEF AnyRun, About
<1>3. triggered' \subseteq Runs /\ faults' \in Nat /\ gen' \in [Events -> Generators] /\ GenInv'
  BY <1>1, Types DEF IInv, ServerShape, GenInv, server
<1>4. /\ box.state = "sent" => gen'["continue"].at \in Resuming \/ "continue" \in died'
      /\ died' \subseteq Events
  BY <1>1, Types DEF IInv, BoxInv, Posting, Queued, Resuming
<1> QED
  BY <1>1, <1>2, <1>3, <1>4, HiddenKeeps, Types DEF server

LEMMA AskKeeps ==
  ASSUME IInv, NEW g \in Asking, Ask(g)
  PROVE  IInv'
<1> DEFINE x == [gen[g] EXCEPT !.at = "trigger"]
<1>1. /\ gen' = [gen EXCEPT ![g] = x] /\ screen' = Hidden(NoRun, "sending")
      /\ UNCHANGED <<server, box, faults>> /\ alone' = FALSE /\ died' = died \ {g}
  BY DEF Ask
<1>2. x \in Generators /\ x.at = "trigger" /\ g \in Events /\ g # "continue"
  BY Types DEF Generators
<1> HIDE DEF x
<1>3. /\ gen' \in [Events -> Generators] /\ GenInv' /\ gen'[g] = x
      /\ \A h \in Events : h # g => gen'[h] = gen[h]
  BY <1>1, <1>2, Types, GenSet DEF IInv, Resuming
<1>4. NoRun \in AnyRun /\ "sending" \in About
  BY DEF AnyRun, About
<1>5. triggered' \subseteq Runs /\ faults' \in Nat /\ gen'["continue"] = gen["continue"]
  BY <1>1, <1>2, <1>3, Types DEF IInv, ServerShape, server
<1>6. /\ box.state = "sent" => gen'["continue"].at \in Resuming \/ "continue" \in died'
      /\ died' \subseteq Events /\ \E h \in Asking : gen'[h].at = "trigger"
  BY <1>1, <1>2, <1>3, <1>5, Types DEF IInv, BoxInv, Posting, Queued, Resuming
<1> QED
  BY <1>1, <1>3, <1>4, <1>5, <1>6, HiddenKeeps, Types DEF server

LEMMA TriggeredKeeps ==
  ASSUME IInv, NEW g \in Asking, Triggered(g)
  PROVE  IInv'
<1>1. PICK r \in Runs \ triggered :
        /\ triggered' = triggered \cup {r}
        /\ gen' = [gen EXCEPT ![g].at = "poll", ![g].run = r]
        /\ screen' = Hidden(r, "following")
  BY DEF Triggered
<1>2. UNCHANGED <<life, wanted, tasks, pauses, box, marks, faults>> /\ gen[g].at = "trigger"
  BY DEF Triggered
<1> DEFINE x == [[gen[g] EXCEPT !.at = "poll"] EXCEPT !.run = r]
<1>3. g \in Events /\ g # "continue" /\ gen[g] \in Generators /\ r \in AnyRun
  BY Types DEF AnyRun
<1>4. x \in Generators /\ x.at = "poll" /\ x.run = r
  BY <1>3 DEF Generators
<1>5. gen' = [gen EXCEPT ![g] = x]
  BY <1>1, <1>3, Types
<1> HIDE DEF x
<1>6. /\ gen' \in [Events -> Generators] /\ GenInv' /\ gen'[g] = x
      /\ \A h \in Events : h # g => gen'[h] = gen[h]
  BY <1>1, <1>3, <1>4, <1>5, Types, GenSet DEF IInv, Resuming
<1>7. triggered' \subseteq Runs /\ faults' \in Nat /\ gen'["continue"] = gen["continue"]
  BY <1>1, <1>2, <1>3, <1>6, Types DEF IInv, ServerShape
<1>8. \E h \in Events : gen'[h].at = "poll" /\ gen'[h].run = r
  BY <1>3, <1>4, <1>6
<1>9. "following" \in About
  BY DEF About
<1>10. gen'[g].at \notin Resuming /\ UNCHANGED marks
  BY <1>2, <1>4, <1>6 DEF Resuming
<1>11. /\ gen'["continue"].at \in Resuming => gen'["continue"] = gen["continue"]
       /\ gen'["continue"].at = "queued" => ~alone'
       /\ box.state = "sent" => gen'["continue"].at \in Resuming \/ "continue" \in died'
       /\ alone' \in BOOLEAN /\ (alone' => alone) /\ died' \subseteq Events
  BY <1>2, <1>3, <1>6, <1>10, OthersStep
<1> QED
  BY <1>1, <1>2, <1>3, <1>6, <1>7, <1>8, <1>9, <1>11, HiddenKeeps

\* A generator that ends says the last word about its run.
LEMMA StopsHidden ==
  ASSUME IInv, NEW g \in Events, gen[g].at \in {"trigger", "poll"}, Stop(g),
         NEW r \in AnyRun, NEW about \in {"unreachable", "lost", "done", "timedout"},
         screen' = Hidden(r, about),
         UNCHANGED <<life, wanted, tasks, pauses, box, marks>>,
         triggered' \subseteq Runs, faults' \in Nat,
         about = "done" /\ r \in Runs /\ life[r].status # "contended" => life[r].answered
  PROVE  IInv'
<1>1. /\ gen' \in [Events -> Generators] /\ GenInv' /\ gen'[g] = Idle
      /\ \A h \in Events : h # g => gen'[h] = gen[h]
  BY Types, GenSet DEF IInv, Stop, Idle, Resuming
<1>2. /\ gen'["continue"].at \in Resuming => gen'["continue"] = gen["continue"]
      /\ gen'["continue"].at = "queued" => ~alone'
      /\ box.state = "sent" => gen'["continue"].at \in Resuming \/ "continue" \in died'
      /\ alone' \in BOOLEAN /\ (alone' => alone) /\ died' \subseteq Events
  <2>1. gen'[g].at \notin Resuming /\ UNCHANGED marks
    BY <1>1 DEF Idle, Resuming
  <2> QED
    BY <1>1, <2>1, OthersStep
<1>3. about \in About /\ about \notin {"following", "sending", "paused", "rejected"}
  BY DEF About
<1> QED
  BY <1>1, <1>2, <1>3, HiddenKeeps

LEMMA TriggerFailsKeeps ==
  ASSUME IInv, NEW g \in Asking, TriggerFails(g)
  PROVE  IInv'
<1>1. /\ gen[g].at = "trigger" /\ Stop(g) /\ screen' = Hidden(NoRun, "unreachable")
      /\ UNCHANGED <<life, wanted, tasks, pauses, box, marks>>
  BY DEF TriggerFails
<1>2. triggered' \subseteq Runs /\ faults' \in Nat
  BY Types DEF IInv, ServerShape, TriggerFails, Fault
<1>3. NoRun \in AnyRun /\ g \in Events
  BY Types DEF AnyRun
<1> QED
  BY <1>1, <1>2, <1>3, StopsHidden

\* The run a generator polls.
LEMMA PolledRun ==
  ASSUME IInv, NEW g \in Events, gen[g].at = "poll"
  PROVE  gen[g].run \in Runs /\ gen[g].run \in AnyRun
BY DEF IInv, GenInv, AnyRun

LEMMA LoseContactKeeps ==
  ASSUME IInv, NEW g \in Events, LoseContact(g)
  PROVE  IInv'
<1>1. /\ gen[g].at = "poll" /\ Stop(g) /\ screen' = Hidden(gen[g].run, "lost")
      /\ UNCHANGED <<server, box, marks>>
  BY DEF LoseContact, Polling
<1>2. triggered' \subseteq Runs /\ faults' \in Nat
  BY Types DEF IInv, ServerShape, LoseContact, Fault, server
<1> QED
  BY <1>1, <1>2, PolledRun, StopsHidden DEF server

LEMMA ShowAnswerKeeps ==
  ASSUME IInv, NEW g \in Events, ShowAnswer(g)
  PROVE  IInv'
<1>1. /\ gen[g].at = "poll" /\ Stop(g) /\ screen' = Hidden(gen[g].run, "done")
      /\ UNCHANGED <<server, box, marks, faults>> /\ \E s \in Seen(gen[g].run) : s.answered
  BY DEF ShowAnswer, Polling
<1>2. triggered' \subseteq Runs /\ faults' \in Nat
  BY <1>1, Types DEF IInv, ServerShape, server
<1>3. life[gen[g].run].status # "contended" => life[gen[g].run].answered
  BY <1>1 DEF Seen
<1> QED
  BY <1>1, <1>2, <1>3, PolledRun, StopsHidden DEF server

LEMMA TimeOutKeeps ==
  ASSUME IInv, NEW g \in Events, TimeOut(g)
  PROVE  IInv'
<1>1. /\ gen[g].at = "poll" /\ Stop(g) /\ screen' = Hidden(gen[g].run, "timedout")
      /\ UNCHANGED <<server, box, marks, faults>>
  BY DEF TimeOut
<1>2. triggered' \subseteq Runs /\ faults' \in Nat
  BY <1>1, Types DEF IInv, ServerShape, server
<1> QED
  BY <1>1, <1>2, PolledRun, StopsHidden DEF server

LEMMA TickKeeps ==
  ASSUME IInv, NEW g \in Events, Tick(g)
  PROVE  IInv'
<1> DEFINE x == [gen[g] EXCEPT !.waited = @ + 1]
<1>1. /\ gen[g].at = "poll" /\ gen' = [gen EXCEPT ![g] = x]
      /\ screen' = Hidden(gen[g].run, "following") /\ UNCHANGED <<server, box, marks, faults>>
  BY DEF Tick, Polling
<1>2. gen[g].run \in Runs /\ gen[g].run \in AnyRun /\ gen[g] \in Generators
  BY <1>1, PolledRun, Types
<1>3. x \in Generators /\ x.at = "poll" /\ x.run = gen[g].run
  BY <1>1, <1>2 DEF Generators
<1> HIDE DEF x
<1>4. /\ gen' \in [Events -> Generators] /\ GenInv' /\ gen'[g] = x
      /\ \A h \in Events : h # g => gen'[h] = gen[h]
  BY <1>1, <1>2, <1>3, Types, GenSet DEF IInv, Resuming
<1>5. /\ gen'["continue"].at \in Resuming => gen'["continue"] = gen["continue"]
      /\ gen'["continue"].at = "queued" => ~alone'
      /\ box.state = "sent" => gen'["continue"].at \in Resuming \/ "continue" \in died'
      /\ alone' \in BOOLEAN /\ (alone' => alone) /\ died' \subseteq Events
  <2>1. gen'[g].at \notin Resuming /\ UNCHANGED marks
    BY <1>1, <1>3, <1>4 DEF Resuming
  <2> QED
    BY <1>1, <1>4, <2>1, OthersStep
<1>6. \E h \in Events : gen'[h].at = "poll" /\ gen'[h].run = gen[g].run
  BY <1>3, <1>4
<1>7. triggered' \subseteq Runs /\ faults' \in Nat /\ "following" \in About
  BY <1>1, Types DEF IInv, ServerShape, server, About
<1> QED
  BY <1>1, <1>2, <1>4, <1>5, <1>6, <1>7, HiddenKeeps DEF server

\* The prompt: what the box holds goes, and the boxes it shows are those asked for.
LEMMA ShowGateKeeps ==
  ASSUME IInv, NEW g \in Events, ShowGate(g)
  PROVE  IInv'
<1> DEFINE r == gen[g].run
<1>1. /\ gen[g].at = "poll" /\ Stop(g) /\ screen' = Prompting(r) /\ box' = Empty
      /\ UNCHANGED <<server, marks, faults>>
      /\ \E s \in Seen(r) : s.status = "awaiting_human_input" /\ ~s.answered
  BY DEF ShowGate, ShowGateTo, Polling
<1>2. r \in Runs /\ r \in AnyRun
  BY <1>1, PolledRun
<1>3. life[r].status # "contended" => life[r].status = "awaiting_human_input"
  BY <1>1 DEF Seen
<1>4. /\ gen' \in [Events -> Generators] /\ GenInv' /\ gen'[g] = Idle
      /\ \A h \in Events : h # g => gen'[h] = gen[h]
  BY <1>1, Types, GenSet DEF IInv, Stop, Idle, Resuming
<1>4a. /\ gen'["continue"].at \in Resuming => gen'["continue"] = gen["continue"]
       /\ gen'["continue"].at = "queued" => ~alone'
       /\ alone' \in BOOLEAN /\ (alone' => alone) /\ died' \subseteq Events
  <2>1. gen'[g].at \notin Resuming /\ UNCHANGED marks
    BY <1>1, <1>4 DEF Idle, Resuming
  <2> QED
    BY <1>1, <1>4, <2>1, OthersStep
<1> HIDE DEF r
<1>5. wanted[r] \in SUBSET Fields /\ pauses[r] \in Nat
  BY <1>2 DEF IInv, ServerShape
<1>6. /\ screen'.run = r /\ screen'.about = "paused" /\ screen'.gate = TRUE
      /\ screen'.boxes = {"email"} \cup (wanted[r] \cap {"password"})
      /\ screen'.asked = IF tasks[r] = << >> THEN pauses[r] ELSE 0
  BY <1>1 DEF Prompting
<1>7. screen' \in Screens /\ screen'.asked \in Nat /\ wanted[r] \subseteq screen'.boxes
  <2>1. screen'.boxes \in SUBSET Fields /\ wanted[r] \subseteq screen'.boxes
    BY <1>5, <1>6 DEF Fields
  <2>2. screen'.asked \in Nat
    BY <1>5, <1>6
  <2>3. screen' = [run |-> r, about |-> "paused", gate |-> TRUE, boxes |-> screen'.boxes,
                   asked |-> screen'.asked]
    BY <1>1, <1>6 DEF Prompting
  <2> DEFINE b == screen'.boxes
             a == screen'.asked
  <2>4. screen' = [run |-> r, about |-> "paused", gate |-> TRUE, boxes |-> b, asked |-> a]
        /\ b \in SUBSET Fields /\ a \in Nat
    BY <2>1, <2>2, <2>3
  <2> HIDE DEF a, b
  <2>5. screen' \in Screens
    BY <1>2, <2>4 DEF Screens, About
  <2> QED
    BY <2>1, <2>2, <2>5
<1>8. ServerShape' /\ ClientShape' /\ LifeInv'
  BY <1>1, <1>4, <1>4a, <1>7, Types DEF IInv, ServerShape, ClientShape, LifeInv, server
<1>9. BoxInv' /\ AloneInv'
  <2>1. box'.run = NoRun /\ box'.state = "empty"
    BY <1>1 DEF Empty
  <2> QED
    BY <1>2, <1>4a, <1>6, <2>1 DEF IInv, BoxInv, AloneInv, Posting, Queued, Target, Resuming
<1>10. FollowInv' /\ TruthInv' /\ AskInv'
  BY <1>1, <1>2, <1>3, <1>5, <1>6, <1>7 DEF FollowInv, TruthInv, AskInv, server
<1> QED
  BY <1>4, <1>8, <1>9, <1>10 DEF IInv, ScreenInv

-----------------------------------------------------------------------------
(* The human and resume_gate().                                            *)

\* A password is typed under a prompt, which names its run.
LEMMA TypeKeeps ==
  ASSUME IInv, Type
  PROVE  IInv'
<1>1. /\ box' = [run |-> screen.run, state |-> "typed"]
      /\ UNCHANGED <<server, screen, gen, marks, faults>>
  BY DEF Type
<1>2. box' \in PasswordBoxes /\ box'.run = screen.run /\ box'.state = "typed"
  BY <1>1, Types DEF Screens, PasswordBoxes
<1>3. ServerShape' /\ ClientShape' /\ LifeInv' /\ GenInv'
  BY <1>1, <1>2 DEF IInv, ServerShape, ClientShape, LifeInv, GenInv, server, marks
<1>4. BoxInv' /\ AloneInv'
  BY <1>1, <1>2 DEF IInv, BoxInv, AloneInv, Posting, Queued, Target, Active, marks
<1>5. FollowInv' /\ TruthInv' /\ AskInv'
  BY <1>1 DEF IInv, ScreenInv, FollowInv, TruthInv, AskInv, server, marks
<1> QED
  BY <1>3, <1>4, <1>5 DEF IInv, ScreenInv

\* A click sends what was typed under the prompt on the page.
LEMMA ContinueKeeps ==
  ASSUME IInv, Continue
  PROVE  IInv'
<1>1. PICK email \in SUBSET {"email"} :
        gen' = [gen EXCEPT !["continue"] =
          [at |-> "queued", run |-> screen.run, waited |-> 0, secret |-> box.run,
           given |-> email \cup (IF box.run = NoRun THEN {} ELSE {"password"})]]
  BY DEF Continue
<1> DEFINE x == [at |-> "queued", run |-> screen.run, waited |-> 0, secret |-> box.run,
                 given |-> email \cup (IF box.run = NoRun THEN {} ELSE {"password"})]
<1>2. /\ gen["continue"].at = "idle" /\ screen.gate
      /\ gen' = [gen EXCEPT !["continue"] = x]
      /\ box' = IF box.run = NoRun THEN box ELSE [box EXCEPT !.state = "sent"]
      /\ alone' = (\A h \in Asking : ~Active(h)) /\ died' = died \ {"continue"}
      /\ UNCHANGED <<server, screen, faults>>
  BY <1>1 DEF Continue, Active
<1>3. screen.run \in Runs /\ screen.run \in AnyRun /\ box.run \in {NoRun, screen.run}
  BY <1>2 DEF IInv, BoxInv, AnyRun
<1>4. x \in Generators /\ x.at = "queued" /\ x.run = screen.run /\ x.secret = box.run
  <2>1. email \cup (IF box.run = NoRun THEN {} ELSE {"password"}) \in SUBSET Fields
    BY DEF Fields
  <2>2. box.run \in AnyRun
    BY <1>3 DEF AnyRun
  <2> QED
    BY <1>3, <2>1, <2>2 DEF Generators
<1> HIDE DEF x
<1>5. /\ gen' \in [Events -> Generators] /\ GenInv' /\ gen'["continue"] = x
      /\ \A h \in Events : h # "continue" => gen'[h] = gen[h]
  BY <1>2, <1>3, <1>4, Types, GenSet DEF IInv
<1>6. box' \in PasswordBoxes /\ box'.run = box.run
  <2>1. box \in PasswordBoxes
    BY Types
  <2> QED
    BY <1>2, <2>1 DEF PasswordBoxes
<1>7. ServerShape' /\ ClientShape' /\ LifeInv'
  <2>1. (\A h \in Asking : ~Active(h)) \in BOOLEAN
    OBVIOUS
  <2> DEFINE free == \A h \in Asking : ~Active(h)
  <2>2. alone' = free /\ free \in BOOLEAN
    BY <1>2, <2>1
  <2> HIDE DEF free
  <2> QED
    BY <1>2, <1>5, <1>6, <2>2, Types DEF IInv, ServerShape, ClientShape, LifeInv, server
<1>8. BoxInv'
  BY <1>2, <1>3, <1>4, <1>5, <1>6 DEF BoxInv, Posting, Queued, Target
<1>9. AloneInv'
  <2>1. Target' = screen.run
    BY <1>4, <1>5 DEF Target
  <2>2. \A h \in Asking : Active(h)' => Active(h)
    BY <1>5, Types DEF Active
  <2> QED
    BY <1>2, <2>1, <2>2 DEF AloneInv
<1>10. FollowInv'
  BY <1>2 DEF IInv, ScreenInv, FollowInv
<1>11. TruthInv' /\ AskInv'
  BY <1>2 DEF IInv, ScreenInv, TruthInv, AskInv, server
<1> QED
  BY <1>5, <1>7, <1>8, <1>9, <1>10, <1>11 DEF IInv, ScreenInv

\* The handler takes the run id of the moment; alone, that is the prompt's.
LEMMA ResumeStartsKeeps ==
  ASSUME IInv, ResumeStarts
  PROVE  IInv'
<1> DEFINE x == [[gen["continue"] EXCEPT !.at = "post"] EXCEPT !.run = screen.run]
<1>1. /\ Queued /\ screen.run # NoRun
      /\ gen' = [gen EXCEPT !["continue"].at = "post", !["continue"].run = screen.run]
      /\ UNCHANGED <<server, screen, box, marks, faults>>
  BY DEF ResumeStarts
<1>2. gen["continue"] \in Generators /\ screen.run \in Runs /\ screen.run \in AnyRun
  BY <1>1, Types DEF Screens, AnyRun
<1>3. x \in Generators /\ x.at = "post" /\ x.run = screen.run
      /\ x.secret = gen["continue"].secret
  BY <1>2 DEF Generators
<1>4. gen' = [gen EXCEPT !["continue"] = x]
  BY <1>1, Types
<1> HIDE DEF x
<1>5. /\ gen' \in [Events -> Generators] /\ GenInv' /\ gen'["continue"] = x
      /\ \A h \in Events : h # "continue" => gen'[h] = gen[h]
  BY <1>2, <1>3, <1>4, Types, GenSet DEF IInv
<1>6. ServerShape' /\ ClientShape' /\ LifeInv'
  BY <1>1, <1>5, Types DEF IInv, ServerShape, ClientShape, LifeInv, server, marks
<1>7. BoxInv' /\ AloneInv'
  <2>1. alone => gen["continue"].secret \in {NoRun, screen.run}
    BY <1>1 DEF IInv, BoxInv, AloneInv, Target
  <2> QED
    BY <1>1, <1>3, <1>5, <2>1 DEF IInv, BoxInv, AloneInv, Posting, Queued, Target, marks
<1>8. FollowInv'
  <2>1. screen.about = "following" => screen.asked = 0
    BY <1>1, Types DEF IInv, ScreenInv, FollowInv, Queued, Resuming
  <2>2. /\ \A g \in Events : gen[g].at = "poll" => gen'[g] = gen[g]
        /\ \A g \in Asking : gen'[g] = gen[g]
    BY <1>1, <1>5, Types DEF Queued
  <2> QED
    BY <1>1, <2>1, <2>2 DEF IInv, ScreenInv, FollowInv, marks
<1>9. TruthInv' /\ AskInv'
  BY <1>1 DEF IInv, ScreenInv, TruthInv, AskInv, server
<1> QED
  BY <1>5, <1>6, <1>7, <1>8, <1>9 DEF IInv, ScreenInv

LEMMA NothingToResumeKeeps ==
  ASSUME IInv, NothingToResume
  PROVE  IInv'
<1>1. /\ Queued /\ Stop("continue") /\ screen' = Hidden(NoRun, "idle")
      /\ box' = IF box.state = "sent" THEN [box EXCEPT !.state = "typed"] ELSE box
      /\ UNCHANGED <<server, marks, faults>>
  BY DEF NothingToResume
<1>2. /\ gen' \in [Events -> Generators] /\ GenInv' /\ gen'["continue"] = Idle
  BY <1>1, Types, GenSet DEF IInv, Stop, Idle, Resuming
<1>3. /\ screen'.run = NoRun /\ screen'.about = "idle" /\ screen'.gate = FALSE
      /\ screen'.asked = 0 /\ screen' \in Screens
  BY <1>1 DEF Hidden, Screens, AnyRun, About
<1>4. box' \in PasswordBoxes /\ box'.state # "sent"
  <2>1. box \in PasswordBoxes
    BY Types
  <2> QED
    BY <1>1, <2>1 DEF PasswordBoxes
<1>5. ServerShape' /\ ClientShape' /\ LifeInv'
  BY <1>1, <1>2, <1>3, <1>4, Types DEF IInv, ServerShape, ClientShape, LifeInv, server, marks
<1>6. BoxInv' /\ AloneInv'
  BY <1>2, <1>3, <1>4 DEF BoxInv, AloneInv, Posting, Queued, Idle
<1>7. FollowInv' /\ TruthInv' /\ AskInv'
  BY <1>3, Types DEF FollowInv, TruthInv, AskInv
<1> QED
  BY <1>2, <1>5, <1>6, <1>7 DEF IInv, ScreenInv

\* The run a resume is posted to; what was posted.
LEMMA PostedRun ==
  ASSUME IInv, Posting
  PROVE  /\ Target \in Runs /\ Target \in AnyRun /\ Given \in SUBSET Fields
         /\ gen["continue"] \in Generators
         /\ screen.about = "following" => screen.asked = 0
<1>1. gen["continue"] \in Generators
  BY Types
<1>2. screen.about = "following" => screen.asked = 0
  BY DEF IInv, ScreenInv, FollowInv, Posting, Resuming
<1> QED
  BY <1>1, <1>2, Types DEF IInv, GenInv, Posting, Target, Given, AnyRun, Generators, Resuming

\* An accepted resume adds a task, and nothing else that a client could see.
LEMMA AcceptEffect ==
  ASSUME IInv, Posting, Accept
  PROVE  /\ ServerShape' /\ LifeInv' /\ UNCHANGED <<life, wanted, triggered, pauses>>
         /\ \A s \in Runs : s # Target => tasks'[s] = tasks[s]
<1>1. /\ UNCHANGED <<life, wanted, triggered, pauses>>
      /\ tasks' = IF life[Target].status = "contended" THEN tasks
                  ELSE [tasks EXCEPT ![Target] = Append(@, Given)]
  BY DEF Accept
<1>2. tasks \in [Runs -> Seq(SUBSET Fields)] /\ tasks[Target] \in Seq(SUBSET Fields)
  BY PostedRun DEF IInv, ServerShape
<1>3. Append(tasks[Target], Given) \in Seq(SUBSET Fields)
  BY <1>2, PostedRun
<1>4. /\ tasks' \in [Runs -> Seq(SUBSET Fields)]
      /\ \A s \in Runs : s # Target => tasks'[s] = tasks[s]
  BY <1>1, <1>2, <1>3
<1> QED
  BY <1>1, <1>4 DEF IInv, ServerShape, LifeInv

\* A generator whose message was accepted goes back to its polling, with nothing to send.
LEMMA PollingAgain ==
  ASSUME NEW g \in Generators
  PROVE  [[[g EXCEPT !.at = "poll"] EXCEPT !.secret = NoRun] EXCEPT !.given = {}] =
           [at |-> "poll", run |-> g.run, waited |-> g.waited, given |-> {}, secret |-> NoRun]
<1> DEFINE a == [g EXCEPT !.at = "poll"]
           b == [a EXCEPT !.secret = NoRun]
<1>1. a = [at |-> "poll", run |-> g.run, waited |-> g.waited, given |-> g.given,
           secret |-> g.secret]
  BY DEF Generators
<1> HIDE DEF a
<1>2. b = [at |-> "poll", run |-> g.run, waited |-> g.waited, given |-> g.given,
           secret |-> NoRun]
  BY <1>1
<1> HIDE DEF b
<1>3. [b EXCEPT !.given = {}] =
        [at |-> "poll", run |-> g.run, waited |-> g.waited, given |-> {}, secret |-> NoRun]
  BY <1>2
<1> QED
  BY <1>3 DEF a, b

LEMMA AcceptedKeeps ==
  ASSUME IInv, Accepted
  PROVE  IInv'
<1> DEFINE c == gen["continue"]
           x == [at |-> "poll", run |-> c.run, waited |-> c.waited, given |-> {},
                 secret |-> NoRun]
<1>1. /\ Posting /\ Accept /\ screen' = Continuing(Target) /\ box' = Empty
      /\ UNCHANGED <<marks, faults>>
      /\ gen' = [gen EXCEPT !["continue"].at = "poll", !["continue"].secret = NoRun,
                            !["continue"].given = {}]
  BY DEF Accepted
<1>2. c \in Generators /\ c.run \in Runs /\ c.run \in AnyRun
  BY <1>1, PostedRun DEF Target
<1>3. x \in Generators /\ x.at = "poll" /\ x.run = Target
  BY <1>2 DEF Generators, AnyRun, Target
<1>4. gen' = [gen EXCEPT !["continue"] = x]
  <2>1. [[[c EXCEPT !.at = "poll"] EXCEPT !.secret = NoRun] EXCEPT !.given = {}] = x
    BY <1>2, PollingAgain DEF x
  <2>2. gen' = [gen EXCEPT !["continue"] =
                  [[[c EXCEPT !.at = "poll"] EXCEPT !.secret = NoRun] EXCEPT !.given = {}]]
    BY <1>1, Types
  <2> QED
    BY <2>1, <2>2
<1> HIDE DEF c, x
<1>5. /\ gen' \in [Events -> Generators] /\ GenInv' /\ gen'["continue"] = x
      /\ \A h \in Events : h # "continue" => gen'[h] = gen[h]
  BY <1>1, <1>3, <1>4, Types, PostedRun, GenSet DEF IInv, Resuming
<1>6. /\ screen' \in Screens /\ screen'.run = Target /\ screen'.about = "following"
      /\ screen'.gate = FALSE
  <2>1. screen' = [screen EXCEPT !.run = Target, !.about = "following", !.gate = FALSE]
    BY <1>1 DEF Continuing
  <2>2. Target \in AnyRun /\ screen \in Screens
    BY <1>1, PostedRun, Types
  <2> QED
    BY <2>1, <2>2 DEF Screens, About
<1>7. ServerShape' /\ LifeInv' /\ ClientShape'
  BY <1>1, <1>5, <1>6, AcceptEffect, Types DEF ClientShape, marks
<1>8. BoxInv' /\ AloneInv'
  BY <1>1, <1>3, <1>5, <1>6 DEF BoxInv, AloneInv, Posting, Queued, Empty
<1>9. FollowInv'
  BY <1>3, <1>5, <1>6, Types DEF FollowInv, Resuming
<1>10. TruthInv' /\ AskInv'
  BY <1>6 DEF TruthInv, AskInv
<1> QED
  BY <1>5, <1>7, <1>8, <1>9, <1>10 DEF IInv, ScreenInv

\* An error reply puts the gate back; it asks about a pause only if it did before.
LEMMA RetryingKeeps ==
  ASSUME IInv, Posting, Stop("continue"), NEW about \in {"rejected", "unreachable"},
         screen' = Retrying(Target, about), box' = Empty, faults' \in Nat,
         ServerShape', LifeInv', UNCHANGED <<life, wanted, pauses, marks>>,
         \A s \in Runs : s # Target => tasks'[s] = tasks[s]
  PROVE  IInv'
<1>1. /\ gen' \in [Events -> Generators] /\ GenInv' /\ gen'["continue"] = Idle
      /\ \A h \in Events : h # "continue" => gen'[h] = gen[h]
  BY Types, GenSet DEF IInv, Stop, Idle, Resuming
<1>2. Target \in Runs /\ Target \in AnyRun /\ (screen.about = "following" => screen.asked = 0)
  BY PostedRun
<1> DEFINE b == screen.boxes \cup {"email"}
           a == IF screen.run = Target THEN screen.asked ELSE 0
<1>3. b \in SUBSET Fields /\ a \in Nat
  BY Types DEF Fields
<1>4. screen' = [screen EXCEPT !.run = Target, !.about = about, !.gate = TRUE,
                               !.boxes = b, !.asked = a]
  BY DEF Retrying
<1>5. screen.boxes \subseteq b /\ (a # 0 => a = screen.asked /\ screen.run = Target)
  BY Types
<1> HIDE DEF a, b
<1>6. /\ screen' \in Screens /\ screen'.run = Target /\ screen'.about = about
      /\ screen'.gate = TRUE /\ screen'.boxes = b /\ screen'.asked = a
  <2>1. screen \in Screens /\ about \in About
    BY Types DEF About
  <2> QED
    BY <1>2, <1>3, <1>4, <2>1 DEF Screens
<1>7. ClientShape'
  BY <1>1, <1>6, Types DEF ClientShape, marks
<1>8. BoxInv' /\ AloneInv'
  BY <1>1, <1>2, <1>6 DEF BoxInv, AloneInv, Posting, Queued, Empty, Idle
<1>9. FollowInv' /\ TruthInv'
  BY <1>6 DEF FollowInv, TruthInv
<1>10. AskInv'
  <2>1. a # 0 => /\ a <= pauses[Target]
                 /\ life[Target].status = "awaiting_human_input" /\ pauses[Target] = a
                      => wanted[Target] \subseteq screen.boxes
    BY <1>2, <1>5 DEF IInv, ScreenInv, AskInv
  <2> QED
    BY <1>2, <1>5, <1>6, <2>1 DEF AskInv
<1> QED
  BY <1>1, <1>7, <1>8, <1>9, <1>10 DEF IInv, ScreenInv

LEMMA RejectedKeeps ==
  ASSUME IInv, Rejected
  PROVE  IInv'
<1>1. /\ Posting /\ Stop("continue") /\ screen' = Retrying(Target, "rejected") /\ box' = Empty
      /\ UNCHANGED <<server, marks, faults>>
  BY DEF Rejected
<1>2. /\ ServerShape' /\ LifeInv' /\ UNCHANGED <<life, wanted, pauses>> /\ faults' \in Nat
      /\ \A s \in Runs : s # Target => tasks'[s] = tasks[s]
  BY <1>1, Types DEF IInv, ServerShape, LifeInv, server
<1> QED
  BY <1>1, <1>2, RetryingKeeps

LEMMA UnreachableKeeps ==
  ASSUME IInv, Unreachable
  PROVE  IInv'
<1>1. /\ Posting /\ Stop("continue") /\ screen' = Retrying(Target, "unreachable")
      /\ box' = Empty /\ faults' = faults + 1 /\ (UNCHANGED server \/ Accept)
      /\ UNCHANGED marks
  BY DEF Unreachable, UnreachableTo, Fault
<1>2. /\ ServerShape' /\ LifeInv' /\ UNCHANGED <<life, wanted, pauses>>
      /\ \A s \in Runs : s # Target => tasks'[s] = tasks[s]
  <2>1. CASE UNCHANGED server
    BY <2>1 DEF IInv, ServerShape, LifeInv, server
  <2>2. CASE Accept
    BY <1>1, <2>2, AcceptEffect
  <2> QED
    BY <1>1, <2>1, <2>2
<1>3. faults' \in Nat
  BY <1>1, Types
<1> QED
  BY <1>1, <1>2, <1>3, RetryingKeeps

\* A handler dies and the screen stands; a password that was being sent stays.
LEMMA DiesKeeps ==
  ASSUME IInv, NEW g \in Events, Dies(g), gen[g].at \in {"trigger", "poll", "post"},
         UNCHANGED <<life, wanted, tasks, pauses>>, triggered' \subseteq Runs, faults' \in Nat
  PROVE  IInv'
<1>1. Stop(g) /\ died' = died \cup {g} /\ UNCHANGED <<screen, box, alone>>
  BY DEF Dies
<1>2. /\ gen' \in [Events -> Generators] /\ GenInv' /\ gen'[g] = Idle
      /\ \A h \in Events : h # g => gen'[h] = gen[h]
  BY <1>1, Types, GenSet DEF IInv, Stop, Idle, Resuming
<1>3. ServerShape' /\ LifeInv' /\ ClientShape'
  BY <1>1, <1>2, Types DEF IInv, ServerShape, LifeInv, ClientShape
<1>4. \/ g = "continue" /\ gen'["continue"].at = "idle"
      \/ g # "continue" /\ gen'["continue"] = gen["continue"] /\ g \in Asking /\ Active(g)
  BY <1>2, Types DEF Idle, Events, Active
<1>5. BoxInv'
  <2>1. CASE g = "continue"
    BY <1>1, <1>4, <2>1 DEF IInv, BoxInv, Posting, Queued
  <2>2. CASE g # "continue"
    BY <1>1, <1>4, <2>2 DEF IInv, BoxInv, Posting, Queued, Target
  <2> QED
    BY <2>1, <2>2
<1>6. AloneInv'
  <2>1. CASE g = "continue"
    BY <1>4, <2>1 DEF AloneInv, Queued
  <2>2. CASE g # "continue"
    <3>1. ~(Queued /\ alone)
      BY <1>4, <2>2 DEF IInv, AloneInv
    <3> QED
      BY <1>1, <1>4, <2>2, <3>1 DEF AloneInv, Queued
  <2> QED
    BY <2>1, <2>2
<1>7. FollowInv'
  <2>1. gen'["continue"].at \in Resuming => gen["continue"].at \in Resuming
    BY <1>4 DEF Resuming
  <2>2. died' # {}
    BY <1>1
  <2> QED
    BY <1>1, <2>1, <2>2 DEF IInv, ScreenInv, FollowInv
<1>8. TruthInv' /\ AskInv'
  BY <1>1 DEF IInv, ScreenInv, TruthInv, AskInv
<1> QED
  BY <1>2, <1>3, <1>5, <1>6, <1>7, <1>8 DEF IInv, ScreenInv

LEMMA GarbledKeeps ==
  ASSUME IInv
  PROVE  /\ Garbled => IInv'
         /\ \A g \in Asking : TriggerGarbled(g) => IInv'
         /\ \A g \in Events : PollGarbled(g) => IInv'
<1>1. faults \in Nat /\ (Fault => faults' \in Nat) /\ triggered \subseteq Runs
      /\ (UNCHANGED server => UNCHANGED <<life, wanted, tasks, pauses>> /\ triggered' = triggered)
  BY Types DEF IInv, ServerShape, Fault, server
<1>2. ASSUME Garbled PROVE IInv'
  <2>1. Dies("continue") /\ gen["continue"].at = "post" /\ Fault /\ UNCHANGED server
    BY <1>2 DEF Garbled, Posting
  <2> QED
    BY <1>1, <2>1, DiesKeeps, Types
<1>3. ASSUME NEW g \in Asking, TriggerGarbled(g) PROVE IInv'
  <2>1. /\ Dies(g) /\ gen[g].at = "trigger" /\ Fault /\ g \in Events
        /\ UNCHANGED <<life, wanted, tasks, pauses>> /\ triggered' \subseteq Runs
    BY <1>1, <1>3, Types DEF TriggerGarbled
  <2> QED
    BY <1>1, <2>1, DiesKeeps
<1>4. ASSUME NEW g \in Events, PollGarbled(g) PROVE IInv'
  <2>1. Dies(g) /\ gen[g].at = "poll" /\ Fault /\ UNCHANGED server
    BY <1>4 DEF PollGarbled, Polling
  <2> QED
    BY <1>1, <2>1, DiesKeeps
<1> QED
  BY <1>2, <1>3, <1>4

-----------------------------------------------------------------------------
(* The theorems.                                                           *)

\* The invariant holds however the handlers of ui/app.py and the server interleave.
THEOREM InvariantHolds == Spec => []IInv
<1>1. IInv /\ [Next]_vars => IInv'
  <2>1. IInv /\ (\E g \in Asking : AskNothing(g) \/ Ask(g) \/ AskStep(g)) => IInv'
    BY AskNothingKeeps, AskKeeps, TriggeredKeeps, TriggerFailsKeeps, GarbledKeeps, LoseContactKeeps,
      ShowAnswerKeeps, ShowGateKeeps, TickKeeps, TimeOutKeeps, Types DEF AskStep
  <2>2. IInv /\ (Type \/ Continue \/ ContinueStep) => IInv'
    BY TypeKeeps, ContinueKeeps, ResumeStartsKeeps, NothingToResumeKeeps, AcceptedKeeps,
      RejectedKeeps, UnreachableKeeps, GarbledKeeps,
      LoseContactKeeps, ShowAnswerKeeps, ShowGateKeeps, TickKeeps, TimeOutKeeps, Types
      DEF ContinueStep
  <2>3. IInv /\ (\E r \in Runs : Proceeds(r) \/ Pauses(r) \/ BothStart(r)
                                 \/ \E i \in 1..2 : TaskStarts(r, i)) => IInv'
    BY ProceedsKeeps, PausesKeeps, BothStartKeeps, TaskStartsKeeps
  <2>4. IInv /\ UNCHANGED vars => IInv'
    <3> SUFFICES ASSUME IInv, UNCHANGED vars PROVE IInv'
      OBVIOUS
    <3>1. ServerShape' /\ LifeInv' /\ TruthInv' /\ AskInv' /\ UNCHANGED client
      BY DEF IInv, ScreenInv, ServerShape, LifeInv, TruthInv, AskInv, vars, client
    <3> QED
      BY <3>1, ServerKeeps
  <2> QED
    BY <2>1, <2>2, <2>3, <2>4 DEF Next
<1> QED
  BY <1>1, InitHolds, PTL DEF Spec

\* A click sends the password typed under the prompt it was clicked at, however
\* the handlers replaced prompts before; and it is posted to that prompt's run if
\* no question is under way between the click and the start of resume_gate
\* (app.py:142-148, :155-161, :225-232).
THEOREM PasswordsStayWithTheirPrompt == Spec => []PasswordStaysWithItsPrompt
<1>1. IInv => PasswordStaysWithItsPrompt
  BY DEF IInv, BoxInv, PasswordStaysWithItsPrompt
<1> QED
  BY <1>1, InvariantHolds, PTL

\* After any reply the client can read, a password it has sent is gone from the
\* page; a handler that died on one it could not read leaves it (app.py:214-217).
THEOREM SentPasswordsLeave == Spec => []PasswordLeaves
<1>1. IInv => PasswordLeaves
  BY DEF IInv, BoxInv, PasswordLeaves
<1> QED
  BY <1>1, InvariantHolds, PTL

\* A screen nobody updates says what is true of its run, and asks for what a run
\* that waits for a human needs; only a handler that died leaves it waiting.
THEOREM ScreensAreTrue == Spec => []ScreenIsTrue
<1>1. IInv => ScreenIsTrue
  <2> SUFFICES ASSUME IInv, screen.run # NoRun,
                      ~\E g \in Events : /\ gen[g].run = screen.run
                                         /\ gen[g].at \in {"poll", "post"},
                      life[screen.run].status # "contended"
               PROVE  /\ screen.about = "following" => died # {}
                      /\ screen.about = "done" => life[screen.run].answered
                      /\ screen.about = "paused" /\ screen.asked # 0 =>
                           /\ life[screen.run].status = "awaiting_human_input"
                           /\ pauses[screen.run] = screen.asked
                           /\ screen.gate /\ wanted[screen.run] \subseteq Shown
                      /\ screen.about = "rejected"
                           /\ life[screen.run].status = "awaiting_human_input"
                           /\ pauses[screen.run] = screen.asked =>
                           screen.gate /\ wanted[screen.run] \subseteq Shown
    BY DEF ScreenIsTrue, IInv, ScreenInv, FollowInv
  <2>1. screen.run \in Runs
    BY Types DEF Screens, AnyRun
  <2>2. screen.about = "following" => died # {}
    BY DEF IInv, ScreenInv, FollowInv
  <2>3. life[screen.run].status = "awaiting_human_input" /\ pauses[screen.run] = screen.asked =>
          screen.asked # 0
    BY <2>1 DEF IInv, LifeInv
  <2>4. /\ screen.about \in {"paused", "rejected"} => screen.gate
        /\ screen.gate => Shown = screen.boxes
    BY DEF IInv, ScreenInv, AskInv, Shown
  <2> QED
    BY <2>1, <2>2, <2>3, <2>4 DEF IInv, ScreenInv, TruthInv, AskInv
<1> QED
  BY <1>1, InvariantHolds, PTL

-----------------------------------------------------------------------------
(* The fold over the runs, for any finite set of them.                     *)

\* The least-number principle.
LEMMA Least ==
  ASSUME NEW T, T \subseteq Nat, T # {}
  PROVE  \E x \in T : \A y \in T : x <= y
<1> DEFINE R == OpToRel(<, Nat)
<1>1. IsWellFoundedOn(R, Nat)
  BY NatLessThanWellFounded
<1>2. \A m, n \in Nat : m < n => <<m, n>> \in R
  BY DEF OpToRel
<1> HIDE DEF R
<1>3. PICK x \in T : \A y \in T : <<y, x>> \notin R
  BY <1>1, WFMin
<1>4. \A y \in T : ~(y < x)
  BY <1>2, <1>3
<1>5. \A y \in T : x <= y
  BY <1>4
<1> QED
  BY <1>5

\* What the fold computes: it[s] is the sum over s.
SumOf(f, it, s) == IF s = {} THEN 0 ELSE LET x == CHOOSE x \in s : TRUE IN f[x] + it[s \ {x}]
UpTo(k) == {s \in SUBSET Runs : IsFiniteSet(s) /\ Cardinality(s) <= k}
Sums(f, D, it) == it = [s \in D |-> SumOf(f, it, s)]

LEMMA Chosen ==
  ASSUME NEW s \in SUBSET Runs, IsFiniteSet(s), s # {}
  PROVE  LET x == CHOOSE x \in s : TRUE
         IN  /\ x \in s /\ s \ {x} \in SUBSET Runs /\ IsFiniteSet(s \ {x})
             /\ Cardinality(s) \in Nat /\ Cardinality(s \ {x}) \in Nat
             /\ Cardinality(s \ {x}) = Cardinality(s) - 1
<1> DEFINE x == CHOOSE x \in s : TRUE
<1>1. x \in s
  OBVIOUS
<1> HIDE DEF x
<1>2. IsFiniteSet(s \ {x}) /\ Cardinality(s \ {x}) = Cardinality(s) - 1
  BY <1>1, FS_RemoveElement
<1>3. Cardinality(s) \in Nat /\ Cardinality(s \ {x}) \in Nat
  BY <1>2, FS_CardinalityType
<1> QED
  BY <1>1, <1>2, <1>3 DEF x

\* Whatever has a chosen element less has a smaller count, so that one more
\* element can always be added.
LEMMA SumsGrow ==
  ASSUME NEW f, NEW k \in Nat, k # 0, NEW g, Sums(f, UpTo(k - 1), g)
  PROVE  \E it : Sums(f, UpTo(k), it)
<1> DEFINE it == [s \in UpTo(k) |-> SumOf(f, g, s)]
<1>1. ASSUME NEW s \in UpTo(k)
      PROVE  SumOf(f, it, s) = SumOf(f, g, s)
  <2>1. CASE s = {}
    BY <2>1 DEF SumOf
  <2>2. CASE s # {}
    <3> DEFINE x == CHOOSE x \in s : TRUE
               t == s \ {x}
    <3>1. t \in UpTo(k) /\ t \in UpTo(k - 1)
      <4>1. s \in SUBSET Runs /\ IsFiniteSet(s) /\ Cardinality(s) <= k
        BY DEF UpTo
      <4>2. /\ t \in SUBSET Runs /\ IsFiniteSet(t)
            /\ Cardinality(s) \in Nat /\ Cardinality(t) = Cardinality(s) - 1
        BY <2>2, <4>1, Chosen
      <4>3. Cardinality(t) <= k - 1 /\ Cardinality(t) <= k
        BY <4>1, <4>2
      <4> HIDE DEF t
      <4> QED
        BY <4>2, <4>3 DEF UpTo
    <3>2. it[t] = SumOf(f, g, t)
      <4> HIDE DEF t
      <4> QED
        BY <3>1
    <3>3. g[t] = SumOf(f, g, t)
      <4> HIDE DEF t
      <4> QED
        BY <3>1 DEF Sums
    <3>4. SumOf(f, it, s) = f[x] + it[t] /\ SumOf(f, g, s) = f[x] + g[t]
      <4> HIDE DEF it
      <4> QED
        BY <2>2 DEF SumOf
    <3> HIDE DEF it, t, x
    <3> QED
      BY <3>2, <3>3, <3>4
  <2> QED
    BY <2>1, <2>2
<1>2. it = [s \in UpTo(k) |-> SumOf(f, it, s)]
  <2> DEFINE same == [s \in UpTo(k) |-> SumOf(f, it, s)]
  <2>1. \A s \in UpTo(k) : it[s] = same[s]
    <3> SUFFICES ASSUME NEW s \in UpTo(k) PROVE SumOf(f, g, s) = SumOf(f, it, s)
      OBVIOUS
    <3> HIDE DEF it
    <3> QED
      BY <1>1
  <2> QED
    BY <1>1
<1> HIDE DEF it
<1>3. Sums(f, UpTo(k), it)
  BY <1>2 DEF Sums
<1> QED
  BY <1>3

LEMMA SumsExist ==
  ASSUME NEW f, NEW n \in Nat
  PROVE  \E it : Sums(f, UpTo(n), it)
<1> DEFINE T == {k \in Nat : ~\E it : Sums(f, UpTo(k), it)}
<1>1. T = {}
  <2> SUFFICES ASSUME T # {} PROVE FALSE
    OBVIOUS
  <2>1. PICK k \in T : \A j \in T : k <= j
    <3>1. T \subseteq Nat
      OBVIOUS
    <3> HIDE DEF T
    <3> QED
      BY <3>1, Least
  <2>2. k \in Nat /\ ~\E it : Sums(f, UpTo(k), it)
    OBVIOUS
  <2>3. CASE k = 0
    <3> DEFINE it == [s \in UpTo(0) |-> 0]
    <3>1. \A s \in UpTo(0) : s = {}
      <4>1. \A s \in UpTo(0) : IsFiniteSet(s) /\ Cardinality(s) <= 0 /\ Cardinality(s) \in Nat
        BY FS_CardinalityType DEF UpTo
      <4>2. \A s \in UpTo(0) : Cardinality(s) = 0
        BY <4>1
      <4> QED
        BY <4>1, <4>2, FS_EmptySet
    <3>2. Sums(f, UpTo(0), it)
      BY <3>1 DEF Sums, SumOf
    <3> QED
      BY <2>2, <2>3, <3>2
  <2>4. CASE k # 0
    <3>1. k - 1 \in Nat /\ ~(k <= k - 1)
      BY <2>2, <2>4
    <3>2. PICK g : Sums(f, UpTo(k - 1), g)
      BY <2>1, <3>1
    <3> HIDE DEF T
    <3> QED
      BY <2>2, <2>4, <3>2, SumsGrow
  <2> QED
    BY <2>3, <2>4
<1> QED
  BY <1>1

\* No summand exceeds the sum.
LEMMA SumBounds ==
  ASSUME NEW f \in [Runs -> Nat], IsFiniteSet(Runs)
  PROVE  /\ FoldFunction(+, 0, f) \in Nat
         /\ \A r \in Runs : f[r] <= FoldFunction(+, 0, f)
<1> DEFINE Sets == SUBSET Runs
           it == CHOOSE it : Sums(f, Sets, it)
<1>1. DOMAIN f = Runs
  OBVIOUS
<1>2. FoldFunction(+, 0, f) = it[Runs]
  <2>1. FoldFunction(+, 0, f) = (CHOOSE i : Sums(f, SUBSET (DOMAIN f), i))[DOMAIN f]
    BY DEF FoldFunction, FoldFunctionOnSet, MapThenFoldSet, Sums, SumOf
  <2> QED
    BY <1>1, <2>1
<1>3. Sums(f, Sets, it)
  <2>1. Cardinality(Runs) \in Nat
    BY FS_CardinalityType
  <2>2. UpTo(Cardinality(Runs)) = Sets
    BY FS_Subset DEF UpTo
  <2>3. \E i : Sums(f, UpTo(Cardinality(Runs)), i)
    BY <2>1, SumsExist
  <2>4. \E i : Sums(f, Sets, i)
    BY <2>2, <2>3
  <2> HIDE DEF Sets
  <2> QED
    BY <2>4
<1> HIDE DEF it
<1>4. \A s \in Sets : it[s] = SumOf(f, it, s)
  BY <1>3 DEF Sums
<1>5. \A s \in Sets : IsFiniteSet(s) /\ Cardinality(s) \in Nat
  BY FS_Subset, FS_CardinalityType
<1> DEFINE Bounds(s) == it[s] \in Nat /\ \A r \in s : f[r] <= it[s]
           T == {Cardinality(s) : s \in {s \in Sets : ~Bounds(s)}}
<1>6. T = {}
  <2> SUFFICES ASSUME T # {} PROVE FALSE
    OBVIOUS
  <2>1. PICK k \in T : \A j \in T : k <= j
    <3>1. T \subseteq Nat
      BY <1>5
    <3> HIDE DEF T
    <3> QED
      BY <3>1, Least
  <2>2. PICK s \in Sets : ~Bounds(s) /\ k = Cardinality(s)
    OBVIOUS
  <2>3. \A t \in Sets : Cardinality(t) < k => Bounds(t)
    <3> SUFFICES ASSUME NEW t \in Sets, Cardinality(t) < k, ~Bounds(t) PROVE FALSE
      OBVIOUS
    <3>1. Cardinality(t) \in T
      OBVIOUS
    <3>2. Cardinality(t) \in Nat /\ k \in Nat
      BY <1>5, <2>2
    <3> HIDE DEF T
    <3> QED
      BY <2>1, <3>1, <3>2
  <2> HIDE DEF T
  <2>4. CASE s = {}
    BY <1>4, <2>2, <2>4 DEF SumOf
  <2>5. CASE s # {}
    <3> DEFINE x == CHOOSE x \in s : TRUE
               t == s \ {x}
    <3>1. /\ x \in s /\ t \in Sets /\ Cardinality(t) < k
      <4>1. /\ x \in s /\ t \in Sets /\ Cardinality(s) \in Nat
            /\ Cardinality(t) = Cardinality(s) - 1
        BY <1>5, <2>5, Chosen
      <4> HIDE DEF t, x
      <4> QED
        BY <2>2, <4>1
    <3>2. it[s] = f[x] + it[t]
      BY <1>4, <2>5 DEF SumOf
    <3>3. \A r \in s : r = x \/ r \in t
      OBVIOUS
    <3> HIDE DEF t, x
    <3>4. Bounds(t)
      BY <2>3, <3>1
    <3>5. f[x] \in Nat /\ it[t] \in Nat /\ \A r \in t : f[r] <= it[t]
      BY <3>1, <3>4
    <3>6. it[s] \in Nat /\ f[x] <= it[s] /\ it[t] <= it[s]
      BY <3>2, <3>5
    <3>7. \A r \in s : f[r] <= it[s]
      <4> SUFFICES ASSUME NEW r \in s PROVE f[r] <= it[s]
        OBVIOUS
      <4>1. f[r] \in Nat
        OBVIOUS
      <4> QED
        BY <3>3, <3>5, <3>6, <4>1
    <3> QED
      BY <2>2, <3>6, <3>7
  <2> QED
    BY <2>4, <2>5
<1>7. Bounds(Runs)
  BY <1>6
<1> QED
  BY <1>2, <1>7

-----------------------------------------------------------------------------
(* The bounds of TypeOK.                                                   *)

\* A resume that is under way finds room for its task: only "continue" posts,
\* and it looked when it began.
TasksBound ==
  /\ \A r \in Runs : Len(tasks[r]) <= 2
  /\ Posting => Len(tasks[Target]) < 2
PausesBound == \A r \in Runs : pauses[r] <= MaxPauses
AskedBound == screen.asked <= MaxPauses
WaitedBound == \A g \in Events : gen[g].waited <= MaxPolls
FaultsBound == faults <= MaxFaults
BoundInv == TasksBound /\ PausesBound /\ AskedBound /\ WaitedBound /\ FaultsBound

LEMMA InitBound == Init => BoundInv
<1> SUFFICES ASSUME Init PROVE BoundInv
  OBVIOUS
<1>1. MaxPolls \in Nat /\ MaxPauses \in Nat /\ MaxFaults \in Nat
  BY BoundsAssumption
<1>2. Idle.waited = 0 /\ Idle.at = "idle"
  BY DEF Idle
<1>3. screen.asked = 0
  BY DEF Init, Hidden
<1>4. \A r \in Runs : Len(tasks[r]) = 0 /\ pauses[r] = 0
  BY DEF Init
<1>5. \A g \in Events : gen[g] = Idle
  BY DEF Init
<1>6. ~Posting
  BY <1>2, <1>5 DEF Posting, Events
<1> QED
  BY <1>1, <1>2, <1>3, <1>4, <1>5, <1>6
  DEF Init, BoundInv, TasksBound, PausesBound, AskedBound, WaitedBound, FaultsBound

\* The sum is below MaxPauses, and so is each run's count.
LEMMA PausesBounded ==
  ASSUME IsFiniteSet(Runs), IInv, BoundInv, [Next]_vars
  PROVE  PausesBound'
<1>1. pauses \in [Runs -> Nat] /\ PausesBound
  BY DEF IInv, ServerShape, BoundInv
<1>2. CASE \E r \in Runs : Pauses(r)
  <2>1. PICK r \in Runs : /\ FoldFunction(+, 0, pauses) < MaxPauses
                          /\ pauses' = [pauses EXCEPT ![r] = @ + 1]
    BY <1>2 DEF Pauses
  <2>2. FoldFunction(+, 0, pauses) \in Nat /\ pauses[r] <= FoldFunction(+, 0, pauses)
    BY <1>1, SumBounds
  <2> DEFINE sum == FoldFunction(+, 0, pauses)
  <2>3. sum < MaxPauses /\ sum \in Nat /\ pauses[r] <= sum
    BY <2>1, <2>2
  <2> HIDE DEF sum
  <2>4. pauses[r] + 1 <= MaxPauses
    BY <1>1, <2>3, BoundsAssumption
  <2> QED
    BY <1>1, <2>1, <2>4 DEF PausesBound
<1>3. CASE ~\E r \in Runs : Pauses(r)
  <2>1. UNCHANGED pauses
    BY <1>3 DEF Next, vars, server, AskNothing, Ask, AskStep, ContinueStep, Triggered,
      TriggerFails, TriggerGarbled,
      LoseContact, ShowAnswer, ShowGate, ShowGateTo, Tick, TimeOut, Type, Continue,
      Accepted, Accept, Rejected, Unreachable, UnreachableTo, Garbled, Dies, PollGarbled, ResumeStarts,
      NothingToResume, Proceeds, BothStart,
      TaskStarts
  <2> QED
    BY <1>1, <2>1 DEF PausesBound
<1> QED
  BY <1>2, <1>3

LEMMA FaultsBounded ==
  ASSUME IInv, BoundInv, [Next]_vars
  PROVE  FaultsBound'
<1>1. faults \in Nat /\ faults <= MaxFaults
  BY Types DEF BoundInv, FaultsBound
<1>2. UNCHANGED faults \/ Fault
  BY DEF Next, vars, AskNothing, Ask, AskStep, ContinueStep, Triggered, TriggerFails, TriggerGarbled,
    LoseContact, ShowAnswer, ShowGate, ShowGateTo, Tick, TimeOut, Type, Continue, Accepted,
    Rejected, Unreachable, UnreachableTo, Garbled, Dies, PollGarbled, ResumeStarts,
      NothingToResume, Proceeds, Pauses, BothStart, TaskStarts
<1> QED
  BY <1>1, <1>2, BoundsAssumption DEF Fault, FaultsBound

LEMMA AskedBounded ==
  ASSUME IInv, BoundInv, [Next]_vars
  PROVE  AskedBound'
<1>1. screen.asked \in Nat /\ screen.asked <= MaxPauses /\ MaxPauses \in Nat
      /\ screen \in Screens
  BY Types, BoundsAssumption DEF BoundInv, AskedBound
<1>2. \A r, about : Hidden(r, about).asked = 0
  BY DEF Hidden
<1>3. ASSUME NEW r \in Runs
      PROVE  Prompting(r).asked <= MaxPauses
  BY <1>1 DEF Prompting, BoundInv, PausesBound
<1>4. ASSUME NEW r
      PROVE  Continuing(r).asked = screen.asked
  BY <1>1 DEF Continuing, Screens
<1>5. ASSUME NEW r, NEW about
      PROVE  Retrying(r, about).asked \in {0, screen.asked}
  BY <1>1 DEF Retrying, Screens
<1>6. \/ UNCHANGED screen
      \/ \E r, about : screen' = Hidden(r, about) \/ screen' = Retrying(r, about)
      \/ \E r : screen' = Continuing(r)
      \/ \E g \in Events : gen[g].at = "poll" /\ screen' = Prompting(gen[g].run)
  BY DEF Next, vars, AskNothing, Ask, AskStep, ContinueStep, Triggered, TriggerFails, TriggerGarbled,
    LoseContact, ShowAnswer, ShowGate, ShowGateTo, Polling, Tick, TimeOut, Type, Continue, Accepted,
    Rejected, Unreachable, UnreachableTo, Garbled, Dies, PollGarbled, ResumeStarts,
      NothingToResume, Proceeds, Pauses, BothStart, TaskStarts, Events
<1>7. \A g \in Events : gen[g].at = "poll" => gen[g].run \in Runs
  BY DEF IInv, GenInv
<1> QED
  BY <1>1, <1>2, <1>3, <1>4, <1>5, <1>6, <1>7 DEF AskedBound

\* A generator's count of polls after a step: none, as before, or one more if
\* the ceiling was not reached.
Counted(w, v) == v = 0 \/ v = w \/ (w < MaxPolls /\ v = w + 1)

\* What the two kinds of updates do to the counts.
LEMMA CountsSet ==
  ASSUME gen \in [Events -> Generators], NEW g \in Events, NEW x \in Generators,
         Counted(gen[g].waited, x.waited), gen' = [gen EXCEPT ![g] = x]
  PROVE  \A h \in Events : Counted(gen[h].waited, gen'[h].waited)
  BY DEF Counted

LEMMA WaitedBounded ==
  ASSUME IInv, BoundInv, [Next]_vars
  PROVE  WaitedBound'
<1> DEFINE Counts == \A h \in Events : Counted(gen[h].waited, gen'[h].waited)
<1>1. gen \in [Events -> Generators] /\ Idle \in Generators /\ Idle.waited = 0
  BY Types DEF Idle
<1>2. UNCHANGED gen => Counts
  BY DEF Counted
<1>3. ASSUME NEW g \in Events, Stop(g)
      PROVE  Counts
  BY <1>1, <1>3, CountsSet DEF Stop, Counted
<1>4. ASSUME NEW g \in Events, Tick(g)
      PROVE  Counts
  <2> DEFINE x == [gen[g] EXCEPT !.waited = @ + 1]
  <2>1. gen' = [gen EXCEPT ![g] = x] /\ gen[g].waited < MaxPolls
    BY <1>4 DEF Tick, Polling
  <2>2. x \in Generators /\ x.waited = gen[g].waited + 1
    BY <1>1 DEF Generators
  <2> HIDE DEF x
  <2> QED
    BY <1>1, <2>1, <2>2, CountsSet DEF Counted
<1>5. ASSUME NEW g \in Asking, Ask(g)
      PROVE  Counts
  BY <1>1, <1>5 DEF Ask, Counted, Generators
<1>6. ASSUME NEW g \in Asking, Triggered(g)
      PROVE  Counts
  BY <1>1, <1>6 DEF Triggered, Counted, Generators
<1>7. ASSUME Continue \/ ResumeStarts
      PROVE  Counts
  <2>1. CASE Continue
    BY <1>1, <2>1 DEF Continue, Counted, Generators
  <2>2. CASE ResumeStarts
    <3> DEFINE x == [[gen["continue"] EXCEPT !.at = "post"] EXCEPT !.run = screen.run]
    <3>1. "continue" \in Events /\ gen["continue"] \in Generators /\ screen.run \in AnyRun
      BY <1>1, Types DEF Screens
    <3>2. x \in Generators /\ x.waited = gen["continue"].waited
      <4>1. [gen["continue"] EXCEPT !.at = "post"] \in Generators
        BY <3>1 DEF Generators
      <4> QED
        BY <3>1, <4>1 DEF Generators
    <3>3. gen' = [gen EXCEPT !["continue"] = x]
      BY <1>1, <2>2, <3>1 DEF ResumeStarts, Generators
    <3> HIDE DEF x
    <3> QED
      BY <1>1, <3>1, <3>2, <3>3, CountsSet DEF Counted
  <2> QED
    BY <1>7, <2>1, <2>2
<1>8. ASSUME Accepted
      PROVE  Counts
  BY <1>1, <1>8 DEF Accepted, Counted, Generators
<1>9. Counts
  <2>1. "continue" \in Events /\ Asking \subseteq Events
    BY Types
  <2> HIDE DEF Counts
  <2>2. \A g \in Events : LoseContact(g) \/ ShowAnswer(g) \/ ShowGate(g) \/ TimeOut(g)
                            \/ TriggerFails(g) \/ TriggerGarbled(g) \/ PollGarbled(g) => Counts
    BY <1>3 DEF LoseContact, ShowAnswer, ShowGate, ShowGateTo, TimeOut, TriggerFails,
      TriggerGarbled, PollGarbled, Dies
  <2>3. Rejected \/ Unreachable \/ Garbled \/ NothingToResume => Counts
    BY <1>3, <2>1 DEF Rejected, Unreachable, UnreachableTo, Garbled, Dies, PollGarbled, ResumeStarts,
      NothingToResume
  <2>4. \A g \in Asking : AskNothing(g) \/ Ask(g) \/ AskStep(g) => Counts
    BY <1>2, <1>4, <1>5, <1>6, <2>1, <2>2 DEF AskNothing, AskStep
  <2>5. Type \/ Continue \/ ContinueStep => Counts
    BY <1>2, <1>4, <1>7, <1>8, <2>1, <2>2, <2>3 DEF Type, ContinueStep
  <2>6. \A r \in Runs : Proceeds(r) \/ Pauses(r) \/ BothStart(r)
                          \/ (\E i \in 1..2 : TaskStarts(r, i)) => Counts
    BY <1>2 DEF Proceeds, Pauses, BothStart, TaskStarts
  <2> QED
    BY <1>2, <2>4, <2>5, <2>6 DEF Next, vars
<1>10. \A h \in Events : gen[h].waited \in Nat /\ gen[h].waited <= MaxPolls
  BY <1>1 DEF Generators, BoundInv, WaitedBound
<1> QED
  BY <1>9, <1>10, BoundsAssumption DEF WaitedBound, Counted

\* Posting has a run, and another task of it finds room.
LEMMA TasksBounded ==
  ASSUME IInv, BoundInv, [Next]_vars
  PROVE  TasksBound'
<1>1. /\ tasks \in [Runs -> Seq(SUBSET Fields)] /\ TasksBound
      /\ gen \in [Events -> Generators] /\ GenInv
  BY DEF IInv, ServerShape, ClientShape, BoundInv
<1>2. \A r \in Runs : Len(tasks[r]) \in Nat /\ Len(tasks[r]) <= 2
  BY <1>1 DEF TasksBound
<1>3. CASE UNCHANGED tasks /\ (Posting' => Posting /\ Target' = Target)
  BY <1>1, <1>3 DEF TasksBound
<1>4. CASE ResumeStarts
  <2>1. UNCHANGED tasks /\ Len(tasks[screen.run]) < 2
    BY <1>4 DEF ResumeStarts, server
  <2>2. Target' = screen.run
    BY <1>1, <1>4 DEF ResumeStarts, Target, Events, Generators
  <2> QED
    BY <1>1, <2>1, <2>2 DEF TasksBound
<1>5. CASE Posting /\ Accept /\ ~Posting'
  <2>1. tasks' = tasks \/ tasks' = [tasks EXCEPT ![Target] = Append(@, Given)]
    BY <1>5 DEF Accept
  <2>2. Target \in Runs /\ Given \in SUBSET Fields /\ Len(tasks[Target]) < 2
    BY <1>1, <1>5, PostedRun DEF TasksBound
  <2>3. Len(Append(tasks[Target], Given)) = Len(tasks[Target]) + 1
    BY <1>1, <2>2
  <2>4. Len(Append(tasks[Target], Given)) <= 2
    BY <1>2, <2>2, <2>3
  <2> QED
    BY <1>1, <1>2, <1>5, <2>1, <2>2, <2>4 DEF TasksBound
<1>6. ASSUME NEW r \in Runs, NEW i \in 1..2, TaskStarts(r, i)
      PROVE  TasksBound'
  <2> DEFINE s == tasks[r]
  <2>1. /\ i \in 1..Len(s) /\ s \in Seq(SUBSET Fields) /\ UNCHANGED gen
        /\ tasks' = [tasks EXCEPT ![r] = RemoveAt(s, i)]
    BY <1>1, <1>6 DEF TaskStarts
  <2> HIDE DEF s
  <2>2. Len(RemoveAt(s, i)) = Len(s) - 1
    <3>1. SubSeq(s, 1, i - 1) \in Seq(SUBSET Fields) /\ Len(SubSeq(s, 1, i - 1)) = i - 1
      BY <2>1
    <3>2. SubSeq(s, i + 1, Len(s)) \in Seq(SUBSET Fields)
          /\ Len(SubSeq(s, i + 1, Len(s))) = Len(s) - i
      BY <2>1
    <3>3. RemoveAt(s, i) = SubSeq(s, 1, i - 1) \o SubSeq(s, i + 1, Len(s))
      BY DEF RemoveAt
    <3> DEFINE a == SubSeq(s, 1, i - 1)
               b == SubSeq(s, i + 1, Len(s))
    <3> HIDE DEF a, b
    <3>4. Len(a \o b) = Len(a) + Len(b)
      BY <3>1, <3>2 DEF a, b
    <3>5. Len(RemoveAt(s, i)) = (i - 1) + (Len(s) - i)
      BY <3>1, <3>2, <3>3, <3>4 DEF a, b
    <3>6. Len(s) \in Int /\ i \in Int
      BY <2>1
    <3> QED
      BY <3>5, <3>6
  <2>3. Len(s) \in Nat /\ Len(s) <= 2 /\ (Posting /\ Target = r => Len(s) < 2)
    BY <1>1, <1>2 DEF s, TasksBound
  <2>4. /\ tasks'[r] = RemoveAt(s, i) /\ \A q \in Runs : q # r => tasks'[q] = tasks[q]
    BY <1>1, <2>1
  <2>5. Len(tasks'[r]) <= 2 /\ (Posting /\ Target = r => Len(tasks'[r]) < 2)
    BY <2>2, <2>3, <2>4
  <2>6. Posting => Target \in Runs
    BY PostedRun
  <2> QED
    BY <1>1, <1>2, <2>1, <2>4, <2>5, <2>6 DEF TasksBound, Posting, Target
<1>7. ASSUME NEW r \in Runs, BothStart(r)
      PROVE  TasksBound'
  <2>1. /\ UNCHANGED gen /\ tasks'[r] = << >>
        /\ \A q \in Runs : q # r => tasks'[q] = tasks[q]
    BY <1>1, <1>7 DEF BothStart
  <2>2. Posting => Target \in Runs
    BY PostedRun
  <2> QED
    BY <1>1, <1>2, <2>1, <2>2 DEF TasksBound, Posting, Target
<1> DEFINE Same == UNCHANGED tasks /\ (Posting' => Posting /\ Target' = Target)
<1>8. "continue" \in Events /\ Asking \subseteq Events /\ "continue" \notin Asking
      /\ Idle.at = "idle"
  BY Types DEF Idle
<1>9. UNCHANGED <<tasks, gen>> => Same
  BY DEF Posting, Target
<1>10. ASSUME NEW g \in Asking, AskNothing(g) \/ Ask(g) \/ AskStep(g)
       PROVE  Same
  <2>1. UNCHANGED tasks /\ gen'["continue"] = gen["continue"]
    BY <1>1, <1>8, <1>10 DEF AskNothing, Ask, AskStep, Triggered, TriggerFails, TriggerGarbled,
      LoseContact,
      ShowAnswer, ShowGate, ShowGateTo, Tick, TimeOut, TriggerGarbled, PollGarbled, Dies,
      Stop, server
  <2> QED
    BY <2>1 DEF Posting, Target
<1>11. ASSUME NEW g \in Events, g = "continue",
              LoseContact(g) \/ PollGarbled(g) \/ ShowAnswer(g) \/ ShowGate(g) \/ Tick(g)
                \/ TimeOut(g)
       PROVE  Same
  <2>1. UNCHANGED tasks /\ gen[g].at = "poll"
    BY <1>11 DEF LoseContact, PollGarbled, ShowAnswer, ShowGate, ShowGateTo, Tick, TimeOut,
      Polling, server
  <2>2. gen'[g].at \in {"idle", "poll"}
    BY <1>1, <1>8, <1>11, <2>1 DEF LoseContact, PollGarbled, Dies, ShowAnswer, ShowGate,
      ShowGateTo, Tick, TimeOut, Stop, Generators
  <2> QED
    BY <1>11, <2>1, <2>2 DEF Posting, Target
<1>12. Stop("continue") => ~Posting'
  BY <1>1, <1>8 DEF Stop, Posting
<1>13. Rejected \/ Garbled \/ NothingToResume => Same
  BY <1>12 DEF Rejected, Garbled, Dies, NothingToResume, server
<1>14. Accepted \/ Unreachable => Same \/ (Posting /\ Accept /\ ~Posting')
  <2>1. Unreachable => Same \/ (Posting /\ Accept /\ ~Posting')
    BY <1>12 DEF Unreachable, UnreachableTo, server
  <2>2. Accepted => Posting /\ Accept /\ ~Posting'
    BY <1>1, <1>8 DEF Accepted, Posting, Generators
  <2> QED
    BY <2>1, <2>2
<1>15. ContinueStep => Same \/ ResumeStarts \/ (Posting /\ Accept /\ ~Posting')
  BY <1>8, <1>11, <1>13, <1>14 DEF ContinueStep
<1>16. Type \/ Continue => Same
  <2>1. Continue => ~Posting' /\ UNCHANGED tasks
    BY <1>1, <1>8 DEF Continue, Posting, server
  <2> QED
    BY <1>9, <2>1 DEF Type, server
<1>17. \A r \in Runs : Proceeds(r) \/ Pauses(r) => Same
  BY <1>9 DEF Proceeds, Pauses
<1>18. Same => TasksBound'
  BY <1>3
<1> HIDE DEF Same
<1> QED
  BY <1>4, <1>5, <1>6, <1>7, <1>9, <1>10, <1>15, <1>16, <1>17, <1>18 DEF Next, vars

\* Type correctness of a session of finitely many runs: counts of pauses, polls
\* and faults within their bounds, and never three resumes of a run at once.
THEOREM TypeCorrect ==
  ASSUME IsFiniteSet(Runs)
  PROVE  Spec => []TypeOK
<1>1. IInv /\ BoundInv /\ [Next]_vars => BoundInv'
  <2> SUFFICES ASSUME IInv, BoundInv, [Next]_vars PROVE BoundInv'
    OBVIOUS
  <2> QED
    BY PausesBounded, FaultsBounded, AskedBounded, WaitedBounded, TasksBounded DEF BoundInv
<1>2. IInv /\ BoundInv => TypeOK
  <2> SUFFICES ASSUME IInv, BoundInv PROVE TypeOK
    OBVIOUS
  <2>1. MaxPolls \in Nat /\ MaxPauses \in Nat /\ MaxFaults \in Nat
    BY BoundsAssumption
  <2>2. /\ life \in [Runs -> [status : {"absent", "running", "awaiting_human_input",
                                        "completed", "failed", "circuit_broken",
                                        "no_capability", "contended"},
                              answered : BOOLEAN, acts : BOOLEAN]]
        /\ wanted \in [Runs -> SUBSET Fields] /\ triggered \subseteq Runs
        /\ tasks \in [Runs -> Seq(SUBSET Fields)] /\ pauses \in [Runs -> Nat]
    BY DEF IInv, ServerShape, Lives, LifeStatus
  <2>3. pauses \in [Runs -> 0..MaxPauses]
    BY <2>1, <2>2 DEF BoundInv, PausesBound
  <2>4. \A r \in Runs : Len(tasks[r]) <= 2
    BY DEF BoundInv, TasksBound
  <2>5. screen \in [run : AnyRun, about : About, gate : BOOLEAN, boxes : SUBSET Fields,
                    asked : 0..MaxPauses]
    <3>1. screen \in Screens /\ screen.asked \in 0..MaxPauses
      BY <2>1, Types DEF BoundInv, AskedBound
    <3> QED
      BY <3>1 DEF Screens
  <2>6. box \in [run : AnyRun, state : {"empty", "typed", "sent"}]
    BY Types DEF PasswordBoxes
  <2>7. gen \in [Events -> [at : {"idle", "trigger", "poll", "queued", "post"}, run : AnyRun,
                            waited : 0..MaxPolls, given : SUBSET Fields, secret : AnyRun]]
    <3>1. \A g \in Events : gen[g] \in Generators /\ gen[g].waited \in 0..MaxPolls
      BY <2>1, Types DEF BoundInv, WaitedBound, Generators
    <3>2. \A g \in Events :
            gen[g] \in [at : {"idle", "trigger", "poll", "queued", "post"}, run : AnyRun,
                        waited : 0..MaxPolls, given : SUBSET Fields, secret : AnyRun]
      BY <3>1 DEF Generators
    <3> QED
      BY <3>2, Types
  <2>8. faults \in 0..MaxFaults /\ alone \in BOOLEAN /\ died \subseteq Events
    BY <2>1, Types DEF BoundInv, FaultsBound
  <2> QED
    BY <2>2, <2>3, <2>4, <2>5, <2>6, <2>7, <2>8 DEF TypeOK
<1> QED
  BY <1>1, <1>2, InitBound, InvariantHolds, PTL DEF Spec
=============================================================================
