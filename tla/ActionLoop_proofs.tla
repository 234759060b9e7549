-------------------------- MODULE ActionLoop_proofs --------------------------
(***************************************************************************)
(* What one handler thread does to a real page, for any action_max_steps,  *)
(* any credentials and any steps recorded before: it performs no payment,  *)
(* its report is what happened, what it leaves to be replayed is what it   *)
(* did, its effort is bounded, and no step shows a password.               *)
(*                                                                         *)
(* The invariant says, per function (mode) and place (pc), how many        *)
(* actions there have been.  In execute_action_loop an iteration acts once *)
(* and a recovery once more, but a recovery takes two stalled iterations   *)
(* since the last one: three actions for two iterations at most (Pace).    *)
(*                                                                         *)
(* OrderInv rests on it: the last actions performed are those the recorded *)
(* steps say, by kind and in order; a step recorded but not performed yet  *)
(* is beyond the count.                                                    *)
(***************************************************************************)
EXTENDS ActionLoop, FiniteSetTheorems, TLAPS

\* No version of the code has stored a password among its steps.
LegacyIsClean == \A ss \in Legacy : \A n \in DOMAIN ss : ss[n].text # "password"
Recordable == {s \in ActionStep : LegacyIsClean => s.text # "password"}

Exploring == {"decide", "execute", "observe", "recover"}
LoggingIn == {"field", "locate", "submit", "pressed", "confirm"}
Ends == {"close", "return"}
Stalled == IF stall < 2 THEN stall ELSE 2
Untold == ~success /\ ~refused /\ ~extracted
Honest == ~(success /\ refused) /\ (extracted => success /\ hook)

Scalars ==
  /\ pc \in Exploring \cup LoggingIn \cup Ends \cup {"idle", "launch", "replay"}
  /\ mode \in {"explore", "login", "replay"} /\ hook \in BOOLEAN
  /\ creds \in Credentials \cup {{}}
  /\ i \in Nat /\ seen \in BOOLEAN /\ changed \in BOOLEAN /\ stall \in Nat /\ acted \in Nat
  /\ success \in BOOLEAN /\ refused \in BOOLEAN /\ extracted \in BOOLEAN
  /\ hint \in BOOLEAN /\ paid \in BOOLEAN /\ futile \in BOOLEAN

StepLists ==
  /\ steps \in Seq(Recordable) /\ prior \in Seq(Recordable) /\ memory \in Seq(Recordable)

TypedShape == typed \in [{"email", "password"} -> 0..2]
Shapes == Scalars /\ StepLists /\ TypedShape

PlaceInv ==
  /\ pc \in Exploring \cup {"idle"} => mode = "explore"
  /\ pc \in LoggingIn => mode = "login"
  /\ pc = "replay" => mode = "replay"
  /\ pc \notin Ends => Untold
  /\ Honest
  /\ mode = "login" => hook
  /\ mode = "replay" => ~extracted
  /\ mode # "explore" \/ pc \in {"idle", "launch"} => stall = 0
  /\ mode # "login" \/ pc \in {"idle", "launch"} => \A f \in DOMAIN typed : typed[f] = 0
  /\ pc \in {"idle", "launch"} => steps = << >>
  /\ pc = "idle" => acted = 0 /\ i = 0

\* The step just performed, or about to be, is no payment.
PayInv ==
  /\ ~paid
  /\ pc \in {"execute", "observe", "recover", "pressed"} =>
       steps # << >> /\ ~Last(steps).pay
  /\ pc = "execute" => Last(steps).kind \in Acting

\* The model saw the task done, and nothing was done since.
DoneAt(ss, n) ==
  n \in 1..Len(ss) /\ ss[n].kind = "done" /\ \A m \in n..Len(ss) : ss[m].kind \in Ending
SawDone == \E n \in 1..Len(steps) : DoneAt(steps, n)

Pace ==
  /\ pc = "decide" =>
       /\ i \in 1..(MaxSteps + 1) /\ acted = Acts(steps)
       /\ 2 * acted + Stalled <= 3 * (i - 1)
  /\ pc = "execute" =>
       /\ i \in 1..MaxSteps /\ acted + 1 = Acts(steps)
       /\ 2 * acted + Stalled <= 3 * (i - 1)
  /\ pc = "observe" =>
       /\ i \in 1..MaxSteps /\ acted = Acts(steps)
       /\ 2 * acted + Stalled <= 3 * (i - 1) + 2
  /\ pc = "recover" =>
       /\ i \in 1..MaxSteps /\ acted = Acts(steps)
       /\ 2 * acted + 2 <= 3 * i
  /\ pc = "close" => i <= MaxSteps + 1
  /\ pc \in Ends =>
       /\ 2 * acted <= 3 * MaxSteps
       /\ success => acted = Acts(steps) /\ SawDone

\* Every field up to the n-th has been typed, once or twice, and no later one.
TypedTo(n) ==
  \A m \in 1..Len(Wanted) : /\ m <= n => typed[Wanted[m]] \in 1..2
                            /\ m > n => typed[Wanted[m]] = 0

\* The n-th field may have been typed before the model is asked where it is.
TypedPart(n) ==
  \A m \in 1..Len(Wanted) : /\ m < n => typed[Wanted[m]] \in 1..2
                            /\ m = n => typed[Wanted[m]] \in 0..1
                            /\ m > n => typed[Wanted[m]] = 0

LoginPace ==
  LET L == Len(Wanted) IN
  /\ pc = "field" =>
       /\ i \in 1..(L + 1) /\ TypedTo(i - 1)
       /\ i - 1 <= acted /\ acted <= 2 * (i - 1)
  /\ pc = "locate" =>
       /\ i \in 1..L /\ TypedPart(i)
       /\ i - 1 <= acted /\ acted <= 2 * (i - 1) + 1
  /\ pc \in {"submit", "pressed", "confirm"} => i = L + 1 /\ TypedTo(L)
  /\ pc = "submit" => L <= acted /\ acted <= 2 * L
  /\ pc = "pressed" => L + 1 <= acted /\ acted <= 2 * L + 1
  /\ pc = "confirm" => L + 1 <= acted /\ acted <= 2 * L + 2
  /\ pc = "close" => i <= L + 1
  /\ pc \in Ends =>
       /\ acted <= 2 * L + 2
       /\ success => TypedTo(L) /\ L + 1 <= acted

\* A replay has performed what its first i - 1 steps say.
ReplayPace ==
  /\ pc = "replay" =>
       /\ i \in 1..(Len(prior) + 1)
       /\ acted = ActsTo(prior, i - 1) /\ acted = Acts(steps)
  /\ pc = "close" => i <= Len(prior) + 1
  /\ pc \in Ends =>
       /\ acted <= Len(prior)
       /\ success => acted = Acts(prior) /\ acted = Acts(steps)

PaceInv ==
  /\ mode = "explore" => Pace
  /\ mode = "login" => LoginPace
  /\ mode = "replay" => ReplayPace

IInv == Shapes /\ PlaceInv /\ PayInv /\ PaceInv

-----------------------------------------------------------------------------
(* Counting the steps that act.                                            *)

\* There are no more acting steps than steps.
LEMMA ActsToBounded ==
  ASSUME NEW ss, NEW n \in Nat
  PROVE  /\ IsFiniteSet({m \in 1..n : ss[m].kind \in Acting})
         /\ ActsTo(ss, n) \in Nat /\ ActsTo(ss, n) <= n
<1>1. IsFiniteSet(1..n) /\ Cardinality(1..n) = n
  BY FS_Interval
<1>2. {m \in 1..n : ss[m].kind \in Acting} \subseteq 1..n
  OBVIOUS
<1> QED
  BY <1>1, <1>2, FS_Subset, FS_CardinalityType DEF ActsTo

\* No step acts before the first.
LEMMA ActsToZero ==
  ASSUME NEW ss
  PROVE  ActsTo(ss, 0) = 0
<1>1. {m \in 1..0 : ss[m].kind \in Acting} = {}
  OBVIOUS
<1> QED
  BY <1>1, FS_EmptySet DEF ActsTo

\* The n-th step counts if it acts.
LEMMA ActsToNext ==
  ASSUME NEW ss, NEW n \in Nat \ {0}
  PROVE  ActsTo(ss, n) = ActsTo(ss, n - 1) + (IF ss[n].kind \in Acting THEN 1 ELSE 0)
<1> DEFINE S == {m \in 1..(n - 1) : ss[m].kind \in Acting}
           T == {m \in 1..n : ss[m].kind \in Acting}
<1>1. IsFiniteSet(S) /\ Cardinality(S) \in Nat
  BY ActsToBounded, n - 1 \in Nat DEF ActsTo
<1>2. CASE ss[n].kind \in Acting
  <2>1. T = S \cup {n} /\ n \notin S
    BY <1>2
  <2>2. Cardinality(S \cup {n}) = Cardinality(S) + 1
    <3> HIDE DEF S
    <3> QED
      BY <1>1, <2>1, FS_AddElement
  <2> QED
    BY <1>2, <2>1, <2>2 DEF ActsTo
<1>3. CASE ss[n].kind \notin Acting
  <2>1. T = S
    BY <1>3
  <2> QED
    BY <1>1, <1>3, <2>1 DEF ActsTo
<1> QED
  BY <1>2, <1>3

\* What is appended does not count before the end.
LEMMA ActsToPrefix ==
  ASSUME NEW D, NEW ss \in Seq(D), NEW s \in D
  PROVE  ActsTo(Append(ss, s), Len(ss)) = Acts(ss)
<1>1. \A m \in 1..Len(ss) : Append(ss, s)[m] = ss[m]
  OBVIOUS
<1>2. {m \in 1..Len(ss) : Append(ss, s)[m].kind \in Acting} = {m \in 1..Len(ss) : ss[m].kind \in Acting}
  BY <1>1
<1> QED
  BY <1>2 DEF ActsTo, Acts

\* One step more counts if it acts.
LEMMA ActsAppend ==
  ASSUME NEW D, NEW ss \in Seq(D), NEW s \in D
  PROVE  /\ Acts(ss) \in Nat
         /\ s.kind \in Acting => Acts(Append(ss, s)) = Acts(ss) + 1
         /\ s.kind \notin Acting => Acts(Append(ss, s)) = Acts(ss)
<1>1. /\ Len(Append(ss, s)) = Len(ss) + 1 /\ Append(ss, s)[Len(ss) + 1] = s
      /\ Len(ss) \in Nat
  OBVIOUS
<1>2. Acts(Append(ss, s)) =
        ActsTo(Append(ss, s), Len(ss)) + (IF s.kind \in Acting THEN 1 ELSE 0)
  <2>1. Len(ss) + 1 \in Nat \ {0} /\ (Len(ss) + 1) - 1 = Len(ss)
    BY <1>1
  <2> QED
    BY <1>1, <2>1, ActsToNext DEF Acts
<1>3. Acts(ss) \in Nat
  BY <1>1, ActsToBounded DEF Acts
<1> QED
  BY <1>2, <1>3, ActsToPrefix

\* No step acts among none.
LEMMA ActsEmpty == Acts(<< >>) = 0
  BY ActsToZero DEF Acts

-----------------------------------------------------------------------------
(* Steps that may be recorded.                                             *)

LEMMA RecordableFields ==
  ASSUME NEW s \in Recordable
  PROVE  /\ s.kind \in Acting \cup Ending /\ s.aimed \in BOOLEAN /\ s.pay \in BOOLEAN
         /\ s.text \in Texts /\ s \in ActionStep
  BY DEF Recordable, ActionStep

LEMMA PlainRecordable ==
  ASSUME NEW kind \in Acting \cup Ending
  PROVE  /\ Plain(kind) \in Recordable
         /\ Plain(kind).kind = kind /\ Plain(kind).pay = FALSE
  BY DEF Plain, Recordable, ActionStep, Texts

LEMMA DecisionRecordable == Decision \subseteq Recordable
  BY DEF Decision, Recordable

\* What a login records of a field it typed.
LEMMA FilledRecordable ==
  ASSUME NEW f \in {"email", "password"}
  PROVE  /\ Filled(Shown(f)) \in Recordable
         /\ Filled(Shown(f)).kind = "type" /\ Filled(Shown(f)).pay = FALSE
<1>1. Shown(f) \in Texts \ {"password"}
  BY DEF Shown, Texts
<1>2. Filled(Shown(f)) = [kind |-> "type", aimed |-> FALSE, pay |-> FALSE, text |-> Shown(f)]
  <2>1. Plain("type") = [kind |-> "type", aimed |-> FALSE, pay |-> FALSE, text |-> "none"]
    BY DEF Plain
  <2>2. Filled(Shown(f)) = [Plain("type") EXCEPT !.text = Shown(f)]
    BY DEF Filled
  <2> DEFINE p == Plain("type")
             t == Shown(f)
  <2>3. p = [kind |-> "type", aimed |-> FALSE, pay |-> FALSE, text |-> "none"]
        /\ Filled(Shown(f)) = [p EXCEPT !.text = t]
    BY <2>1, <2>2
  <2> HIDE DEF p, t
  <2>4. Filled(Shown(f)) = [kind |-> "type", aimed |-> FALSE, pay |-> FALSE, text |-> t]
    BY <2>3
  <2> QED
    BY <2>4 DEF t
<1> QED
  BY <1>1, <1>2 DEF Recordable, ActionStep, Acting

\* A recovery records a step like the one it repeats.
LEMMA RecoveredRecordable ==
  ASSUME steps \in Seq(Recordable), steps # << >>
  PROVE  /\ Last(steps) \in Recordable /\ Recovered \in Recordable
         /\ Recovered.kind \in Acting /\ Recovered.pay = Last(steps).pay
<1> DEFINE l == Last(steps)
<1>1. l \in Recordable
  BY DEF Last
<1>2. /\ l.kind \in Acting \cup Ending /\ l.aimed \in BOOLEAN /\ l.pay \in BOOLEAN
      /\ l.text \in Texts /\ l \in ActionStep /\ (LegacyIsClean => l.text # "password")
  BY <1>1 DEF Recordable, ActionStep
<1>3. Recovered = [kind |-> IF l.kind = "type" THEN "type" ELSE "click", aimed |-> FALSE,
                   pay |-> l.pay, text |-> IF l.kind = "type" THEN l.text ELSE "none"]
  <2> HIDE DEF l
  <2>1. l \in [kind : Acting \cup Ending, aimed : BOOLEAN, pay : BOOLEAN, text : Texts]
    BY <1>2 DEF ActionStep
  <2>2. Recovered = [l EXCEPT !.kind = IF l.kind = "type" THEN "type" ELSE "click",
                              !.text = IF l.kind = "type" THEN l.text ELSE "none",
                              !.aimed = FALSE]
    BY DEF Recovered, l
  <2> DEFINE k == IF l.kind = "type" THEN "type" ELSE "click"
             t == IF l.kind = "type" THEN l.text ELSE "none"
  <2>3. Recovered = [l EXCEPT !.kind = k, !.text = t, !.aimed = FALSE]
    BY <2>2
  <2> HIDE DEF k, t
  <2>4. Recovered = [kind |-> k, aimed |-> FALSE, pay |-> l.pay, text |-> t]
    BY <2>1, <2>3
  <2> QED
    BY <2>4 DEF k, t
<1> HIDE DEF l
<1>4. Recovered \in ActionStep
  BY <1>2, <1>3 DEF ActionStep, Acting, Texts
<1> QED
  BY <1>1, <1>2, <1>3, <1>4 DEF l, Recordable, Acting

\* The fields a login fills in are the credentials given, each once.
LEMMA WantedShape ==
  ASSUME creds \in SUBSET {"email", "password"}
  PROVE  /\ Wanted \in Seq({"email", "password"}) /\ Len(Wanted) \in 0..2
         /\ \A m, n \in 1..Len(Wanted) : Wanted[m] = Wanted[n] => m = n
         /\ \A f \in creds : \E m \in 1..Len(Wanted) : Wanted[m] = f
<1>1. CASE "email" \in creds /\ "password" \in creds
  <2>1. Wanted = <<"email">> \o <<"password">>
    BY <1>1 DEF Wanted, Given
  <2>2. /\ Wanted \in Seq({"email", "password"}) /\ Len(Wanted) = 2
        /\ Wanted[1] = "email" /\ Wanted[2] = "password"
    BY <2>1
  <2> QED
    BY <2>2
<1>2. CASE "email" \in creds /\ "password" \notin creds
  <2>1. Wanted = <<"email">> \o << >>
    BY <1>2 DEF Wanted, Given
  <2>2. Wanted = <<"email">>
    BY <2>1
  <2> QED
    BY <1>2, <2>2
<1>3. CASE "email" \notin creds /\ "password" \in creds
  <2>1. Wanted = <<"password">>
    BY <1>3 DEF Wanted, Given
  <2> QED
    BY <1>3, <2>1
<1>4. CASE "email" \notin creds /\ "password" \notin creds
  <2>1. Wanted = << >>
    BY <1>4 DEF Wanted, Given
  <2> QED
    BY <1>4, <2>1
<1> QED
  BY <1>1, <1>2, <1>3, <1>4

\* A task seen done stays done while only endings are recorded.
LEMMA DoneAppend ==
  ASSUME NEW D, NEW ss \in Seq(D), NEW s \in D, s.kind \in Ending,
         \E n \in 1..Len(ss) : DoneAt(ss, n)
  PROVE  \E n \in 1..Len(Append(ss, s)) : DoneAt(Append(ss, s), n)
<1>1. PICK n \in 1..Len(ss) : DoneAt(ss, n)
  OBVIOUS
<1>2. /\ \A m \in 1..Len(ss) : Append(ss, s)[m] = ss[m]
      /\ Append(ss, s)[Len(ss) + 1] = s /\ Len(Append(ss, s)) = Len(ss) + 1
  OBVIOUS
<1>3. DoneAt(Append(ss, s), n)
  <2>1. \A m \in n..(Len(ss) + 1) : Append(ss, s)[m].kind \in Ending
    <3> TAKE m \in n..(Len(ss) + 1)
    <3>1. CASE m = Len(ss) + 1
      BY <3>1, <1>2
    <3>2. CASE m \in n..Len(ss)
      BY <3>2, <1>1, <1>2 DEF DoneAt
    <3> QED
      BY <3>1, <3>2
  <2> QED
    BY <1>1, <1>2, <2>1 DEF DoneAt
<1> QED
  BY <1>2, <1>3

\* The last step may be the one that says so.
LEMMA DoneNow ==
  ASSUME NEW D, NEW ss \in Seq(D), NEW s \in D, s.kind = "done"
  PROVE  \E n \in 1..Len(Append(ss, s)) : DoneAt(Append(ss, s), n)
<1>1. Append(ss, s)[Len(ss) + 1] = s /\ Len(Append(ss, s)) = Len(ss) + 1
  OBVIOUS
<1>2. DoneAt(Append(ss, s), Len(ss) + 1)
  BY <1>1 DEF DoneAt, Ending
<1> QED
  BY <1>1, <1>2

-----------------------------------------------------------------------------
(* Every action keeps the invariant: beginning, ending and raising.        *)

LEMMA InitHolds == Init => IInv
<1> SUFFICES ASSUME Init PROVE IInv
  OBVIOUS
<1>1. memory \in Seq(Recordable)
  <2>1. CASE memory = << >>
    BY <2>1
  <2>2. CASE memory \in Legacy
    <3>1. memory \in Seq(ActionStep)
      BY <2>2, LegacyAssumption
    <3>2. \A n \in 1..Len(memory) : memory[n] \in Recordable
      BY <2>2, <3>1 DEF Recordable, LegacyIsClean
    <3> QED
      BY <3>1, <3>2
  <2> QED
    BY <2>1, <2>2 DEF Init
<1>2. Shapes
  <2>1. Scalars
    BY DEF Init, Scalars, Exploring, LoggingIn, Ends
  <2>2. StepLists
    BY <1>1 DEF Init, StepLists
  <2>3. TypedShape
    BY DEF Init, TypedShape
  <2> QED
    BY <2>1, <2>2, <2>3 DEF Shapes
<1>3. PlaceInv /\ PayInv
  BY DEF Init, PlaceInv, PayInv, Untold, Honest, Exploring, LoggingIn, Ends
<1>4. PaceInv
  BY DEF Init, PaceInv, Pace, Ends
<1> QED
  BY <1>2, <1>3, <1>4 DEF IInv

\* A function begins with nothing done.
LEMMA BeginKeeps ==
  ASSUME IInv, Explore \/ Login \/ Replay
  PROVE  IInv'
<1>1. PICK m \in {"explore", "login", "replay"}, given \in BOOLEAN,
           c \in Credentials \cup {{}}, p \in Seq(Recordable) :
        Begin(m, given, c, p) /\ (m = "login" => given)
  <2>1. << >> \in Seq(Recordable) /\ memory \in Seq(Recordable)
    BY DEF IInv, Shapes, StepLists
  <2> QED
    BY <2>1 DEF Explore, Login, Replay
<1>2. Shapes'
  BY <1>1 DEF IInv, Shapes, Scalars, StepLists, TypedShape, Begin, result, watch,
    history, Exploring, LoggingIn, Ends
<1>3. PlaceInv'
  BY <1>1 DEF IInv, PlaceInv, Begin, result, watch, history, Exploring, LoggingIn, Ends,
    Untold, Honest
<1>4. PayInv' /\ PaceInv'
  BY <1>1 DEF IInv, PayInv, PaceInv, Begin, result, watch, history, Exploring,
    LoggingIn, Ends,
    Pace, LoginPace, ReplayPace
<1> QED
  BY <1>2, <1>3, <1>4 DEF IInv

LEMMA LaunchKeeps ==
  ASSUME IInv, Launch
  PROVE  IInv'
<1>0. MaxSteps \in Nat \ {0} /\ stall \in Nat /\ steps = << >> /\ stall = 0 /\ Acts(steps) = 0
      /\ mode \in {"explore", "login", "replay"}
      /\ \A f \in {"email", "password"} : typed[f] = 0
  BY MaxStepsAssumption, ActsEmpty DEF IInv, Shapes, Scalars, TypedShape, PlaceInv, Launch
<1>1. Shapes'
  BY <1>0 DEF IInv, Shapes, Scalars, StepLists, TypedShape, Launch, call, result,
    history, Exploring, LoggingIn, Ends
<1>2. PlaceInv'
  BY <1>0 DEF IInv, PlaceInv, Shapes, Scalars, Launch, call, result, history, Exploring,
    LoggingIn, Ends,
    Untold, Honest
<1>3. PayInv'
  BY <1>0 DEF IInv, PayInv, Launch
<1>4. PaceInv'
  <2>1. CASE mode = "explore"
    BY <1>0, <2>1 DEF PaceInv, Pace, Launch, call, Ends, Stalled, Acts
  <2>2. CASE mode = "login"
    <3>1. creds \in SUBSET {"email", "password"} /\ creds' = creds
      BY CredentialsAssumption DEF IInv, Shapes, Scalars, Launch, call
    <3>2. /\ Wanted' = Wanted /\ Wanted \in Seq({"email", "password"}) /\ Len(Wanted) \in 0..2
      BY <3>1, WantedShape DEF Wanted, Given
    <3> QED
      BY <1>0, <2>2, <3>2 DEF PaceInv, LoginPace, TypedTo, Launch, call, Ends
  <2>3. CASE mode = "replay"
    <3>1. Len(prior) \in Nat /\ ActsTo(prior, 0) = 0
      BY ActsToZero DEF IInv, Shapes, StepLists
    <3> QED
      BY <1>0, <2>3, <3>1 DEF PaceInv, ReplayPace, Launch, call, Ends, Acts
  <2> QED
    BY <1>0, <2>1, <2>2, <2>3
<1> QED
  BY <1>1, <1>2, <1>3, <1>4 DEF IInv

\* Whatever raises: a replay begins again as an exploration, and what the others
\* have done stays within what they may do.
LEMMA RaisedKeeps ==
  ASSUME IInv, Raised, UNCHANGED <<i, watch, memory, typed, paid>>,
         acted' \in Nat, futile' \in BOOLEAN,
         pc # "idle",
         mode = "explore" => 2 * acted' <= 3 * MaxSteps,
         mode = "login" => acted' <= 2 * Len(Wanted) + 2,
         pc \in Ends => acted' = acted
  PROVE  IInv'
<1>0. /\ Plain("stuck") \in Recordable /\ Plain("stuck").kind \notin Acting
      /\ Plain("stuck").kind \in Ending
      /\ steps \in Seq(Recordable)
      /\ mode \in {"explore", "login", "replay"}
  BY PlainRecordable DEF IInv, Shapes, Scalars, StepLists, Ending, Acting
<1>1. CASE mode = "replay"
  <2>1. Shapes'
    <3>1. Scalars'
      BY <1>1 DEF IInv, Shapes, Scalars, Raised, watch, Exploring, LoggingIn, Ends
    <3>2. StepLists'
      BY <1>1 DEF IInv, Shapes, StepLists, Raised
    <3>3. TypedShape'
      BY DEF IInv, Shapes, TypedShape
    <3> QED
      BY <3>1, <3>2, <3>3 DEF Shapes
  <2>2. PlaceInv'
    BY <1>1 DEF IInv, PlaceInv, Shapes, Scalars, Raised, watch, Exploring, LoggingIn,
      Ends, Untold, Honest
  <2>3. PayInv' /\ PaceInv'
    BY <1>1 DEF IInv, PayInv, PaceInv, Pace, Raised, Ends
  <2> QED
    BY <2>1, <2>2, <2>3 DEF IInv
<1>2. CASE mode # "replay"
  <2>1. /\ pc' = "return" /\ steps' = Append(steps, Plain("stuck"))
        /\ UNCHANGED <<mode, hook, creds, prior, success, refused, extracted>>
    BY <1>2 DEF Raised, call, result
  <2>2. steps' \in Seq(Recordable) /\ steps' # << >>
    BY <1>0, <2>1
  <2>3. Shapes'
    BY <2>1, <2>2 DEF IInv, Shapes, Scalars, StepLists, TypedShape, watch, Exploring,
      LoggingIn, Ends
  <2>4. PlaceInv'
    BY <1>2, <2>1 DEF IInv, PlaceInv, watch, Exploring, LoggingIn, Ends, Untold, Honest
  <2>5. PayInv'
    BY <2>1 DEF IInv, PayInv
  <2>6. Wanted' = Wanted
    BY <2>1 DEF Wanted, Given
  <2>7. success => pc \in Ends /\ acted' = acted
    BY DEF IInv, PlaceInv, Untold
  <2>8. ASSUME mode = "explore" PROVE PaceInv'
    <3>1. success => acted' = Acts(steps') /\ SawDone'
      <4>1. success => acted' = Acts(steps) /\ SawDone
        BY <2>7, <2>8 DEF IInv, PaceInv, Pace
      <4>2. Acts(steps') = Acts(steps)
        BY <1>0, <2>1, ActsAppend
      <4>3. SawDone => SawDone'
        BY <1>0, <2>1, DoneAppend DEF SawDone
      <4> QED
        BY <4>1, <4>2, <4>3
    <3> QED
      BY <2>1, <2>8, <3>1 DEF PaceInv, Pace, Ends, Acts
  <2>9. ASSUME mode = "login" PROVE PaceInv'
    <3>1. success => TypedTo(Len(Wanted)) /\ Len(Wanted) + 1 <= acted'
      BY <2>7, <2>9 DEF IInv, PaceInv, LoginPace
    <3>2. success => TypedTo(Len(Wanted))'
      BY <2>6, <3>1 DEF TypedTo
    <3> QED
      BY <2>1, <2>6, <2>9, <3>1, <3>2 DEF PaceInv, LoginPace, Ends
  <2>10. PaceInv'
    BY <1>0, <1>2, <2>8, <2>9
  <2> QED
    BY <2>3, <2>4, <2>5, <2>10 DEF IInv
<1> QED
  BY <1>1, <1>2

LEMMA CloseKeeps ==
  ASSUME IInv, Close
  PROVE  IInv'
<1>1. Shapes'
  BY DEF IInv, Shapes, Scalars, StepLists, TypedShape, Close, call, result, watch,
    history, Exploring, LoggingIn, Ends
<1>2. PlaceInv'
  BY DEF IInv, PlaceInv, Close, call, result, watch, history, Exploring, LoggingIn, Ends,
    Untold, Honest
<1>3. PayInv'
  BY DEF IInv, PayInv, Close, call, result, watch, history
<1>4. Wanted' = Wanted
  BY DEF Wanted, Given, Close, call
<1>5. TypedTo(Len(Wanted)) => TypedTo(Len(Wanted))'
  BY <1>4 DEF TypedTo, Close, history
<1>6. SawDone => SawDone'
  BY DEF SawDone, DoneAt, Close
<1>7. PaceInv'
  <2>1. mode = "explore" => Pace'
    BY <1>6 DEF IInv, PaceInv, Pace, Close, call, result, history, Ends, Acts
  <2>2. mode = "login" => LoginPace'
    BY <1>4, <1>5 DEF IInv, PaceInv, LoginPace, Close, call, result, history, Ends
  <2>3. mode = "replay" => ReplayPace'
    BY DEF IInv, PaceInv, ReplayPace, Close, call, result, history, Ends, Acts
  <2> QED
    BY <2>1, <2>2, <2>3 DEF PaceInv, Close, call
<1> QED
  BY <1>1, <1>2, <1>3, <1>7 DEF IInv

\* The caller may store the steps of a success, and the thread is free.
LEMMA ReturnKeeps ==
  ASSUME IInv, Return
  PROVE  IInv'
<1>0. memory' \in Seq(Recordable)
  BY DEF IInv, Shapes, StepLists, Return
<1>1. Shapes'
  <2>1. Scalars'
    BY DEF Return, Scalars, Exploring, LoggingIn, Ends
  <2>2. StepLists'
    BY <1>0 DEF Return, StepLists
  <2>3. TypedShape'
    BY DEF Return, TypedShape
  <2> QED
    BY <2>1, <2>2, <2>3 DEF Shapes
<1>2. PlaceInv' /\ PayInv' /\ PaceInv'
  BY DEF PlaceInv, PayInv, PaceInv, Pace, Return, Exploring, LoggingIn, Ends, Untold, Honest
<1> QED
  BY <1>1, <1>2 DEF IInv

-----------------------------------------------------------------------------
(* execute_action_loop keeps the invariant.                                *)

\* What every action of the loop keeps, whatever it decides or performs.
LEMMA ExploreFacts ==
  ASSUME IInv, pc \in Exploring
  PROVE  /\ MaxSteps \in Nat \ {0} /\ mode = "explore" /\ Pace /\ Untold
         /\ i \in Nat /\ stall \in Nat /\ acted \in Nat /\ Acts(steps) \in Nat
         /\ Stalled \in 0..2 /\ steps \in Seq(Recordable)
<1>1. mode = "explore" /\ Untold
  BY DEF IInv, PlaceInv, Exploring, Ends
<1>2. Len(steps) \in Nat
  BY DEF IInv, Shapes, StepLists
<1>3. Acts(steps) \in Nat
  BY <1>2, ActsToBounded DEF Acts
<1> QED
  BY <1>1, <1>3, MaxStepsAssumption DEF IInv, Shapes, Scalars, StepLists, PaceInv, Stalled

\* A payment is refused before it is a step.
LEMMA DecideKeeps ==
  ASSUME IInv, Decide
  PROVE  IInv'
<1>1. PICK d \in Decision :
        LET s == IF d.kind \in Acting /\ LooksLikePayment(d) THEN Plain("refused") ELSE d IN
          /\ steps' = Append(steps, s)
          /\ success' = (s.kind = "done") /\ refused' = (refused \/ s.kind = "refused")
          /\ extracted' \in (IF s.kind = "done" /\ hook THEN BOOLEAN ELSE {FALSE})
          /\ pc' = IF s.kind \in Acting THEN "execute" ELSE "close"
  BY DEF Decide, DecideWithin
<1> DEFINE s == IF d.kind \in Acting /\ LooksLikePayment(d) THEN Plain("refused") ELSE d
<1>2. /\ pc = "decide" /\ i <= MaxSteps
      /\ UNCHANGED <<call, i, watch, memory, history>>
      /\ steps' = Append(steps, s)
      /\ success' = (s.kind = "done") /\ refused' = (refused \/ s.kind = "refused")
      /\ extracted' \in (IF s.kind = "done" /\ hook THEN BOOLEAN ELSE {FALSE})
      /\ pc' = IF s.kind \in Acting THEN "execute" ELSE "close"
  BY <1>1 DEF Decide, DecideWithin
<1>3. /\ s \in Recordable /\ s.kind \in Acting \cup Ending /\ (s.kind \in Acting => ~s.pay)
  <2>1. d \in Recordable /\ Plain("refused") \in Recordable /\ Plain("refused").kind = "refused"
    BY DecisionRecordable, PlainRecordable DEF Ending
  <2> QED
    BY <2>1, RecordableFields DEF LooksLikePayment, Acting
<1> HIDE DEF s
<1>4. /\ MaxSteps \in Nat \ {0} /\ mode = "explore" /\ Pace /\ Untold
      /\ i \in Nat /\ stall \in Nat /\ acted \in Nat /\ Acts(steps) \in Nat
      /\ Stalled \in 0..2 /\ steps \in Seq(Recordable)
  BY <1>2, ExploreFacts DEF Exploring
<1>5. steps' \in Seq(Recordable) /\ steps' # << >> /\ Last(steps') = s
  BY <1>2, <1>3, <1>4 DEF Last
<1>6. Shapes'
  <2>1. Scalars'
    BY <1>2 DEF IInv, Shapes, Scalars, call, watch, history, Exploring, LoggingIn, Ends
  <2>2. StepLists' /\ TypedShape'
    BY <1>2, <1>5 DEF IInv, Shapes, StepLists, TypedShape, call, history
  <2> QED
    BY <2>1, <2>2 DEF Shapes
<1>7. PlaceInv'
  BY <1>2, <1>3, <1>4 DEF IInv, PlaceInv, call, watch, history, Exploring, LoggingIn, Ends,
    Untold, Honest, Acting
<1>8. PayInv'
  BY <1>2, <1>3, <1>5 DEF IInv, PayInv, history
<1>9. PaceInv'
  <2>1. CASE s.kind \in Acting
    <3>1. Acts(steps') = Acts(steps) + 1
      BY <1>2, <1>3, <1>4, <2>1, ActsAppend
    <3> QED
      BY <1>2, <1>4, <2>1, <3>1 DEF PaceInv, Pace, Ends, Acts, Stalled, call, watch, history
  <2>2. CASE s.kind \in Ending
    <3>1. s.kind \notin Acting
      BY <2>2 DEF Acting, Ending
    <3>2. Acts(steps') = Acts(steps)
      BY <1>2, <1>3, <1>4, <3>1, ActsAppend
    <3>3. s.kind = "done" => SawDone'
      BY <1>2, <1>3, <1>4, DoneNow DEF SawDone
    <3>4. pc' = "close" /\ mode' = "explore" /\ acted' = acted /\ i' = i
      BY <1>2, <1>4, <3>1 DEF call, history
    <3>5. acted = Acts(steps) /\ 2 * acted <= 3 * MaxSteps /\ i <= MaxSteps + 1
      BY <1>2, <1>4 DEF Pace
    <3>6. success' => SawDone'
      BY <1>2, <3>3
    <3> QED
      BY <3>2, <3>4, <3>5, <3>6 DEF PaceInv, Pace, Ends, Acts
  <2> QED
    BY <1>3, <2>1, <2>2
<1> QED
  BY <1>6, <1>7, <1>8, <1>9 DEF IInv

LEMMA ExhaustedKeeps ==
  ASSUME IInv, Exhausted
  PROVE  IInv'
<1>1. /\ pc = "decide" /\ i > MaxSteps /\ success' = FALSE /\ pc' = "close"
      /\ UNCHANGED <<call, i, steps, refused, extracted, watch, memory, history>>
  BY DEF Exhausted, ExhaustedWith
<1>2. /\ MaxSteps \in Nat \ {0} /\ mode = "explore" /\ Pace /\ Untold
      /\ i \in Nat /\ stall \in Nat /\ acted \in Nat /\ Stalled \in 0..2
  BY <1>1, ExploreFacts DEF Exploring
<1>3. Shapes'
  BY <1>1, ZenonT(60) DEF IInv, Shapes, Scalars, StepLists, TypedShape, call, watch, history,
    Exploring, LoggingIn, Ends
<1>4. PlaceInv' /\ PayInv'
  BY <1>1, <1>2 DEF IInv, PlaceInv, PayInv, call, watch, history, Exploring, LoggingIn, Ends,
    Untold, Honest
<1>5. PaceInv'
  BY <1>1, <1>2 DEF PaceInv, Pace, Ends, call, watch, history
<1> QED
  BY <1>3, <1>4, <1>5 DEF IInv

\* What the last step says is performed.
LEMMA ExecuteKeeps ==
  ASSUME IInv, Execute
  PROVE  IInv'
<1>1. /\ pc = "execute" /\ acted' = acted + 1 /\ paid' = (paid \/ Last(steps).pay)
      /\ changed' \in BOOLEAN /\ futile' \in BOOLEAN /\ pc' = "observe"
      /\ UNCHANGED <<call, i, steps, result, seen, stall, hint, memory, typed>>
  BY DEF Execute, Touch, Effect
<1>2. /\ MaxSteps \in Nat \ {0} /\ mode = "explore" /\ Pace /\ Untold
      /\ i \in Nat /\ stall \in Nat /\ acted \in Nat /\ Acts(steps) \in Nat
      /\ Stalled \in 0..2 /\ steps \in Seq(Recordable)
  BY <1>1, ExploreFacts DEF Exploring
<1>3. PayInv'
  BY <1>1 DEF IInv, PayInv
<1>4. Shapes'
  <2>1. paid' = FALSE
    BY <1>1 DEF IInv, PayInv
  <2> QED
    BY <1>1, <2>1 DEF IInv, Shapes, Scalars, StepLists, TypedShape, call, result, Exploring,
      LoggingIn, Ends
<1>5. PlaceInv'
  BY <1>1, <1>2 DEF IInv, PlaceInv, call, result, Exploring, LoggingIn, Ends, Untold, Honest
<1>6. PaceInv'
  BY <1>1, <1>2 DEF PaceInv, Pace, Ends, Acts, Stalled, call
<1> QED
  BY <1>3, <1>4, <1>5, <1>6 DEF IInv

LEMMA CannotExecuteKeeps ==
  ASSUME IInv, CannotExecute
  PROVE  IInv'
<1>1. /\ pc = "execute" /\ Raised /\ UNCHANGED <<i, watch, memory, history>>
  BY DEF CannotExecute
<1>2. /\ MaxSteps \in Nat \ {0} /\ mode = "explore" /\ Pace
      /\ i \in Nat /\ acted \in Nat /\ Stalled \in 0..2
  BY <1>1, ExploreFacts DEF Exploring
<1>3. 2 * acted <= 3 * MaxSteps
  BY <1>1, <1>2 DEF Pace
<1>4. futile \in BOOLEAN
  BY DEF IInv, Shapes, Scalars
<1>5. /\ UNCHANGED <<i, watch, memory, typed, paid>> /\ acted' = acted /\ futile' = futile
  BY <1>1 DEF history
<1> QED
  BY <1>1, <1>2, <1>3, <1>4, <1>5, RaisedKeeps

\* A second action without effect calls for a recovery.
LEMMA ObserveKeeps ==
  ASSUME IInv, Observe
  PROVE  IInv'
<1>1. /\ pc = "observe" /\ seen' \in BOOLEAN /\ changed' = FALSE
      /\ (stall' = stall + 1 \/ stall' = 0) /\ hint' \in BOOLEAN
      /\ (stall' >= 2 /\ pc' = "recover" /\ i' = i) \/ (~(stall' >= 2) /\ pc' = "decide" /\ i' = i + 1)
      /\ UNCHANGED <<call, steps, result, memory, history>>
  BY DEF Observe
<1>2. /\ MaxSteps \in Nat \ {0} /\ mode = "explore" /\ Pace /\ Untold
      /\ i \in Nat /\ stall \in Nat /\ acted \in Nat /\ Acts(steps) \in Nat
      /\ Stalled \in 0..2 /\ steps \in Seq(Recordable)
  BY <1>1, ExploreFacts DEF Exploring
<1>3. stall' \in Nat /\ i' \in Nat
  BY <1>1, <1>2
<1>4. Shapes'
  BY <1>1, <1>3 DEF IInv, Shapes, Scalars, StepLists, TypedShape, call, result, history,
    Exploring, LoggingIn, Ends
<1>5. PlaceInv' /\ PayInv'
  BY <1>1, <1>2 DEF IInv, PlaceInv, PayInv, call, result, history, Exploring, LoggingIn, Ends,
    Untold, Honest
<1>6. PaceInv'
  <2>1. /\ i \in 1..MaxSteps /\ acted = Acts(steps) /\ 2 * acted + Stalled <= 3 * (i - 1) + 2
        /\ mode' = "explore" /\ acted' = acted /\ steps' = steps
    BY <1>1, <1>2 DEF Pace, call, history
  <2>2. CASE stall' >= 2 /\ pc' = "recover" /\ i' = i
    <3>1. Stalled >= 1
      BY <1>1, <1>2, <2>2 DEF Stalled
    <3>2. 2 * acted + 2 <= 3 * i
      BY <1>2, <2>1, <3>1
    <3> QED
      BY <2>1, <2>2, <3>2 DEF PaceInv, Pace, Ends, Acts
  <2>3. CASE ~(stall' >= 2) /\ pc' = "decide" /\ i' = i + 1
    <3>1. Stalled' <= Stalled + 1 /\ Stalled' \in 0..2
      BY <1>1, <1>2, <1>3, <2>3 DEF Stalled
    <3>2. 2 * acted + Stalled' <= 3 * (i' - 1) /\ i' \in 1..(MaxSteps + 1)
      BY <1>2, <2>1, <2>3, <3>1, SMTT(30)
    <3> QED
      BY <2>1, <2>3, <3>2 DEF PaceInv, Pace, Ends, Acts
  <2> QED
    BY <1>1, <2>2, <2>3
<1> QED
  BY <1>4, <1>5, <1>6 DEF IInv

\* The recovery repeats the stalled step elsewhere, and is a step.
LEMMA RecoverKeeps ==
  ASSUME IInv, Recover
  PROVE  IInv'
<1>1. /\ pc = "recover" /\ acted' = acted + 1 /\ paid' = (paid \/ Last(steps).pay)
      /\ steps' = Append(steps, Recovered)
      /\ stall' = 0 /\ hint' = FALSE /\ seen' \in BOOLEAN
      /\ pc' = "decide" /\ i' = i + 1
      /\ UNCHANGED <<call, result, changed, memory, typed, futile>>
  BY DEF Recover, RecoverWith, Touch
<1>2. /\ MaxSteps \in Nat \ {0} /\ mode = "explore" /\ Pace /\ Untold
      /\ i \in Nat /\ stall \in Nat /\ acted \in Nat /\ Acts(steps) \in Nat
      /\ steps \in Seq(Recordable)
  BY <1>1, ExploreFacts DEF Exploring
<1>3. Recovered \in Recordable /\ Recovered.kind \in Acting
  BY <1>1, <1>2, RecoveredRecordable DEF IInv, PayInv
<1>4. steps' \in Seq(Recordable) /\ Acts(steps') = Acts(steps) + 1
  BY <1>1, <1>2, <1>3, ActsAppend
<1>5. PayInv'
  BY <1>1 DEF IInv, PayInv
<1>6. Shapes'
  <2>0. paid' = FALSE
    BY <1>1 DEF IInv, PayInv
  <2>1. Scalars'
    <3>1. i' \in Nat /\ acted' \in Nat /\ stall' \in Nat /\ pc' \in Exploring
      BY <1>1, <1>2 DEF Exploring
    <3>2. seen' \in BOOLEAN /\ paid' \in BOOLEAN
      BY <1>1, <2>0
    <3>3. hint' \in BOOLEAN
      BY <1>1
    <3> QED
      BY <1>1, <3>1, <3>2, <3>3 DEF IInv, Shapes, Scalars, call, result
  <2>2. StepLists' /\ TypedShape'
    BY <1>1, <1>4 DEF IInv, Shapes, StepLists, TypedShape, call
  <2> QED
    BY <2>1, <2>2 DEF Shapes
<1>7. PlaceInv'
  BY <1>1, <1>2 DEF IInv, PlaceInv, call, result, Exploring, LoggingIn, Ends, Untold, Honest
<1>8. PaceInv'
  BY <1>1, <1>2, <1>4 DEF PaceInv, Pace, Ends, Acts, Stalled, call
<1> QED
  BY <1>5, <1>6, <1>7, <1>8 DEF IInv

LEMMA HintKeeps ==
  ASSUME IInv, Hint
  PROVE  IInv'
<1>1. /\ pc = "recover" /\ hint' = TRUE /\ pc' = "decide" /\ i' = i + 1
      /\ UNCHANGED <<call, steps, result, seen, changed, stall, memory, history>>
  BY DEF Hint
<1>2. /\ MaxSteps \in Nat \ {0} /\ mode = "explore" /\ Pace /\ Untold
      /\ i \in Nat /\ stall \in Nat /\ acted \in Nat /\ Acts(steps) \in Nat
      /\ Stalled \in 0..2
  BY <1>1, ExploreFacts DEF Exploring
<1>3. Shapes'
  BY <1>1, <1>2 DEF IInv, Shapes, Scalars, StepLists, TypedShape, call, result, history,
    Exploring, LoggingIn, Ends
<1>4. PlaceInv' /\ PayInv'
  BY <1>1, <1>2 DEF IInv, PlaceInv, PayInv, call, result, history, Exploring, LoggingIn, Ends,
    Untold, Honest
<1>5. PaceInv'
  BY <1>1, <1>2 DEF PaceInv, Pace, Ends, Acts, Stalled, call, history
<1> QED
  BY <1>3, <1>4, <1>5 DEF IInv

-----------------------------------------------------------------------------
(* execute_login_and_extract keeps the invariant.                          *)

LEMMA LoginFacts ==
  ASSUME IInv, pc \in LoggingIn
  PROVE  /\ mode = "login" /\ hook = TRUE /\ LoginPace /\ Untold
         /\ i \in Nat /\ acted \in Nat /\ steps \in Seq(Recordable)
         /\ typed \in [{"email", "password"} -> 0..2]
         /\ Wanted \in Seq({"email", "password"}) /\ Len(Wanted) \in 0..2
         /\ \A m, n \in 1..Len(Wanted) : Wanted[m] = Wanted[n] => m = n
<1>1. mode = "login" /\ Untold /\ hook = TRUE
  BY DEF IInv, Shapes, Scalars, PlaceInv, LoggingIn, Ends
<1>2. creds \in SUBSET {"email", "password"}
  BY CredentialsAssumption DEF IInv, Shapes, Scalars
<1> QED
  BY <1>1, <1>2, WantedShape DEF IInv, Shapes, Scalars, StepLists, TypedShape, PaceInv

\* Typing a field that was typed at most once makes it one of those that are typed.
LEMMA FieldTyped ==
  ASSUME typed \in [{"email", "password"} -> 0..2], i \in 1..Len(Wanted),
         Wanted \in Seq({"email", "password"}), Len(Wanted) \in 0..2,
         \A m, n \in 1..Len(Wanted) : Wanted[m] = Wanted[n] => m = n,
         TypedPart(i),
         typed' = [typed EXCEPT ![Field] = @ + 1]
  PROVE  /\ typed' \in [{"email", "password"} -> 0..2]
         /\ typed'[Wanted[i]] = typed[Wanted[i]] + 1
         /\ \A m \in 1..Len(Wanted) : /\ m <= i => typed'[Wanted[m]] \in 1..2
                                      /\ m > i => typed'[Wanted[m]] = 0
<1>1. Field \in {"email", "password"} /\ Field = Wanted[i]
  BY DEF Field
<1>2. typed[Field] \in 0..1
  BY <1>1 DEF TypedPart
<1>3. /\ typed' \in [{"email", "password"} -> 0..2] /\ typed'[Field] = typed[Field] + 1
      /\ \A f \in {"email", "password"} : f # Field => typed'[f] = typed[f]
  BY <1>1, <1>2
<1>4. ASSUME NEW m \in 1..Len(Wanted)
      PROVE  /\ m <= i => typed'[Wanted[m]] \in 1..2
             /\ m > i => typed'[Wanted[m]] = 0
  <2>1. CASE m = i
    BY <1>1, <1>2, <1>3, <2>1
  <2>2. CASE m # i
    <3>1. Wanted[m] \in {"email", "password"} /\ Wanted[m] # Field
      BY <1>1, <2>2
    <3>2. typed'[Wanted[m]] = typed[Wanted[m]]
      BY <1>3, <3>1
    <3> QED
      BY <2>2, <3>2 DEF TypedPart
  <2> QED
    BY <2>1, <2>2
<1> QED
  BY <1>1, <1>3, <1>4

\* A field none of which was typed counts as one that may have been.
LEMMA NotYetTyped ==
  ASSUME i \in 1..Len(Wanted), Len(Wanted) \in Nat, TypedTo(i - 1)
  PROVE  TypedPart(i) /\ typed[Wanted[i]] = 0
<1>1. \A m \in 1..Len(Wanted) : /\ m < i => m <= i - 1
                                /\ m >= i => m > i - 1
  OBVIOUS
<1> QED
  BY <1>1 DEF TypedTo, TypedPart

LEMMA FillDirectKeeps ==
  ASSUME IInv, FillDirect
  PROVE  IInv'
<1>1. /\ pc = "field" /\ i <= Len(Wanted) /\ acted' = acted + 1 /\ paid' = (paid \/ FALSE)
      /\ typed' = [typed EXCEPT ![Field] = @ + 1]
      /\ steps' = Append(steps, Filled(Shown(Field))) /\ i' = i + 1
      /\ UNCHANGED <<pc, call, result, watch, memory, futile>>
  BY DEF FillDirect, Touch
<1>2. /\ mode = "login" /\ hook = TRUE /\ LoginPace /\ Untold
      /\ i \in Nat /\ acted \in Nat /\ steps \in Seq(Recordable)
      /\ typed \in [{"email", "password"} -> 0..2]
      /\ Wanted \in Seq({"email", "password"}) /\ Len(Wanted) \in 0..2
      /\ \A m, n \in 1..Len(Wanted) : Wanted[m] = Wanted[n] => m = n
  BY <1>1, LoginFacts DEF LoggingIn
<1>3. /\ i \in 1..Len(Wanted) /\ TypedTo(i - 1) /\ i - 1 <= acted /\ acted <= 2 * (i - 1)
      /\ Field \in {"email", "password"}
  BY <1>1, <1>2 DEF LoginPace, Field
<1>4. TypedPart(i)
  BY <1>2, <1>3, NotYetTyped
<1>5. /\ typed' \in [{"email", "password"} -> 0..2]
      /\ \A m \in 1..Len(Wanted) : /\ m <= i => typed'[Wanted[m]] \in 1..2
                                   /\ m > i => typed'[Wanted[m]] = 0
  BY <1>1, <1>2, <1>3, <1>4, FieldTyped
<1>6. steps' \in Seq(Recordable)
  BY <1>1, <1>2, <1>3, FilledRecordable
<1>7. paid' = FALSE /\ PayInv'
  BY <1>1 DEF IInv, PayInv
<1>8. Shapes'
  <2>1. Scalars'
    BY <1>1, <1>2, <1>7 DEF IInv, Shapes, Scalars, call, result, watch
  <2>2. StepLists' /\ TypedShape'
    BY <1>1, <1>5, <1>6 DEF IInv, Shapes, StepLists, TypedShape, call
  <2> QED
    BY <2>1, <2>2 DEF Shapes
<1>9. PlaceInv'
  BY <1>1, <1>2 DEF IInv, PlaceInv, call, result, watch, Exploring, LoggingIn, Ends, Untold,
    Honest
<1>10. PaceInv'
  <2>1. Wanted' = Wanted
    BY <1>1 DEF Wanted, Given, call
  <2>2. (i' - 1) = i /\ i' \in 1..(Len(Wanted) + 1) /\ i <= acted' /\ acted' <= 2 * i
    BY <1>1, <1>2, <1>3
  <2>3. TypedTo(i - 1)'
    BY <1>5, <2>1, <2>2 DEF TypedTo
  <2> QED
    BY <1>1, <1>2, <2>1, <2>2, <2>3 DEF PaceInv, LoginPace, Ends, call
<1> QED
  BY <1>7, <1>8, <1>9, <1>10 DEF IInv

\* The field may have been typed before the model is asked where it is.
LEMMA AskForFieldKeeps ==
  ASSUME IInv, AskForField
  PROVE  IInv'
<1>1. /\ pc = "field" /\ i <= Len(Wanted) /\ pc' = "locate"
      /\ \/ UNCHANGED history
         \/ /\ acted' = acted + 1 /\ paid' = (paid \/ FALSE) /\ futile' = futile
            /\ typed' = [typed EXCEPT ![Field] = @ + 1]
      /\ UNCHANGED <<call, i, steps, result, watch, memory>>
  BY DEF AskForField, Touch
<1>2. /\ mode = "login" /\ hook = TRUE /\ LoginPace /\ Untold
      /\ i \in Nat /\ acted \in Nat /\ steps \in Seq(Recordable)
      /\ typed \in [{"email", "password"} -> 0..2]
      /\ Wanted \in Seq({"email", "password"}) /\ Len(Wanted) \in 0..2
      /\ \A m, n \in 1..Len(Wanted) : Wanted[m] = Wanted[n] => m = n
  BY <1>1, LoginFacts DEF LoggingIn
<1>3. /\ i \in 1..Len(Wanted) /\ TypedTo(i - 1) /\ i - 1 <= acted /\ acted <= 2 * (i - 1)
  BY <1>1, <1>2 DEF LoginPace
<1>4. TypedPart(i) /\ typed[Wanted[i]] = 0
  BY <1>2, <1>3, NotYetTyped
<1>5. Wanted' = Wanted
  BY <1>1 DEF Wanted, Given, call
<1>6. /\ typed' \in [{"email", "password"} -> 0..2] /\ acted' \in {acted, acted + 1}
      /\ paid' = FALSE /\ futile' \in BOOLEAN /\ TypedPart(i)'
  <2>0. paid = FALSE /\ futile \in BOOLEAN
    BY DEF IInv, PayInv, Shapes, Scalars
  <2>1. CASE UNCHANGED history
    BY <1>1, <1>2, <1>4, <1>5, <2>0, <2>1 DEF history, TypedPart
  <2>2. CASE /\ acted' = acted + 1 /\ paid' = (paid \/ FALSE) /\ futile' = futile
             /\ typed' = [typed EXCEPT ![Field] = @ + 1]
    <3>1. /\ typed' \in [{"email", "password"} -> 0..2] /\ typed'[Wanted[i]] = 1
          /\ \A m \in 1..Len(Wanted) : /\ m <= i => typed'[Wanted[m]] \in 1..2
                                       /\ m > i => typed'[Wanted[m]] = 0
      BY <1>2, <1>3, <1>4, <2>2, FieldTyped
    <3>2. TypedPart(i)'
      BY <1>1, <1>3, <1>5, <3>1 DEF TypedPart
    <3> QED
      BY <2>0, <2>2, <3>1, <3>2
  <2> QED
    BY <1>1, <2>1, <2>2
<1>7. Shapes'
  <2>1. Scalars'
    <3>1. acted' \in Nat
      BY <1>2, <1>6
    <3>2. paid' \in BOOLEAN
      BY <1>6
    <3>3. pc' \in LoggingIn
      BY <1>1 DEF LoggingIn
    <3> QED
      BY <1>1, <1>6, <3>1, <3>2, <3>3 DEF IInv, Shapes, Scalars, call, result, watch
  <2>2. StepLists' /\ TypedShape'
    BY <1>1, <1>6 DEF IInv, Shapes, StepLists, TypedShape, call
  <2> QED
    BY <2>1, <2>2 DEF Shapes
<1>8. PlaceInv' /\ PayInv'
  BY <1>1, <1>2, <1>6 DEF IInv, PlaceInv, PayInv, call, result, watch, Exploring, LoggingIn,
    Ends, Untold, Honest
<1>9. PaceInv'
  <2>1. i' = i /\ i - 1 <= acted' /\ acted' <= 2 * (i - 1) + 1
    BY <1>1, <1>2, <1>3, <1>6
  <2> QED
    BY <1>1, <1>2, <1>3, <1>5, <1>6, <2>1 DEF PaceInv, LoginPace, Ends, call
<1> QED
  BY <1>7, <1>8, <1>9 DEF IInv

\* A login that must not or cannot go on ends where it is.
LEMMA StopsKeeps ==
  ASSUME IInv, pc \in {"locate", "submit"}, NEW d \in Decision, Stops(d)
  PROVE  IInv'
<1> DEFINE s == Plain(IF refused' THEN "refused" ELSE "stuck")
<1>1. /\ refused' = (d.kind = "refused" \/ LooksLikePayment(d)) /\ pc' = "close"
      /\ steps' = Append(steps, s)
      /\ UNCHANGED <<call, i, success, extracted, watch, memory, history>>
  BY DEF Stops
<1>2. /\ mode = "login" /\ hook = TRUE /\ LoginPace /\ Untold
      /\ i \in Nat /\ acted \in Nat /\ steps \in Seq(Recordable)
      /\ Len(Wanted) \in 0..2
  BY LoginFacts DEF LoggingIn
<1>3. s \in Recordable
  BY PlainRecordable DEF Ending
<1> HIDE DEF s
<1>4. refused' \in BOOLEAN /\ steps' \in Seq(Recordable)
  BY <1>1, <1>2, <1>3
<1>5. Shapes'
  <2>1. Scalars'
    BY <1>1, <1>4 DEF IInv, Shapes, Scalars, call, watch, history, Ends
  <2>2. StepLists' /\ TypedShape'
    BY <1>1, <1>4 DEF IInv, Shapes, StepLists, TypedShape, call, history
  <2> QED
    BY <2>1, <2>2 DEF Shapes
<1>6. PlaceInv' /\ PayInv'
  BY <1>1, <1>2 DEF IInv, PlaceInv, PayInv, call, watch, history, Exploring, LoggingIn, Ends,
    Untold, Honest
<1>7. PaceInv'
  <2>1. Wanted' = Wanted
    BY <1>1 DEF Wanted, Given, call
  <2>2. acted <= 2 * Len(Wanted) + 2 /\ i <= Len(Wanted) + 1
    BY <1>2 DEF LoginPace
  <2> QED
    BY <1>1, <1>2, <2>1, <2>2 DEF PaceInv, LoginPace, Ends, Untold, call, history
<1> QED
  BY <1>5, <1>6, <1>7 DEF IInv

LEMMA FillLocatedKeeps ==
  ASSUME IInv, FillLocated
  PROVE  IInv'
<1>1. PICK d \in Decision :
        \/ Stops(d)
        \/ /\ Presses(d)
           /\ typed' = [typed EXCEPT ![Field] = @ + 1]
           /\ steps' = Append(steps, Filled(Shown(Field)))
           /\ pc' = "field" /\ i' = i + 1 /\ UNCHANGED <<seen, changed, futile>>
  BY DEF FillLocated
<1>2. pc = "locate"
  BY DEF FillLocated
<1>3. ASSUME Presses(d), typed' = [typed EXCEPT ![Field] = @ + 1],
             steps' = Append(steps, Filled(Shown(Field))),
             pc' = "field", i' = i + 1, UNCHANGED <<seen, changed, futile>>
      PROVE  IInv'
  <2>1. /\ acted' = acted + 1 /\ paid' = (paid \/ d.pay) /\ d.pay = FALSE
        /\ UNCHANGED <<call, result, stall, hint, memory>>
    BY <1>3, RecordableFields, DecisionRecordable DEF Presses, Touch, LooksLikePayment
  <2>2. /\ mode = "login" /\ hook = TRUE /\ LoginPace /\ Untold
        /\ i \in Nat /\ acted \in Nat /\ steps \in Seq(Recordable)
        /\ typed \in [{"email", "password"} -> 0..2]
        /\ Wanted \in Seq({"email", "password"}) /\ Len(Wanted) \in 0..2
        /\ \A m, n \in 1..Len(Wanted) : Wanted[m] = Wanted[n] => m = n
    BY <1>2, LoginFacts DEF LoggingIn
  <2>3. /\ i \in 1..Len(Wanted) /\ TypedPart(i) /\ i - 1 <= acted
        /\ acted <= 2 * (i - 1) + 1 /\ Field \in {"email", "password"}
    BY <1>2, <2>2 DEF LoginPace, Field
  <2>4. /\ typed' \in [{"email", "password"} -> 0..2]
        /\ \A m \in 1..Len(Wanted) : /\ m <= i => typed'[Wanted[m]] \in 1..2
                                     /\ m > i => typed'[Wanted[m]] = 0
    BY <1>3, <2>2, <2>3, FieldTyped
  <2>5. steps' \in Seq(Recordable)
    BY <1>3, <2>2, <2>3, FilledRecordable
  <2>6. paid' = FALSE
    BY <2>1 DEF IInv, PayInv
  <2>7. Shapes'
    <3>1. acted' \in Nat /\ i' \in Nat /\ paid' \in BOOLEAN
      BY <1>3, <2>1, <2>2, <2>6
    <3>2. Scalars'
      BY <1>3, <2>1, <3>1 DEF IInv, Shapes, Scalars, call, result, LoggingIn
    <3>3. StepLists' /\ TypedShape'
      BY <2>1, <2>4, <2>5 DEF IInv, Shapes, StepLists, TypedShape, call
    <3> QED
      BY <3>2, <3>3 DEF Shapes
  <2>8. PlaceInv' /\ PayInv'
    BY <1>3, <2>1, <2>2, <2>6 DEF IInv, PlaceInv, PayInv, call, result, Exploring, LoggingIn,
      Ends, Untold, Honest
  <2>9. PaceInv'
    <3>1. Wanted' = Wanted
      BY <2>1 DEF Wanted, Given, call
    <3>2. (i' - 1) = i /\ i' \in 1..(Len(Wanted) + 1) /\ i <= acted' /\ acted' <= 2 * i
      BY <1>3, <2>1, <2>2, <2>3
    <3>3. TypedTo(i - 1)'
      BY <2>4, <3>1, <3>2 DEF TypedTo
    <3> QED
      BY <1>3, <2>1, <2>2, <3>1, <3>2, <3>3 DEF PaceInv, LoginPace, Ends, call
  <2> QED
    BY <2>7, <2>8, <2>9 DEF IInv
<1> QED
  BY <1>1, <1>2, <1>3, StopsKeeps

LEMMA AskToSubmitKeeps ==
  ASSUME IInv, AskToSubmit
  PROVE  IInv'
<1>1. /\ pc = "field" /\ i > Len(Wanted) /\ pc' = "submit"
      /\ UNCHANGED <<call, i, steps, result, watch, memory, history>>
  BY DEF AskToSubmit
<1>2. /\ mode = "login" /\ hook = TRUE /\ LoginPace /\ Untold
      /\ i \in Nat /\ acted \in Nat /\ Len(Wanted) \in 0..2
  BY <1>1, LoginFacts DEF LoggingIn
<1>3. /\ i = Len(Wanted) + 1 /\ i - 1 = Len(Wanted) /\ TypedTo(i - 1)
      /\ i - 1 <= acted /\ acted <= 2 * (i - 1)
  BY <1>1, <1>2 DEF LoginPace
<1>4. Shapes'
  BY <1>1 DEF IInv, Shapes, Scalars, StepLists, TypedShape, call, result, watch, history,
    LoggingIn
<1>5. PlaceInv' /\ PayInv'
  BY <1>1, <1>2 DEF IInv, PlaceInv, PayInv, call, result, watch, history, Exploring, LoggingIn,
    Ends, Untold, Honest
<1>6. PaceInv'
  <2>1. Wanted' = Wanted
    BY <1>1 DEF Wanted, Given, call
  <2>2. TypedTo(Len(Wanted))'
    BY <1>1, <1>3, <2>1 DEF TypedTo, history
  <2> QED
    BY <1>1, <1>2, <1>3, <2>1, <2>2 DEF PaceInv, LoginPace, Ends, call, history
<1> QED
  BY <1>4, <1>5, <1>6 DEF IInv

\* What the remaining places of a login have in common: all fields are typed.
LEMMA AllTyped ==
  ASSUME IInv, pc \in {"submit", "pressed", "confirm"}, UNCHANGED <<call, typed>>
  PROVE  /\ i = Len(Wanted) + 1 /\ TypedTo(Len(Wanted)) /\ Wanted' = Wanted
         /\ TypedTo(Len(Wanted))'
<1>1. LoginPace
  BY LoginFacts DEF LoggingIn
<1>2. Wanted' = Wanted
  BY DEF Wanted, Given, call
<1>3. i = Len(Wanted) + 1 /\ TypedTo(Len(Wanted))
  BY <1>1 DEF LoginPace
<1> QED
  BY <1>2, <1>3 DEF TypedTo

LEMMA SubmitKeeps ==
  ASSUME IInv, Submit
  PROVE  IInv'
<1>1. PICK d \in Decision :
        \/ Stops(d)
        \/ /\ Presses(d) /\ seen' \in BOOLEAN /\ Effect
           /\ steps' = Append(steps, d)
           /\ pc' = "pressed" /\ UNCHANGED <<i, typed>>
  BY DEF Submit
<1>2. pc = "submit"
  BY DEF Submit
<1>3. ASSUME Presses(d), seen' \in BOOLEAN, Effect, steps' = Append(steps, d),
             pc' = "pressed", UNCHANGED <<i, typed>>
      PROVE  IInv'
  <2>1. /\ acted' = acted + 1 /\ paid' = (paid \/ d.pay)
        /\ UNCHANGED <<call, result, stall, hint, memory>>
        /\ changed' \in BOOLEAN /\ futile' \in BOOLEAN
    BY <1>3 DEF Presses, Touch, Effect
  <2>2. d \in Recordable /\ d.pay = FALSE
    BY <1>3, RecordableFields, DecisionRecordable DEF Presses, LooksLikePayment
  <2>3. /\ mode = "login" /\ hook = TRUE /\ LoginPace /\ Untold
        /\ i \in Nat /\ acted \in Nat /\ steps \in Seq(Recordable) /\ Len(Wanted) \in 0..2
    BY <1>2, LoginFacts DEF LoggingIn
  <2>4. steps' \in Seq(Recordable) /\ steps' # << >> /\ Last(steps') = d
    BY <1>3, <2>2, <2>3 DEF Last
  <2>5. paid' = FALSE
    BY <2>1, <2>2 DEF IInv, PayInv
  <2>6. Shapes'
    <3>1. acted' \in Nat /\ paid' \in BOOLEAN
      BY <2>1, <2>3, <2>5
    <3>2. Scalars'
      BY <1>3, <2>1, <3>1 DEF IInv, Shapes, Scalars, call, result, LoggingIn
    <3>3. StepLists' /\ TypedShape'
      BY <1>3, <2>1, <2>4 DEF IInv, Shapes, StepLists, TypedShape, call
    <3> QED
      BY <3>2, <3>3 DEF Shapes
  <2>7. PlaceInv'
    BY <1>3, <2>1, <2>3 DEF IInv, PlaceInv, call, result, Exploring, LoggingIn, Ends, Untold,
      Honest
  <2>8. PayInv'
    BY <1>3, <2>2, <2>4, <2>5 DEF PayInv
  <2>9. PaceInv'
    <3>1. i = Len(Wanted) + 1 /\ Wanted' = Wanted /\ TypedTo(Len(Wanted))'
      BY <1>2, <1>3, <2>1, AllTyped
    <3>2. Len(Wanted) + 1 <= acted' /\ acted' <= 2 * Len(Wanted) + 1
      BY <1>2, <2>1, <2>3 DEF LoginPace
    <3> QED
      BY <1>3, <2>1, <2>3, <3>1, <3>2 DEF PaceInv, LoginPace, Ends, call
  <2> QED
    BY <2>6, <2>7, <2>8, <2>9 DEF IInv
<1> QED
  BY <1>1, <1>2, <1>3, StopsKeeps

\* The button is pressed a second time at most, and the second press is a step too.
LEMMA PressedKeeps ==
  ASSUME IInv, Pressed
  PROVE  IInv'
<1>1. /\ pc = "pressed" /\ pc' = "confirm"
      /\ \/ UNCHANGED <<steps, history>>
         \/ /\ acted' = acted + 1 /\ paid' = (paid \/ Last(steps).pay)
            /\ UNCHANGED <<typed, futile>> /\ steps' = Append(steps, Recovered)
      /\ UNCHANGED <<call, i, result, watch, memory>>
  BY DEF Pressed, Touch
<1>2. /\ mode = "login" /\ hook = TRUE /\ LoginPace /\ Untold
      /\ i \in Nat /\ acted \in Nat /\ steps \in Seq(Recordable) /\ Len(Wanted) \in 0..2
  BY <1>1, LoginFacts DEF LoggingIn
<1>3. Recovered \in Recordable /\ paid = FALSE /\ Last(steps).pay = FALSE
  <2>1. steps # << >> /\ ~Last(steps).pay /\ paid = FALSE
    BY <1>1 DEF IInv, PayInv
  <2>2. Last(steps) \in Recordable /\ Recovered \in Recordable
    BY <1>2, <2>1, RecoveredRecordable
  <2> QED
    BY <2>1, <2>2, RecordableFields
<1>4. /\ steps' \in Seq(Recordable) /\ acted' \in {acted, acted + 1} /\ paid' = FALSE
      /\ typed' = typed /\ futile' = futile
  <2>1. CASE UNCHANGED <<steps, history>>
    BY <1>2, <1>3, <2>1 DEF history
  <2>2. CASE /\ acted' = acted + 1 /\ paid' = (paid \/ Last(steps).pay)
             /\ UNCHANGED <<typed, futile>> /\ steps' = Append(steps, Recovered)
    <3>1. steps' \in Seq(Recordable)
      BY <1>2, <1>3, <2>2
    <3>2. paid' = FALSE
      BY <1>3, <2>2
    <3> QED
      BY <2>2, <3>1, <3>2
  <2> QED
    BY <1>1, <2>1, <2>2
<1>5. Shapes'
  <2>1. acted' \in Nat
    BY <1>2, <1>4
  <2>2. paid' \in BOOLEAN
    BY <1>4
  <2>3. Scalars'
    BY <1>1, <1>4, <2>1, <2>2 DEF IInv, Shapes, Scalars, call, result, watch, LoggingIn
  <2>4. StepLists' /\ TypedShape'
    BY <1>1, <1>4 DEF IInv, Shapes, StepLists, TypedShape, call
  <2> QED
    BY <2>3, <2>4 DEF Shapes
<1>6. PlaceInv' /\ PayInv'
  BY <1>1, <1>2, <1>4 DEF IInv, PlaceInv, PayInv, call, result, watch, Exploring, LoggingIn,
    Ends, Untold, Honest
<1>7. PaceInv'
  <2>1. i = Len(Wanted) + 1 /\ Wanted' = Wanted /\ TypedTo(Len(Wanted))'
    BY <1>1, <1>4, AllTyped
  <2>2. Len(Wanted) + 1 <= acted' /\ acted' <= 2 * Len(Wanted) + 2
    BY <1>1, <1>2, <1>4 DEF LoginPace
  <2> QED
    BY <1>1, <1>2, <2>1, <2>2 DEF PaceInv, LoginPace, Ends, call
<1> QED
  BY <1>5, <1>6, <1>7 DEF IInv

LEMMA ConfirmKeeps ==
  ASSUME IInv, Confirm
  PROVE  IInv'
<1>1. PICK d \in Decision :
        /\ steps' = Append(steps, d) /\ success' = (d.kind = "done")
        /\ extracted' \in (IF d.kind = "done" THEN BOOLEAN ELSE {FALSE})
  BY DEF Confirm
<1>2. pc = "confirm" /\ pc' = "close" /\ UNCHANGED <<call, i, refused, watch, memory, history>>
  BY DEF Confirm
<1>3. /\ mode = "login" /\ hook = TRUE /\ LoginPace /\ Untold
      /\ i \in Nat /\ acted \in Nat /\ steps \in Seq(Recordable) /\ Len(Wanted) \in 0..2
  BY <1>2, LoginFacts DEF LoggingIn
<1>4. /\ steps' \in Seq(Recordable) /\ success' \in BOOLEAN /\ extracted' \in BOOLEAN
      /\ (extracted' => success')
  <2>1. steps' \in Seq(Recordable)
    BY <1>1, <1>3, DecisionRecordable
  <2>2. success' \in BOOLEAN /\ extracted' \in BOOLEAN /\ (extracted' => success')
    BY <1>1
  <2> QED
    BY <2>1, <2>2
<1>5. Shapes'
  <2>1. Scalars'
    BY <1>2, <1>4 DEF IInv, Shapes, Scalars, call, watch, history, Ends
  <2>2. StepLists' /\ TypedShape'
    BY <1>2, <1>4 DEF IInv, Shapes, StepLists, TypedShape, call, history
  <2> QED
    BY <2>1, <2>2 DEF Shapes
<1>6. PlaceInv' /\ PayInv'
  BY <1>2, <1>3, <1>4 DEF IInv, PlaceInv, PayInv, call, watch, history, Exploring, LoggingIn,
    Ends, Untold, Honest
<1>7. PaceInv'
  <2>1. i = Len(Wanted) + 1 /\ Wanted' = Wanted /\ TypedTo(Len(Wanted))'
    BY <1>2, AllTyped DEF history
  <2>2. Len(Wanted) + 1 <= acted' /\ acted' <= 2 * Len(Wanted) + 2 /\ acted' = acted
    BY <1>2, <1>3 DEF LoginPace, history
  <2> QED
    BY <1>2, <1>3, <2>1, <2>2 DEF PaceInv, LoginPace, Ends, call
<1> QED
  BY <1>5, <1>6, <1>7 DEF IInv

-----------------------------------------------------------------------------
(* replay_workflow keeps the invariant.                                    *)

LEMMA ReplayFacts ==
  ASSUME IInv, pc = "replay"
  PROVE  /\ mode = "replay" /\ ReplayPace /\ Untold
         /\ i \in Nat /\ acted \in Nat /\ steps \in Seq(Recordable) /\ prior \in Seq(Recordable)
         /\ i \in 1..(Len(prior) + 1) /\ Len(prior) \in Nat
         /\ acted = ActsTo(prior, i - 1) /\ acted = Acts(steps) /\ acted <= i - 1
<1>1. mode = "replay" /\ Untold
  BY DEF IInv, PlaceInv, Ends
<1>2. /\ ReplayPace /\ i \in 1..(Len(prior) + 1) /\ acted = ActsTo(prior, i - 1)
      /\ acted = Acts(steps)
  BY <1>1 DEF IInv, PaceInv, ReplayPace
<1>3. /\ i \in Nat /\ acted \in Nat /\ steps \in Seq(Recordable) /\ prior \in Seq(Recordable)
      /\ Len(prior) \in Nat
  BY DEF IInv, Shapes, Scalars, StepLists
<1>4. i - 1 \in Nat
  BY <1>2, <1>3
<1>5. ActsTo(prior, i - 1) <= i - 1
  BY <1>4, ActsToBounded
<1> QED
  BY <1>1, <1>2, <1>3, <1>5

\* One more step of the workflow is done, or passed over.
LEMMA ReplayedOne ==
  ASSUME IInv, pc = "replay", i <= Len(prior),
         steps' = Append(steps, prior[i]), i' = i + 1,
         acted' = (IF prior[i].kind \in Acting THEN acted + 1 ELSE acted),
         paid' = FALSE,
         UNCHANGED <<pc, call, result, watch, memory, typed, futile>>
  PROVE  IInv'
<1>1. /\ mode = "replay" /\ ReplayPace /\ Untold
      /\ i \in Nat /\ acted \in Nat /\ steps \in Seq(Recordable) /\ prior \in Seq(Recordable)
      /\ i \in 1..(Len(prior) + 1) /\ Len(prior) \in Nat
      /\ acted = ActsTo(prior, i - 1) /\ acted = Acts(steps) /\ acted <= i - 1
  BY ReplayFacts
<1>2. i \in 1..Len(prior) /\ prior[i] \in Recordable
  BY <1>1
<1>3. steps' \in Seq(Recordable) /\ acted' \in Nat /\ i' \in Nat
  BY <1>1, <1>2
<1>4. Shapes'
  <2>1. paid' \in BOOLEAN
    OBVIOUS
  <2>2. Scalars'
    BY <1>3, <2>1 DEF IInv, Shapes, Scalars, call, result, watch
  <2>3. StepLists' /\ TypedShape'
    BY <1>3 DEF IInv, Shapes, StepLists, TypedShape, call
  <2> QED
    BY <2>2, <2>3 DEF Shapes
<1>5. PlaceInv' /\ PayInv'
  BY <1>1 DEF IInv, PlaceInv, PayInv, call, result, watch, Exploring, LoggingIn, Ends, Untold,
    Honest
<1>6. PaceInv'
  <2>1. Acts(steps') = acted'
    BY <1>1, <1>2, ActsAppend
  <2>2. ActsTo(prior, i) = acted'
    BY <1>1, <1>2, ActsToNext
  <2>3. mode' = "replay" /\ prior' = prior /\ pc' = "replay" /\ (i' - 1) = i
    BY <1>1 DEF call
  <2>4. i' \in 1..(Len(prior) + 1)
    BY <1>1, <1>2
  <2>5. acted' = ActsTo(prior', i' - 1)
    BY <2>2, <2>3
  <2> QED
    BY <2>1, <2>3, <2>4, <2>5 DEF PaceInv, ReplayPace, Ends, Acts, ActsTo
<1> QED
  BY <1>4, <1>5, <1>6 DEF IInv

LEMMA ReplayStepKeeps ==
  ASSUME IInv, ReplayStep
  PROVE  IInv'
<1> DEFINE s == prior[i]
<1>1. /\ mode = "replay" /\ ReplayPace /\ Untold
      /\ i \in Nat /\ acted \in Nat /\ steps \in Seq(Recordable) /\ prior \in Seq(Recordable)
      /\ i \in 1..(Len(prior) + 1) /\ Len(prior) \in Nat
      /\ acted = ActsTo(prior, i - 1) /\ acted = Acts(steps) /\ acted <= i - 1
  BY ReplayFacts DEF ReplayStep
<1>2. /\ pc = "replay" /\ i <= Len(prior) /\ UNCHANGED <<watch, memory>>
  BY DEF ReplayStep
<1>3. s \in Recordable /\ paid = FALSE /\ futile \in BOOLEAN
  BY <1>1, <1>2 DEF IInv, PayInv, Shapes, Scalars
<1>4. s.kind \in Acting \cup Ending /\ s.pay \in BOOLEAN
  BY <1>3, RecordableFields
<1>5. ASSUME s.kind \in Ending, steps' = Append(steps, s), i' = i + 1,
             UNCHANGED <<pc, mode, hook, creds, prior, result, history>>
      PROVE  IInv'
  <2>1. s.kind \notin Acting
    BY <1>5 DEF Acting, Ending
  <2>2. UNCHANGED <<pc, call, result, watch, memory, typed, futile>> /\ acted' = acted
    BY <1>2, <1>5 DEF call, history
  <2>3. paid' = FALSE
    BY <1>3, <1>5 DEF history
  <2> QED
    BY <1>2, <1>5, <2>1, <2>2, <2>3, ReplayedOne
<1>6. ASSUME steps' = Append(steps, Plain("refused")), refused' = TRUE, pc' = "close",
             UNCHANGED <<i, call, success, extracted, history>>
      PROVE  IInv'
  <2>1. steps' \in Seq(Recordable)
    <3>1. Plain("refused") \in Recordable
      BY PlainRecordable DEF Ending
    <3> QED
      BY <1>1, <1>6, <3>1
  <2>2. Shapes'
    <3>1. Scalars'
      BY <1>2, <1>6 DEF IInv, Shapes, Scalars, call, watch, history, Ends
    <3>2. StepLists' /\ TypedShape'
      BY <1>2, <1>6, <2>1 DEF IInv, Shapes, StepLists, TypedShape, call, history
    <3> QED
      BY <3>1, <3>2 DEF Shapes
  <2>3. PlaceInv' /\ PayInv'
    BY <1>1, <1>2, <1>6 DEF IInv, PlaceInv, PayInv, call, watch, history, Exploring, LoggingIn,
      Ends, Untold, Honest
  <2>4. PaceInv'
    <3>1. acted <= Len(prior) /\ i <= Len(prior) + 1
      BY <1>1
    <3> QED
      BY <1>1, <1>6, <3>1 DEF PaceInv, ReplayPace, Ends, Untold, call, history
  <2> QED
    BY <2>2, <2>3, <2>4 DEF IInv
<1>7. ASSUME Performable(s), ~LooksLikePayment(s), Touch(s.kind, s.pay), steps' = Append(steps, s),
             i' = i + 1, UNCHANGED <<pc, call, result, typed, futile>>
      PROVE  IInv'
  <2>1. s.kind \in Acting /\ acted' = acted + 1
    BY <1>7 DEF Performable, Touch
  <2>2. paid' = FALSE
    BY <1>3, <1>7 DEF LooksLikePayment, Touch
  <2> QED
    BY <1>2, <1>7, <2>1, <2>2, ReplayedOne
<1>8. ASSUME Raised, UNCHANGED <<i, history>>
      PROVE  IInv'
  <2>1. /\ UNCHANGED <<i, watch, memory, typed, paid>> /\ acted' = acted /\ futile' = futile
    BY <1>2, <1>8 DEF history
  <2> QED
    BY <1>1, <1>2, <1>3, <1>8, <2>1, RaisedKeeps
<1> QED
  BY <1>5, <1>6, <1>7, <1>8 DEF ReplayStep

LEMMA ReplayedKeeps ==
  ASSUME IInv, Replayed
  PROVE  IInv'
<1>1. /\ pc = "replay" /\ i > Len(prior) /\ success' = TRUE /\ pc' = "close"
      /\ UNCHANGED <<call, i, steps, refused, extracted, watch, memory, history>>
  BY DEF Replayed
<1>2. /\ mode = "replay" /\ ReplayPace /\ Untold
      /\ i \in Nat /\ acted \in Nat
      /\ i \in 1..(Len(prior) + 1) /\ Len(prior) \in Nat
      /\ acted = ActsTo(prior, i - 1) /\ acted = Acts(steps) /\ acted <= i - 1
  BY <1>1, ReplayFacts
<1>3. i - 1 = Len(prior) /\ acted = Acts(prior)
  BY <1>1, <1>2 DEF Acts
<1>4. Shapes'
  BY <1>1 DEF IInv, Shapes, Scalars, StepLists, TypedShape, call, watch, history, Ends
<1>5. PlaceInv' /\ PayInv'
  BY <1>1, <1>2 DEF IInv, PlaceInv, PayInv, call, watch, history, Exploring, LoggingIn, Ends,
    Untold, Honest
<1>6. PaceInv'
  BY <1>1, <1>2, <1>3 DEF PaceInv, ReplayPace, Ends, Acts, call, history
<1> QED
  BY <1>4, <1>5, <1>6 DEF IInv

-----------------------------------------------------------------------------
(* The browser, the page or the disk raises.                               *)

LEMMA FailKeeps ==
  ASSUME IInv, Fail
  PROVE  IInv'
<1>1. Raised /\ UNCHANGED <<i, watch, memory, typed, paid>> /\ futile' = futile
  <2>0. paid = FALSE /\ (Touch(Doing, FALSE) => paid' = (paid \/ FALSE))
    BY DEF IInv, PayInv, Touch
  <2>1. paid' = paid /\ UNCHANGED <<typed, futile>>
    BY <2>0 DEF Fail, history
  <2> QED
    BY <2>1 DEF Fail
<1>2. \/ pc = "launch" /\ acted' = 0
      \/ pc \in {"decide", "confirm", "close"} /\ acted' = acted
      \/ Performing /\ acted' \in {acted, acted + 1}
  BY DEF Fail, Touch, history
<1>3. acted \in Nat /\ futile \in BOOLEAN /\ MaxSteps \in Nat \ {0} /\ Len(Wanted) \in Nat
  <2>1. creds \in SUBSET {"email", "password"}
    BY CredentialsAssumption DEF IInv, Shapes, Scalars
  <2> QED
    BY <2>1, WantedShape, MaxStepsAssumption DEF IInv, Shapes, Scalars
<1>4. pc # "idle" /\ (pc \in Ends => pc = "close")
  BY <1>2 DEF Performing, Ends
<1>5. acted' \in Nat /\ (pc = "close" => acted' = acted)
  BY <1>2, <1>3 DEF Performing
<1>6. ASSUME mode = "explore" PROVE 2 * acted' <= 3 * MaxSteps
  <2>1. CASE pc = "launch" /\ acted' = 0
    BY <1>3, <2>1
  <2>2. CASE pc = "close" /\ acted' = acted
    BY <1>6, <2>2 DEF IInv, PaceInv, Pace, Ends
  <2>3. CASE pc \in {"decide", "execute", "recover"} /\ acted' \in {acted, acted + 1}
             /\ (pc = "decide" => acted' = acted)
    <3>1. pc \in Exploring
      BY <2>3 DEF Exploring
    <3>2. Stalled \in 0..2 /\ Pace
      BY <3>1, ExploreFacts
    <3> QED
      <4>1. CASE pc = "decide"
        BY <1>3, <2>3, <3>2, <4>1 DEF Pace
      <4>2. CASE pc = "execute"
        <5>1. i \in 1..MaxSteps /\ 2 * acted + 2 <= 3 * i
          BY <1>3, <3>2, <4>2 DEF Pace
        <5>2. 2 * acted + 2 <= 3 * MaxSteps
          BY <1>3, <5>1
        <5>3. acted' = acted \/ acted' = acted + 1
          BY <2>3
        <5> QED
          BY <1>3, <5>2, <5>3
      <4>3. CASE pc = "recover"
        <5>1. i \in 1..MaxSteps /\ 2 * acted + 2 <= 3 * i
          BY <1>3, <3>2, <4>3 DEF Pace
        <5>2. 2 * acted + 2 <= 3 * MaxSteps
          BY <1>3, <5>1
        <5>3. acted' = acted \/ acted' = acted + 1
          BY <2>3
        <5> QED
          BY <1>3, <5>2, <5>3
      <4> QED
        BY <2>3, <4>1, <4>2, <4>3
  <2>4. pc \notin LoggingIn \cup {"replay"}
    BY <1>6 DEF IInv, PlaceInv, LoggingIn
  <2> QED
    BY <1>2, <2>1, <2>2, <2>3, <2>4 DEF Performing, LoggingIn
<1>7. ASSUME mode = "login" PROVE acted' <= 2 * Len(Wanted) + 2
  <2>1. CASE pc = "launch" /\ acted' = 0
    BY <1>3, <2>1
  <2>2. CASE pc = "close" /\ acted' = acted
    BY <1>7, <2>2 DEF IInv, PaceInv, LoginPace, Ends
  <2>3. CASE pc \in {"locate", "submit", "pressed", "confirm"} /\ acted' \in {acted, acted + 1}
             /\ (pc = "confirm" => acted' = acted)
    <3>1. LoginPace
      BY <1>7 DEF IInv, PaceInv
    <3> QED
      BY <1>3, <2>3, <3>1 DEF LoginPace
  <2>4. pc \notin Exploring \cup {"replay"}
    BY <1>7 DEF IInv, PlaceInv, Exploring
  <2> QED
    BY <1>2, <2>1, <2>2, <2>3, <2>4 DEF Performing, Exploring
<1> QED
  BY <1>1, <1>3, <1>4, <1>5, <1>6, <1>7, RaisedKeeps

-----------------------------------------------------------------------------
(* What was performed, by kind and in order.                               *)

\* Of the actions of p, the last a are the first a that act among ss.
Ordered(ss, p, a) ==
  \A n \in 1..Len(ss) :
    ss[n].kind \in Acting /\ ActsTo(ss, n) <= a => p[Len(p) - a + ActsTo(ss, n)] = ss[n].kind

OrderInv ==
  /\ performed \in Seq(Acting) /\ acted <= Len(performed)
  /\ mode # "login" => Ordered(steps, performed, acted)

\* The count only grows.
LEMMA ActsToMonotone ==
  ASSUME NEW ss, NEW m \in Nat, NEW n \in Nat, m <= n
  PROVE  ActsTo(ss, m) <= ActsTo(ss, n)
<1> DEFINE S == {k \in 1..m : ss[k].kind \in Acting}
           T == {k \in 1..n : ss[k].kind \in Acting}
<1>1. S \subseteq T
  OBVIOUS
<1>2. IsFiniteSet(T)
  BY ActsToBounded
<1>3. Cardinality(S) <= Cardinality(T)
  <2> HIDE DEF S, T
  <2> QED
    BY <1>1, <1>2, FS_Subset
<1> QED
  BY <1>3 DEF ActsTo

\* A step that acts counts itself, and what follows does not change its count.
LEMMA ActsToPlace ==
  ASSUME NEW ss \in Seq(Recordable), NEW n \in 1..Len(ss)
  PROVE  /\ ActsTo(ss, n) \in Nat /\ ActsTo(ss, n) <= Acts(ss) /\ Acts(ss) \in Nat
         /\ ss[n].kind \in Acting => ActsTo(ss, n) >= 1
         /\ ss[n].kind \in Acting /\ n < Len(ss) /\ ss[Len(ss)].kind \in Acting
              => ActsTo(ss, n) + 1 <= Acts(ss)
         /\ \A s \in Recordable : ActsTo(Append(ss, s), n) = ActsTo(ss, n)
<1>1. n \in Nat \ {0} /\ n - 1 \in Nat /\ Len(ss) \in Nat
  OBVIOUS
<1>2. ActsTo(ss, n) \in Nat /\ Acts(ss) \in Nat /\ ActsTo(ss, n - 1) \in Nat
  BY <1>1, ActsToBounded DEF Acts
<1>3. ActsTo(ss, n) <= Acts(ss)
  BY <1>1, ActsToMonotone DEF Acts
<1>4. ss[n].kind \in Acting => ActsTo(ss, n) >= 1
  BY <1>1, <1>2, ActsToNext
<1>5. ASSUME n < Len(ss), ss[Len(ss)].kind \in Acting
      PROVE  ActsTo(ss, n) + 1 <= Acts(ss)
  <2>1. Len(ss) \in Nat \ {0} /\ Len(ss) - 1 \in Nat /\ n <= Len(ss) - 1
    BY <1>1, <1>5
  <2>2. Acts(ss) = ActsTo(ss, Len(ss) - 1) + 1
    BY <1>5, <2>1, ActsToNext DEF Acts
  <2>3. ActsTo(ss, n) <= ActsTo(ss, Len(ss) - 1)
    BY <1>1, <2>1, ActsToMonotone
  <2>4. ActsTo(ss, Len(ss) - 1) \in Nat
    BY <2>1, ActsToBounded
  <2> QED
    BY <1>2, <2>2, <2>3, <2>4
<1>6. ASSUME NEW s \in Recordable PROVE ActsTo(Append(ss, s), n) = ActsTo(ss, n)
  <2>1. \A m \in 1..n : Append(ss, s)[m] = ss[m]
    OBVIOUS
  <2>2. {m \in 1..n : Append(ss, s)[m].kind \in Acting} = {m \in 1..n : ss[m].kind \in Acting}
    BY <2>1
  <2> QED
    BY <2>2 DEF ActsTo
<1> QED
  BY <1>2, <1>3, <1>4, <1>5, <1>6

\* A step is recorded that does not act, or that has not been performed yet.
LEMMA OrderedRecord ==
  ASSUME NEW ss \in Seq(Recordable), NEW s \in Recordable, NEW p, NEW a \in Nat,
         Ordered(ss, p, a), s.kind \in Acting => a <= Acts(ss)
  PROVE  Ordered(Append(ss, s), p, a)
<1> SUFFICES ASSUME NEW n \in 1..Len(Append(ss, s)), Append(ss, s)[n].kind \in Acting,
                    ActsTo(Append(ss, s), n) <= a
             PROVE  p[Len(p) - a + ActsTo(Append(ss, s), n)] = Append(ss, s)[n].kind
  BY DEF Ordered
<1>1. /\ Len(Append(ss, s)) = Len(ss) + 1 /\ Len(ss) \in Nat
      /\ Append(ss, s)[Len(ss) + 1] = s /\ \A m \in 1..Len(ss) : Append(ss, s)[m] = ss[m]
  OBVIOUS
<1>2. CASE n \in 1..Len(ss)
  <2>1. ActsTo(Append(ss, s), n) = ActsTo(ss, n) /\ Append(ss, s)[n] = ss[n]
    BY <1>1, <1>2, ActsToPlace
  <2> QED
    BY <1>2, <2>1 DEF Ordered
<1>3. CASE n = Len(ss) + 1
  <2>1. s.kind \in Acting
    BY <1>1, <1>3
  <2>2. ActsTo(Append(ss, s), n) = Acts(ss) + 1 /\ Acts(ss) \in Nat
    BY <1>1, <1>3, <2>1, ActsAppend DEF Acts
  <2> QED
    BY <2>1, <2>2
<1> QED
  BY <1>1, <1>2, <1>3

\* The step recorded last is performed.
LEMMA OrderedPerform ==
  ASSUME NEW ss \in Seq(Recordable), ss # << >>, Last(ss).kind \in Acting,
         NEW p \in Seq(Acting), NEW a \in Nat, a <= Len(p), a + 1 = Acts(ss), Ordered(ss, p, a)
  PROVE  Ordered(ss, Append(p, Last(ss).kind), a + 1)
<1> DEFINE q == Append(p, Last(ss).kind)
<1>1. /\ Len(q) = Len(p) + 1 /\ Len(p) \in Nat /\ Len(ss) \in Nat \ {0}
      /\ Last(ss) = ss[Len(ss)] /\ q[Len(p) + 1] = Last(ss).kind
      /\ \A j \in 1..Len(p) : q[j] = p[j]
  BY DEF Last
<1> SUFFICES ASSUME NEW n \in 1..Len(ss), ss[n].kind \in Acting
             PROVE  q[Len(q) - (a + 1) + ActsTo(ss, n)] = ss[n].kind
  BY DEF Ordered
<1>2. CASE n = Len(ss)
  <2>1. ActsTo(ss, n) = a + 1
    BY <1>2 DEF Acts
  <2> QED
    BY <1>1, <1>2, <2>1
<1>3. CASE n < Len(ss)
  <2>1. ActsTo(ss, n) \in Nat /\ ActsTo(ss, n) >= 1 /\ ActsTo(ss, n) + 1 <= a + 1
    BY <1>1, <1>3, ActsToPlace
  <2>2. p[Len(p) - a + ActsTo(ss, n)] = ss[n].kind
    BY <2>1 DEF Ordered
  <2>3. Len(p) - a + ActsTo(ss, n) \in 1..Len(p)
    BY <1>1, <2>1
  <2>4. Len(q) - (a + 1) + ActsTo(ss, n) = Len(p) - a + ActsTo(ss, n)
    BY <1>1, <2>1
  <2> HIDE DEF q
  <2> QED
    BY <1>1, <2>2, <2>3, <2>4
<1>4. n = Len(ss) \/ n < Len(ss)
  BY <1>1
<1> QED
  BY <1>2, <1>3, <1>4

\* Something is performed that no step says.
LEMMA OrderedBeyond ==
  ASSUME NEW ss \in Seq(Recordable), NEW p \in Seq(Acting), NEW k \in Acting, NEW a \in Nat,
         a <= Len(p), Acts(ss) <= a, Ordered(ss, p, a)
  PROVE  Ordered(ss, Append(p, k), a + 1)
<1> DEFINE q == Append(p, k)
<1>1. Len(q) = Len(p) + 1 /\ Len(p) \in Nat /\ \A j \in 1..Len(p) : q[j] = p[j]
  OBVIOUS
<1> SUFFICES ASSUME NEW n \in 1..Len(ss), ss[n].kind \in Acting
             PROVE  q[Len(q) - (a + 1) + ActsTo(ss, n)] = ss[n].kind
  BY DEF Ordered
<1>2. ActsTo(ss, n) \in Nat /\ ActsTo(ss, n) >= 1 /\ ActsTo(ss, n) <= a
  BY ActsToPlace
<1>3. p[Len(p) - a + ActsTo(ss, n)] = ss[n].kind
  BY <1>2 DEF Ordered
<1>4. Len(p) - a + ActsTo(ss, n) \in 1..Len(p)
  BY <1>1, <1>2
<1>5. Len(q) - (a + 1) + ActsTo(ss, n) = Len(p) - a + ActsTo(ss, n)
  BY <1>1, <1>2
<1> HIDE DEF q
<1> QED
  BY <1>1, <1>3, <1>4, <1>5

-----------------------------------------------------------------------------
(* The theorems.                                                           *)

LEMMA StutterKeeps ==
  ASSUME IInv, UNCHANGED vars
  PROVE  IInv'
<1>1. Shapes' /\ PlaceInv' /\ PayInv'
  BY DEF IInv, Shapes, Scalars, StepLists, TypedShape, PlaceInv, PayInv, Untold, Honest,
    vars, call, result, watch, history
<1>2. Wanted' = Wanted
  BY DEF Wanted, Given, vars, call
<1>3. PaceInv'
  BY <1>2 DEF IInv, PaceInv, Pace, LoginPace, ReplayPace, Acts, Stalled, SawDone, DoneAt,
    TypedTo, TypedPart, vars, call, result, watch, history
<1> QED
  BY <1>1, <1>3 DEF IInv

\* Whatever the model answers and the page does, the invariant holds: in every
\* function of action_executor.py, at every call it makes.
THEOREM InvariantHolds == Spec => []IInv
<1>1. IInv /\ [Next]_vars => IInv'
  <2>1. IInv /\ (Explore \/ Login \/ Replay) => IInv'
    BY BeginKeeps
  <2>2. IInv /\ Step => IInv'
    BY LaunchKeeps, DecideKeeps, ExhaustedKeeps, ExecuteKeeps, CannotExecuteKeeps, ObserveKeeps,
      RecoverKeeps, HintKeeps, FillDirectKeeps, AskForFieldKeeps, FillLocatedKeeps,
      AskToSubmitKeeps, SubmitKeeps, PressedKeeps, ConfirmKeeps, ReplayStepKeeps, ReplayedKeeps,
      FailKeeps, CloseKeeps, ReturnKeeps DEF Step
  <2>3. IInv /\ UNCHANGED vars => IInv'
    BY StutterKeeps
  <2> QED
    BY <2>1, <2>2, <2>3 DEF Next
<1> QED
  BY <1>1, InitHolds, PTL DEF Spec

\* An action on the page is one more of those performed.
LEMMA TouchAppends ==
  ASSUME OrderInv, acted \in Nat, NEW k \in Acting, NEW b, Touch(k, b)
  PROVE  /\ performed' = Append(performed, k) /\ acted' = acted + 1
         /\ performed' \in Seq(Acting) /\ acted' <= Len(performed')
<1>1. performed' = Append(performed, k) /\ acted' = acted + 1
  BY DEF Touch
<1>2. performed \in Seq(Acting) /\ acted <= Len(performed)
  BY DEF OrderInv
<1>3. Append(performed, k) \in Seq(Acting) /\ Len(Append(performed, k)) = Len(performed) + 1
      /\ Len(performed) \in Nat
  BY <1>2
<1> QED
  BY <1>1, <1>2, <1>3

\* Where nothing is recorded yet, or in a login, only the shape matters.
LEMMA OrderFresh ==
  ASSUME performed' \in Seq(Acting), acted' <= Len(performed'),
         steps' = << >> \/ mode' = "login"
  PROVE  OrderInv'
<1>1. ASSUME steps' = << >> PROVE Ordered(steps', performed', acted')
  BY <1>1 DEF Ordered
<1> QED
  BY <1>1 DEF OrderInv, Ordered

LEMMA OrderSame ==
  ASSUME OrderInv, UNCHANGED <<steps, performed, acted>>, mode' = mode \/ mode = "explore"
  PROVE  OrderInv'
  BY DEF OrderInv, Ordered

\* An exception, after what was performed by then.
LEMMA OrderRaised ==
  ASSUME IInv, Raised, performed' \in Seq(Acting), acted' \in Nat, acted' <= Len(performed'),
         mode = "explore" => Ordered(steps, performed', acted')
  PROVE  OrderInv'
<1>1. CASE mode = "replay"
  BY <1>1, OrderFresh DEF Raised
<1>2. CASE mode = "login"
  BY <1>2, OrderFresh DEF Raised, call
<1>3. CASE mode = "explore"
  <2>1. steps' = Append(steps, Plain("stuck"))
    BY <1>3 DEF Raised
  <2>2. steps \in Seq(Recordable) /\ Plain("stuck") \in Recordable
        /\ Plain("stuck").kind \notin Acting
    BY PlainRecordable DEF IInv, Shapes, StepLists, Ending, Acting
  <2>3. Ordered(Append(steps, Plain("stuck")), performed', acted')
    BY <1>3, <2>2, OrderedRecord
  <2>4. Ordered(steps', performed', acted')
    BY <2>1, <2>3
  <2> QED
    BY <2>4 DEF OrderInv, Ordered
<1> QED
  BY <1>1, <1>2, <1>3 DEF IInv, Shapes, Scalars

LEMMA OrderDecide ==
  ASSUME IInv, OrderInv, Decide
  PROVE  OrderInv'
<1>1. PICK d \in Decision :
        steps' = Append(steps, IF d.kind \in Acting /\ LooksLikePayment(d) THEN Plain("refused")
                                                                           ELSE d)
  BY DEF Decide, DecideWithin
<1> DEFINE s == IF d.kind \in Acting /\ LooksLikePayment(d) THEN Plain("refused") ELSE d
<1>2. pc = "decide" /\ mode = "explore" /\ UNCHANGED <<mode, acted, performed>>
  BY DEF Decide, DecideWithin, IInv, PlaceInv, Exploring, call, history
<1>3. s \in Recordable
  BY DecisionRecordable, PlainRecordable DEF Ending
<1>4. acted = Acts(steps) /\ acted \in Nat /\ steps \in Seq(Recordable)
  BY <1>2 DEF IInv, PaceInv, Pace, Shapes, Scalars, StepLists
<1>5. Ordered(steps, performed, acted)
  BY <1>2 DEF OrderInv
<1>6. acted <= Acts(steps)
  BY <1>4
<1>7. Ordered(Append(steps, s), performed, acted)
  <2> HIDE DEF s
  <2> QED
    BY <1>3, <1>4, <1>5, <1>6, OrderedRecord
<1>8. Ordered(steps', performed', acted')
  BY <1>1, <1>2, <1>7
<1> QED
  BY <1>2, <1>8 DEF OrderInv, Ordered

LEMMA OrderExecute ==
  ASSUME IInv, OrderInv, Execute
  PROVE  OrderInv'
<1>1. /\ pc = "execute" /\ mode = "explore" /\ UNCHANGED <<mode, steps>>
      /\ Touch(Last(steps).kind, Last(steps).pay) /\ Last(steps).kind \in Acting
  BY DEF Execute, Performable, IInv, PlaceInv, Exploring, call
<1>2. /\ acted \in Nat /\ acted + 1 = Acts(steps) /\ steps \in Seq(Recordable) /\ steps # << >>
  BY <1>1 DEF IInv, PaceInv, Pace, PayInv, Shapes, Scalars, StepLists
<1>3. /\ performed' = Append(performed, Last(steps).kind) /\ acted' = acted + 1
      /\ performed' \in Seq(Acting) /\ acted' <= Len(performed')
  BY <1>1, <1>2, TouchAppends
<1>4. Ordered(steps, performed, acted) /\ performed \in Seq(Acting) /\ acted <= Len(performed)
  BY <1>1 DEF OrderInv
<1>5. Ordered(steps, Append(performed, Last(steps).kind), acted + 1)
  BY <1>1, <1>2, <1>4, OrderedPerform
<1>6. Ordered(steps', performed', acted')
  BY <1>1, <1>3, <1>5
<1> QED
  BY <1>1, <1>3, <1>6 DEF OrderInv, Ordered

\* A step is recorded and performed at once.
LEMMA OrderBoth ==
  ASSUME IInv, OrderInv, mode # "login", mode' = mode, acted = Acts(steps),
         NEW s \in Recordable, s.kind \in Acting, NEW b,
         Touch(s.kind, b), steps' = Append(steps, s)
  PROVE  OrderInv'
<1>1. acted \in Nat /\ steps \in Seq(Recordable)
  BY DEF IInv, Shapes, Scalars, StepLists
<1>2. /\ performed' = Append(performed, s.kind) /\ acted' = acted + 1
      /\ performed' \in Seq(Acting) /\ acted' <= Len(performed')
  BY <1>1, TouchAppends
<1>3. Ordered(steps, performed, acted) /\ performed \in Seq(Acting) /\ acted <= Len(performed)
  BY DEF OrderInv
<1> DEFINE ss == Append(steps, s)
<1>4. ss \in Seq(Recordable) /\ ss # << >> /\ Last(ss) = s
  BY <1>1 DEF Last
<1>5. Acts(ss) = acted + 1
  BY <1>1, ActsAppend
<1>6. Ordered(ss, performed, acted)
  <2>1. acted <= Acts(steps)
    BY <1>1
  <2> QED
    BY <1>1, <1>3, <2>1, OrderedRecord
<1>7. Ordered(ss, Append(performed, s.kind), acted + 1)
  <2> HIDE DEF ss
  <2>1. Last(ss).kind \in Acting /\ acted + 1 = Acts(ss)
    BY <1>4, <1>5
  <2>2. Ordered(ss, Append(performed, Last(ss).kind), acted + 1)
    BY <1>1, <1>3, <1>4, <1>6, <2>1, OrderedPerform
  <2> QED
    BY <1>4, <2>2
<1>8. Ordered(steps', performed', acted')
  BY <1>2, <1>7
<1> QED
  BY <1>2, <1>8 DEF OrderInv, Ordered

LEMMA OrderRecover ==
  ASSUME IInv, OrderInv, Recover
  PROVE  OrderInv'
<1>1. /\ pc = "recover" /\ mode = "explore" /\ mode' = mode
      /\ Touch(Recovered.kind, Last(steps).pay) /\ steps' = Append(steps, Recovered)
  BY DEF Recover, RecoverWith, IInv, PlaceInv, Exploring, call
<1>2. acted = Acts(steps) /\ steps \in Seq(Recordable) /\ steps # << >>
  BY <1>1 DEF IInv, PaceInv, Pace, PayInv, Shapes, StepLists
<1>3. Recovered \in Recordable /\ Recovered.kind \in Acting
  BY <1>2, RecoveredRecordable
<1> QED
  BY <1>1, <1>2, <1>3, OrderBoth

LEMMA OrderReplayStep ==
  ASSUME IInv, OrderInv, ReplayStep
  PROVE  OrderInv'
<1>1. /\ pc = "replay" /\ mode = "replay" /\ i \in 1..Len(prior) /\ prior[i] \in Recordable
      /\ acted = Acts(steps) /\ acted \in Nat /\ steps \in Seq(Recordable)
  <2>1. pc = "replay" /\ i <= Len(prior) /\ mode = "replay"
    BY DEF ReplayStep, IInv, PlaceInv
  <2>2. i \in 1..(Len(prior) + 1) /\ acted = Acts(steps) /\ prior \in Seq(Recordable)
    BY <2>1 DEF IInv, PaceInv, ReplayPace, Shapes, StepLists
  <2> QED
    BY <2>1, <2>2 DEF IInv, Shapes, Scalars, StepLists
<1> DEFINE s == prior[i]
<1>2. performed \in Seq(Acting) /\ acted <= Len(performed) /\ Ordered(steps, performed, acted)
  BY <1>1 DEF OrderInv
<1>3. ASSUME NEW r \in Recordable, r.kind \notin Acting, steps' = Append(steps, r),
             UNCHANGED <<mode, performed, acted>>
      PROVE  OrderInv'
  <2>1. Ordered(Append(steps, r), performed, acted)
    BY <1>1, <1>2, <1>3, OrderedRecord
  <2>2. Ordered(steps', performed', acted')
    BY <1>3, <2>1
  <2> QED
    BY <1>2, <1>3, <2>2 DEF OrderInv, Ordered
<1>4. CASE s.kind \in Ending /\ steps' = Append(steps, s) /\ UNCHANGED <<mode, history>>
  <2>1. s.kind \notin Acting /\ UNCHANGED <<mode, performed, acted>>
    BY <1>4 DEF Ending, Acting, history
  <2> QED
    BY <1>1, <1>3, <1>4, <2>1
<1>5. CASE steps' = Append(steps, Plain("refused")) /\ UNCHANGED <<call, history>>
  <2>1. /\ Plain("refused") \in Recordable /\ Plain("refused").kind \notin Acting
        /\ UNCHANGED <<mode, performed, acted>>
    BY <1>5, PlainRecordable DEF Ending, Acting, call, history
  <2> QED
    BY <1>3, <1>5, <2>1
<1>6. CASE Performable(s) /\ Touch(s.kind, s.pay) /\ steps' = Append(steps, s) /\ UNCHANGED call
  <2>1. s.kind \in Acting /\ mode' = mode /\ mode # "login"
    BY <1>1, <1>6 DEF Performable, call
  <2> QED
    BY <1>1, <1>6, <2>1, OrderBoth
<1>7. CASE Raised /\ UNCHANGED history
  <2>1. UNCHANGED <<performed, acted>>
    BY <1>7 DEF history
  <2> QED
    BY <1>1, <1>2, <1>7, <2>1, OrderRaised
<1> QED
  BY <1>4, <1>5, <1>6, <1>7 DEF ReplayStep

LEMMA OrderFail ==
  ASSUME IInv, OrderInv, Fail
  PROVE  OrderInv'
<1>1. Raised /\ acted \in Nat /\ performed \in Seq(Acting) /\ acted <= Len(performed)
      /\ (mode = "explore" => Ordered(steps, performed, acted)) /\ Len(performed) \in Nat
      /\ steps \in Seq(Recordable)
  BY DEF Fail, OrderInv, IInv, Shapes, Scalars, StepLists
<1>2. CASE UNCHANGED history
  <2>1. UNCHANGED <<performed, acted>>
    BY <1>2 DEF history
  <2> QED
    BY <1>1, <2>1, OrderRaised
<1>3. CASE pc = "launch" /\ acted' = 0 /\ performed' = performed
  <2>1. steps = << >>
    BY <1>3 DEF IInv, PlaceInv
  <2>2. Ordered(steps, performed', acted')
    BY <2>1 DEF Ordered
  <2> QED
    BY <1>1, <1>3, <2>2, OrderRaised
<1>4. CASE Performing /\ Touch(Doing, FALSE)
  <2>1. Doing \in Acting
    BY <1>4 DEF Doing, Performing, Performable, Acting
  <2>2. /\ performed' = Append(performed, Doing) /\ acted' = acted + 1
        /\ performed' \in Seq(Acting) /\ acted' <= Len(performed')
    BY <1>1, <1>4, <2>1, TouchAppends
  <2>3. ASSUME mode = "explore" PROVE Ordered(steps, performed', acted')
    <3>1. pc \in {"execute", "recover"} /\ steps # << >>
      BY <1>4, <2>3 DEF Performing, IInv, PlaceInv, PayInv, LoggingIn
    <3>2. CASE pc = "execute"
      <4>1. acted + 1 = Acts(steps) /\ Doing = Last(steps).kind
        BY <2>3, <3>2 DEF IInv, PaceInv, Pace, Doing
      <4>2. Ordered(steps, Append(performed, Last(steps).kind), acted + 1)
        BY <1>1, <2>1, <2>3, <3>1, <4>1, OrderedPerform
      <4> QED
        BY <2>2, <4>1, <4>2
    <3>3. CASE pc = "recover"
      <4>1. acted = Acts(steps)
        BY <2>3, <3>3 DEF IInv, PaceInv, Pace
      <4>2. Acts(steps) <= acted
        BY <1>1, <4>1
      <4>3. Ordered(steps, Append(performed, Doing), acted + 1)
        BY <1>1, <2>1, <2>3, <4>2, OrderedBeyond
      <4> QED
        BY <2>2, <4>3
    <3> QED
      BY <3>1, <3>2, <3>3
  <2>4. acted' \in Nat
    BY <1>1, <2>2
  <2> QED
    BY <1>1, <2>2, <2>3, <2>4, OrderRaised
<1> QED
  BY <1>2, <1>3, <1>4 DEF Fail

\* What a login does and records is not replayed.
LEMMA OrderLogin ==
  ASSUME IInv, OrderInv, FillDirect \/ AskForField \/ FillLocated \/ AskToSubmit \/ Submit
                           \/ Pressed \/ Confirm
  PROVE  OrderInv'
<1>1. mode = "login" /\ mode' = mode
  BY DEF IInv, PlaceInv, LoggingIn, FillDirect, AskForField, FillLocated, AskToSubmit, Submit,
    Pressed, Confirm, Stops, Presses, call
<1>2. UNCHANGED <<performed, acted>> \/ \E k \in Acting, b \in BOOLEAN : Touch(k, b)
  <2>1. CASE FillDirect \/ AskForField
    BY <2>1 DEF FillDirect, AskForField, history, Acting
  <2>2. CASE FillLocated
    <3>1. PICK d \in Decision : Stops(d) \/ Presses(d)
      BY <2>2 DEF FillLocated
    <3>2. d.pay \in BOOLEAN
      BY DEF Decision, ActionStep
    <3> QED
      BY <3>1, <3>2 DEF Stops, Presses, history, Acting
  <2>3. CASE Submit
    <3>1. PICK d \in Decision : Stops(d) \/ Presses(d)
      BY <2>3 DEF Submit
    <3>2. d.pay \in BOOLEAN
      BY DEF Decision, ActionStep
    <3> QED
      BY <3>1, <3>2 DEF Stops, Presses, history, Acting
  <2>4. CASE Pressed
    <3>1. /\ steps \in Seq(Recordable) /\ steps # << >>
      BY <2>4 DEF Pressed, IInv, PayInv, Shapes, StepLists
    <3>2. Recovered.kind \in Acting /\ Last(steps).pay \in BOOLEAN
      BY <3>1, RecoveredRecordable, RecordableFields
    <3> QED
      BY <2>4, <3>2 DEF Pressed, history
  <2>5. CASE AskToSubmit \/ Confirm
    BY <2>5 DEF AskToSubmit, Confirm, history
  <2> QED
    BY <2>1, <2>2, <2>3, <2>4, <2>5
<1>3. acted \in Nat /\ performed \in Seq(Acting) /\ acted <= Len(performed)
  BY DEF IInv, Shapes, Scalars, OrderInv
<1>4. CASE UNCHANGED <<performed, acted>>
  BY <1>1, <1>3, <1>4, OrderFresh
<1>5. CASE \E k \in Acting, b \in BOOLEAN : Touch(k, b)
  <2>1. performed' \in Seq(Acting) /\ acted' <= Len(performed')
    BY <1>3, <1>5, TouchAppends
  <2> QED
    BY <1>1, <2>1, OrderFresh
<1> QED
  BY <1>2, <1>4, <1>5

\* Whatever was performed is recorded in its place.
THEOREM OrderHolds == Spec => []OrderInv
<1>1. Init => OrderInv
  <2> SUFFICES ASSUME Init PROVE OrderInv
    OBVIOUS
  <2>1. performed = << >> /\ acted = 0 /\ steps = << >>
    BY DEF Init
  <2> QED
    BY <2>1 DEF OrderInv, Ordered
<1>2. IInv /\ OrderInv /\ [Next]_vars => OrderInv'
  <2> SUFFICES ASSUME IInv, OrderInv, [Next]_vars PROVE OrderInv'
    OBVIOUS
  <2>0. acted \in Nat /\ performed \in Seq(Acting) /\ acted <= Len(performed)
        /\ Len(performed) \in Nat
    BY DEF IInv, Shapes, Scalars, OrderInv
  <2>1. CASE Explore \/ Login \/ Replay
    <3>1. steps = << >> /\ UNCHANGED <<steps, performed, acted>>
      BY <2>1 DEF Explore, Login, Replay, Begin, history, IInv, PlaceInv
    <3> QED
      BY <2>0, <3>1, OrderFresh
  <2>2. CASE Launch
    <3>1. steps' = << >> /\ performed' = performed /\ acted' = 0
      BY <2>2 DEF Launch, IInv, PlaceInv
    <3> QED
      BY <2>0, <3>1, OrderFresh
  <2>3. CASE Exhausted \/ Observe \/ Hint \/ Replayed \/ Close \/ UNCHANGED vars
    <3>1. UNCHANGED <<steps, performed, acted, mode>>
      BY <2>3 DEF Exhausted, ExhaustedWith, Observe, Hint, Replayed, Close, vars, call, history
    <3> QED
      BY <3>1, OrderSame
  <2>4. CASE CannotExecute
    <3>1. Raised /\ UNCHANGED <<performed, acted>>
      BY <2>4 DEF CannotExecute, history
    <3>2. mode = "explore" => Ordered(steps, performed', acted')
      BY <3>1 DEF OrderInv
    <3> QED
      BY <2>0, <3>1, <3>2, OrderRaised
  <2>5. CASE Return
    <3>1. steps' = << >> /\ performed' = << >> /\ acted' = 0
      BY <2>5 DEF Return
    <3> QED
      BY <3>1, OrderFresh
  <2> QED
    BY <2>1, <2>2, <2>3, <2>4, <2>5, OrderDecide, OrderExecute, OrderRecover, OrderReplayStep,
      OrderFail, OrderLogin DEF Next, Step
<1> QED
  BY <1>1, <1>2, InvariantHolds, PTL DEF Spec

\* What a login has typed is within the fields it was given.
LEMMA CredsWanted ==
  ASSUME IInv
  PROVE  /\ Len(Wanted) \in 0..2
         /\ \A f \in creds : \E m \in 1..Len(Wanted) : Wanted[m] = f
<1>1. creds \in SUBSET {"email", "password"}
  BY CredentialsAssumption DEF IInv, Shapes, Scalars
<1> QED
  BY <1>1, WantedShape

\* Every variable of a handler thread keeps its type, the counter of each function
\* (action_executor.py's loops) stays within the function's range, and no field is
\* typed a third time.
THEOREM TypeCorrect == Spec => []TypeOK
<1>1. IInv /\ OrderInv => TypeOK
  <2> SUFFICES ASSUME IInv, OrderInv PROVE TypeOK
    OBVIOUS
  <2>0. Scalars /\ PaceInv /\ PlaceInv
    BY DEF IInv, Shapes
  <2>1. Len(Wanted) \in Nat /\ Len(prior) \in Nat /\ MaxSteps \in Nat \ {0}
    BY CredsWanted, MaxStepsAssumption DEF IInv, Shapes, StepLists
  <2>2. pc \notin {"launch", "return"} =>
          i <= 1 + CASE mode = "explore" -> MaxSteps
                     [] mode = "login" -> Len(Wanted)
                     [] mode = "replay" -> Len(prior)
    <3> SUFFICES ASSUME pc \notin {"launch", "return"}
                 PROVE  i <= 1 + CASE mode = "explore" -> MaxSteps
                                   [] mode = "login" -> Len(Wanted)
                                   [] mode = "replay" -> Len(prior)
      OBVIOUS
    <3>1. ASSUME mode = "explore" PROVE i <= 1 + MaxSteps
      BY <2>0, <2>1, <3>1 DEF Scalars, PlaceInv, PaceInv, Pace, Exploring, LoggingIn, Ends
    <3>2. ASSUME mode = "login" PROVE i <= 1 + Len(Wanted)
      BY <2>0, <2>1, <3>2 DEF Scalars, PlaceInv, PaceInv, LoginPace, Exploring, LoggingIn, Ends
    <3>3. ASSUME mode = "replay" PROVE i <= 1 + Len(prior)
      BY <2>0, <2>1, <3>3 DEF Scalars, PlaceInv, PaceInv, ReplayPace, Exploring, LoggingIn, Ends
    <3>4. mode \in {"explore", "login", "replay"}
      BY <2>0 DEF Scalars
    <3> QED
      BY <3>1, <3>2, <3>3, <3>4
  <2>3. \A ss \in {prior, steps, memory} : \A n \in DOMAIN ss : ss[n] \in ActionStep
    <3>1. ASSUME NEW ss \in Seq(Recordable), NEW n \in DOMAIN ss PROVE ss[n] \in ActionStep
      <4>1. ss[n] \in Recordable
        OBVIOUS
      <4> QED
        BY <4>1, RecordableFields
    <3> QED
      BY <3>1 DEF IInv, Shapes, StepLists
  <2>4. <<success, refused, extracted, hint, paid>>
          \in BOOLEAN \X BOOLEAN \X BOOLEAN \X BOOLEAN \X BOOLEAN
    BY <2>0 DEF Scalars
  <2>5. /\ pc \in {"idle", "launch", "decide", "execute", "observe", "recover", "field",
                   "locate", "submit", "pressed", "confirm", "replay", "close", "return"}
        /\ typed \in [{"email", "password"} -> 0..2]
    BY DEF IInv, Shapes, Scalars, TypedShape, Exploring, LoggingIn, Ends
  <2> QED
    BY <2>0, <2>2, <2>3, <2>4, <2>5 DEF TypeOK, Scalars, OrderInv
<1> QED
  BY <1>1, InvariantHolds, OrderHolds, PTL

\* No click and no typing that looks like a payment (_looks_like_payment_action,
\* action_executor.py:13-18) is performed, by a loop, a recovery, a login or a
\* replay of any steps ever stored.
THEOREM PaymentsAreRefused == Spec => []NothingPaidFor
<1>1. IInv => NothingPaidFor
  BY DEF IInv, PayInv, NothingPaidFor
<1> QED
  BY <1>1, InvariantHolds, PTL

\* An ActionWorkflow that says success was seen done, replayed to its end, or is
\* a login that typed every credential and pressed the button.
THEOREM ReportsAreHonest == Spec => []OutcomeIsHonest
<1>1. IInv => OutcomeIsHonest
  <2> SUFFICES ASSUME IInv, pc = "return" PROVE OutcomeIsHonest
    BY DEF OutcomeIsHonest
  <2>1. Honest /\ mode \in {"explore", "login", "replay"} /\ acted \in Nat
    BY DEF IInv, PlaceInv, Shapes, Scalars
  <2>2. ASSUME success, mode = "explore"
        PROVE  \E n \in DOMAIN steps : /\ steps[n].kind = "done"
                                       /\ \A m \in n..Len(steps) : steps[m].kind \in Ending
    <3>1. SawDone /\ DOMAIN steps = 1..Len(steps)
      BY <2>2 DEF IInv, Shapes, StepLists, PaceInv, Pace, Ends
    <3> QED
      BY <3>1 DEF SawDone, DoneAt
  <2>3. ASSUME success, mode = "login"
        PROVE  (\A f \in creds : typed[f] > 0) /\ acted > Len(Wanted)
    <3>1. TypedTo(Len(Wanted)) /\ Len(Wanted) + 1 <= acted
      BY <2>3 DEF IInv, PaceInv, LoginPace, Ends
    <3>2. ASSUME NEW f \in creds PROVE typed[f] > 0
      <4>1. PICK m \in 1..Len(Wanted) : Wanted[m] = f
        BY CredsWanted
      <4>2. m <= Len(Wanted)
        BY CredsWanted
      <4> QED
        BY <3>1, <4>1, <4>2 DEF TypedTo
    <3> QED
      BY <2>1, <3>1, <3>2, CredsWanted
  <2>4. ASSUME success, mode = "replay" PROVE acted = Acts(prior)
    BY <2>4 DEF IInv, PaceInv, ReplayPace, Ends
  <2> QED
    BY <2>1, <2>2, <2>3, <2>4 DEF OutcomeIsHonest, Honest
<1> QED
  BY <1>1, InvariantHolds, PTL

\* If no earlier version stored a password, no step shows one: not those shown to
\* the model, nor those stored, nor those replayed (action_executor.py:467-480).
THEOREM PasswordsStayOut ==
  ASSUME LegacyIsClean
  PROVE  Spec => []SecretStaysOut
<1>1. IInv => SecretStaysOut
  <2> SUFFICES ASSUME IInv, NEW ss \in {prior, steps, memory}, NEW n \in DOMAIN ss
               PROVE  ss[n].text # "password"
    BY DEF SecretStaysOut
  <2>1. ss \in Seq(Recordable)
    BY DEF IInv, Shapes, StepLists
  <2>2. ss[n] \in Recordable
    BY <2>1
  <2> QED
    BY <2>2 DEF Recordable
<1> QED
  BY <1>1, InvariantHolds, PTL

\* A loop of n steps acts at most n + n/2 times, recoveries included; a login at
\* most twice per field and for its button; a replay once per step.
THEOREM EffortHasABound == Spec => []EffortIsBounded
<1>1. IInv => EffortIsBounded
  <2> SUFFICES ASSUME IInv, pc # "launch" PROVE EffortIsBounded
    BY DEF EffortIsBounded
  <2>1. /\ MaxSteps \in Nat \ {0} /\ acted \in Nat /\ i \in Nat /\ Len(Wanted) \in 0..2
        /\ Len(prior) \in Nat /\ mode \in {"explore", "login", "replay"}
    BY CredsWanted, MaxStepsAssumption DEF IInv, Shapes, Scalars, StepLists
  <2>2. ASSUME mode = "explore" PROVE acted <= MaxSteps + MaxSteps \div 2
    <3>1. 2 * acted <= 3 * MaxSteps
      <4>1. CASE pc \in Exploring
        <5>1. Pace /\ Stalled \in 0..2
          BY <4>1, ExploreFacts
        <5> QED
          BY <2>1, <4>1, <5>1 DEF Pace, Exploring
      <4>2. CASE pc \in Ends
        BY <2>2, <4>2 DEF IInv, PaceInv, Pace
      <4>3. CASE pc = "idle"
        BY <2>1, <4>3 DEF IInv, PlaceInv
      <4> QED
        BY <2>2, <4>1, <4>2, <4>3 DEF IInv, PlaceInv, Shapes, Scalars
    <3>2. 2 * (MaxSteps \div 2) + 1 >= MaxSteps /\ MaxSteps \div 2 \in Nat
      BY <2>1
    <3> QED
      BY <2>1, <3>1, <3>2
  <2>3. ASSUME mode = "login" PROVE acted <= 2 * Len(Wanted) + 2
    BY <2>1, <2>3 DEF IInv, PaceInv, LoginPace, PlaceInv, Shapes, Scalars, Exploring, LoggingIn,
      Ends
  <2>4. ASSUME mode = "replay" PROVE acted <= Len(prior)
    <3>1. CASE pc = "replay"
      BY <2>1, <3>1, ReplayFacts
    <3>2. CASE pc \in Ends
      BY <2>4, <3>2 DEF IInv, PaceInv, ReplayPace
    <3> QED
      BY <2>4, <3>1, <3>2 DEF IInv, PlaceInv, Shapes, Scalars, Exploring, LoggingIn
  <2> QED
    BY <2>1, <2>2, <2>3, <2>4 DEF EffortIsBounded
<1> QED
  BY <1>1, InvariantHolds, PTL

\* What a success leaves to be replayed says, action by action, what was performed
\* in the browser session that succeeded, recoveries included, in that order.
THEOREM StoredStepsAreAll == Spec => []WhatWasDoneIsKept
<1>1. IInv /\ OrderInv => WhatWasDoneIsKept
  <2> SUFFICES ASSUME IInv, OrderInv, pc = "return", success, mode # "login" PROVE TailIsSteps
    BY DEF WhatWasDoneIsKept
  <2>1. acted = Acts(steps) /\ acted \in Nat /\ steps \in Seq(Recordable)
    BY DEF IInv, Shapes, Scalars, StepLists, PaceInv, Pace, ReplayPace, Ends
  <2>2. ASSUME NEW n \in DOMAIN steps, steps[n].kind \in Acting
        PROVE  performed[Len(performed) - acted + ActsTo(steps, n)] = steps[n].kind
    <3>1. n \in 1..Len(steps)
      BY <2>1
    <3>2. ActsTo(steps, n) <= acted
      BY <2>1, <3>1, ActsToPlace
    <3> QED
      BY <2>2, <3>1, <3>2 DEF OrderInv, Ordered
  <2> QED
    BY <2>1, <2>2 DEF TailIsSteps
<1> QED
  BY <1>1, InvariantHolds, OrderHolds, PTL
=============================================================================
