-------------------------- MODULE PageFetch_proofs --------------------------
(***************************************************************************)
(* Proofs about PageFetch: its types, that robots.txt is read once, that   *)
(* the human is asked once, and that the rate limiter keeps its rate, for  *)
(* any number of handler calls, pages and domains and any gap.             *)
(*                                                                         *)
(* RobotsOnce needs to know why a thread that holds a domain's lock may    *)
(* fetch: nobody has fetched before (Reading); and a call that starts over *)
(* must leave no thread of its own behind (Quiet).                         *)
(*                                                                         *)
(* RateKept only counts requests that were made.  It is kept because, at   *)
(* any time, the threads whose turn comes within t ticks can all make      *)
(* theirs and the credit still suffices t ticks from now (Turns), and      *)
(* because the next turn is far enough away for all that wait and one more *)
(* (Turns, second part), which is what throttle reserves.                  *)
(***************************************************************************)
EXTENDS PageFetch, FiniteSetTheorems, TLAPS

\* While a lock is held its holder's is the only request there has been; while
\* it is free there has been one exactly if the answer is in the cache.
Reading ==
  \A d \in Domains :
    /\ domainLock[d] # Nobody => cache[d] = "unknown" /\ reads[d] = 1
    /\ domainLock[d] = Nobody /\ cache[d] = "unknown" => reads[d] = 0
    /\ reads[d] <= 1

\* A call that is not fetching has no thread in progress.
Quiet ==
  \A w \in Workers : stage[w[1]] # "fetch" => pc[w] \in {"idle", "done"}

IInv == TypeOK /\ RobotsOnce /\ Reading /\ Quiet

\* What a worker is.
LEMMA WorkerFacts ==
  ASSUME NEW w \in Workers
  PROVE  w # Nobody /\ w[1] \in Calls /\ Domain[w] \in Domains
<1>1. PICK c \in Calls : w \in {c} \X Results[c]
  BY DEF Workers
<1>2. w[1] = c
  BY <1>1
<1>3. Nobody[1] = "nobody"
  BY DEF Nobody
<1>. QED
  BY <1>2, <1>3, ResultsAssumption DEF Domains

LEMMA InitInv == Init => IInv
<1>. SUFFICES ASSUME Init PROVE IInv
  OBVIOUS
<1>1. TypeOK
  BY WorkerFacts, BoundsAssumption DEF Init, TypeOK, At
<1>. QED
  BY <1>1, WorkerFacts DEF Init, IInv, RobotsOnce, Reading, Quiet

-----------------------------------------------------------------------------
(* The handler call.                                                       *)

LEMMA SubmitOk ==
  ASSUME IInv, NEW c \in Calls, stage[c] # "fetch", Submit(c), answered' \in [Calls -> BOOLEAN]
  PROVE  IInv'
<1>. USE DEF IInv, At
<1>1. \A w \in Workers : pc'[w] = "read" <=> pc[w] = "read"
  BY DEF Submit, Quiet, TypeOK
<1>2. \A w \in Workers : pc'[w] = "reserve" <=> pc[w] = "reserve"
  BY DEF Submit, Quiet, TypeOK
<1>3. TypeOK'
  BY <1>1, <1>2, ZenonT(60) DEF Submit, TypeOK, robots, turns
<1>4. RobotsOnce' /\ Reading'
  BY DEF Submit, RobotsOnce, Reading, TypeOK, robots
<1>5. Quiet'
  BY WorkerFacts DEF Submit, Quiet, TypeOK
<1>. QED
  BY <1>3, <1>4, <1>5

LEMMA HandlerOk ==
  ASSUME IInv, NEW c \in Calls,
         FetchPages(c) \/ ResumePages(c) \/ PauseForGate(c) \/ PassGate(c) \/ KeepPages(c)
  PROVE  IInv'
<1>. USE DEF IInv, At
<1>1. CASE FetchPages(c)
  BY <1>1, SubmitOk DEF FetchPages, TypeOK
<1>2. CASE ResumePages(c)
  BY <1>2, SubmitOk DEF ResumePages, TypeOK
<1>3. CASE PauseForGate(c) \/ PassGate(c) \/ KeepPages(c)
  <2>1. /\ UNCHANGED <<robots, turns, pc, wait, via, answered>>
        /\ stage' \in [Calls -> {"new", "fetch", "paused", "done"}]
        /\ prompts' \in [Calls -> Nat]
        /\ found' \in [Workers -> {"none", "text", "gate", "error"}]
    BY <1>3 DEF PauseForGate, PauseAgain, PassGate, KeepPages, pages, TypeOK
  <2>2. \A d \in Calls : d # c => stage'[d] = stage[d]
    BY <1>3 DEF PauseForGate, PauseAgain, PassGate, KeepPages, TypeOK
  <2>3. \A w \in Workers : w[1] = c => pc[w] = "done"
    BY <1>3 DEF PauseForGate, PauseAgain, PassGate, KeepPages, AllFetched, Pages
  <2>4. TypeOK'
    BY <2>1 DEF TypeOK, robots, turns
  <2>5. RobotsOnce' /\ Reading'
    BY <2>1 DEF RobotsOnce, Reading, robots
  <2>6. Quiet'
    BY <2>1, <2>2, <2>3, WorkerFacts DEF Quiet
  <2>. QED
    BY <2>4, <2>5, <2>6
<1>. QED
  BY <1>1, <1>2, <1>3

-----------------------------------------------------------------------------
(* A page's thread.                                                        *)

\* A thread that does not touch the locks keeps the invariant if it stays away
\* from the places they guard, and from the requests until the cache is filled.
LEMMA ThreadOk ==
  ASSUME IInv, NEW w \in Workers,
         NEW p \in {"lock", "turn", "sleep", "done"}, Goto(w, p),
         pc[w] \notin {"read", "reserve", "idle", "done"},
         p \in {"turn", "sleep"} => cache[Domain[w]] # "unknown",
         found' \in [Workers -> {"none", "text", "gate", "error"}],
         via' \in [Workers -> {"http", "browser"}],
         credit' \in [Domains -> Int],
         UNCHANGED <<robots, slotLock, due, wait, handler>>
  PROVE  IInv'
<1>. USE DEF IInv, At, Goto
<1>0. pc' = [pc EXCEPT ![w] = p]
  OBVIOUS
<1>1. TypeOK'
  <2>1. /\ UNCHANGED <<cache, domainLock, reads, slotLock, due, wait, stage, answered, prompts>>
    BY DEF robots, handler
  <2>2. pc' \in [Workers -> {"idle", "queued", "lock", "read", "turn", "reserve", "sleep",
                            "done"}]
    BY <1>0 DEF TypeOK
  <2>3. \A v \in Workers : /\ pc'[v] = "read" <=> pc[v] = "read"
                           /\ pc'[v] = "reserve" <=> pc[v] = "reserve"
    BY <1>0 DEF TypeOK
  <2>. QED
    BY <2>1, <2>2, <2>3 DEF TypeOK
<1>2. RobotsOnce' /\ Reading'
  BY DEF TypeOK, RobotsOnce, Reading, robots
<1>3. Quiet'
  BY DEF TypeOK, Quiet, handler
<1>. QED
  BY <1>1, <1>2, <1>3

LEMMA StartPageOk == ASSUME IInv, NEW w \in Workers, StartPage(w) PROVE IInv'
<1>. USE DEF IInv, At
<1>1. PICK p \in {"lock", "turn", "done"} :
        /\ Goto(w, p)
        /\ p = "turn" => cache[Domain[w]] # "unknown"
        /\ found' \in [Workers -> {"none", "text", "gate", "error"}]
  BY DEF StartPage, Judge, Return, TypeOK
<1>. QED
  BY <1>1, ThreadOk DEF StartPage, TypeOK, turns

LEMMA LockDomainOk == ASSUME IInv, NEW w \in Workers, LockDomain(w) PROVE IInv'
<1>. USE DEF IInv, At
<1>1. CASE cache[Domain[w]] # "unknown"
  <2>1. PICK p \in {"turn", "done"} :
          /\ Goto(w, p)
          /\ found' \in [Workers -> {"none", "text", "gate", "error"}]
    BY <1>1 DEF LockDomain, LockWith, Judge, Return, TypeOK
  <2>. QED
    BY <1>1, <2>1, ThreadOk DEF LockDomain, LockWith, TypeOK, turns, robots
<1>2. CASE cache[Domain[w]] = "unknown"
  <2>1. /\ pc[w] = "lock" /\ domainLock[Domain[w]] = Nobody
        /\ pc' = [pc EXCEPT ![w] = "read"]
        /\ domainLock' = [domainLock EXCEPT ![Domain[w]] = w]
        /\ reads' = [reads EXCEPT ![Domain[w]] = @ + 1]
        /\ UNCHANGED <<found, cache, wait, via, turns, handler>>
    BY <1>2 DEF LockDomain, LockWith, Goto
  <2>2. TypeOK'
    BY <2>1, WorkerFacts DEF TypeOK, turns, handler
  <2>3. RobotsOnce' /\ Reading'
    BY <1>2, <2>1, WorkerFacts DEF TypeOK, RobotsOnce, Reading
  <2>4. Quiet'
    BY <2>1 DEF TypeOK, Quiet, handler
  <2>. QED
    BY <2>2, <2>3, <2>4
<1>. QED
  BY <1>1, <1>2

LEMMA ReadRobotsOk == ASSUME IInv, NEW w \in Workers, ReadRobots(w) PROVE IInv'
<1>. USE DEF IInv, At
<1>1. PICK rules \in {"rules", "all"}, p \in {"turn", "done"} :
        /\ pc[w] = "read"
        /\ cache' = [cache EXCEPT ![Domain[w]] = rules]
        /\ domainLock' = [domainLock EXCEPT ![Domain[w]] = Nobody]
        /\ pc' = [pc EXCEPT ![w] = p]
        /\ found' \in [Workers -> {"none", "text", "gate", "error"}]
        /\ UNCHANGED <<reads, wait, via, turns, handler>>
  <2>1. PICK rules \in {"rules", "all"} :
          /\ cache' = [cache EXCEPT ![Domain[w]] = rules]
          /\ domainLock' = [domainLock EXCEPT ![Domain[w]] = Nobody]
          /\ Judge(w, rules)
    BY DEF ReadRobots, ReadWith
  <2>2. PICK p \in {"turn", "done"} :
          /\ pc' = [pc EXCEPT ![w] = p]
          /\ found' \in [Workers -> {"none", "text", "gate", "error"}]
    BY <2>1 DEF Judge, Return, Goto, TypeOK
  <2>. QED
    BY <2>1, <2>2 DEF ReadRobots, ReadWith
<1>2. domainLock[Domain[w]] = w /\ domainLock[Domain[w]] # Nobody
  BY <1>1, WorkerFacts DEF TypeOK
<1>3. TypeOK'
  BY <1>1, <1>2, WorkerFacts DEF TypeOK, turns, handler
<1>4. RobotsOnce' /\ Reading'
  BY <1>1, <1>2, WorkerFacts DEF TypeOK, RobotsOnce, Reading
<1>5. Quiet'
  BY <1>1 DEF TypeOK, Quiet, handler
<1>. QED
  BY <1>3, <1>4, <1>5

LEMMA EnterThrottleOk == ASSUME IInv, NEW w \in Workers, EnterThrottle(w) PROVE IInv'
<1>. USE DEF IInv, At
<1>1. /\ slotLock = Nobody /\ slotLock' = w
      /\ pc[w] = "turn" /\ pc' = [pc EXCEPT ![w] = "reserve"]
      /\ wait' \in [Workers -> Nat]
      /\ UNCHANGED <<due, credit, via, found, robots, handler>>
  BY WorkerFacts DEF EnterThrottle, EnterUnlocked, Goto, TypeOK
<1>2. \A v \in Workers : pc[v] # "reserve"
  BY <1>1, WorkerFacts DEF TypeOK
<1>3. TypeOK'
  BY <1>1, <1>2, WorkerFacts DEF TypeOK, robots, handler
<1>4. RobotsOnce' /\ Reading' /\ Quiet'
  BY <1>1 DEF TypeOK, RobotsOnce, Reading, Quiet, robots, handler
<1>. QED
  BY <1>3, <1>4

LEMMA ReserveTurnOk == ASSUME IInv, NEW w \in Workers, ReserveTurn(w) PROVE IInv'
<1>. USE DEF IInv, At
<1>1. /\ slotLock = w /\ slotLock' = Nobody
      /\ pc[w] = "reserve" /\ pc' = [pc EXCEPT ![w] = "sleep"]
      /\ due' \in [Domains -> Nat]
      /\ UNCHANGED <<credit, wait, via, found, robots, handler>>
  BY WorkerFacts, BoundsAssumption DEF ReserveTurn, Goto, TypeOK
<1>2. \A v \in Workers : pc'[v] # "reserve" /\ v # Nobody
  BY <1>1, WorkerFacts DEF TypeOK
<1>3. TypeOK'
  BY <1>1, <1>2 DEF TypeOK, robots, handler
<1>4. RobotsOnce' /\ Reading' /\ Quiet'
  BY <1>1 DEF TypeOK, RobotsOnce, Reading, Quiet, robots, handler
<1>. QED
  BY <1>3, <1>4

LEMMA FetchOk ==
  ASSUME IInv, NEW w \in Workers, FetchFast(w) \/ FetchWithPlaywright(w)
  PROVE  IInv'
<1>. USE DEF IInv, At
<1>1. PICK p \in {"turn", "done"} :
        /\ pc[w] = "sleep" /\ Goto(w, p)
        /\ found' \in [Workers -> {"none", "text", "gate", "error"}]
        /\ via' \in [Workers -> {"http", "browser"}]
        /\ UNCHANGED <<slotLock, due, wait, robots, handler>>
  BY DEF FetchFast, FetchWithPlaywright, Return, TypeOK
<1>2. credit' \in [Domains -> Int]
  BY BoundsAssumption DEF FetchFast, FetchWithPlaywright, Request, TypeOK
<1>3. cache[Domain[w]] # "unknown"
  BY <1>1 DEF RobotsOnce
<1>. QED
  BY <1>1, <1>2, <1>3, ThreadOk

LEMMA TickOk == ASSUME IInv, Tick PROVE IInv'
<1>. USE DEF IInv, At
<1>1. /\ due' \in [Domains -> Nat] /\ wait' \in [Workers -> Nat]
      /\ credit' \in [Domains -> Int]
  BY DEF Tick, TypeOK
<1>2. TypeOK'
  BY <1>1 DEF Tick, TypeOK, robots, handler
<1>3. RobotsOnce' /\ Reading' /\ Quiet'
  BY DEF Tick, RobotsOnce, Reading, Quiet, robots, handler
<1>. QED
  BY <1>2, <1>3

-----------------------------------------------------------------------------
LEMMA NextInv == IInv /\ [Next]_vars => IInv'
<1>. SUFFICES ASSUME IInv, [Next]_vars PROVE IInv'
  OBVIOUS
<1>1. CASE UNCHANGED vars
  BY <1>1 DEF IInv, TypeOK, RobotsOnce, Reading, Quiet, At,
              vars, robots, turns, pages, handler
<1>2. ASSUME NEW c \in Calls, FetchPages(c) \/ ResumePages(c) \/ Conclude(c)
      PROVE  IInv'
  BY <1>2, HandlerOk DEF Conclude
<1>3. ASSUME NEW w \in Workers, PageStep(w) PROVE IInv'
  BY <1>3, StartPageOk, LockDomainOk, ReadRobotsOk, EnterThrottleOk, ReserveTurnOk, FetchOk
     DEF PageStep
<1>4. CASE Tick
  BY <1>4, TickOk
<1>. QED
  BY <1>1, <1>2, <1>3, <1>4 DEF Next

LEMMA Invariant == Spec => []IInv
  BY InitInv, NextInv, PTL DEF Spec

\* Locks, turns, results and calls keep their types, and a lock's holder is in
\* the section the lock is for.
THEOREM FetchTypeCorrect == Spec => []TypeOK
<1>1. IInv => TypeOK
  BY DEF IInv
<1>. QED
  BY <1>1, Invariant, PTL

\* robots.txt is requested once per domain, and before any page of the domain,
\* however many calls and threads meet the domain at the same time.
THEOREM RobotsReadOnce == Spec => []RobotsOnce
<1>1. IInv => RobotsOnce
  BY DEF IInv
<1>. QED
  BY <1>1, Invariant, PTL

-----------------------------------------------------------------------------
(* The human.                                                              *)

\* Who has not answered yet has not been asked, unless the call is paused.
Unasked ==
  \A c \in Calls :
    /\ prompts[c] <= 1
    /\ ~answered[c] /\ stage[c] \in {"new", "fetch"} => prompts[c] = 0

LEMMA UnaskedStep == ASSUME TypeOK, Unasked, [Next]_vars PROVE Unasked'
<1>. USE DEF Unasked, TypeOK
<1>1. ASSUME NEW c \in Calls, FetchPages(c) \/ ResumePages(c) PROVE Unasked'
  BY <1>1 DEF FetchPages, ResumePages, Submit
<1>2. ASSUME NEW c \in Calls, PauseForGate(c) PROVE Unasked'
  BY <1>2 DEF PauseForGate, PauseAgain, AllFetched
<1>3. ASSUME NEW c \in Calls, PassGate(c) \/ KeepPages(c) PROVE Unasked'
  BY <1>3 DEF PassGate, KeepPages
<1>4. CASE UNCHANGED handler
  BY <1>4 DEF handler
<1>. QED
  BY <1>1, <1>2, <1>3, <1>4 DEF Next, Conclude, PageStep, StartPage, LockDomain, LockWith,
     ReadRobots, ReadWith, EnterThrottle, EnterUnlocked, ReserveTurn, FetchFast,
     FetchWithPlaywright, Tick, vars

\* Whatever the sites answer, the first time or after the human has, a call asks
\* its human once at most.
THEOREM HumanIsAskedOnce == Spec => []AskedOnce
<1>1. Init => Unasked
  BY DEF Init, Unasked
<1>2. Unasked => AskedOnce
  BY DEF Unasked, AskedOnce
<1>. QED
  BY <1>1, <1>2, UnaskedStep, FetchTypeCorrect, PTL DEF Spec

-----------------------------------------------------------------------------
(* The rate.                                                               *)

Waiting(d) == {w \in Workers : pc[w] = "sleep" /\ Domain[w] = d}
Soon(d, t) == {w \in Workers : pc[w] = "sleep" /\ Domain[w] = d /\ wait[w] <= t}

Turns ==
  \A d \in Domains :
    /\ \A t \in Nat : Gap * Cardinality(Soon(d, t)) <= credit[d] + t
    /\ Gap * (Cardinality(Waiting(d)) + 1) <= credit[d] + due[d]

\* Nobody else reserves between a thread's reading and its writing of due.
Reserving == \A w \in Workers : pc[w] = "reserve" => wait[w] = due[Domain[w]]

RateInv == IInv /\ Turns /\ Reserving

\* The sets of threads that are counted are finite.
LEMMA CountFacts ==
  ASSUME NEW S \in SUBSET Workers
  PROVE  IsFiniteSet(S) /\ Cardinality(S) \in Nat /\ Cardinality(S) <= Cardinality(Workers)
BY ResultsAssumption, FS_Subset, FS_CardinalityType

LEMMA GapTimes ==
  ASSUME NEW m \in Nat, NEW n \in Nat, m <= n
  PROVE  Gap * m <= Gap * n /\ Gap * (m + 1) = Gap * m + Gap /\ Gap * m \in Nat
BY BoundsAssumption

\* A step that changes no sleeper, and no turn, changes no count.
LEMMA FrameRate ==
  ASSUME Turns, UNCHANGED <<due, credit>>,
         \A w \in Workers : pc'[w] = "sleep" <=> pc[w] = "sleep",
         \A w \in Workers : pc[w] = "sleep" => wait'[w] = wait[w]
  PROVE  Turns'
<1>1. ASSUME NEW d \in Domains
      PROVE  Waiting(d)' = Waiting(d) /\ \A t \in Nat : Soon(d, t)' = Soon(d, t)
  BY DEF Waiting, Soon
<1>. QED
  BY <1>1 DEF Turns

LEMMA InitRate == Init => RateInv
<1>. SUFFICES ASSUME Init PROVE Turns /\ Reserving
  BY InitInv DEF RateInv
<1>1. ASSUME NEW d \in Domains
      PROVE  Waiting(d) = {} /\ \A t \in Nat : Soon(d, t) = {}
  BY DEF Init, Waiting, Soon
<1>2. Cardinality({}) = 0
  BY FS_EmptySet
<1>3. \A d \in Domains : credit[d] = Gap /\ due[d] = 0
  BY DEF Init
<1>4. Gap * 0 = 0 /\ Gap * (0 + 1) = Gap /\ \A t \in Nat : 0 <= Gap + t
  BY BoundsAssumption
<1>5. Turns
  <2>1. ASSUME NEW d \in Domains, NEW t \in Nat
        PROVE  Gap * Cardinality(Soon(d, t)) <= credit[d] + t
    BY <1>1, <1>2, <1>3, <1>4
  <2>2. ASSUME NEW d \in Domains
        PROVE  Gap * (Cardinality(Waiting(d)) + 1) <= credit[d] + due[d]
    BY <1>1, <1>2, <1>3, <1>4, BoundsAssumption, SMTT(30)
  <2>. QED
    BY <2>1, <2>2 DEF Turns
<1>. QED
  BY <1>5 DEF Init, Reserving

\* throttle: one more thread waits, and the next turn is a gap later.
LEMMA ReserveRate ==
  ASSUME RateInv, NEW w \in Workers, ReserveTurn(w)
  PROVE  Turns' /\ Reserving'
<1>. USE DEF RateInv, IInv
<1>0. w \in Workers /\ Domain[w] \in Domains
  BY WorkerFacts
<1>1. /\ pc[w] = "reserve" /\ pc' = [pc EXCEPT ![w] = "sleep"]
      /\ due' = [due EXCEPT ![Domain[w]] = due[Domain[w]] + Gap]
      /\ wait[w] = due[Domain[w]]
      /\ UNCHANGED <<wait, credit>>
  BY DEF ReserveTurn, Goto, At, Reserving
<1>2. ASSUME NEW d \in Domains, d # Domain[w]
      PROVE  Waiting(d)' = Waiting(d) /\ \A t \in Nat : Soon(d, t)' = Soon(d, t)
  BY <1>1, <1>2 DEF Waiting, Soon, TypeOK
<1>3. Waiting(Domain[w])' = Waiting(Domain[w]) \cup {w} /\ w \notin Waiting(Domain[w])
  BY <1>1 DEF Waiting, TypeOK
<1>4. Cardinality(Waiting(Domain[w])') = Cardinality(Waiting(Domain[w])) + 1
  BY <1>3, CountFacts, FS_AddElement DEF Waiting
<1>5. ASSUME NEW t \in Nat
      PROVE  Gap * Cardinality(Soon(Domain[w], t)') <= credit[Domain[w]] + t
  <2>. DEFINE d == Domain[w]
  <2>1. CASE t < wait[w]
    <3>1. Soon(d, t)' = Soon(d, t)
      BY <1>0, <1>1, <2>1 DEF Soon, TypeOK
    <3>. QED
      BY <1>0, <3>1 DEF Turns
  <2>2. CASE t >= wait[w]
    <3>1. Soon(d, t)' \subseteq Waiting(d)' /\ Waiting(d)' \in SUBSET Workers
      BY DEF Soon, Waiting
    <3>2. /\ Cardinality(Soon(d, t)') \in Nat
          /\ Cardinality(Soon(d, t)') <= Cardinality(Waiting(d)) + 1
          /\ Cardinality(Waiting(d)) \in Nat
      BY <1>4, <3>1, CountFacts, FS_Subset, FS_CardinalityType DEF Waiting
    <3>3. Gap * Cardinality(Soon(d, t)') <= Gap * (Cardinality(Waiting(d)) + 1)
      BY <3>2, GapTimes
    <3>4. Gap * (Cardinality(Waiting(d)) + 1) <= credit[d] + due[d]
      BY <1>0 DEF Turns
    <3>5. credit[d] \in Int /\ due[d] \in Nat /\ due[d] <= t
      BY <1>0, <1>1, <2>2 DEF TypeOK
    <3>6. Gap * Cardinality(Soon(d, t)') \in Int /\ Gap * (Cardinality(Waiting(d)) + 1) \in Int
      BY <3>2, BoundsAssumption
    <3>. QED
      BY <3>3, <3>4, <3>5, <3>6
  <2>. QED
    BY <1>0, <1>1, <2>1, <2>2 DEF TypeOK
<1>6. Gap * (Cardinality(Waiting(Domain[w])') + 1) <= credit[Domain[w]] + due'[Domain[w]]
  <2>. DEFINE n == Cardinality(Waiting(Domain[w]))
  <2>1. n \in Nat
    BY CountFacts DEF Waiting
  <2>2. Gap * (n + 1) <= credit[Domain[w]] + due[Domain[w]]
    BY <1>0 DEF Turns
  <2>3. Gap * ((n + 1) + 1) = Gap * (n + 1) + Gap /\ Gap * (n + 1) \in Nat
    BY <2>1, GapTimes
  <2>4. /\ due'[Domain[w]] = due[Domain[w]] + Gap
        /\ due[Domain[w]] \in Nat /\ credit[Domain[w]] \in Int /\ Gap \in Nat
    BY <1>0, <1>1, BoundsAssumption DEF TypeOK
  <2>. QED
    BY <1>4, <2>1, <2>2, <2>3, <2>4
<1>7. Turns'
  BY <1>0, <1>1, <1>2, <1>5, <1>6 DEF Turns, TypeOK
<1>8. Reserving'
  BY <1>1, WorkerFacts DEF TypeOK, Reserving, At
<1>. QED
  BY <1>7, <1>8

\* A request: a thread whose turn has come stops waiting, and the gap is paid.
LEMMA FetchRate ==
  ASSUME RateInv, NEW w \in Workers, FetchFast(w) \/ FetchWithPlaywright(w)
  PROVE  Turns' /\ Reserving'
<1>. USE DEF RateInv, IInv
<1>0. Domain[w] \in Domains
  BY WorkerFacts
<1>1. PICK p \in {"turn", "done"} :
        /\ pc[w] = "sleep" /\ wait[w] = 0 /\ pc' = [pc EXCEPT ![w] = p]
        /\ credit' = [credit EXCEPT ![Domain[w]] = @ - Gap]
        /\ UNCHANGED <<due, wait>>
  BY DEF FetchFast, FetchWithPlaywright, Return, Goto, Request, At
<1>2. ASSUME NEW d \in Domains, d # Domain[w]
      PROVE  Waiting(d)' = Waiting(d) /\ \A t \in Nat : Soon(d, t)' = Soon(d, t)
  BY <1>1, <1>2 DEF Waiting, Soon, TypeOK
<1>3. \A S \in SUBSET Workers : w \in S =>
        Gap * Cardinality(S) = Gap * Cardinality(S \ {w}) + Gap
          /\ Gap * (Cardinality(S) + 1) = Gap * (Cardinality(S \ {w}) + 1) + Gap
          /\ Cardinality(S \ {w}) \in Nat
  <2>. SUFFICES ASSUME NEW S \in SUBSET Workers, w \in S
                PROVE  /\ Gap * Cardinality(S) = Gap * Cardinality(S \ {w}) + Gap
                       /\ Gap * (Cardinality(S) + 1) = Gap * (Cardinality(S \ {w}) + 1) + Gap
                       /\ Cardinality(S \ {w}) \in Nat
    OBVIOUS
  <2>1. Cardinality(S \ {w}) = Cardinality(S) - 1 /\ Cardinality(S) \in Nat
    BY CountFacts, FS_RemoveElement
  <2>2. Cardinality(S \ {w}) \in Nat
    BY CountFacts
  <2>3. Cardinality(S) = Cardinality(S \ {w}) + 1
    BY <2>1, <2>2
  <2>. QED
    BY <2>2, <2>3, GapTimes
<1>4. ASSUME NEW t \in Nat
      PROVE  Gap * Cardinality(Soon(Domain[w], t)') <= credit'[Domain[w]] + t
  <2>1. /\ Soon(Domain[w], t)' = Soon(Domain[w], t) \ {w} /\ w \in Soon(Domain[w], t)
        /\ Soon(Domain[w], t) \in SUBSET Workers
    BY <1>1 DEF Soon, TypeOK
  <2>2. Gap * Cardinality(Soon(Domain[w], t)) <= credit[Domain[w]] + t
    BY <1>0 DEF Turns
  <2>3. /\ credit'[Domain[w]] = credit[Domain[w]] - Gap /\ credit[Domain[w]] \in Int
        /\ Gap \in Nat
    BY <1>0, <1>1, BoundsAssumption DEF TypeOK
  <2>4. /\ Gap * Cardinality(Soon(Domain[w], t)) = Gap * Cardinality(Soon(Domain[w], t)') + Gap
        /\ Gap * Cardinality(Soon(Domain[w], t)') \in Nat
    BY <1>3, <2>1, GapTimes
  <2>. QED
    BY <2>2, <2>3, <2>4
<1>5. Gap * (Cardinality(Waiting(Domain[w])') + 1) <= credit'[Domain[w]] + due[Domain[w]]
  <2>1. /\ Waiting(Domain[w])' = Waiting(Domain[w]) \ {w} /\ w \in Waiting(Domain[w])
        /\ Waiting(Domain[w]) \in SUBSET Workers
    BY <1>1 DEF Waiting, TypeOK
  <2>2. Gap * (Cardinality(Waiting(Domain[w])) + 1) <= credit[Domain[w]] + due[Domain[w]]
    BY <1>0 DEF Turns
  <2>3. /\ credit'[Domain[w]] = credit[Domain[w]] - Gap /\ credit[Domain[w]] \in Int
        /\ Gap \in Nat /\ due[Domain[w]] \in Nat
    BY <1>0, <1>1, BoundsAssumption DEF TypeOK
  <2>4. /\ Gap * (Cardinality(Waiting(Domain[w])) + 1)
             = Gap * (Cardinality(Waiting(Domain[w])') + 1) + Gap
        /\ Cardinality(Waiting(Domain[w])') + 1 \in Nat
    BY <1>3, <2>1
  <2>5. Gap * (Cardinality(Waiting(Domain[w])') + 1) \in Nat
    BY <2>4, GapTimes
  <2>. QED
    BY <2>2, <2>3, <2>4, <2>5
<1>6. \A d \in Domains : d # Domain[w] => credit'[d] = credit[d]
  BY <1>1 DEF TypeOK
<1>7. Turns'
  BY <1>1, <1>2, <1>4, <1>5, <1>6 DEF Turns
<1>8. Reserving'
  BY <1>1 DEF TypeOK, Reserving
<1>. QED
  BY <1>7, <1>8

\* Time: every turn comes a tick closer, and there is a tick more of credit, or
\* enough for all threads there are.
LEMMA TickRate == ASSUME RateInv, Tick PROVE Turns' /\ Reserving'
<1>. USE DEF RateInv, IInv
<1>1. /\ UNCHANGED pc /\ \A w \in Workers : pc[w] # "reserve"
      /\ \A w \in Workers : wait'[w] = IF wait[w] = 0 THEN 0 ELSE wait[w] - 1
      /\ \A d \in Domains :
           /\ due'[d] = IF due[d] = 0 THEN 0 ELSE due[d] - 1
           /\ credit'[d] = IF credit[d] < MaxCredit THEN credit[d] + 1 ELSE credit[d]
  BY DEF Tick, At
<1>2. ASSUME NEW d \in Domains
      PROVE  /\ \A t \in Nat : Gap * Cardinality(Soon(d, t)') <= credit'[d] + t
             /\ Gap * (Cardinality(Waiting(d)') + 1) <= credit'[d] + due'[d]
  <2>1. Waiting(d)' = Waiting(d) /\ \A t \in Nat : Soon(d, t)' = Soon(d, t + 1)
    BY <1>1 DEF Waiting, Soon, TypeOK
  <2>2. credit[d] \in Int /\ due[d] \in Nat
    BY DEF TypeOK
  <2>3. CASE credit[d] < MaxCredit
    <3>1. Gap * (Cardinality(Waiting(d)) + 1) <= credit[d] + due[d]
      BY DEF Turns
    <3>2. \A t \in Nat : Gap * Cardinality(Soon(d, t + 1)) <= credit[d] + (t + 1)
      BY DEF Turns
    <3>3. credit'[d] = credit[d] + 1 /\ due'[d] + 1 >= due[d] /\ due'[d] \in Nat
      BY <1>1, <2>2, <2>3
    <3>4. /\ Gap * (Cardinality(Waiting(d)) + 1) \in Int
          /\ \A t \in Nat : Gap * Cardinality(Soon(d, t + 1)) \in Int
      BY CountFacts, BoundsAssumption DEF Waiting, Soon
    <3>. QED
      BY <2>1, <2>2, <3>1, <3>2, <3>3, <3>4
  <2>4. CASE ~(credit[d] < MaxCredit)
    <3>1. MaxCredit \in Int /\ credit'[d] = credit[d] /\ credit[d] >= MaxCredit
      BY <1>1, <2>2, <2>4, CountFacts, BoundsAssumption DEF MaxCredit
    <3>2. ASSUME NEW S \in SUBSET Workers
          PROVE  Gap * Cardinality(S) <= MaxCredit /\ Gap * (Cardinality(S) + 1) <= MaxCredit
      <4>1. /\ Cardinality(S) \in Nat /\ Cardinality(Workers) \in Nat
            /\ Cardinality(S) <= Cardinality(Workers)
        BY CountFacts
      <4>. QED
        BY <4>1, GapTimes DEF MaxCredit
    <3>3. due'[d] \in Nat
      BY <1>1, <2>2
    <3>4. /\ Gap * (Cardinality(Waiting(d)) + 1) \in Int
          /\ \A t \in Nat : Gap * Cardinality(Soon(d, t + 1)) \in Int
      BY CountFacts, BoundsAssumption DEF Waiting, Soon
    <3>5. Waiting(d) \in SUBSET Workers /\ \A t \in Nat : Soon(d, t + 1) \in SUBSET Workers
      BY DEF Waiting, Soon
    <3>. QED
      BY <2>1, <2>2, <3>1, <3>2, <3>3, <3>4, <3>5
  <2>. QED
    BY <2>3, <2>4
<1>. QED
  BY <1>1, <1>2 DEF Turns, Reserving

-----------------------------------------------------------------------------
LEMMA NextRate == RateInv /\ [Next]_vars => RateInv'
<1>. SUFFICES ASSUME RateInv, [Next]_vars PROVE Turns' /\ Reserving'
  BY NextInv DEF RateInv
<1>. USE DEF RateInv, IInv
<1>1. CASE UNCHANGED vars
  BY <1>1, FrameRate DEF Reserving, vars, turns, pages
<1>2. ASSUME NEW c \in Calls, FetchPages(c) \/ ResumePages(c) \/ Conclude(c)
      PROVE  Turns' /\ Reserving'
  <2>1. UNCHANGED <<due, credit, wait>>
    BY <1>2 DEF FetchPages, ResumePages, Submit, Conclude, PauseForGate, PauseAgain,
                PassGate, KeepPages, turns, pages
  <2>2. \A w \in Workers : /\ pc'[w] = "sleep" <=> pc[w] = "sleep"
                           /\ pc'[w] = "reserve" <=> pc[w] = "reserve"
    BY <1>2 DEF FetchPages, ResumePages, Submit, Conclude, PauseForGate, PauseAgain,
                PassGate, KeepPages, pages, Quiet
  <2>3. Turns'
    BY <2>1, <2>2, FrameRate
  <2>4. Reserving'
    BY <2>1, <2>2 DEF Reserving
  <2>. QED
    BY <2>3, <2>4
<1>3. ASSUME NEW w \in Workers, StartPage(w) \/ LockDomain(w) \/ ReadRobots(w)
      PROVE  Turns' /\ Reserving'
  <2>1. UNCHANGED <<due, credit, wait>>
    BY <1>3 DEF StartPage, LockDomain, LockWith, ReadRobots, ReadWith, turns
  <2>2. PICK p \in {"lock", "read", "turn", "done"} : pc' = [pc EXCEPT ![w] = p]
    BY <1>3 DEF StartPage, LockDomain, LockWith, ReadRobots, ReadWith, Judge, Return, Goto
  <2>3. pc[w] \in {"queued", "lock", "read"}
    BY <1>3 DEF StartPage, LockDomain, LockWith, ReadRobots, ReadWith, At
  <2>. QED
    BY <2>1, <2>2, <2>3, FrameRate DEF Reserving, TypeOK
<1>4. ASSUME NEW w \in Workers, EnterThrottle(w) PROVE Turns' /\ Reserving'
  <2>1. /\ pc[w] = "turn" /\ pc' = [pc EXCEPT ![w] = "reserve"]
        /\ wait' = [wait EXCEPT ![w] = due[Domain[w]]]
        /\ UNCHANGED <<due, credit>>
    BY <1>4 DEF EnterThrottle, EnterUnlocked, Goto, At
  <2>. QED
    BY <2>1, FrameRate DEF Reserving, TypeOK
<1>. QED
  BY <1>1, <1>2, <1>3, <1>4, ReserveRate, FetchRate, TickRate DEF Next, PageStep

\* However many threads take turns at a domain at the same moment, on either
\* path, no more requests are made than one and one more for each gap passed.
THEOREM RateIsKept == Spec => []RateKept
<1>1. RateInv => RateKept
  <2>. SUFFICES ASSUME RateInv, NEW d \in Domains PROVE credit[d] >= 0
    BY DEF RateKept
  <2>1. Gap * Cardinality(Soon(d, 0)) <= credit[d] + 0
    BY DEF RateInv, Turns
  <2>2. Cardinality(Soon(d, 0)) \in Nat
    BY CountFacts DEF Soon
  <2>3. Gap * Cardinality(Soon(d, 0)) \in Nat /\ credit[d] \in Int
    BY <2>2, GapTimes DEF RateInv, IInv, TypeOK
  <2>. QED
    BY <2>1, <2>3
<1>. QED
  BY <1>1, InitRate, NextRate, PTL DEF Spec
=============================================================================
