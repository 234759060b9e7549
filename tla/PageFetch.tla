------------------------------ MODULE PageFetch ------------------------------
(***************************************************************************)
(* How the pages of a run are fetched: calls of handle_fetch_pages         *)
(* (agents/web_navigator/page_handlers.py), each of which fetches its      *)
(* pages in a thread pool of its own (page_fetcher.py), where every thread *)
(* first consults the robots.txt of the page's domain, read once per       *)
(* process (robots.py), and then takes a turn at that domain               *)
(* (rate_limiter.py).  The cache of robots.txt and the turns are shared by *)
(* all threads of the process.                                             *)
(*                                                                         *)
(* What a site answers is up to the environment, each time it is asked.    *)
(* Time passes in ticks; only how far away the turns are is kept, so that  *)
(* no clock has to be bounded.  A thread may be late by any time.          *)
(***************************************************************************)
EXTENDS Integers, FiniteSets

CONSTANTS
  Calls,       \* handler calls, of several runs
  Results,     \* the search results of each call: positions in its list
  Domain,      \* the domain of each of them
  Pdf,         \* those whose URL looks like a PDF
  Disallowed,  \* those that the robots.txt of their domain forbids
  PoolSize,    \* _FETCH_CONCURRENCY
  Gap          \* _MIN_GAP_SECONDS, in ticks

Workers == UNION {{c} \X Results[c] : c \in Calls}
Domains == {Domain[w] : w \in Workers}

ASSUME ResultsAssumption ==
  /\ \A c \in Calls : Results[c] \subseteq Nat
  /\ IsFiniteSet(Workers) /\ "nobody" \notin Calls
ASSUME BoundsAssumption == Gap \in Nat \ {0} /\ PoolSize \in Nat \ {0}

VARIABLES
  cache,       \* robots._cache: unknown, the domain's rules, or allow-all
  domainLock,  \* robots._domain_locks: who holds them
  slotLock,    \* rate_limiter._lock
  due,         \* _last_request_at: ticks until the domain's next turn
  pc,          \* where each page's thread is
  wait,        \* ticks until its turn
  via,         \* the path it is on: HTTP or the browser
  found,       \* what has come back
  stage,       \* where each handler call is
  answered,    \* the human's answer is in its context
  reads,       \* history: requests for each domain's robots.txt
  credit,      \* history: ticks passed, less Gap for each page request to the domain
  prompts      \* history: how often each call's human was asked

robots  == <<cache, domainLock, reads>>
turns   == <<slotLock, due, credit>>
pages   == <<pc, wait, via, found>>
handler == <<stage, answered, prompts>>
vars    == <<robots, turns, pages, handler>>

-----------------------------------------------------------------------------
Nobody == <<"nobody", 0>>
Pages(c) == {w \in Workers : w[1] = c}
\* As many requests as there are threads may be late at once, and no more.
MaxCredit == Gap * (Cardinality(Workers) + 1)

Init ==
  /\ cache = [d \in Domains |-> "unknown"]
  /\ domainLock = [d \in Domains |-> Nobody]
  /\ slotLock = Nobody
  /\ due = [d \in Domains |-> 0]
  /\ pc = [w \in Workers |-> "idle"]
  /\ wait = [w \in Workers |-> 0]
  /\ via = [w \in Workers |-> "http"]
  /\ found = [w \in Workers |-> "none"]
  /\ stage = [c \in Calls |-> "new"]
  /\ answered = [c \in Calls |-> FALSE]
  /\ reads = [d \in Domains |-> 0]
  /\ credit = [d \in Domains |-> Gap]
  /\ prompts = [c \in Calls |-> 0]

At(w, where) == pc[w] = where
Goto(w, where) == pc' = [pc EXCEPT ![w] = where]

\* The page's thread returns: it never raises.
Return(w, result) ==
  /\ Goto(w, "done")
  /\ found' = [found EXCEPT ![w] = result]

-----------------------------------------------------------------------------
(* The handler call: handle_fetch_pages.                                   *)

\* fetch_pages submits every page to the call's pool.
Submit(c) ==
  /\ stage' = [stage EXCEPT ![c] = "fetch"]
  /\ pc' = [w \in Workers |-> IF w[1] = c THEN "queued" ELSE pc[w]]
  /\ via' = [w \in Workers |-> IF w[1] = c THEN "http" ELSE via[w]]
  /\ found' = [w \in Workers |-> IF w[1] = c THEN "none" ELSE found[w]]
  /\ UNCHANGED <<wait, prompts, robots, turns>>

FetchPages(c) == stage[c] = "new" /\ Submit(c) /\ UNCHANGED answered

\* The human has answered: the node's handler is called again, and fetches again.
ResumePages(c) ==
  /\ stage[c] = "paused"
  /\ Submit(c)
  /\ answered' = [answered EXCEPT ![c] = TRUE]

AllFetched(c) == stage[c] = "fetch" /\ \A w \in Pages(c) : At(w, "done")
GatedPages(c) == {w \in Pages(c) : found[w] = "gate"}
InTheWay(c) ==
  GatedPages(c) # {} /\ ~\E w \in Pages(c) : found[w] = "text"

\* Slip: it is not looked whether the human has answered.
PauseAgain(c) ==
  /\ AllFetched(c) /\ InTheWay(c)
  /\ stage' = [stage EXCEPT ![c] = "paused"]
  /\ prompts' = [prompts EXCEPT ![c] = @ + 1]
  /\ UNCHANGED <<answered, pages, robots, turns>>

\* AwaitingHumanInputError: nothing but a gate has come back.
PauseForGate(c) == ~answered[c] /\ PauseAgain(c)

\* The first gated page is passed with the human's answer, or turns into an
\* error.  The browser session that passes it takes no turn at the domain.
PassGate(c) ==
  /\ AllFetched(c) /\ InTheWay(c) /\ answered[c]
  /\ \E result \in {"text", "error"}, w \in GatedPages(c) :
       /\ \A v \in GatedPages(c) : w[2] <= v[2]
       /\ found' = [found EXCEPT ![w] = result]
  /\ stage' = [stage EXCEPT ![c] = "done"]
  /\ UNCHANGED <<answered, prompts, pc, wait, via, robots, turns>>

KeepPages(c) ==
  /\ AllFetched(c) /\ ~InTheWay(c)
  /\ stage' = [stage EXCEPT ![c] = "done"]
  /\ UNCHANGED <<answered, prompts, pages, robots, turns>>

-----------------------------------------------------------------------------
(* robots.txt, as a page's thread meets it.                                *)

Allowed(w, rules) == rules = "rules" => w \notin Disallowed
Judge(w, rules) ==
  IF Allowed(w, rules) THEN Goto(w, "turn") /\ UNCHANGED found ELSE Return(w, "error")

\* The pool starts a call's pages in order, at most PoolSize at a time, and the
\* thread looks into the cache.
StartPage(w) ==
  /\ At(w, "queued")
  /\ \A v \in Pages(w[1]) : v[2] < w[2] => ~At(v, "queued")
  /\ Cardinality({v \in Pages(w[1]) : pc[v] \notin {"queued", "done"}}) < PoolSize
  /\ IF cache[Domain[w]] = "unknown" THEN Goto(w, "lock") /\ UNCHANGED found
     ELSE Judge(w, cache[Domain[w]])
  /\ UNCHANGED <<wait, via, robots, turns, handler>>

\* With the domain's lock the thread looks again, and fetches if it must; that
\* request takes no turn.
LockWith(w, hit) ==
  /\ At(w, "lock") /\ domainLock[Domain[w]] = Nobody
  /\ IF hit THEN Judge(w, cache[Domain[w]]) /\ UNCHANGED <<domainLock, reads>>
     ELSE /\ Goto(w, "read")
          /\ domainLock' = [domainLock EXCEPT ![Domain[w]] = w]
          /\ reads' = [reads EXCEPT ![Domain[w]] = @ + 1]
          /\ UNCHANGED found
  /\ UNCHANGED <<cache, wait, via, turns, handler>>

\* Slip: the cache is not consulted again under the lock.
LockDomainOnly(w) == LockWith(w, FALSE)

LockDomain(w) == LockWith(w, cache[Domain[w]] # "unknown")

\* The answer is rules, or nothing, or an exception: both of the latter allow all.
ReadWith(w, freed) ==
  /\ At(w, "read")
  /\ \E rules \in {"rules", "all"} :
       /\ cache' = [cache EXCEPT ![Domain[w]] = rules]
       /\ domainLock' =
            [domainLock EXCEPT ![Domain[w]] = IF rules \in freed THEN Nobody ELSE @]
       /\ Judge(w, rules)
  /\ UNCHANGED <<reads, wait, via, turns, handler>>

\* Slip: after an exception the domain's lock is not given back.
ReadRobotsHeld(w) == ReadWith(w, {"rules"})
ReadRobots(w) == ReadWith(w, {"rules", "all"})

-----------------------------------------------------------------------------
(* The turns at a domain: throttle.                                        *)

\* Slip: without the lock.
EnterUnlocked(w) ==
  /\ At(w, "turn")
  /\ slotLock' = w
  /\ wait' = [wait EXCEPT ![w] = due[Domain[w]]]
  /\ Goto(w, "reserve")
  /\ UNCHANGED <<due, credit, via, found, robots, handler>>

\* The thread reads when the domain's next request is due ...
EnterThrottle(w) == slotLock = Nobody /\ EnterUnlocked(w)

\* ... and reserves the turn after it before it sleeps.
ReserveTurn(w) ==
  /\ At(w, "reserve")
  /\ due' = [due EXCEPT ![Domain[w]] = wait[w] + Gap]
  /\ slotLock' = Nobody
  /\ Goto(w, "sleep")
  /\ UNCHANGED <<credit, wait, via, found, robots, handler>>

\* A locked section takes no time that the gap could tell.
Tick ==
  /\ \A w \in Workers : ~At(w, "reserve")
  /\ due' = [d \in Domains |-> IF due[d] = 0 THEN 0 ELSE due[d] - 1]
  /\ wait' = [w \in Workers |-> IF wait[w] = 0 THEN 0 ELSE wait[w] - 1]
  /\ credit' = [d \in Domains |->
                  IF credit[d] < MaxCredit THEN credit[d] + 1 ELSE credit[d]]
  /\ UNCHANGED <<slotLock, pc, via, found, robots, handler>>

\* The code charges a page's request, by HTTP or in the browser, and no other.
Request(w) == credit' = [credit EXCEPT ![Domain[w]] = @ - Gap]

-----------------------------------------------------------------------------
(* The requests.                                                           *)

\* A PDF, by its URL or by what the server says it is, ends here either way.
\* A page has text enough, a gate's words, or too little of both: like an
\* exception, that leaves it to the browser.
FetchFast(w) ==
  /\ At(w, "sleep") /\ wait[w] = 0 /\ via[w] = "http"
  /\ Request(w)
  /\ \/ \E result \in {"text", "error"} : Return(w, result) /\ UNCHANGED via
     \/ w \notin Pdf /\ Return(w, "gate") /\ UNCHANGED via
     \/ /\ w \notin Pdf
        /\ via' = [via EXCEPT ![w] = "browser"]
        /\ Goto(w, "turn") /\ UNCHANGED found
  /\ UNCHANGED <<slotLock, due, wait, robots, handler>>

\* The browser's page is final, however little text it has.
FetchWithPlaywright(w) ==
  /\ At(w, "sleep") /\ wait[w] = 0 /\ via[w] = "browser"
  /\ Request(w)
  /\ \E result \in {"text", "gate", "error"} : Return(w, result)
  /\ UNCHANGED <<slotLock, due, wait, via, robots, handler>>

-----------------------------------------------------------------------------
PageStep(w) ==
  \/ StartPage(w) \/ LockDomain(w) \/ ReadRobots(w)
  \/ EnterThrottle(w) \/ ReserveTurn(w) \/ FetchFast(w) \/ FetchWithPlaywright(w)

Conclude(c) == PauseForGate(c) \/ PassGate(c) \/ KeepPages(c)

Next ==
  \/ \E c \in Calls : FetchPages(c) \/ ResumePages(c) \/ Conclude(c)
  \/ \E w \in Workers : PageStep(w)
  \/ Tick

Spec == Init /\ [][Next]_vars

\* Threads run (each takes a lock a bounded number of times, so nobody is kept
\* from one for ever), every request is answered or fails, and time passes.  HTTP
\* requests and page.goto have a timeout; page.content has none, and is assumed to
\* return.  That the human answers is not assumed.
FairSpec ==
  /\ Spec
  /\ \A w \in Workers : WF_vars(PageStep(w))
  /\ \A c \in Calls : WF_vars(Conclude(c))
  /\ WF_vars(Tick)

-----------------------------------------------------------------------------
(* Properties.                                                             *)

\* Type invariant: a lock's holder is in the section the lock is for.
TypeOK ==
  /\ cache \in [Domains -> {"unknown", "rules", "all"}]
  /\ domainLock \in [Domains -> Workers \cup {Nobody}]
  /\ \A w \in Workers : At(w, "read") <=> domainLock[Domain[w]] = w
  /\ slotLock \in Workers \cup {Nobody}
  /\ \A w \in Workers : At(w, "reserve") <=> slotLock = w
  /\ due \in [Domains -> Nat] /\ wait \in [Workers -> Nat]
  /\ pc \in [Workers -> {"idle", "queued", "lock", "read", "turn", "reserve", "sleep",
                         "done"}]
  /\ via \in [Workers -> {"http", "browser"}]
  /\ found \in [Workers -> {"none", "text", "gate", "error"}]
  /\ stage \in [Calls -> {"new", "fetch", "paused", "done"}]
  /\ answered \in [Calls -> BOOLEAN]
  /\ reads \in [Domains -> Nat] /\ prompts \in [Calls -> Nat]
  /\ credit \in [Domains -> Int]

\* However many threads meet a domain first at the same time, its robots.txt is
\* requested once in the life of the process (robots.py:27-33), and no thread
\* fetches from the domain before the answer is there.
RobotsOnce ==
  /\ \A d \in Domains : reads[d] <= 1
  /\ \A w \in Workers :
       pc[w] \in {"turn", "reserve", "sleep"} => cache[Domain[w]] # "unknown"

\* At no time have more page requests gone to a domain than one, and one more for
\* each gap that has passed: threads that take turns at the same moment, or go
\* from HTTP to the browser, do not coincide (rate_limiter.py).  A thread that is
\* late for its turn may still come close to the next one's.  The two requests that
\* take no turn, for robots.txt and past a gate, are not counted.
RateKept == \A d \in Domains : credit[d] >= 0

\* The human is asked once at most, whatever the sites answer the second time:
\* a resumed run uses the answer or does without.
AskedOnce == \A c \in Calls : prompts[c] <= 1

\* Every handler call ends or pauses, whatever robots.txt and the sites answer: a
\* lock is given back after an exception too.
FetchEnds == \A c \in Calls : stage[c] = "fetch" ~> stage[c] # "fetch"
=============================================================================
