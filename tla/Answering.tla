------------------------------ MODULE Answering ------------------------------
(***************************************************************************)
(* From fetched pages to a cited answer: handle_fetch_pages and            *)
(* handle_embed_pages (web_navigator/page_handlers.py) as the executor     *)
(* runs them, the page chunks in Qdrant (common/chunking.py and            *)
(* common/qdrant_store.py), and the draft the Synthesizer makes of them    *)
(* (synthesizer/main.py, synthesizer/drafter.py).                          *)
(*                                                                         *)
(* A handler that times out is abandoned, not stopped: it goes on storing  *)
(* chunks and writing into the run's objects.  A text is its length; what  *)
(* it says, and that strip() takes blanks off its ends, is left out.       *)
(*                                                                         *)
(* Init, Next and Spec carry the module's name here, because the module of *)
(* its proofs extends ModelCalls too.                                      *)
(***************************************************************************)
EXTENDS Integers, FiniteSetsExt

CONSTANTS
  Runs,
  Length,      \* the length of the text of each candidate page, if fetched
  Size,        \* chunk_size
  Overlap,     \* overlap
  TopK,        \* research_top_k
  Attempts,    \* max_retries of the embed node
  MaxOutages   \* calls to Qdrant that fail

Pages == DOMAIN Length

ASSUME LengthAssumption ==
  /\ IsFiniteSet(Pages) /\ Pages = 1..Cardinality(Pages)
  /\ \A p \in Pages : Length[p] \in Nat \ {0}
ASSUME ChunkAssumption == Overlap \in Nat /\ Size \in Nat /\ Overlap < Size
ASSUME BoundsAssumption == TopK \in Nat \ {0} /\ Attempts \in Nat \ {0} /\ MaxOutages \in Nat

VARIABLES
  walk,        \* where the executor's walk of each run is
  status,      \* overall_status in the run file
  usable,      \* RunContext.data: the pages that were fetched with a text
  fetching,    \* runs whose fetch thread is at work, awaited or abandoned
  noted,       \* params["sources_succeeded"] of the fetch node, in memory
  saved,       \* the same in the run file
  att,         \* the attempt at the embed node
  worker,      \* the thread of each attempt: the page it is at, what it lost
  chunks,      \* the points in Qdrant
  answer,      \* what the Synthesizer announced
  outages

answeringVars ==
  <<walk, status, usable, fetching, noted, saved, att, worker, chunks, answer, outages>>
files == <<status, saved>>

Unknown == -1
N == Cardinality(Pages)
Thread == 1..Attempts
NoAnswer == [drafted |-> FALSE, cited |-> {}, attempted |-> 0, succeeded |-> 0]

-----------------------------------------------------------------------------
(* chunk_text                                                              *)

\* Slip: the loop ends with the first window that would reach the end.
StartsShort(length) ==
  LET from[s \in 0..length] ==
        IF s + Size + (Size - Overlap) >= length THEN {s} ELSE {s} \cup from[s + Size - Overlap]
  IN from[0]

\* Where the windows over a text start: the last one is the first to reach the
\* end of the text.  What strip() takes off the ends of a chunk is left out.
Starts(length) ==
  LET from[s \in 0..length] ==
        IF s + Size >= length THEN {s} ELSE {s} \cup from[s + Size - Overlap]
  IN from[0]

Window(length, start) == {i \in 0..(length - 1) : start <= i /\ i < start + Size}

\* The points of a page: their ids are made of the run, the url and the chunk's
\* place, so that storing a page twice stores it once.
Points(r, p) == {[run |-> r, page |-> p, start |-> s] : s \in Starts(Length[p])}

AnsweringInit ==
  /\ walk = [r \in Runs |-> "fetch"]
  /\ status = [r \in Runs |-> "running"]
  /\ usable = [r \in Runs |-> {}]
  /\ fetching = Runs
  /\ noted = [r \in Runs |-> Unknown] /\ saved = [r \in Runs |-> Unknown]
  /\ att = [r \in Runs |-> 0]
  /\ worker = [r \in Runs |-> [k \in Thread |-> [page |-> 0, lost |-> {}]]]
  /\ chunks = {}
  /\ answer = [r \in Runs |-> NoAnswer]
  /\ outages = 0

WalkTo(r, where) == walk' = [walk EXCEPT ![r] = where]
Outage == outages < MaxOutages /\ outages' = outages + 1

\* save_run writes the whole object, the plan's nodes with it.
Save(r, s, count) ==
  /\ status' = [status EXCEPT ![r] = s]
  /\ saved' = [saved EXCEPT ![r] = count]

-----------------------------------------------------------------------------
(* The node "fetch": one attempt.                                          *)

\* handle_fetch_pages returns.  It writes into RunContext and into the plan's
\* own node also when nobody waits for it any more.
FetchReturns(r) ==
  /\ r \in fetching
  /\ fetching' = fetching \ {r}
  /\ \E ok \in SUBSET Pages :
       /\ usable' = [usable EXCEPT ![r] = ok]
       /\ noted' = [noted EXCEPT ![r] = Cardinality(ok)]
       /\ IF walk[r] = "fetch"
          THEN Save(r, "running", Cardinality(ok)) /\ WalkTo(r, "embed")
          ELSE UNCHANGED <<files, walk>>
  /\ UNCHANGED <<att, worker, chunks, answer, outages>>

\* The node fails, the node "embed" is skipped.
FetchTimesOut(r) ==
  /\ walk[r] = "fetch" /\ r \in fetching
  /\ Save(r, "running", noted[r])
  /\ WalkTo(r, "failing")
  /\ UNCHANGED <<usable, fetching, noted, att, worker, chunks, answer, outages>>

EndFailed(r) ==
  /\ walk[r] = "failing"
  /\ Save(r, "failed", noted[r])
  /\ WalkTo(r, "ended")
  /\ UNCHANGED <<usable, fetching, noted, att, worker, chunks, answer, outages>>

-----------------------------------------------------------------------------
(* The node "embed": handle_embed_pages in one thread per attempt.         *)

StartAttempt(r) ==
  /\ walk[r] = "embed" /\ att[r] < Attempts
  /\ att' = [att EXCEPT ![r] = @ + 1]
  /\ worker' = [worker EXCEPT ![r][att[r] + 1].page = 1]
  /\ WalkTo(r, "await")
  /\ UNCHANGED <<files, usable, fetching, noted, chunks, answer, outages>>

Turn(r, k) == worker[r][k].page \in Pages
NextPage(w) == [w EXCEPT !.page = @ + 1]
NextPageLosing(w) == [w EXCEPT !.page = @ + 1, !.lost = @ \cup {w.page}]

\* upsert_page_chunks: one call stores every chunk of the page; there is
\* nothing to store of a page that was not fetched.
StorePage(r, k) ==
  /\ Turn(r, k)
  /\ chunks' = IF worker[r][k].page \in usable[r]
               THEN chunks \cup Points(r, worker[r][k].page) ELSE chunks
  /\ worker' = [worker EXCEPT ![r][k] = NextPage(@)]
  /\ UNCHANGED <<walk, files, usable, fetching, noted, att, answer, outages>>

\* It raises, with the points stored or not: the page is logged and skipped.
LosePage(r, k) ==
  /\ Turn(r, k) /\ worker[r][k].page \in usable[r] /\ Outage
  /\ chunks' \in {chunks, chunks \cup Points(r, worker[r][k].page)}
  /\ worker' = [worker EXCEPT ![r][k] = NextPageLosing(@)]
  /\ UNCHANGED <<walk, files, usable, fetching, noted, att, answer>>

AttemptReturns(r) ==
  /\ walk[r] = "await" /\ worker[r][att[r]].page = N + 1
  /\ Save(r, "completed", noted[r])
  /\ WalkTo(r, "ended")
  /\ UNCHANGED <<usable, fetching, noted, att, worker, chunks, answer, outages>>

AttemptTimesOut(r) ==
  /\ walk[r] = "await" /\ Turn(r, att[r])
  /\ WalkTo(r, IF att[r] < Attempts THEN "embed" ELSE "failing")
  /\ UNCHANGED <<files, usable, fetching, noted, att, worker, chunks, answer, outages>>

-----------------------------------------------------------------------------
(* The Synthesizer.                                                        *)

\* Slip: the search is not restricted to the run.
Anyones(r) == chunks
Mine(r) == {c \in chunks : c.run = r}

\* semantic_search_pages: the best of this run's chunks, and nothing at all if
\* Qdrant does not answer.
Searches(r, hits) ==
  \/ /\ hits \in kSubset(IF Cardinality(Mine(r)) < TopK THEN Cardinality(Mine(r)) ELSE TopK,
                         Mine(r))
     /\ UNCHANGED outages
  \/ hits = {} /\ Mine(r) # {} /\ Outage

PagesOf(hits) == {c.page : c \in hits}

\* Slip: the sources are counted by what the search returned.
SucceededByHits(r, hits) == Cardinality(PagesOf(hits))
Succeeded(r, hits) == IF saved[r] # Unknown THEN saved[r] ELSE Cardinality(PagesOf(hits))

\* _handle_completed_runs: each source is cited once, and the answer says how
\* many of the candidates were fetched if that is not all of them.
Draft(r) ==
  /\ status[r] \in {"completed", "failed"} /\ ~answer[r].drafted
  /\ \E hits \in SUBSET chunks :
       /\ Searches(r, hits)
       /\ answer' = [answer EXCEPT ![r] =
            [drafted |-> TRUE, cited |-> PagesOf(hits), attempted |-> N,
             succeeded |-> Succeeded(r, hits)]]
  /\ UNCHANGED <<walk, files, usable, fetching, noted, att, worker, chunks>>

-----------------------------------------------------------------------------
AnsweringNext ==
  \E r \in Runs :
    \/ FetchReturns(r) \/ FetchTimesOut(r) \/ EndFailed(r)
    \/ StartAttempt(r) \/ AttemptReturns(r) \/ AttemptTimesOut(r)
    \/ \E k \in Thread : StorePage(r, k) \/ LosePage(r, k)
    \/ Draft(r)

AnsweringSpec == AnsweringInit /\ [][AnsweringNext]_answeringVars
-----------------------------------------------------------------------------
(* Properties.                                                             *)

AnsweringTypeOK ==
  /\ walk \in [Runs -> {"fetch", "embed", "await", "failing", "ended"}]
  /\ status \in [Runs -> {"running", "completed", "failed"}]
  /\ usable \in [Runs -> SUBSET Pages]
  /\ fetching \subseteq Runs
  /\ noted \in [Runs -> {Unknown} \cup 0..N] /\ saved \in [Runs -> {Unknown} \cup 0..N]
  /\ att \in [Runs -> 0..Attempts]
  /\ worker \in [Runs -> [Thread -> [page : 0..(N + 1), lost : SUBSET Pages]]]
  /\ chunks \subseteq [run : Runs, page : Pages, start : Nat]
  /\ answer \in [Runs -> [drafted : BOOLEAN, cited : SUBSET Pages, attempted : {0, N},
                          succeeded : 0..N]]
  /\ outages \in 0..MaxOutages

\* An answer cites only pages that were fetched, with a text, for its own run,
\* although all runs share one collection and abandoned threads write into it
\* at any time.
SourcesWereFetched == \A r \in Runs : answer[r].cited \subseteq usable[r]

\* synthesizer/main.py:25-37: the count of sources that the answer states is the
\* number of pages fetched, not of pages retrieved.  An abandoned fetch may
\* raise the true number later, never lower it.
CaveatIsTrue ==
  \A r \in Runs : answer[r].drafted =>
    /\ answer[r].succeeded <= Cardinality(usable[r])
    /\ status[r] = "completed" => answer[r].succeeded = Cardinality(usable[r])

\* Every character of every page of a completed run can be found: each page
\* that its successful attempt did not report as lost is in Qdrant, whole.  (That
\* nothing is there twice is another matter: embed attempts that were given up may
\* have stored the same chunks before.)
RetrievalIsWhole ==
  \A r \in Runs : status[r] = "completed" =>
    \A p \in usable[r] \ worker[r][att[r]].lost :
      UNION {Window(Length[p], c.start) : c \in {c \in Mine(r) : c.page = p}}
        = 0..(Length[p] - 1)

\* watcher.py:9-17 takes the terminal status for "a strictly more reliable 'is
\* this run's data actually all there' signal" than a new point, which could
\* "hand the Synthesizer a partial chunk set".
EndedMeansAllThere ==
  [][\A r \in Runs : status[r] # "running" => Mine(r)' = Mine(r)]_answeringVars
=============================================================================
