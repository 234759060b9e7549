# A verification project for the Synthetic.API agents

TLA+ specifications of the multi-agent system in `agents/`, the TLC runs that
check them on small instances, and TLAPS proofs for instances of any size. File and
line references are to the repository's own sources.

## 1. The system

Three processes, which share a directory and little else:

- the **Orchestrator** (FastAPI). `POST /trigger` plans a run and queues
  `execute_plan` as a background task; `POST /runs/{id}/resume` queues
  `resume_plan`. Starlette runs such tasks in threads, so several calls, also of
  one run, are in progress at once. Node handlers run in a
  `ThreadPoolExecutor(max_workers=8)`;
- the **Synthesizer**, a single-threaded poll loop over the run index;
- the **Gradio UI**, a client that polls `GET /runs/{id}`.

`data/runs` is bind-mounted into the first two (`docker-compose.yml`, `restart:
unless-stopped`). Qdrant holds page chunks and workflow memories, Redis (if it is
configured) a lock. Nothing else survives a restart.

| Component | State | Operations | What is hard | What makes it correct |
|---|---|---|---|---|
| DAG executor `orchestrator/executor.py` | one `RunState` object per call, the run file it saves at every transition, a `RunContext`, the thread pool | `execute_plan`, `resume_plan`, `_walk_plan`, `_execute_node` | overlapping calls of a run; handlers that outlive their timeout; a pause written in two saves; crash between any two saves; a save that raises | a verdict that agrees with the nodes; files a later call can resume; dependencies first; bounded attempts; every call returns |
| Run store `common/run_store.py` | `<run>.json`, `index.json`, their `.tmp` files, an in-process lock | `save_run`, `create_run`, `_update_index`, `prune_old_runs`, `list_runs` | two threads and two processes on one index; one `.tmp` name per path; crash between file and index | whole files; no lost index update; no save stuck behind the lock |
| Watcher `synthesizer/watcher.py`, `synthesizer/main.py` | seen set and its file | `poll_once`, `poll_loop`, `_handle_completed_runs`, retention sweep | decisions on an index two processes overwrite through one `.tmp`; the callback fails half way; a run file that does not parse; restart between announcing and marking | draft only ended runs; mark only what was announced; never announce twice what is marked; never prune unannounced |
| Workflow memory `common/qdrant_store.py` 80-190, 600-842; `web_navigator/action_handlers.py` | one record per task and domain: successes, failures, steps; a Redis key or in-process mutex | `record_workflow_outcome`, `find_workflow_memory`, `prune_stale_workflows` | read-merge-write by several threads; lock time to live; Redis failing in mid-acquire; sweep against writers | nothing unverified is replayed; no outcome lost; no foreign lock released |
| Action executor `web_navigator/action_executor.py` | the recorded steps, stall counter, page fingerprint, result | `execute_action_loop`, `execute_login_and_extract`, `replay_workflow`, `_execute_step` | a model that answers anything; actions without visible effect; an exception at every call; a replay that fails half way and explores | nothing is paid; honest outcome; the password in no step; bounded effort; a memory of all that the successful session did |
| Page fetching `page_fetcher.py`, `robots.py`, `rate_limiter.py` | robots cache and per-domain locks, per-domain next slot | `fetch_page`, `is_allowed`, `wait_turn` | several handler threads on one domain | one robots fetch, a gap between page requests, no lock left held |
| Page handlers `page_handlers.py` | the run's `RunContext`, the count in the plan's own node | `handle_fetch_pages`, `handle_embed_pages` | a resumed fetch sees other pages than the paused one; threads abandoned at a timeout go on storing | asks the human once; a completed run's pages are stored whole |
| HTTP interface `main.py`, `auth.py`, `omi_webhook.py` | none of its own | `/trigger`, `/runs`, `/resume`, webhook | check of the file, then a queued task | only a paused run is resumed |
| Planner `planner.py`, `search_wrapper.py` | none | `build_plan`, `search` | replies of the search API | plans the executor can walk; one attempt for actions |
| Drafter `drafter.py`, notifiers | none | `draft_answer`, `notify` | retrieval that fails, counts from another source than the chunks | cites only what was fetched, states the count of sources truly |
| Page chunks `chunking.py`, `qdrant_store.py` | points of all runs in one collection, under stable ids | `chunk_text`, `upsert_page_chunks`, `semantic_search_pages` | several writers of one run; the end of the text | the chunks cover the text; a run finds its own |
| Model clients `lyzr_wrapper.py`, `vision_wrapper.py`, `langfuse_tracer.py` | the wrapper's last model and usage, the tracing client | `run`, `decide_action`, the tracing decorators | overlapping calls over one object; tracing that fails in mid-call | a caller gets its own model's reply; a trace tells of its own call |
| UI `ui/app.py` | the outputs of the page, the typed password, one generator per event | `ask`, `resume_gate`, `_poll_until_done_or_gate` | generators that overwrite each other's screen; a click that waits in the queue; replies that are lost or cannot be read | the password goes where it was asked for and leaves the page; the screen is true |
| Dormant order and research pipeline | — | — | not registered with the executor any more | — |
| Configuration, logging, readiness, fixtures, deployment | — | — | — | — |

Interactions: the executor calls handlers through a thread pool and the run
store directly. The store is the only channel from the Orchestrator to the
Synthesizer and from the calls of one run to each other. Handlers call the
action executor, whose outcome they record in the workflow memory, from which
a later handler replays. The chunks in Qdrant are the second channel to the
Synthesizer, which decides by the run file when to read them. The UI sees run
files only.

`PROJECT.json` lists the hazards of this code, each at its line, with the
properties that cover it.

## 2. Modules

```
UiSession    --uses-->  RunLife  <-refines--  DagExecutor  --uses-->  Planner
                                                   :
RunIndex  <-refines--  RunStore  ....files....  RunPipeline    both processes
                                                   :
PageFetch ....pages....  Answering  ....drafts....  ModelCalls
WorkflowMemory  ....steps....  ActionLoop  ....decisions....  ModelCalls
```

A dotted line is an abstraction argued below, not one that is checked yet: the
upper level assumes of the lower one what its properties establish. An arrow is
an INSTANCE or EXTENDS, and a refinement one that TLC checks and TLAPS proves.

### Planner

`build_plan` and `search` as operators: the reply of the search API at each of
three attempts decides how many requests go out (`Attempts`) and whether there is
anything to plan with (`Found`), and the request's kind decides between
`ResearchPlan`, `ActionPlan` and `NoCapability`. `PlansOf` is what `POST /trigger`
can hand over, and `exec` walks all of it, besides plans of its own. A body that is
JSON but not of the API's shape raises out of `search` (`SearchRaises`): the request
then ends in a server error, without a plan.

### RunLife

What `GET /runs/{run_id}` promises a client, as a transition system on one record: the
status, whether there is an answer, whether it is an action plan. `Lifecycle` in
DagExecutor says that the executor implements it, whatever overlaps, crashes or fails:
a terminal status stays, an action run is answered by the write that ends it (by none
if the breaker ended it), a pause is left only by a resume. Two resumes that are
accepted together are "contended": of such a run nothing is promised, neither there
nor in UiSession, which has this life as its server.

### DagExecutor

One run, for every plan in `Plans`. A plan is what `_build_graph` and the planner
leave: nodes in topological order, dependencies, retry budgets, a breaker
threshold, which nodes have a handler, which may ask a human. `disk` is the run
file, `mem[c]` the `RunState` object of background call `c`, `queued` and
`running` the pool, `begun` the history of all handler threads.

A call is at one `pc` label between two of its saves or waits. One action is the
code between two points where somebody else can look: `EnterNode`, `SkipNode`,
`Attempt` (mark RUNNING and submit), the ways the future is answered
(`TimeoutIfQueued` cancels, `Timeout` abandons, `HandlerRaised`,
`HandlerReturned`, `HandlerGated`), `Pause`, `GiveUp`, `Trip` and `TripSkip`,
`Finish`, `FinalSave`, `Announce`. `PostResume` is the HTTP handler with its
checks on the file, `LoadRun`/`Reopen`/`Refuse` the queued `resume_plan`, which
checks again. `CallDies` is a save that raises, `Crash` takes all calls and
threads. Handlers are abstracted to their outcome.

### RunStore and RunIndex

`RunStore` has directory entries and inodes: `Unlink` a left-over `.tmp`, `Open`
(which truncates), `Fill` (which may be observed half done), `Replace`, then the
same for the index between `Lock` and unlock, around `ReadIndex`. `Prune` removes
the file and goes on to the index. `RunIndex` is a map that is updated
in one step; `AtomicIndex` says that `RunStore` implements it with the map
`Index`, what a reader finds in `index.json`.

### RunPipeline

Both processes on the run files and the index. A run file has one writer at a time,
and is whole (`FilesWhole` of RunStore); `Garble` is one that has become unreadable
otherwise, by a failure of the machine or another version's fields, and stays so until
it is written or pruned. The index is read and written in two steps, and by both
processes through one `.tmp` file, about which RunStore with one process says nothing:
if both write at once (`OrchWriting`, `SynthWriting`), `Rewrite` leaves either's index,
the old one or one that does not parse, which readers take for an empty one. A run is
reduced to what `DagExecutor` shows of it: it runs, then ends once, an action run with
its answer, or none, in that write (`Lifecycle`, `ActionAnswered`). The watcher's loop
is its stages: `Start`, `Poll`, `Load` or `LoadRaises`, `Tell`, `Store`/`Persist`,
`ReadIndex`/`WriteIndex`, `Mark`, `Prune`, `Sleep`; `PollFails` is any other exception.

### WorkflowMemory

Handler threads attempt tasks (`Replay` if the trust gate lets a record through,
`Explore` otherwise), act, and record: `AcquireToken` and `SetToken` (the SET
took effect, the reply was lost), `AcquireTimeout`, `RedisUnreachable`,
`AcquireMutex`, `Expire` for the time to live, `Read`, `Write`, `Release` with
the compare-and-delete. `Scroll` and `Delete` are the sweep.
Qdrant's nearest neighbour is `Near`: which stored tasks a search may return.

### ActionLoop

The three functions of `action_executor.py` as the steps of one thread, with the
model and the page as its environment: `Decide` (anything the parser can return,
with the payment guard), `Execute`, `Observe` (the HTML changed or not), `Recover`
and `Hint`, `Exhausted`; `FillDirect`, `AskForField`, `FillLocated`,
`AskToSubmit`, `Submit`, `Confirm` of the login; `ReplayStep` of a replay and its
fallback to exploring. `Fail` is an exception at any call, at each place where the
code catches it. A success is stored as the handler does and can be replayed by
a later call; `Legacy` holds workflows written by a version that knew
fewer payment words. Two histories count what is done to the page: `acted` in this
browser session, and `performed`, the kinds of all actions of the call in order, those
of a replay that was given up included.

### PageFetch

Calls of `handle_fetch_pages`, of one run and of others, each with a pool of
threads, one per page. A thread looks into the robots cache (`StartPage`), takes
the domain's lock and looks again (`LockDomain`), reads robots.txt (`ReadRobots`:
rules, or anything else, which allows all), reserves its turn under the limiter's
lock (`EnterThrottle`, `ReserveTurn`), sleeps, and asks the site (`FetchFast`, with
the PDF path in it, and `FetchWithPlaywright` after another turn). `PauseForGate`,
`PassGate` and `KeepPages` are the handler's decision, `ResumePages` the call after
the human's answer. Time is relative: `due` and `wait` count down with `Tick`, a
thread may be late for any time, and the history variable `credit` (capped at what
all threads together could spend) says whether more page requests were made than the
gaps that have passed allow. The requests that the code does not throttle, for
robots.txt and past a gate, are not charged to it.

### Answering

From fetched pages to an answer. The executor's part is reduced to one attempt at
the fetch node and several at the embed node, each of which may be abandoned:
`FetchReturns` and the threads of `StorePage`/`LosePage` go on whether or not
anybody waits. Text is a length; `Starts` is where `chunk_text` begins its
windows, as a recursive function, and a point of the collection is a run, a page
and a window, since ids are made of these. `usable` is `RunContext`, `noted` the
count `handle_fetch_pages` writes into the plan's node, `saved` that count in the
run file. `Draft` is the Synthesizer: the search over the run's own chunks (any of
the best, or nothing if Qdrant fails), the sources, and the counts that make the
caveat. A human's gate is left to PageFetch: a page behind one is a page without
text.

### UiSession

One browser page. Gradio runs each event in a generator of its own, at most one
per event: "click" and "enter" are `ask()`, "continue" is `resume_gate()`. Every
yield of any of them sets the whole page (`Hidden`, `Prompting`, `Continuing`,
`Retrying`), but a box that is hidden keeps what was typed, and one that is
cleared stays where it is. One action is a request with the yield after its reply:
`Ask`, `Triggered`/`TriggerFails`; in the loop all share `LoseContact`, `ShowAnswer`,
`ShowGate`, `Tick` and `TimeOut`. A resume takes two steps before its reply. At the
click (`Continue`) the browser sends what the boxes hold; the run id is a `gr.State`,
which stays on the server and is read when the queued event starts (`ResumeStarts`, or
`NothingToResume` if a yield has cleared it). Then it is `Accepted`, `Rejected` or
`Unreachable`. Three replies end a generator without a yield (`Dies`): an error to
the resume whose body is not JSON (`Garbled`), and a success whose body is not, to the
trigger or to a poll (`TriggerGarbled`, `PollGarbled`). `box` remembers for which run's
prompt the password was typed, `died` which events' last generators died so, and
`alone` that no question has been under way since the last click on Continue. The
server is RunLife per run, and the tasks of accepted resumes, which
start later, in any order, or two at once (`BothStart`).

### ModelCalls

The calls a process makes through one wrapper, the text one (a primary and a
fallback backend, one call at a time, since the Synthesizer has one thread) or the
vision one (one backend, a call for every handler thread). `FindAttempted`,
`Claim` and `BuildClient` are `_get_client`, between whose steps other threads
run; `StartTrace` to `Raise` the decorator around `Answers`, `FallsBack` and
`Fails`. `last` is what the wrapper carries from a call to its trace.

## 3. Runs

Every property of a passing run has a mutant in `PROJECT.json`: a plausible bug in
one definition under which the same run reports that property violated. To run one
by hand: `tlc -config exec.cfg MCDagExecutor.tla`.

| Run | Instance | What it shows |
|---|---|---|
| `exec` | every plan of the planner and all DAGs of up to 3 nodes with the shapes listed in `MCDagExecutor`, one execute and two resume calls, pool of 2, one fault | verdict, pause and dependency invariants, attempt budget, one answer unless the breaker ended the run; the file lives as RunLife says; every call returns, a run settles |
| `store` | two threads of one process, a shared run, an old one, one crash | whole files, an index that agrees and is atomic, saves end |
| `pipeline` | one run of each kind, one fault | draft, announce, mark and prune in the right order; what stays listed is announced, unless an unreadable file is listed as well |
| `pipeline_action` | same | *violation:* an action run's answer is replaced |
| `memory` | two threads, one task, three attempts, one fault | verified steps only, atomic updates, locks kept, recording ends |
| `memory_sweep` | same, no fault | *violation:* a working record is swept |
| `action` | three steps, both credential sets, a legacy workflow with a payment step | no payment, honest outcomes, no password in steps, bounded effort; a memory says, action by action, what the successful browser session did |
| `fetch` | two calls, three pages of one domain (a PDF, a disallowed one), gap of two ticks | robots.txt once and first, the rate of page requests kept, the human asked once, every call ends or pauses |
| `answer` | two runs, a page of one chunk and one of three, two attempts, one failing call | only fetched pages of the same run are cited, the caveat is true, a completed run's pages can be found whole |
| `answer_partial` | one run, no failing call | *violation:* chunks are stored after a run has ended |
| `session` | two runs, three generators, two polls, two pauses, one fault | a password goes only to the run that asked for it, unless another question is asked meanwhile, and leaves the page; the screen is true |
| `models` | three calls, either wrapper, each setting, three failures | an answer is never lost to tracing; the Synthesizer's traces tell of their own call |

Ten more configurations each show a property violated that the code's text claims
(section 5); they are kept beside the runs: `exec_answer.cfg`, `exec_broken.cfg` and
`exec_overlap.cfg` (with `MCDagExecutor`), `store_processes.cfg` (`MCRunStore`),
`pipeline_unreadable.cfg` (`MCRunPipeline`), `action_stall.cfg`, `action_fallback.cfg`
and `action_recovered.cfg` (`MCActionLoop`), `session_password.cfg` (`MCUiSession`),
`models_reports.cfg` (`MCModelCalls`).

**Bounds.** Three nodes leave room for a node before and one after a failed or paused
one, and for a node with two dependencies; the nodes are walked one after the other,
so that a fourth repeats the third. Two resumes are the least that can overlap; a pool
of two is full with one abandoned thread and one queued. Two writers with two runs
each show every pairing of the index's readers and writers, and one crash leaves every
left-over a crash can leave. One fault at a time everywhere: the handlers of a second
one are those of the first. Three attempts are needed for the memory's races: one that
is read, one that overwrites it, one that replays. Three threads on one domain are the
least of which one is reserving a turn while another sleeps and a third has just been
served; a gap of two ticks leaves a tick between two turns. Three steps of the action
loop hold an act, the stall it causes, its recovery and an end. Pages of two and six
units with windows of three and an overlap of one have one window and three, the last
of them cut by the end of the text. Two runs in the browser are the least of which one
can replace the other's prompt; two polls leave one after a change of the screen, and
two pauses let a run ask again. Three model calls let one find on the wrapper what two
others left. `action` also limits itself to replays once this code has stored a
workflow (`Fresh`); a replay may still fall back to exploring.

**Deadlock** is not checked where the system may rest: all calls returned, all
operations of the bound used. `action` and `fetch` check it.
`session` uses the symmetry of its two runs and `models` that of its three calls;
neither has a temporal property.

**Fairness.** Only what the code's scheduling gives:

- `DagExecutor`: each call's own steps. A background task is a thread, and
  `future.result(timeout=...)` answers whatever the pool does. Nothing of the
  human, of the pool or of a handler: it may hang for ever;
- `RunStore`: each writer's steps while it is alive;
- `RunPipeline`: the Orchestrator's index updates, and the Synthesizer's loop,
  start included: `restart: unless-stopped`, and `poll_loop` catches what an
  iteration raises. Pruning and ageing are not fair;
- `WorkflowMemory`: a worker's recording, and a Redis key's time to live;
- `PageFetch`: each thread's steps (it takes each lock a bounded number of times, so
  that nobody is kept from one for ever), a call's conclusion, and time. A request is
  answered or fails: HTTP requests and `page.goto` have a timeout; `page.content()` has
  none (`page_fetcher.py`'s browser path), and that it returns is assumed. The human
  need not answer;
- `ActionLoop`: none. The model's calls have a timeout, but `page.evaluate`,
  `page.content`, mouse and keyboard input and `browser.close` have none, so that a
  handler may hang in any of them for ever, as `DagExecutor` lets handlers do;
- `Answering`, `UiSession`, `ModelCalls`: none, they have safety properties only.

## 4. Proofs

Each component has its theorems in a module `<component>_proofs` (Answering and
ModelCalls share `Drafting_proofs`). They hold for
every value of the constants that the named assumptions allow; those assumptions
say what the constants are (finite sets of runs, natural bounds, disjoint kinds of
run), not how the system behaves. Where a theorem needs more, it is a hypothesis
of the theorem, named below: `OneProcess`, `Protected`, `LegacyIsClean`, and that the
runs of UiSession are finitely many for its type invariant.

All proofs have the same shape: an inductive invariant, a lemma for each action (or
group of actions), and theorems that conclude from it. Properties have the names they
have in the runs.

### The executor

`DagExecutor_proofs` proves, for every set of plans, calls, pool size and number of
faults:

| Theorem | Statement |
|---|---|
| `TypeCorrect` | `Spec => []TypeOK` |
| `CompletedIsComplete` | `Spec => []CompletedMeansAllSucceeded` |
| `OutcomeIsConsistent` | `Spec => []OutcomeMatchesNodes` |
| `PausedCanResume` | `Spec => []PauseIsResumable` |
| `HandlersFindDependencies` | `Spec => []DependenciesFirst` |
| `EndedIsAnswered` | `Spec => []ActionAnswered`: an action run that completed or failed has its answer and was announced, one that the breaker ended has none |
| `CompletedRunsDidRun` | a completed run of a plan without a gated node, as the planner's action plan is, is not answered "did not run" |
| `AttemptsAreBounded` | `Spec => []WithinAttemptBudget` |
| `RunsLiveAsShown` | `Spec => Lifecycle`: every step of the executor is one of RunLife or a stutter |
| `PlansAreShaped` | every plan of `PlansOf` satisfies `PlanShape`, so that the assumption on `Plans` is what the planner delivers |

They rest on three assumptions on the constants: `PlansAssumption` (dependencies
point backwards in the topological order, a breaker threshold of at least one),
`CallsAssumption` (one of the calls is `execute_plan`) and `BoundsAssumption`.

None of these properties is inductive. The verdict is computed as "no
node FAILED and the breaker is closed", so that it is right only because every
node the walk has passed is settled and everything ahead is pending; the counter
is raised in a write after the one that marks the node; a pause is marked
before its request is written; and any other call, at any of its own labels, may
overwrite the file with its object. The invariant is

    IInv == TypeOK /\ DiskInv /\ (\A c \in Calls : WalkInv(c)) /\ ThreadInv

- `WalkInv(c)`: at each label, what `mem[c]` holds: settled behind the cursor,
  pending ahead, the counter equal to the failed nodes (one behind between the two
  writes), below the threshold while walking, and no skipped node unless a
  dependency failed;
- `DiskInv`: the file is at all times a snapshot that is absent, in
  progress, resumable or finished. That is what makes overlap harmless for these
  properties: whichever call wrote last, the file is a state of one walk;
- `ThreadInv`: a thread that is queued, running or was ever started belongs to
  a node whose dependencies have succeeded in its call's object, and a
  succeeded node of that object stays so. It covers abandoned threads started late.

Each action has a lemma that it takes the acting call from one such state to
another and leaves the others alone; `MarkFacts`, `MarkCount`, `FailFacts` and
`FailedFinite` carry the counting of failed nodes.

What a run's life is, over all its calls, needs more:

    LInv == IInv /\ BornInv /\ AnswerInv /\ AloneInv /\ GateInv /\ BudgetInv

`BornInv` says that nothing exists before `execute_plan` begins, `AnswerInv` that a
call carries an answer exactly from its announcement on, `GateInv` that only a
node that may ask a human waits for one. `AloneInv` and `BudgetInv` speak of the
time before two calls overlap, which `exec_overlap.cfg` shows they can: one call is
active at a time, a call works only on nodes that no earlier one has got to, except
for the node at which that one stopped, and the run was announced once at most.
From an overlap on, RunLife promises nothing of a run ("contended"), and
`WithinAttemptBudget`, the single announcement and that a run ended by the breaker was
never announced are stated up to it.

`AnswerIsTrue` is refuted (section 5): a run whose action timed out may be answered
"did not run" while the action goes on. `CompletedRunsDidRun` is what is left of
it. Without a gated node the file never waits, so that no second call is ever accepted,
and a node is marked as succeeded only after its thread has left its result
(`RanInv`); a resumed call would start from an empty `RunContext.data` instead.

### The run store

`RunStore_proofs` proves, for any finite sets of runs and writers
(`FiniteAssumption`), whatever operations they make, and any number of crashes:

| Theorem | Statement |
|---|---|
| `TypeCorrect` | `Spec => []TypeOK` |
| `RunFilesAreWhole` | the file of a run with one writer is absent or a whole record, in any number of processes |
| `FilesAreWhole` | `OneProcess` implies `Spec => []FilesWhole` |
| `IndexAlwaysAgrees` | `OneProcess` implies `Spec => []IndexAgrees` |
| `IndexIsAtomic` | `OneProcess` implies `Spec => AtomicIndex`, the refinement of RunIndex |

`OneProcess` is what `_index_lock` covers, a `threading.Lock`. The compose file
has two processes, for which `store_processes.cfg` shows that `IndexAgrees` fails;
of the run files `RunFilesAreWhole` holds all the same.

`LockInv` and `HeapInv` (no inode has two names, and one that is open for writing is
known to others under none) give `FileInv`: for every path only one writer works on
at a time, what is about to be renamed over it was written whole. On top of
that `ReadInv` says that the index as a writer read it is still the index when it
writes, and `ReportInv` that what a writer is about to report is what its run's file
says.

### The Synthesizer's watcher

`RunPipeline_proofs` proves, for any finite set of runs and any number of polls,
failed polls and restarts: `TypeCorrect`, `OnlyEndedRunsAreDrafted` (`DraftsAreFinal`),
`MarkedRunsWereTold` (`SeenWasTold`), and the action properties
`SeenRunsAreNotToldAgain` (`ToldOnceSeen`) and `PrunedRunsWereTold`
(`PruneAfterTold`, which speaks of the time before anything has failed). `RefusalsAreKept`
is the counterpart of the action answer that `pipeline_action` finds overwritten: the
refusal of a `no_capability` run is neither drafted over nor announced by the
Synthesizer.

Both processes write the index from copies that may be long out of date, through one
`.tmp` file whose content may be the other's, and nothing keeps a run's status in it
from going backwards. What holds is that a run ends once: wherever it is listed as
ended, in the index, in a copy or in what is owed to the index, its file has ended or
is gone (`EndedInv`). `BatchInv` and `SeenInv` follow a poll through its stages, with
what is known of its batch in each. `OldInv` says that nothing is owed to the index for
a run that is too old, and that the Synthesizer has none in its hands when it rewrites
the index. `PruneInv` concludes, for every old run shown as ended to a reader, or in a
copy that may yet be written back, where a poll that has not failed has got to with
it: it is still listed or was told before a poll, is in the batch during one, and was
told before the sweep that follows.

### Workflow memory

`WorkflowMemory_proofs` proves, for any sets of workers, processes and keys, any
`Near` relation, and any number of attempts and faults: `TypeCorrect`,
`ReplayedWasVerified` (`StepsAreVerified`), `LocksAreKept` (`LockIsKept`), and
`NoOutcomeIsLost`: `Spec /\ Protected => UpdatesAreAtomic`, where `Protected` says
that Redis is configured or that all workers share a process, hence a mutex. Without
either nothing excludes two processes from each other.

Attempts are numbered in the order they begin, so that a Redis key names one attempt
(`AttemptInv`); from that follows who holds which lock (`LockInv`), a
compare-and-delete that comes late included; and from that, that what a holder has
read is still what is stored (`CopyInv`). That is for records nothing has exposed:
neither a lock that expired or was waited for too long, nor a Redis that failed when
it was asked, nor a sweep between the read and the write.

### Action executor

`ActionLoop_proofs` proves, for any `action_max_steps`, any credentials and any
workflows stored before:

| Theorem | Statement |
|---|---|
| `TypeCorrect` | `Spec => []TypeOK` |
| `PaymentsAreRefused` | `Spec => []NothingPaidFor` |
| `ReportsAreHonest` | `Spec => []OutcomeIsHonest` |
| `EffortHasABound` | `Spec => []EffortIsBounded` |
| `StoredStepsAreAll` | `Spec => []WhatWasDoneIsKept` |
| `PasswordsStayOut` | `LegacyIsClean` implies `Spec => []SecretStaysOut` |

`LegacyIsClean` says that no version before this one stored a password. A payment
step in an old workflow needs no such hypothesis: the replay looks at every step
again.

`WhatWasDoneIsKept` compares steps with actions one by one, and rests on the counts:
`OrderInv` says that the last `acted` actions performed are, in order and by kind,
those of the steps that act, where a step that is recorded but not performed yet is
beyond the count. It speaks of the browser session that succeeded, and of kinds:
section 5 has what it leaves out.

`PayInv` keeps the step about to be executed free of payment, `PlaceInv` ties the
outcome to what was seen, and `PaceInv` counts, per function. The interesting count
is the exploring loop's: an iteration acts once, and a recovery once more, but
a recovery needs two stalled iterations since the last one, so that
`2 * acted + Stalled <= 3 * (i - 1)` is what is inductive, three actions for two
iterations at most. A login types each field at most twice and presses its button
at most twice; a replay acts as often as its steps say. The attempt to prove the bound
for stored workflows of any length showed that a replay which falls back to
exploring counts anew from the launch of the second browser: if that launch fails,
the outcome is of a loop that did nothing, and `Fail` resets `acted` there as
`Launch` does.

### Page fetching

`PageFetch_proofs` proves, for any number of calls, pages and
domains (`ResultsAssumption`: finitely many) and any gap (`BoundsAssumption`):

| Theorem | Statement |
|---|---|
| `FetchTypeCorrect` | `Spec => []TypeOK` |
| `RobotsReadOnce` | `Spec => []RobotsOnce` |
| `RateIsKept` | `Spec => []RateKept` |
| `HumanIsAskedOnce` | `Spec => []AskedOnce` |

`RobotsOnce` needs `Reading` (while the domain's lock is held the cache is empty
and the holder's request is the only one; while it is free and the cache is empty
there was none) and `Quiet` (a call that is not fetching has no thread under way,
so that a resumed call cannot drop a lock of its own).

`RateKept` only speaks of page requests made, and is far from inductive. `Turns` is:
for every number `t` of ticks, the threads whose turn comes within `t` can all be
served and the credit at that time still covers them; and the next turn is far
enough ahead to cover all that wait and one more. The second part is what
`ReserveTurn` needs and restores, the first what a request needs, and a tick moves
the first from `t + 1` to `t`. `Reserving` says that the turn a thread has read is
still the next one when it writes, which is what the lock is for.

`AskedOnce` needs `Unasked`: a call that was not answered yet has not been asked
either, unless it is paused.

### From pages to an answer

`Drafting_proofs` has the theorems of Answering and of ModelCalls, the two halves of
the Synthesizer's drafting; Answering's `Init`, `Next` and `Spec` carry its name so
that one module can extend both. Of Answering it proves, for any runs, any finite
number of pages with texts of any length (`LengthAssumption`), any chunk size with a
smaller overlap (`ChunkAssumption`, which `chunk_text` enforces with its
`ValueError`), any `TopK`, number of attempts and of outages:

| Theorem | Statement |
|---|---|
| `ChunksCoverTheText` | the windows at `Starts(length)` are together the text, for every length |
| `NoChunkIsRedundant` | of two windows, the one that starts first stops short of the text's end |
| `AnsweringTypeCorrect` | `AnsweringSpec => []AnsweringTypeOK` |
| `SourcesAreOwn` | `AnsweringSpec => []SourcesWereFetched` |
| `CaveatCorrect` | `AnsweringSpec => []CaveatIsTrue` |
| `RetrievalCorrect` | `AnsweringSpec => []RetrievalIsWhole` |
| `CompletedRunsAreWhole` | once a run has completed and lost no page, its points do not change |

`Starts` is a recursive function over the places in a text. That it has a value
(`RecursionEnds`) and that its windows tile the text (`StartsTile`) is proved by the
shortest rest of a text for which it fails, which `WFMin` yields of any set of
numbers (`Least`): the induction theorems of the library, which take an operator, are
not needed.

`FetchInv` says that as long as a fetch thread works, awaited or abandoned, nothing of
its run exists, neither pages nor a count nor an embed thread, and that from its
return on the count in memory is that of the usable pages, and the count in the file
is that or none. `WalkInv` ties the run's status to the walk and to the attempt that
completed it. `PointsInv` says that every point is of a page fetched for its run, and
that of the pages a thread has passed without reporting them lost every point is
stored; that points have stable ids is what keeps this true while several threads
store the same pages. With `ChunksCoverTheText` the points of a page hold the whole
text. `CompletedRunsAreWhole` is the part of `watcher.py:9-17` that holds: what
`answer_partial` refutes is refuted by a run that failed.

### Model clients

`Drafting_proofs` proves of ModelCalls, for any set of calls and any number of failures:
`TypeCorrect`, `TracingCostsNoAnswer` (`TracingIsHarmless`) and
`TextReportsAreTheirOwn` (`TextReportsAreOwn`). `ReplyInv` follows a call through its
backends; `LastInv` says that with the text wrapper at most one call is under way,
and that one which is about to report finds on the wrapper what it left there. The
vision wrapper has no such fact (`models_reports.cfg`).

### User interface

`UiSession_proofs` proves, for any set of runs, any number of polls, pauses and
faults:

| Theorem | Statement |
|---|---|
| `TypeCorrect` | `Spec => []TypeOK`, if the runs are finitely many |
| `PasswordsStayWithTheirPrompt` | `Spec => []PasswordStaysWithItsPrompt` |
| `SentPasswordsLeave` | `Spec => []PasswordLeaves` |
| `ScreensAreTrue` | `Spec => []ScreenIsTrue` |

Each generator writes the whole screen, so that what the screen says must be tied to
the run it names whoever wrote it. `FollowInv`: if it says that a run is followed, a
generator polls it, or one has died. `TruthInv`: an answer it shows is there, and a
pause it asks about is the one the run is in, with no accepted resume outstanding.
`AskInv`: a gate that asks about the present pause has boxes for everything wanted.
`BoxInv`: a password is in the box of the run whose gate is open, or on its way with a
click made at that run's prompt. `AloneInv`: between the click and the start of the
queued event the page's run id is the one clicked at, as long as nobody asks, since
only `ask` and its polls yield another one. `session_password.cfg` shows that without
this hypothesis the password goes to another run.

`BoundInv` has the bounds of `TypeOK`: a post under way finds room for its task, and no
run has more than `MaxPauses` pauses, as the sum over all runs has not. That sum is a
fold of the community modules; what it is worth over a finite set (`SumBounds`) is
proved by the smallest subset for which it fails, as `StartsTile` is.

### Out of the proofs

- Liveness (`EveryCallReturns`, `RunSettles`, `SavesEnd`, `ListedIsTold`,
  `RecordingEnds`, `FetchEnds`) and ENABLED are out of the prover's reach;
  TLC checks them.
- Type invariants are proved, and not checked again by TLC.
- That `Overlap` is smaller than `Size` is assumed (`chunk_text` raises otherwise), and
  so is what the other named assumptions of the constants say.
- What the *violation* runs refute.

## 5. Disagreements between the code and what it says

Shown by the runs marked *violation*; `PROJECT.json` quotes both sides.

- An ended action run goes through the Synthesizer all the same, and its answer
  is overwritten (`pipeline_action`; `watcher.py:102`, `dag.py:176-182`).
- The sweep deletes a record that became trusted after it was read
  (`memory_sweep`; `qdrant_store.py:808-837`).
- A terminal status is called a reliable sign that "this run's data is actually
  all there" (`watcher.py:9-17`), but an embed thread abandoned at its timeout
  stores chunks after its run has failed, and a draft may be made of a part of them
  (`answer_partial`).

Shown by the further configurations of section 3:

- An action run whose only failure trips the breaker (a threshold of 1) ends without
  an answer and without an announcement, although the action path "reports its outcome
  synchronously here" (`executor.py:247-254`) and its answer is "set directly by
  executor.execute_plan" (`dag.py:176-182`): the breaker's return at
  `executor.py:234-241` is before both (`exec_broken.cfg`, `EndedActionsAreAnswered`).
- A timed-out action is reported as "did not run" while its thread may still be
  clicking (`exec_answer.cfg`, `AnswerIsTrue`; `executor.py:274`).
- Two accepted resumes walk the same run (`exec_overlap.cfg`, `OneWalkAtATime`;
  `executor.py:140-156`).
- The index lock does not exclude the other process (`store_processes.cfg`,
  `IndexAgrees`; `run_store.py:63-68`), nor its writes of the index's `.tmp`.
- One ended run whose file does not parse stays listed, and raises at `watcher.py:104`
  in every poll before anything is announced: no other run is told any more, for as
  long as the file stays. `list_runs` has skipping a bad file "consistent with every
  other per-item isolation in this codebase" (`run_store.py:134-136`); the poll has none
  (`pipeline_unreadable.cfg`, `ReadableIsTold`; `ListedIsTold` of the run `pipeline`
  excepts exactly this).
- The stall "proof" compares HTML, which shows neither focus nor typed text
  (`action_stall.cfg`, `StallIsProof`; `action_executor.py:65-92`, `336-339`).
- "The full sequence of what this system actually did to a real page is auditable
  after the fact" (`action_executor.py:20-22`), but what a replay did before it raised
  and fell back to exploring is in no step (`action_fallback.cfg`, `AllIsAuditable`;
  `action_executor.py:717-719`).
- A stored success is a "replayable workflow" (`models/action.py:2`), but a recovered
  click is recorded without coordinates, so that its replay raises every time
  (`action_recovered.cfg`, `StoredIsReplayable`; `action_executor.py:369-375`).
- What a human types is sent to the run of the prompt "and nowhere else"
  (`app.py:212-213`). The password comes from the browser at the click, the run id from
  the server when the queued event starts (`app.py:436`, `471`); a yield of another
  generator in between, which a question just asked or still polled makes, sends it to
  that question's run (`session_password.cfg`, `PasswordGoesWhereAsked`).
- A vision call's trace reports another call's tokens: calls overlap on one
  wrapper, and a reply without usage leaves the last one there
  (`models_reports.cfg`, `ReportsAreOwn`; `vision_wrapper.py:68-72`, `104-110`).

Noticed while modelling, and in the models, without a property:

- one run of a batch whose announcement raises makes the others be announced again at
  the next poll, although `watcher.py:156-159` says that "per-run failures are already
  caught" (`PollFails`). Retrieval is not among the causes: `semantic_search_pages`
  never raises; instead a run whose search failed once is drafted without sources for
  good (`Searches`);
- `search` "catches everything (timeout, HTTP error, malformed response)"
  (`search_wrapper.py:5-10`), but a body that is JSON of another shape is only looked
  at behind its `try` and raises (`SearchRaises`; `search_wrapper.py:43`);
- robots.txt and the rate limit "apply to every real network attempt" (`page_fetcher.py:17-21`),
  but the request for robots.txt (`robots.py:70`) and the browser session that passes a
  gate (`page_handlers.py:87`) take no turn at the domain (`LockDomain`, `PassGate`);
- a page whose chunks could not be stored is logged and skipped, and the answer
  states no partial set, although `draft_answer` "always states when the answer is
  based on a partial set" (`LosePage`: the caveat counts fetched pages,
  `drafter.py:273`);
- two first calls may both build a tracing client, calls in between are not
  traced, and a construction that fails takes away one that succeeded
  (`FindAttempted`, `BuildClient`; `langfuse_tracer.py:74-89`);
- the client polls right after its resume, may still see the run paused and asks
  the human again; a prompt that another generator's tick hides leaves a paused run
  nobody follows; a rejected resume does not restore the password box after
  another generator has hidden it (`ScreenIsTrue` is stated up to these);
- an error reply that is not JSON leaves the password in its box (`Garbled`;
  `app.py:235`), although it "is cleared in every yield", and so does a resume that
  finds no run id, whose yield hides the box and does not clear it
  (`NothingToResume`; `app.py:218-223`), until the next gate does;
- a success that is not JSON ends a generator without a yield, so that the page says
  "Sending" or "Working" for good (`TriggerGarbled`, `PollGarbled`; `app.py:185`, `118`);
- a resumed fetch uses the human's answer for the first gate it meets then
  (`PassGate`; `page_handlers.py:71`), which need not be the one the prompt named,
  nor on `demo_target`, as `PendingInputRequest` (`dag.py:112-118`) has it;
- `replay_workflow`'s docstring (`action_executor.py:672-677`) has the payment guard
  fall back to the live loop, the code returns a refusal (694-710); a replay that
  fails half way explores from the start, although `action_handlers.py:22-25` warns
  against repeating actions; `out_dir.mkdir` is before the `try` of a function
  documented to never raise.

## 6. Not modelled, and why

- How text is extracted from a page and which words make it a gate: any outcome is
  possible in `PageFetch`.
- Which words make a command rather than a question, prompts, footers and the
  redaction of flagged text: wording.
- The API key check and the webhook's translation: functions without state.
- Where an element is on the page (the JavaScript matchers, the 60 px snap) and
  how a model's answer is parsed: the environment of `ActionLoop` may return any
  result. A login without a password is left out, as nothing calls it so.
- Similarity: a search returns any of the run's chunks, a memory any near task.
  `prune_old_page_chunks`: it deletes chunks a week after their page was fetched.
  Candidates with the same URL, which would share their points.
- `list_runs`: a read without state. `analyze()` of the vision wrapper: dormant.
- The order and research pipeline, which is not registered any more; fixtures,
  logging, configuration (its values are the CONSTANTS), deployment.

## 7. Plan

1. *Done:* DagExecutor with Planner, its safety proofs and the run life it
   implements, RunIndex and RunStore, RunPipeline, WorkflowMemory, ActionLoop,
   PageFetch and its proofs, Answering, UiSession, ModelCalls.
2. *Done:* proofs of the type invariants, the safety properties and the refinements
   of all components.
3. An atomic counter record that WorkflowMemory is shown to implement; RunPipeline
   and Answering composed, with chunks swept by age.
