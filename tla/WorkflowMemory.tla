---------------------------- MODULE WorkflowMemory ----------------------------
(***************************************************************************)
(* What the action path learns: one WorkflowMemory record per task in      *)
(* Qdrant.  An attempt (agents/web_navigator/action_handlers.py) looks for *)
(* a record it may trust and replays its steps, or explores; its outcome   *)
(* is folded into the record by record_workflow_outcome, a read, a merge   *)
(* and a write under a lock; the Synthesizer sweeps old, untrusted records *)
(* (agents/common/qdrant_store.py).                                        *)
(*                                                                         *)
(* The lock is a threading.Lock per record or, when Redis is configured, a *)
(* key with a token and a time to live.  Whatever goes wrong with it, the  *)
(* outcome is written all the same: then updates may be lost, but only     *)
(* then.                                                                   *)
(***************************************************************************)
EXTENDS Integers

CONSTANTS
  Keys,          \* canonical keys: one per domain and normalised intent
  Near,          \* the keys on its domain a search for a task may find similar
  Workers,       \* handler threads
  Process,       \* the process each of them belongs to
  MinSuccess,    \* action_workflow_min_success_count
  TrustNum, TrustDen, \* action_workflow_min_trust_ratio, as a fraction
  MaxAttempts,   \* attempts explored
  MaxFaults      \* failures of Redis and Qdrant explored

ASSUME NearAssumption == Near \in [Keys -> SUBSET Keys]
ASSUME TrustAssumption ==
  /\ MinSuccess \in Nat /\ TrustNum \in Nat /\ TrustDen \in Nat \ {0}
  /\ TrustNum <= TrustDen
ASSUME BoundsAssumption == MaxAttempts \in Nat /\ MaxFaults \in Nat

VARIABLES
  redis,         \* whether Redis is configured, a constant of the behaviour
  memory,        \* the records
  old,           \* records unused for longer than the retention limit
  token,         \* the Redis key of each record's lock: the attempt holding it, or 0
  mutex,         \* the in-process locks: their holders
  pc,            \* where each worker is
  attempt,       \* the number of the attempt it makes
  task,          \* the record its outcome goes to
  replayed,      \* the steps it replays, 0 when it explores
  outcome,       \* what came of it
  copy,          \* the record as it read it
  lock,          \* how its write is protected
  stale,         \* the records the sweep has found to delete
  attempts, faults,
  verified,      \* history: the step sequences that were seen to work
  lapsed,        \* history: attempts whose Redis key expired under them
  exposed        \* history: records written at least once without protection

worker == <<pc, attempt, task, replayed, outcome, copy, lock>>
locks == <<token, mutex>>
history == <<verified, lapsed, exposed>>
vars == <<redis, memory, old, locks, worker, stale, attempts, faults, history>>

-----------------------------------------------------------------------------
\* Steps are told apart by the attempt that recorded them; 0 is no steps.
NoRecord == [successes |-> 0, failures |-> 0, steps |-> 0]
Record == [successes : Nat, failures : Nat, steps : 0..MaxAttempts]
Outcome == [success : BOOLEAN, steps : 0..MaxAttempts]
Nothing == [success |-> FALSE, steps |-> 0]
Stored(k) == memory[k] # NoRecord

\* trust_ratio < action_workflow_min_trust_ratio; a record has an attempt.
Untrusted(m) == m.successes * TrustDen < TrustNum * (m.successes + m.failures)
Replayable(m) == m # NoRecord /\ m.successes >= MinSuccess /\ ~Untrusted(m)

Init ==
  /\ redis \in BOOLEAN
  /\ memory = [k \in Keys |-> NoRecord] /\ old = {}
  /\ token = [k \in Keys |-> 0]
  /\ mutex = [p \in {Process[w] : w \in Workers} |-> [k \in Keys |-> {}]]
  /\ pc = [w \in Workers |-> "idle"] /\ attempt = [w \in Workers |-> 0]
  /\ task \in [Workers -> Keys] /\ \A v, w \in Workers : task[v] = task[w]
  /\ replayed = [w \in Workers |-> 0] /\ outcome = [w \in Workers |-> Nothing]
  /\ copy = [w \in Workers |-> NoRecord] /\ lock = [w \in Workers |-> "none"]
  /\ stale = {} /\ attempts = 0 /\ faults = 0
  /\ verified = {} /\ lapsed = {} /\ exposed = {}

At(w, where) == pc[w] = where
Goto(w, where) == pc' = [pc EXCEPT ![w] = where]
Fault == faults < MaxFaults /\ faults' = faults + 1

-----------------------------------------------------------------------------
(* handle_execute_action.                                                  *)

BeginAttempt(w, k, steps) ==
  /\ At(w, "idle") /\ attempts < MaxAttempts
  /\ attempts' = attempts + 1
  /\ attempt' = [attempt EXCEPT ![w] = attempts + 1]
  /\ task' = [task EXCEPT ![w] = k]
  /\ replayed' = [replayed EXCEPT ![w] = steps]
  /\ Goto(w, "act")
  /\ UNCHANGED <<redis, memory, old, locks, outcome, copy, lock, stale, faults, history>>

\* find_workflow_memory returns the most similar record if it may be trusted; the
\* replay, and what it falls back to, are recorded for that record's intent.
Replay(w) ==
  \E k \in Keys : \E m \in Near[k] :
    Replayable(memory[m]) /\ BeginAttempt(w, m, memory[m].steps)

\* Nothing similar enough, the most similar not trusted, or the search failed.
Explore(w) == \E k \in Keys : BeginAttempt(w, k, 0)

\* The browser.  A replay works, is refused, or falls back to exploring; what
\* exploring does is recorded as this attempt's steps.
Act(w) ==
  /\ At(w, "act")
  /\ \E s \in BOOLEAN, n \in {attempt[w], replayed[w]} \ {0} :
       /\ outcome' = [outcome EXCEPT ![w] = [success |-> s, steps |-> n]]
       /\ verified' = IF s THEN verified \cup {n} ELSE verified
  /\ Goto(w, IF redis THEN "redis" ELSE "lock")
  /\ UNCHANGED <<redis, memory, old, locks, attempt, task, replayed, copy, lock, stale,
                 attempts, faults, lapsed, exposed>>

-----------------------------------------------------------------------------
(* _distributed_lock_for_workflow.                                         *)

Enter(w, protection) ==
  /\ lock' = [lock EXCEPT ![w] = protection]
  /\ Goto(w, "read")
  /\ UNCHANGED <<redis, memory, old, attempt, task, replayed, outcome, copy, stale,
                 attempts, verified, lapsed>>

\* Slip: SET without NX.
SetToken(w) ==
  /\ At(w, "redis")
  /\ token' = [token EXCEPT ![task[w]] = attempt[w]]
  /\ Enter(w, "redis")
  /\ UNCHANGED <<mutex, faults, exposed>>

AcquireToken(w) ==
  /\ At(w, "redis") /\ token[task[w]] = 0
  /\ token' = [token EXCEPT ![task[w]] = attempt[w]]
  /\ Enter(w, "redis")
  /\ UNCHANGED <<mutex, faults, exposed>>

\* Somebody else's for too long: the write goes ahead without a lock.
AcquireTimeout(w) ==
  /\ At(w, "redis") /\ token[task[w]] # 0 /\ Fault
  /\ exposed' = exposed \cup {task[w]}
  /\ Enter(w, "free")
  /\ UNCHANGED locks

\* Redis does not answer; it may have set the key all the same.
RedisUnreachable(w) ==
  /\ At(w, "redis") /\ Fault
  /\ \/ UNCHANGED token
     \/ token[task[w]] = 0 /\ token' = [token EXCEPT ![task[w]] = attempt[w]]
  /\ exposed' = exposed \cup {task[w]}
  /\ Goto(w, "lock")
  /\ UNCHANGED <<redis, memory, old, mutex, attempt, task, replayed, outcome, copy, lock,
                 stale, attempts, verified, lapsed>>

\* _lock_for_workflow, the lock of this process.
AcquireMutex(w) ==
  /\ At(w, "lock") /\ mutex[Process[w]][task[w]] = {}
  /\ mutex' = [mutex EXCEPT ![Process[w]][task[w]] = {w}]
  /\ Enter(w, "mutex")
  /\ UNCHANGED <<token, faults, exposed>>

InSection(w) == pc[w] \in {"read", "write"}

\* The time to live runs out, also on a holder that is only slow.
Expire(k) ==
  /\ token[k] # 0
  /\ token' = [token EXCEPT ![k] = 0]
  /\ IF \E w \in Workers : InSection(w) /\ lock[w] = "redis" /\ attempt[w] = token[k]
     THEN Fault /\ exposed' = exposed \cup {k} /\ lapsed' = lapsed \cup {token[k]}
     ELSE UNCHANGED <<faults, lapsed, exposed>>
  /\ UNCHANGED <<redis, memory, old, mutex, worker, stale, attempts, verified>>

-----------------------------------------------------------------------------
(* record_workflow_outcome, inside the lock.                               *)

Read(w) ==
  /\ At(w, "read")
  /\ \/ copy' = [copy EXCEPT ![w] = memory[task[w]]] /\ Goto(w, "write") /\ UNCHANGED faults
     \/ Fault /\ Goto(w, "release") /\ UNCHANGED copy
  /\ UNCHANGED <<redis, memory, old, locks, attempt, task, replayed, outcome, lock, stale,
                 attempts, history>>

\* A success brings its steps along, a failure only counts.
Merged(m, o) ==
  IF o.success THEN [successes |-> m.successes + 1, failures |-> m.failures, steps |-> o.steps]
  ELSE [m EXCEPT !.failures = @ + 1]

\* Slip: every attempt brings its steps along.
MergedAlways(m, o) ==
  IF o.success THEN [successes |-> m.successes + 1, failures |-> m.failures, steps |-> o.steps]
  ELSE [m EXCEPT !.failures = @ + 1, !.steps = o.steps]

WriteWith(w, m) ==
  /\ At(w, "write")
  /\ \/ /\ memory' = [memory EXCEPT ![task[w]] = m]
        /\ old' = old \ {task[w]}
        /\ UNCHANGED faults
     \/ Fault /\ UNCHANGED <<memory, old>>
  /\ copy' = [copy EXCEPT ![w] = NoRecord]
  /\ Goto(w, "release")
  /\ UNCHANGED <<redis, locks, attempt, task, replayed, outcome, lock, stale, attempts,
                 history>>

\* Slip: a failed attempt's steps replace the ones that worked.
WriteSteps(w) == WriteWith(w, MergedAlways(copy[w], outcome[w]))

Write(w) == WriteWith(w, Merged(copy[w], outcome[w]))

Return(w) ==
  /\ lock' = [lock EXCEPT ![w] = "none"]
  /\ replayed' = [replayed EXCEPT ![w] = 0]
  /\ outcome' = [outcome EXCEPT ![w] = Nothing]
  /\ attempt' = [attempt EXCEPT ![w] = 0]
  /\ Goto(w, "idle")
  /\ UNCHANGED <<redis, memory, old, task, copy, stale, attempts, history>>

Released(w) == [mutex EXCEPT ![Process[w]][task[w]] = @ \ {w}]

\* Slip: DEL, whoever holds the key.
ReleaseAny(w) ==
  /\ At(w, "release")
  /\ token' = IF lock[w] = "redis" THEN [token EXCEPT ![task[w]] = 0] ELSE token
  /\ mutex' = IF lock[w] = "mutex" THEN Released(w) ELSE mutex
  /\ Return(w)
  /\ UNCHANGED faults

\* Slip: the lock of this process is kept.
ReleaseNone(w) ==
  /\ At(w, "release")
  /\ token' = IF lock[w] = "redis" /\ token[task[w]] = attempt[w]
              THEN [token EXCEPT ![task[w]] = 0] ELSE token
  /\ Return(w)
  /\ UNCHANGED <<mutex, faults>>

\* The Redis key is deleted only if it still has this attempt's token; if Redis
\* does not answer it is left to expire.
Release(w) ==
  /\ At(w, "release")
  /\ \/ /\ token' = IF lock[w] = "redis" /\ token[task[w]] = attempt[w]
                    THEN [token EXCEPT ![task[w]] = 0] ELSE token
        /\ UNCHANGED faults
     \/ lock[w] = "redis" /\ Fault /\ UNCHANGED token
  /\ mutex' = IF lock[w] = "mutex" THEN Released(w) ELSE mutex
  /\ Return(w)

-----------------------------------------------------------------------------
(* prune_stale_workflows: all old records are read, then some deleted.     *)

Age(k) ==
  /\ Stored(k) /\ k \notin old
  /\ old' = old \cup {k}
  /\ UNCHANGED <<redis, memory, locks, worker, stale, attempts, faults, history>>

Scroll ==
  /\ stale = {}
  /\ stale' = {k \in old : Stored(k) /\ Untrusted(memory[k])}
  /\ stale' # {}
  /\ UNCHANGED <<redis, memory, old, locks, worker, attempts, faults, history>>

\* A record may be deleted between the read and the write of an attempt, which
\* then brings it back.
Delete ==
  /\ stale # {}
  /\ memory' = [k \in Keys |-> IF k \in stale THEN NoRecord ELSE memory[k]]
  /\ old' = old \ stale
  /\ exposed' = exposed \cup {k \in stale : \E w \in Workers : At(w, "write") /\ task[w] = k}
  /\ stale' = {}
  /\ UNCHANGED <<redis, locks, worker, attempts, faults, verified, lapsed>>

-----------------------------------------------------------------------------
RecordStep(w) ==
  \/ Act(w) \/ AcquireToken(w) \/ AcquireTimeout(w) \/ RedisUnreachable(w)
  \/ AcquireMutex(w) \/ Read(w) \/ Write(w) \/ Release(w)

Next ==
  \/ \E w \in Workers : Replay(w) \/ Explore(w) \/ RecordStep(w)
  \/ \E k \in Keys : Expire(k) \/ Age(k)
  \/ Scroll \/ Delete

Spec == Init /\ [][Next]_vars

\* A handler thread keeps running, and a Redis key does expire.
FairSpec ==
  /\ Spec
  /\ \A w \in Workers : WF_vars(RecordStep(w))
  /\ \A k \in Keys : WF_vars(Expire(k))

-----------------------------------------------------------------------------
(* Properties.                                                             *)

\* Type invariant: a record has steps to replay exactly if it has a success.
TypeOK ==
  /\ redis \in BOOLEAN
  /\ memory \in [Keys -> Record]
  /\ \A k \in Keys : memory[k].steps # 0 <=> memory[k].successes > 0
  /\ old \subseteq {k \in Keys : Stored(k)}
  /\ token \in [Keys -> 0..MaxAttempts]
  /\ mutex \in [{Process[w] : w \in Workers} -> [Keys -> SUBSET Workers]]
  /\ \A p \in DOMAIN mutex : \A k \in Keys : \A v, w \in mutex[p][k] : v = w
  /\ pc \in [Workers -> {"idle", "act", "redis", "lock", "read", "write", "release"}]
  /\ attempt \in [Workers -> 0..MaxAttempts] /\ task \in [Workers -> Keys]
  /\ replayed \in [Workers -> 0..MaxAttempts] /\ outcome \in [Workers -> Outcome]
  /\ copy \in [Workers -> Record]
  /\ lock \in [Workers -> {"none", "redis", "mutex", "free"}]
  /\ stale \subseteq Keys
  /\ attempts \in 0..MaxAttempts /\ faults \in 0..MaxFaults
  /\ verified \subseteq 1..MaxAttempts /\ lapsed \subseteq 1..MaxAttempts
  /\ exposed \subseteq Keys

\* What is replayed on a real page was once seen to work, whatever has failed
\* since and however the attempts' writes raced: a failed attempt "NEVER
\* overwrites a known-good step sequence" (qdrant_store.py:662-666).
StepsAreVerified ==
  /\ \A k \in Keys : memory[k].successes > 0 => memory[k].steps \in verified
  /\ \A w \in Workers : replayed[w] # 0 => replayed[w] \in verified

\* n is m with one more attempt counted.
OneMore(m, n) ==
  \/ n = [m EXCEPT !.failures = @ + 1]
  \/ n.successes = m.successes + 1 /\ n.failures = m.failures /\ n.steps \in verified

\* No attempt's outcome is lost: as long as its lock did what it is for, every
\* write of a record counts one attempt more than the record it replaces
\* (qdrant_store.py:668-673: "one increment vanishes").
UpdatesAreAtomic ==
  [][\A k \in Keys : memory'[k] # memory[k] /\ k \notin exposed' =>
       memory'[k] = NoRecord \/ OneMore(memory[k], memory'[k])]_vars

\* Whoever is in the section under a Redis key that has not expired still has
\* it: nobody else's late release can "release THEIR lock out from under them"
\* (qdrant_store.py:87-92).
LockIsKept ==
  \A w \in Workers : InSection(w) /\ lock[w] = "redis" /\ attempt[w] \notin lapsed =>
    token[task[w]] = attempt[w]

\* An attempt that has acted is recorded or given up; nobody waits for ever for
\* a lock whose holder failed to release it.
RecordingEnds == \A w \in Workers : ~At(w, "idle") ~> At(w, "idle")

\* prune_stale_workflows works "without ever deleting a record that's actively
\* working, no matter how old it is" (qdrant_store.py:808-811).
WorkingRecordsStay ==
  [][\A k \in Keys : Stored(k) /\ memory'[k] = NoRecord => Untrusted(memory[k])]_vars
=============================================================================
