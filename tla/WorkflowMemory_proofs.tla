------------------------- MODULE WorkflowMemory_proofs -------------------------
(***************************************************************************)
(* What an action's memory promises, for any number of records, threads,   *)
(* processes, attempts and faults: what is replayed was seen to work, a    *)
(* Redis lock is released by its holder only, and no outcome is lost as    *)
(* long as the locks did what they are for.                                *)
(*                                                                         *)
(* Attempts are numbered in the order they begin, so that no two that are  *)
(* under way have the same number and a Redis key names the one attempt    *)
(* it was set for (AttemptInv).  From that follows who holds a lock        *)
(* (LockInv), and from that, that what a holder has read is still what is  *)
(* stored (CopyInv).                                                       *)
(***************************************************************************)
EXTENDS WorkflowMemory, TLAPS

\* The lock of a process keeps threads of that process apart only: the rest
\* takes a Redis, or one process.
Protected == redis \/ \A v, w \in Workers : Process[v] = Process[w]

AttemptInv ==
  /\ \A w \in Workers : IF pc[w] = "idle" THEN attempt[w] = 0
                                          ELSE attempt[w] \in 1..attempts
  /\ \A v, w \in Workers : attempt[v] = attempt[w] /\ attempt[w] # 0 => v = w
  /\ \A k \in Keys : token[k] <= attempts
  /\ \A k \in Keys, w \in Workers : token[k] = attempt[w] /\ token[k] # 0 => task[w] = k
  /\ lapsed \subseteq 1..attempts

\* A record has the steps of a success, or none.
Sound(m) == IF m.successes > 0 THEN m.steps \in verified ELSE m.steps = 0

StepsInv ==
  /\ \A k \in Keys : Sound(memory[k])
  /\ \A w \in Workers : /\ Sound(copy[w])
                        /\ outcome[w].success => outcome[w].steps \in verified
                        /\ replayed[w] # 0 => replayed[w] \in verified

\* How the section a worker is in is protected, or that it is known not to be.
LockOf(w) ==
  /\ pc[w] \in {"read", "write", "release"} /\ lock[w] = "mutex" =>
       w \in mutex[Process[w]][task[w]]
  /\ pc[w] = "redis" => redis
  /\ pc[w] = "lock" /\ redis => task[w] \in exposed
  /\ pc[w] \in {"act", "redis", "lock"} => attempt[w] \notin lapsed
  /\ InSection(w) =>
       /\ lock[w] \in {"redis", "mutex", "free"}
       /\ lock[w] = "redis" => redis
       /\ lock[w] = "mutex" /\ redis => task[w] \in exposed
       /\ lock[w] = "free" => task[w] \in exposed
       /\ lock[w] = "redis" =>
            IF attempt[w] \in lapsed THEN task[w] \in exposed
                                     ELSE token[task[w]] = attempt[w]

LockInv == \A w \in Workers : LockOf(w)

CopyInv ==
  \A w \in Workers : At(w, "write") /\ task[w] \notin exposed => copy[w] = memory[task[w]]

IInv == TypeOK /\ AttemptInv /\ StepsInv /\ LockInv

-----------------------------------------------------------------------------
(* Types.                                                                  *)

LEMMA MergedFacts ==
  ASSUME NEW m \in Record, NEW o \in Outcome
  PROVE  /\ Merged(m, o) \in Record
         /\ Merged(m, o) # NoRecord
         /\ o.success => /\ Merged(m, o).successes = m.successes + 1
                         /\ Merged(m, o).failures = m.failures
                         /\ Merged(m, o).steps = o.steps
         /\ ~o.success => /\ Merged(m, o) = [m EXCEPT !.failures = @ + 1]
                          /\ Merged(m, o).successes = m.successes
                          /\ Merged(m, o).steps = m.steps
<1>1. /\ m.successes \in Nat /\ m.failures \in Nat /\ m.steps \in 0..MaxAttempts
      /\ o.success \in BOOLEAN /\ o.steps \in 0..MaxAttempts
      /\ m = [successes |-> m.successes, failures |-> m.failures, steps |-> m.steps]
  BY DEF Record, Outcome
<1>2. CASE o.success
  <2>1. Merged(m, o) = [successes |-> m.successes + 1, failures |-> m.failures,
                        steps |-> o.steps]
    BY <1>2 DEF Merged
  <2>2. QED  BY <1>1, <1>2, <2>1 DEF Record, NoRecord
<1>3. CASE ~o.success
  <2>1. Merged(m, o) = [m EXCEPT !.failures = @ + 1]
    BY <1>3 DEF Merged
  <2>2. QED  BY <1>1, <1>3, <2>1 DEF Record, NoRecord
<1>4. QED  BY <1>2, <1>3

LEMMA NoRecordType == NoRecord \in Record
BY BoundsAssumption DEF NoRecord, Record

Processes == {Process[w] : w \in Workers}

\* The parts of TypeOK that the locks of a process are in, apart.
MutexOK ==
  /\ mutex \in [Processes -> [Keys -> SUBSET Workers]]
  /\ \A p \in Processes : \A k \in Keys : \A v, w \in mutex[p][k] : v = w

RestOK ==
  /\ redis \in BOOLEAN
  /\ memory \in [Keys -> Record]
  /\ old \subseteq {k \in Keys : Stored(k)}
  /\ token \in [Keys -> 0..MaxAttempts]
  /\ pc \in [Workers -> {"idle", "act", "redis", "lock", "read", "write", "release"}]
  /\ attempt \in [Workers -> 0..MaxAttempts] /\ task \in [Workers -> Keys]
  /\ replayed \in [Workers -> 0..MaxAttempts] /\ outcome \in [Workers -> Outcome]
  /\ copy \in [Workers -> Record]
  /\ lock \in [Workers -> {"none", "redis", "mutex", "free"}]
  /\ stale \subseteq Keys
  /\ attempts \in 0..MaxAttempts /\ faults \in 0..MaxFaults
  /\ verified \subseteq 1..MaxAttempts /\ lapsed \subseteq 1..MaxAttempts
  /\ exposed \subseteq Keys

LEMMA TypeParts ==
  /\ TypeOK => MutexOK /\ RestOK
  /\ RestOK /\ MutexOK /\ StepsInv => TypeOK
<1>1. TypeOK => MutexOK
  BY DEF TypeOK, MutexOK, Processes
<1>2. TypeOK => RestOK
  BY DEF TypeOK, RestOK
<1>3. ASSUME RestOK, MutexOK, StepsInv PROVE TypeOK
  <2>1. \A k \in Keys : memory[k].steps # 0 <=> memory[k].successes > 0
    <3>1. TAKE k \in Keys
    <3>2. memory[k].successes \in Nat /\ memory[k].steps \in Nat /\ 0 \notin verified
      BY <1>3 DEF RestOK, Record
    <3>3. Sound(memory[k])
      BY <1>3 DEF StepsInv
    <3>4. QED  BY <3>2, <3>3 DEF Sound
  <2>2. QED  BY <1>3, <2>1 DEF RestOK, MutexOK, Processes, TypeOK
<1>4. QED  BY <1>1, <1>2, <1>3

\* What an attempt on the page leaves: its own steps, or those it replayed.
LEMMA ActFacts ==
  ASSUME RestOK, NEW w \in Workers, Act(w)
  PROVE  \E s \in BOOLEAN, n \in 1..MaxAttempts :
           /\ outcome' = [outcome EXCEPT ![w] = [success |-> s, steps |-> n]]
           /\ verified' = IF s THEN verified \cup {n} ELSE verified
<1>1. PICK s \in BOOLEAN, n \in {attempt[w], replayed[w]} \ {0} :
        /\ outcome' = [outcome EXCEPT ![w] = [success |-> s, steps |-> n]]
        /\ verified' = IF s THEN verified \cup {n} ELSE verified
  BY DEF Act
<1>2. n \in 1..MaxAttempts
  BY DEF RestOK
<1>3. QED  BY <1>1, <1>2, Zenon

LEMMA RestStep == RestOK /\ AttemptInv /\ [Next]_vars => RestOK'
<1> SUFFICES ASSUME RestOK, AttemptInv, [Next]_vars PROVE RestOK'
  OBVIOUS
<1> USE BoundsAssumption, NoRecordType
<1>1. ASSUME NEW w \in Workers, NEW k \in Keys, NEW n \in 0..MaxAttempts,
             BeginAttempt(w, k, n)
      PROVE  RestOK'
  BY <1>1 DEF RestOK, Stored, BeginAttempt, At, Goto, locks, history
<1>2. ASSUME NEW w \in Workers, Replay(w) \/ Explore(w) PROVE RestOK'
  <2>1. CASE Explore(w)
    BY <1>1, <2>1 DEF Explore
  <2>2. CASE Replay(w)
    <3>1. PICK k \in Keys : \E m \in Near[k] : BeginAttempt(w, m, memory[m].steps)
      BY <2>2 DEF Replay
    <3>2. PICK m \in Keys : BeginAttempt(w, m, memory[m].steps)
      BY <3>1, NearAssumption
    <3>3. memory[m].steps \in 0..MaxAttempts
      BY DEF RestOK, Record
    <3>4. QED  BY <1>1, <3>2, <3>3
  <2>3. QED  BY <1>2, <2>1, <2>2
<1>3. ASSUME NEW w \in Workers, Act(w) PROVE RestOK'
  <2>1. PICK s \in BOOLEAN, n \in 1..MaxAttempts :
          /\ outcome' = [outcome EXCEPT ![w] = [success |-> s, steps |-> n]]
          /\ verified' = IF s THEN verified \cup {n} ELSE verified
    BY <1>3, ActFacts
  <2>2. [success |-> s, steps |-> n] \in Outcome
    BY <2>1 DEF Outcome
  <2>3. outcome' \in [Workers -> Outcome] /\ verified' \subseteq 1..MaxAttempts
    BY <2>1, <2>2 DEF RestOK
  <2>4. QED  BY <1>3, <2>3 DEF RestOK, Stored, Act, At, Goto, locks
<1>4. ASSUME NEW w \in Workers,
             AcquireToken(w) \/ AcquireTimeout(w) \/ RedisUnreachable(w) \/ AcquireMutex(w)
      PROVE  RestOK'
  <2>1. CASE AcquireToken(w)
    BY <2>1 DEF RestOK, Stored, AcquireToken, Enter, At, Goto, locks, history
  <2>2. CASE AcquireTimeout(w)
    BY <2>2 DEF RestOK, Stored, AcquireTimeout, Enter, Fault, At, Goto, locks
  <2>3. CASE RedisUnreachable(w)
    BY <2>3 DEF RestOK, Stored, RedisUnreachable, Fault, At, Goto
  <2>4. CASE AcquireMutex(w)
    BY <2>4 DEF RestOK, Stored, AcquireMutex, Enter, At, Goto
  <2>5. QED  BY <1>4, <2>1, <2>2, <2>3, <2>4
<1>5. ASSUME NEW w \in Workers, Read(w) PROVE RestOK'
  BY <1>5 DEF RestOK, Stored, Read, Fault, At, Goto, locks, history
<1>6. ASSUME NEW w \in Workers, Write(w) PROVE RestOK'
  <2> DEFINE m == Merged(copy[w], outcome[w])
  <2>1. m \in Record /\ m # NoRecord
    BY MergedFacts DEF RestOK
  <2>2. memory' \in [Keys -> Record] /\ old' \subseteq {k \in Keys : Stored(k)}'
    <3> HIDE DEF m
    <3>1. \/ memory' = [memory EXCEPT ![task[w]] = m] /\ old' = old \ {task[w]}
          \/ UNCHANGED <<memory, old>>
      BY <1>6 DEF Write, WriteWith, m
    <3>2. QED  BY <2>1, <3>1 DEF RestOK, Stored
  <2>3. QED  BY <1>6, <2>2 DEF RestOK, Write, WriteWith, Fault, At, Goto, locks, history
<1>7. ASSUME NEW w \in Workers, Release(w) PROVE RestOK'
  <2>1. Nothing \in Outcome
    BY DEF Nothing, Outcome
  <2>2. token' \in [Keys -> 0..MaxAttempts] /\ faults' \in 0..MaxFaults
    BY <1>7 DEF RestOK, Release, Fault
  <2>3. QED  BY <1>7, <2>1, <2>2 DEF RestOK, Stored, Release, Return, At, Goto, history
<1>8. ASSUME NEW k \in Keys, Expire(k) PROVE RestOK'
  <2>1. faults' \in 0..MaxFaults /\ lapsed' \subseteq 1..MaxAttempts /\ exposed' \subseteq Keys
    <3>1. token[k] \in 1..MaxAttempts
      BY <1>8 DEF RestOK, Expire
    <3>2. CASE UNCHANGED <<faults, lapsed, exposed>>
      BY <3>2 DEF RestOK
    <3>3. CASE /\ Fault
               /\ exposed' = exposed \cup {k} /\ lapsed' = lapsed \cup {token[k]}
      <4>1. faults' \in 0..MaxFaults
        BY <3>3 DEF RestOK, Fault
      <4>2. lapsed' \subseteq 1..MaxAttempts /\ exposed' \subseteq Keys
        BY <3>1, <3>3 DEF RestOK
      <4>3. QED  BY <4>1, <4>2
    <3>4. QED  BY <1>8, <3>2, <3>3 DEF Expire
  <2>2. QED  BY <1>8, <2>1 DEF RestOK, Stored, Expire, worker
<1>9. ASSUME NEW k \in Keys, Age(k) PROVE RestOK'
  BY <1>9 DEF RestOK, Stored, Age, locks, worker, history
<1>10. ASSUME Scroll PROVE RestOK'
  BY <1>10 DEF RestOK, Stored, Scroll, locks, worker, history
<1>11. ASSUME Delete PROVE RestOK'
  BY <1>11 DEF RestOK, Stored, Delete, locks, worker
<1>12. ASSUME UNCHANGED vars PROVE RestOK'
  BY <1>12 DEF RestOK, Stored, vars, locks, worker, history
<1>13. QED
  BY <1>2, <1>3, <1>4, <1>5, <1>6, <1>7, <1>8, <1>9, <1>10, <1>11, <1>12
     DEF Next, RecordStep

-----------------------------------------------------------------------------
(* Attempts, tokens and steps.                                             *)

\* A search for a task's record begins an attempt at some key, with steps that
\* were seen to work or none.
LEMMA BeginFacts ==
  ASSUME RestOK, StepsInv, NEW w \in Workers, Replay(w) \/ Explore(w)
  PROVE  \E k \in Keys, n \in 0..MaxAttempts :
           BeginAttempt(w, k, n) /\ (n # 0 => n \in verified)
<1>1. CASE Explore(w)
  <2>1. PICK k \in Keys : BeginAttempt(w, k, 0)
    BY <1>1 DEF Explore
  <2>2. QED  BY <2>1, BoundsAssumption
<1>2. CASE Replay(w)
  <2>1. PICK k \in Keys : \E m \in Near[k] : BeginAttempt(w, m, memory[m].steps)
    BY <1>2 DEF Replay
  <2>2. PICK m \in Keys : BeginAttempt(w, m, memory[m].steps)
    BY <2>1, NearAssumption
  <2>3. memory[m].steps \in 0..MaxAttempts /\ memory[m].successes \in Nat
    BY DEF RestOK, Record
  <2>4. memory[m].steps # 0 => memory[m].steps \in verified
    BY DEF StepsInv, Sound
  <2>5. QED  BY <2>2, <2>3, <2>4
<1>3. QED  BY <1>1, <1>2

AttemptFrame ==
  /\ UNCHANGED <<attempt, attempts, token, task, lapsed>>
  /\ \A w \in Workers : pc'[w] = "idle" <=> pc[w] = "idle"

\* An attempt takes a key that is free.
Taken(w) ==
  /\ token[task[w]] = 0 /\ token' = [token EXCEPT ![task[w]] = attempt[w]]
  /\ pc[w] # "idle"
  /\ UNCHANGED <<attempt, attempts, task, lapsed>>
  /\ \A v \in Workers : pc'[v] = "idle" <=> pc[v] = "idle"

LEMMA FrameCases ==
  ASSUME RestOK, NEW w \in Workers
  PROVE  /\ Act(w) \/ AcquireTimeout(w) \/ AcquireMutex(w) \/ Read(w) \/ Write(w) => AttemptFrame
         /\ AcquireToken(w) => Taken(w)
         /\ RedisUnreachable(w) => AttemptFrame \/ Taken(w)
<1> USE DEF RestOK, At, Goto, AttemptFrame, Taken
<1>1. Act(w) => AttemptFrame
  BY DEF Act, locks
<1>2. AcquireTimeout(w) => AttemptFrame
  BY DEF AcquireTimeout, Enter, locks
<1>3. AcquireMutex(w) => AttemptFrame
  BY DEF AcquireMutex, Enter
<1>4. Read(w) => AttemptFrame
  BY DEF Read, locks, history
<1>5. Write(w) => AttemptFrame
  BY DEF Write, WriteWith, locks, history
<1>6. AcquireToken(w) => Taken(w)
  BY DEF AcquireToken, Enter
<1>7. RedisUnreachable(w) => AttemptFrame \/ Taken(w)
  BY DEF RedisUnreachable
<1>8. QED  BY <1>1, <1>2, <1>3, <1>4, <1>5, <1>6, <1>7

LEMMA AttemptStep == RestOK /\ StepsInv /\ AttemptInv /\ [Next]_vars => AttemptInv'
<1> SUFFICES ASSUME RestOK, StepsInv, AttemptInv, [Next]_vars PROVE AttemptInv'
  OBVIOUS
<1>0. /\ attempts \in Nat /\ attempt \in [Workers -> Nat] /\ token \in [Keys -> Nat]
      /\ pc \in [Workers -> {"idle", "act", "redis", "lock", "read", "write", "release"}]
      /\ task \in [Workers -> Keys]
  BY BoundsAssumption DEF RestOK
<1>1. CASE AttemptFrame
  BY <1>1 DEF AttemptInv, AttemptFrame
<1>2. ASSUME NEW w \in Workers, Taken(w) PROVE AttemptInv'
  <2>1. /\ attempt[w] \in 1..attempts
        /\ \A k \in Keys : token'[k] = IF k = task[w] THEN attempt[w] ELSE token[k]
    BY <1>0, <1>2 DEF Taken, AttemptInv
  <2>2. QED  BY <1>0, <1>2, <2>1 DEF AttemptInv, Taken
<1>3. ASSUME NEW w \in Workers, Replay(w) \/ Explore(w) PROVE AttemptInv'
  <2>1. PICK k \in Keys, n \in 0..MaxAttempts : BeginAttempt(w, k, n)
    BY <1>3, BeginFacts
  <2>2. /\ attempts' = attempts + 1 /\ UNCHANGED <<token, lapsed>>
        /\ pc[w] = "idle"
        /\ \A v \in Workers :
             /\ pc'[v] = IF v = w THEN "act" ELSE pc[v]
             /\ attempt'[v] = IF v = w THEN attempts + 1 ELSE attempt[v]
             /\ task'[v] = IF v = w THEN k ELSE task[v]
    BY <1>0, <2>1 DEF BeginAttempt, At, Goto, locks, history
  <2>3. \A v \in Workers : attempt[v] <= attempts
    BY <1>0 DEF AttemptInv
  <2>4. \A v \in Workers : IF pc'[v] = "idle" THEN attempt'[v] = 0
                                              ELSE attempt'[v] \in 1..attempts'
    BY <1>0, <2>2 DEF AttemptInv
  <2>5. \A u, v \in Workers : attempt'[u] = attempt'[v] /\ attempt'[u] # 0 => u = v
    BY <1>0, <2>2, <2>3 DEF AttemptInv
  <2>6. \A j \in Keys : token'[j] <= attempts'
    BY <1>0, <2>2 DEF AttemptInv
  <2>7. \A j \in Keys, v \in Workers :
          token'[j] = attempt'[v] /\ token'[j] # 0 => task'[v] = j
    BY <1>0, <2>2 DEF AttemptInv
  <2>8. lapsed' \subseteq 1..attempts'
    BY <1>0, <2>2 DEF AttemptInv
  <2>9. QED  BY <2>4, <2>5, <2>6, <2>7, <2>8 DEF AttemptInv
<1>4. ASSUME NEW w \in Workers, Release(w) PROVE AttemptInv'
  <2>1. /\ UNCHANGED <<attempts, task, lapsed>>
        /\ \A v \in Workers : /\ pc'[v] = IF v = w THEN "idle" ELSE pc[v]
                              /\ attempt'[v] = IF v = w THEN 0 ELSE attempt[v]
        /\ \A k \in Keys : token'[k] = token[k] \/ token'[k] = 0
    BY <1>0, <1>4 DEF Release, Return, At, Goto, history
  <2>2. QED  BY <1>0, <2>1 DEF AttemptInv
<1>5. ASSUME NEW k \in Keys, Expire(k) PROVE AttemptInv'
  <2>1. /\ UNCHANGED <<attempts, attempt, task, pc>>
        /\ token[k] # 0
        /\ \A j \in Keys : token'[j] = IF j = k THEN 0 ELSE token[j]
        /\ lapsed' \subseteq lapsed \cup {token[k]}
    BY <1>0, <1>5 DEF Expire, worker
  <2>2. token[k] \in 1..attempts
    BY <1>0, <2>1 DEF AttemptInv
  <2>3. QED  BY <1>0, <2>1, <2>2 DEF AttemptInv
<1>6. CASE \/ \E k \in Keys : Age(k)
           \/ Scroll \/ Delete \/ UNCHANGED vars
  <2>1. AttemptFrame
    BY <1>6 DEF Age, Scroll, Delete, vars, locks, worker, history, AttemptFrame
  <2>2. QED  BY <1>1, <2>1
<1>7. QED
  BY <1>1, <1>2, <1>3, <1>4, <1>5, <1>6, FrameCases DEF Next, RecordStep

LEMMA StepsStep == RestOK /\ StepsInv /\ [Next]_vars => StepsInv'
<1> SUFFICES ASSUME RestOK, StepsInv, [Next]_vars PROVE StepsInv'
  OBVIOUS
<1>1. CASE UNCHANGED <<memory, copy, outcome, replayed, verified>>
  BY <1>1 DEF StepsInv, Sound
<1>2. ASSUME NEW w \in Workers, Replay(w) \/ Explore(w) PROVE StepsInv'
  <2>1. PICK k \in Keys, n \in 0..MaxAttempts :
          BeginAttempt(w, k, n) /\ (n # 0 => n \in verified)
    BY <1>2, BeginFacts
  <2>2. UNCHANGED <<memory, copy, outcome, verified>>
        /\ \A v \in Workers : replayed'[v] = IF v = w THEN n ELSE replayed[v]
    BY <2>1 DEF BeginAttempt, history, RestOK
  <2>3. QED  BY <2>1, <2>2 DEF StepsInv, Sound
<1>3. ASSUME NEW w \in Workers, Act(w) PROVE StepsInv'
  <2>1. PICK s \in BOOLEAN, n \in 1..MaxAttempts :
          /\ outcome' = [outcome EXCEPT ![w] = [success |-> s, steps |-> n]]
          /\ verified' = IF s THEN verified \cup {n} ELSE verified
    BY <1>3, ActFacts
  <2>2. /\ UNCHANGED <<memory, copy, replayed>>
        /\ verified \subseteq verified'
    BY <1>3, <2>1 DEF Act
  <2>3. \A v \in Workers : outcome'[v].success => outcome'[v].steps \in verified'
    <3>1. TAKE v \in Workers
    <3>2. CASE v = w
      <4>1. outcome'[v] = [success |-> s, steps |-> n]
        BY <2>1, <3>2 DEF RestOK
      <4>2. QED  BY <2>1, <4>1
    <3>3. CASE v # w
      <4>1. outcome'[v] = outcome[v]
        BY <2>1, <3>3 DEF RestOK
      <4>2. QED  BY <2>2, <4>1 DEF StepsInv
    <3>4. QED  BY <3>2, <3>3
  <2>4. QED  BY <2>2, <2>3 DEF StepsInv, Sound
<1>4. ASSUME NEW w \in Workers, Read(w) PROVE StepsInv'
  <2>1. /\ UNCHANGED <<memory, outcome, replayed, verified>>
        /\ \A v \in Workers : copy'[v] = copy[v] \/ copy'[v] = memory[task[v]]
        /\ \A v \in Workers : task[v] \in Keys
    BY <1>4 DEF Read, history, RestOK
  <2>2. QED  BY <2>1 DEF StepsInv, Sound
<1>5. ASSUME NEW w \in Workers, Write(w) PROVE StepsInv'
  <2> DEFINE m == Merged(copy[w], outcome[w])
  <2>1. copy[w] \in Record /\ outcome[w] \in Outcome
    BY DEF RestOK
  <2>2. copy[w].successes \in Nat /\ outcome[w].success \in BOOLEAN
    BY <2>1 DEF Record, Outcome
  <2>3. Sound(m)
    <3>1. CASE outcome[w].success
      <4>1. m.successes = copy[w].successes + 1 /\ m.steps = outcome[w].steps
        BY <2>1, <3>1, MergedFacts
      <4>2. outcome[w].steps \in verified
        BY <3>1 DEF StepsInv
      <4>3. QED  BY <2>2, <4>1, <4>2 DEF Sound
    <3>2. CASE ~outcome[w].success
      <4>1. m.successes = copy[w].successes /\ m.steps = copy[w].steps
        BY <2>1, <3>2, MergedFacts
      <4>2. QED  BY <4>1 DEF Sound, StepsInv
    <3>3. QED  BY <3>1, <3>2
  <2>4. Sound(NoRecord)
    BY DEF Sound, NoRecord
  <2> HIDE DEF m
  <2>5. /\ UNCHANGED <<outcome, replayed, verified>>
        /\ \A k \in Keys : memory'[k] = memory[k] \/ memory'[k] = m
        /\ \A v \in Workers : copy'[v] = copy[v] \/ copy'[v] = NoRecord
    BY <1>5 DEF Write, WriteWith, history, RestOK, m
  <2>6. QED  BY <2>3, <2>4, <2>5 DEF StepsInv, Sound
<1>6. ASSUME NEW w \in Workers, Release(w) PROVE StepsInv'
  <2>1. /\ UNCHANGED <<memory, copy, verified>>
        /\ \A v \in Workers : /\ outcome'[v] = outcome[v] \/ outcome'[v] = Nothing
                              /\ replayed'[v] = replayed[v] \/ replayed'[v] = 0
    BY <1>6 DEF Release, Return, history, RestOK
  <2>2. ~Nothing.success
    BY DEF Nothing
  <2>3. QED  BY <2>1, <2>2 DEF StepsInv, Sound
<1>7. CASE Delete
  <2>1. /\ UNCHANGED <<copy, outcome, replayed, verified>>
        /\ \A k \in Keys : memory'[k] = memory[k] \/ memory'[k] = NoRecord
    BY <1>7 DEF Delete, worker
  <2>2. Sound(NoRecord)
    BY DEF Sound, NoRecord
  <2>3. QED  BY <2>1, <2>2 DEF StepsInv, Sound
<1>8. ASSUME NEW w \in Workers,
             AcquireToken(w) \/ AcquireTimeout(w) \/ RedisUnreachable(w) \/ AcquireMutex(w)
      PROVE  StepsInv'
  BY <1>1, <1>8 DEF AcquireToken, AcquireTimeout, RedisUnreachable, AcquireMutex, Enter
<1>9. CASE \/ \E k \in Keys : Age(k) \/ Expire(k)
           \/ Scroll \/ UNCHANGED vars
  BY <1>1, <1>9 DEF Age, Expire, Scroll, vars, worker, history
<1>10. QED
  BY <1>2, <1>3, <1>4, <1>5, <1>6, <1>7, <1>8, <1>9 DEF Next, RecordStep

-----------------------------------------------------------------------------
(* Locks.                                                                  *)

LEMMA MutexSet ==
  ASSUME RestOK, MutexOK, NEW w \in Workers, NEW T \in SUBSET Workers,
         mutex' = [mutex EXCEPT ![Process[w]][task[w]] = T]
  PROVE  /\ mutex' \in [Processes -> [Keys -> SUBSET Workers]]
         /\ mutex'[Process[w]][task[w]] = T
         /\ \A p \in Processes, k \in Keys :
              (p = Process[w] /\ k = task[w]) \/ mutex'[p][k] = mutex[p][k]
<1>1. Process[w] \in Processes /\ task[w] \in Keys
  BY DEF Processes, RestOK
<1>2. QED  BY <1>1 DEF MutexOK

\* The mutex of a record is taken when it is free, and left by its holder only.
LEMMA MutexMoves ==
  ASSUME RestOK, MutexOK, [Next]_vars
  PROVE  \/ mutex' = mutex
         \/ \E w \in Workers, T \in SUBSET Workers :
              /\ mutex' = [mutex EXCEPT ![Process[w]][task[w]] = T]
              /\ \/ AcquireMutex(w) /\ T = {w} /\ mutex[Process[w]][task[w]] = {}
                 \/ Release(w) /\ T = mutex[Process[w]][task[w]] \ {w}
<1>1. ASSUME NEW w \in Workers, AcquireMutex(w)
      PROVE  /\ mutex' = [mutex EXCEPT ![Process[w]][task[w]] = {w}]
             /\ mutex[Process[w]][task[w]] = {}
  BY <1>1 DEF AcquireMutex
<1>2. ASSUME NEW w \in Workers, Release(w)
      PROVE  \/ mutex' = mutex
             \/ mutex' = [mutex EXCEPT ![Process[w]][task[w]]
                                         = mutex[Process[w]][task[w]] \ {w}]
  BY <1>2 DEF Release, Released
<1>3. \A w \in Workers : mutex[Process[w]][task[w]] \subseteq Workers
  BY DEF MutexOK, Processes, RestOK
<1>4. CASE \E w \in Workers : AcquireMutex(w) \/ Release(w)
  BY <1>1, <1>2, <1>3, <1>4
<1>5. CASE ~(\E w \in Workers : AcquireMutex(w) \/ Release(w))
  <2>1. mutex' = mutex
    BY <1>5 DEF Next, RecordStep, Replay, Explore, BeginAttempt, Act, AcquireToken,
       AcquireTimeout, RedisUnreachable, Read, Write, WriteWith, Expire, Age, Scroll,
       Delete, vars, locks
  <2>2. QED  BY <2>1
<1>6. QED  BY <1>4, <1>5

LEMMA MutexStep == RestOK /\ MutexOK /\ [Next]_vars => MutexOK'
<1> SUFFICES ASSUME RestOK, MutexOK, [Next]_vars, mutex' # mutex PROVE MutexOK'
  BY DEF MutexOK
<1>1. PICK w \in Workers, T \in SUBSET Workers :
        /\ mutex' = [mutex EXCEPT ![Process[w]][task[w]] = T]
        /\ T = {w} \/ T \subseteq mutex[Process[w]][task[w]]
  BY MutexMoves
<1>2. QED  BY <1>1, MutexSet DEF MutexOK

Same(v) ==
  pc'[v] = pc[v] /\ lock'[v] = lock[v] /\ task'[v] = task[v] /\ attempt'[v] = attempt[v]

LEMMA KeepLock ==
  ASSUME NEW v \in Workers, LockOf(v), Same(v), redis' = redis, exposed \subseteq exposed',
         lapsed' = lapsed,
         InSection(v) /\ token[task[v]] = attempt[v] => token'[task[v]] = attempt[v],
         v \in mutex[Process[v]][task[v]] => v \in mutex'[Process[v]][task[v]]
  PROVE  LockOf(v)'
BY DEF LockOf, Same, InSection

MovesOf(w) == Replay(w) \/ Explore(w) \/ RecordStep(w)

\* A worker's step leaves every other worker where it is, and its lock with it.
LEMMA OthersSame ==
  ASSUME RestOK, NEW w \in Workers, MovesOf(w), NEW v \in Workers, v # w
  PROVE  Same(v) /\ redis' = redis /\ exposed \subseteq exposed' /\ lapsed' = lapsed
<1> USE DEF RestOK, Same, At, Goto
<1>1. CASE Replay(w) \/ Explore(w)
  BY <1>1 DEF Replay, Explore, BeginAttempt, locks, history
<1>2. CASE Act(w)
  BY <1>2 DEF Act, locks
<1>3. CASE AcquireToken(w)
  BY <1>3 DEF AcquireToken, Enter
<1>4. CASE AcquireTimeout(w)
  BY <1>4 DEF AcquireTimeout, Enter, locks
<1>5. CASE RedisUnreachable(w)
  BY <1>5 DEF RedisUnreachable
<1>6. CASE AcquireMutex(w)
  BY <1>6 DEF AcquireMutex, Enter
<1>7. CASE Read(w)
  BY <1>7 DEF Read, locks, history
<1>8. CASE Write(w)
  BY <1>8 DEF Write, WriteWith, locks, history
<1>9. CASE Release(w)
  BY <1>9 DEF Release, Return, history
<1>10. QED
  BY <1>1, <1>2, <1>3, <1>4, <1>5, <1>6, <1>7, <1>8, <1>9 DEF MovesOf, RecordStep

LEMMA OthersLock ==
  ASSUME RestOK, MutexOK, AttemptInv, NEW w \in Workers, MovesOf(w),
         NEW v \in Workers, v # w, LockOf(v)
  PROVE  LockOf(v)'
<1>0. token \in [Keys -> 0..MaxAttempts] /\ task \in [Workers -> Keys]
  BY DEF RestOK
<1>1. Same(v) /\ redis' = redis /\ exposed \subseteq exposed' /\ lapsed' = lapsed
  BY OthersSame
<1>2. InSection(v) => attempt[v] # 0
  BY DEF AttemptInv, InSection
<1>3. InSection(v) /\ token[task[v]] = attempt[v] => token'[task[v]] = attempt[v]
  <2> SUFFICES ASSUME InSection(v), token[task[v]] = attempt[v]
               PROVE  token'[task[v]] = token[task[v]]
    OBVIOUS
  <2>1. CASE token' = token
    BY <2>1
  <2>2. CASE Taken(w)
    BY <1>0, <1>2, <2>2 DEF Taken
  <2>3. CASE Release(w)
    <3>1. CASE token' = token
      BY <3>1
    <3>2. CASE token[task[w]] = attempt[w] /\ token' = [token EXCEPT ![task[w]] = 0]
      <4>1. task[v] # task[w]
        BY <1>2, <3>2 DEF AttemptInv
      <4>2. QED  BY <1>0, <3>2, <4>1
    <3>3. QED  BY <2>3, <3>1, <3>2 DEF Release
  <2>4. CASE Replay(w) \/ Explore(w)
    BY <2>4 DEF Replay, Explore, BeginAttempt, locks
  <2>5. QED
    BY <2>1, <2>2, <2>3, <2>4, FrameCases DEF MovesOf, RecordStep, AttemptFrame
<1>4. v \in mutex[Process[v]][task[v]] => v \in mutex'[Process[v]][task[v]]
  <2> SUFFICES ASSUME v \in mutex[Process[v]][task[v]], mutex' # mutex
               PROVE  v \in mutex'[Process[v]][task[v]]
    OBVIOUS
  <2>1. [Next]_vars
    BY DEF MovesOf, Next
  <2>2. PICK u \in Workers, T \in SUBSET Workers :
          /\ mutex' = [mutex EXCEPT ![Process[u]][task[u]] = T]
          /\ \/ AcquireMutex(u) /\ T = {u} /\ mutex[Process[u]][task[u]] = {}
             \/ Release(u) /\ T = mutex[Process[u]][task[u]] \ {u}
    BY <2>1, MutexMoves
  <2>3. /\ mutex'[Process[u]][task[u]] = T
        /\ (Process[v] = Process[u] /\ task[v] = task[u])
             \/ mutex'[Process[v]][task[v]] = mutex[Process[v]][task[v]]
    <3>1. Process[v] \in Processes /\ task[v] \in Keys
      BY <1>0 DEF Processes
    <3>2. QED  BY <2>2, <3>1 DEF MutexOK, Processes, RestOK
  <2>4. AcquireMutex(u) \/ Release(u) => u # v
    BY <1>1 DEF AcquireMutex, Release, Enter, Return, At, Goto, Same, RestOK
  <2>5. QED  BY <2>2, <2>3, <2>4
<1>5. QED  BY <1>1, <1>3, <1>4, KeepLock

LEMMA OwnLock ==
  ASSUME RestOK, MutexOK, AttemptInv, NEW w \in Workers, MovesOf(w), LockOf(w)
  PROVE  LockOf(w)'
<1>0. /\ token \in [Keys -> 0..MaxAttempts] /\ task \in [Workers -> Keys]
      /\ pc \in [Workers -> {"idle", "act", "redis", "lock", "read", "write", "release"}]
      /\ lock \in [Workers -> {"none", "redis", "mutex", "free"}]
      /\ redis \in BOOLEAN /\ attempt \in [Workers -> Nat] /\ attempts \in Nat
  BY BoundsAssumption DEF RestOK
<1> USE DEF LockOf, InSection, At, Goto
<1>1. CASE Replay(w) \/ Explore(w)
  <2>1. pc'[w] = "act" /\ attempt'[w] = attempts + 1 /\ lapsed' = lapsed
    BY <1>0, <1>1 DEF Replay, Explore, BeginAttempt, history
  <2>2. attempts + 1 \notin lapsed
    BY <1>0 DEF AttemptInv
  <2>3. QED  BY <2>1, <2>2
<1>2. CASE Act(w)
  <2>1. /\ redis' = redis /\ pc'[w] = IF redis THEN "redis" ELSE "lock"
        /\ pc[w] = "act" /\ UNCHANGED <<attempt, lapsed>>
    BY <1>0, <1>2 DEF Act
  <2>2. QED  BY <2>1
<1>3. CASE AcquireToken(w)
  <2>1. /\ pc[w] = "redis" /\ pc'[w] = "read" /\ lock'[w] = "redis" /\ redis' = redis
        /\ task' = task /\ attempt' = attempt /\ lapsed' = lapsed
        /\ token'[task[w]] = attempt[w]
    BY <1>0, <1>3 DEF AcquireToken, Enter
  <2>2. redis /\ attempt[w] \notin lapsed
    BY <2>1
  <2>3. QED  BY <2>1, <2>2
<1>4. CASE AcquireTimeout(w)
  <2>1. /\ pc'[w] = "read" /\ lock'[w] = "free" /\ task' = task /\ task[w] \in exposed'
    BY <1>0, <1>4 DEF AcquireTimeout, Enter
  <2>2. QED  BY <2>1
<1>5. CASE RedisUnreachable(w)
  <2>1. /\ pc[w] = "redis" /\ pc'[w] = "lock" /\ task' = task /\ task[w] \in exposed'
        /\ UNCHANGED <<attempt, lapsed>>
    BY <1>0, <1>5 DEF RedisUnreachable
  <2>2. QED  BY <2>1
<1>6. CASE AcquireMutex(w)
  <2>1. /\ pc[w] = "lock" /\ pc'[w] = "read" /\ lock'[w] = "mutex" /\ redis' = redis
        /\ task' = task /\ exposed' = exposed
        /\ mutex' = [mutex EXCEPT ![Process[w]][task[w]] = {w}]
    BY <1>0, <1>6 DEF AcquireMutex, Enter
  <2>2. w \in mutex'[Process[w]][task[w]]
    <3>1. {w} \in SUBSET Workers
      OBVIOUS
    <3>2. QED  BY <2>1, <3>1 DEF MutexOK, Processes, RestOK
  <2>3. QED  BY <2>1, <2>2
<1>7. CASE Read(w)
  <2>1. /\ pc[w] = "read" /\ pc'[w] \in {"write", "release"}
        /\ UNCHANGED <<redis, lock, task, attempt, token, mutex, exposed, lapsed>>
    BY <1>0, <1>7 DEF Read, locks, history
  <2>2. QED  BY <2>1
<1>8. CASE Write(w)
  <2>1. /\ pc[w] = "write" /\ pc'[w] = "release"
        /\ UNCHANGED <<redis, lock, task, attempt, token, mutex, exposed, lapsed>>
    BY <1>0, <1>8 DEF Write, WriteWith, locks, history
  <2>2. QED  BY <2>1
<1>9. CASE Release(w)
  <2>1. pc'[w] = "idle"
    BY <1>0, <1>9 DEF Release, Return
  <2>2. QED  BY <2>1
<1>10. QED
  BY <1>1, <1>2, <1>3, <1>4, <1>5, <1>6, <1>7, <1>8, <1>9 DEF MovesOf, RecordStep

\* A key that runs out under its holder leaves the record exposed.
LEMMA ExpireLock ==
  ASSUME RestOK, AttemptInv, LockInv, NEW k \in Keys, Expire(k), NEW v \in Workers
  PROVE  LockOf(v)'
<1>0. /\ token \in [Keys -> Nat] /\ task \in [Workers -> Keys]
      /\ attempt \in [Workers -> Nat]
  BY BoundsAssumption DEF RestOK
<1> DEFINE held == \E w \in Workers :
                     InSection(w) /\ lock[w] = "redis" /\ attempt[w] = token[k]
<1>1. /\ UNCHANGED <<redis, mutex, pc, lock, task, attempt>>
      /\ token[k] # 0
      /\ \A j \in Keys : token'[j] = IF j = k THEN 0 ELSE token[j]
  BY <1>0 DEF Expire, worker
<1>2. IF held THEN exposed' = exposed \cup {k} /\ lapsed' = lapsed \cup {token[k]}
              ELSE exposed' = exposed /\ lapsed' = lapsed
  BY DEF Expire
<1>3. LockOf(v)
  BY DEF LockInv
<1>4. exposed \subseteq exposed'
  BY <1>2
<1>5. pc[v] \in {"act", "redis", "lock"} => attempt[v] \notin lapsed'
  <2>1. CASE held
    <3>1. PICK w \in Workers : InSection(w) /\ attempt[w] = token[k]
      BY <2>1
    <3>2. pc[v] \in {"act", "redis", "lock"} => attempt[v] # token[k]
      BY <1>1, <3>1 DEF AttemptInv, InSection
    <3>3. QED  BY <1>2, <1>3, <2>1, <3>2 DEF LockOf
  <2>2. CASE ~held
    BY <1>2, <1>3, <2>2 DEF LockOf
  <2>3. QED  BY <2>1, <2>2
<1>6. InSection(v) /\ lock[v] = "redis" =>
        IF attempt[v] \in lapsed' THEN task[v] \in exposed'
                                  ELSE token'[task[v]] = attempt[v]
  <2> SUFFICES ASSUME InSection(v), lock[v] = "redis"
               PROVE  IF attempt[v] \in lapsed' THEN task[v] \in exposed'
                                                ELSE token'[task[v]] = attempt[v]
    OBVIOUS
  <2>1. CASE attempt[v] = token[k]
    <3>1. held
      BY <2>1
    <3>2. task[v] = k
      BY <1>1, <2>1 DEF AttemptInv
    <3>3. QED  BY <1>2, <2>1, <3>1, <3>2
  <2>2. CASE attempt[v] # token[k]
    <3>1. attempt[v] \in lapsed' <=> attempt[v] \in lapsed
      BY <1>2, <2>2
    <3>2. CASE attempt[v] \in lapsed
      BY <1>3, <1>4, <3>1, <3>2 DEF LockOf
    <3>3. CASE attempt[v] \notin lapsed
      <4>1. token[task[v]] = attempt[v]
        BY <1>3, <3>3 DEF LockOf
      <4>2. task[v] # k
        BY <2>2, <4>1
      <4>3. QED  BY <1>0, <1>1, <3>1, <3>3, <4>1, <4>2
    <3>4. QED  BY <3>2, <3>3
  <2>3. QED  BY <2>1, <2>2
<1> HIDE DEF held
<1>7. QED  BY <1>1, <1>3, <1>4, <1>5, <1>6 DEF LockOf, InSection

LEMMA LockStep == RestOK /\ MutexOK /\ AttemptInv /\ LockInv /\ [Next]_vars => LockInv'
<1> SUFFICES ASSUME RestOK, MutexOK, AttemptInv, LockInv, [Next]_vars,
                    NEW v \in Workers
             PROVE  LockOf(v)'
  BY DEF LockInv
<1>0. LockOf(v)
  BY DEF LockInv
<1>1. ASSUME NEW w \in Workers, MovesOf(w) PROVE LockOf(v)'
  <2>1. CASE v = w
    BY <1>0, <1>1, <2>1, OwnLock
  <2>2. CASE v # w
    BY <1>0, <1>1, <2>2, OthersLock
  <2>3. QED  BY <2>1, <2>2
<1>2. ASSUME NEW k \in Keys, Expire(k) PROVE LockOf(v)'
  BY <1>2, ExpireLock
<1>3. CASE (\E k \in Keys : Age(k)) \/ Scroll \/ Delete \/ UNCHANGED vars
  <2>1. /\ Same(v) /\ redis' = redis /\ token' = token /\ mutex' = mutex
        /\ exposed \subseteq exposed' /\ lapsed' = lapsed
    BY <1>3 DEF Age, Scroll, Delete, vars, locks, worker, history, Same
  <2>2. QED  BY <1>0, <2>1, KeepLock DEF Same
<1>4. QED
  BY <1>1, <1>2, <1>3 DEF Next, MovesOf

-----------------------------------------------------------------------------
(* The inductive invariant.                                                *)

LEMMA InvInit == Init => IInv
<1> SUFFICES ASSUME Init PROVE IInv
  OBVIOUS
<1> USE NoRecordType, BoundsAssumption
<1>1. Nothing \in Outcome /\ ~Nothing.success /\ NoRecord.successes = 0 /\ NoRecord.steps = 0
  BY DEF Nothing, Outcome, NoRecord
<1>2. RestOK
  BY <1>1 DEF Init, RestOK, Stored
<1>3. MutexOK
  BY DEF Init, MutexOK, Processes
<1>4. AttemptInv
  BY DEF Init, AttemptInv
<1>5. StepsInv
  BY <1>1 DEF Init, StepsInv, Sound
<1>6. LockInv
  BY DEF Init, LockInv, LockOf, InSection
<1>7. QED  BY <1>2, <1>3, <1>4, <1>5, <1>6, TypeParts DEF IInv

LEMMA InvStep == IInv /\ [Next]_vars => IInv'
<1> SUFFICES ASSUME IInv, [Next]_vars PROVE IInv'
  OBVIOUS
<1>1. RestOK /\ MutexOK /\ AttemptInv /\ StepsInv /\ LockInv
  BY TypeParts DEF IInv
<1>2. RestOK' /\ MutexOK' /\ AttemptInv' /\ StepsInv' /\ LockInv'
  BY <1>1, RestStep, MutexStep, AttemptStep, StepsStep, LockStep
<1>3. (RestOK /\ MutexOK /\ StepsInv => TypeOK)'
  BY TypeParts, PTL
<1>4. QED  BY <1>2, <1>3 DEF IInv

LEMMA Invariance == Spec => []IInv
BY InvInit, InvStep, PTL DEF Spec

-----------------------------------------------------------------------------
(* What is read stays.                                                     *)

\* No two are in the section of a record that was never exposed.
LEMMA Exclusion ==
  ASSUME IInv, Protected, NEW v \in Workers, NEW w \in Workers,
         InSection(v), InSection(w), task[v] = task[w], task[v] \notin exposed
  PROVE  v = w
<1>1. LockOf(v) /\ LockOf(w)
  BY DEF IInv, LockInv
<1>2. CASE redis
  <2>1. lock[v] = "redis" /\ lock[w] = "redis"
    BY <1>1, <1>2 DEF LockOf
  <2>2. token[task[v]] = attempt[v] /\ token[task[v]] = attempt[w]
    BY <1>1, <2>1 DEF LockOf
  <2>3. attempt[v] # 0
    BY DEF IInv, AttemptInv, InSection
  <2>4. QED  BY <2>2, <2>3 DEF IInv, AttemptInv
<1>3. CASE ~redis
  <2>1. lock[v] = "mutex" /\ lock[w] = "mutex"
    BY <1>1, <1>3 DEF LockOf
  <2>2. v \in mutex[Process[v]][task[v]] /\ w \in mutex[Process[w]][task[w]]
    BY <1>1, <2>1 DEF LockOf, InSection
  <2>3. Process[v] = Process[w]
    BY <1>3 DEF Protected
  <2>4. Process[v] \in Processes /\ task[v] \in Keys /\ MutexOK
    BY TypeParts DEF IInv, Processes, RestOK
  <2>5. QED  BY <2>2, <2>3, <2>4 DEF MutexOK
<1>4. QED  BY <1>2, <1>3

LEMMA CopyInit == Init => CopyInv
BY DEF Init, CopyInv, At

LEMMA CopyStep == IInv /\ Protected /\ CopyInv /\ [Next]_vars => CopyInv'
<1> SUFFICES ASSUME IInv, Protected, CopyInv, [Next]_vars, NEW v \in Workers,
                    pc'[v] = "write", task'[v] \notin exposed'
             PROVE  copy'[v] = memory'[task'[v]]
  BY DEF CopyInv, At
<1>0. RestOK
  BY TypeParts DEF IInv
<1>1. ASSUME UNCHANGED <<memory, copy, pc, task>>, exposed \subseteq exposed'
      PROVE  copy'[v] = memory'[task'[v]]
  BY <1>1 DEF CopyInv, At
<1>2. ASSUME NEW w \in Workers, MovesOf(w), v # w PROVE copy'[v] = memory'[task'[v]]
  <2>1. Same(v) /\ exposed \subseteq exposed'
    BY <1>0, <1>2, OthersSame
  <2>2. pc[v] = "write" /\ task'[v] = task[v] /\ task[v] \notin exposed
        /\ copy[v] = memory[task[v]]
    BY <2>1 DEF Same, CopyInv, At
  <2>3. CASE Write(w)
    <3>1. task[w] # task[v]
      <4>1. InSection(v) /\ InSection(w)
        BY <2>2, <2>3 DEF InSection, Write, WriteWith, At
      <4>2. QED  BY <1>2, <2>2, <4>1, Exclusion
    <3>2. memory'[task[v]] = memory[task[v]] /\ copy'[v] = copy[v]
      BY <1>0, <1>2, <2>3, <3>1 DEF Write, WriteWith, RestOK
    <3>3. QED  BY <2>2, <3>2
  <2>4. CASE ~Write(w)
    <3>1. memory' = memory /\ copy'[v] = copy[v]
      BY <1>0, <1>2, <2>4 DEF MovesOf, RecordStep, Replay, Explore, BeginAttempt, Act,
         AcquireToken, AcquireTimeout, RedisUnreachable, AcquireMutex, Enter, Read,
         Release, Return, RestOK
    <3>2. QED  BY <2>2, <3>1
  <2>5. QED  BY <2>3, <2>4
<1>3. ASSUME MovesOf(v) PROVE copy'[v] = memory'[task'[v]]
  <2>1. CASE Read(v)
    BY <1>0, <2>1 DEF Read, At, Goto, RestOK
  <2>2. CASE ~Read(v)
    <3>1. pc'[v] # "write"
      BY <1>0, <1>3, <2>2 DEF MovesOf, RecordStep, Replay, Explore, BeginAttempt, Act,
         AcquireToken, AcquireTimeout, RedisUnreachable, AcquireMutex, Enter, Write,
         WriteWith, Release, Return, RestOK, Goto
    <3>2. QED  BY <3>1
  <2>3. QED  BY <2>1, <2>2
<1>4. CASE Delete
  <2>1. /\ UNCHANGED <<pc, task, copy>> /\ exposed \subseteq exposed'
        /\ task[v] \in Keys
    BY <1>0, <1>4 DEF Delete, worker, RestOK
  <2>2. task[v] \notin stale
    BY <1>4, <2>1 DEF Delete, At
  <2>3. memory'[task[v]] = memory[task[v]]
    BY <1>4, <2>1, <2>2 DEF Delete
  <2>4. QED  BY <2>1, <2>3 DEF CopyInv, At
<1>5. CASE (\E k \in Keys : Age(k) \/ Expire(k)) \/ Scroll \/ UNCHANGED vars
  <2>1. UNCHANGED <<memory, copy, pc, task>> /\ exposed \subseteq exposed'
    BY <1>5 DEF Age, Expire, Scroll, vars, worker, history
  <2>2. QED  BY <1>1, <2>1
<1>6. QED
  BY <1>2, <1>3, <1>4, <1>5 DEF Next, MovesOf

LEMMA ProtectedStays == Protected /\ [Next]_vars => Protected'
<1>1. [Next]_vars => redis' = redis
  BY DEF Next, RecordStep, Replay, Explore, BeginAttempt, Act, AcquireToken,
     AcquireTimeout, RedisUnreachable, AcquireMutex, Enter, Read, Write, WriteWith,
     Release, Return, Expire, Age, Scroll, Delete, vars
<1>2. QED  BY <1>1 DEF Protected

-----------------------------------------------------------------------------
(* The theorems.                                                           *)

\* Type invariant.
THEOREM TypeCorrect == Spec => []TypeOK
<1>1. IInv => TypeOK
  BY DEF IInv
<1>2. QED  BY Invariance, <1>1, PTL

\* Whatever is replayed on a page was seen to work, with any number of attempts
\* racing, with or without locks.
THEOREM ReplayedWasVerified == Spec => []StepsAreVerified
<1>1. IInv => StepsAreVerified
  BY DEF IInv, StepsInv, Sound, StepsAreVerified
<1>2. QED  BY Invariance, <1>1, PTL

\* A worker whose Redis key has not run out has it until it lets it go: no late
\* release takes it away.
THEOREM LocksAreKept == Spec => []LockIsKept
<1>1. IInv => LockIsKept
  BY DEF IInv, LockInv, LockOf, LockIsKept
<1>2. QED  BY Invariance, <1>1, PTL

\* With Redis, or in one process, every write of a record that was never exposed
\* counts exactly one attempt more than the record it replaces.
THEOREM NoOutcomeIsLost == Spec /\ Protected => UpdatesAreAtomic
<1> DEFINE Good == \A k \in Keys : memory'[k] # memory[k] /\ k \notin exposed' =>
                     memory'[k] = NoRecord \/ OneMore(memory[k], memory'[k])
<1>1. IInv /\ Protected /\ CopyInv /\ [Next]_vars => [Good]_vars
  <2> SUFFICES ASSUME IInv, CopyInv, [Next]_vars, NEW k \in Keys,
                      memory'[k] # memory[k], k \notin exposed'
               PROVE  memory'[k] = NoRecord \/ OneMore(memory[k], memory'[k])
    OBVIOUS
  <2>0. RestOK /\ StepsInv
    BY TypeParts DEF IInv
  <2>1. ASSUME NEW w \in Workers, Write(w) PROVE OneMore(memory[k], memory'[k])
    <3> DEFINE m == Merged(copy[w], outcome[w])
    <3>1. /\ pc[w] = "write" /\ task[w] = k /\ exposed' = exposed /\ memory'[k] = m
      BY <2>0, <2>1 DEF Write, WriteWith, At, history, RestOK
    <3>2. copy[w] = memory[k]
      BY <3>1 DEF CopyInv, At
    <3>3. copy[w] \in Record /\ outcome[w] \in Outcome
      BY <2>0 DEF RestOK
    <3>4. outcome[w].success \in BOOLEAN
      BY <3>3 DEF Outcome
    <3>5. CASE outcome[w].success
      <4>1. /\ m.successes = copy[w].successes + 1 /\ m.failures = copy[w].failures
            /\ m.steps = outcome[w].steps
        BY <3>3, <3>5, MergedFacts
      <4>2. m.steps \in verified
        BY <2>0, <3>5, <4>1 DEF StepsInv
      <4>3. QED  BY <3>1, <3>2, <4>1, <4>2 DEF OneMore
    <3>6. CASE ~outcome[w].success
      <4>1. m = [copy[w] EXCEPT !.failures = @ + 1]
        BY <3>3, <3>6, MergedFacts
      <4>2. QED  BY <3>1, <3>2, <4>1 DEF OneMore
    <3>7. QED  BY <3>4, <3>5, <3>6
  <2>2. CASE Delete
    BY <2>2 DEF Delete
  <2>3. CASE ~Delete /\ ~(\E w \in Workers : Write(w))
    <3>1. memory' = memory
      BY <2>3 DEF Next, RecordStep, Replay, Explore, BeginAttempt, Act, AcquireToken,
         AcquireTimeout, RedisUnreachable, AcquireMutex, Enter, Read, Release, Return,
         Expire, Age, Scroll, vars
    <3>2. QED  BY <3>1
  <2>4. QED  BY <2>1, <2>2, <2>3
<1>2. Spec /\ Protected => [](Protected /\ CopyInv)
  <2>1. IInv /\ Protected /\ CopyInv /\ [Next]_vars => (Protected /\ CopyInv)'
    BY CopyStep, ProtectedStays
  <2>2. QED  BY Invariance, CopyInit, <2>1, PTL DEF Spec
<1>3. QED  BY Invariance, <1>1, <1>2, PTL DEF Spec, UpdatesAreAtomic
=============================================================================
