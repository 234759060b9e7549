-------------------------- MODULE Drafting_proofs --------------------------
(***************************************************************************)
(* How the Synthesizer drafts: what it finds of the pages (Answering) and  *)
(* what it calls a model for (ModelCalls), for any runs, pages and texts,  *)
(* any number of calls and of failures.                                    *)
(*                                                                         *)
(* Of Answering: chunks cover a text of any length, and so everything a    *)
(* completed run fetched can be found; an answer cites and counts what was *)
(* fetched.  chunk_text's loop is a recursive function, and what it        *)
(* computes is proved by the shortest rest of a text for which it could    *)
(* fail (Least).  Of the run: as long as a fetch thread works, nothing of  *)
(* its run exists (FetchInv); from then on the count of sources is that of *)
(* the usable pages, and what a thread has passed is stored (PointsInv).   *)
(*                                                                         *)
(* Of ModelCalls: tracing costs no answer, and the Synthesizer's traces    *)
(* are about the calls they name.  The second holds because the            *)
(* Synthesizer makes one call at a time, so that what the call about to    *)
(* report has left on the wrapper is still there (LastInv).                *)
(***************************************************************************)
EXTENDS Answering, ModelCalls, FiniteSetTheorems, WellFoundedInduction, TLAPS

-----------------------------------------------------------------------------
(* Answering                                                               *)
-----------------------------------------------------------------------------

\* The least-number principle.
LEMMA Least ==
  ASSUME NEW T, T \subseteq Nat, T # {}
  PROVE  \E x \in T : \A y \in T : x <= y
<1> DEFINE R == OpToRel(<, Nat)
<1>1. IsWellFoundedOn(R, Nat)
  BY NatLessThanWellFounded
<1>2. \A m, n \in Nat : m < n => <<m, n>> \in R
  BY DEF OpToRel
<1> HIDE DEF R
<1>3. PICK x \in T : \A y \in T : <<y, x>> \notin R
  BY <1>1, WFMin
<1>4. \A y \in T : ~(y < x)
  BY <1>2, <1>3
<1>5. \A y \in T : x <= y
  BY <1>4
<1> QED
  BY <1>5

-----------------------------------------------------------------------------
(* chunk_text, for a text of any length.                                   *)

\* What Starts computes, from where on in the text: f[s] is where the windows
\* start of which the first starts at s.
After(length, s, f) ==
  IF s + Size >= length THEN {s} ELSE {s} \cup f[s + Size - Overlap]
From(length, m, f) == f = [s \in m..length |-> After(length, s, f)]

\* The recursion ends: each window starts further on than the one before.
LEMMA RecursionEnds ==
  ASSUME NEW length \in Nat
  PROVE  \E f : From(length, 0, f)
<1> DEFINE T == {k \in 0..length : ~\E f : From(length, length - k, f)}
<1>1. T = {}
  <2> SUFFICES ASSUME T # {} PROVE FALSE
    OBVIOUS
  <2>1. PICK k \in T : \A j \in T : k <= j
    <3>1. T \subseteq Nat
      OBVIOUS
    <3> HIDE DEF T
    <3> QED
      BY <3>1, Least
  <2> DEFINE m == length - k
  <2>2. k \in 0..length /\ m \in 0..length
    OBVIOUS
  <2>3. \E f : From(length, m, f)
    <3>1. CASE k = 0
      <4> DEFINE f == [s \in length..length |-> {s}]
      <4>1. \A s \in m..length : s = length /\ s + Size >= length
        BY <3>1, ChunkAssumption
      <4>2. From(length, m, f)
        BY <3>1, <4>1 DEF From, After
      <4> QED
        BY <4>2
    <3>2. CASE k # 0
      <4>1. k - 1 \in 0..length /\ k - 1 \notin T
        <5>1. k - 1 \in 0..length /\ ~(k <= k - 1)
          BY <2>2, <3>2
        <5> QED
          BY <2>1, <5>1
      <4>2. PICK g : From(length, length - (k - 1), g)
        BY <4>1
      <4>3. From(length, m + 1, g)
        BY <2>2, <4>2
      <4> DEFINE f == [s \in m..length |-> IF s = m THEN After(length, m, g) ELSE g[s]]
      <4>4. \A s \in m..length : s + Size < length =>
              s + Size - Overlap \in (m + 1)..length
        BY <2>2, ChunkAssumption
      <4>5. \A s \in (m + 1)..length : s \in m..length /\ s # m /\ f[s] = g[s]
        BY <2>2
      <4>6. \A s \in m..length : s \in Int /\ (s = m \/ s \in (m + 1)..length)
        BY <2>2
      <4>7. \A s \in m..length : After(length, s, f) = After(length, s, g)
        <5> SUFFICES ASSUME NEW s \in m..length
                     PROVE  After(length, s, f) = After(length, s, g)
          OBVIOUS
        <5>1. CASE s + Size >= length
          BY <5>1 DEF After
        <5>2. CASE ~(s + Size >= length)
          <6>1. s + Size < length
            BY <2>2, <5>2, ChunkAssumption
          <6>2. f[s + Size - Overlap] = g[s + Size - Overlap]
            BY <4>4, <4>5, <6>1
          <6> HIDE DEF f
          <6> QED
            BY <5>2, <6>2 DEF After
        <5> QED
          BY <5>1, <5>2
      <4>8. \A s \in (m + 1)..length : g[s] = After(length, s, g)
        BY <4>3 DEF From
      <4>9. \A s \in m..length : f[s] = After(length, s, f)
        BY <4>6, <4>7, <4>8
      <4>10. f = [s \in m..length |-> f[s]]
        OBVIOUS
      <4> HIDE DEF f
      <4>11. From(length, m, f)
        BY <4>9, <4>10 DEF From
      <4> QED
        BY <4>11
    <3> QED
      BY <3>1, <3>2
  <2> QED
    BY <2>3
<1>2. length \in 0..length /\ length - length = 0
  OBVIOUS
<1> QED
  BY <1>1, <1>2

LEMMA StartsUnrolled ==
  ASSUME NEW length \in Nat
  PROVE  \E f : From(length, 0, f) /\ Starts(length) = f[0]
<1> DEFINE f == CHOOSE g : From(length, 0, g)
<1>1. From(length, 0, f)
  BY RecursionEnds
<1>2. Starts(length) = f[0]
  BY DEF Starts, From, After
<1> QED
  BY <1>1, <1>2

\* The windows that start at F cover the text from s on, and only the last of
\* them reaches its end.
Tiles(length, s, F) ==
  /\ F \subseteq s..length
  /\ \A i \in s..(length - 1) : \E x \in F : x <= i /\ i < x + Size
  /\ \A x, y \in F : x < y => x + Size < length

LEMMA OneTiles ==
  ASSUME NEW length \in Nat, NEW s \in 0..length, s + Size >= length
  PROVE  Tiles(length, s, {s})
<1>1. \A i \in s..(length - 1) : s <= i /\ i < s + Size
  BY ChunkAssumption
<1>2. ~(s < s) /\ s \in s..length
  OBVIOUS
<1> QED
  BY <1>1, <1>2 DEF Tiles

LEMMA MoreTile ==
  ASSUME NEW length \in Nat, NEW s \in 0..length, s + Size < length,
         NEW F, Tiles(length, s + Size - Overlap, F)
  PROVE  Tiles(length, s, {s} \cup F)
<1> DEFINE t == s + Size - Overlap
<1>1. t \in 0..length /\ s < t /\ t <= s + Size /\ Size \in Nat
  BY ChunkAssumption
<1>2. /\ F \subseteq t..length
      /\ \A i \in t..(length - 1) : \E x \in F : x <= i /\ i < x + Size
      /\ \A x, y \in F : x < y => x + Size < length
  BY DEF Tiles
<1> HIDE DEF t
<1>3. {s} \cup F \subseteq s..length
  BY <1>1, <1>2
<1>4. ASSUME NEW i \in s..(length - 1)
      PROVE  \E x \in {s} \cup F : x <= i /\ i < x + Size
  <2>1. CASE i < t
    <3>1. s <= i /\ i < s + Size
      BY <1>1, <2>1
    <3> QED
      BY <3>1
  <2>2. CASE ~(i < t)
    <3>1. i \in t..(length - 1)
      BY <1>1, <2>2
    <3> QED
      BY <1>2, <3>1
  <2> QED
    BY <2>1, <2>2
<1>5. ASSUME NEW x \in {s} \cup F, NEW y \in {s} \cup F, x < y
      PROVE  x + Size < length
  <2>1. CASE x = s
    BY <2>1
  <2>2. CASE x \in F
    <3>1. x \in t..length /\ ~(x < s)
      BY <1>1, <1>2, <2>2
    <3>2. y \in F
      BY <1>5, <3>1
    <3> QED
      BY <1>2, <1>5, <2>2, <3>2
  <2> QED
    BY <2>1, <2>2
<1> QED
  BY <1>3, <1>4, <1>5 DEF Tiles

\* By the shortest rest of the text for which it could fail.
LEMMA StartsTile ==
  ASSUME NEW length \in Nat
  PROVE  Tiles(length, 0, Starts(length))
<1>1. PICK f : From(length, 0, f) /\ Starts(length) = f[0]
  BY StartsUnrolled
<1>2. \A s \in 0..length : f[s] = After(length, s, f)
  BY <1>1 DEF From
<1> DEFINE T == {k \in 0..length : ~Tiles(length, length - k, f[length - k])}
<1>3. T = {}
  <2> SUFFICES ASSUME T # {} PROVE FALSE
    OBVIOUS
  <2>1. PICK k \in T : \A j \in T : k <= j
    <3>1. T \subseteq Nat
      OBVIOUS
    <3> HIDE DEF T
    <3> QED
      BY <3>1, Least
  <2> DEFINE s == length - k
  <2>2. s \in 0..length /\ k \in 0..length /\ ~Tiles(length, s, f[s])
    OBVIOUS
  <2>3. CASE s + Size >= length
    <3>1. f[s] = {s}
      BY <1>2, <2>2, <2>3 DEF After
    <3> HIDE DEF s, T
    <3> QED
      BY <2>2, <2>3, <3>1, OneTiles
  <2>4. CASE ~(s + Size >= length)
    <3> DEFINE t == s + Size - Overlap
    <3>1. s + Size < length /\ t \in 0..length /\ s < t
      BY <2>2, <2>4, ChunkAssumption
    <3>2. length - t \in 0..length /\ length - t < k /\ length - (length - t) = t
      BY <2>2, <3>1
    <3>3. length - t \notin T
      <4>1. k \in Int /\ length - t \in Int /\ ~(k <= length - t)
        BY <2>2, <3>2
      <4> HIDE DEF T, t
      <4> QED
        BY <2>1, <4>1
    <3>4. Tiles(length, t, f[t])
      <4> HIDE DEF t
      <4> QED
        BY <3>2, <3>3
    <3>5. f[s] = {s} \cup f[t]
      BY <1>2, <2>2, <2>4 DEF After
    <3>6. Tiles(length, s, {s} \cup f[t])
      <4> HIDE DEF s, T
      <4> QED
        BY <2>2, <3>1, <3>4, MoreTile
    <3> QED
      BY <2>2, <3>5, <3>6
  <2> QED
    BY <2>3, <2>4
<1>4. length \in 0..length /\ length - length = 0
  OBVIOUS
<1> QED
  BY <1>1, <1>3, <1>4

\* chunk_text: the windows over a text, of whatever length, hold every character
\* of it, and no others.
THEOREM ChunksCoverTheText ==
  ASSUME NEW length \in Nat
  PROVE  UNION {Window(length, s) : s \in Starts(length)} = 0..(length - 1)
<1>1. \A i \in 0..(length - 1) : \E x \in Starts(length) : x <= i /\ i < x + Size
  BY StartsTile DEF Tiles
<1>2. \A i \in 0..(length - 1) : \E x \in Starts(length) : i \in Window(length, x)
  BY <1>1 DEF Window
<1>3. \A x : Window(length, x) \subseteq 0..(length - 1)
  BY DEF Window
<1> QED
  BY <1>2, <1>3

\* chunk_text stops at the first chunk that reaches the end of the text, as
\* another one would be "wasting an embed call/Qdrant point on a duplicate"
\* (chunking.py:28-36): of two chunks, the one that starts first stops short of
\* the end.
THEOREM NoChunkIsRedundant ==
  ASSUME NEW length \in Nat, NEW x \in Starts(length), NEW y \in Starts(length), x < y
  PROVE  x + Size < length
  BY StartsTile DEF Tiles

-----------------------------------------------------------------------------
(* The invariant of Answering.                                             *)

\* While the fetch thread works there is nothing of its run yet; once it has
\* returned, its count is that of the usable pages.
FetchInv ==
  \A r \in Runs :
    /\ r \in fetching =>
         /\ walk[r] \in {"fetch", "failing", "ended"}
         /\ usable[r] = {} /\ noted[r] = Unknown /\ saved[r] = Unknown
         /\ \A k \in Thread : worker[r][k].page = 0
    /\ r \notin fetching =>
         /\ walk[r] # "fetch" /\ noted[r] = Cardinality(usable[r])
         /\ saved[r] \in {Unknown, Cardinality(usable[r])}

\* Where the walk is against what the run file says.
WalkInv ==
  \A r \in Runs :
    /\ status[r] # "running" => walk[r] = "ended"
    /\ walk[r] = "await" => att[r] \in Thread
    /\ status[r] = "completed" =>
         /\ r \notin fetching /\ saved[r] = Cardinality(usable[r])
         /\ att[r] \in Thread /\ worker[r][att[r]].page = N + 1

\* The points in Qdrant are of pages that were fetched, and those of the pages
\* that a thread has passed without losing them are all there.
PointsInv ==
  /\ \A c \in chunks : c.page \in usable[c.run]
  /\ \A r \in Runs : \A k \in Thread : \A p \in usable[r] :
       p < worker[r][k].page /\ p \notin worker[r][k].lost => Points(r, p) \subseteq chunks

AnswerInv ==
  \A r \in Runs : answer[r].drafted => status[r] # "running"

AnsweringInv ==
  /\ AnsweringTypeOK /\ FetchInv /\ WalkInv /\ PointsInv /\ AnswerInv
  /\ SourcesWereFetched /\ CaveatIsTrue

-----------------------------------------------------------------------------
(* Counts, points, and the threads' records.                               *)

LEMMA CountOfPages ==
  ASSUME NEW S \in SUBSET Pages
  PROVE  IsFiniteSet(S) /\ Cardinality(S) \in 0..N /\ N \in Nat /\ Pages = 1..N
<1>1. IsFiniteSet(Pages) /\ Pages = 1..N
  BY LengthAssumption DEF N
<1>2. IsFiniteSet(S) /\ Cardinality(S) <= Cardinality(Pages)
  BY <1>1, FS_Subset
<1>3. Cardinality(S) \in Nat /\ N \in Nat
  BY <1>1, <1>2, FS_CardinalityType DEF N
<1> QED
  BY <1>1, <1>2, <1>3 DEF N

LEMMA SmallerCount ==
  ASSUME NEW S \in SUBSET Pages, NEW T \in SUBSET S
  PROVE  Cardinality(T) <= Cardinality(S) /\ Cardinality(T) \in 0..N
<1>1. IsFiniteSet(S)
  BY CountOfPages
<1>2. T \in SUBSET Pages
  OBVIOUS
<1>3. Cardinality(T) <= Cardinality(S)
  BY <1>1, FS_Subset
<1> QED
  BY <1>2, <1>3, CountOfPages

LEMMA PointsFacts ==
  ASSUME NEW r \in Runs, NEW p \in Pages
  PROVE  /\ Points(r, p) \subseteq [run : Runs, page : Pages, start : Nat]
         /\ \A c \in Points(r, p) : c.run = r /\ c.page = p
<1>1. Length[p] \in Nat
  BY LengthAssumption
<1>2. Starts(Length[p]) \subseteq Nat
  BY <1>1, StartsTile DEF Tiles
<1> QED
  BY <1>2 DEF Points

Work == [page : 0..(N + 1), lost : SUBSET Pages]

LEMMA ThreadsTurn ==
  ASSUME NEW w \in [Runs -> [Thread -> Work]], NEW r \in Runs, NEW k \in Thread, NEW v \in Work
  PROVE  /\ [w EXCEPT ![r][k] = v] \in [Runs -> [Thread -> Work]]
         /\ [w EXCEPT ![r][k] = v][r][k] = v
         /\ \A q \in Runs : \A j \in Thread :
              q # r \/ j # k => [w EXCEPT ![r][k] = v][q][j] = w[q][j]
<1> HIDE DEF Work, Thread
<1>1. [w[r] EXCEPT ![k] = v] \in [Thread -> Work]
  OBVIOUS
<1>2. [w EXCEPT ![r][k] = v] = [w EXCEPT ![r] = [w[r] EXCEPT ![k] = v]]
  OBVIOUS
<1> QED
  BY <1>1, <1>2

-----------------------------------------------------------------------------
(* The steps.                                                              *)

LEMMA AnsweringStart ==
  ASSUME AnsweringInit
  PROVE  AnsweringInv
<1>1. N \in Nat /\ Attempts \in Nat /\ MaxOutages \in Nat /\ Cardinality({}) = 0
  BY CountOfPages, BoundsAssumption, FS_EmptySet
<1>2. [page |-> 0, lost |-> {}] \in Work
  BY <1>1 DEF Work
<1>3. NoAnswer \in [drafted : BOOLEAN, cited : SUBSET Pages, attempted : {0, N},
                    succeeded : 0..N]
  BY <1>1 DEF NoAnswer
<1>4. AnsweringTypeOK
  BY <1>1, <1>2, <1>3 DEF AnsweringInit, AnsweringTypeOK, Work
<1>5. FetchInv /\ WalkInv /\ PointsInv
  BY DEF AnsweringInit, FetchInv, WalkInv, PointsInv
<1>6. AnswerInv /\ SourcesWereFetched /\ CaveatIsTrue
  BY DEF AnsweringInit, AnswerInv, SourcesWereFetched, CaveatIsTrue, NoAnswer
<1> QED
  BY <1>4, <1>5, <1>6 DEF AnsweringInv

\* What each step finds, per run.
LEMMA RunFacts ==
  ASSUME AnsweringInv, NEW q \in Runs
  PROVE  /\ usable[q] \in SUBSET Pages /\ Cardinality(usable[q]) \in 0..N
         /\ answer[q].cited \in SUBSET Pages /\ answer[q].succeeded \in 0..N
         /\ answer[q].drafted \in BOOLEAN
         /\ att[q] \in 0..Attempts /\ att[q] \in Int
         /\ \A k \in Thread : /\ worker[q][k] \in Work /\ worker[q][k].page \in 0..(N + 1)
                              /\ worker[q][k].lost \in SUBSET Pages
<1>1. usable[q] \in SUBSET Pages /\ answer[q].cited \in SUBSET Pages
  BY DEF AnsweringInv, AnsweringTypeOK
<1>2. answer[q].succeeded \in 0..N /\ answer[q].drafted \in BOOLEAN
  BY DEF AnsweringInv, AnsweringTypeOK
<1>3. \A k \in Thread : worker[q][k] \in Work
  BY DEF AnsweringInv, AnsweringTypeOK, Work
<1>4. att[q] \in 0..Attempts
  BY DEF AnsweringInv, AnsweringTypeOK
<1>5. att[q] \in Int
  BY <1>4, BoundsAssumption
<1> QED
  BY <1>1, <1>2, <1>3, <1>4, <1>5, CountOfPages DEF Work


LEMMA FetchTimesOutKeeps ==
  ASSUME AnsweringInv, NEW r \in Runs, FetchTimesOut(r)
  PROVE  AnsweringInv'
<1>1. UNCHANGED <<usable, fetching, noted, att, worker, chunks, answer, outages>>
  BY DEF FetchTimesOut
<1>2. AnsweringTypeOK /\ FetchInv /\ WalkInv /\ AnswerInv /\ CaveatIsTrue
  BY DEF AnsweringInv
<1>3. AnsweringTypeOK'
  BY <1>2 DEF FetchTimesOut, AnsweringTypeOK, Save, WalkTo, files
<1>4. FetchInv'
  BY <1>1, <1>2 DEF FetchTimesOut, AnsweringTypeOK, FetchInv, WalkInv, Save, WalkTo, files
<1>5. WalkInv'
  BY <1>1, <1>2 DEF FetchTimesOut, AnsweringTypeOK, FetchInv, WalkInv, Save, WalkTo, files
<1>6. PointsInv' /\ SourcesWereFetched'
  BY <1>1 DEF AnsweringInv, PointsInv, SourcesWereFetched, Points
<1>7. AnswerInv' /\ CaveatIsTrue'
  BY <1>1, <1>2 DEF FetchTimesOut, AnsweringTypeOK, AnswerInv, WalkInv, CaveatIsTrue,
    Save, WalkTo, files
<1> QED
  BY <1>3, <1>4, <1>5, <1>6, <1>7 DEF AnsweringInv

LEMMA EndFailedKeeps ==
  ASSUME AnsweringInv, NEW r \in Runs, EndFailed(r)
  PROVE  AnsweringInv'
<1>1. UNCHANGED <<usable, fetching, noted, att, worker, chunks, answer, outages>>
  BY DEF EndFailed
<1>2. AnsweringTypeOK /\ FetchInv /\ WalkInv /\ AnswerInv /\ CaveatIsTrue
  BY DEF AnsweringInv
<1>3. AnsweringTypeOK'
  BY <1>2 DEF EndFailed, AnsweringTypeOK, Save, WalkTo, files
<1>4. FetchInv'
  BY <1>1, <1>2 DEF EndFailed, AnsweringTypeOK, FetchInv, WalkInv, Save, WalkTo, files
<1>5. WalkInv'
  BY <1>1, <1>2 DEF EndFailed, AnsweringTypeOK, FetchInv, WalkInv, Save, WalkTo, files
<1>6. PointsInv' /\ SourcesWereFetched'
  BY <1>1 DEF AnsweringInv, PointsInv, SourcesWereFetched, Points
<1>7. AnswerInv' /\ CaveatIsTrue'
  BY <1>1, <1>2 DEF EndFailed, AnsweringTypeOK, AnswerInv, WalkInv, CaveatIsTrue, Save,
    WalkTo, files
<1> QED
  BY <1>3, <1>4, <1>5, <1>6, <1>7 DEF AnsweringInv

LEMMA AttemptReturnsKeeps ==
  ASSUME AnsweringInv, NEW r \in Runs, AttemptReturns(r)
  PROVE  AnsweringInv'
<1>1. UNCHANGED <<usable, fetching, noted, att, worker, chunks, answer, outages>>
  BY DEF AttemptReturns
<1>2. AnsweringTypeOK /\ FetchInv /\ WalkInv /\ AnswerInv /\ CaveatIsTrue
  BY DEF AnsweringInv
<1>3. AnsweringTypeOK'
  BY <1>2 DEF AttemptReturns, AnsweringTypeOK, Save, WalkTo, files
<1>4. FetchInv'
  BY <1>1, <1>2 DEF AttemptReturns, AnsweringTypeOK, FetchInv, WalkInv, Save, WalkTo, files
<1>5. WalkInv'
  BY <1>1, <1>2 DEF AttemptReturns, AnsweringTypeOK, FetchInv, WalkInv, Save, WalkTo, files
<1>6. PointsInv' /\ SourcesWereFetched'
  BY <1>1 DEF AnsweringInv, PointsInv, SourcesWereFetched, Points
<1>7. AnswerInv' /\ CaveatIsTrue'
  BY <1>1, <1>2 DEF AttemptReturns, AnsweringTypeOK, AnswerInv, WalkInv, CaveatIsTrue,
    Save, WalkTo, files
<1> QED
  BY <1>3, <1>4, <1>5, <1>6, <1>7 DEF AnsweringInv

LEMMA AttemptTimesOutKeeps ==
  ASSUME AnsweringInv, NEW r \in Runs, AttemptTimesOut(r)
  PROVE  AnsweringInv'
<1>1. UNCHANGED <<usable, fetching, noted, att, worker, chunks, answer, outages>>
  BY DEF AttemptTimesOut
<1>2. AnsweringTypeOK /\ FetchInv /\ WalkInv /\ AnswerInv /\ CaveatIsTrue
  BY DEF AnsweringInv
<1>3. AnsweringTypeOK'
  BY <1>2 DEF AttemptTimesOut, AnsweringTypeOK, Save, WalkTo, files
<1>4. FetchInv'
  BY <1>1, <1>2 DEF AttemptTimesOut, AnsweringTypeOK, FetchInv, WalkInv, Save, WalkTo, files
<1>5. WalkInv'
  BY <1>1, <1>2 DEF AttemptTimesOut, AnsweringTypeOK, FetchInv, WalkInv, Save, WalkTo, files
<1>6. PointsInv' /\ SourcesWereFetched'
  BY <1>1 DEF AnsweringInv, PointsInv, SourcesWereFetched, Points
<1>7. AnswerInv' /\ CaveatIsTrue'
  BY <1>1, <1>2 DEF AttemptTimesOut, AnsweringTypeOK, AnswerInv, WalkInv, CaveatIsTrue,
    Save, WalkTo, files
<1> QED
  BY <1>3, <1>4, <1>5, <1>6, <1>7 DEF AnsweringInv

LEMMA FetchReturnsKeeps ==
  ASSUME AnsweringInv, NEW r \in Runs, FetchReturns(r)
  PROVE  AnsweringInv'
<1>1. UNCHANGED <<att, worker, chunks, answer, outages>> /\ r \in fetching
      /\ fetching' = fetching \ {r}
  BY DEF FetchReturns
<1>2. AnsweringTypeOK /\ FetchInv /\ WalkInv /\ PointsInv /\ AnswerInv /\ CaveatIsTrue
      /\ SourcesWereFetched
  BY DEF AnsweringInv
<1>3. PICK ok \in SUBSET Pages :
        /\ usable' = [usable EXCEPT ![r] = ok]
        /\ noted' = [noted EXCEPT ![r] = Cardinality(ok)]
        /\ IF walk[r] = "fetch"
           THEN Save(r, "running", Cardinality(ok)) /\ WalkTo(r, "embed")
           ELSE UNCHANGED <<files, walk>>
  BY DEF FetchReturns
<1>4. Cardinality(ok) \in 0..N /\ IsFiniteSet(ok) /\ Cardinality({}) = 0
  BY CountOfPages, FS_EmptySet
<1>5. usable[r] = {} /\ noted[r] = Unknown /\ saved[r] = Unknown
      /\ \A k \in Thread : worker[r][k].page = 0
  BY <1>1, <1>2 DEF FetchInv
<1>6. AnsweringTypeOK'
  BY <1>1, <1>2, <1>3, <1>4, ZenonT(60) DEF AnsweringTypeOK, Save, WalkTo, files
<1>7. /\ usable'[r] = ok /\ noted'[r] = Cardinality(ok)
      /\ \A q \in Runs : q # r => usable'[q] = usable[q] /\ noted'[q] = noted[q]
  BY <1>2, <1>3 DEF AnsweringTypeOK
<1>8. /\ saved'[r] \in {Unknown, Cardinality(ok)} /\ walk'[r] # "fetch"
      /\ status'[r] = status[r]
      /\ walk[r] # "fetch" => walk'[r] = walk[r]
      /\ walk[r] = "fetch" => walk'[r] = "embed"
      /\ \A q \in Runs : q # r => /\ saved'[q] = saved[q] /\ walk'[q] = walk[q]
                                  /\ status'[q] = status[q]
  <2>1. walk[r] = "fetch" => status[r] = "running"
    BY <1>2 DEF WalkInv
  <2> QED
    BY <1>2, <1>3, <1>5, <2>1 DEF AnsweringTypeOK, Save, WalkTo, files
<1>9. FetchInv'
  BY <1>1, <1>2, <1>7, <1>8 DEF FetchInv
<1>10. WalkInv'
  BY <1>1, <1>2, <1>7, <1>8 DEF FetchInv, WalkInv
<1>11. PointsInv'
  <2>1. \A c \in chunks : c.run \in Runs /\ c.page \in usable'[c.run]
    BY <1>2, <1>5, <1>7 DEF PointsInv, AnsweringTypeOK
  <2>2. ASSUME NEW q \in Runs, NEW k \in Thread, NEW p \in usable'[q],
               p < worker[q][k].page, p \notin worker[q][k].lost
        PROVE  Points(q, p) \subseteq chunks
    <3>1. CASE q = r
      <4>1. p \in 1..N /\ ~(p < 0)
        BY <1>7, <3>1, CountOfPages
      <4> QED
        BY <1>5, <2>2, <3>1, <4>1
    <3>2. CASE q # r
      BY <1>2, <1>7, <2>2, <3>2 DEF PointsInv
    <3> QED
      BY <3>1, <3>2
  <2> QED
    BY <1>1, <2>1, <2>2 DEF PointsInv, Points
<1>12. AnswerInv' /\ SourcesWereFetched'
  <2>1. \A q \in Runs : usable[q] \subseteq usable'[q]
    BY <1>5, <1>7
  <2> QED
    BY <1>1, <1>2, <1>8, <2>1 DEF AnswerInv, SourcesWereFetched
<1>13. CaveatIsTrue'
  <2>1. status[r] # "completed"
    BY <1>1, <1>2 DEF WalkInv
  <2>2. answer[r].drafted => answer[r].succeeded <= Cardinality(ok)
    <3>1. answer[r].succeeded \in 0..N /\ N \in Nat
      BY RunFacts, CountOfPages
    <3>2. answer[r].drafted => answer[r].succeeded <= 0
      BY <1>2, <1>4, <1>5 DEF CaveatIsTrue
    <3> QED
      BY <1>4, <3>1, <3>2
  <2> QED
    BY <1>1, <1>2, <1>7, <1>8, <2>1, <2>2 DEF CaveatIsTrue
<1> QED
  BY <1>6, <1>9, <1>10, <1>11, <1>12, <1>13 DEF AnsweringInv

\* A thread takes its next step: nothing but its own record, the points and the
\* outages change.
LEMMA ThreadKeeps ==
  ASSUME AnsweringInv, NEW r \in Runs, NEW k \in Thread, NEW v \in Work,
         r \notin fetching,
         worker' = [worker EXCEPT ![r][k] = v],
         UNCHANGED <<status, saved, usable, fetching, noted, answer>>,
         outages' \in 0..MaxOutages,
         walk' \in [Runs -> {"fetch", "embed", "await", "failing", "ended"}],
         \A q \in Runs : walk'[q] # walk[q] => walk[q] # "ended" /\ walk'[q] # "fetch" /\ q = r,
         att' \in [Runs -> 0..Attempts],
         \A q \in Runs : att'[q] # att[q] => status[q] # "completed",
         walk'[r] = "await" => att'[r] \in Thread,
         \A q \in Runs : q # r => att'[q] = att[q],
         status[r] = "completed" => worker[r][k].page # N + 1 \/ v.page = N + 1,
         chunks \subseteq chunks',
         chunks' \subseteq chunks \cup [run : {r}, page : usable[r], start : Nat],
         \A p \in usable[r] :
           p < v.page /\ p \notin v.lost => Points(r, p) \subseteq chunks'
  PROVE  AnsweringInv'
<1>1. AnsweringTypeOK /\ FetchInv /\ WalkInv /\ PointsInv /\ AnswerInv /\ CaveatIsTrue
      /\ SourcesWereFetched
  BY DEF AnsweringInv
<1>2. worker \in [Runs -> [Thread -> Work]] /\ usable[r] \in SUBSET Pages
  BY <1>1 DEF AnsweringTypeOK, Work
<1>3. /\ worker' \in [Runs -> [Thread -> Work]]
      /\ worker'[r][k] = v
      /\ \A q \in Runs : \A j \in Thread : q # r \/ j # k => worker'[q][j] = worker[q][j]
  BY <1>2, ThreadsTurn
<1>4. AnsweringTypeOK'
  <2>1. chunks' \subseteq [run : Runs, page : Pages, start : Nat]
    BY <1>1, <1>2 DEF AnsweringTypeOK
  <2> QED
    BY <1>1, <1>3, <2>1 DEF AnsweringTypeOK, Work
<1>5. FetchInv'
  <2>1. \A q \in fetching : q \in Runs /\ q # r /\ walk'[q] = walk[q]
    BY <1>1 DEF AnsweringTypeOK
  <2>2. \A q \in Runs : walk'[q] = "fetch" => walk[q] = "fetch"
    OBVIOUS
  <2> QED
    BY <1>1, <1>3, <2>1, <2>2 DEF FetchInv
<1>6. WalkInv'
  <2>1. \A q \in Runs : status[q] = "completed" => worker'[q][att[q]].page = N + 1
    BY <1>1, <1>3 DEF WalkInv
  <2>2. \A q \in Runs : status[q] # "running" => walk'[q] = "ended"
    BY <1>1 DEF WalkInv
  <2>3. \A q \in Runs : walk'[q] = "await" => att'[q] \in Thread
    BY <1>1 DEF WalkInv
  <2> QED
    BY <1>1, <2>1, <2>2, <2>3 DEF WalkInv
<1>7. PointsInv'
  <2>1. \A c \in chunks' : c.page \in usable[c.run]
    BY <1>1 DEF PointsInv
  <2>2. ASSUME NEW q \in Runs, NEW j \in Thread, NEW p \in usable[q],
               p < worker'[q][j].page, p \notin worker'[q][j].lost
        PROVE  Points(q, p) \subseteq chunks'
    <3>1. CASE q = r /\ j = k
      BY <1>3, <2>2, <3>1
    <3>2. CASE q # r \/ j # k
      <4>1. Points(q, p) \subseteq chunks
        BY <1>1, <1>3, <2>2, <3>2 DEF PointsInv
      <4> QED
        BY <4>1
    <3> QED
      BY <3>1, <3>2
  <2> QED
    BY <2>1, <2>2 DEF PointsInv, Points
<1>8. AnswerInv' /\ SourcesWereFetched' /\ CaveatIsTrue'
  BY <1>1 DEF AnswerInv, SourcesWereFetched, CaveatIsTrue
<1> QED
  BY <1>4, <1>5, <1>6, <1>7, <1>8 DEF AnsweringInv

LEMMA StartAttemptKeeps ==
  ASSUME AnsweringInv, NEW r \in Runs, StartAttempt(r)
  PROVE  AnsweringInv'
<1> DEFINE k == att[r] + 1
           v == [worker[r][k] EXCEPT !.page = 1]
<1>1. AnsweringTypeOK /\ FetchInv /\ WalkInv
  BY DEF AnsweringInv
<1>2. att[r] \in Nat /\ att[r] < Attempts /\ Attempts \in Nat
  BY <1>1, BoundsAssumption DEF StartAttempt, AnsweringTypeOK
<1>3. k \in Thread /\ k \in 0..Attempts
  BY <1>2 DEF Thread
<1>4. worker[r][k] \in Work /\ N \in Nat
  BY <1>3, RunFacts, CountOfPages
<1>5. v \in Work /\ v.page = 1
  BY <1>4 DEF Work
<1>6. worker' = [worker EXCEPT ![r][k] = v]
  BY DEF StartAttempt
<1>7. r \notin fetching /\ status[r] = "running"
  BY <1>1 DEF StartAttempt, FetchInv, WalkInv
<1>8. att' = [att EXCEPT ![r] = k] /\ walk' = [walk EXCEPT ![r] = "await"] /\ walk[r] = "embed"
  BY DEF StartAttempt, WalkTo
<1>9. UNCHANGED <<status, saved, usable, fetching, noted, chunks, answer, outages>>
  BY DEF StartAttempt, files
<1>10. \A p \in usable[r] : ~(p < v.page)
  <2>1. usable[r] \subseteq 1..N
    BY RunFacts, CountOfPages
  <2> HIDE DEF v
  <2> QED
    BY <1>5, <2>1
<1>11. /\ outages' \in 0..MaxOutages
       /\ walk' \in [Runs -> {"fetch", "embed", "await", "failing", "ended"}]
       /\ walk'[r] = "await" /\ \A q \in Runs : q # r => walk'[q] = walk[q]
  BY <1>1, <1>8, <1>9 DEF AnsweringTypeOK
<1>12. /\ att' \in [Runs -> 0..Attempts]
       /\ att'[r] = k /\ \A q \in Runs : q # r => att'[q] = att[q]
  <2> HIDE DEF k
  <2> QED
    BY <1>1, <1>3, <1>8 DEF AnsweringTypeOK
<1> HIDE DEF k, v
<1> QED
  BY <1>3, <1>5, <1>6, <1>7, <1>8, <1>9, <1>10, <1>11, <1>12, ThreadKeeps

\* A page is behind a thread that has gone one page further, and so the thread
\* has passed the same pages as before and that one.
LEMMA PassedPages ==
  ASSUME NEW w \in Work, w.page \in Pages, NEW p \in Pages, p < w.page + 1
  PROVE  p < w.page \/ p = w.page
<1>1. Pages = 1..N /\ N \in Nat
  BY CountOfPages
<1> QED
  BY <1>1

LEMMA StorePageKeeps ==
  ASSUME AnsweringInv, NEW r \in Runs, NEW k \in Thread, StorePage(r, k)
  PROVE  AnsweringInv'
<1> DEFINE w == worker[r][k]
           v == NextPage(w)
<1>1. AnsweringTypeOK /\ FetchInv /\ WalkInv /\ PointsInv
  BY DEF AnsweringInv
<1>2. w \in Work /\ w.page \in Pages /\ Pages = 1..N /\ N \in Nat /\ usable[r] \in SUBSET Pages
  BY RunFacts, CountOfPages DEF StorePage, Turn
<1>3. v \in Work /\ v.page = w.page + 1 /\ v.lost = w.lost
  <2> HIDE DEF w
  <2> QED
    BY <1>2 DEF Work, NextPage
<1>4. worker' = [worker EXCEPT ![r][k] = v]
  BY DEF StorePage
<1>5. r \notin fetching
  BY <1>1, <1>2 DEF FetchInv
<1>6. UNCHANGED <<walk, status, saved, usable, fetching, noted, att, answer, outages>>
  BY DEF StorePage, files
<1>7. chunks' = IF w.page \in usable[r] THEN chunks \cup Points(r, w.page) ELSE chunks
  BY DEF StorePage
<1>8. chunks' \subseteq chunks \cup [run : {r}, page : usable[r], start : Nat]
      /\ chunks \subseteq chunks'
  <2>1. \A c \in Points(r, w.page) :
          c \in [run : Runs, page : Pages, start : Nat] /\ c.run = r /\ c.page = w.page
    BY <1>2, PointsFacts
  <2> HIDE DEF w
  <2>2. w.page \in usable[r] =>
          Points(r, w.page) \subseteq [run : {r}, page : usable[r], start : Nat]
    BY <2>1
  <2> QED
    BY <1>7, <2>2
<1>9. ASSUME NEW p \in usable[r], p < v.page, p \notin v.lost
      PROVE  Points(r, p) \subseteq chunks'
  <2>1. p < w.page \/ p = w.page
    BY <1>2, <1>3, <1>9, PassedPages
  <2>2. CASE p < w.page
    <3>1. Points(r, p) \subseteq chunks
      BY <1>1, <1>3, <1>9, <2>2 DEF PointsInv
    <3> QED
      BY <1>8, <3>1
  <2>3. CASE p = w.page
    BY <1>7, <1>9, <2>3
  <2> QED
    BY <2>1, <2>2, <2>3
<1>10. w.page # N + 1
  BY <1>2
<1>11. /\ outages' \in 0..MaxOutages /\ att' \in [Runs -> 0..Attempts]
       /\ walk' \in [Runs -> {"fetch", "embed", "await", "failing", "ended"}]
       /\ walk'[r] = "await" => att'[r] \in Thread
  BY <1>1, <1>6 DEF AnsweringTypeOK, WalkInv
<1> HIDE DEF v
<1> QED
  BY <1>3, <1>4, <1>5, <1>6, <1>8, <1>9, <1>10, <1>11, ThreadKeeps

LEMMA LosingRecord ==
  ASSUME NEW w \in Work
  PROVE  NextPageLosing(w) = [page |-> w.page + 1, lost |-> w.lost \cup {w.page}]
<1> DEFINE a == [w EXCEPT !.page = w.page + 1]
           more == w.lost \cup {w.page}
<1>1. a = [page |-> w.page + 1, lost |-> w.lost]
  BY DEF Work
<1>2. NextPageLosing(w) = [a EXCEPT !.lost = more]
  BY DEF NextPageLosing
<1> HIDE DEF a, more
<1>3. [a EXCEPT !.lost = more] = [page |-> w.page + 1, lost |-> more]
  BY <1>1
<1> QED
  BY <1>2, <1>3 DEF more

LEMMA LosePageKeeps ==
  ASSUME AnsweringInv, NEW r \in Runs, NEW k \in Thread, LosePage(r, k)
  PROVE  AnsweringInv'
<1> DEFINE w == worker[r][k]
           v == NextPageLosing(w)
<1>1. AnsweringTypeOK /\ FetchInv /\ WalkInv /\ PointsInv
  BY DEF AnsweringInv
<1>2. w \in Work /\ w.page \in Pages /\ Pages = 1..N /\ N \in Nat
      /\ usable[r] \in SUBSET Pages /\ w.page \in usable[r]
  BY RunFacts, CountOfPages DEF LosePage, Turn
<1>3. v \in Work /\ v.page = w.page + 1 /\ v.lost = w.lost \cup {w.page}
  <2> HIDE DEF w
  <2>1. w.page + 1 \in 0..(N + 1) /\ w.lost \cup {w.page} \in SUBSET Pages
    BY <1>2 DEF Work
  <2>2. v = [page |-> w.page + 1, lost |-> w.lost \cup {w.page}]
    BY <1>2, LosingRecord
  <2> QED
    BY <2>1, <2>2 DEF Work
<1>4. worker' = [worker EXCEPT ![r][k] = v]
  BY DEF LosePage
<1>5. r \notin fetching
  BY <1>1, <1>2 DEF FetchInv
<1>6. UNCHANGED <<walk, status, saved, usable, fetching, noted, att, answer>>
  BY DEF LosePage, files
<1>7. chunks' \in {chunks, chunks \cup Points(r, w.page)}
  BY DEF LosePage
<1>8. chunks' \subseteq chunks \cup [run : {r}, page : usable[r], start : Nat]
      /\ chunks \subseteq chunks'
  <2>1. \A c \in Points(r, w.page) :
          c \in [run : Runs, page : Pages, start : Nat] /\ c.run = r /\ c.page = w.page
    BY <1>2, PointsFacts
  <2> HIDE DEF w
  <2>2. Points(r, w.page) \subseteq [run : {r}, page : usable[r], start : Nat]
    BY <1>2, <2>1
  <2> QED
    BY <1>7, <2>2
<1>9. ASSUME NEW p \in usable[r], p < v.page, p \notin v.lost
      PROVE  Points(r, p) \subseteq chunks'
  <2>1. p < w.page /\ p \notin w.lost
    BY <1>2, <1>3, <1>9, PassedPages
  <2>2. Points(r, p) \subseteq chunks
    BY <1>1, <2>1 DEF PointsInv
  <2> QED
    BY <1>8, <2>2
<1>10. w.page # N + 1
  BY <1>2
<1>11. outages' \in 0..MaxOutages
  BY <1>1, BoundsAssumption DEF AnsweringTypeOK, LosePage, Outage
<1>12. /\ att' \in [Runs -> 0..Attempts]
       /\ walk' \in [Runs -> {"fetch", "embed", "await", "failing", "ended"}]
       /\ walk'[r] = "await" => att'[r] \in Thread
  BY <1>1, <1>6 DEF AnsweringTypeOK, WalkInv
<1> HIDE DEF v
<1> QED
  BY <1>3, <1>4, <1>5, <1>6, <1>8, <1>9, <1>10, <1>11, <1>12, ThreadKeeps

LEMMA HitsFacts ==
  ASSUME AnsweringInv, NEW r \in Runs, NEW hits, Searches(r, hits)
  PROVE  /\ PagesOf(hits) \subseteq usable[r]
         /\ outages' \in 0..MaxOutages
<1>1. AnsweringTypeOK /\ PointsInv
  BY DEF AnsweringInv
<1>2. hits \subseteq Mine(r)
  BY DEF Searches, kSubset
<1>3. PagesOf(hits) \subseteq usable[r]
  BY <1>1, <1>2 DEF PointsInv, PagesOf, Mine
<1>4. outages' \in 0..MaxOutages
  BY <1>1, BoundsAssumption DEF AnsweringTypeOK, Searches, Outage
<1> QED
  BY <1>3, <1>4

LEMMA DraftKeeps ==
  ASSUME AnsweringInv, NEW r \in Runs, Draft(r)
  PROVE  AnsweringInv'
<1>1. AnsweringTypeOK /\ FetchInv /\ WalkInv /\ PointsInv /\ AnswerInv /\ CaveatIsTrue
      /\ SourcesWereFetched
  BY DEF AnsweringInv
<1>2. UNCHANGED <<walk, status, saved, usable, fetching, noted, att, worker, chunks>>
      /\ status[r] # "running"
  BY DEF Draft, files
<1>3. PICK hits : /\ Searches(r, hits)
                  /\ answer' = [answer EXCEPT ![r] =
                       [drafted |-> TRUE, cited |-> PagesOf(hits), attempted |-> N,
                        succeeded |-> Succeeded(r, hits)]]
  BY DEF Draft
<1> DEFINE a == [drafted |-> TRUE, cited |-> PagesOf(hits), attempted |-> N,
                 succeeded |-> Succeeded(r, hits)]
           Drafts == [drafted : BOOLEAN, cited : SUBSET Pages, attempted : {0, N},
                      succeeded : 0..N]
<1>4. PagesOf(hits) \subseteq usable[r] /\ outages' \in 0..MaxOutages
  BY <1>3, HitsFacts
<1>5. usable[r] \in SUBSET Pages /\ Cardinality(usable[r]) \in 0..N /\ N \in Nat
  BY RunFacts, CountOfPages
<1>6. Cardinality(PagesOf(hits)) <= Cardinality(usable[r])
      /\ Cardinality(PagesOf(hits)) \in 0..N
  BY <1>4, <1>5, SmallerCount
<1>7. saved[r] \in {Unknown, Cardinality(usable[r])}
  BY <1>1 DEF FetchInv
<1>8. status[r] = "completed" => saved[r] = Cardinality(usable[r])
  BY <1>1 DEF WalkInv
<1>9. Succeeded(r, hits) <= Cardinality(usable[r]) /\ Succeeded(r, hits) \in 0..N
  BY <1>5, <1>6, <1>7 DEF Succeeded
<1>10. status[r] = "completed" => Succeeded(r, hits) = Cardinality(usable[r])
  BY <1>5, <1>8 DEF Succeeded, Unknown
<1>11. a \in Drafts /\ answer \in [Runs -> Drafts]
  BY <1>1, <1>4, <1>5, <1>9 DEF AnsweringTypeOK
<1>12. a.drafted /\ a.cited = PagesOf(hits) /\ a.succeeded = Succeeded(r, hits)
  OBVIOUS
<1> HIDE DEF a
<1>13. answer' = [answer EXCEPT ![r] = a]
  BY <1>3 DEF a
<1> HIDE DEF Drafts
<1>14. /\ answer' \in [Runs -> Drafts]
       /\ answer'[r] = a /\ \A q \in Runs : q # r => answer'[q] = answer[q]
  BY <1>11, <1>13
<1>15. AnsweringTypeOK'
  BY <1>1, <1>2, <1>4, <1>14 DEF AnsweringTypeOK, Drafts
<1>16. FetchInv' /\ WalkInv' /\ PointsInv'
  BY <1>1, <1>2 DEF FetchInv, WalkInv, PointsInv, Points
<1>17. AnswerInv' /\ SourcesWereFetched'
  BY <1>1, <1>2, <1>4, <1>12, <1>14 DEF AnswerInv, SourcesWereFetched
<1>18. CaveatIsTrue'
  BY <1>1, <1>2, <1>9, <1>10, <1>12, <1>14 DEF CaveatIsTrue
<1> QED
  BY <1>15, <1>16, <1>17, <1>18 DEF AnsweringInv

LEMMA AnsweringStep ==
  ASSUME AnsweringInv, [AnsweringNext]_answeringVars
  PROVE  AnsweringInv'
<1>1. CASE AnsweringNext
  <2>1. PICK r \in Runs :
          \/ FetchReturns(r) \/ FetchTimesOut(r) \/ EndFailed(r)
          \/ StartAttempt(r) \/ AttemptReturns(r) \/ AttemptTimesOut(r)
          \/ \E k \in Thread : StorePage(r, k) \/ LosePage(r, k)
          \/ Draft(r)
    BY <1>1 DEF AnsweringNext
  <2>2. CASE FetchReturns(r)
    BY <2>2, FetchReturnsKeeps
  <2>3. CASE FetchTimesOut(r)
    BY <2>3, FetchTimesOutKeeps
  <2>4. CASE EndFailed(r)
    BY <2>4, EndFailedKeeps
  <2>5. CASE StartAttempt(r)
    BY <2>5, StartAttemptKeeps
  <2>6. CASE AttemptReturns(r)
    BY <2>6, AttemptReturnsKeeps
  <2>7. CASE AttemptTimesOut(r)
    BY <2>7, AttemptTimesOutKeeps
  <2>8. ASSUME NEW k \in Thread, StorePage(r, k) PROVE AnsweringInv'
    BY <2>8, StorePageKeeps
  <2>9. ASSUME NEW k \in Thread, LosePage(r, k) PROVE AnsweringInv'
    BY <2>9, LosePageKeeps
  <2>10. CASE Draft(r)
    BY <2>10, DraftKeeps
  <2> QED
    BY <2>1, <2>2, <2>3, <2>4, <2>5, <2>6, <2>7, <2>8, <2>9, <2>10
<1>2. CASE UNCHANGED answeringVars
  BY <1>2 DEF answeringVars, AnsweringInv, AnsweringTypeOK, FetchInv, WalkInv,
    PointsInv, Points,
              AnswerInv, SourcesWereFetched, CaveatIsTrue
<1> QED
  BY <1>1, <1>2

LEMMA AnsweringInvariance == AnsweringSpec => []AnsweringInv
<1>1. AnsweringInit => AnsweringInv
  BY AnsweringStart
<1>2. AnsweringInv /\ [AnsweringNext]_answeringVars => AnsweringInv'
  BY AnsweringStep
<1> QED
  BY <1>1, <1>2, PTL DEF AnsweringSpec

\* The points that a thread has stored of a page hold its whole text.
LEMMA PointsHoldThePage ==
  ASSUME AnsweringInv, NEW r \in Runs, NEW p \in Pages, Points(r, p) \subseteq chunks
  PROVE  UNION {Window(Length[p], c.start) : c \in {c \in Mine(r) : c.page = p}}
           = 0..(Length[p] - 1)
<1> DEFINE C == {c \in Mine(r) : c.page = p}
<1>1. Length[p] \in Nat
  BY LengthAssumption
<1>2. UNION {Window(Length[p], s) : s \in Starts(Length[p])} = 0..(Length[p] - 1)
  BY <1>1, ChunksCoverTheText
<1>3. \A s \in Starts(Length[p]) : \E c \in C : c.start = s
  <2> SUFFICES ASSUME NEW s \in Starts(Length[p]) PROVE \E c \in C : c.start = s
    OBVIOUS
  <2> DEFINE c == [run |-> r, page |-> p, start |-> s]
  <2>1. c \in Points(r, p)
    BY DEF Points
  <2>2. c.run = r /\ c.page = p /\ c.start = s /\ c \in chunks
    BY <2>1
  <2> HIDE DEF c
  <2>3. c \in C
    BY <2>2 DEF Mine
  <2> QED
    BY <2>2, <2>3
<1>4. \A c \in C : Window(Length[p], c.start) \subseteq 0..(Length[p] - 1)
  BY DEF Window
<1> HIDE DEF C
<1>5. UNION {Window(Length[p], s) : s \in Starts(Length[p])}
        \subseteq UNION {Window(Length[p], c.start) : c \in C}
  <2> SUFFICES ASSUME NEW s \in Starts(Length[p])
               PROVE  Window(Length[p], s) \subseteq UNION {Window(Length[p], c.start) : c \in C}
    OBVIOUS
  <2>1. PICK c \in C : c.start = s
    BY <1>3
  <2> QED
    BY <2>1
<1>6. UNION {Window(Length[p], c.start) : c \in C} = 0..(Length[p] - 1)
  BY <1>2, <1>4, <1>5
<1> QED
  BY <1>6 DEF C

-----------------------------------------------------------------------------
(* The theorems about Answering.                                           *)

\* Type correctness: the count of sources is never more than the candidate
\* pages, no thread goes beyond the last page, the attempts stay within
\* max_retries.
THEOREM AnsweringTypeCorrect == AnsweringSpec => []AnsweringTypeOK
<1>1. AnsweringInv => AnsweringTypeOK
  BY DEF AnsweringInv
<1> QED
  BY <1>1, AnsweringInvariance, PTL

\* An answer cites only pages that were fetched, with a text, for its own run:
\* page_handlers.py stores only pages of RunContext, and semantic_search_pages
\* is restricted to the run.
THEOREM SourcesAreOwn == AnsweringSpec => []SourcesWereFetched
<1>1. AnsweringInv => SourcesWereFetched
  BY DEF AnsweringInv
<1> QED
  BY <1>1, AnsweringInvariance, PTL

\* The count of sources that the Synthesizer states is that of the pages fetched
\* (synthesizer/main.py:25-37), and exact for a completed run, whichever fetch
\* and embed threads were abandoned.
THEOREM CaveatCorrect == AnsweringSpec => []CaveatIsTrue
<1>1. AnsweringInv => CaveatIsTrue
  BY DEF AnsweringInv
<1> QED
  BY <1>1, AnsweringInvariance, PTL

\* Every character of every page of a completed run can be found, except in the
\* pages that its successful attempt reported as lost: for texts of any length,
\* any chunk size and any overlap smaller than it.
THEOREM RetrievalCorrect == AnsweringSpec => []RetrievalIsWhole
<1>1. AnsweringInv => RetrievalIsWhole
  <2> SUFFICES ASSUME AnsweringInv, NEW r \in Runs, status[r] = "completed",
                      NEW p \in usable[r] \ worker[r][att[r]].lost
               PROVE  UNION {Window(Length[p], c.start) : c \in {c \in Mine(r) : c.page = p}}
                        = 0..(Length[p] - 1)
    BY DEF RetrievalIsWhole
  <2>1. att[r] \in Thread /\ worker[r][att[r]].page = N + 1
    BY DEF AnsweringInv, WalkInv
  <2>2. p \in Pages /\ p < worker[r][att[r]].page
    <3>1. p \in Pages /\ Pages = 1..N /\ N \in Nat
      BY RunFacts, CountOfPages
    <3> QED
      BY <2>1, <3>1
  <2>3. Points(r, p) \subseteq chunks
    BY <2>1, <2>2 DEF AnsweringInv, PointsInv
  <2> QED
    BY <2>2, <2>3, PointsHoldThePage
<1> QED
  BY <1>1, AnsweringInvariance, PTL

\* The positive half of watcher.py:9-17, whose claim EndedMeansAllThere refutes
\* for failed runs: of a run that completed without losing a page everything is
\* there, whichever abandoned threads still store pages of it.
CompletedMeansAllThere ==
  [][\A r \in Runs :
       status[r] = "completed" /\ worker[r][att[r]].lost = {} => Mine(r)' = Mine(r)]_answeringVars

THEOREM CompletedRunsAreWhole == AnsweringSpec => CompletedMeansAllThere
<1> DEFINE Whole(r) == status[r] = "completed" /\ worker[r][att[r]].lost = {}
<1>1. ASSUME AnsweringInv, AnsweringNext, NEW r \in Runs, Whole(r)
      PROVE  Mine(r)' = Mine(r)
  <2>1. /\ r \notin fetching /\ att[r] \in Thread /\ worker[r][att[r]].page = N + 1
    BY <1>1 DEF AnsweringInv, WalkInv
  <2>2. \A p \in usable[r] : p \in Pages /\ Points(r, p) \subseteq chunks
    <3>1. \A p \in usable[r] : p \in Pages /\ p < N + 1
      BY <1>1, RunFacts, CountOfPages
    <3> QED
      BY <1>1, <2>1, <3>1 DEF AnsweringInv, PointsInv
  <2>3. \A q \in Runs : \A p \in usable[q] : \A c \in Points(q, p) : c.run = q
    BY <1>1, RunFacts, PointsFacts
  <2>4. PICK q \in Runs :
          \/ FetchReturns(q) \/ FetchTimesOut(q) \/ EndFailed(q)
          \/ StartAttempt(q) \/ AttemptReturns(q) \/ AttemptTimesOut(q)
          \/ \E k \in Thread : StorePage(q, k) \/ LosePage(q, k)
          \/ Draft(q)
    BY <1>1 DEF AnsweringNext
  <2>5. \/ chunks' = chunks
        \/ \E p \in usable[q] : chunks' = chunks \cup Points(q, p)
    BY <2>4 DEF FetchReturns, FetchTimesOut, EndFailed, StartAttempt, AttemptReturns,
      AttemptTimesOut, StorePage, LosePage, Draft
  <2>6. ASSUME NEW p \in usable[q], chunks' = chunks \cup Points(q, p)
        PROVE  Mine(r)' = Mine(r)
    <3>1. CASE q = r
      BY <2>2, <2>6, <3>1 DEF Mine
    <3>2. CASE q # r
      BY <2>3, <2>6, <3>2 DEF Mine
    <3> QED
      BY <3>1, <3>2
  <2> QED
    BY <2>5, <2>6 DEF Mine
<1>2. AnsweringInv /\ [AnsweringNext]_answeringVars =>
        [\A r \in Runs : Whole(r) => Mine(r)' = Mine(r)]_answeringVars
  BY <1>1
<1>3. AnsweringSpec => [][\A r \in Runs : Whole(r) => Mine(r)' = Mine(r)]_answeringVars
  BY <1>2, AnsweringInvariance, PTL DEF AnsweringSpec
<1> QED
  BY <1>3 DEF CompletedMeansAllThere

-----------------------------------------------------------------------------
(* ModelCalls                                                              *)
-----------------------------------------------------------------------------

Models == {"none", "lyzr", "openrouter", "vision"}

\* A call has a reply from the answer on, and is asked at a backend that exists.
ReplyInv ==
  \A c \in Calls :
    /\ call[c].asked <= Len(Backends)
    /\ at[c] = "report" => call[c].reply # "none"
    /\ at[c] \notin {"report", "done"} => call[c].reply = "none"
    /\ at[c] = "done" =>
         call[c].got = IF call[c].reply = "none" THEN Substitute ELSE Reading(call[c].reply)

\* The Synthesizer's calls do not overlap, and nothing is written over what the
\* last one left.
LastInv ==
  Text => /\ \A b, c \in Busy : b = c
          /\ \A c \in Calls : at[c] = "report" => /\ last.model = call[c].model
                                                  /\ last.usage = call[c].usage

ReportInv ==
  /\ \A g \in reports : g.call \in Calls /\ at[g.call] = "done"
  /\ TextReportsAreOwn

IInv == TypeOK /\ ReplyInv /\ LastInv /\ ReportInv

LEMMA BackendFacts ==
  ASSUME NEW n \in 1..2, n <= Len(Backends)
  PROVE  Backends[n] \in Models /\ Len(Backends) \in 1..2
<1>1. CASE ~Text
  <2>1. Backends = <<"vision">>
    BY <1>1 DEF Backends
  <2>2. Len(Backends) = 1
    BY <2>1
  <2>3. QED  BY <2>1, <2>2 DEF Models
<1>2. CASE Text /\ setup.lyzr
  <2>1. Backends = <<"lyzr", "openrouter">>
    BY <1>2 DEF Backends
  <2>2. QED  BY <2>1 DEF Models
<1>3. CASE Text /\ ~setup.lyzr
  <2>1. Backends = <<"openrouter">>
    BY <1>3 DEF Backends
  <2>2. Len(Backends) = 1
    BY <2>1
  <2>3. QED  BY <2>1, <2>2 DEF Models
<1>4. QED  BY <1>1, <1>2, <1>3

-----------------------------------------------------------------------------
(* What a step does to the calls and the wrapper.                          *)

CallRecord ==
  [asked : 1..2, traced : BOOLEAN, reply : {"none", "good", "junk"}, model : Models,
   usage : Calls \cup {None}, got : {"none", "good", "junk", "template", "stuck"}]

Shapes ==
  /\ call \in [Calls -> CallRecord]
  /\ at \in [Calls -> {"idle", "client", "claim", "build", "trace", "ask", "report", "raise",
                       "done"}]
  /\ last \in [model : Models, usage : Calls \cup {None}]

LEMMA GotFacts ==
  ASSUME NEW m \in CallRecord, NEW got \in {"none", "good", "junk", "template", "stuck"},
         NEW r, r = [m EXCEPT !.got = got]
  PROVE  /\ r \in CallRecord /\ r.asked = m.asked /\ r.reply = m.reply /\ r.got = got
         /\ r.model = m.model /\ r.usage = m.usage
BY DEF CallRecord

LEMMA ShapesHold == TypeOK => Shapes
BY DEF TypeOK, Shapes, CallRecord, Models

\* A call goes on, without a word from a model.
Moves(c) ==
  /\ at[c] \in {"idle", "client", "claim", "build", "trace", "ask"}
  /\ \E where \in {"client", "claim", "build", "trace", "ask", "raise"} :
       at' = [at EXCEPT ![c] = where]
  /\ reports' = reports
  /\ \E n \in 1..2, t \in BOOLEAN :
       /\ call' = [call EXCEPT ![c] = [call[c] EXCEPT !.asked = n, !.traced = t]]
       /\ n <= Len(Backends)
  /\ at[c] # "ask" => last' = last
  /\ at[c] = "idle" /\ Text => Busy = {}
  /\ last' \in [model : Models, usage : Calls \cup {None}]

\* A model has answered.
Replies(c) ==
  /\ at[c] = "ask" /\ at' = [at EXCEPT ![c] = "report"]
  /\ reports' = reports
  /\ \E reply \in {"good", "junk"}, model \in Models, usage \in {c, None} :
       /\ call' = [call EXCEPT ![c] = [call[c] EXCEPT !.reply = reply, !.model = model,
                                                      !.usage = usage]]
       /\ last'.model = model
       /\ Text => last'.usage = usage
  /\ last' \in [model : Models, usage : Calls \cup {None}]

\* The caller has its answer.
Ends(c) ==
  /\ at[c] \in {"report", "raise"} /\ at' = [at EXCEPT ![c] = "done"]
  /\ last' = last
  /\ call' = [call EXCEPT ![c] = [call[c] EXCEPT
       !.got = IF at[c] = "raise" THEN Substitute ELSE Reading(call[c].reply)]]
  /\ \/ reports' = reports
     \/ at[c] = "report" /\ \E usage \in {None, last.usage} :
          reports' = reports \cup {[call |-> c, model |-> last.model, usage |-> usage]}

LEMMA StepKinds ==
  ASSUME Shapes, ReplyInv, NEW c \in Calls,
         \/ Begin(c) \/ FindAttempted(c) \/ Claim(c) \/ BuildClient(c) \/ StartTrace(c)
         \/ Answers(c) \/ FallsBack(c) \/ Fails(c) \/ Report(c) \/ Raise(c),
         client \in BOOLEAN
  PROVE  setup' = setup /\ (Moves(c) \/ Replies(c) \/ Ends(c))
<1>0. /\ call[c].asked \in 1..2 /\ call[c].traced \in BOOLEAN
      /\ call[c].asked <= Len(Backends)
      /\ call[c] = [call[c] EXCEPT !.asked = call[c].asked, !.traced = call[c].traced]
      /\ call = [call EXCEPT ![c] = call[c]]
  BY DEF Shapes, CallRecord, ReplyInv
<1>1. Asked(c) \in Models /\ Len(Backends) \in 1..2
  BY <1>0, BackendFacts DEF Asked
<1>2. ASSUME call' = call
      PROVE  \E n \in 1..2, t \in BOOLEAN :
               /\ call' = [call EXCEPT ![c] = [call[c] EXCEPT !.asked = n, !.traced = t]]
               /\ n <= Len(Backends)
  BY <1>0, <1>2
<1>3. ASSUME NEW usage \in {c, None}, Leaves(c, usage)
      PROVE  /\ last' \in [model : Models, usage : Calls \cup {None}]
             /\ last'.model = Asked(c) /\ (Text => last'.usage = usage)
  BY <1>1, <1>3 DEF Leaves, Shapes
<1>4. CASE Begin(c) \/ FindAttempted(c) \/ Claim(c) \/ BuildClient(c)
  <2>1. /\ call' = call /\ last' = last /\ reports' = reports /\ setup' = setup
        /\ at[c] \in {"idle", "client", "claim", "build"}
        /\ at[c] = "idle" /\ Text => Busy = {}
    BY <1>4 DEF Begin, FindAttempted, Claim, BuildClient
  <2>2. \E where \in {"client", "claim", "build", "trace", "ask", "raise"} :
          at' = [at EXCEPT ![c] = where]
    BY <1>4 DEF Begin, FindAttempted, Claim, BuildClient, Goto
  <2>3. QED  BY <1>2, <2>1, <2>2 DEF Moves, Shapes
<1>5. CASE StartTrace(c)
  <2>1. /\ last' = last /\ reports' = reports /\ setup' = setup
        /\ at[c] = "trace" /\ at' = [at EXCEPT ![c] = "ask"]
    BY <1>5 DEF StartTrace, Goto
  <2>2. \E t \in BOOLEAN : call' = [call EXCEPT ![c] = [call[c] EXCEPT !.traced = t]]
    BY <1>0, <1>5 DEF StartTrace
  <2>3. PICK t \in BOOLEAN : call' = [call EXCEPT ![c] = [call[c] EXCEPT !.traced = t]]
    BY <2>2
  <2>4. [call[c] EXCEPT !.traced = t] = [call[c] EXCEPT !.asked = call[c].asked, !.traced = t]
    BY DEF Shapes, CallRecord
  <2>5. QED  BY <1>0, <2>1, <2>3, <2>4 DEF Moves, Shapes
<1>6. CASE FallsBack(c)
  <2>1. /\ last' = last /\ reports' = reports /\ setup' = setup
        /\ at[c] = "ask" /\ at' = [at EXCEPT ![c] = "ask"]
        /\ call' = [call EXCEPT ![c] = [call[c] EXCEPT !.asked = call[c].asked + 1]]
        /\ call[c].asked + 1 \in 1..2 /\ call[c].asked + 1 <= Len(Backends)
    <3>1. at' = [at EXCEPT ![c] = "ask"] /\ at[c] = "ask"
      BY <1>6 DEF FallsBack, Shapes
    <3>2. call[c].asked < Len(Backends)
      BY <1>6 DEF FallsBack
    <3>3. last' = last /\ reports' = reports /\ setup' = setup
      BY <1>6 DEF FallsBack
    <3>4. call' = [call EXCEPT ![c] = [call[c] EXCEPT !.asked = call[c].asked + 1]]
      BY <1>6 DEF FallsBack
    <3>5. call[c].asked + 1 \in 1..2 /\ call[c].asked + 1 <= Len(Backends)
      <4> HIDE DEF Backends
      <4>1. \A n \in 1..2, m \in 1..2 : n < m => n + 1 \in 1..2 /\ n + 1 <= m
        OBVIOUS
      <4>2. QED  BY <1>0, <1>1, <3>2, <4>1
    <3>6. QED  BY <3>1, <3>3, <3>4, <3>5
  <2>2. [call[c] EXCEPT !.asked = call[c].asked + 1]
          = [call[c] EXCEPT !.asked = call[c].asked + 1, !.traced = call[c].traced]
    BY DEF Shapes, CallRecord
  <2>3. QED  BY <1>0, <2>1, <2>2 DEF Moves, Shapes
<1>7. CASE Fails(c)
  <2>1. /\ call' = call /\ reports' = reports /\ setup' = setup
        /\ at[c] = "ask" /\ at' = [at EXCEPT ![c] = "raise"]
        /\ \/ last' = last
           \/ \E usage \in {c, None} : Leaves(c, usage)
    BY <1>7 DEF Fails, Goto
  <2>2. last' \in [model : Models, usage : Calls \cup {None}]
    BY <1>3, <2>1 DEF Shapes
  <2>3. QED  BY <1>2, <2>1, <2>2 DEF Moves
<1>8. CASE Answers(c)
  <2>1. PICK reply \in {"good", "junk"}, usage \in {c, None} :
          /\ call' = [call EXCEPT ![c].reply = reply, ![c].model = Asked(c), ![c].usage = usage]
          /\ Leaves(c, usage)
    BY <1>8 DEF Answers
  <2>2. at[c] = "ask" /\ at' = [at EXCEPT ![c] = "report"] /\ reports' = reports /\ setup' = setup
    BY <1>8 DEF Answers, Goto
  <2>3. call' = [call EXCEPT ![c] = [call[c] EXCEPT !.reply = reply, !.model = Asked(c),
                                                     !.usage = usage]]
    BY <2>1 DEF Shapes, CallRecord
  <2>4. QED  BY <1>1, <1>3, <2>1, <2>2, <2>3 DEF Replies
<1>9. CASE Report(c)
  <2>1. /\ at[c] = "report" /\ at' = [at EXCEPT ![c] = "done"] /\ last' = last
        /\ call' = [call EXCEPT ![c] = [call[c] EXCEPT !.got = Reading(call[c].reply)]]
        /\ setup' = setup
    BY <1>9 DEF Report, Return, Goto, Shapes, CallRecord
  <2>2. reports' = reports \/ \E usage \in {None, last.usage} : reports' = Reported(c, usage)
    BY <1>9 DEF Report
  <2>3. QED  BY <2>1, <2>2 DEF Ends, Reported
<1>10. CASE Raise(c)
  <2>1. /\ at[c] = "raise" /\ at' = [at EXCEPT ![c] = "done"] /\ last' = last
        /\ call' = [call EXCEPT ![c] = [call[c] EXCEPT !.got = Substitute]]
        /\ setup' = setup /\ reports' = reports
    BY <1>10 DEF Raise, Return, Goto, Shapes, CallRecord
  <2>2. QED  BY <2>1 DEF Ends
<1>11. QED
  BY <1>4, <1>5, <1>6, <1>7, <1>8, <1>9, <1>10

-----------------------------------------------------------------------------
(* The inductive invariant.                                                *)

LEMMA InvInit == Init => IInv
<1> SUFFICES ASSUME Init PROVE IInv
  OBVIOUS
<1>1. TypeOK
  <2>1. setup \in [wrapper : {"text", "vision"}, lyzr : BOOLEAN, langfuse : BOOLEAN]
    BY DEF Init
  <2>2. Fresh \in CallRecord
    BY DEF Fresh, CallRecord, Models
  <2>3. call \in [Calls -> CallRecord]
    BY <2>2 DEF Init
  <2>4. last \in [model : Models, usage : Calls \cup {None}]
    BY DEF Init, Models
  <2>5. /\ attempted \in BOOLEAN /\ client \in BOOLEAN /\ faults \in 0..MaxFaults
        /\ at \in [Calls -> {"idle", "client", "claim", "build", "trace", "ask", "report",
                            "raise", "done"}]
    <3>1. /\ attempted = FALSE /\ client = FALSE /\ faults = 0
          /\ at = [c \in Calls |-> "idle"]
      BY DEF Init
    <3>2. attempted \in BOOLEAN /\ client \in BOOLEAN
      BY <3>1
    <3>3. faults \in 0..MaxFaults
      BY <3>1, FaultsAssumption
    <3>4. at \in [Calls -> {"idle", "client", "claim", "build", "trace", "ask", "report",
                           "raise", "done"}]
      BY <3>1
    <3>5. QED  BY <3>2, <3>3, <3>4
  <2>6. QED  BY <2>1, <2>3, <2>4, <2>5 DEF TypeOK, CallRecord, Models
<1>2. 1 <= Len(Backends)
  <2>1. CASE ~Text
    BY <2>1 DEF Backends
  <2>2. CASE Text /\ setup.lyzr
    BY <2>2 DEF Backends
  <2>3. CASE Text /\ ~setup.lyzr
    BY <2>3 DEF Backends
  <2>4. QED  BY <2>1, <2>2, <2>3
<1>3. ReplyInv
  BY <1>2 DEF Init, ReplyInv, Fresh
<1>4. LastInv /\ ReportInv
  BY DEF Init, LastInv, ReportInv, TextReportsAreOwn, Busy
<1>5. QED  BY <1>1, <1>3, <1>4 DEF IInv

LEMMA SettingsStep ==
  ASSUME TypeOK, [Next]_vars
  PROVE  /\ setup' = setup /\ attempted' \in BOOLEAN /\ client' \in BOOLEAN
         /\ faults' \in 0..MaxFaults
<1> USE FaultsAssumption DEF TypeOK, Fault
<1>1. ASSUME NEW c \in Calls, Answers(c) \/ FallsBack(c) \/ Fails(c) \/ Report(c) \/ Raise(c)
      PROVE  UNCHANGED <<setup, attempted, client>>
             /\ (faults' = faults \/ Fault)
  BY <1>1 DEF Answers, FallsBack, Fails, Report, Raise, Return, ModelUsageFails
<1>2. ASSUME NEW c \in Calls, Begin(c) \/ FindAttempted(c) \/ Claim(c)
      PROVE  UNCHANGED <<setup, client, faults>> /\ attempted' \in BOOLEAN
  BY <1>2 DEF Begin, FindAttempted, Claim
<1>3. ASSUME NEW c \in Calls, BuildClient(c) \/ StartTrace(c)
      PROVE  UNCHANGED <<setup, attempted>> /\ client' \in BOOLEAN
             /\ (faults' = faults \/ Fault)
  BY <1>3 DEF BuildClient, StartTrace
<1>4. CASE UNCHANGED vars
  BY <1>4 DEF vars
<1>5. QED  BY <1>1, <1>2, <1>3, <1>4 DEF Next

LEMMA CallsStep ==
  ASSUME IInv, NEW c \in Calls, setup' = setup, Moves(c) \/ Replies(c) \/ Ends(c)
  PROVE  Shapes' /\ ReplyInv' /\ LastInv' /\ ReportInv'
<1>0. /\ Shapes /\ ReplyInv /\ LastInv /\ ReportInv
      /\ Text' = Text /\ Substitute' = Substitute /\ Backends' = Backends
      /\ \A r : Reading(r)' = Reading(r)
  BY ShapesHold DEF IInv, Text, Substitute, Backends, Reading
<1>1. Substitute \in {"template", "stuck"}
      /\ Reading(call[c].reply) \in {"none", "good", "junk", "stuck"}
  BY <1>0 DEF Substitute, Reading, Shapes, CallRecord
<1>2. call[c] \in CallRecord /\ call \in [Calls -> CallRecord]
  BY <1>0 DEF Shapes
<1>3. CASE Moves(c)
  <2>1. PICK where \in {"client", "claim", "build", "trace", "ask", "raise"} :
          at' = [at EXCEPT ![c] = where]
    BY <1>3 DEF Moves
  <2>2. PICK n \in 1..2, t \in BOOLEAN :
          /\ call' = [call EXCEPT ![c] = [call[c] EXCEPT !.asked = n, !.traced = t]]
          /\ n <= Len(Backends)
    BY <1>3 DEF Moves
  <2> DEFINE r == [call[c] EXCEPT !.asked = n, !.traced = t]
  <2>9. /\ r \in CallRecord /\ r.asked = n /\ r.reply = call[c].reply /\ r.got = call[c].got
        /\ r.model = call[c].model /\ r.usage = call[c].usage
    <3>1. r = [call[c] EXCEPT !.asked = n, !.traced = t]
      OBVIOUS
    <3> HIDE DEF r
    <3>2. QED  BY <1>2, <3>1 DEF CallRecord
  <2>10. call' = [call EXCEPT ![c] = r]
    BY <2>2
  <2> HIDE DEF r
  <2>3. Shapes'
    BY <1>0, <1>2, <1>3, <2>1, <2>9, <2>10 DEF Shapes, Moves
  <2>4. /\ \A b \in Calls : at'[b] = IF b = c THEN where ELSE at[b]
        /\ \A b \in Calls : /\ call'[b].reply = call[b].reply /\ call'[b].got = call[b].got
                              /\ call'[b].model = call[b].model
                              /\ call'[b].usage = call[b].usage
                              /\ call'[b].asked = IF b = c THEN n ELSE call[b].asked
    BY <1>0, <1>2, <2>1, <2>9, <2>10 DEF Shapes
  <2>5. ReplyInv'
    <3>1. at[c] \notin {"report", "done"} /\ where \notin {"report", "done"}
          /\ call[c].reply = "none"
      BY <1>0, <1>3 DEF ReplyInv, Moves
    <3>2. n <= Len(Backends)
      BY <2>2
    <3>3. QED  BY <1>0, <2>4, <3>1, <3>2 DEF ReplyInv
  <2>6. ReportInv'
    BY <1>0, <1>3, <2>4 DEF ReportInv, TextReportsAreOwn, Moves
  <2>7. LastInv'
    <3> SUFFICES ASSUME Text
                 PROVE  /\ \A b, d \in Busy' : b = d
                        /\ \A b \in Calls : at'[b] = "report" =>
                             last'.model = call'[b].model /\ last'.usage = call'[b].usage
      BY <1>0 DEF LastInv
    <3>1. Busy' \subseteq Busy \cup {c}
      BY <2>4 DEF Busy
    <3>2. c \in Busy \/ Busy = {}
      BY <1>3 DEF Busy, Moves
    <3>3. \A b, d \in Busy' : b = d
      BY <1>0, <3>1, <3>2 DEF LastInv
    <3>4. \A b \in Calls : at'[b] # "report"
      <4> SUFFICES ASSUME NEW b \in Calls, at'[b] = "report" PROVE FALSE
        OBVIOUS
      <4>1. b # c /\ at[b] = "report"
        BY <2>4
      <4>2. b \in Busy' /\ c \in Busy'
        BY <2>4, <4>1 DEF Busy
      <4>3. QED  BY <3>3, <4>1, <4>2
    <3>5. QED  BY <3>3, <3>4
  <2>8. QED  BY <2>3, <2>5, <2>6, <2>7
<1>4. CASE Replies(c)
  <2>1. PICK reply \in {"good", "junk"}, model \in Models, usage \in {c, None} :
          /\ call' = [call EXCEPT ![c] = [call[c] EXCEPT !.reply = reply, !.model = model,
                                                         !.usage = usage]]
          /\ last'.model = model
          /\ Text => last'.usage = usage
    BY <1>4 DEF Replies
  <2>2. at[c] = "ask" /\ at' = [at EXCEPT ![c] = "report"] /\ reports' = reports
        /\ last' \in [model : Models, usage : Calls \cup {None}]
    BY <1>4 DEF Replies
  <2> DEFINE r == [call[c] EXCEPT !.reply = reply, !.model = model, !.usage = usage]
  <2>9. /\ r \in CallRecord /\ r.asked = call[c].asked /\ r.reply = reply
        /\ r.model = model /\ r.usage = usage
    <3>1. usage \in Calls \cup {None}
      OBVIOUS
    <3>2. r = [call[c] EXCEPT !.reply = reply, !.model = model, !.usage = usage]
      OBVIOUS
    <3> HIDE DEF r
    <3>3. QED  BY <1>2, <3>1, <3>2 DEF CallRecord
  <2>10. call' = [call EXCEPT ![c] = r]
    BY <2>1
  <2> HIDE DEF r
  <2>3. Shapes'
    BY <1>0, <1>2, <2>2, <2>9, <2>10 DEF Shapes
  <2>4. /\ \A b \in Calls : at'[b] = IF b = c THEN "report" ELSE at[b]
        /\ \A b \in Calls : b # c => call'[b] = call[b]
        /\ call'[c].reply = reply /\ call'[c].model = model /\ call'[c].usage = usage
        /\ call'[c].asked = call[c].asked
    BY <1>0, <1>2, <2>2, <2>9, <2>10 DEF Shapes
  <2>5. ReplyInv'
    BY <1>0, <2>4 DEF ReplyInv
  <2>6. ReportInv'
    BY <1>0, <2>2, <2>4 DEF ReportInv, TextReportsAreOwn
  <2>7. LastInv'
    <3> SUFFICES ASSUME Text
                 PROVE  /\ \A b, d \in Busy' : b = d
                        /\ \A b \in Calls : at'[b] = "report" =>
                             last'.model = call'[b].model /\ last'.usage = call'[b].usage
      BY <1>0 DEF LastInv
    <3>1. Busy' = Busy /\ c \in Busy
      BY <2>2, <2>4 DEF Busy
    <3>2. \A b, d \in Busy' : b = d
      BY <1>0, <3>1 DEF LastInv
    <3>3. \A b \in Calls : at'[b] = "report" => b = c
      BY <3>1, <3>2 DEF Busy
    <3>4. QED  BY <2>1, <2>4, <3>2, <3>3
  <2>8. QED  BY <2>3, <2>5, <2>6, <2>7
<1>5. CASE Ends(c)
  <2> DEFINE got == IF at[c] = "raise" THEN Substitute ELSE Reading(call[c].reply)
  <2>1. /\ at[c] \in {"report", "raise"} /\ at' = [at EXCEPT ![c] = "done"]
        /\ last' = last
        /\ call' = [call EXCEPT ![c] = [call[c] EXCEPT !.got = got]]
    BY <1>5 DEF Ends
  <2>2. got \in {"none", "good", "junk", "template", "stuck"}
    BY <1>1
  <2>3. at[c] = "raise" => call[c].reply = "none"
    BY <1>0 DEF ReplyInv
  <2>4. at[c] = "report" => call[c].reply # "none"
    BY <1>0 DEF ReplyInv
  <2>5. got = IF call[c].reply = "none" THEN Substitute ELSE Reading(call[c].reply)
    BY <2>1, <2>3, <2>4
  <2> HIDE DEF got
  <2> DEFINE r == [call[c] EXCEPT !.got = got]
  <2>12. /\ r \in CallRecord /\ r.asked = call[c].asked /\ r.reply = call[c].reply
         /\ r.got = got /\ r.model = call[c].model /\ r.usage = call[c].usage
    <3>1. r = [call[c] EXCEPT !.got = got]
      OBVIOUS
    <3> HIDE DEF got, r
    <3>2. QED  BY <1>2, <2>2, <3>1, GotFacts
  <2>13. call' = [call EXCEPT ![c] = r]
    BY <2>1
  <2> HIDE DEF r
  <2>6. Shapes'
    BY <1>0, <1>2, <2>1, <2>12, <2>13 DEF Shapes
  <2>7. /\ \A b \in Calls : at'[b] = IF b = c THEN "done" ELSE at[b]
        /\ \A b \in Calls : b # c => call'[b] = call[b]
        /\ call'[c].reply = call[c].reply /\ call'[c].model = call[c].model
        /\ call'[c].usage = call[c].usage /\ call'[c].got = got
        /\ call'[c].asked = call[c].asked
    BY <1>0, <1>2, <2>1, <2>12, <2>13 DEF Shapes
  <2>8. ReplyInv'
    BY <1>0, <2>5, <2>7 DEF ReplyInv
  <2>9. LastInv'
    BY <1>0, <2>1, <2>7 DEF LastInv, Busy
  <2>10. ReportInv'
    <3>1. CASE reports' = reports
      BY <1>0, <2>1, <2>7, <3>1 DEF ReportInv, TextReportsAreOwn
    <3>2. CASE at[c] = "report" /\ \E usage \in {None, last.usage} :
            reports' = reports \cup {[call |-> c, model |-> last.model, usage |-> usage]}
      <4>1. PICK usage \in {None, last.usage} :
              reports' = reports \cup {[call |-> c, model |-> last.model, usage |-> usage]}
        BY <3>2
      <4>2. Text => last.model = call[c].model /\ last.usage = call[c].usage
        BY <1>0, <3>2 DEF LastInv
      <4>3. \A g \in reports' : g \in reports \/ (g.call = c /\ g.model = last.model
                                                  /\ g.usage = usage)
        BY <4>1
      <4>4. QED  BY <1>0, <2>7, <4>2, <4>3 DEF ReportInv, TextReportsAreOwn
    <3>3. QED  BY <1>5, <3>1, <3>2 DEF Ends
  <2>11. QED  BY <2>6, <2>8, <2>9, <2>10
<1>6. QED  BY <1>3, <1>4, <1>5

LEMMA InvStep == IInv /\ [Next]_vars => IInv'
<1> SUFFICES ASSUME IInv, [Next]_vars PROVE IInv'
  OBVIOUS
<1>1. /\ setup' = setup /\ attempted' \in BOOLEAN /\ client' \in BOOLEAN
      /\ faults' \in 0..MaxFaults
  BY SettingsStep DEF IInv
<1>2. Shapes' /\ ReplyInv' /\ LastInv' /\ ReportInv'
  <2>1. CASE UNCHANGED vars
    BY <2>1, ShapesHold DEF IInv, vars, Shapes, ReplyInv, LastInv, ReportInv,
      TextReportsAreOwn,
       Busy, Text, Backends, Substitute, Reading
  <2>2. ASSUME NEW c \in Calls,
               \/ Begin(c) \/ FindAttempted(c) \/ Claim(c) \/ BuildClient(c) \/ StartTrace(c)
               \/ Answers(c) \/ FallsBack(c) \/ Fails(c) \/ Report(c) \/ Raise(c)
        PROVE  Shapes' /\ ReplyInv' /\ LastInv' /\ ReportInv'
    <3>1. Shapes /\ ReplyInv /\ client \in BOOLEAN
      BY ShapesHold DEF IInv, TypeOK
    <3>2. Moves(c) \/ Replies(c) \/ Ends(c)
      BY <2>2, <3>1, StepKinds
    <3>3. QED  BY <1>1, <3>2, CallsStep
  <2>3. QED  BY <2>1, <2>2 DEF Next
<1>3. TypeOK'
  BY <1>1, <1>2 DEF IInv, TypeOK, Shapes, CallRecord, Models
<1>4. QED  BY <1>2, <1>3 DEF IInv

LEMMA Invariance == Spec => []IInv
BY InvInit, InvStep, PTL DEF Spec

-----------------------------------------------------------------------------
(* The theorems.                                                           *)

\* Type invariant: the model asked is one of the wrapper's.
THEOREM TypeCorrect == Spec => []TypeOK
<1>1. IInv => TypeOK
  BY DEF IInv
<1>2. QED  BY Invariance, <1>1, PTL

\* Whatever becomes of its trace and of the other calls, a caller gets what its
\* own model said, or the substitute when none said anything.
THEOREM TracingCostsNoAnswer == Spec => []TracingIsHarmless
<1>1. IInv => TracingIsHarmless
  BY DEF IInv, ReplyInv, TracingIsHarmless
<1>2. QED  BY Invariance, <1>1, PTL

\* A trace of the Synthesizer names the model and the tokens of its own call.
THEOREM TextReportsAreTheirOwn == Spec => []TextReportsAreOwn
<1>1. IInv => TextReportsAreOwn
  BY DEF IInv, ReportInv
<1>2. QED  BY Invariance, <1>1, PTL
=============================================================================
