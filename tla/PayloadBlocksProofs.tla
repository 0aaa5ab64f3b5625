------------------------- MODULE PayloadBlocksProofs -------------------------
(***************************************************************************)
(* Proofs about PayloadBlocks: the selected table is the one run that       *)
(* contains all others, and the work stays within the bound it was admitted *)
(* under, for every source, number of phases and stride.                    *)
(***************************************************************************)
EXTENDS PayloadBlocks, TLAPS

-----------------------------------------------------------------------------
(***************************************************************************)
(* The cipher phase advances by the stride, record after record.            *)
(***************************************************************************)
LEMMA RemainderIsUnique ==
  ASSUME NEW N \in Nat \ {0}, NEW a \in Int, NEW q \in Int, NEW r \in 0..(N - 1),
         a = q * N + r
  PROVE  a % N = r
  OBVIOUS

LEMMA RemainderOfSum ==
  ASSUME NEW N \in Nat \ {0}, NEW a \in Nat, NEW b \in Nat
  PROVE  ((a % N) + b) % N = (a + b) % N
<1>1. a % N \in 0..(N - 1) /\ a \div N \in Int /\ a = (a \div N) * N + (a % N)
  OBVIOUS
<1> DEFINE c == (a % N) + b
<1>2. c \in Nat
  BY <1>1
<1>3. c % N \in 0..(N - 1) /\ c \div N \in Int /\ c = (c \div N) * N + (c % N)
  BY <1>2
<1>4. a + b = ((a \div N) + (c \div N)) * N + (c % N)
  BY <1>1, <1>3
<1>5. (a + b) % N = c % N
  <2> DEFINE r == c % N
             s == (a \div N) + (c \div N)
  <2>1. r \in 0..(N - 1) /\ s \in Int /\ a + b \in Int /\ a + b = s * N + r
    BY <1>1, <1>3, <1>4
  <2>. HIDE DEF r, s, c
  <2>2. (a + b) % N = r
    BY <2>1, RemainderIsUnique
  <2>. QED
    BY <2>2 DEF r
<1>. QED
  BY <1>5

LEMMA PhasesAdvance ==
  ASSUME NEW p \in PhaseSet
  PROVE  /\ \A n \in Nat : PhaseAfter(p, n) \in PhaseSet
         /\ PhaseAfter(p, 0) = p
         /\ \A n \in Nat : PhaseAfter(PhaseAfter(p, 1), n) = PhaseAfter(p, n + 1)
<1>1. p \in Nat /\ Phases \in Nat \ {0} /\ Stride \in Nat /\ p < Phases
  BY BoundsArePositive DEF PhaseSet
<1>2. ASSUME NEW n \in Nat PROVE n * Stride \in Nat /\ (n + 1) * Stride = Stride + n * Stride
  BY <1>1
<1>3. ASSUME NEW n \in Nat PROVE PhaseAfter(p, n) \in PhaseSet
  BY <1>1, <1>2 DEF PhaseAfter, PhaseSet
<1>4. PhaseAfter(p, 0) = p
  <2>1. p = 0 * Phases + p /\ p \in 0..(Phases - 1)
    BY <1>1
  <2>2. p % Phases = p
    BY <1>1, <2>1, RemainderIsUnique
  <2>. QED
    BY <1>1, <2>2 DEF PhaseAfter
<1>5. ASSUME NEW n \in Nat PROVE PhaseAfter(PhaseAfter(p, 1), n) = PhaseAfter(p, n + 1)
  <2>1. PhaseAfter(p, 1) = (p + Stride) % Phases
    BY <1>1 DEF PhaseAfter
  <2>2. p + Stride \in Nat /\ n * Stride \in Nat
    BY <1>1, <1>2
  <2>3. (((p + Stride) % Phases) + n * Stride) % Phases = ((p + Stride) + n * Stride) % Phases
    BY <1>1, <2>2, RemainderOfSum
  <2>4. (p + Stride) + n * Stride = p + (n + 1) * Stride
    BY <1>1, <1>2
  <2>. QED
    BY <2>1, <2>3, <2>4 DEF PhaseAfter
<1>. QED
  BY <1>3, <1>4, <1>5

-----------------------------------------------------------------------------
(***************************************************************************)
(* Runs: n records from (i, p) on, then a terminal.  A terminal alone is    *)
(* memoised as a length but is no run.                                      *)
(***************************************************************************)
RunAt(i, p, n) ==
  /\ i + n < starts
  /\ \A j \in 0..(n - 1) : kind[<<i + j, PhaseAfter(p, j)>>] = "Record"
  /\ kind[<<i + n, PhaseAfter(p, n)>>] = "Terminal"

\* L is what a pass should remember of the runs that start at (i, p).
Remembers(L, i, p) ==
  \/ L = None /\ \A n \in Nat : ~RunAt(i, p, n)
  \/ L \in Nat /\ RunAt(i, p, L)

LEMMA RunsAreRuns ==
  ASSUME NEW r, IsRun(r)
  PROVE  RunAt(r.start, r.phase, r.length) /\ r.length > 0
  BY DEF IsRun, RunAt

LEMMA ARunIsARun ==
  ASSUME TypeOK, NEW i \in 0..(starts - 1), NEW p \in PhaseSet, NEW n \in Nat
  PROVE  n > 0 /\ RunAt(i, p, n) <=> State(i, p, n) \in Runs
<1>1. starts \in Nat /\ starts > 0
  BY BoundsArePositive DEF TypeOK
<1>2. n > 0 /\ RunAt(i, p, n) => n \in 1..(starts - 1)
  BY <1>1 DEF RunAt
<1>. QED
  BY <1>1, <1>2 DEF Runs, State, IsRun, RunAt

\* A record does not end a run, so that two runs from one place are the same.
LEMMA RunIsUnique ==
  ASSUME NEW i, NEW p, NEW n \in Nat, NEW m \in Nat, RunAt(i, p, n), RunAt(i, p, m)
  PROVE  n = m
<1>1. CASE n < m
  <2>1. n \in 0..(m - 1)
    BY <1>1
  <2>. QED
    BY <2>1 DEF RunAt
<1>2. CASE m < n
  <2>1. m \in 0..(n - 1)
    BY <1>2
  <2>. QED
    BY <2>1 DEF RunAt
<1>. QED
  BY <1>1, <1>2

\* A run is a terminal, or a record with a run behind it.
LEMMA RunGrows ==
  ASSUME NEW i \in Nat, NEW p \in PhaseSet, starts \in Nat
  PROVE  /\ RunAt(i, p, 0) <=> i < starts /\ kind[<<i, p>>] = "Terminal"
         /\ \A n \in Nat : RunAt(i, p, n + 1) <=>
              /\ kind[<<i, p>>] = "Record"
              /\ RunAt(i + 1, PhaseAfter(p, 1), n)
<1>1. i + 0 = i /\ PhaseAfter(p, 0) = p /\ 0..(0 - 1) = {}
  BY PhasesAdvance
<1>2. RunAt(i, p, 0) <=> i < starts /\ kind[<<i, p>>] = "Terminal"
  BY <1>1 DEF RunAt
<1>3. ASSUME NEW n \in Nat
      PROVE  RunAt(i, p, n + 1) <=> /\ kind[<<i, p>>] = "Record"
                                    /\ RunAt(i + 1, PhaseAfter(p, 1), n)
  <2>1. \A j \in Nat : /\ i + (j + 1) = (i + 1) + j
                       /\ PhaseAfter(p, j + 1) = PhaseAfter(PhaseAfter(p, 1), j)
    BY PhasesAdvance
  <2>2. ASSUME RunAt(i, p, n + 1)
        PROVE  kind[<<i, p>>] = "Record" /\ RunAt(i + 1, PhaseAfter(p, 1), n)
    <3>1. 0 \in 0..((n + 1) - 1)
      OBVIOUS
    <3>2. kind[<<i, p>>] = "Record"
      BY <1>1, <2>2, <3>1 DEF RunAt
    <3>3. ASSUME NEW j \in 0..(n - 1)
          PROVE  kind[<<(i + 1) + j, PhaseAfter(PhaseAfter(p, 1), j)>>] = "Record"
      <4>1. j + 1 \in 0..((n + 1) - 1) /\ j \in Nat
        OBVIOUS
      <4>. QED
        BY <2>1, <2>2, <4>1 DEF RunAt
    <3>. QED
      BY <2>1, <2>2, <3>2, <3>3 DEF RunAt
  <2>3. ASSUME kind[<<i, p>>] = "Record", RunAt(i + 1, PhaseAfter(p, 1), n)
        PROVE  RunAt(i, p, n + 1)
    <3>1. ASSUME NEW j \in 0..((n + 1) - 1)
          PROVE  kind[<<i + j, PhaseAfter(p, j)>>] = "Record"
      <4>1. CASE j = 0
        BY <1>1, <2>3, <4>1
      <4>2. CASE j # 0
        <5>1. j - 1 \in 0..(n - 1) /\ j - 1 \in Nat /\ (j - 1) + 1 = j
          BY <4>2
        <5>2. i + j = (i + 1) + (j - 1)
              /\ PhaseAfter(p, j) = PhaseAfter(PhaseAfter(p, 1), j - 1)
          BY <2>1, <5>1
        <5>3. kind[<<(i + 1) + (j - 1), PhaseAfter(PhaseAfter(p, 1), j - 1)>>] = "Record"
          BY <2>3, <5>1 DEF RunAt
        <5>. QED
          BY <5>2, <5>3
      <4>. QED
        BY <4>1, <4>2
    <3>. QED
      BY <2>1, <2>3, <3>1 DEF RunAt
  <2>. QED
    BY <2>2, <2>3
<1>. QED
  BY <1>2, <1>3

(***************************************************************************)
(* What a pass remembers of the row behind decides what it finds here.      *)
(***************************************************************************)
LEMMA LengthIsRight ==
  ASSUME TypeOK, \A q \in PhaseSet : Remembers(nextLengths[q], index + 1, q)
  PROVE  Remembers(RunLength, index, phase)
<1>1. /\ starts \in Nat /\ index \in Nat /\ index < starts /\ phase \in PhaseSet
      /\ kind[<<index, phase>>] \in Kinds
  BY BoundsArePositive DEF TypeOK
<1> DEFINE q == PhaseAfter(phase, 1)
<1>2. q \in PhaseSet
  BY <1>1, PhasesAdvance
<1>3. Remembers(nextLengths[q], index + 1, q)
  BY <1>2
<1>4. \A n \in Nat : n = 0 \/ \E m \in Nat : n = m + 1
  <2>1. ASSUME NEW n \in Nat, n # 0 PROVE n - 1 \in Nat /\ n = (n - 1) + 1
    BY <2>1
  <2>. QED
    BY <2>1
<1>5. CASE kind[<<index, phase>>] = "Invalid"
  <2>1. RunLength = None
    BY <1>5 DEF RunLength
  <2>2. ~RunAt(index, phase, 0) /\ \A m \in Nat : ~RunAt(index, phase, m + 1)
    BY <1>1, <1>5, RunGrows
  <2>3. \A n \in Nat : ~RunAt(index, phase, n)
    BY <1>4, <2>2
  <2>. QED
    BY <2>1, <2>3 DEF Remembers
<1>6. CASE kind[<<index, phase>>] = "Terminal"
  <2>1. RunLength = 0
    BY <1>6 DEF RunLength
  <2>. QED
    BY <1>1, <1>6, <2>1, RunGrows DEF Remembers
<1>7. CASE kind[<<index, phase>>] = "Record"
  <2>1. RunLength = IF nextLengths[q] = None THEN None ELSE 1 + nextLengths[q]
    BY <1>7 DEF RunLength
  <2>2. CASE nextLengths[q] = None
    <3>1. \A n \in Nat : ~RunAt(index + 1, q, n)
      BY <1>3, <2>2 DEF Remembers, None
    <3>2. ~RunAt(index, phase, 0)
      BY <1>1, <1>7, RunGrows
    <3>3. \A m \in Nat : ~RunAt(index, phase, m + 1)
      BY <1>1, <3>1, RunGrows
    <3>4. \A n \in Nat : ~RunAt(index, phase, n)
      BY <1>4, <3>2, <3>3, Zenon
    <3>. QED
      BY <2>1, <2>2, <3>4 DEF Remembers
  <2>3. CASE nextLengths[q] # None
    <3>1. nextLengths[q] \in Nat /\ RunAt(index + 1, q, nextLengths[q])
      BY <1>3, <2>3 DEF Remembers
    <3>2. RunLength = nextLengths[q] + 1
      BY <2>1, <2>3, <3>1
    <3>3. RunAt(index, phase, nextLengths[q] + 1)
      BY <1>1, <1>7, <3>1, RunGrows
    <3>. QED
      BY <3>1, <3>2, <3>3 DEF Remembers
  <2>. QED
    BY <2>2, <2>3
<1>. QED
  BY <1>1, <1>5, <1>6, <1>7 DEF Kinds

-----------------------------------------------------------------------------
(***************************************************************************)
(* The inductive invariant.  Behind(i, p): the pass has been there.         *)
(***************************************************************************)
Behind(i, p) == index < i \/ (index = i /\ p < phase)
RunsBehind == {r \in Runs : Behind(r.start, r.phase)}
RunsHere == {r \in Runs : r.start = index /\ r.phase = phase}

\* The row behind and the part of this row that the pass has done are right.
MemoryIsRight ==
  pc \in {"survey", "rescan"} =>
    \A q \in PhaseSet : /\ Remembers(nextLengths[q], index + 1, q)
                        /\ q < phase => Remembers(lengths[q], index, q)

\* l is a longest run of R, and a says whether another one is as long.
LongestOf(l, a, R) ==
  /\ \A r \in R : r.length <= l.length
  /\ l.length > 0 => l \in R
  /\ a <=> \E r \in R : r.length = l.length /\ r # l

LongestIsRight ==
  /\ pc = "start" => longest = NoState /\ ~ambiguous
  /\ pc = "survey" => LongestOf(longest, ambiguous, RunsBehind)
  /\ pc \in {"choose", "rebuild", "rescan", "conclude"} => LongestOf(longest, ambiguous, Runs)
  /\ pc \in {"rebuild", "rescan", "conclude"} => longest.length > 0 /\ ~ambiguous

BuiltIsRight ==
  /\ pc \in {"start", "survey", "choose"} => built = 0
  /\ pc = "rebuild" => built <= longest.length
  /\ pc \in {"rescan", "conclude"} => built = longest.length

\* The shorter runs of R that are not where a suffix of the longest would be.
Strays(R) == {r \in R : IsShorter(r) /\ ~InPlace(r)}

IndependentIsRight ==
  /\ pc \in {"start", "survey", "choose", "rebuild"} => ~independent
  /\ pc = "rescan" => (independent <=> Strays(RunsBehind) # {})
  /\ pc = "conclude" => (independent <=> Strays(Runs) # {})

SelectionInv ==
  /\ TypeOK
  /\ (pc = "returned") <=> (outcome # "pending")
  /\ MemoryIsRight /\ LongestIsRight /\ BuiltIsRight /\ IndependentIsRight
  /\ SelectionIsDominant

-----------------------------------------------------------------------------
(***************************************************************************)
(* One step of a pass.                                                      *)
(***************************************************************************)
LEMMA HereIsVisited ==
  ASSUME TypeOK, Remembers(RunLength, index, phase)
  PROVE  /\ RunLength \in None..(starts - 1)
         /\ RunsHere = {r \in {Here} : r.length > 0}
<1>1. /\ starts \in Nat /\ index \in 0..(starts - 1) /\ phase \in PhaseSet
      /\ starts > 0
  BY BoundsArePositive DEF TypeOK
<1>2. RunLength \in None..(starts - 1)
  BY <1>1 DEF Remembers, RunAt, None
<1>3. ASSUME NEW r \in RunsHere PROVE r = Here /\ r.length > 0
  <2>1. r = State(index, phase, r.length) /\ r.length \in Nat /\ r.length > 0
    BY DEF RunsHere, Runs, State
  <2>2. RunAt(index, phase, r.length)
    BY <2>1, RunsAreRuns DEF RunsHere, Runs
  <2>3. RunLength = r.length
    BY <2>1, <2>2, RunIsUnique DEF Remembers
  <2>. QED
    BY <2>1, <2>3 DEF Here
<1>4. ASSUME RunLength > 0 PROVE Here \in RunsHere
  <2>1. RunLength \in Nat /\ RunAt(index, phase, RunLength)
    BY <1>2, <1>4 DEF Remembers, None
  <2>2. Here \in Runs
    BY <1>1, <1>4, <2>1, ARunIsARun DEF Here
  <2>. QED
    BY <2>2 DEF RunsHere, Here, State
<1>5. Here.length = RunLength
  BY DEF Here, State
<1>. QED
  BY <1>2, <1>3, <1>4, <1>5

LEMMA SourceKeepsRuns ==
  ASSUME UNCHANGED input
  PROVE  /\ \A L, i, p : Remembers(L, i, p)' <=> Remembers(L, i, p)
         /\ Runs' = Runs
  BY DEF input, Remembers, RunAt, Runs, IsRun

\* A pass starts after the last row, where no run is.
LEMMA BeginPassIsClean ==
  ASSUME TypeOK, NEW pass, BeginPass(pass), UNCHANGED input
  PROVE  /\ index' \in 0..(starts - 1) /\ phase' \in PhaseSet
         /\ lengths' \in [PhaseSet -> None..(starts - 1)]
         /\ nextLengths' \in [PhaseSet -> None..(starts - 1)]
         /\ MemoryIsRight' /\ RunsBehind' = {}
<1>1. /\ starts \in Nat /\ starts > 0 /\ Phases \in Nat /\ Phases > 0
      /\ starts' = starts /\ Runs' = Runs
  BY BoundsArePositive, SourceKeepsRuns DEF TypeOK, input
<1>2. index' = starts - 1 /\ phase' = 0 /\ lengths' = NoRow /\ nextLengths' = NoRow
  BY DEF BeginPass
<1>3. NoRow \in [PhaseSet -> None..(starts - 1)] /\ 0 \in PhaseSet
  BY <1>1 DEF NoRow, None, PhaseSet
<1>4. ASSUME NEW q \in PhaseSet
      PROVE  Remembers(nextLengths[q], index + 1, q)' /\ ~(q < phase')
  <2>1. nextLengths'[q] = None /\ index' + 1 = starts
    BY <1>1, <1>2 DEF NoRow
  <2>2. ~(q < phase')
    BY <1>1, <1>2 DEF PhaseSet
  <2>3. \A n \in Nat : ~RunAt(index + 1, q, n)'
    BY <1>1, <2>1 DEF RunAt
  <2>. QED
    BY <2>1, <2>2, <2>3 DEF Remembers
<1>5. MemoryIsRight'
  BY <1>4 DEF MemoryIsRight
<1>6. RunsBehind' = {}
  <2>1. ASSUME NEW r \in Runs PROVE ~Behind(r.start, r.phase)'
    <3>1. r.start \in 0..(starts - 1) /\ r.phase \in 0..(Phases - 1)
      BY DEF Runs, PhaseSet
    <3>. QED
      BY <1>1, <1>2, <3>1 DEF Behind
  <2>. QED
    BY <1>1, <2>1 DEF RunsBehind
<1>. QED
  BY <1>1, <1>2, <1>3, <1>5, <1>6

\* The pass moves over one place, and remembers what it found there.
LEMMA PassGoesOn ==
  ASSUME TypeOK, MemoryIsRight, pc \in {"survey", "rescan"},
         NEW next \in {"choose", "conclude"}, GoOn(next), UNCHANGED input
  PROVE  /\ index' \in 0..(starts - 1) /\ phase' \in PhaseSet
         /\ lengths' \in [PhaseSet -> None..(starts - 1)]
         /\ nextLengths' \in [PhaseSet -> None..(starts - 1)]
         /\ MemoryIsRight'
         /\ \/ pc' = pc /\ RunsBehind' = RunsBehind \union RunsHere
            \/ pc' = next /\ Runs = RunsBehind \union RunsHere
<1>1. /\ starts \in Nat /\ starts > 0 /\ Phases \in Nat /\ Phases > 0
      /\ index \in 0..(starts - 1) /\ phase \in 0..(Phases - 1) /\ phase \in PhaseSet
      /\ starts' = starts /\ Runs' = Runs
  BY BoundsArePositive, SourceKeepsRuns DEF TypeOK, input, PhaseSet
<1>2. \A q \in PhaseSet : /\ Remembers(nextLengths[q], index + 1, q)
                          /\ q < phase => Remembers(lengths[q], index, q)
  BY DEF MemoryIsRight
<1>3. Remembers(RunLength, index, phase)
  BY <1>2, LengthIsRight
<1>4. RunLength \in None..(starts - 1)
  BY <1>3, HereIsVisited
<1>5. /\ lengths \in [PhaseSet -> None..(starts - 1)]
      /\ nextLengths \in [PhaseSet -> None..(starts - 1)]
      /\ NoRow \in [PhaseSet -> None..(starts - 1)]
      /\ [lengths EXCEPT ![phase] = RunLength] \in [PhaseSet -> None..(starts - 1)]
  BY <1>1, <1>4 DEF TypeOK, NoRow, None
<1>6. \A q \in PhaseSet : q <= phase => Remembers([lengths EXCEPT ![phase] = RunLength][q], index, q)
  <2>1. ASSUME NEW q \in PhaseSet, q <= phase
        PROVE  Remembers([lengths EXCEPT ![phase] = RunLength][q], index, q)
    <3>1. CASE q = phase
      BY <1>3, <1>5, <3>1
    <3>2. CASE q # phase
      <4>1. q < phase
        BY <1>1, <2>1, <3>2 DEF PhaseSet
      <4>2. [lengths EXCEPT ![phase] = RunLength][q] = lengths[q]
        BY <1>5, <3>2
      <4>. QED
        BY <1>2, <4>1, <4>2
    <3>. QED
      BY <3>1, <3>2
  <2>. QED
    BY <2>1
<1>7. \A r \in Runs : r.start \in 0..(starts - 1) /\ r.phase \in 0..(Phases - 1)
  BY DEF Runs, PhaseSet
<1>8. CASE phase < Phases - 1
  <2>1. /\ phase' = phase + 1 /\ lengths' = [lengths EXCEPT ![phase] = RunLength]
        /\ pc' = pc /\ index' = index /\ nextLengths' = nextLengths
    BY <1>8 DEF GoOn
  <2>2. phase' \in PhaseSet
    BY <1>1, <1>8, <2>1 DEF PhaseSet
  <2>3. ASSUME NEW q \in PhaseSet
        PROVE  /\ Remembers(nextLengths[q], index + 1, q)'
               /\ q < phase' => Remembers(lengths[q], index, q)'
    <3>1. Remembers(nextLengths'[q], index' + 1, q)
      BY <1>2, <2>1
    <3>2. ASSUME q < phase' PROVE Remembers(lengths'[q], index', q)
      <4>1. q <= phase
        BY <1>1, <2>1, <3>2 DEF PhaseSet
      <4>. QED
        BY <1>6, <2>1, <4>1
    <3>. QED
      BY <3>1, <3>2, SourceKeepsRuns DEF input, Remembers, RunAt
  <2>4. MemoryIsRight'
    BY <2>3 DEF MemoryIsRight
  <2>5. \A r \in Runs : Behind(r.start, r.phase)' <=>
           Behind(r.start, r.phase) \/ (r.start = index /\ r.phase = phase)
    BY <1>1, <1>7, <2>1 DEF Behind
  <2>6. RunsBehind' = RunsBehind \union RunsHere
    BY <1>1, <2>5 DEF RunsBehind, RunsHere
  <2>. QED
    BY <1>1, <1>5, <2>1, <2>2, <2>4, <2>6
<1>9. CASE phase = Phases - 1 /\ index > 0
  <2>1. /\ index' = index - 1 /\ phase' = 0 /\ lengths' = NoRow /\ pc' = pc
        /\ nextLengths' = [lengths EXCEPT ![phase] = RunLength]
    BY <1>1, <1>9 DEF GoOn
  <2>2. index' \in 0..(starts - 1) /\ phase' \in PhaseSet
    BY <1>1, <1>9, <2>1 DEF PhaseSet
  <2>3. ASSUME NEW q \in PhaseSet
        PROVE  /\ Remembers(nextLengths[q], index + 1, q)'
               /\ q < phase' => Remembers(lengths[q], index, q)'
    <3>1. q <= phase /\ ~(q < phase') /\ index' + 1 = index
      BY <1>1, <1>9, <2>1 DEF PhaseSet
    <3>2. Remembers(nextLengths'[q], index' + 1, q)
      BY <1>6, <2>1, <3>1
    <3>. QED
      BY <3>1, <3>2 DEF input, Remembers, RunAt
  <2>4. MemoryIsRight'
    BY <2>3 DEF MemoryIsRight
  <2>5. \A r \in Runs : Behind(r.start, r.phase)' <=>
           Behind(r.start, r.phase) \/ (r.start = index /\ r.phase = phase)
    BY <1>1, <1>7, <1>9, <2>1 DEF Behind
  <2>6. RunsBehind' = RunsBehind \union RunsHere
    BY <1>1, <2>5 DEF RunsBehind, RunsHere
  <2>. QED
    BY <1>1, <1>5, <2>1, <2>2, <2>4, <2>6
<1>10. CASE phase = Phases - 1 /\ index = 0
  <2>1. pc' = next /\ UNCHANGED <<index, phase, lengths, nextLengths>>
    BY <1>1, <1>10 DEF GoOn
  <2>2. MemoryIsRight'
    BY <2>1 DEF MemoryIsRight
  <2>3. \A r \in Runs : Behind(r.start, r.phase) \/ (r.start = index /\ r.phase = phase)
    BY <1>1, <1>7, <1>10 DEF Behind
  <2>4. Runs = RunsBehind \union RunsHere
    BY <2>3 DEF RunsBehind, RunsHere
  <2>. QED
    BY <1>1, <1>5, <2>1, <2>2, <2>4
<1>. QED
  BY <1>1, <1>8, <1>9, <1>10

\* A place that was not visited before is weighed against the longest run so far.
LEMMA ConsiderKeeps ==
  ASSUME TypeOK, NEW R, R \subseteq Runs, LongestOf(longest, ambiguous, R),
         RunLength \in None..(starts - 1), Here \notin R, Consider(Here)
  PROVE  /\ LongestOf(longest', ambiguous', R \union {r \in {Here} : r.length > 0})
         /\ longest' \in {longest, Here} /\ ambiguous' \in BOOLEAN
         /\ longest' = Here => RunLength > 0 \/ Here = longest
<1>1. /\ longest.length \in Nat /\ ambiguous \in BOOLEAN /\ starts \in Nat
      /\ Here.length = RunLength /\ RunLength \in Int
  BY BoundsArePositive DEF TypeOK, Here, State, None
<1>2. \A r \in R : r.length \in Nat /\ r.length > 0
  BY <1>1 DEF Runs
<1> DEFINE H == {r \in {Here} : r.length > 0}
<1>3. CASE RunLength > longest.length
  <2>1. longest' = Here /\ ambiguous' = FALSE /\ H = {Here}
    BY <1>1, <1>3 DEF Consider
  <2>2. \A r \in R : r.length < Here.length
    BY <1>1, <1>2, <1>3 DEF LongestOf
  <2>3. LongestOf(longest', ambiguous', R \union H)
    BY <1>1, <1>2, <2>1, <2>2 DEF LongestOf
  <2>. QED
    BY <1>1, <1>3, <2>1, <2>3
<1>4. CASE ~(RunLength > longest.length)
  <2>1. /\ longest' = longest
        /\ ambiguous' = (ambiguous \/ (RunLength > 0 /\ RunLength = longest.length))
    BY <1>1, <1>4 DEF Consider
  <2>2. \A r \in R \union H : r.length <= longest.length
    BY <1>1, <1>4 DEF LongestOf
  <2>3. longest.length > 0 => longest \in R
    BY DEF LongestOf
  <2>4. ambiguous' <=> \E r \in R \union H : r.length = longest.length /\ r # longest
    <3>1. CASE RunLength > 0 /\ RunLength = longest.length
      <4>1. longest \in R /\ Here # longest /\ Here \in H
        BY <1>1, <2>3, <3>1
      <4>. QED
        BY <1>1, <2>1, <3>1, <4>1
    <3>2. CASE ~(RunLength > 0 /\ RunLength = longest.length)
      <4>1. \A r \in H : r.length # longest.length
        BY <1>1, <3>2
      <4>2. ambiguous' = ambiguous
        BY <1>1, <2>1, <3>2
      <4>. QED
        BY <4>1, <4>2 DEF LongestOf
    <3>. QED
      BY <3>1, <3>2
  <2>5. LongestOf(longest', ambiguous', R \union H)
    BY <2>1, <2>2, <2>3, <2>4 DEF LongestOf
  <2>. QED
    BY <1>1, <2>1, <2>5
<1>. QED
  BY <1>3, <1>4

-----------------------------------------------------------------------------
(***************************************************************************)
(* A longest run, and the runs that contain every other.                    *)
(***************************************************************************)
\* A run is a state with a length.
LEMMA RunIsAState ==
  ASSUME NEW r \in Runs
  PROVE  /\ r = State(r.start, r.phase, r.length)
         /\ r.start \in Int /\ r.phase \in PhaseSet /\ r.length \in Nat /\ r.length > 0
  BY DEF Runs, State

\* A run that contains the longest is the longest.
LEMMA OnlyTheLongestDominates ==
  ASSUME TypeOK, LongestOf(longest, ambiguous, Runs), NEW r \in Dominant
  PROVE  r = longest /\ ~ambiguous
<1>1. r \in Runs /\ \A q \in Runs : IsSuffix(q, r)
  BY DEF Dominant
<1>2. ASSUME NEW q \in Runs, q.length >= r.length PROVE q = r
  <2>1. PICK j \in 0..(r.length - 1) :
          q = State(r.start + j, PhaseAfter(r.phase, j), r.length - j)
    BY <1>1, <1>2 DEF IsSuffix
  <2>2. q.length = r.length - j
    BY <2>1 DEF State
  <2>3. j = 0
    BY <1>1, <1>2, <2>2, RunIsAState
  <2>4. PhaseAfter(r.phase, 0) = r.phase /\ r.start + 0 = r.start /\ r.length - 0 = r.length
    BY <1>1, RunIsAState, PhasesAdvance
  <2>5. q = State(r.start, r.phase, r.length)
    BY <2>1, <2>3, <2>4
  <2>. QED
    BY <1>1, <2>5, RunIsAState
<1>3. r.length > 0 /\ r.length \in Nat /\ r.length <= longest.length
  BY <1>1, RunIsAState DEF LongestOf
<1>4. longest.length > 0
  BY <1>3 DEF TypeOK
<1>. QED
  BY <1>1, <1>2, <1>3, <1>4 DEF LongestOf

\* Of the shorter runs the suffixes are those that are in their place.
LEMMA SuffixIsInPlace ==
  ASSUME TypeOK, longest \in Runs, NEW q \in Runs
  PROVE  /\ IsSuffix(q, longest) => InPlace(q)
         /\ InPlace(q) => IsSuffix(q, longest)
<1>1. /\ longest.start \in Int /\ longest.phase \in PhaseSet
      /\ longest.length \in Nat /\ longest.length > 0
  BY RunIsAState
<1>2. /\ q = State(q.start, q.phase, q.length)
      /\ q.start \in Int /\ q.length \in Nat /\ q.length > 0
  BY RunIsAState
<1>3. ASSUME IsSuffix(q, longest) PROVE InPlace(q)
  <2>1. PICK j \in 0..(longest.length - 1) :
          q = State(longest.start + j, PhaseAfter(longest.phase, j), longest.length - j)
    BY <1>3 DEF IsSuffix
  <2>2. /\ q.start = longest.start + j /\ q.phase = PhaseAfter(longest.phase, j)
        /\ q.length = longest.length - j
    BY <2>1 DEF State
  <2>3. q.start - longest.start = j
    BY <1>1, <2>2
  <2>. QED
    BY <1>1, <2>2, <2>3 DEF InPlace
<1>4. ASSUME InPlace(q) PROVE IsSuffix(q, longest)
  <2> DEFINE j == q.start - longest.start
  <2>1. /\ j \in 0..(longest.length - 1) /\ q.start = longest.start + j
        /\ q.length = longest.length - j /\ q.phase = PhaseAfter(longest.phase, j)
    BY <1>1, <1>2, <1>4 DEF InPlace
  <2>2. q = State(longest.start + j, PhaseAfter(longest.phase, j), longest.length - j)
    BY <1>2, <2>1
  <2>. QED
    BY <2>1, <2>2 DEF IsSuffix
<1>. QED
  BY <1>3, <1>4

\* The longest contains all others exactly when none strays.
LEMMA DominantRuns ==
  ASSUME TypeOK, LongestOf(longest, ambiguous, Runs), longest.length > 0
  PROVE  /\ ~ambiguous /\ Strays(Runs) = {} => Dominant = {longest}
         /\ ambiguous \/ Strays(Runs) # {} => Runs # {} /\ Dominant = {}
<1>1. longest \in Runs /\ longest.length \in Nat
  BY RunIsAState DEF LongestOf
<1>2. ASSUME ~ambiguous, Strays(Runs) = {} PROVE longest \in Dominant
  <2>1. ASSUME NEW q \in Runs PROVE IsSuffix(q, longest)
    <3>1. q.length \in Nat /\ q.length > 0 /\ q.length <= longest.length
      BY RunIsAState DEF LongestOf
    <3>2. CASE q.length = longest.length
      <4>1. q = longest
        BY <1>2, <3>2 DEF LongestOf
      <4>2. InPlace(longest)
        <5>1. /\ longest.start \in Int /\ longest.start - longest.start = 0
              /\ longest.phase = PhaseAfter(longest.phase, 0)
          BY <1>1, RunIsAState, PhasesAdvance
        <5>. QED
          BY <1>1, <5>1 DEF InPlace
      <4>. QED
        BY <1>1, <4>1, <4>2, SuffixIsInPlace
    <3>3. CASE q.length # longest.length
      <4>1. IsShorter(q)
        BY <1>1, <3>1, <3>3 DEF IsShorter
      <4>2. InPlace(q)
        BY <1>2, <4>1 DEF Strays
      <4>. QED
        BY <1>1, <4>2, SuffixIsInPlace
    <3>. QED
      BY <3>2, <3>3
  <2>. QED
    BY <1>1, <2>1 DEF Dominant
<1>3. \A r \in Dominant : r = longest /\ ~ambiguous
  BY OnlyTheLongestDominates
<1>4. ASSUME Strays(Runs) # {} PROVE Dominant = {}
  <2>1. PICK q \in Runs : ~InPlace(q)
    BY <1>4 DEF Strays
  <2>2. ~IsSuffix(q, longest)
    BY <1>1, <2>1, SuffixIsInPlace
  <2>3. longest \notin Dominant
    BY <2>1, <2>2 DEF Dominant
  <2>. QED
    BY <1>3, <2>3
<1>5. ambiguous => Dominant = {}
  BY <1>3
<1>. QED
  BY <1>1, <1>2, <1>3, <1>4, <1>5

-----------------------------------------------------------------------------
(***************************************************************************)
(* The invariant holds at the start and in every step.                      *)
(***************************************************************************)
LEMMA InitIsRight == Init => SelectionInv
<1>. SUFFICES ASSUME Init PROVE SelectionInv
  OBVIOUS
<1>1. /\ starts \in Nat /\ starts > 0 /\ Phases \in Nat /\ Phases > 0
  BY BoundsArePositive DEF Init
<1>2. 0 \in 0..(starts - 1) /\ 0 \in PhaseSet /\ NoState \in [start : 0..(starts - 1),
        phase : PhaseSet, length : 0..(starts - 1)] /\ NoRow \in [PhaseSet -> None..(starts - 1)]
  BY <1>1 DEF NoState, State, NoRow, None, PhaseSet
<1>3. TypeOK
  BY <1>2 DEF Init, TypeOK, Outcomes
<1>4. MemoryIsRight /\ LongestIsRight /\ BuiltIsRight /\ IndependentIsRight /\ SelectionIsDominant
  BY DEF Init, MemoryIsRight, LongestIsRight, BuiltIsRight, IndependentIsRight,
         SelectionIsDominant
<1>. QED
  BY <1>3, <1>4 DEF Init, SelectionInv

LEMMA AdmitKeeps == SelectionInv /\ Admit => SelectionInv'
<1>. SUFFICES ASSUME SelectionInv, Admit PROVE SelectionInv'
  OBVIOUS
<1>1. TypeOK /\ pc = "start" /\ outcome = "pending" /\ longest = NoState /\ ~ambiguous
      /\ ~independent /\ built = 0
  BY DEF SelectionInv, Admit, LongestIsRight, BuiltIsRight, IndependentIsRight
<1>2. UNCHANGED input /\ UNCHANGED <<longest, ambiguous, independent, built, checks, cancelled>>
  BY DEF Admit
<1>3. CASE ValidationWork > MaxChecks
  <2>1. outcome' = "Refused" /\ pc' = "returned" /\ UNCHANGED <<index, phase, lengths, nextLengths>>
    BY <1>3 DEF Admit, Return
  <2>2. TypeOK'
    BY <1>1, <1>2, <2>1 DEF TypeOK, input, Outcomes
  <2>. QED
    BY <2>1, <2>2 DEF SelectionInv, MemoryIsRight, LongestIsRight, BuiltIsRight,
                      IndependentIsRight, SelectionIsDominant
<1>4. CASE ~(ValidationWork > MaxChecks)
  <2>1. BeginPass("survey") /\ outcome' = outcome /\ pc' = "survey"
    BY <1>4 DEF Admit, BeginPass
  <2>2. /\ index' \in 0..(starts - 1) /\ phase' \in PhaseSet
        /\ lengths' \in [PhaseSet -> None..(starts - 1)]
        /\ nextLengths' \in [PhaseSet -> None..(starts - 1)]
        /\ MemoryIsRight' /\ RunsBehind' = {}
    BY <1>1, <1>2, <2>1, BeginPassIsClean
  <2>3. TypeOK'
    BY <1>1, <1>2, <2>1, <2>2 DEF TypeOK, input
  <2>4. LongestOf(longest', ambiguous', {})
    BY <1>1, <1>2 DEF LongestOf, NoState, State
  <2>5. LongestIsRight' /\ BuiltIsRight' /\ IndependentIsRight' /\ SelectionIsDominant'
    BY <1>1, <1>2, <2>1, <2>2, <2>4 DEF LongestIsRight, BuiltIsRight, IndependentIsRight,
                                        SelectionIsDominant
  <2>. QED
    BY <1>1, <2>1, <2>2, <2>3, <2>5 DEF SelectionInv
<1>. QED
  BY <1>3, <1>4

LEMMA SurveyKeeps == SelectionInv /\ Survey => SelectionInv'
<1>. SUFFICES ASSUME SelectionInv, Survey PROVE SelectionInv'
  OBVIOUS
<1>1. /\ TypeOK /\ pc = "survey" /\ outcome = "pending" /\ MemoryIsRight
      /\ LongestOf(longest, ambiguous, RunsBehind) /\ ~independent /\ built = 0
  BY DEF SelectionInv, Survey, LongestIsRight, BuiltIsRight, IndependentIsRight
<1>2. /\ UNCHANGED input /\ UNCHANGED <<independent, built, cancelled, outcome>>
      /\ checks' = checks + 1 /\ Consider(Here) /\ GoOn("choose")
  BY DEF Survey
<1>3. /\ index' \in 0..(starts - 1) /\ phase' \in PhaseSet
      /\ lengths' \in [PhaseSet -> None..(starts - 1)]
      /\ nextLengths' \in [PhaseSet -> None..(starts - 1)]
      /\ MemoryIsRight'
      /\ \/ pc' = pc /\ RunsBehind' = RunsBehind \union RunsHere
         \/ pc' = "choose" /\ Runs = RunsBehind \union RunsHere
  BY <1>1, <1>2, PassGoesOn
<1>4. Remembers(RunLength, index, phase)
  BY <1>1, LengthIsRight DEF MemoryIsRight
<1>5. RunLength \in None..(starts - 1) /\ RunsHere = {r \in {Here} : r.length > 0}
  BY <1>1, <1>4, HereIsVisited
<1>6. Here \notin RunsBehind /\ RunsBehind \subseteq Runs
  <2>1. index \in Int /\ phase \in Int
    BY <1>1 DEF TypeOK, PhaseSet
  <2>. QED
    BY <2>1 DEF RunsBehind, Behind, Here, State
<1>7. /\ LongestOf(longest', ambiguous', RunsBehind \union RunsHere)
      /\ longest' \in {longest, Here} /\ ambiguous' \in BOOLEAN
      /\ longest' = Here => RunLength > 0 \/ Here = longest
  BY <1>1, <1>2, <1>5, <1>6, ConsiderKeeps
<1>8. longest' \in [start : 0..(starts - 1), phase : PhaseSet, length : 0..(starts - 1)]
  <2>1. CASE longest' = longest
    BY <1>1, <2>1 DEF TypeOK
  <2>2. CASE longest' = Here /\ RunLength > 0
    <3>1. RunLength \in 0..(starts - 1) /\ index \in 0..(starts - 1) /\ phase \in PhaseSet
      BY <1>1, <1>5, <2>2 DEF TypeOK, None
    <3>. QED
      BY <2>2, <3>1 DEF Here, State
  <2>. QED
    BY <1>7, <2>1, <2>2
<1>9. pc' \in {"survey", "choose"} /\ Runs' = Runs
  BY <1>1, <1>2, <1>3, SourceKeepsRuns
<1>10. TypeOK'
  <2>1. checks' \in Nat
    BY <1>1, <1>2 DEF TypeOK
  <2>. QED
    BY <1>1, <1>2, <1>3, <1>7, <1>8, <1>9, <2>1 DEF TypeOK, input
<1>11. LongestIsRight'
  BY <1>1, <1>3, <1>7, <1>9 DEF LongestIsRight
<1>12. BuiltIsRight' /\ IndependentIsRight' /\ SelectionIsDominant'
  BY <1>1, <1>2, <1>9 DEF BuiltIsRight, IndependentIsRight, SelectionIsDominant
<1>. QED
  BY <1>1, <1>2, <1>3, <1>9, <1>10, <1>11, <1>12 DEF SelectionInv

\* A step that returns, and leaves the rest alone.
LEMMA ReturningKeeps ==
  ASSUME SelectionInv, NEW result \in Outcomes \ {"pending"}, Return(result),
         checks' \in Nat, cancelled' \in BOOLEAN, SelectionIsDominant',
         UNCHANGED <<input, index, phase, lengths, nextLengths, longest, ambiguous,
                     independent, built>>
  PROVE  SelectionInv'
<1>1. pc' = "returned" /\ outcome' = result
  BY DEF Return
<1>2. TypeOK'
  BY <1>1 DEF SelectionInv, TypeOK, input, Outcomes
<1>. QED
  BY <1>1, <1>2 DEF SelectionInv, MemoryIsRight, LongestIsRight, BuiltIsRight, IndependentIsRight

LEMMA ChooseKeeps == SelectionInv /\ Choose => SelectionInv'
<1>. SUFFICES ASSUME SelectionInv, Choose PROVE SelectionInv'
  OBVIOUS
<1>1. /\ TypeOK /\ pc = "choose" /\ outcome = "pending"
      /\ LongestOf(longest, ambiguous, Runs) /\ ~independent /\ built = 0
  BY DEF SelectionInv, Choose, LongestIsRight, BuiltIsRight, IndependentIsRight
<1>2. UNCHANGED <<input, index, phase, lengths, nextLengths, longest, ambiguous,
                  independent, built, checks, cancelled>>
  BY DEF Choose
<1>3. Runs' = Runs /\ Dominant' = Dominant
  BY <1>2, SourceKeepsRuns DEF Dominant, IsSuffix
<1>4. checks' \in Nat /\ cancelled' \in BOOLEAN /\ longest.length \in Nat
  BY <1>1, <1>2 DEF TypeOK
<1>5. CASE longest.length = 0 /\ Return("NoRun")
  <2>1. Runs = {}
    BY <1>1, <1>5, RunIsAState DEF LongestOf
  <2>2. SelectionIsDominant'
    BY <1>3, <1>5, <2>1 DEF Return, SelectionIsDominant
  <2>. QED
    BY <1>2, <1>4, <1>5, <2>2, ReturningKeeps DEF Outcomes
<1>6. CASE longest.length > 0 /\ ambiguous /\ Return("Ambiguous")
  <2>1. Runs # {} /\ Dominant = {}
    BY <1>1, <1>6, DominantRuns
  <2>2. SelectionIsDominant'
    BY <1>3, <1>6, <2>1 DEF Return, SelectionIsDominant
  <2>. QED
    BY <1>2, <1>4, <1>6, <2>2, ReturningKeeps DEF Outcomes
<1>7. CASE longest.length > 0 /\ ~ambiguous /\ pc' = "rebuild" /\ UNCHANGED outcome
  <2>1. TypeOK'
    BY <1>1, <1>2, <1>7 DEF TypeOK, input
  <2>2. LongestIsRight' /\ BuiltIsRight' /\ IndependentIsRight' /\ SelectionIsDominant'
    BY <1>1, <1>2, <1>3, <1>4, <1>7 DEF LongestIsRight, BuiltIsRight, IndependentIsRight,
                                        SelectionIsDominant
  <2>. QED
    BY <1>1, <1>7, <2>1, <2>2 DEF SelectionInv, MemoryIsRight
<1>. QED
  BY <1>5, <1>6, <1>7 DEF Choose

\* The memoised length is right: the rebuild meets a record, and at the end the terminal.
LEMMA RebuildDoesNotDiverge ==
  ASSUME SelectionInv, pc = "rebuild"
  PROVE  /\ built < longest.length => kind[RebuildAt] = "Record"
         /\ ~(built < longest.length) => kind[RebuildAt] = "Terminal"
<1>1. longest \in Runs /\ built <= longest.length /\ built \in Nat
  BY BoundsArePositive DEF SelectionInv, TypeOK, LongestIsRight, LongestOf, BuiltIsRight
<1>2. RunAt(longest.start, longest.phase, longest.length) /\ longest.length \in Nat
  BY <1>1, RunsAreRuns DEF Runs
<1>3. CASE built < longest.length
  <2>1. built \in 0..(longest.length - 1)
    BY <1>1, <1>2, <1>3
  <2>. QED
    BY <1>2, <1>3, <2>1 DEF RunAt, RebuildAt
<1>4. CASE ~(built < longest.length)
  <2>1. built = longest.length
    BY <1>1, <1>2, <1>4
  <2>. QED
    BY <1>2, <1>4, <2>1 DEF RunAt, RebuildAt
<1>. QED
  BY <1>3, <1>4

LEMMA RebuildKeeps == SelectionInv /\ Rebuild => SelectionInv'
<1>. SUFFICES ASSUME SelectionInv, Rebuild PROVE SelectionInv'
  OBVIOUS
<1>1. /\ TypeOK /\ pc = "rebuild" /\ outcome = "pending"
      /\ LongestOf(longest, ambiguous, Runs) /\ ~independent
      /\ longest.length > 0 /\ ~ambiguous /\ built <= longest.length
  BY DEF SelectionInv, Rebuild, LongestIsRight, BuiltIsRight, IndependentIsRight
<1>2. /\ UNCHANGED input /\ UNCHANGED <<longest, ambiguous, independent, cancelled>>
      /\ checks' = checks + 1
  BY DEF Rebuild
<1>3. /\ built < longest.length => kind[RebuildAt] = "Record"
      /\ ~(built < longest.length) => kind[RebuildAt] = "Terminal"
  BY <1>1, RebuildDoesNotDiverge
<1>4. Runs' = Runs /\ checks' \in Nat
  BY <1>1, <1>2, SourceKeepsRuns DEF TypeOK
<1>5. CASE built < longest.length
  <2>1. /\ built' = built + 1 /\ pc' = pc /\ outcome' = outcome
        /\ UNCHANGED <<index, phase, lengths, nextLengths>>
    BY <1>3, <1>5 DEF Rebuild
  <2>2. built' \in 0..(starts - 1) /\ built' <= longest.length
    BY <1>1, <1>5, <2>1, BoundsArePositive DEF TypeOK
  <2>3. TypeOK'
    BY <1>1, <1>2, <1>4, <2>1, <2>2 DEF TypeOK, input
  <2>4. LongestIsRight' /\ BuiltIsRight' /\ IndependentIsRight' /\ SelectionIsDominant'
    BY <1>1, <1>2, <1>4, <2>1, <2>2 DEF LongestIsRight, BuiltIsRight, IndependentIsRight,
                                        SelectionIsDominant
  <2>. QED
    BY <1>1, <2>1, <2>3, <2>4 DEF SelectionInv, MemoryIsRight
<1>6. CASE ~(built < longest.length)
  <2>1. BeginPass("rescan") /\ outcome' = outcome /\ built' = built
    BY <1>3, <1>6 DEF Rebuild
  <2>2. /\ index' \in 0..(starts - 1) /\ phase' \in PhaseSet
        /\ lengths' \in [PhaseSet -> None..(starts - 1)]
        /\ nextLengths' \in [PhaseSet -> None..(starts - 1)]
        /\ MemoryIsRight' /\ RunsBehind' = {} /\ pc' = "rescan"
    BY <1>1, <1>2, <2>1, BeginPassIsClean DEF BeginPass
  <2>3. TypeOK'
    BY <1>1, <1>2, <1>4, <2>1, <2>2 DEF TypeOK, input
  <2>4. built' = longest'.length
    BY <1>1, <1>2, <1>6, <2>1, BoundsArePositive DEF TypeOK
  <2>5. LongestIsRight' /\ BuiltIsRight' /\ SelectionIsDominant'
    BY <1>1, <1>2, <1>4, <2>1, <2>2, <2>4 DEF LongestIsRight, BuiltIsRight, SelectionIsDominant
  <2>6. IndependentIsRight'
    BY <1>1, <1>2, <2>2 DEF IndependentIsRight, Strays
  <2>. QED
    BY <1>1, <2>1, <2>2, <2>3, <2>5, <2>6 DEF SelectionInv
<1>. QED
  BY <1>5, <1>6

LEMMA RescanKeeps == SelectionInv /\ Rescan => SelectionInv'
<1>. SUFFICES ASSUME SelectionInv, Rescan PROVE SelectionInv'
  OBVIOUS
<1>1. /\ TypeOK /\ pc = "rescan" /\ outcome = "pending" /\ MemoryIsRight
      /\ LongestOf(longest, ambiguous, Runs) /\ longest.length > 0 /\ ~ambiguous
      /\ built = longest.length
      /\ independent <=> Strays(RunsBehind) # {}
  BY DEF SelectionInv, Rescan, LongestIsRight, BuiltIsRight, IndependentIsRight
<1>2. /\ UNCHANGED input /\ UNCHANGED <<longest, ambiguous, built, cancelled, outcome>>
      /\ checks' \in {checks + 1, checks + 2} /\ GoOn("conclude")
      /\ independent' = (independent \/ (IsShorter(Here) /\ ~InPlace(Here)))
  BY DEF Rescan
<1>3. /\ index' \in 0..(starts - 1) /\ phase' \in PhaseSet
      /\ lengths' \in [PhaseSet -> None..(starts - 1)]
      /\ nextLengths' \in [PhaseSet -> None..(starts - 1)]
      /\ MemoryIsRight'
      /\ \/ pc' = pc /\ RunsBehind' = RunsBehind \union RunsHere
         \/ pc' = "conclude" /\ Runs = RunsBehind \union RunsHere
  BY <1>1, <1>2, PassGoesOn
<1>4. RunsHere = {r \in {Here} : r.length > 0}
  BY <1>1, LengthIsRight, HereIsVisited DEF MemoryIsRight
<1>5. /\ Strays(RunsBehind \union RunsHere) = Strays(RunsBehind) \union Strays(RunsHere)
      /\ Strays(RunsHere) # {} <=> IsShorter(Here) /\ ~InPlace(Here)
  BY <1>4 DEF Strays, IsShorter
<1>6. independent' <=> Strays(RunsBehind \union RunsHere) # {}
  BY <1>1, <1>2, <1>5
<1>7. \A R : Strays(R)' = Strays(R)
  BY <1>2 DEF Strays, IsShorter, InPlace
<1>8. pc' \in {"rescan", "conclude"} /\ Runs' = Runs
  BY <1>1, <1>2, <1>3, SourceKeepsRuns
<1>9. TypeOK'
  <2>1. checks' \in Nat /\ independent' \in BOOLEAN
    BY <1>1, <1>2 DEF TypeOK
  <2>. QED
    BY <1>1, <1>2, <1>3, <1>8, <2>1 DEF TypeOK, input
<1>10. IndependentIsRight'
  <2>1. CASE pc' = "rescan" /\ RunsBehind' = RunsBehind \union RunsHere
    <3>1. Strays(RunsBehind)' = Strays(RunsBehind \union RunsHere)
      BY <1>2, <2>1 DEF Strays, IsShorter, InPlace
    <3>. QED
      BY <1>6, <2>1, <3>1 DEF IndependentIsRight
  <2>2. CASE pc' = "conclude" /\ Runs = RunsBehind \union RunsHere
    <3>1. Strays(Runs)' = Strays(RunsBehind \union RunsHere)
      BY <1>2, <1>8, <2>2 DEF Strays, IsShorter, InPlace
    <3>. QED
      BY <1>6, <2>2, <3>1 DEF IndependentIsRight
  <2>. QED
    BY <1>1, <1>3, <2>1, <2>2
<1>11. LongestIsRight' /\ BuiltIsRight' /\ SelectionIsDominant'
  BY <1>1, <1>2, <1>8 DEF LongestIsRight, BuiltIsRight, SelectionIsDominant
<1>. QED
  BY <1>1, <1>2, <1>3, <1>8, <1>9, <1>10, <1>11 DEF SelectionInv

LEMMA ConcludeKeeps == SelectionInv /\ Conclude => SelectionInv'
<1>. SUFFICES ASSUME SelectionInv, Conclude PROVE SelectionInv'
  OBVIOUS
<1>1. /\ TypeOK /\ pc = "conclude" /\ LongestOf(longest, ambiguous, Runs)
      /\ longest.length > 0 /\ ~ambiguous /\ built = longest.length
      /\ independent <=> Strays(Runs) # {}
  BY DEF SelectionInv, Conclude, LongestIsRight, BuiltIsRight, IndependentIsRight
<1>2. UNCHANGED <<input, index, phase, lengths, nextLengths, longest, ambiguous,
                  independent, built, checks, cancelled>>
  BY DEF Conclude
<1>3. Runs' = Runs /\ Dominant' = Dominant
  BY <1>2, SourceKeepsRuns DEF Dominant, IsSuffix
<1>4. checks' \in Nat /\ cancelled' \in BOOLEAN
  BY <1>1, <1>2 DEF TypeOK
<1>5. /\ ~independent => Dominant = {longest}
      /\ independent => Runs # {} /\ Dominant = {}
  BY <1>1, DominantRuns
<1>6. CASE independent
  <2>1. Return("Independent")
    BY <1>6 DEF Conclude
  <2>2. SelectionIsDominant'
    BY <1>3, <1>5, <1>6, <2>1 DEF Return, SelectionIsDominant
  <2>. QED
    BY <1>2, <1>4, <2>1, <2>2, ReturningKeeps DEF Outcomes
<1>7. CASE ~independent
  <2>1. Return("Selected")
    BY <1>7 DEF Conclude
  <2>2. SelectionIsDominant'
    BY <1>1, <1>2, <1>3, <1>5, <1>7, <2>1 DEF Return, SelectionIsDominant
  <2>. QED
    BY <1>2, <1>4, <2>1, <2>2, ReturningKeeps DEF Outcomes
<1>. QED
  BY <1>6, <1>7

LEMMA StopKeeps == SelectionInv /\ StopAtCheckpoint => SelectionInv'
<1>. SUFFICES ASSUME SelectionInv, StopAtCheckpoint PROVE SelectionInv'
  OBVIOUS
<1>1. /\ Return("Cancelled")
      /\ UNCHANGED <<input, index, phase, lengths, nextLengths, longest, ambiguous,
                     independent, built, checks, cancelled>>
  BY DEF StopAtCheckpoint
<1>2. checks' \in Nat /\ cancelled' \in BOOLEAN
  BY <1>1 DEF SelectionInv, TypeOK
<1>3. SelectionIsDominant'
  BY <1>1 DEF Return, SelectionIsDominant
<1>. QED
  BY <1>1, <1>2, <1>3, ReturningKeeps DEF Outcomes

\* Setting the token changes nothing that was found, and nor does a stutter.
LEMMA TokenKeeps ==
  ASSUME SelectionInv, cancelled' \in BOOLEAN,
         UNCHANGED <<input, pc, index, phase, lengths, nextLengths, longest, ambiguous,
                     independent, built, checks, outcome>>
  PROVE  SelectionInv'
<1>1. TypeOK'
  BY DEF SelectionInv, TypeOK, input
<1>2. /\ Runs' = Runs /\ RunsBehind' = RunsBehind /\ Dominant' = Dominant
      /\ Strays(Runs)' = Strays(Runs) /\ Strays(RunsBehind)' = Strays(RunsBehind)
  BY SourceKeepsRuns DEF RunsBehind, Behind, Dominant, IsSuffix, Strays, IsShorter, InPlace
<1>3. MemoryIsRight'
  BY DEF SelectionInv, MemoryIsRight, input, Remembers, RunAt
<1>4. LongestIsRight' /\ BuiltIsRight' /\ IndependentIsRight' /\ SelectionIsDominant'
  BY <1>2 DEF SelectionInv, LongestIsRight, BuiltIsRight, IndependentIsRight,
              SelectionIsDominant
<1>. QED
  BY <1>1, <1>3, <1>4 DEF SelectionInv

LEMMA CancelKeeps == SelectionInv /\ Cancel => SelectionInv'
  BY TokenKeeps DEF Cancel

LEMMA StutterKeeps == SelectionInv /\ UNCHANGED vars => SelectionInv'
  BY TokenKeeps DEF vars, input, SelectionInv, TypeOK

LEMMA SelectionInvHolds == Spec => []SelectionInv
<1>1. Init => SelectionInv
  BY InitIsRight
<1>2. SelectionInv /\ [Next]_vars => SelectionInv'
  BY AdmitKeeps, SurveyKeeps, ChooseKeeps, RebuildKeeps, RescanKeeps, ConcludeKeeps,
     StopKeeps, CancelKeeps, StutterKeeps DEF Next, Advance, Stopped
<1>. QED
  BY <1>1, <1>2, PTL DEF Spec

(***************************************************************************)
(* The variables keep their types: no index, phase or memoised length       *)
(* leaves the table (visit_payload_block_tables).                           *)
(***************************************************************************)
THEOREM TypeCorrect == Spec => []TypeOK
<1>1. SelectionInv => TypeOK
  BY DEF SelectionInv
<1>. QED
  BY <1>1, SelectionInvHolds, PTL

(***************************************************************************)
(* The table that is selected is the one run of the source that contains    *)
(* all others as suffixes; a refusal for ambiguity or independence is one    *)
(* where there is no such run; and the rebuild never contradicts the         *)
(* memoised lengths (discover_payload_block_table_impl).                    *)
(***************************************************************************)
THEOREM SelectedTableIsDominant == Spec => []SelectionIsDominant
<1>1. SelectionInv => SelectionIsDominant
  BY DEF SelectionInv
<1>. QED
  BY <1>1, SelectionInvHolds, PTL

-----------------------------------------------------------------------------
(***************************************************************************)
(* The work.  A pass looks at every place once; the second one decodes the  *)
(* suffix of a row once more, and a row has one place for it.               *)
(***************************************************************************)
Places == starts * Phases
PlacesDone == (starts - 1 - index) * Phases + phase

\* Whether the pass is past the place of this row where a suffix would be.
SuffixIsPassed ==
  IF index >= longest.start /\ PhaseAfter(longest.phase, index - longest.start) < phase
  THEN 1 ELSE 0

WorkInv ==
  /\ pc = "start" => checks = 0
  /\ pc \notin {"start", "returned"} => ValidationWork <= MaxChecks
  /\ pc = "survey" => checks = PlacesDone
  /\ pc = "choose" => checks = Places
  /\ pc = "rebuild" => checks = Places + built
  /\ pc = "rescan" => checks <= Places + (longest.length + 1)
                                + PlacesDone + (starts - 1 - index) + SuffixIsPassed
  /\ pc = "conclude" => checks <= 2 * Places + (longest.length + 1) + starts
  /\ WorkIsBounded

LEMMA PlacesAreCounted ==
  ASSUME TypeOK
  PROVE  /\ PlacesDone \in Nat /\ PlacesDone + 1 <= Places /\ Places \in Nat
         /\ starts \in Nat /\ starts > 0 /\ index \in 0..(starts - 1)
         /\ phase \in 0..(Phases - 1) /\ Phases \in Nat
         /\ ValidationWork = 2 * Places + 2 * starts
         /\ checks \in Nat /\ MaxChecks \in Nat
         /\ longest.length + 1 <= starts /\ longest.length \in Nat /\ longest.start \in Nat
         /\ longest.phase \in PhaseSet /\ built \in Nat
<1>1. /\ starts \in Nat /\ starts > 0 /\ Phases \in Nat /\ Phases > 0 /\ MaxChecks \in Nat
      /\ index \in 0..(starts - 1) /\ phase \in 0..(Phases - 1) /\ checks \in Nat
      /\ longest.length \in 0..(starts - 1) /\ longest.start \in 0..(starts - 1)
      /\ longest.phase \in PhaseSet /\ built \in 0..(starts - 1)
  BY BoundsArePositive DEF TypeOK, PhaseSet
<1> DEFINE m == starts - 1 - index
<1>2. m \in Nat /\ index \in Nat /\ m * Phases \in Nat /\ index * Phases \in Nat
  BY <1>1
<1>3. starts = m + index + 1
  BY <1>1
<1>4. starts * Phases = m * Phases + index * Phases + Phases
  BY <1>1, <1>2, <1>3
<1>5. PlacesDone = m * Phases + phase /\ Places = starts * Phases
  BY DEF PlacesDone, Places
<1>6. PlacesDone \in Nat /\ Places \in Nat /\ PlacesDone + 1 <= Places
  BY <1>1, <1>2, <1>4, <1>5
<1>7. ValidationWork = 2 * Places + 2 * starts
  BY <1>1 DEF ValidationWork, Places
<1>. QED
  BY <1>1, <1>6, <1>7

\* A step of a pass counts for one place, and the last one for the last place.
LEMMA OnePlaceIsDone ==
  ASSUME TypeOK, pc \in {"survey", "rescan"}, NEW next \in {"choose", "conclude"},
         GoOn(next), UNCHANGED input
  PROVE  \/ /\ pc' = pc /\ PlacesDone' = PlacesDone + 1
            /\ \/ index' = index /\ phase' = phase + 1
               \/ index' = index - 1 /\ phase' = 0
         \/ pc' = next /\ PlacesDone + 1 = Places /\ index = 0
<1>1. /\ starts \in Nat /\ starts > 0 /\ Phases \in Nat /\ Phases > 0 /\ starts' = starts
      /\ index \in 0..(starts - 1) /\ phase \in 0..(Phases - 1)
  BY BoundsArePositive DEF TypeOK, PhaseSet, input
<1>2. CASE phase < Phases - 1
  <2>1. phase' = phase + 1 /\ index' = index /\ pc' = pc
    BY <1>2 DEF GoOn
  <2>. QED
    BY <1>1, <2>1 DEF PlacesDone
<1>3. CASE phase = Phases - 1 /\ index > 0
  <2>1. phase' = 0 /\ index' = index - 1 /\ pc' = pc
    BY <1>1, <1>3 DEF GoOn
  <2> DEFINE m == starts - 1 - index
  <2>2. m \in Nat /\ starts - 1 - index' = m + 1
    BY <1>1, <2>1
  <2>3. (m + 1) * Phases = m * Phases + Phases /\ m * Phases \in Nat
    BY <1>1, <2>2
  <2>4. PlacesDone' = (m + 1) * Phases + 0 /\ PlacesDone = m * Phases + phase
    BY <1>1, <2>1, <2>2 DEF PlacesDone
  <2>. QED
    BY <1>1, <1>3, <2>1, <2>3, <2>4
<1>4. CASE phase = Phases - 1 /\ index = 0
  <2>1. pc' = next
    BY <1>1, <1>4 DEF GoOn
  <2>2. (starts - 1) * Phases + Phases = starts * Phases /\ (starts - 1) * Phases \in Int
    BY <1>1
  <2>3. PlacesDone = (starts - 1) * Phases + (Phases - 1)
    BY <1>1, <1>4 DEF PlacesDone
  <2>. QED
    BY <1>1, <1>4, <2>1, <2>2, <2>3 DEF Places
<1>. QED
  BY <1>1, <1>2, <1>3, <1>4

LEMMA SuffixIsPassedOnce ==
  SuffixIsPassed \in {0, 1}
  BY DEF SuffixIsPassed

LEMMA RescanWork ==
  ASSUME SelectionInv, WorkInv, Rescan
  PROVE  WorkInv'
<1>1. /\ TypeOK /\ pc = "rescan" /\ GoOn("conclude") /\ UNCHANGED input
      /\ longest' = longest /\ checks \in Nat /\ Places' = Places /\ starts' = starts
      /\ ValidationWork' = ValidationWork
  BY DEF SelectionInv, TypeOK, Rescan, input, Places, ValidationWork
<1>2. \/ /\ pc' = pc /\ PlacesDone' = PlacesDone + 1
         /\ \/ index' = index /\ phase' = phase + 1
            \/ index' = index - 1 /\ phase' = 0
      \/ pc' = "conclude" /\ PlacesDone + 1 = Places /\ index = 0
  BY <1>1, OnePlaceIsDone
<1>3. /\ checks <= Places + (longest.length + 1) + PlacesDone + (starts - 1 - index) + SuffixIsPassed
      /\ ValidationWork <= MaxChecks
  BY <1>1 DEF WorkInv
<1>4. /\ PlacesDone \in Nat /\ PlacesDone + 1 <= Places /\ Places \in Nat
      /\ starts \in Nat /\ starts > 0 /\ index \in 0..(starts - 1)
      /\ phase \in 0..(Phases - 1) /\ Phases \in Nat
      /\ ValidationWork = 2 * Places + 2 * starts /\ MaxChecks \in Nat
      /\ longest.length + 1 <= starts /\ longest.length \in Nat /\ longest.start \in Nat
      /\ longest.phase \in PhaseSet
  BY <1>1, PlacesAreCounted
<1>5. SuffixIsPassed \in {0, 1} /\ SuffixIsPassed' \in {0, 1}
  BY SuffixIsPassedOnce DEF SuffixIsPassed
<1>6. CASE checks' = checks + 2 /\ InPlace(Here)
  <2>1. /\ index >= longest.start
        /\ phase = PhaseAfter(longest.phase, index - longest.start)
    BY <1>6 DEF InPlace, Here, State
  <2>2. SuffixIsPassed = 0
    BY <1>4, <2>1 DEF SuffixIsPassed
  <2>3. index' = index /\ phase' = phase + 1 => SuffixIsPassed' = 1
    BY <1>1, <1>4, <2>1 DEF SuffixIsPassed
  <2>. QED
    BY <1>1, <1>2, <1>3, <1>4, <1>5, <1>6, <2>2, <2>3 DEF WorkInv, WorkIsBounded
<1>7. CASE checks' = checks + 1
  <2>1. index' = index /\ phase' = phase + 1 => SuffixIsPassed' >= SuffixIsPassed
    <3>1. ASSUME index' = index, phase' = phase + 1, SuffixIsPassed = 1
          PROVE  SuffixIsPassed' = 1
      <4>1. /\ index >= longest.start
            /\ PhaseAfter(longest.phase, index - longest.start) < phase
        BY <3>1 DEF SuffixIsPassed
      <4>2. index - longest.start \in Nat
        BY <1>4, <4>1
      <4>3. PhaseAfter(longest.phase, index - longest.start) \in Int
        BY <1>4, <4>2, PhasesAdvance DEF PhaseSet
      <4>. QED
        BY <1>1, <1>4, <3>1, <4>1, <4>3 DEF SuffixIsPassed
    <3>. QED
      BY <1>5, <3>1
  <2>. QED
    BY <1>1, <1>2, <1>3, <1>4, <1>5, <1>7, <2>1 DEF WorkInv, WorkIsBounded
<1>8. \/ checks' = checks + 2 /\ InPlace(Here)
      \/ checks' = checks + 1
  BY DEF Rescan
<1>. QED
  BY <1>6, <1>7, <1>8

LEMMA RebuildWork ==
  ASSUME SelectionInv, WorkInv, Rebuild
  PROVE  WorkInv'
<1>1. /\ TypeOK /\ pc = "rebuild" /\ checks' = checks + 1 /\ longest' = longest
      /\ Places' = Places /\ starts' = starts /\ ValidationWork' = ValidationWork
      /\ built <= longest.length /\ built \in Nat
  BY PlacesAreCounted
     DEF SelectionInv, BuiltIsRight, Rebuild, input, Places, ValidationWork
<1>2. checks = Places + built /\ ValidationWork <= MaxChecks
  BY <1>1 DEF WorkInv
<1>3. /\ PlacesDone \in Nat /\ PlacesDone + 1 <= Places /\ Places \in Nat
      /\ starts \in Nat /\ starts > 0
      /\ ValidationWork = 2 * Places + 2 * starts /\ MaxChecks \in Nat
      /\ longest.length + 1 <= starts /\ longest.length \in Nat
  BY <1>1, PlacesAreCounted
<1>4. /\ built < longest.length => kind[RebuildAt] = "Record"
      /\ ~(built < longest.length) => kind[RebuildAt] = "Terminal"
  BY <1>1, RebuildDoesNotDiverge
<1>5. CASE built < longest.length
  <2>1. built' = built + 1 /\ pc' = pc
    BY <1>4, <1>5 DEF Rebuild
  <2>. QED
    BY <1>1, <1>2, <1>3, <1>5, <2>1 DEF WorkInv, WorkIsBounded
<1>6. CASE ~(built < longest.length)
  <2>1. BeginPass("rescan") /\ built' = built
    BY <1>4, <1>6 DEF Rebuild
  <2>2. pc' = "rescan" /\ index' = starts - 1 /\ phase' = 0
    BY <2>1 DEF BeginPass
  <2>3. PlacesDone' = 0 * Phases + 0
    BY <1>1, <1>3, <2>2 DEF PlacesDone
  <2>4. PlacesDone' = 0
    BY <2>3, BoundsArePositive
  <2>5. SuffixIsPassed' \in {0, 1}
    BY DEF SuffixIsPassed
  <2>. QED
    BY <1>1, <1>2, <1>3, <1>6, <2>2, <2>4, <2>5 DEF WorkInv, WorkIsBounded
<1>. QED
  BY <1>5, <1>6

LEMMA WorkInvHolds == Spec => []WorkInv
<1>1. Init => WorkInv
  BY BoundsArePositive DEF Init, WorkInv, WorkIsBounded
<1>2. SelectionInv /\ WorkInv /\ [Next]_vars => WorkInv'
  <2>. SUFFICES ASSUME SelectionInv, WorkInv, [Next]_vars PROVE WorkInv'
    OBVIOUS
  <2>1. /\ PlacesDone \in Nat /\ PlacesDone + 1 <= Places /\ Places \in Nat
        /\ starts \in Nat /\ starts > 0 /\ Phases \in Nat
        /\ ValidationWork = 2 * Places + 2 * starts /\ checks \in Nat /\ MaxChecks \in Nat
        /\ longest.length + 1 <= starts /\ longest.length \in Nat
    BY PlacesAreCounted DEF SelectionInv
  <2>2. /\ starts' = starts /\ Places' = Places /\ ValidationWork' = ValidationWork
    BY DEF Next, Advance, Admit, Survey, Choose, Rebuild, Rescan, Conclude, StopAtCheckpoint,
           Cancel, Stopped, vars, input, Places, ValidationWork
  <2>3. CASE Admit
    <3>1. CASE ValidationWork > MaxChecks
      BY <2>3, <3>1 DEF Admit, Return, WorkInv, WorkIsBounded
    <3>2. CASE ~(ValidationWork > MaxChecks)
      <4>1. /\ pc' = "survey" /\ index' = starts - 1 /\ phase' = 0 /\ checks' = checks
            /\ checks = 0
        BY <2>3, <3>2 DEF Admit, BeginPass, WorkInv
      <4>2. PlacesDone' = 0 * Phases + 0
        BY <2>1, <2>2, <4>1 DEF PlacesDone
      <4>3. PlacesDone' = 0
        BY <2>1, <4>2
      <4>. QED
        BY <2>1, <2>2, <3>2, <4>1, <4>3 DEF WorkInv, WorkIsBounded
    <3>. QED
      BY <3>1, <3>2
  <2>4. CASE Survey
    <3>1. /\ pc = "survey" /\ GoOn("choose") /\ UNCHANGED input /\ checks' = checks + 1
          /\ TypeOK /\ checks = PlacesDone /\ ValidationWork <= MaxChecks
      BY <2>4 DEF Survey, SelectionInv, WorkInv
    <3>2. \/ pc' = pc /\ PlacesDone' = PlacesDone + 1
          \/ pc' = "choose" /\ PlacesDone + 1 = Places
      BY <3>1, OnePlaceIsDone
    <3>. QED
      BY <2>1, <2>2, <3>1, <3>2 DEF WorkInv, WorkIsBounded
  <2>5. CASE Choose
    <3>1. /\ pc = "choose" /\ pc' \in {"returned", "rebuild"} /\ UNCHANGED <<checks, built>>
          /\ checks = Places /\ built = 0 /\ ValidationWork <= MaxChecks
      BY <2>5 DEF Choose, Return, WorkInv, SelectionInv, BuiltIsRight
    <3>. QED
      BY <2>1, <2>2, <3>1 DEF WorkInv, WorkIsBounded
  <2>6. CASE Rebuild
    BY <2>6, RebuildWork
  <2>7. CASE Rescan
    BY <2>7, RescanWork
  <2>8. CASE Conclude \/ StopAtCheckpoint
    BY <2>8 DEF Conclude, StopAtCheckpoint, Return, WorkInv, WorkIsBounded
  <2>9. CASE Cancel \/ UNCHANGED vars
    <3>1. UNCHANGED <<starts, pc, index, phase, longest, built, checks>>
      BY <2>9 DEF Cancel, vars, input
    <3>. QED
      BY <3>1 DEF WorkInv, WorkIsBounded, PlacesDone, Places, SuffixIsPassed, ValidationWork
  <2>. QED
    BY <2>3, <2>4, <2>5, <2>6, <2>7, <2>8, <2>9 DEF Next, Advance, Stopped
<1>. QED
  BY <1>1, <1>2, SelectionInvHolds, PTL DEF Spec

(***************************************************************************)
(* A discovery that was admitted never decodes more records than the bound  *)
(* allows: the two passes, the rebuild and one suffix per row stay within    *)
(* validation_work, whatever the source decodes to.                         *)
(***************************************************************************)
THEOREM WorkStaysWithinBound == Spec => []WorkIsBounded
<1>1. WorkInv => WorkIsBounded
  BY DEF WorkInv
<1>. QED
  BY <1>1, WorkInvHolds, PTL
=============================================================================
