----------------------- MODULE ControllerReplayProofs -----------------------
(***************************************************************************)
(* Theorems about ControllerReplay, for every image, list and layout.       *)
(*                                                                         *)
(* The programs of the nine controllers are constants, and what is proved   *)
(* of them is proved piece by piece, as they are put together: a piece runs *)
(* from a set of plain regions to a larger one.                             *)
(***************************************************************************)
EXTENDS ControllerReplay, SequenceTheorems, TLAPS

\* The regions, of whichever controller.
Names ==
  Raw \cup
  {"shell", "header", "controller", "codec", "copies", "decoders", "contexts", "zeros",
   "payloads", "fileChecksums", "metadata", "mapped", "transformed", "byteMap", "manifest",
   "primary", "layer1", "layer2", "layer3", "final", "stage1", "stage3", "stage3b", "stage4",
   "stage5", "stage7", "stage12", "state", "services", "prefix", "fifth", "seventh", "eighth"}

Opening == {"open", "unmask", "walk"}
Doings == Opening \cup {"checkpoint", "verify", "agree", "snapshot", "peek", "disjoint"}
Misses == {"error", "absent", "settled", "raised"}
StepType == [do : Doings, at : Names, words : SUBSET Names, sums : SUBSET Names,
             miss : Misses]

\* In an intact image whose plain regions are `plain`, step s can be taken: what it
\* reads is plain, and what it opens is sealed.
Fits(plain, s) ==
  /\ s.do \in Opening \cup {"peek"} =>
       s.at \notin plain /\ s.words \subseteq plain /\ s.sums \subseteq plain
  /\ s.do \in {"verify", "snapshot"} => s.at \in plain
  /\ s.do = "agree" => s.words \subseteq plain /\ s.sums \subseteq plain

\* What is plain before step i, if `plain` was at the start.
PlainAt(plain, p, i) ==
  {r \in Names : r \in plain \/ \E k \in 1 .. (i - 1) : p[k].do \in Opening /\ p[k].at = r}

\* Program p runs from one set of plain regions to another and sums only `summed`.
Runs(from, p, to, summed) ==
  /\ p \in Seq(StepType)
  /\ \A i \in 1 .. Len(p) : Fits(PlainAt(from, p, i), p[i]) /\ p[i].sums \subseteq summed
  /\ PlainAt(from, p, Len(p) + 1) = to

-----------------------------------------------------------------------------
(***************************************************************************)
(* How programs are put together.                                           *)
(***************************************************************************)
LEMMA Concatenation ==
  ASSUME NEW p \in Seq(StepType), NEW q \in Seq(StepType)
  PROVE  /\ p \o q \in Seq(StepType)
         /\ Len(p) \in Nat /\ Len(q) \in Nat /\ Len(p \o q) = Len(p) + Len(q)
         /\ \A i \in 1 .. Len(p) : (p \o q)[i] = p[i]
         /\ \A j \in 1 .. Len(q) : (p \o q)[Len(p) + j] = q[j]
OBVIOUS

LEMMA Then ==
  ASSUME NEW A, NEW B, NEW C, NEW U, NEW p, NEW q, Runs(A, p, B, U), Runs(B, q, C, U)
  PROVE  Runs(A, p \o q, C, U)
<1>. DEFINE both == p \o q
<1>1. p \in Seq(StepType) /\ q \in Seq(StepType) /\ Len(p) \in Nat /\ Len(q) \in Nat
  BY DEF Runs
<1>2. PICK m \in Nat, n \in Nat : m = Len(p) /\ n = Len(q)
  BY <1>1
<1>3. /\ both \in Seq(StepType) /\ Len(both) = m + n
      /\ \A i \in 1 .. m : both[i] = p[i]
      /\ \A j \in 1 .. n : both[m + j] = q[j]
  BY <1>1, <1>2, Concatenation
<1>. HIDE DEF both
<1>4. \A i \in 1 .. (m + 1) : PlainAt(A, both, i) = PlainAt(A, p, i)
  <2>1. \A i \in 1 .. (m + 1) : \A k \in 1 .. (i - 1) : k \in 1 .. m
    OBVIOUS
  <2>. QED
    BY <1>3, <2>1 DEF PlainAt
<1>5. PlainAt(A, p, m + 1) = B
  BY <1>2 DEF Runs
<1>6. \A j \in 1 .. (n + 1) : PlainAt(A, both, m + j) = PlainAt(B, q, j)
  <2>1. ASSUME NEW j \in 1 .. (n + 1), NEW r \in Names
        PROVE  r \in PlainAt(A, both, m + j) <=> r \in PlainAt(B, q, j)
    <3>1. /\ \A k \in 1 .. m : k \in 1 .. ((m + j) - 1) /\ k \in 1 .. ((m + 1) - 1)
          /\ \A k \in 1 .. ((m + 1) - 1) : k \in 1 .. m
          /\ \A k \in 1 .. (j - 1) : k \in 1 .. n /\ m + k \in 1 .. ((m + j) - 1)
          /\ \A k \in 1 .. ((m + j) - 1) : k \in 1 .. m \/ (k - m \in 1 .. (j - 1) /\ k - m \in 1 .. n
                                                            /\ m + (k - m) = k)
      OBVIOUS
    <3>2. r \in B <=> r \in A \/ \E k \in 1 .. m : both[k].do \in Opening /\ both[k].at = r
      BY <1>3, <1>5, <3>1 DEF PlainAt
    <3>3. ASSUME NEW k \in 1 .. ((m + j) - 1), both[k].do \in Opening, both[k].at = r
          PROVE  \/ \E l \in 1 .. m : both[l].do \in Opening /\ both[l].at = r
                 \/ \E l \in 1 .. (j - 1) : q[l].do \in Opening /\ q[l].at = r
      <4>1. CASE k \in 1 .. m
        BY <3>3, <4>1
      <4>2. CASE k - m \in 1 .. (j - 1) /\ k - m \in 1 .. n /\ m + (k - m) = k
        <5>1. both[k] = q[k - m]
          BY <1>3, <4>2
        <5>. QED
          BY <3>3, <4>2, <5>1
      <4>. QED
        BY <3>1, <4>1, <4>2
    <3>4. ASSUME NEW l \in 1 .. (j - 1), q[l].do \in Opening, q[l].at = r
          PROVE  \E k \in 1 .. ((m + j) - 1) : both[k].do \in Opening /\ both[k].at = r
      <4>1. both[m + l] = q[l] /\ m + l \in 1 .. ((m + j) - 1)
        BY <1>3, <3>1
      <4>. QED
        BY <3>4, <4>1
    <3>. QED
      BY <3>1, <3>2, <3>3, <3>4 DEF PlainAt
  <2>. QED
    BY <2>1 DEF PlainAt
<1>7. ASSUME NEW i \in 1 .. (m + n)
      PROVE  Fits(PlainAt(A, both, i), both[i]) /\ both[i].sums \subseteq U
  <2>1. CASE i \in 1 .. m
    <3>1. i \in 1 .. (m + 1)
      BY <2>1
    <3>. QED
      BY <1>2, <1>3, <1>4, <2>1, <3>1 DEF Runs
  <2>2. CASE i \notin 1 .. m
    <3>1. i - m \in 1 .. n /\ i - m \in 1 .. (n + 1) /\ m + (i - m) = i
      BY <2>2
    <3>2. both[i] = q[i - m] /\ PlainAt(A, both, i) = PlainAt(B, q, i - m)
      BY <1>3, <1>6, <3>1
    <3>. QED
      BY <1>2, <3>1, <3>2 DEF Runs
  <2>. QED
    BY <2>1, <2>2
<1>8. PlainAt(A, both, (m + n) + 1) = C
  <2>1. n + 1 \in 1 .. (n + 1) /\ m + (n + 1) = (m + n) + 1
    OBVIOUS
  <2>. QED
    BY <1>2, <1>6, <2>1 DEF Runs
<1>. QED
  BY <1>3, <1>7, <1>8 DEF Runs, both

LEMMA Weaker ==
  ASSUME NEW A, NEW B, NEW U, NEW V, NEW p, Runs(A, p, B, U), U \subseteq V
  PROVE  Runs(A, p, B, V)
BY DEF Runs

\* A step on its own.
LEMMA Alone ==
  ASSUME NEW A \in SUBSET Names, NEW U, NEW s \in StepType, Fits(A, s), s.sums \subseteq U
  PROVE  /\ s.do \in Opening => Runs(A, <<s>>, A \cup {s.at}, U)
         /\ s.do \notin Opening => Runs(A, <<s>>, A, U)
<1>1. <<s>> \in Seq(StepType) /\ Len(<<s>>) = 1 /\ <<s>>[1] = s
  OBVIOUS
<1>2. PlainAt(A, <<s>>, 1) = A
  <2>1. 1 .. (1 - 1) = {}
    OBVIOUS
  <2>. QED
    BY <2>1 DEF PlainAt
<1>3. PlainAt(A, <<s>>, 1 + 1) = IF s.do \in Opening THEN A \cup {s.at} ELSE A
  <2>1. s.at \in Names /\ (\A k \in 1 .. ((1 + 1) - 1) : k = 1) /\ 1 \in 1 .. ((1 + 1) - 1)
    BY DEF StepType
  <2>. QED
    BY <1>1, <2>1 DEF PlainAt
<1>4. \A i \in 1 .. 1 : i = 1
  OBVIOUS
<1>. QED
  BY <1>1, <1>2, <1>3, <1>4 DEF Runs

LEMMA Tuples ==
  ASSUME NEW s \in StepType, NEW t \in StepType, NEW u \in StepType
  PROVE  <<s>> \o <<t>> = <<s, t>> /\ <<s, t>> \o <<u>> = <<s, t, u>>
<1>1. /\ <<s>> \in Seq(StepType) /\ <<t>> \in Seq(StepType) /\ <<u>> \in Seq(StepType)
      /\ <<s, t>> \in Seq(StepType) /\ <<s, t, u>> \in Seq(StepType)
      /\ <<s>> \o <<t>> \in Seq(StepType) /\ <<s, t>> \o <<u>> \in Seq(StepType)
      /\ Len(<<s>> \o <<t>>) = 2 /\ Len(<<s, t>>) = 2
      /\ Len(<<s, t>> \o <<u>>) = 3 /\ Len(<<s, t, u>>) = 3
  OBVIOUS
<1>2. /\ (<<s>> \o <<t>>)[1] = s /\ (<<s>> \o <<t>>)[2] = t
      /\ <<s, t>>[1] = s /\ <<s, t>>[2] = t
  OBVIOUS
<1>3. /\ (<<s, t>> \o <<u>>)[1] = s /\ (<<s, t>> \o <<u>>)[2] = t
      /\ (<<s, t>> \o <<u>>)[3] = u
      /\ <<s, t, u>>[1] = s /\ <<s, t, u>>[2] = t /\ <<s, t, u>>[3] = u
  OBVIOUS
<1>4. (\A i \in 1 .. 2 : i = 1 \/ i = 2) /\ (\A i \in 1 .. 3 : i = 1 \/ i = 2 \/ i = 3)
  OBVIOUS
<1>5. \A i \in 1 .. 2 : (<<s>> \o <<t>>)[i] = <<s, t>>[i]
  BY <1>2, <1>4
<1>6. \A i \in 1 .. 3 : (<<s, t>> \o <<u>>)[i] = <<s, t, u>>[i]
  BY <1>3, <1>4
<1>7. <<s>> \o <<t>> = <<s, t>>
  BY <1>1, <1>5, SeqEqual
<1>8. <<s, t>> \o <<u>> = <<s, t, u>>
  BY <1>1, <1>6, SeqEqual
<1>. QED
  BY <1>7, <1>8

LEMMA Pair ==
  ASSUME NEW A, NEW B, NEW C, NEW U, NEW s, NEW t,
         Runs(A, <<s>>, B, U), Runs(B, <<t>>, C, U)
  PROVE  Runs(A, <<s, t>>, C, U)
<1>1. <<s>> \in Seq(StepType) /\ <<t>> \in Seq(StepType)
  BY DEF Runs
<1>2. <<s>> \o <<t>> = <<s, t>>
  <2>1. s \in StepType /\ t \in StepType
    BY <1>1
  <2>. QED
    BY <2>1, Tuples
<1>. QED
  BY <1>2, Then

LEMMA Triple ==
  ASSUME NEW A, NEW B, NEW C, NEW D, NEW U, NEW s, NEW t, NEW u,
         Runs(A, <<s>>, B, U), Runs(B, <<t>>, C, U), Runs(C, <<u>>, D, U)
  PROVE  Runs(A, <<s, t, u>>, D, U)
<1>1. <<s>> \in Seq(StepType) /\ <<t>> \in Seq(StepType) /\ <<u>> \in Seq(StepType)
  BY DEF Runs
<1>2. <<s, t>> \o <<u>> = <<s, t, u>>
  <2>1. s \in StepType /\ t \in StepType /\ u \in StepType
    BY <1>1
  <2>. QED
    BY <2>1, Tuples
<1>3. Runs(A, <<s, t>>, C, U)
  BY Pair
<1>. QED
  BY <1>2, <1>3, Then

\* What a probe makes of its failing steps changes nothing else.
LEMMA Otherwise ==
  ASSUME NEW A, NEW B, NEW U, NEW p, NEW m \in Misses, Runs(A, p, B, U)
  PROVE  Runs(A, Else(m, p), B, U)
<1>. DEFINE e == Else(m, p)
<1>1. p \in Seq(StepType) /\ Len(p) \in Nat /\ DOMAIN p = 1 .. Len(p)
  BY DEF Runs
<1>2. e = [i \in 1 .. Len(p) |-> [p[i] EXCEPT !.miss = m]]
  BY <1>1 DEF Else
<1>3. \A i \in 1 .. Len(p) :
        /\ p[i] \in StepType
        /\ e[i] \in StepType
        /\ e[i].do = p[i].do /\ e[i].at = p[i].at
        /\ e[i].words = p[i].words /\ e[i].sums = p[i].sums
  <2>1. ASSUME NEW s \in StepType
        PROVE  /\ [s EXCEPT !.miss = m] \in StepType
               /\ [s EXCEPT !.miss = m].do = s.do /\ [s EXCEPT !.miss = m].at = s.at
               /\ [s EXCEPT !.miss = m].words = s.words /\ [s EXCEPT !.miss = m].sums = s.sums
    BY DEF StepType
  <2>2. \A i \in 1 .. Len(p) : p[i] \in StepType /\ e[i] = [p[i] EXCEPT !.miss = m]
    BY <1>1, <1>2
  <2>. QED
    BY <2>1, <2>2
<1>4. e \in Seq(StepType) /\ Len(e) = Len(p)
  BY <1>1, <1>2, <1>3
<1>. HIDE DEF e
<1>5. \A i \in 1 .. (Len(p) + 1) : PlainAt(A, e, i) = PlainAt(A, p, i)
  <2>1. \A i \in 1 .. (Len(p) + 1) : \A k \in 1 .. (i - 1) : k \in 1 .. Len(p)
    BY <1>1
  <2>. QED
    BY <1>3, <2>1 DEF PlainAt
<1>6. \A i \in 1 .. Len(p) : i \in 1 .. (Len(p) + 1)
  BY <1>1
<1>7. \A i \in 1 .. Len(p) : Fits(PlainAt(A, e, i), e[i]) /\ e[i].sums \subseteq U
  BY <1>3, <1>5, <1>6 DEF Runs, Fits
<1>8. PlainAt(A, e, Len(e) + 1) = B
  <2>1. Len(p) + 1 \in 1 .. (Len(p) + 1)
    BY <1>1
  <2>. QED
    BY <1>4, <1>5, <2>1 DEF Runs
<1>. QED
  BY <1>4, <1>7, <1>8 DEF Runs, e

LEMMA FourTuple ==
  ASSUME NEW s \in StepType, NEW t \in StepType, NEW u \in StepType, NEW v \in StepType
  PROVE  <<s, t, u>> \o <<v>> = <<s, t, u, v>>
<1>1. /\ <<s, t, u>> \in Seq(StepType) /\ <<v>> \in Seq(StepType)
      /\ <<s, t, u, v>> \in Seq(StepType) /\ <<s, t, u>> \o <<v>> \in Seq(StepType)
      /\ Len(<<s, t, u>> \o <<v>>) = 4 /\ Len(<<s, t, u, v>>) = 4
  OBVIOUS
<1>2. /\ (<<s, t, u>> \o <<v>>)[1] = s /\ (<<s, t, u>> \o <<v>>)[2] = t
      /\ (<<s, t, u>> \o <<v>>)[3] = u /\ (<<s, t, u>> \o <<v>>)[4] = v
  OBVIOUS
<1>3. \A i \in 1 .. 4 : i = 1 \/ i = 2 \/ i = 3 \/ i = 4
  OBVIOUS
<1>4. \A i \in 1 .. 4 : (<<s, t, u>> \o <<v>>)[i] = <<s, t, u, v>>[i]
  BY <1>2, <1>3
<1>. QED
  BY <1>1, <1>4, SeqEqual

LEMMA FiveTuple ==
  ASSUME NEW s \in StepType, NEW t \in StepType, NEW u \in StepType, NEW v \in StepType,
         NEW w \in StepType
  PROVE  <<s, t, u, v>> \o <<w>> = <<s, t, u, v, w>>
<1>1. /\ <<s, t, u, v>> \in Seq(StepType) /\ <<w>> \in Seq(StepType)
      /\ <<s, t, u, v, w>> \in Seq(StepType) /\ <<s, t, u, v>> \o <<w>> \in Seq(StepType)
      /\ Len(<<s, t, u, v>> \o <<w>>) = 5 /\ Len(<<s, t, u, v, w>>) = 5
  OBVIOUS
<1>2. /\ (<<s, t, u, v>> \o <<w>>)[1] = s /\ (<<s, t, u, v>> \o <<w>>)[2] = t
      /\ (<<s, t, u, v>> \o <<w>>)[3] = u /\ (<<s, t, u, v>> \o <<w>>)[4] = v
      /\ (<<s, t, u, v>> \o <<w>>)[5] = w
  OBVIOUS
<1>3. \A i \in 1 .. 5 : i = 1 \/ i = 2 \/ i = 3 \/ i = 4 \/ i = 5
  OBVIOUS
<1>4. \A i \in 1 .. 5 : (<<s, t, u, v>> \o <<w>>)[i] = <<s, t, u, v, w>>[i]
  BY <1>2, <1>3
<1>. QED
  BY <1>1, <1>4, SeqEqual

LEMMA Quadruple ==
  ASSUME NEW A, NEW B, NEW C, NEW D, NEW E, NEW U, NEW s, NEW t, NEW u, NEW v,
         Runs(A, <<s>>, B, U), Runs(B, <<t>>, C, U), Runs(C, <<u>>, D, U), Runs(D, <<v>>, E, U)
  PROVE  Runs(A, <<s, t, u, v>>, E, U)
<1>1. /\ <<s>> \in Seq(StepType) /\ <<t>> \in Seq(StepType)
      /\ <<u>> \in Seq(StepType) /\ <<v>> \in Seq(StepType)
  BY DEF Runs
<1>2. s \in StepType /\ t \in StepType /\ u \in StepType /\ v \in StepType
  BY <1>1
<1>3. Runs(A, <<s, t, u>>, D, U)
  BY Triple
<1>4. <<s, t, u>> \o <<v>> = <<s, t, u, v>>
  BY <1>2, FourTuple
<1>. QED
  BY <1>3, <1>4, Then

LEMMA Quintuple ==
  ASSUME NEW A, NEW B, NEW C, NEW D, NEW E, NEW F, NEW U,
         NEW s, NEW t, NEW u, NEW v, NEW w,
         Runs(A, <<s>>, B, U), Runs(B, <<t>>, C, U), Runs(C, <<u>>, D, U), Runs(D, <<v>>, E, U),
         Runs(E, <<w>>, F, U)
  PROVE  Runs(A, <<s, t, u, v, w>>, F, U)
<1>1. /\ <<s>> \in Seq(StepType) /\ <<t>> \in Seq(StepType) /\ <<u>> \in Seq(StepType)
      /\ <<v>> \in Seq(StepType) /\ <<w>> \in Seq(StepType)
  BY DEF Runs
<1>2. s \in StepType /\ t \in StepType /\ u \in StepType /\ v \in StepType /\ w \in StepType
  BY <1>1
<1>3. Runs(A, <<s, t, u, v>>, E, U)
  BY Quadruple
<1>4. <<s, t, u, v>> \o <<w>> = <<s, t, u, v, w>>
  BY <1>2, FiveTuple
<1>. QED
  BY <1>3, <1>4, Then

LEMMA Three ==
  ASSUME NEW A, NEW B, NEW C, NEW D, NEW U, NEW p, NEW q, NEW r,
         Runs(A, p, B, U), Runs(B, q, C, U), Runs(C, r, D, U)
  PROVE  Runs(A, p \o q \o r, D, U)
<1>1. Runs(A, p \o q, C, U)
  BY Then
<1>. QED
  BY <1>1, Then

LEMMA Four ==
  ASSUME NEW A, NEW B, NEW C, NEW D, NEW E, NEW U, NEW p, NEW q, NEW r, NEW s,
         Runs(A, p, B, U), Runs(B, q, C, U), Runs(C, r, D, U), Runs(D, s, E, U)
  PROVE  Runs(A, p \o q \o r \o s, E, U)
<1>1. Runs(A, p \o q \o r, D, U)
  BY Three
<1>. QED
  BY <1>1, Then

LEMMA Five ==
  ASSUME NEW A, NEW B, NEW C, NEW D, NEW E, NEW F, NEW U,
         NEW p, NEW q, NEW r, NEW s, NEW t,
         Runs(A, p, B, U), Runs(B, q, C, U), Runs(C, r, D, U), Runs(D, s, E, U), Runs(E, t, F, U)
  PROVE  Runs(A, p \o q \o r \o s \o t, F, U)
<1>1. Runs(A, p \o q \o r \o s, E, U)
  BY Four
<1>. QED
  BY <1>1, Then

-----------------------------------------------------------------------------
(***************************************************************************)
(* The vocabulary of shared.rs.  A step demands some regions and, where it   *)
(* opens one, that it was sealed.                                           *)
(***************************************************************************)
LEMMA OpeningSteps ==
  ASSUME NEW A \in SUBSET Names, NEW U, NEW at \in Names \ A, NEW words \in SUBSET A,
         NEW sums \in SUBSET A, sums \subseteq U
  PROVE  /\ Runs(A, <<Open(at, words, sums)>>, A \cup {at}, U)
         /\ Runs(A, <<Unmask(at, words)>>, A \cup {at}, U)
         /\ Runs(A, <<Walk(at, words)>>, A \cup {at}, U)
         /\ Runs(A, <<Peek(at, words)>>, A, U)
<1>1. ASSUME NEW s \in StepType, s.do \in Opening, s.at = at, s.words = words,
             s.sums = sums \/ s.sums = {}
      PROVE  Runs(A, <<s>>, A \cup {at}, U)
  <2>1. Fits(A, s) /\ s.sums \subseteq U
    BY <1>1 DEF Fits, Opening
  <2>. QED
    BY <1>1, <2>1, Alone
<1>2. /\ Open(at, words, sums) \in StepType /\ Open(at, words, sums).do \in Opening
      /\ Open(at, words, sums).at = at /\ Open(at, words, sums).words = words
      /\ Open(at, words, sums).sums = sums
  BY DEF Open, Step, StepType, Doings, Misses, Opening
<1>3. /\ Unmask(at, words) \in StepType /\ Unmask(at, words).do \in Opening
      /\ Unmask(at, words).at = at /\ Unmask(at, words).words = words
      /\ Unmask(at, words).sums = {}
  BY DEF Unmask, Step, StepType, Doings, Misses, Opening
<1>4. /\ Walk(at, words) \in StepType /\ Walk(at, words).do \in Opening
      /\ Walk(at, words).at = at /\ Walk(at, words).words = words
      /\ Walk(at, words).sums = {}
  BY DEF Walk, Step, StepType, Doings, Misses, Opening
<1>5. /\ Peek(at, words) \in StepType /\ Peek(at, words).do \notin Opening
      /\ Fits(A, Peek(at, words)) /\ Peek(at, words).sums \subseteq U
  BY DEF Peek, Step, StepType, Doings, Misses, Opening, Fits
<1>. QED
  BY <1>1, <1>2, <1>3, <1>4, <1>5, Alone

LEMMA LookingSteps ==
  ASSUME NEW A \in SUBSET Names, NEW U
  PROVE  /\ Runs(A, <<Checkpoint>>, A, U)
         /\ Runs(A, <<Disjoint>>, A, U)
         /\ \A at \in A : Runs(A, <<Verify(at)>>, A, U) /\ Runs(A, <<Snapshot(at)>>, A, U)
         /\ \A at \in A, sums \in SUBSET A :
               sums \subseteq U => Runs(A, <<Agree(at, sums)>>, A, U)
<1>1. ASSUME NEW s \in StepType, s.do \notin Opening, Fits(A, s), s.sums \subseteq U
      PROVE  Runs(A, <<s>>, A, U)
  BY <1>1, Alone
<1>2. /\ Checkpoint \in StepType /\ Checkpoint.do \notin Opening
      /\ Fits(A, Checkpoint) /\ Checkpoint.sums \subseteq U
  <2>1. PICK s : s = [do |-> "checkpoint", at |-> "table", words |-> {}, sums |-> {}, miss |-> "error"]
    OBVIOUS
  <2>2. Checkpoint = s
    BY <2>1 DEF Checkpoint, Step
  <2>3. s \in StepType /\ s.do \notin Opening /\ s.do = "checkpoint" /\ s.sums = {}
    BY <2>1 DEF StepType, Doings, Misses, Opening, Names, Raw
  <2>. QED
    BY <2>2, <2>3 DEF Fits, Opening
<1>3. /\ Disjoint \in StepType /\ Disjoint.do \notin Opening
      /\ Fits(A, Disjoint) /\ Disjoint.sums \subseteq U
  <2>1. PICK s : s = [do |-> "disjoint", at |-> "zeros", words |-> {"zeros", "payloads"}, sums |-> {},
                     miss |-> "error"]
    OBVIOUS
  <2>2. Disjoint = s
    BY <2>1 DEF Disjoint, Step
  <2>3. s \in StepType /\ s.do \notin Opening /\ s.do = "disjoint" /\ s.sums = {}
    BY <2>1 DEF StepType, Doings, Misses, Opening, Names, Raw
  <2>. QED
    BY <2>2, <2>3 DEF Fits, Opening
<1>4. ASSUME NEW at \in A
      PROVE  /\ Verify(at) \in StepType /\ Verify(at).do \notin Opening
             /\ Fits(A, Verify(at)) /\ Verify(at).sums \subseteq U
             /\ Snapshot(at) \in StepType /\ Snapshot(at).do \notin Opening
             /\ Fits(A, Snapshot(at)) /\ Snapshot(at).sums \subseteq U
  BY DEF Verify, Snapshot, Step, StepType, Doings, Misses, Opening, Fits
<1>5. ASSUME NEW at \in A, NEW sums \in SUBSET A, sums \subseteq U
      PROVE  /\ Agree(at, sums) \in StepType /\ Agree(at, sums).do \notin Opening
             /\ Fits(A, Agree(at, sums)) /\ Agree(at, sums).sums \subseteq U
  BY <1>5 DEF Agree, Step, StepType, Doings, Misses, Opening, Fits
<1>. QED
  BY <1>1, <1>2, <1>3, <1>4, <1>5

\* The pieces every controller has.
LEMMA SharedPieces ==
  ASSUME NEW A \in SUBSET Names, NEW U, "table" \in A
  PROVE  /\ Runs(A, KonnTable, A, U)
         /\ "shell" \notin A => Runs(A, KonnBootstrap, A \cup {"shell"}, U)
         /\ "shell" \in A /\ "header" \notin A => Runs(A, PrepareHeader, A \cup {"header"}, U)
         /\ "metadata" \notin A => Runs(A, Metadata, A, U)
<1>1. Runs(A, KonnTable, A, U)
  BY LookingSteps DEF KonnTable
<1>2. ASSUME "shell" \notin A
      PROVE  Runs(A, KonnBootstrap, A \cup {"shell"}, U)
  <2>1. Runs(A, <<Checkpoint>>, A, U)
    BY LookingSteps
  <2>2. "shell" \in Names \ A /\ {"table"} \in SUBSET A /\ {} \in SUBSET A /\ {} \subseteq U
    BY <1>2 DEF Names
  <2>3. Runs(A, <<Open("shell", {"table"}, {})>>, A \cup {"shell"}, U)
    BY <2>2, OpeningSteps
  <2>. QED
    BY <2>1, <2>3, Pair DEF KonnBootstrap
<1>3. ASSUME "shell" \in A, "header" \notin A
      PROVE  Runs(A, PrepareHeader, A \cup {"header"}, U)
  <2>1. "header" \in Names \ A /\ {"shell"} \in SUBSET A /\ {} \in SUBSET A /\ {} \subseteq U
        /\ A \cup {"header"} \in SUBSET Names /\ "shell" \in A \cup {"header"}
    BY <1>3 DEF Names
  <2>2. Runs(A, <<Unmask("header", {"shell"})>>, A \cup {"header"}, U)
    BY <2>1, OpeningSteps
  <2>3. Runs(A \cup {"header"}, <<Verify("shell")>>, A \cup {"header"}, U)
    BY <2>1, LookingSteps
  <2>. QED
    BY <2>2, <2>3, Pair DEF PrepareHeader
<1>4. ASSUME "metadata" \notin A
      PROVE  Runs(A, Metadata, A, U)
  <2>1. "metadata" \in Names \ A /\ {"table"} \in SUBSET A /\ {} \in SUBSET A /\ {} \subseteq U
    BY <1>4 DEF Names
  <2>2. Runs(A, <<Peek("metadata", {"table"})>>, A, U)
    BY <2>1, OpeningSteps
  <2>. QED
    BY <2>2 DEF Metadata
<1>. QED
  BY <1>1, <1>2, <1>3, <1>4

\* What a codec places: the copy list, then the decoder table and the AES contexts.
LEMMA CodecPieces ==
  ASSUME NEW A \in SUBSET Names, NEW U, NEW codec \in A
  PROVE  /\ "copies" \notin A => Runs(A, CopyList(codec), A \cup {"copies"}, U)
         /\ "copies" \in A /\ "decoders" \notin A /\ "contexts" \notin A =>
               Runs(A, Assets(codec), A \cup {"decoders", "contexts"}, U)
<1>1. ASSUME "copies" \notin A
      PROVE  Runs(A, CopyList(codec), A \cup {"copies"}, U)
  <2>1. "copies" \in Names \ A /\ {codec} \in SUBSET A /\ {} \in SUBSET A /\ {} \subseteq U
    BY <1>1 DEF Names
  <2>2. Runs(A, <<Unmask("copies", {codec})>>, A \cup {"copies"}, U)
    BY <2>1, OpeningSteps
  <2>. QED
    BY <2>2 DEF CopyList
<1>2. ASSUME "copies" \in A, "decoders" \notin A, "contexts" \notin A
      PROVE  Runs(A, Assets(codec), A \cup {"decoders", "contexts"}, U)
  <2>. DEFINE B == A \cup {"decoders"}
              C == A \cup {"decoders", "contexts"}
  <2>1. /\ "decoders" \in Names \ A /\ {codec, "copies"} \in SUBSET A
        /\ B \in SUBSET Names /\ "contexts" \in Names \ B /\ {codec, "copies"} \in SUBSET B
        /\ C \in SUBSET Names /\ C = B \cup {"contexts"} /\ "decoders" \in C /\ "contexts" \in C
        /\ {} \in SUBSET A /\ {} \in SUBSET B /\ {} \subseteq U
    BY <1>2 DEF Names
  <2>. HIDE DEF C
  <2>2. Runs(A, <<Unmask("decoders", {codec, "copies"})>>, B, U)
    BY <2>1, OpeningSteps
  <2>. HIDE DEF B
  <2>3. Runs(B, <<Unmask("contexts", {codec, "copies"})>>, C, U)
    BY <2>1, OpeningSteps
  <2>4. Runs(C, <<Snapshot("decoders")>>, C, U) /\ Runs(C, <<Verify("contexts")>>, C, U)
    BY <2>1, LookingSteps
  <2>5. Runs(A, Assets(codec), C, U)
    BY <2>2, <2>3, <2>4, Quadruple DEF Assets
  <2>. QED
    BY <2>5 DEF C
<1>. QED
  BY <1>1, <1>2

\* A layer under AES and the codec; a byte program is looked at where it lies.
LEMMA LayerPieces ==
  ASSUME NEW A \in SUBSET Names, NEW U, {"contexts", "decoders", "header"} \subseteq A, "header" \in U
  PROVE  /\ \A at \in Names \ A, words \in SUBSET A, sums \in SUBSET A :
               sums \subseteq U => Runs(A, Layer(at, words, sums), A \cup {at}, U)
         /\ \A at \in A : Runs(A, ByteProgram(at), A, U)
<1>1. ASSUME NEW at \in Names \ A, NEW words \in SUBSET A, NEW sums \in SUBSET A, sums \subseteq U
      PROVE  Runs(A, Layer(at, words, sums), A \cup {at}, U)
  <2>1. /\ words \union {"contexts", "decoders"} \in SUBSET A
        /\ sums \union {"header"} \in SUBSET A /\ sums \union {"header"} \subseteq U
    BY <1>1
  <2>. QED
    BY <2>1, OpeningSteps DEF Layer
<1>2. \A at \in A : Runs(A, ByteProgram(at), A, U)
  BY LookingSteps DEF ByteProgram
<1>. QED
  BY <1>1, <1>2

\* The lists a terminal layer names.
LEMMA ListPieces ==
  ASSUME NEW A \in SUBSET Names, NEW U, NEW terminal \in A,
         "payloads" \notin A, "zeros" \notin A
  PROVE  /\ Runs(A, PayloadAndZeroLists(terminal), A \cup {"payloads", "zeros"}, U)
         /\ "fileChecksums" \notin A =>
               Runs(A, PostStage5(terminal), A \cup {"fileChecksums", "payloads", "zeros"}, U)
<1>1. ASSUME NEW X \in SUBSET Names, terminal \in X, "payloads" \notin X, "zeros" \notin X
      PROVE  Runs(X, PayloadAndZeroLists(terminal), X \cup {"payloads", "zeros"}, U)
  <2>. DEFINE B == X \cup {"payloads"}
              C == X \cup {"payloads", "zeros"}
  <2>1. /\ "payloads" \in Names \ X /\ {terminal} \in SUBSET X
        /\ B \in SUBSET Names /\ "zeros" \in Names \ B /\ {terminal} \in SUBSET B
        /\ C = B \cup {"zeros"} /\ {} \in SUBSET X /\ {} \in SUBSET B /\ {} \subseteq U
    BY <1>1 DEF Names
  <2>. HIDE DEF C
  <2>2. Runs(X, <<Walk("payloads", {terminal})>>, B, U)
    BY <2>1, OpeningSteps
  <2>. HIDE DEF B
  <2>3. Runs(B, <<Walk("zeros", {terminal})>>, C, U)
    BY <2>1, OpeningSteps
  <2>4. Runs(X, PayloadAndZeroLists(terminal), C, U)
    BY <2>2, <2>3, Pair DEF PayloadAndZeroLists
  <2>. QED
    BY <2>4 DEF C
<1>2. ASSUME "fileChecksums" \notin A
      PROVE  Runs(A, PostStage5(terminal), A \cup {"fileChecksums", "payloads", "zeros"}, U)
  <2>. DEFINE B == A \cup {"fileChecksums"}
              C == A \cup {"fileChecksums", "payloads", "zeros"}
  <2>1. /\ "fileChecksums" \in Names \ A /\ {terminal} \in SUBSET A
        /\ B \in SUBSET Names /\ terminal \in B /\ "payloads" \notin B /\ "zeros" \notin B
        /\ C = B \cup {"payloads", "zeros"} /\ C \in SUBSET Names
        /\ {} \in SUBSET A /\ {} \subseteq U
    BY <1>2 DEF Names
  <2>. HIDE DEF C
  <2>2. Runs(A, MetadataRecords(terminal), B, U)
    BY <2>1, OpeningSteps DEF MetadataRecords
  <2>. HIDE DEF B
  <2>3. Runs(B, PayloadAndZeroLists(terminal), C, U)
    BY <1>1, <2>1
  <2>4. Runs(C, <<Disjoint>>, C, U)
    BY <2>1, LookingSteps
  <2>5. Runs(A, PostStage5(terminal), C, U)
    BY <2>2, <2>3, <2>4, Three DEF PostStage5
  <2>. QED
    BY <2>5 DEF C
<1>. QED
  BY <1>1, <1>2

-----------------------------------------------------------------------------
(***************************************************************************)
(* What it takes that a step has been passed, in the state it left.  A      *)
(* region is plain only if everything in its key was right; a demanding      *)
(* check is passed by a plain region only.                                  *)
(***************************************************************************)
Genuine(words, sums) ==
  /\ \A r \in words : region[r] = "plain"
  /\ \A r \in sums : region[r] = "plain" /\ r \notin job.altered

Settled(s) ==
  /\ s.do \in Opening /\ region[s.at] = "plain" => Genuine(s.words, s.sums)
  /\ s.do = "verify" => region[s.at] = "plain"
  /\ s.do = "agree" => Genuine(s.words, s.sums)
  /\ s.do = "disjoint" => ZerosAreDisjoint

AllSettled(p) == \A i \in 1 .. Len(p) : Settled(p[i])

\* The regions under checksums are as the protector left them, and the shell is
\* this family's.
Vouched(summed) == summed \cap job.altered = {} /\ region["shell"] = "plain"

LEMMA SettledParts ==
  ASSUME NEW p \in Seq(StepType), NEW q \in Seq(StepType), AllSettled(p \o q)
  PROVE  AllSettled(p) /\ AllSettled(q)
<1>1. PICK m \in Nat, n \in Nat : m = Len(p) /\ n = Len(q)
  OBVIOUS
<1>2. /\ \A i \in 1 .. m : i \in 1 .. (m + n)
      /\ \A j \in 1 .. n : m + j \in 1 .. (m + n)
  OBVIOUS
<1>3. /\ Len(p \o q) = m + n
      /\ \A i \in 1 .. m : (p \o q)[i] = p[i]
      /\ \A j \in 1 .. n : (p \o q)[m + j] = q[j]
  BY <1>1, Concatenation
<1>. QED
  BY <1>1, <1>2, <1>3 DEF AllSettled

\* The same for longer chains; that the parts are programs is known from their runs.
LEMMA SettledThree ==
  ASSUME NEW A, NEW B, NEW C, NEW D, NEW U, NEW p, NEW q, NEW r,
         Runs(A, p, B, U), Runs(B, q, C, U), Runs(C, r, D, U), AllSettled(p \o q \o r)
  PROVE  AllSettled(p) /\ AllSettled(q) /\ AllSettled(r)
<1>1. /\ p \in Seq(StepType) /\ q \in Seq(StepType) /\ r \in Seq(StepType)
      /\ p \o q \in Seq(StepType)
  BY DEF Runs
<1>2. AllSettled(p \o q) /\ AllSettled(r)
  BY <1>1, SettledParts
<1>. QED
  BY <1>1, <1>2, SettledParts

LEMMA SettledFour ==
  ASSUME NEW A, NEW B, NEW C, NEW D, NEW E, NEW U, NEW p, NEW q, NEW r, NEW s,
         Runs(A, p, B, U), Runs(B, q, C, U), Runs(C, r, D, U), Runs(D, s, E, U),
         AllSettled(p \o q \o r \o s)
  PROVE  AllSettled(p) /\ AllSettled(q) /\ AllSettled(r) /\ AllSettled(s)
<1>1. /\ p \in Seq(StepType) /\ q \in Seq(StepType) /\ r \in Seq(StepType)
      /\ s \in Seq(StepType) /\ p \o q \o r \in Seq(StepType)
  BY DEF Runs
<1>2. AllSettled(p \o q \o r) /\ AllSettled(s)
  BY <1>1, SettledParts
<1>. QED
  BY <1>2, SettledThree

LEMMA SettledFive ==
  ASSUME NEW A, NEW B, NEW C, NEW D, NEW E, NEW F, NEW U,
         NEW p, NEW q, NEW r, NEW s, NEW t,
         Runs(A, p, B, U), Runs(B, q, C, U), Runs(C, r, D, U), Runs(D, s, E, U), Runs(E, t, F, U),
         AllSettled(p \o q \o r \o s \o t)
  PROVE  /\ AllSettled(p) /\ AllSettled(q) /\ AllSettled(r) /\ AllSettled(s) /\ AllSettled(t)
<1>1. Runs(A, p \o q \o r \o s, E, U)
  BY Four
<1>2. AllSettled(p \o q \o r \o s) /\ AllSettled(t)
  BY <1>1, SettledParts DEF Runs
<1>. QED
  BY <1>2, SettledFour

LEMMA SettledSteps ==
  ASSUME NEW at, NEW words, NEW sums
  PROVE  /\ AllSettled(<<Open(at, words, sums)>>) /\ region[at] = "plain" => Genuine(words, sums)
         /\ AllSettled(Layer(at, words, sums)) /\ region[at] = "plain" =>
               Genuine(words, sums) /\ "header" \notin job.altered
         /\ AllSettled(<<Verify(at)>>) => region[at] = "plain"
         /\ AllSettled(ByteProgram(at)) => region[at] = "plain"
         /\ AllSettled(<<Agree(at, sums)>>) => Genuine({at}, sums)
<1>1. ASSUME NEW s, AllSettled(<<s>>)
      PROVE  Settled(s)
  <2>1. 1 \in 1 .. Len(<<s>>) /\ <<s>>[1] = s
    OBVIOUS
  <2>. QED
    BY <1>1, <2>1 DEF AllSettled
<1>2. ASSUME NEW w, NEW u, AllSettled(<<Open(at, w, u)>>), region[at] = "plain"
      PROVE  Genuine(w, u)
  <2>1. Settled(Open(at, w, u))
    BY <1>1, <1>2
  <2>2. /\ Open(at, w, u).do \in Opening /\ Open(at, w, u).at = at
        /\ Open(at, w, u).words = w /\ Open(at, w, u).sums = u
    BY DEF Open, Step, Opening
  <2>. QED
    BY <1>2, <2>1, <2>2 DEF Settled
<1>3. ASSUME AllSettled(Layer(at, words, sums)), region[at] = "plain"
      PROVE  Genuine(words, sums) /\ "header" \notin job.altered
  <2>1. Genuine(words \union {"contexts", "decoders"}, sums \union {"header"})
    BY <1>2, <1>3 DEF Layer
  <2>. QED
    BY <2>1 DEF Genuine
<1>4. AllSettled(<<Verify(at)>>) => region[at] = "plain"
  <2>1. Verify(at).do = "verify" /\ Verify(at).at = at
    BY DEF Verify, Step
  <2>. QED
    BY <1>1, <2>1 DEF Settled
<1>5. AllSettled(<<Agree(at, sums)>>) => Genuine({at}, sums)
  <2>1. Agree(at, sums).do = "agree" /\ Agree(at, sums).words = {at} /\ Agree(at, sums).sums = sums
    BY DEF Agree, Step
  <2>. QED
    BY <1>1, <2>1 DEF Settled
<1>. QED
  BY <1>2, <1>3, <1>4, <1>5 DEF ByteProgram

-----------------------------------------------------------------------------
(***************************************************************************)
(* The native chain: the plain regions after each of its stages.            *)
(***************************************************************************)
Shelled == Raw \cup {"shell"}
Prepared == Raw \cup {"shell", "header"}
Native1 == Prepared \cup {"stage1"}
Native2 == Native1 \cup {"codec"}
Native3 == Native2 \cup {"copies"}
Native4 == Native3 \cup {"decoders", "contexts"}
Native5 == Native4 \cup {"stage3"}
Native6 == Native5 \cup {"stage3b"}
Native7 == Native6 \cup {"stage4"}
Native8 == Native7 \cup {"stage5"}
NativeSums == {"header", "code"}

LEMMA NativeStages ==
  /\ Runs(Prepared, NativeStage1, Native1, NativeSums)
  /\ Runs(Native1, NativeStage2, Native2, NativeSums)
  /\ Runs(Native2, CopyList("codec"), Native3, NativeSums)
  /\ Runs(Native3, Assets("codec"), Native4, NativeSums)
  /\ Runs(Native4, NativeStage3, Native5, NativeSums)
  /\ Runs(Native5, NativeStage3b, Native6, NativeSums)
  /\ Runs(Native6, NativeStage4, Native7, NativeSums)
  /\ Runs(Native7, NativeStage5, Native8, NativeSums)
<1>1. /\ Prepared \in SUBSET Names /\ "stage1" \in Names \ Prepared
      /\ {"shell"} \in SUBSET Prepared /\ {"header", "code"} \in SUBSET Prepared
      /\ {"header", "code"} \subseteq NativeSums
  BY DEF Prepared, Raw, Names, NativeSums
<1>2. Runs(Prepared, NativeStage1, Native1, NativeSums)
  BY <1>1, OpeningSteps DEF NativeStage1, Native1
<1>3. /\ Native1 \in SUBSET Names /\ "codec" \in Names \ Native1 /\ {"stage1"} \in SUBSET Native1
      /\ {} \in SUBSET Native1 /\ {} \subseteq NativeSums
  BY DEF Native1, Prepared, Raw, Names
<1>4. Runs(Native1, NativeStage2, Native2, NativeSums)
  BY <1>3, OpeningSteps DEF NativeStage2, Native2
<1>5. Native2 \in SUBSET Names /\ "codec" \in Native2 /\ "copies" \notin Native2
  BY DEF Native2, Native1, Prepared, Raw, Names
<1>6. Runs(Native2, CopyList("codec"), Native3, NativeSums)
  BY <1>5, CodecPieces DEF Native3
<1>7. /\ Native3 \in SUBSET Names /\ "codec" \in Native3 /\ "copies" \in Native3
      /\ "decoders" \notin Native3 /\ "contexts" \notin Native3
  BY DEF Native3, Native2, Native1, Prepared, Raw, Names
<1>8. Runs(Native3, Assets("codec"), Native4, NativeSums)
  BY <1>7, CodecPieces DEF Native4
<1>9. ASSUME NEW A \in SUBSET Names, {"contexts", "decoders", "header", "code"} \subseteq A,
             NEW at \in Names \ A, NEW words \in SUBSET A
      PROVE  Runs(A, Layer(at, words, {"code"}), A \cup {at}, NativeSums)
  <2>1. {"contexts", "decoders", "header"} \subseteq A /\ {"code"} \in SUBSET A
        /\ {"code"} \subseteq NativeSums /\ "header" \in NativeSums
    BY <1>9 DEF NativeSums
  <2>. QED
    BY <2>1, LayerPieces
<1>10. /\ Native4 \in SUBSET Names /\ {"contexts", "decoders", "header", "code"} \subseteq Native4
       /\ "stage3" \in Names \ Native4 /\ {"shell", "stage1"} \in SUBSET Native4
  BY DEF Native4, Native3, Native2, Native1, Prepared, Raw, Names
<1>11. Runs(Native4, NativeStage3, Native5, NativeSums)
  BY <1>9, <1>10 DEF NativeStage3, Native5
<1>12. /\ Native5 \in SUBSET Names /\ {"contexts", "decoders", "header", "code"} \subseteq Native5
       /\ "stage3b" \in Names \ Native5 /\ {"stage1", "stage3"} \in SUBSET Native5
  BY <1>10 DEF Native5, Native4, Native3, Native2, Native1, Prepared, Raw, Names
<1>13. Runs(Native5, NativeStage3b, Native6, NativeSums)
  BY <1>9, <1>12 DEF NativeStage3b, Native6
<1>14. /\ Native6 \in SUBSET Names /\ {"contexts", "decoders", "header", "code"} \subseteq Native6
       /\ "stage4" \in Names \ Native6 /\ {"stage1", "stage3b"} \in SUBSET Native6
  BY <1>12 DEF Native6, Native5, Native4, Native3, Native2, Native1, Prepared, Raw, Names
<1>15. /\ Native7 \in SUBSET Names /\ {"contexts", "decoders", "header", "code"} \subseteq Native7
       /\ "stage5" \in Names \ Native7 /\ {"stage1", "stage4"} \in SUBSET Native7
       /\ "stage4" \in Native7
  BY <1>14 DEF Native7, Native6, Native5, Native4, Native3, Native2, Native1, Prepared, Raw, Names
<1>16. Runs(Native6, NativeStage4, Native7, NativeSums)
  <2>1. Runs(Native6, Layer("stage4", {"stage1", "stage3b"}, {"code"}), Native7, NativeSums)
    BY <1>9, <1>14 DEF Native7
  <2>2. Runs(Native7, ByteProgram("stage4"), Native7, NativeSums)
    BY <1>15, LookingSteps DEF ByteProgram
  <2>. QED
    BY <2>1, <2>2, Then DEF NativeStage4
<1>17. Runs(Native7, NativeStage5, Native8, NativeSums)
  BY <1>9, <1>15 DEF NativeStage5, Native8
<1>. QED
  BY <1>2, <1>4, <1>6, <1>8, <1>11, <1>13, <1>16, <1>17

LEMMA NativeRegions ==
  /\ Raw \in SUBSET Names /\ Shelled \in SUBSET Names /\ Prepared \in SUBSET Names
  /\ Native1 \in SUBSET Names /\ Native2 \in SUBSET Names /\ Native3 \in SUBSET Names
  /\ Native4 \in SUBSET Names /\ Native5 \in SUBSET Names /\ Native6 \in SUBSET Names
  /\ Native7 \in SUBSET Names /\ Native8 \in SUBSET Names
  /\ "shell" \in Shelled /\ "shell" \in Prepared
  /\ "shell" \in Native1 /\ "stage1" \in Native1 /\ "stage1" \in Native2 /\ "stage1" \in Native4
  /\ "codec" \in Native2 /\ "stage3" \in Native5 /\ "stage3b" \in Native6
  /\ "stage4" \in Native7 /\ "stage5" \in Native8
  /\ {"table", "decoders", "contexts"} \subseteq Native8
  /\ {"payloads", "zeros", "fileChecksums", "metadata"} \cap Native8 = {}
<1>1. /\ Raw \in SUBSET Names /\ Shelled \in SUBSET Names /\ Prepared \in SUBSET Names
      /\ "shell" \in Shelled /\ "shell" \in Prepared
  BY DEF Shelled, Prepared, Raw, Names
<1>2. /\ Native1 \in SUBSET Names /\ Native2 \in SUBSET Names /\ Native3 \in SUBSET Names
      /\ Native4 \in SUBSET Names
      /\ "shell" \in Native1 /\ "stage1" \in Native1 /\ "stage1" \in Native2 /\ "codec" \in Native2
      /\ "stage1" \in Native4 /\ {"table", "decoders", "contexts"} \subseteq Native4
      /\ {"payloads", "zeros", "fileChecksums", "metadata"} \cap Native4 = {}
  BY DEF Native1, Native2, Native3, Native4, Prepared, Raw, Names
<1>3. {"stage3", "stage3b", "stage4", "stage5"} \subseteq Names
  BY DEF Names
<1>. QED
  BY <1>1, <1>2, <1>3 DEF Native5, Native6, Native7, Native8

\* A settled native chain has an intact header and code under its keys.
LEMMA NativeClosure ==
  ASSUME AllSettled(NativeStage3), AllSettled(NativeStage3b), AllSettled(NativeStage4),
         AllSettled(NativeStage5), region["stage5"] = "plain"
  PROVE  Vouched(NativeSums)
<1>1. Genuine({"stage1", "stage4"}, {"code"}) /\ "header" \notin job.altered
  BY SettledSteps DEF NativeStage5
<1>2. region["stage4"] = "plain"
  BY <1>1 DEF Genuine
<1>3. AllSettled(Layer("stage4", {"stage1", "stage3b"}, {"code"}))
  <2>1. Layer("stage4", {"stage1", "stage3b"}, {"code"}) \in Seq(StepType)
        /\ ByteProgram("stage4") \in Seq(StepType)
    BY DEF Layer, ByteProgram, Open, Verify, Step, StepType, Doings, Misses, Opening, Names, Raw
  <2>. QED
    BY <2>1, SettledParts DEF NativeStage4
<1>4. Genuine({"stage1", "stage3b"}, {"code"})
  BY <1>2, <1>3, SettledSteps
<1>5. Genuine({"stage1", "stage3"}, {"code"})
  <2>1. region["stage3b"] = "plain"
    BY <1>4 DEF Genuine
  <2>. QED
    BY <2>1, SettledSteps DEF NativeStage3b
<1>6. Genuine({"shell", "stage1"}, {"code"})
  <2>1. region["stage3"] = "plain"
    BY <1>5 DEF Genuine
  <2>. QED
    BY <2>1, SettledSteps DEF NativeStage3
<1>. QED
  BY <1>1, <1>6 DEF Vouched, Genuine, NativeSums

-----------------------------------------------------------------------------
(***************************************************************************)
(* The families.  A family's program runs: its probe leaves the regions B    *)
(* plain, its recovery C with what a plan is read from; and when every step  *)
(* of it is settled, all that it sums is vouched for.                       *)
(***************************************************************************)
Plan == {"contexts", "decoders", "payloads"}

Family(probe, recover, B, C, summed) ==
  /\ Runs(Raw, probe, B, Names) /\ Runs(B, recover, C, summed)
  /\ "shell" \in B /\ Plan \subseteq C
  /\ AllSettled(recover) => Vouched(summed)

LEMMA ProbePieces ==
  /\ Runs(Raw, <<Checkpoint>>, Raw, Names)
  /\ Runs(Raw, KonnTable, Raw, Names) /\ Runs(Raw, KonnBootstrap, Shelled, Names)
  /\ Runs(Shelled, <<Verify("shell")>>, Shelled, Names)
  /\ Runs(Shelled, PrepareHeader, Prepared, Names)
<1>1. /\ "table" \in Raw /\ "shell" \notin Raw /\ "table" \in Shelled /\ "header" \notin Shelled
      /\ Raw \cup {"shell"} = Shelled /\ Shelled \cup {"header"} = Prepared
  BY DEF Raw, Shelled, Prepared
<1>2. Runs(Raw, <<Checkpoint>>, Raw, Names) /\ Runs(Shelled, <<Verify("shell")>>, Shelled, Names)
  BY NativeRegions, LookingSteps
<1>3. Runs(Raw, KonnTable, Raw, Names) /\ Runs(Raw, KonnBootstrap, Shelled, Names)
  BY <1>1, NativeRegions, SharedPieces
<1>4. Runs(Shelled, PrepareHeader, Prepared, Names)
  BY <1>1, NativeRegions, SharedPieces
<1>. QED
  BY <1>2, <1>3, <1>4

\* 3. codec_control_payload.rs
LEMMA CodecControlPayloadFamily ==
  Family(CodecControlPayloadProbe, CodecControlPayloadRecover, Prepared,
         Native8 \cup {"payloads"}, NativeSums)
<1>1. Runs(Raw, CodecControlPayloadProbe, Prepared, Names)
  <2>1. Runs(Raw, KonnTable \o KonnBootstrap \o NativeRoot \o PayloadHeader, Prepared, Names)
    BY ProbePieces, Four DEF NativeRoot, PayloadHeader
  <2>2. Runs(Raw, Else("absent", KonnTable \o KonnBootstrap \o NativeRoot \o PayloadHeader),
             Prepared, Names)
    BY <2>1, Otherwise DEF Misses
  <2>. QED
    BY <2>2, ProbePieces, Then DEF CodecControlPayloadProbe
<1>. DEFINE C == Native8 \cup {"payloads"}
            U == NativeSums
<1>2. Runs(Prepared, CodecControlPayloadCodec, Native4, U)
  <2>1. Runs(Native1, PayloadStage2, Native2, U)
    <3>1. Runs(Native1, <<Verify("stage1")>>, Native1, U)
      BY NativeRegions, LookingSteps
    <3>. QED
      BY <3>1, NativeStages, Then DEF PayloadStage2
  <2>2. Runs(Native2, PayloadCodecControls, Native3, U)
    <3>1. Runs(Native2, <<Verify("codec")>>, Native2, U)
      BY NativeRegions, LookingSteps
    <3>. QED
      BY <3>1, NativeStages, Then DEF PayloadCodecControls
  <2>. QED
    BY <2>1, <2>2, NativeStages, Four DEF CodecControlPayloadCodec
<1>3. Runs(Native5, <<Verify("stage3")>>, Native5, U)
  BY NativeRegions, LookingSteps
<1>4. Runs(Native4, CodecControlPayloadLayers, Native7, U)
  BY <1>3, NativeStages, Four DEF CodecControlPayloadLayers
<1>5. Runs(Native8, ByteProgram("stage5"), Native8, U)
  BY NativeRegions, LookingSteps DEF ByteProgram
<1>6. Runs(Native8, PayloadLists, C, U)
  <2>1. "payloads" \in Names \ Native8 /\ {"stage5"} \in SUBSET Native8 /\ {} \in SUBSET Native8
        /\ {} \subseteq U
    BY NativeRegions DEF Names
  <2>. QED
    BY <2>1, NativeRegions, OpeningSteps DEF PayloadLists
<1>7. Runs(Prepared, CodecControlPayloadRecover, C, U)
  BY <1>2, <1>4, <1>5, <1>6, NativeStages, Five DEF CodecControlPayloadRecover
<1>8. ASSUME AllSettled(CodecControlPayloadRecover)
      PROVE  Vouched(U)
  <2>1. /\ AllSettled(CodecControlPayloadLayers) /\ AllSettled(NativeStage5)
        /\ AllSettled(ByteProgram("stage5"))
    BY <1>2, <1>4, <1>5, <1>6, <1>8, NativeStages, SettledFive DEF CodecControlPayloadRecover
  <2>2. AllSettled(NativeStage3) /\ AllSettled(NativeStage3b) /\ AllSettled(NativeStage4)
    BY <1>3, <2>1, NativeStages, SettledFour DEF CodecControlPayloadLayers
  <2>. QED
    BY <2>1, <2>2, SettledSteps, NativeClosure
<1>9. Plan \subseteq C
  BY NativeRegions DEF Plan
<1>. QED
  BY <1>1, <1>7, <1>8, <1>9, NativeRegions DEF Family
\* The lists and the metadata record the native families end with.
NativeEnd == Native8 \cup {"fileChecksums", "payloads", "zeros"}

LEMMA NativeLists ==
  /\ Runs(Native8, ByteProgram("stage5"), Native8, NativeSums)
  /\ Runs(Native8, <<Verify("stage5")>>, Native8, NativeSums)
  /\ Runs(Native8, PostStage5("stage5"), NativeEnd, NativeSums)
  /\ Runs(NativeEnd, Metadata, NativeEnd, NativeSums)
  /\ Plan \subseteq NativeEnd /\ NativeEnd \in SUBSET Names
<1>1. Runs(Native8, <<Verify("stage5")>>, Native8, NativeSums)
  BY NativeRegions, LookingSteps
<1>2. Runs(Native8, PostStage5("stage5"), NativeEnd, NativeSums)
  <2>1. /\ "stage5" \in Native8 /\ Native8 \in SUBSET Names
        /\ "payloads" \notin Native8 /\ "zeros" \notin Native8 /\ "fileChecksums" \notin Native8
    BY NativeRegions
  <2>. QED
    BY <2>1, ListPieces DEF NativeEnd
<1>3. /\ Plan \subseteq NativeEnd /\ NativeEnd \in SUBSET Names
      /\ "table" \in NativeEnd /\ "metadata" \notin NativeEnd
  BY NativeRegions DEF NativeEnd, Plan, Names
<1>4. Runs(NativeEnd, Metadata, NativeEnd, NativeSums)
  BY <1>3, SharedPieces
<1>. QED
  BY <1>1, <1>2, <1>3, <1>4 DEF ByteProgram

\* 6. image_base_metadata_binding.rs
LEMMA ImageBaseMetadataFamily ==
  Family(ImageBaseMetadataProbe, ImageBaseMetadataRecover, Native1, NativeEnd, NativeSums)
<1>. DEFINE U == NativeSums
            V == NativeEnd
<1>1. Runs(Native1, <<Verify("stage1")>>, Native1, U)
  BY NativeRegions, LookingSteps
<1>2. Runs(Raw, ImageBaseMetadataProbe, Native1, Names)
  <2>1. Runs(Raw, KonnTable \o KonnBootstrap \o BindingRoot, Shelled, Names)
    BY ProbePieces, Three DEF BindingRoot
  <2>2. Runs(Raw, Else("absent", KonnTable \o KonnBootstrap \o BindingRoot), Shelled, Names)
    BY <2>1, Otherwise DEF Misses
  <2>3. U \subseteq Names
    BY DEF NativeSums, Names, Raw
  <2>4. Runs(Prepared, NativeStage1, Native1, Names) /\ Runs(Native1, DecodedStage1, Native1, Names)
    BY <1>1, <2>3, NativeStages, Weaker DEF DecodedStage1
  <2>. QED
    BY <2>2, <2>4, ProbePieces, Five DEF ImageBaseMetadataProbe, BindingHeader
<1>3. Runs(Native1, BindingStage2, Native2, U)
  <2>1. Runs(Native1, <<Checkpoint>>, Native1, U)
    BY NativeRegions, LookingSteps
  <2>2. Runs(Native1, <<Checkpoint, Verify("stage1")>>, Native1, U)
    BY <1>1, <2>1, Pair
  <2>. QED
    BY <2>2, NativeStages, Then DEF BindingStage2
<1>4. Runs(Native2, BindingCodec, Native4, U)
  <2>1. Runs(Native2, <<Verify("codec")>>, Native2, U)
    BY NativeRegions, LookingSteps
  <2>2. Runs(Native2, BindingActions, Native3, U)
    BY <2>1, NativeStages, Then DEF BindingActions
  <2>. QED
    BY <2>2, NativeStages, Then DEF BindingCodec
<1>5. Runs(Native4, BindingLayers, Native6, U)
  BY NativeStages, Then DEF BindingLayers
<1>6. Runs(Native6, BindingTerminal, Native8, U)
  BY NativeStages, NativeLists, Three DEF BindingTerminal
<1>7. Runs(V, ImageBaseMetadata, V, U)
  <2>1. Runs(V, <<Peek("metadata", {"table"})>>, V, U)
    BY NativeLists DEF Metadata
  <2>. QED
    BY <2>1, Pair DEF ImageBaseMetadata
<1>. DEFINE first == BindingStage2 \o BindingCodec \o BindingLayers \o BindingTerminal \o TerminalProfile
<1>8. Runs(Native1, first, Native8, U)
  BY <1>3, <1>4, <1>5, <1>6, NativeLists, Five DEF TerminalProfile
<1>9. Runs(Native1, ImageBaseMetadataRecover, V, U)
  BY <1>7, <1>8, NativeLists, Three DEF ImageBaseMetadataRecover
<1>10. ASSUME AllSettled(ImageBaseMetadataRecover)
       PROVE  Vouched(U)
  <2>1. AllSettled(first)
    BY <1>7, <1>8, <1>10, NativeLists, SettledThree DEF ImageBaseMetadataRecover
  <2>2. AllSettled(BindingLayers) /\ AllSettled(BindingTerminal)
    BY <1>3, <1>4, <1>5, <1>6, <2>1, NativeLists, SettledFive DEF TerminalProfile
  <2>3. AllSettled(NativeStage3) /\ AllSettled(NativeStage3b)
    BY <2>2, NativeStages, SettledParts DEF BindingLayers, Runs
  <2>4. AllSettled(NativeStage4) /\ AllSettled(NativeStage5) /\ AllSettled(ByteProgram("stage5"))
    BY <2>2, NativeStages, NativeLists, SettledThree DEF BindingTerminal
  <2>. QED
    BY <2>3, <2>4, SettledSteps, NativeClosure
<1>. QED
  BY <1>2, <1>9, <1>10, NativeLists, NativeRegions DEF Family

\* 7. codec_control_metadata.rs
LEMMA CodecControlMetadataFamily ==
  Family(CodecControlMetadataProbe, CodecControlMetadataRecover, Prepared, NativeEnd, NativeSums)
<1>. DEFINE U == NativeSums
            V == NativeEnd
<1>1. Runs(Raw, CodecControlMetadataProbe, Prepared, Names)
  <2>1. Runs(Raw, KonnTable \o KonnBootstrap \o MetadataRoot \o MetadataHeader, Prepared, Names)
    BY ProbePieces, Four DEF MetadataRoot, MetadataHeader
  <2>2. Runs(Raw, Else("settled", KonnTable \o KonnBootstrap \o MetadataRoot \o MetadataHeader),
             Prepared, Names)
    BY <2>1, Otherwise DEF Misses
  <2>. QED
    BY <2>2, ProbePieces, Then DEF CodecControlMetadataProbe
<1>2. Runs(Prepared, MetadataStage1, Native1, U)
  <2>1. Runs(Prepared, <<Checkpoint>>, Prepared, U) /\ Runs(Prepared, <<Verify("shell")>>, Prepared, U)
    BY NativeRegions, LookingSteps
  <2>2. Runs(Prepared, <<Checkpoint, Verify("shell")>>, Prepared, U)
    BY <2>1, Pair
  <2>. QED
    BY <2>2, NativeStages, Then DEF MetadataStage1
<1>3. Runs(Native1, MetadataStage2, Native2, U)
  <2>1. Runs(Native1, <<Verify("stage1")>>, Native1, U)
    BY NativeRegions, LookingSteps
  <2>. QED
    BY <2>1, NativeStages, Then DEF MetadataStage2
<1>4. Runs(Native2, FixedCodecTable, Native2, U)
  BY NativeRegions, LookingSteps DEF FixedCodecTable
<1>5. Runs(Native2, MetadataCodecControls, Native4, U)
  BY NativeStages, Then DEF MetadataCodecControls
<1>6. Runs(Native5, <<Verify("stage3")>>, Native5, U) /\ Runs(Native6, <<Verify("stage3b")>>, Native6, U)
  BY NativeRegions, LookingSteps
<1>7. Runs(Native5, TerminalLiterals, Native6, U)
  BY <1>6, NativeStages, Three DEF TerminalLiterals
<1>. DEFINE first == MetadataStage1 \o MetadataStage2 \o FixedCodecTable \o MetadataCodecControls
                     \o NativeStage3
            second == first \o TerminalLiterals \o NativeStage4 \o NativeStage5 \o ByteProgram("stage5")
<1>8. Runs(Prepared, first, Native5, U)
  BY <1>2, <1>3, <1>4, <1>5, NativeStages, Five
<1>. HIDE DEF first
<1>9. Runs(Prepared, second, Native8, U)
  BY <1>7, <1>8, NativeStages, NativeLists, Five
<1>10. CodecControlMetadataRecover = second \o PostStage5("stage5")
  BY DEF CodecControlMetadataRecover, first
<1>11. Runs(Prepared, CodecControlMetadataRecover, V, U)
  BY <1>9, <1>10, NativeLists, Then
<1>12. ASSUME AllSettled(CodecControlMetadataRecover)
       PROVE  Vouched(U)
  <2>1. AllSettled(second)
    BY <1>9, <1>10, <1>12, NativeLists, SettledParts DEF Runs
  <2>2. /\ AllSettled(first) /\ AllSettled(TerminalLiterals) /\ AllSettled(NativeStage4)
        /\ AllSettled(NativeStage5) /\ AllSettled(ByteProgram("stage5"))
    BY <1>7, <1>8, <2>1, NativeStages, NativeLists, SettledFive
  <2>3. AllSettled(NativeStage3)
    BY <1>2, <1>3, <1>4, <1>5, <2>2, NativeStages, SettledFive DEF first
  <2>4. AllSettled(NativeStage3b)
    BY <1>6, <2>2, NativeStages, SettledThree DEF TerminalLiterals
  <2>. QED
    BY <2>2, <2>3, <2>4, SettledSteps, NativeClosure
<1>. QED
  BY <1>1, <1>11, <1>12, NativeLists, NativeRegions DEF Family

\* 8. payload_checksum_manifest.rs
LEMMA PayloadChecksumFamily ==
  Family(PayloadChecksumProbe, PayloadChecksumRecover, Prepared, NativeEnd, NativeSums)
<1>. DEFINE U == NativeSums
            V == NativeEnd
<1>1. Runs(Raw, PayloadChecksumProbe, Prepared, Names)
  <2>1. Runs(Raw, KonnTable \o KonnBootstrap \o ManifestRoot \o ManifestHeader, Prepared, Names)
    BY ProbePieces, Four DEF ManifestRoot, ManifestHeader
  <2>2. Runs(Raw, Else("absent", KonnTable \o KonnBootstrap \o ManifestRoot \o ManifestHeader),
             Prepared, Names)
    BY <2>1, Otherwise DEF Misses
  <2>. QED
    BY <2>2, ProbePieces, Then DEF PayloadChecksumProbe
<1>2. /\ Runs(Prepared, <<Checkpoint>>, Prepared, U)
      /\ Runs(Native1, <<Verify("stage1")>>, Native1, U) /\ Runs(Native2, <<Verify("stage1")>>, Native2, U)
      /\ Runs(Native2, <<Verify("codec")>>, Native2, U)
      /\ Runs(Native5, <<Verify("stage3")>>, Native5, U)
      /\ Runs(Native6, <<Verify("stage3b")>>, Native6, U)
      /\ Runs(Native7, <<Verify("stage4")>>, Native7, U)
  BY NativeRegions, LookingSteps
<1>3. Runs(Native1, ManifestStage2, Native2, U)
  BY <1>2, NativeStages, Three DEF ManifestStage2
<1>4. Runs(Native2, ManifestCodec, Native3, U)
  BY <1>2, NativeStages, Then DEF ManifestCodec
<1>5. Runs(Native4, ManifestLayers, Native6, U)
  BY <1>2, NativeStages, Four DEF ManifestLayers
<1>6. Runs(Native6, ManifestTerminal, Native8, U)
  BY <1>2, NativeStages, NativeLists, Four DEF ManifestTerminal
<1>. DEFINE first == <<Checkpoint>> \o NativeStage1 \o ManifestStage2 \o ManifestCodec \o Assets("codec")
<1>7. Runs(Prepared, first, Native4, U)
  BY <1>2, <1>3, <1>4, NativeStages, Five
<1>8. PayloadChecksumRecover =
        first \o ManifestLayers \o ManifestTerminal \o PostStage5("stage5") \o Metadata
  BY DEF PayloadChecksumRecover
<1>. HIDE DEF first
<1>9. Runs(Prepared, PayloadChecksumRecover, V, U)
  BY <1>5, <1>6, <1>7, <1>8, NativeLists, Five
<1>10. ASSUME AllSettled(PayloadChecksumRecover)
       PROVE  Vouched(U)
  <2>1. AllSettled(ManifestLayers) /\ AllSettled(ManifestTerminal)
    BY <1>5, <1>6, <1>7, <1>8, <1>10, NativeLists, SettledFive
  <2>2. AllSettled(NativeStage3) /\ AllSettled(NativeStage3b)
    BY <1>2, <2>1, NativeStages, SettledFour DEF ManifestLayers
  <2>3. AllSettled(NativeStage4) /\ AllSettled(NativeStage5) /\ AllSettled(ByteProgram("stage5"))
    BY <1>2, <2>1, NativeStages, NativeLists, SettledFour DEF ManifestTerminal
  <2>. QED
    BY <2>2, <2>3, SettledSteps, NativeClosure
<1>. QED
  BY <1>1, <1>9, <1>10, NativeLists, NativeRegions DEF Family

\* 9. terminal_profile_dispatch.rs
LEMMA TerminalProfileFamily ==
  /\ Family(TerminalProfileProbe, TerminalProfileRecover, Prepared,
            Native8 \cup {"payloads", "zeros"}, NativeSums)
  /\ AllSettled(TerminalProfileRecover) => ZerosAreDisjoint
<1>. DEFINE U == NativeSums
            V == Native8 \cup {"payloads", "zeros"}
<1>1. Runs(Raw, TerminalProfileProbe, Prepared, Names)
  <2>1. /\ Runs(Raw, Else("absent", KonnTable), Raw, Names)
        /\ Runs(Raw, Else("raised", KonnBootstrap), Shelled, Names)
        /\ Runs(Shelled, Else("absent", <<Verify("shell")>>), Shelled, Names)
    BY ProbePieces, Otherwise DEF Misses
  <2>2. Runs(Shelled, TerminalRoot, Shelled, Names)
    BY <2>1, ProbePieces, Then DEF TerminalRoot
  <2>. QED
    BY <2>1, <2>2, ProbePieces, Five DEF TerminalProfileProbe, TerminalHeader
<1>2. /\ Runs(Native1, <<Verify("stage1")>>, Native1, U) /\ Runs(Native2, <<Verify("stage1")>>, Native2, U)
      /\ Runs(Native2, <<Verify("codec")>>, Native2, U)
      /\ Runs(Native4, <<Verify("stage1")>>, Native4, U)
      /\ Runs(Native5, <<Verify("stage3")>>, Native5, U)
  BY NativeRegions, LookingSteps
<1>3. Runs(Native1, TerminalStage2, Native2, U)
  BY <1>2, NativeStages, Three DEF TerminalStage2
<1>4. Runs(Native2, TerminalCodecControls, Native3, U)
  BY <1>2, NativeStages, Then DEF TerminalCodecControls
<1>5. Runs(Native4, TerminalLayers, Native7, U)
  BY <1>2, NativeStages, Five DEF TerminalLayers, SelectorRecords
<1>6. Runs(Native8, TransientChecksumChain, Native8, U)
  <2>1. "fileChecksums" \in Names \ Native8 /\ {"stage5"} \in SUBSET Native8 /\ {} \in SUBSET Native8
        /\ {} \subseteq U
    BY NativeRegions DEF Names
  <2>. QED
    BY <2>1, NativeRegions, OpeningSteps DEF TransientChecksumChain
<1>7. Runs(Native8, PayloadAndZeroLists("stage5"), V, U)
  <2>1. "stage5" \in Native8 /\ "payloads" \notin Native8 /\ "zeros" \notin Native8
    BY NativeRegions
  <2>. QED
    BY <2>1, NativeRegions, ListPieces
<1>8. V \in SUBSET Names /\ "table" \in V /\ "metadata" \notin V /\ Plan \subseteq V
  BY NativeRegions DEF Names, Plan
<1>9. Runs(V, <<Disjoint>>, V, U) /\ Runs(V, ReplayedMetadata, V, U)
  <2>1. Runs(V, Metadata, V, U)
    BY <1>8, SharedPieces
  <2>. QED
    BY <1>8, <2>1, LookingSteps DEF ReplayedMetadata, Metadata
<1>. DEFINE first == NativeStage1 \o TerminalStage2 \o TerminalCodecControls \o Assets("codec")
                     \o TerminalLayers
            second == first \o NativeStage5 \o TransientChecksumChain \o ByteProgram("stage5")
                      \o PayloadAndZeroLists("stage5")
<1>. HIDE DEF V
<1>10. Runs(Prepared, first, Native7, U)
  BY <1>3, <1>4, <1>5, NativeStages, Five
<1>. HIDE DEF first
<1>11. Runs(Prepared, second, V, U)
  BY <1>6, <1>7, <1>10, NativeStages, NativeLists, Five
<1>12. TerminalProfileRecover = second \o <<Disjoint>> \o ReplayedMetadata
  BY DEF TerminalProfileRecover, first
<1>13. Runs(Prepared, TerminalProfileRecover, V, U)
  BY <1>9, <1>11, <1>12, Three
<1>14. ASSUME AllSettled(TerminalProfileRecover)
       PROVE  Vouched(U) /\ ZerosAreDisjoint
  <2>1. AllSettled(second) /\ AllSettled(<<Disjoint>>)
    BY <1>9, <1>11, <1>12, <1>14, SettledThree
  <2>2. AllSettled(first) /\ AllSettled(NativeStage5) /\ AllSettled(ByteProgram("stage5"))
    BY <1>6, <1>7, <1>10, <2>1, NativeStages, NativeLists, SettledFive
  <2>3. AllSettled(TerminalLayers)
    BY <1>3, <1>4, <1>5, <2>2, NativeStages, SettledFive DEF first
  <2>4. AllSettled(NativeStage3) /\ AllSettled(NativeStage3b) /\ AllSettled(NativeStage4)
    BY <1>2, <2>3, NativeStages, SettledFive DEF TerminalLayers, SelectorRecords
  <2>5. Vouched(U)
    BY <2>2, <2>4, SettledSteps, NativeClosure
  <2>6. ZerosAreDisjoint
    <3>1. Settled(Disjoint)
      BY <2>1 DEF AllSettled
    <3>. QED
      BY <3>1 DEF Settled, Disjoint, Step
  <2>. QED
    BY <2>5, <2>6
<1>15. Runs(Prepared, TerminalProfileRecover, Native8 \cup {"payloads", "zeros"}, NativeSums)
       /\ Plan \subseteq Native8 \cup {"payloads", "zeros"}
  BY <1>8, <1>13 DEF V
<1>. QED
  BY <1>1, <1>14, <1>15, NativeRegions DEF Family
\* An opening step in the middle of a program.
LEMMA SettledKey ==
  ASSUME NEW p, NEW i \in 1 .. Len(p), NEW at, NEW words, NEW sums,
         p[i] = Open(at, words, sums), AllSettled(p), region[at] = "plain"
  PROVE  Genuine(words, sums)
<1>1. Settled(Open(at, words, sums))
  BY DEF AllSettled
<1>2. /\ Open(at, words, sums).do \in Opening /\ Open(at, words, sums).at = at
      /\ Open(at, words, sums).words = words /\ Open(at, words, sums).sums = sums
  BY DEF Open, Step, Opening
<1>. QED
  BY <1>1, <1>2 DEF Settled

\* The two families with a controller, a codec and a pair of keyed layers.
Codec1 == Prepared \cup {"controller"}
Codec2 == Codec1 \cup {"codec"}
Codec3 == Codec2 \cup {"copies"}
Codec4 == Codec3 \cup {"decoders", "contexts"}

LEMMA CodecStages ==
  ASSUME NEW U, {"header", "code"} \subseteq U
  PROVE  /\ Runs(Prepared, <<Open("controller", {"shell"}, {"header", "code"})>>, Codec1, U)
         /\ Runs(Codec1, <<Verify("controller")>>, Codec1, U)
         /\ Runs(Codec1, <<Open("codec", {"controller"}, {})>>, Codec2, U)
         /\ Runs(Codec2, <<Verify("codec")>>, Codec2, U)
         /\ Runs(Codec2, <<Unmask("copies", {"codec"})>>, Codec3, U)
         /\ Runs(Codec3, Assets("codec"), Codec4, U)
<1>1. /\ Prepared \in SUBSET Names /\ "controller" \in Names \ Prepared
      /\ {"shell"} \in SUBSET Prepared /\ {"header", "code"} \in SUBSET Prepared
  BY DEF Prepared, Raw, Names
<1>2. Runs(Prepared, <<Open("controller", {"shell"}, {"header", "code"})>>, Codec1, U)
  BY <1>1, OpeningSteps DEF Codec1
<1>3. /\ Codec1 \in SUBSET Names /\ "controller" \in Codec1 /\ "codec" \in Names \ Codec1
      /\ {"controller"} \in SUBSET Codec1 /\ {} \in SUBSET Codec1 /\ {} \subseteq U
  BY DEF Codec1, Prepared, Raw, Names
<1>4. Runs(Codec1, <<Open("codec", {"controller"}, {})>>, Codec2, U)
  BY <1>3, OpeningSteps DEF Codec2
<1>5. /\ Codec2 \in SUBSET Names /\ "codec" \in Codec2 /\ "copies" \in Names \ Codec2
      /\ {"codec"} \in SUBSET Codec2 /\ {} \in SUBSET Codec2 /\ {} \subseteq U
  BY DEF Codec2, Codec1, Prepared, Raw, Names
<1>6. Runs(Codec2, <<Unmask("copies", {"codec"})>>, Codec3, U)
  BY <1>5, OpeningSteps DEF Codec3
<1>7. /\ Codec3 \in SUBSET Names /\ "codec" \in Codec3 /\ "copies" \in Codec3
      /\ "decoders" \notin Codec3 /\ "contexts" \notin Codec3
  BY DEF Codec3, Codec2, Codec1, Prepared, Raw, Names
<1>8. Runs(Codec3, Assets("codec"), Codec4, U)
  BY <1>7, CodecPieces DEF Codec4
<1>9. Runs(Codec1, <<Verify("controller")>>, Codec1, U) /\ Runs(Codec2, <<Verify("codec")>>, Codec2, U)
  BY <1>3, <1>5, LookingSteps
<1>. QED
  BY <1>2, <1>4, <1>6, <1>8, <1>9

\* Their lists come in one order, behind whichever terminal.
LEMMA TerminalLists ==
  ASSUME NEW A \in SUBSET Names, NEW U, NEW terminal \in A,
         {"fileChecksums", "zeros", "payloads"} \cap A = {}
  PROVE  Runs(A, <<Walk("fileChecksums", {terminal}), Walk("zeros", {terminal}),
                   Walk("payloads", {terminal})>>,
              A \cup {"fileChecksums", "zeros", "payloads"}, U)
<1>. DEFINE B == A \cup {"fileChecksums"}
            C == B \cup {"zeros"}
            D == C \cup {"payloads"}
<1>1. /\ "fileChecksums" \in Names \ A /\ {terminal} \in SUBSET A /\ {} \in SUBSET A /\ {} \subseteq U
      /\ B \in SUBSET Names /\ "zeros" \in Names \ B /\ {terminal} \in SUBSET B /\ {} \in SUBSET B
      /\ C \in SUBSET Names /\ "payloads" \in Names \ C /\ {terminal} \in SUBSET C /\ {} \in SUBSET C
      /\ D = A \cup {"fileChecksums", "zeros", "payloads"}
  BY DEF Names
<1>2. Runs(A, <<Walk("fileChecksums", {terminal})>>, B, U)
  BY <1>1, OpeningSteps
<1>. HIDE DEF B
<1>3. Runs(B, <<Walk("zeros", {terminal})>>, C, U)
  BY <1>1, OpeningSteps
<1>. HIDE DEF C
<1>4. Runs(C, <<Walk("payloads", {terminal})>>, D, U)
  BY <1>1, OpeningSteps
<1>. HIDE DEF D
<1>5. Runs(A, <<Walk("fileChecksums", {terminal}), Walk("zeros", {terminal}),
                Walk("payloads", {terminal})>>, D, U)
  BY <1>2, <1>3, <1>4, Triple
<1>. QED
  BY <1>1, <1>5

\* 1. shell_directory_manifest.rs
DirectorySums == {"header", "code", "mapped", "transformed", "byteMap"}
Directory1 == Codec4 \cup {"mapped"}
Directory2 == Directory1 \cup {"transformed"}
Directory3 == Directory2 \cup {"byteMap"}
Directory4 == Directory3 \cup {"manifest"}
Directory5 == Directory4 \cup {"fileChecksums", "zeros", "payloads"}

LEMMA ShellDirectoryFamily ==
  Family(ShellDirectoryProbe, ShellDirectoryRecover, Shelled, Directory5, DirectorySums)
<1>. DEFINE U == DirectorySums
            opens == <<Open("controller", {"shell"}, {"header", "code"}),
                       Open("codec", {"controller"}, {}), Verify("codec"),
                       Unmask("copies", {"codec"})>>
<1>1. Runs(Raw, ShellDirectoryProbe, Shelled, Names)
  <2>1. /\ Runs(Raw, Else("absent", KonnTable), Raw, Names)
        /\ Runs(Shelled, Else("absent", <<Verify("shell")>>), Shelled, Names)
    BY ProbePieces, Otherwise DEF Misses
  <2>2. Runs(Shelled, MarkedShell, Shelled, Names)
    BY <2>1, ProbePieces, Then DEF MarkedShell
  <2>. QED
    BY <2>1, <2>2, ProbePieces, Four DEF ShellDirectoryProbe
<1>2. /\ {"header", "code"} \subseteq U
      /\ {"mapped"} \subseteq U /\ {"transformed"} \subseteq U /\ {"transformed", "byteMap"} \subseteq U
      /\ {"code"} \subseteq U /\ "header" \in U
  BY DEF DirectorySums
<1>3. Runs(Shelled, <<Checkpoint>>, Shelled, U) /\ Runs(Shelled, PrepareHeader, Prepared, U)
  <2>1. /\ Shelled \in SUBSET Names /\ "table" \in Shelled /\ "shell" \in Shelled
        /\ "header" \notin Shelled /\ Shelled \cup {"header"} = Prepared
    BY DEF Shelled, Prepared, Raw, Names
  <2>. QED
    BY <2>1, LookingSteps, SharedPieces
<1>4. Runs(Prepared, opens, Codec3, U)
  BY <1>2, CodecStages, Quadruple
<1>. HIDE DEF opens
<1>5. Runs(Shelled, ShellDirectoryCodec, Codec4, U)
  <2>1. ShellDirectoryCodec = <<Checkpoint>> \o PrepareHeader \o opens \o Assets("codec")
    BY DEF ShellDirectoryCodec, opens
  <2>. QED
    BY <1>2, <1>3, <1>4, <2>1, CodecStages, Four
<1>6. /\ Codec4 \in SUBSET Names /\ {"contexts", "decoders", "header"} \subseteq Codec4
      /\ {"controller", "code", "table"} \subseteq Codec4
      /\ {"mapped", "transformed", "byteMap", "manifest", "fileChecksums", "zeros", "payloads",
          "metadata"} \subseteq Names \ Codec4
  BY DEF Codec4, Codec3, Codec2, Codec1, Prepared, Raw, Names
<1>7. Runs(Codec4, Layer("mapped", {"controller"}, {"code"}), Directory1, U)
  <2>1. "mapped" \in Names \ Codec4 /\ {"controller"} \in SUBSET Codec4 /\ {"code"} \in SUBSET Codec4
    BY <1>6
  <2>. QED
    BY <1>2, <1>6, <2>1, LayerPieces DEF Directory1
<1>8. Runs(Directory1, Layer("transformed", {"controller", "mapped"}, {"mapped"}), Directory2, U)
  <2>1. /\ Directory1 \in SUBSET Names /\ {"contexts", "decoders", "header"} \subseteq Directory1
        /\ "transformed" \in Names \ Directory1 /\ {"controller", "mapped"} \in SUBSET Directory1
        /\ {"mapped"} \in SUBSET Directory1
    BY <1>6 DEF Directory1
  <2>. QED
    BY <1>2, <2>1, LayerPieces DEF Directory2
<1>9. Runs(Directory2, Layer("byteMap", {"controller", "transformed"}, {"transformed"}), Directory3, U)
  <2>1. /\ Directory2 \in SUBSET Names /\ {"contexts", "decoders", "header"} \subseteq Directory2
        /\ "byteMap" \in Names \ Directory2 /\ {"controller", "transformed"} \in SUBSET Directory2
        /\ {"transformed"} \in SUBSET Directory2
    BY <1>6 DEF Directory1, Directory2
  <2>. QED
    BY <1>2, <2>1, LayerPieces DEF Directory3
<1>10. /\ Directory3 \in SUBSET Names /\ {"contexts", "decoders", "header"} \subseteq Directory3
       /\ "byteMap" \in Directory3 /\ "manifest" \in Names \ Directory3
       /\ {"controller", "byteMap"} \in SUBSET Directory3
       /\ {"transformed", "byteMap"} \in SUBSET Directory3
  BY <1>6 DEF Directory1, Directory2, Directory3
<1>11. Runs(Directory3, ByteProgram("byteMap"), Directory3, U)
  BY <1>10, LookingSteps DEF ByteProgram
<1>12. Runs(Codec4, ShellDirectoryLayers, Directory3, U)
  BY <1>7, <1>8, <1>9, <1>11, Four DEF ShellDirectoryLayers
<1>13. Runs(Directory3, ShellDirectoryTerminal, Directory4, U)
  BY <1>2, <1>10, LayerPieces DEF ShellDirectoryTerminal, Directory4
<1>14. /\ Directory4 \in SUBSET Names /\ "manifest" \in Directory4 /\ "table" \in Directory4
       /\ "metadata" \notin Directory4 /\ {"fileChecksums", "zeros", "payloads"} \cap Directory4 = {}
  BY <1>6 DEF Directory1, Directory2, Directory3, Directory4
<1>15. /\ Runs(Directory4, ManifestLayout, Directory4, U)
       /\ Runs(Directory4, ByteProgram("manifest"), Directory4, U)
       /\ Runs(Directory4, Metadata, Directory4, U)
  BY <1>14, LookingSteps, SharedPieces DEF ManifestLayout, ByteProgram
<1>16. Runs(Directory4, ShellDirectoryLists, Directory5, U)
  BY <1>14, TerminalLists DEF ShellDirectoryLists, Directory5
<1>17. Directory5 \in SUBSET Names /\ Plan \subseteq Directory5
  BY <1>6, <1>14 DEF Directory5, Directory4, Directory3, Directory2, Directory1, Names, Plan
<1>18. Runs(Directory5, <<Disjoint>>, Directory5, U)
  BY <1>17, LookingSteps
<1>. DEFINE first == ShellDirectoryCodec \o ShellDirectoryLayers \o ShellDirectoryTerminal
                     \o ManifestLayout \o ByteProgram("manifest")
<1>19. Runs(Shelled, first, Directory4, U)
  BY <1>5, <1>12, <1>13, <1>15, Five
<1>20. ShellDirectoryRecover = first \o Metadata \o ShellDirectoryLists \o <<Disjoint>>
  BY DEF ShellDirectoryRecover
<1>. HIDE DEF first
<1>21. Runs(Shelled, ShellDirectoryRecover, Directory5, U)
  BY <1>15, <1>16, <1>18, <1>19, <1>20, Four
<1>22. ASSUME AllSettled(ShellDirectoryRecover)
       PROVE  Vouched(U)
  <2>1. AllSettled(first)
    BY <1>15, <1>16, <1>18, <1>19, <1>20, <1>22, SettledFour
  <2>2. /\ AllSettled(ShellDirectoryCodec) /\ AllSettled(ShellDirectoryLayers)
        /\ AllSettled(ShellDirectoryTerminal) /\ AllSettled(ManifestLayout)
    BY <1>5, <1>12, <1>13, <1>15, <2>1, SettledFive DEF first
  <2>3. /\ AllSettled(Layer("mapped", {"controller"}, {"code"}))
        /\ AllSettled(Layer("transformed", {"controller", "mapped"}, {"mapped"}))
        /\ AllSettled(Layer("byteMap", {"controller", "transformed"}, {"transformed"}))
    BY <1>7, <1>8, <1>9, <1>11, <2>2, SettledFour DEF ShellDirectoryLayers
  <2>4. Genuine({"controller", "byteMap"}, {"transformed", "byteMap"}) /\ "header" \notin job.altered
    BY <2>2, SettledSteps DEF ShellDirectoryTerminal, ManifestLayout
  <2>5. Genuine({"controller", "mapped"}, {"mapped"})
    <3>1. region["transformed"] = "plain"
      BY <2>4 DEF Genuine
    <3>. QED
      BY <2>3, <3>1, SettledSteps
  <2>6. Genuine({"controller"}, {"code"})
    <3>1. region["mapped"] = "plain"
      BY <2>5 DEF Genuine
    <3>. QED
      BY <2>3, <3>1, SettledSteps
  <2>7. AllSettled(opens)
    <3>1. ShellDirectoryCodec = <<Checkpoint>> \o PrepareHeader \o opens \o Assets("codec")
      BY DEF ShellDirectoryCodec, opens
    <3>. QED
      BY <1>2, <1>3, <1>4, <2>2, <3>1, CodecStages, SettledFour
  <2>8. Genuine({"shell"}, {"header", "code"})
    <3>1. region["controller"] = "plain"
      BY <2>6 DEF Genuine
    <3>2. 1 \in 1 .. Len(opens) /\ opens[1] = Open("controller", {"shell"}, {"header", "code"})
      BY DEF opens
    <3>. QED
      BY <2>7, <3>1, <3>2, SettledKey
  <2>. QED
    BY <2>4, <2>5, <2>8 DEF Vouched, Genuine, DirectorySums
<1>. QED
  BY <1>1, <1>17, <1>21, <1>22, NativeRegions DEF Family

\* 5. codec_operation_dispatch.rs
OperationSums == {"header", "code", "mapped", "fifth", "seventh"}
Operation1 == Codec4 \cup {"mapped"}
Operation2 == Operation1 \cup {"fifth"}
Operation3 == Operation2 \cup {"seventh"}
Operation4 == Operation3 \cup {"eighth"}
Operation5 == Operation4 \cup {"fileChecksums", "zeros", "payloads"}

LEMMA CodecOperationFamily ==
  Family(CodecOperationProbe, CodecOperationRecover, Shelled, Operation5, OperationSums)
<1>. DEFINE U == OperationSums
            opens == <<Open("controller", {"shell"}, {"header", "code"}), Verify("controller"),
                       Open("codec", {"controller"}, {}), Verify("codec"),
                       Unmask("copies", {"codec"})>>
<1>1. Runs(Raw, CodecOperationProbe, Shelled, Names)
  <2>1. /\ Runs(Raw, Else("absent", KonnTable), Raw, Names)
        /\ Runs(Shelled, Else("absent", <<Verify("shell")>>), Shelled, Names)
    BY ProbePieces, Otherwise DEF Misses
  <2>2. Runs(Shelled, OperationRoot, Shelled, Names)
    BY <2>1, ProbePieces, Then DEF OperationRoot
  <2>. QED
    BY <2>1, <2>2, ProbePieces, Three DEF CodecOperationProbe
<1>2. /\ {"header", "code"} \subseteq U
      /\ {"mapped"} \subseteq U /\ {"fifth"} \subseteq U /\ {"fifth", "seventh"} \subseteq U
      /\ {"code"} \subseteq U /\ "header" \in U
  BY DEF OperationSums
<1>3. Runs(Shelled, OperationHeader, Prepared, U)
  <2>1. /\ Shelled \in SUBSET Names /\ "table" \in Shelled /\ "shell" \in Shelled
        /\ "header" \notin Shelled /\ Shelled \cup {"header"} = Prepared
    BY DEF Shelled, Prepared, Raw, Names
  <2>. QED
    BY <2>1, SharedPieces DEF OperationHeader
<1>4. Runs(Prepared, opens, Codec3, U)
  BY <1>2, CodecStages, Quintuple
<1>. HIDE DEF opens
<1>5. Runs(Shelled, OperationCodec, Codec4, U)
  <2>1. OperationCodec = OperationHeader \o opens \o Assets("codec")
    BY DEF OperationCodec, opens
  <2>. QED
    BY <1>2, <1>3, <1>4, <2>1, CodecStages, Three
<1>6. /\ Codec4 \in SUBSET Names /\ {"contexts", "decoders", "header"} \subseteq Codec4
      /\ {"controller", "code", "table"} \subseteq Codec4
      /\ {"mapped", "fifth", "seventh", "eighth", "fileChecksums", "zeros", "payloads",
          "metadata"} \subseteq Names \ Codec4
  BY DEF Codec4, Codec3, Codec2, Codec1, Prepared, Raw, Names
<1>7. Runs(Codec4, Layer("mapped", {"controller"}, {"code"}), Operation1, U)
  <2>1. "mapped" \in Names \ Codec4 /\ {"controller"} \in SUBSET Codec4 /\ {"code"} \in SUBSET Codec4
    BY <1>6
  <2>. QED
    BY <1>2, <1>6, <2>1, LayerPieces DEF Operation1
<1>8. Runs(Operation1, Layer("fifth", {"controller", "mapped"}, {"mapped"}), Operation2, U)
  <2>1. /\ Operation1 \in SUBSET Names /\ {"contexts", "decoders", "header"} \subseteq Operation1
        /\ "fifth" \in Names \ Operation1 /\ {"controller", "mapped"} \in SUBSET Operation1
        /\ {"mapped"} \in SUBSET Operation1
    BY <1>6 DEF Operation1
  <2>. QED
    BY <1>2, <2>1, LayerPieces DEF Operation2
<1>9. Runs(Operation2, Layer("seventh", {"controller", "fifth"}, {"fifth"}), Operation3, U)
  <2>1. /\ Operation2 \in SUBSET Names /\ {"contexts", "decoders", "header"} \subseteq Operation2
        /\ "seventh" \in Names \ Operation2 /\ {"controller", "fifth"} \in SUBSET Operation2
        /\ {"fifth"} \in SUBSET Operation2
    BY <1>6 DEF Operation1, Operation2
  <2>. QED
    BY <1>2, <2>1, LayerPieces DEF Operation3
<1>10. /\ Operation3 \in SUBSET Names /\ {"contexts", "decoders", "header"} \subseteq Operation3
       /\ "seventh" \in Operation3 /\ "eighth" \in Names \ Operation3
       /\ {"controller", "seventh"} \in SUBSET Operation3
       /\ {"fifth", "seventh"} \in SUBSET Operation3
  BY <1>6 DEF Operation1, Operation2, Operation3
<1>11. Runs(Operation3, ByteProgram("seventh"), Operation3, U)
  BY <1>10, LookingSteps DEF ByteProgram
<1>12. Runs(Codec4, OperationLayers, Operation3, U)
  BY <1>7, <1>8, <1>9, <1>11, Four DEF OperationLayers
<1>13. Runs(Operation3, Layer("eighth", {"controller", "seventh"}, {"fifth", "seventh"}), Operation4, U)
  BY <1>2, <1>10, LayerPieces DEF Operation4
<1>14. /\ Operation4 \in SUBSET Names /\ "eighth" \in Operation4 /\ "table" \in Operation4
       /\ "metadata" \notin Operation4 /\ {"fileChecksums", "zeros", "payloads"} \cap Operation4 = {}
  BY <1>6 DEF Operation1, Operation2, Operation3, Operation4
<1>15. /\ Runs(Operation4, ByteProgram("eighth"), Operation4, U)
       /\ Runs(Operation4, Metadata, Operation4, U)
  BY <1>14, LookingSteps, SharedPieces DEF ByteProgram
<1>16. Runs(Operation3, OperationTerminal, Operation4, U)
  BY <1>13, <1>15, Then DEF OperationTerminal
<1>17. Runs(Operation4, OperationLists, Operation5, U)
  BY <1>14, TerminalLists DEF OperationLists, Operation5
<1>18. Plan \subseteq Operation5
  BY <1>6 DEF Operation5, Operation4, Operation3, Operation2, Operation1, Plan
<1>19. Runs(Shelled, CodecOperationRecover, Operation5, U)
  BY <1>5, <1>12, <1>15, <1>16, <1>17, Five DEF CodecOperationRecover
<1>20. ASSUME AllSettled(CodecOperationRecover)
       PROVE  Vouched(U)
  <2>1. AllSettled(OperationCodec) /\ AllSettled(OperationLayers) /\ AllSettled(OperationTerminal)
    BY <1>5, <1>12, <1>15, <1>16, <1>17, <1>20, SettledFive DEF CodecOperationRecover
  <2>2. /\ AllSettled(Layer("mapped", {"controller"}, {"code"}))
        /\ AllSettled(Layer("fifth", {"controller", "mapped"}, {"mapped"}))
        /\ AllSettled(Layer("seventh", {"controller", "fifth"}, {"fifth"}))
    BY <1>7, <1>8, <1>9, <1>11, <2>1, SettledFour DEF OperationLayers
  <2>3. /\ AllSettled(Layer("eighth", {"controller", "seventh"}, {"fifth", "seventh"}))
        /\ AllSettled(ByteProgram("eighth"))
    BY <1>13, <1>15, <2>1, SettledParts DEF OperationTerminal, Runs
  <2>4. Genuine({"controller", "seventh"}, {"fifth", "seventh"}) /\ "header" \notin job.altered
    BY <2>3, SettledSteps
  <2>5. Genuine({"controller", "mapped"}, {"mapped"})
    <3>1. region["fifth"] = "plain"
      BY <2>4 DEF Genuine
    <3>. QED
      BY <2>2, <3>1, SettledSteps
  <2>6. Genuine({"controller"}, {"code"})
    <3>1. region["mapped"] = "plain"
      BY <2>5 DEF Genuine
    <3>. QED
      BY <2>2, <3>1, SettledSteps
  <2>7. AllSettled(opens)
    <3>1. OperationCodec = OperationHeader \o opens \o Assets("codec")
      BY DEF OperationCodec, opens
    <3>. QED
      BY <1>2, <1>3, <1>4, <2>1, <3>1, CodecStages, SettledThree
  <2>8. Genuine({"shell"}, {"header", "code"})
    <3>1. region["controller"] = "plain"
      BY <2>6 DEF Genuine
    <3>2. 1 \in 1 .. Len(opens) /\ opens[1] = Open("controller", {"shell"}, {"header", "code"})
      BY DEF opens
    <3>. QED
      BY <2>7, <3>1, <3>2, SettledKey
  <2>. QED
    BY <2>4, <2>5, <2>8 DEF Vouched, Genuine, OperationSums
<1>. QED
  BY <1>1, <1>18, <1>19, <1>20, NativeRegions DEF Family
\* 2. codec_relocation.rs
RelocationSums == {"header", "code", "layer1"}
Relocation1 == Prepared \cup {"primary"}
Relocation2 == Relocation1 \cup {"codec"}
Relocation3 == Relocation2 \cup {"copies"}
Relocation4 == Relocation3 \cup {"decoders", "contexts"}
Relocation5 == Relocation4 \cup {"layer1"}
Relocation6 == Relocation5 \cup {"layer2"}
Relocation7 == Relocation6 \cup {"layer3"}
Relocation8 == Relocation7 \cup {"final"}
Relocation9 == Relocation8 \cup {"fileChecksums", "payloads", "zeros"}
Relocation10 == Relocation9 \cup {"metadata"}

LEMMA CodecRelocationFamily ==
  Family(CodecRelocationProbe, CodecRelocationRecover, Prepared, Relocation10, RelocationSums)
<1>. DEFINE U == RelocationSums
            opens == <<Checkpoint, Open("primary", {"shell"}, {"header", "code"}),
                       Open("codec", {"primary"}, {})>>
<1>1. Runs(Raw, CodecRelocationProbe, Prepared, Names)
  <2>1. Runs(Prepared, <<Verify("shell")>>, Prepared, Names)
    BY NativeRegions, LookingSteps
  <2>2. Runs(Shelled, RootChecks, Prepared, Names)
    BY <2>1, ProbePieces, Then DEF RootChecks
  <2>. QED
    BY <2>2, ProbePieces, Four DEF CodecRelocationProbe
<1>2. /\ {"header", "code"} \subseteq U /\ {"code"} \subseteq U /\ {"layer1"} \subseteq U
      /\ "header" \in U
  BY DEF RelocationSums
<1>3. /\ Prepared \in SUBSET Names /\ "primary" \in Names \ Prepared
      /\ {"shell"} \in SUBSET Prepared /\ {"header", "code"} \in SUBSET Prepared
  BY DEF Prepared, Raw, Names
<1>4. /\ Relocation1 \in SUBSET Names /\ "codec" \in Names \ Relocation1
      /\ {"primary"} \in SUBSET Relocation1 /\ {} \in SUBSET Relocation1 /\ {} \subseteq U
  BY DEF Relocation1, Prepared, Raw, Names
<1>5. Runs(Prepared, opens, Relocation2, U)
  <2>1. Runs(Prepared, <<Checkpoint>>, Prepared, U)
    BY <1>3, LookingSteps
  <2>2. Runs(Prepared, <<Open("primary", {"shell"}, {"header", "code"})>>, Relocation1, U)
    BY <1>2, <1>3, OpeningSteps DEF Relocation1
  <2>3. Runs(Relocation1, <<Open("codec", {"primary"}, {})>>, Relocation2, U)
    BY <1>4, OpeningSteps DEF Relocation2
  <2>. QED
    BY <2>1, <2>2, <2>3, Triple
<1>. HIDE DEF opens
<1>6. Runs(Relocation2, RelocationActions, Relocation3, U)
  <2>1. Relocation2 \in SUBSET Names /\ "codec" \in Relocation2 /\ "copies" \notin Relocation2
    BY DEF Relocation2, Relocation1, Prepared, Raw, Names
  <2>2. Runs(Relocation2, <<Verify("codec")>>, Relocation2, U)
    BY <2>1, LookingSteps
  <2>3. Runs(Relocation2, CopyList("codec"), Relocation3, U)
    BY <2>1, CodecPieces DEF Relocation3
  <2>. QED
    BY <2>2, <2>3, Then DEF RelocationActions
<1>7. Runs(Relocation3, Assets("codec"), Relocation4, U)
  <2>1. /\ Relocation3 \in SUBSET Names /\ "codec" \in Relocation3 /\ "copies" \in Relocation3
        /\ "decoders" \notin Relocation3 /\ "contexts" \notin Relocation3
    BY DEF Relocation3, Relocation2, Relocation1, Prepared, Raw, Names
  <2>. QED
    BY <2>1, CodecPieces DEF Relocation4
<1>8. CodecRelocationCodec = opens \o RelocationActions \o Assets("codec")
  BY DEF CodecRelocationCodec, opens
<1>9. Runs(Prepared, CodecRelocationCodec, Relocation4, U)
  BY <1>5, <1>6, <1>7, <1>8, Three
<1>10. /\ Relocation4 \in SUBSET Names /\ {"contexts", "decoders", "header"} \subseteq Relocation4
       /\ {"shell", "primary", "code", "table"} \subseteq Relocation4
       /\ {"layer1", "layer2", "layer3", "final", "fileChecksums", "payloads", "zeros", "metadata"}
             \subseteq Names \ Relocation4
  BY DEF Relocation4, Relocation3, Relocation2, Relocation1, Prepared, Raw, Names
<1>11. Runs(Relocation4, Layer("layer1", {"shell", "primary"}, {"code"}), Relocation5, U)
  <2>1. /\ "layer1" \in Names \ Relocation4 /\ {"shell", "primary"} \in SUBSET Relocation4
        /\ {"code"} \in SUBSET Relocation4
    BY <1>10
  <2>. QED
    BY <1>2, <1>10, <2>1, LayerPieces DEF Relocation5
<1>12. Runs(Relocation5, Layer("layer2", {"primary", "layer1"}, {"layer1"}), Relocation6, U)
  <2>1. /\ Relocation5 \in SUBSET Names /\ {"contexts", "decoders", "header"} \subseteq Relocation5
        /\ "layer2" \in Names \ Relocation5 /\ {"primary", "layer1"} \in SUBSET Relocation5
        /\ {"layer1"} \in SUBSET Relocation5
    BY <1>10 DEF Relocation5
  <2>. QED
    BY <1>2, <2>1, LayerPieces DEF Relocation6
<1>13. Runs(Relocation6, Layer("layer3", {"primary", "layer2"}, {"code"}), Relocation7, U)
  <2>1. /\ Relocation6 \in SUBSET Names /\ {"contexts", "decoders", "header"} \subseteq Relocation6
        /\ "layer3" \in Names \ Relocation6 /\ {"primary", "layer2"} \in SUBSET Relocation6
        /\ {"code"} \in SUBSET Relocation6
    BY <1>10 DEF Relocation5, Relocation6
  <2>. QED
    BY <1>2, <2>1, LayerPieces DEF Relocation7
<1>14. /\ Relocation7 \in SUBSET Names /\ {"contexts", "decoders", "header"} \subseteq Relocation7
       /\ "layer3" \in Relocation7 /\ "final" \in Names \ Relocation7
       /\ {"primary", "layer3"} \in SUBSET Relocation7 /\ {"code"} \in SUBSET Relocation7
  BY <1>10 DEF Relocation5, Relocation6, Relocation7
<1>15. Runs(Relocation7, ByteProgram("layer3"), Relocation7, U)
  BY <1>14, LookingSteps DEF ByteProgram
<1>16. Runs(Relocation4, CodecRelocationLayers, Relocation7, U)
  BY <1>11, <1>12, <1>13, <1>15, Four DEF CodecRelocationLayers
<1>17. Runs(Relocation7, Layer("final", {"primary", "layer3"}, {"code"}), Relocation8, U)
  BY <1>2, <1>14, LayerPieces DEF Relocation8
<1>18. /\ Relocation8 \in SUBSET Names /\ "final" \in Relocation8
       /\ "payloads" \notin Relocation8 /\ "zeros" \notin Relocation8
       /\ "fileChecksums" \notin Relocation8
  BY <1>10 DEF Relocation5, Relocation6, Relocation7, Relocation8
<1>19. Runs(Relocation8, ByteProgram("final"), Relocation8, U)
  BY <1>18, LookingSteps DEF ByteProgram
<1>20. Runs(Relocation7, FinalController, Relocation8, U)
  BY <1>17, <1>19, Then DEF FinalController
<1>21. Runs(Relocation8, PostStage5("final"), Relocation9, U)
  BY <1>18, ListPieces DEF Relocation9
<1>22. /\ Relocation9 \in SUBSET Names /\ "metadata" \in Names \ Relocation9
       /\ {"table"} \in SUBSET Relocation9 /\ {} \in SUBSET Relocation9 /\ {} \subseteq U
       /\ Relocation10 \in SUBSET Names /\ "metadata" \in Relocation10 /\ Plan \subseteq Relocation10
  BY <1>10, <1>18 DEF Relocation5, Relocation6, Relocation7, Relocation8, Relocation9, Relocation10,
                      Plan, Names
<1>23. Runs(Relocation9, ControllerMetadata, Relocation10, U)
  <2>1. Runs(Relocation9, <<Unmask("metadata", {"table"})>>, Relocation10, U)
    BY <1>22, OpeningSteps DEF Relocation10
  <2>2. Runs(Relocation10, <<Verify("metadata")>>, Relocation10, U)
    BY <1>22, LookingSteps
  <2>. QED
    BY <2>1, <2>2, Pair DEF ControllerMetadata
<1>24. Runs(Prepared, CodecRelocationRecover, Relocation10, U)
  BY <1>9, <1>16, <1>20, <1>21, <1>23, Five DEF CodecRelocationRecover
<1>25. ASSUME AllSettled(CodecRelocationRecover)
       PROVE  Vouched(U)
  <2>1. AllSettled(CodecRelocationCodec) /\ AllSettled(CodecRelocationLayers) /\ AllSettled(FinalController)
    BY <1>9, <1>16, <1>20, <1>21, <1>23, <1>25, SettledFive DEF CodecRelocationRecover
  <2>2. /\ AllSettled(Layer("layer1", {"shell", "primary"}, {"code"}))
        /\ AllSettled(Layer("layer2", {"primary", "layer1"}, {"layer1"}))
        /\ AllSettled(Layer("layer3", {"primary", "layer2"}, {"code"}))
    BY <1>11, <1>12, <1>13, <1>15, <2>1, SettledFour DEF CodecRelocationLayers
  <2>3. /\ AllSettled(Layer("final", {"primary", "layer3"}, {"code"}))
        /\ AllSettled(ByteProgram("final"))
    BY <1>17, <1>19, <2>1, SettledParts DEF FinalController, Runs
  <2>4. Genuine({"primary", "layer3"}, {"code"}) /\ "header" \notin job.altered
    BY <2>3, SettledSteps
  <2>5. Genuine({"primary", "layer2"}, {"code"})
    <3>1. region["layer3"] = "plain"
      BY <2>4 DEF Genuine
    <3>. QED
      BY <2>2, <3>1, SettledSteps
  <2>6. Genuine({"primary", "layer1"}, {"layer1"})
    <3>1. region["layer2"] = "plain"
      BY <2>5 DEF Genuine
    <3>. QED
      BY <2>2, <3>1, SettledSteps
  <2>7. Genuine({"shell", "primary"}, {"code"})
    <3>1. region["layer1"] = "plain"
      BY <2>6 DEF Genuine
    <3>. QED
      BY <2>2, <3>1, SettledSteps
  <2>. QED
    BY <2>4, <2>6, <2>7 DEF Vouched, Genuine, RelocationSums
<1>. QED
  BY <1>1, <1>22, <1>24, <1>25, NativeRegions DEF Family

\* 4. state_asset_selection.rs
StateSums == {"header", "code", "primary", "stage4", "stage5", "stage7"}
State1 == Prepared \cup {"primary"}
State2 == State1 \cup {"state"}
State3 == State2 \cup {"services", "copies"}
State4 == State3 \cup {"payloads"}
State5 == State4 \cup {"decoders", "contexts"}
State6 == State5 \cup {"stage4"}
State7 == State6 \cup {"stage5"}
State8 == State7 \cup {"stage7"}
State9 == State8 \cup {"stage12"}

LEMMA StateStagesRun ==
  /\ Runs(State5, StateStages, State9, StateSums)
  /\ AllSettled(StateStages) =>
        {"header", "primary", "stage4", "stage5", "stage7"} \cap job.altered = {}
<1>. DEFINE U == StateSums
            L4 == Layer("stage4", {"state", "primary"}, {"primary"})
            L5 == Layer("stage5", {"state", "stage4"}, {"stage4"})
            L7 == Layer("stage7", {"state", "stage5"}, {"stage5"})
            L12 == Layer("stage12", {"state", "stage7"}, {"stage7", "stage5"})
<1>1. /\ {"primary"} \subseteq U /\ {"stage4"} \subseteq U /\ {"stage5"} \subseteq U
      /\ {"stage7", "stage5"} \subseteq U /\ "header" \in U
  BY DEF StateSums
<1>2. /\ State5 \in SUBSET Names /\ {"contexts", "decoders", "header"} \subseteq State5
      /\ {"state", "primary"} \subseteq State5
      /\ {"stage4", "stage5", "stage7", "stage12"} \subseteq Names \ State5
  BY DEF State5, State4, State3, State2, State1, Prepared, Raw, Names
<1>3. Runs(State5, L4, State6, U)
  <2>1. /\ "stage4" \in Names \ State5 /\ {"state", "primary"} \in SUBSET State5
        /\ {"primary"} \in SUBSET State5
    BY <1>2
  <2>. QED
    BY <1>1, <1>2, <2>1, LayerPieces DEF State6
<1>4. Runs(State6, L5, State7, U)
  <2>1. /\ State6 \in SUBSET Names /\ {"contexts", "decoders", "header"} \subseteq State6
        /\ "stage5" \in Names \ State6 /\ {"state", "stage4"} \in SUBSET State6
        /\ {"stage4"} \in SUBSET State6
    BY <1>2 DEF State6
  <2>. QED
    BY <1>1, <2>1, LayerPieces DEF State7
<1>5. Runs(State7, L7, State8, U)
  <2>1. /\ State7 \in SUBSET Names /\ {"contexts", "decoders", "header"} \subseteq State7
        /\ "stage7" \in Names \ State7 /\ {"state", "stage5"} \in SUBSET State7
        /\ {"stage5"} \in SUBSET State7
    BY <1>2 DEF State6, State7
  <2>. QED
    BY <1>1, <2>1, LayerPieces DEF State8
<1>6. /\ State8 \in SUBSET Names /\ {"contexts", "decoders", "header"} \subseteq State8
      /\ "stage7" \in State8 /\ "stage12" \in Names \ State8 /\ {"state", "stage7"} \in SUBSET State8
      /\ {"stage7", "stage5"} \in SUBSET State8
  BY <1>2 DEF State6, State7, State8
<1>7. Runs(State8, ByteProgram("stage7"), State8, U)
  BY <1>6, LookingSteps DEF ByteProgram
<1>8. Runs(State8, L12, State9, U)
  BY <1>1, <1>6, LayerPieces DEF State9
<1>9. Runs(State9, ByteProgram("stage12"), State9, U)
  <2>1. State9 \in SUBSET Names /\ "stage12" \in State9
    BY <1>6 DEF State9
  <2>. QED
    BY <2>1, LookingSteps DEF ByteProgram
<1>. HIDE DEF L4, L5, L7, L12
<1>10. StateStages = L4 \o L5 \o L7 \o ByteProgram("stage7") \o L12 \o ByteProgram("stage12")
  BY DEF StateStages, L4, L5, L7, L12
<1>. DEFINE first == L4 \o L5 \o L7 \o ByteProgram("stage7")
<1>11. Runs(State5, first, State8, U)
  BY <1>3, <1>4, <1>5, <1>7, Four
<1>12. StateStages = first \o L12 \o ByteProgram("stage12")
  BY <1>10
<1>. HIDE DEF first
<1>13. Runs(State5, StateStages, State9, U)
  BY <1>8, <1>9, <1>11, <1>12, Three
<1>14. ASSUME AllSettled(StateStages)
       PROVE  {"header", "primary", "stage4", "stage5", "stage7"} \cap job.altered = {}
  <2>1. AllSettled(first) /\ AllSettled(L12) /\ AllSettled(ByteProgram("stage12"))
    BY <1>8, <1>9, <1>11, <1>12, <1>14, SettledThree
  <2>2. AllSettled(L4) /\ AllSettled(L5) /\ AllSettled(L7)
    BY <1>3, <1>4, <1>5, <1>7, <2>1, SettledFour DEF first
  <2>3. Genuine({"state", "stage7"}, {"stage7", "stage5"}) /\ "header" \notin job.altered
    BY <2>1, SettledSteps DEF L12
  <2>4. Genuine({"state", "stage4"}, {"stage4"})
    <3>1. region["stage5"] = "plain"
      BY <2>3 DEF Genuine
    <3>. QED
      BY <2>2, <3>1, SettledSteps DEF L5
  <2>5. Genuine({"state", "primary"}, {"primary"})
    <3>1. region["stage4"] = "plain"
      BY <2>4 DEF Genuine
    <3>. QED
      BY <2>2, <3>1, SettledSteps DEF L4
  <2>. QED
    BY <2>3, <2>4, <2>5 DEF Genuine
<1>. QED
  BY <1>13, <1>14

LEMMA StateAssetFamily ==
  Family(StateAssetProbe, StateAssetRecover, Prepared, State9, StateSums)
<1>. DEFINE U == StateSums
            agree == <<Agree("shell", {"header", "code"})>>
            opens == <<Checkpoint, Agree("shell", {"header", "code"}),
                       Open("primary", {"shell"}, {"header", "code"})>>
<1>1. Runs(Raw, StateAssetProbe, Prepared, Names)
  <2>1. Runs(Raw, Else("absent", KonnTable), Raw, Names)
    BY ProbePieces, Otherwise DEF Misses
  <2>. QED
    BY <2>1, ProbePieces, Four DEF StateAssetProbe, StateHeader
<1>2. /\ Prepared \in SUBSET Names /\ "primary" \in Names \ Prepared /\ "shell" \in Prepared
      /\ {"shell"} \in SUBSET Prepared /\ {"header", "code"} \in SUBSET Prepared
      /\ {"header", "code"} \subseteq U
  BY DEF Prepared, Raw, Names, StateSums
<1>3. Runs(Prepared, opens, State1, U)
  <2>1. Runs(Prepared, <<Checkpoint>>, Prepared, U) /\ Runs(Prepared, agree, Prepared, U)
    BY <1>2, LookingSteps
  <2>2. Runs(Prepared, <<Open("primary", {"shell"}, {"header", "code"})>>, State1, U)
    BY <1>2, OpeningSteps DEF State1
  <2>. QED
    BY <2>1, <2>2, Triple
<1>. HIDE DEF opens, agree
<1>4. /\ State1 \in SUBSET Names /\ "primary" \in State1 /\ "state" \in Names \ State1
      /\ {"primary"} \in SUBSET State1 /\ {} \in SUBSET State1 /\ {} \subseteq U
  BY DEF State1, Prepared, Raw, Names
<1>5. Runs(State1, DecodedPrimary, State1, U) /\ Runs(State1, SelectorList, State1, U)
  BY <1>4, LookingSteps DEF DecodedPrimary, SelectorList
<1>6. Runs(State1, <<Open("state", {"primary"}, {})>>, State2, U)
  BY <1>4, OpeningSteps DEF State2
<1>7. /\ State2 \in SUBSET Names /\ "state" \in State2 /\ {"services", "copies"} \subseteq Names \ State2
      /\ {"payloads", "decoders", "contexts", "prefix", "metadata"} \subseteq Names \ State2
      /\ "table" \in State2
  BY DEF State2, State1, Prepared, Raw, Names
<1>8. Runs(State2, StateRows, State2, U)
  BY <1>7, LookingSteps DEF StateRows
<1>9. Runs(State2, BServices, State3, U)
  <2>. DEFINE S == State2 \cup {"services"}
  <2>1. /\ "services" \in Names \ State2 /\ {"state"} \in SUBSET State2 /\ {} \in SUBSET State2
        /\ {} \subseteq U
        /\ S \in SUBSET Names /\ "copies" \in Names \ S /\ {"state"} \in SUBSET S /\ {} \in SUBSET S
        /\ S \cup {"copies"} = State3
    BY <1>7 DEF State3
  <2>2. Runs(State2, <<Unmask("services", {"state"})>>, S, U)
    BY <1>7, <2>1, OpeningSteps
  <2>. HIDE DEF S
  <2>3. Runs(S, <<Unmask("copies", {"state"})>>, State3, U)
    BY <2>1, OpeningSteps
  <2>. QED
    BY <2>2, <2>3, Pair DEF BServices
<1>10. /\ State3 \in SUBSET Names /\ {"services"} \in SUBSET State3 /\ {} \in SUBSET State3
       /\ {} \subseteq U /\ "prefix" \in Names \ State3 /\ "payloads" \in Names \ State3
  BY <1>7 DEF State3
<1>11. Runs(State3, B890Metadata, State3, U)
  BY <1>10, OpeningSteps DEF B890Metadata
<1>12. Runs(State3, RootedPayloadRecords, State4, U)
  BY <1>10, OpeningSteps DEF RootedPayloadRecords, State4
<1>13. Runs(State4, Assets("state"), State5, U)
  <2>1. /\ State4 \in SUBSET Names /\ "state" \in State4 /\ "copies" \in State4
        /\ "decoders" \notin State4 /\ "contexts" \notin State4
    BY <1>7, <1>10 DEF State4, State3
  <2>. QED
    BY <2>1, CodecPieces DEF State5
<1>. DEFINE first == <<Open("state", {"primary"}, {})>> \o StateRows \o BServices \o B890Metadata
                     \o RootedPayloadRecords
<1>14. Runs(State1, first, State4, U)
  BY <1>6, <1>8, <1>9, <1>11, <1>12, Five
<1>15. StateService = first \o Assets("state") \o StateStages
  BY DEF StateService
<1>. HIDE DEF first
<1>16. Runs(State1, StateService, State9, U)
  BY <1>13, <1>14, <1>15, StateStagesRun, Three
<1>17. State9 \in SUBSET Names /\ "table" \in State9 /\ "metadata" \notin State9 /\ Plan \subseteq State9
  <2>1. {"stage4", "stage5", "stage7", "stage12"} \subseteq Names
    BY DEF Names
  <2>. QED
    BY <1>7, <1>10, <2>1 DEF State9, State8, State7, State6, State5, State4, State3, Plan
<1>18. Runs(State9, Metadata, State9, U)
  BY <1>17, SharedPieces
<1>19. StateAssetRecover = opens \o DecodedPrimary \o SelectorList \o StateService \o Metadata
  BY DEF StateAssetRecover, opens
<1>20. Runs(Prepared, StateAssetRecover, State9, U)
  BY <1>3, <1>5, <1>16, <1>18, <1>19, Five
<1>21. ASSUME AllSettled(StateAssetRecover)
       PROVE  Vouched(U)
  <2>1. AllSettled(opens) /\ AllSettled(StateService)
    BY <1>3, <1>5, <1>16, <1>18, <1>19, <1>21, SettledFive
  <2>2. AllSettled(StateStages)
    BY <1>13, <1>14, <1>15, <2>1, StateStagesRun, SettledThree
  <2>3. Genuine({"shell"}, {"header", "code"})
    <3>1. 2 \in 1 .. Len(opens) /\ opens[2] = Agree("shell", {"header", "code"})
      BY DEF opens
    <3>2. Settled(Agree("shell", {"header", "code"}))
      BY <2>1, <3>1 DEF AllSettled
    <3>. QED
      BY <3>2 DEF Settled, Agree, Step
  <2>. QED
    BY <2>2, <2>3, StateStagesRun DEF Vouched, Genuine, StateSums
<1>. QED
  BY <1>1, <1>17, <1>20, <1>21, NativeRegions DEF Family

-----------------------------------------------------------------------------
\* Every family's program runs, and a settled one is vouched for.
LEMMA Families ==
  ASSUME NEW c \in Controllers
  PROVE  /\ \E B, C, U : Family(Probe[c], Recover[c], B, C, U)
         /\ c = TerminalProfileDispatch /\ AllSettled(Recover[c]) => ZerosAreDisjoint
<1>1. /\ c \in 1 .. 9
      /\ Probe[1] = ShellDirectoryProbe /\ Recover[1] = ShellDirectoryRecover
      /\ Probe[2] = CodecRelocationProbe /\ Recover[2] = CodecRelocationRecover
      /\ Probe[3] = CodecControlPayloadProbe /\ Recover[3] = CodecControlPayloadRecover
      /\ Probe[4] = StateAssetProbe /\ Recover[4] = StateAssetRecover
      /\ Probe[5] = CodecOperationProbe /\ Recover[5] = CodecOperationRecover
      /\ Probe[6] = ImageBaseMetadataProbe /\ Recover[6] = ImageBaseMetadataRecover
      /\ Probe[7] = CodecControlMetadataProbe /\ Recover[7] = CodecControlMetadataRecover
      /\ Probe[8] = PayloadChecksumProbe /\ Recover[8] = PayloadChecksumRecover
      /\ Probe[9] = TerminalProfileProbe /\ Recover[9] = TerminalProfileRecover
  BY DEF Controllers, Probe, Recover
<1>2. c \in {1, 2, 3, 4, 5, 6, 7, 8, 9}
  BY <1>1
<1>3. CASE c = 1
  BY <1>1, <1>3, ShellDirectoryFamily DEF TerminalProfileDispatch
<1>4. CASE c = 2
  BY <1>1, <1>4, CodecRelocationFamily DEF TerminalProfileDispatch
<1>5. CASE c = 3
  BY <1>1, <1>5, CodecControlPayloadFamily DEF TerminalProfileDispatch
<1>6. CASE c = 4
  BY <1>1, <1>6, StateAssetFamily DEF TerminalProfileDispatch
<1>7. CASE c = 5
  BY <1>1, <1>7, CodecOperationFamily DEF TerminalProfileDispatch
<1>8. CASE c = 6
  BY <1>1, <1>8, ImageBaseMetadataFamily DEF TerminalProfileDispatch
<1>9. CASE c = 7
  BY <1>1, <1>9, CodecControlMetadataFamily DEF TerminalProfileDispatch
<1>10. CASE c = 8
  BY <1>1, <1>10, PayloadChecksumFamily DEF TerminalProfileDispatch
<1>11. CASE c = 9
  BY <1>1, <1>11, TerminalProfileFamily
<1>. QED
  BY <1>2, <1>3, <1>4, <1>5, <1>6, <1>7, <1>8, <1>9, <1>10, <1>11
-----------------------------------------------------------------------------
(***************************************************************************)
(* The inductive invariant.                                                 *)
(***************************************************************************)
\* The regions plain before step i of the probe and of the recovery of controller c,
\* in an intact image.
ProbePlain(c, i) == PlainAt(Raw, Probe[c], i)
RecoverPlain(c, i) == PlainAt(ProbePlain(c, Len(Probe[c]) + 1), Recover[c], i)

\* Where each phase stands in its program.
PlaceInv ==
  /\ job \in Jobs
  /\ phase = "enter" => pc = 1
  /\ phase = "probe" => pc \in 1 .. (Len(Probe[job.controller]) + 1)
  /\ phase = "recover" => pc \in 1 .. (Len(Recover[job.controller]) + 1)
  /\ HasPlan => pc = Len(Recover[job.controller]) + 1
  /\ phase # "done" <=> answer = "pending"

\* Every step passed is settled and stays so, and a foreign shell never opens.
SettledInv ==
  /\ job.foreign /\ "shell" \in DOMAIN region => region["shell"] # "plain"
  /\ phase = "recover" \/ HasPlan =>
        \A i \in 1 .. (pc - 1) : Settled(Recover[job.controller][i])

Intact == job.altered = {} /\ ~job.foreign /\ ListsAreSound
Form(plain) == [r \in Regions[job.controller] |-> IF r \in plain THEN "plain" ELSE "sealed"]

\* An intact image is opened region by region, and only the token ends a program.
IntactInv ==
  Intact =>
    /\ phase \in {"enter", "probe"} => region = Form(ProbePlain(job.controller, pc))
    /\ phase = "probed" =>
          \/ token
          \/ /\ inner = "found"
             /\ region = Form(ProbePlain(job.controller, Len(Probe[job.controller]) + 1))
    /\ phase \in {"recover", "replay", "finalize"} =>
          region = Form(RecoverPlain(job.controller, pc))
    /\ phase = "done" => answer \in {"Recovered", "Cancelled"}

\* Who knows of the token.
StopInv ==
  /\ swallowed => token
  /\ swallowed => phase \in {"probed", "done"}
  /\ phase = "done" /\ swallowed => answer = "Cancelled"
  /\ answer = "Cancelled" \/ inner = "cancelled" => token

\* What the image holds in each phase.
CellsInv ==
  /\ phase \in {"enter", "probe", "probed", "recover"} => cells = MappedImage
  /\ phase = "replay" => cells = BaseImage
  /\ phase = "finalize" => cells = Filled(BaseImage, Destinations, "payload")
  /\ FinalImageIsAccountedFor

IInv == TypeOK /\ PlaceInv /\ SettledInv /\ IntactInv /\ StopInv /\ CellsInv

\* The programs of a controller, whichever it is.
LEMMA Programs ==
  ASSUME NEW c \in Controllers
  PROVE  /\ Probe[c] \in Seq(StepType) /\ Recover[c] \in Seq(StepType)
         /\ \A i \in 1 .. Len(Probe[c]) : Fits(ProbePlain(c, i), Probe[c][i])
         /\ \A i \in 1 .. Len(Recover[c]) : Fits(RecoverPlain(c, i), Recover[c][i])
         /\ "shell" \in ProbePlain(c, Len(Probe[c]) + 1)
         /\ Plan \subseteq RecoverPlain(c, Len(Recover[c]) + 1)
<1>1. PICK B, C, U : Family(Probe[c], Recover[c], B, C, U)
  BY Families
<1>2. Runs(Raw, Probe[c], B, Names) /\ Runs(B, Recover[c], C, U) /\ "shell" \in B /\ Plan \subseteq C
  BY <1>1 DEF Family
<1>3. ProbePlain(c, Len(Probe[c]) + 1) = B
  BY <1>2 DEF Runs, ProbePlain
<1>4. \A i : RecoverPlain(c, i) = PlainAt(B, Recover[c], i)
  BY <1>3 DEF RecoverPlain
<1>. QED
  BY <1>2, <1>3, <1>4 DEF Runs, ProbePlain

\* The program at work, and the step it has come to.
LEMMA AtWork ==
  ASSUME PlaceInv, phase \in {"probe", "recover"}, pc \in DOMAIN Program
  PROVE  /\ job.controller \in Controllers
         /\ step \in StepType /\ step.at \in Regions[job.controller]
         /\ step.words \subseteq Regions[job.controller] /\ step.sums \subseteq Regions[job.controller]
         /\ phase = "probe" =>
               /\ pc \in 1 .. Len(Probe[job.controller]) /\ step = Probe[job.controller][pc]
               /\ pc + 1 \in 1 .. (Len(Probe[job.controller]) + 1)
         /\ phase = "recover" =>
               /\ pc \in 1 .. Len(Recover[job.controller]) /\ step = Recover[job.controller][pc]
               /\ pc + 1 \in 1 .. (Len(Recover[job.controller]) + 1)
<1>. DEFINE c == job.controller
<1>1. c \in Controllers
  BY JobsAreTyped DEF PlaceInv
<1>2. /\ Probe[c] \in Seq(StepType) /\ DOMAIN Probe[c] = 1 .. Len(Probe[c]) /\ Len(Probe[c]) \in Nat
      /\ Recover[c] \in Seq(StepType) /\ DOMAIN Recover[c] = 1 .. Len(Recover[c])
      /\ Len(Recover[c]) \in Nat
  BY <1>1, Programs
<1>3. Program = Probe[c] \/ Program = Recover[c]
  BY DEF Program
<1>4. step \in StepType /\ step \in Steps(Probe[c]) \union Steps(Recover[c])
  BY <1>2, <1>3 DEF step, Steps
<1>5. Regions[c] = UNION {{s.at} \union s.words \union s.sums : s \in Steps(Probe[c]) \union Steps(Recover[c])}
  BY <1>1 DEF Regions
<1>6. {step.at} \union step.words \union step.sums \subseteq Regions[c]
  BY <1>4, <1>5
<1>7. \A n \in Nat : \A i \in 1 .. n : i + 1 \in 1 .. (n + 1)
  OBVIOUS
<1>8. CASE phase = "probe"
  BY <1>1, <1>2, <1>4, <1>6, <1>7, <1>8 DEF Program, step
<1>9. CASE phase = "recover"
  BY <1>1, <1>2, <1>4, <1>6, <1>7, <1>9 DEF Program, step
<1>. QED
  BY <1>8, <1>9

-----------------------------------------------------------------------------
\* What a decryption leaves is plain only with the right key.
LEMMA PlainByRightKey ==
  ASSUME NEW s, NEW luck \in BOOLEAN, Decrypted(s, luck) = "plain"
  PROVE  Genuine(s.words, s.sums) /\ ~(job.foreign /\ s.at = "shell")
BY DEF Decrypted, KeyIsRight, WordsAreRight, SumsAreRight, Genuine

-----------------------------------------------------------------------------
(***************************************************************************)
(* The images.  The arms of the two CASEs exclude each other.               *)
(***************************************************************************)
Kinds ==
  /\ ShellDirectoryManifest \notin {CodecRelocation, StateAssetSelection, TerminalProfileDispatch}
  /\ CodecRelocation \notin {StateAssetSelection, TerminalProfileDispatch}
  /\ StateAssetSelection # TerminalProfileDispatch

LEMMA KindsDiffer == Kinds
BY DEF Kinds, ShellDirectoryManifest, CodecRelocation, StateAssetSelection, TerminalProfileDispatch

LEMMA BaseImages ==
  /\ job.controller = ShellDirectoryManifest => BaseImage = Filled(WorkingImage, Zeros, "zero")
  /\ job.controller \in {CodecRelocation, StateAssetSelection} =>
        BaseImage = Prefilled(WorkingImage)
  /\ job.controller \notin {ShellDirectoryManifest, CodecRelocation, StateAssetSelection} =>
        BaseImage = MappedImage
<1>1. CASE job.controller = ShellDirectoryManifest
  BY <1>1, KindsDiffer, Zenon DEF Kinds, BaseImage
<1>2. CASE job.controller \in {CodecRelocation, StateAssetSelection}
  BY <1>2, KindsDiffer, Zenon DEF Kinds, BaseImage
<1>3. CASE job.controller \notin {ShellDirectoryManifest, CodecRelocation, StateAssetSelection}
  BY <1>3, Zenon DEF BaseImage
<1>. QED
  BY <1>1, <1>2, <1>3

LEMMA FinalImages ==
  /\ job.controller = ShellDirectoryManifest =>
        FinalImage = WithRestoredTls(WithRestoredHeader(cells))
  /\ job.controller = CodecRelocation =>
        FinalImage = IF job.managed THEN TornDown(cells) ELSE WithPristineOuter(cells)
  /\ job.controller = StateAssetSelection => FinalImage = TornDown(cells)
  /\ job.controller = TerminalProfileDispatch =>
        FinalImage = IF job.nested THEN cells ELSE TornDown(cells)
  /\ job.controller \notin {ShellDirectoryManifest, CodecRelocation, StateAssetSelection,
                           TerminalProfileDispatch} => FinalImage = cells
<1>1. CASE job.controller = ShellDirectoryManifest
  BY <1>1, KindsDiffer, Zenon DEF Kinds, FinalImage
<1>2. CASE job.controller = CodecRelocation
  BY <1>2, KindsDiffer, Zenon DEF Kinds, FinalImage
<1>3. CASE job.controller = StateAssetSelection
  BY <1>3, KindsDiffer, Zenon DEF Kinds, FinalImage
<1>4. CASE job.controller = TerminalProfileDispatch
  BY <1>4, KindsDiffer, Zenon DEF Kinds, FinalImage
<1>5. CASE job.controller \notin {ShellDirectoryManifest, CodecRelocation, StateAssetSelection,
                                 TerminalProfileDispatch}
  BY <1>5, Zenon DEF FinalImage
<1>. QED
  BY <1>1, <1>2, <1>3, <1>4, <1>5

LEMMA ImagesAreTyped ==
  /\ \A image \in [Cells -> Contents], content \in Contents : \A places :
        Filled(image, places, content) \in [Cells -> Contents]
  /\ MappedImage \in [Cells -> Contents] /\ BaseImage \in [Cells -> Contents]
  /\ cells \in [Cells -> Contents] => FinalImage \in [Cells -> Contents]
<1>1. ASSUME NEW image \in [Cells -> Contents], NEW places, NEW content \in Contents
      PROVE  Filled(image, places, content) \in [Cells -> Contents]
  BY DEF Filled
<1>2. {"zero", "file", "payload", "outer", "restored"} \subseteq Contents
  BY DEF Contents
<1>3. MappedImage \in [Cells -> Contents] /\ WorkingImage \in [Cells -> Contents]
  BY DEF MappedImage, WorkingImage, Contents
<1>4. Prefilled(WorkingImage) \in [Cells -> Contents]
  BY <1>1, <1>2, <1>3 DEF Prefilled
<1>5. BaseImage \in [Cells -> Contents]
  BY <1>1, <1>2, <1>3, <1>4, BaseImages
<1>6. ASSUME cells \in [Cells -> Contents]
      PROVE  FinalImage \in [Cells -> Contents]
  <2>1. \A image \in [Cells -> Contents] : WithRestoredHeader(image) \in [Cells -> Contents]
    BY <1>1, <1>2 DEF WithRestoredHeader
  <2>4. \A image \in [Cells -> Contents] : WithRestoredTls(image) \in [Cells -> Contents]
    BY <1>1, <1>2 DEF WithRestoredTls
  <2>2. TornDown(cells) \in [Cells -> Contents]
    BY <1>1, <1>2, <1>6, <2>1 DEF TornDown
  <2>3. WithPristineOuter(cells) \in [Cells -> Contents]
    BY <1>1, <1>2, <1>6 DEF WithPristineOuter
  <2>. QED
    BY <1>6, <2>1, <2>2, <2>3, <2>4, FinalImages
<1>. QED
  BY <1>1, <1>3, <1>5, <1>6

-----------------------------------------------------------------------------
(***************************************************************************)
(* Types and places.                                                        *)
(***************************************************************************)
LEMMA MissesAreTyped ==
  ASSUME NEW s \in StepType, NEW stopped \in BOOLEAN
  PROVE  /\ MissOf(s, stopped) \in {"none", "cancelled", "error"}
         /\ MissOf(s, stopped) = "cancelled" => token \/ stopped
         /\ stopped /\ token => MissOf(s, stopped) \in {"none", "cancelled"}
<1>1. s.miss \in {"error", "absent", "settled", "raised"}
  BY DEF StepType, Misses
<1>2. CASE s.miss = "absent"
  BY <1>2, Zenon DEF MissOf
<1>3. CASE s.miss = "settled"
  BY <1>3, Zenon DEF MissOf
<1>4. CASE s.miss = "raised"
  BY <1>4, Zenon DEF MissOf
<1>5. CASE s.miss = "error"
  BY <1>5, Zenon DEF MissOf
<1>. QED
  BY <1>1, <1>2, <1>3, <1>4, <1>5

LEMMA OutcomesAreTyped ==
  ASSUME inner \in {"none", "cancelled", "error", "found"}
  PROVE  /\ ProbeOutcome \in {"NotApplicable", "Cancelled", "Rejected", "Applicable"}
         /\ token => ProbeOutcome = "Cancelled"
         /\ ~token /\ inner = "found" => ProbeOutcome = "Applicable"
         /\ ProbeOutcome = "Applicable" => inner = "found"
         /\ ProbeOutcome = "Cancelled" => token \/ inner = "cancelled"
<1>1. CASE token
  BY <1>1 DEF ProbeOutcome
<1>2. CASE ~token /\ inner = "none"
  <2>1. ProbeOutcome = "NotApplicable"
    BY <1>2, Zenon DEF ProbeOutcome
  <2>. QED
    BY <1>2, <2>1
<1>3. CASE ~token /\ inner = "cancelled"
  <2>1. ProbeOutcome = "Cancelled"
    BY <1>3, Zenon DEF ProbeOutcome
  <2>. QED
    BY <1>3, <2>1
<1>4. CASE ~token /\ inner = "error"
  <2>1. ProbeOutcome = "Rejected"
    BY <1>4, Zenon DEF ProbeOutcome
  <2>. QED
    BY <1>4, <2>1
<1>5. CASE ~token /\ inner = "found"
  <2>1. ProbeOutcome = "Applicable"
    BY <1>5, Zenon DEF ProbeOutcome
  <2>. QED
    BY <1>5, <2>1
<1>. QED
  BY <1>1, <1>2, <1>3, <1>4, <1>5

LEMMA InitType ==
  ASSUME Init
  PROVE  TypeOK /\ PlaceInv
<1>1. job.controller \in Controllers /\ job.altered \subseteq Regions[job.controller]
  BY JobsAreTyped DEF Init
<1>2. Len(Probe[job.controller]) \in Nat /\ Len(Recover[job.controller]) \in Nat
  BY <1>1, Programs
<1>3. \A m \in Nat, n \in Nat : 1 \in 1 .. m + n + 1
  OBVIOUS
<1>4. region \in [Regions[job.controller] -> {"sealed", "plain", "noise"}]
  BY DEF Init
<1>5. TypeOK
  BY <1>1, <1>2, <1>3, <1>4, ImagesAreTyped DEF Init, TypeOK
<1>. QED
  BY <1>5 DEF Init, PlaceInv, HasPlan

\* A step of a program changes one region, to a form the region may have.
LEMMA StepIsTyped ==
  ASSUME TypeOK, PlaceInv, NEW luck \in BOOLEAN, NEW refused \in BOOLEAN,
         phase \in {"probe", "recover"}, TakeStep(luck, refused)
  PROVE  TypeOK' /\ PlaceInv'
<1>. DEFINE c == job.controller
<1>1. c \in Controllers /\ pc \in DOMAIN Program
  BY AtWork DEF TakeStep
<1>2. Len(Probe[c]) \in Nat /\ Len(Recover[c]) \in Nat
  BY <1>1, Programs
<1>3. /\ step.at \in Regions[c]
      /\ phase = "probe" => pc + 1 \in 1 .. (Len(Probe[c]) + 1)
      /\ phase = "recover" => pc + 1 \in 1 .. (Len(Recover[c]) + 1)
  BY <1>1, AtWork
<1>4. pc' = pc + 1 /\ pc + 1 \in 1 .. Len(Probe[c]) + Len(Recover[c]) + 1
  <2>1. \A m \in Nat, n \in Nat :
           /\ \A k \in 1 .. (m + 1) : k \in 1 .. m + n + 1
           /\ \A k \in 1 .. (n + 1) : k \in 1 .. m + n + 1
    OBVIOUS
  <2>2. pc' = pc + 1
    BY DEF TakeStep
  <2>. QED
    BY <1>2, <1>3, <2>1, <2>2
<1>5. region' \in [Regions[c] -> {"sealed", "plain", "noise"}]
  BY <1>3 DEF TakeStep, After, Decrypted, TypeOK
<1>6. /\ job' = job /\ phase' = phase /\ answer' = answer
      /\ UNCHANGED <<token, inner, cells, swallowed>>
  BY DEF TakeStep
<1>7. TypeOK'
  BY <1>4, <1>5, <1>6 DEF TypeOK
<1>8. ~HasPlan /\ ~HasPlan'
  BY <1>6 DEF PlaceInv, HasPlan
<1>. QED
  BY <1>3, <1>4, <1>6, <1>7, <1>8 DEF PlaceInv

LEMMA FailureIsTyped ==
  ASSUME TypeOK, PlaceInv, NEW luck \in BOOLEAN, NEW refused \in BOOLEAN,
         phase \in {"probe", "recover"}, FailStep(luck, refused)
  PROVE  TypeOK' /\ PlaceInv'
<1>1. step \in StepType /\ Stopped(step) \in BOOLEAN
  <2>1. pc \in DOMAIN Program
    BY DEF FailStep
  <2>. QED
    BY <2>1, AtWork DEF Stopped, TypeOK
<1>2. MissOf(step, Stopped(step)) \in {"none", "cancelled", "error"}
  BY <1>1, MissesAreTyped
<1>3. TypeOK'
  <2>1. UNCHANGED <<job, pc, region, token, cells>> /\ swallowed' \in BOOLEAN
    BY <1>1 DEF FailStep, TypeOK
  <2>2. phase' \in {"probed", "done"} /\ inner' \in {"none", "cancelled", "error", "found"}
        /\ answer' \in {"pending", "NotApplicable", "Cancelled", "Rejected", "Recovered",
                        "FinalizationFailed"}
    BY <1>2 DEF FailStep, TypeOK
  <2>. QED
    BY <2>1, <2>2 DEF TypeOK
<1>4. CASE phase = "probe"
  BY <1>3, <1>4 DEF FailStep, PlaceInv, HasPlan
<1>5. CASE phase = "recover"
  BY <1>3, <1>5 DEF FailStep, PlaceInv, HasPlan
<1>. QED
  BY <1>4, <1>5

LEMMA TypeStep ==
  ASSUME TypeOK, PlaceInv, [Next]_vars
  PROVE  TypeOK' /\ PlaceInv'
<1>. DEFINE c == job.controller
<1>1. /\ c \in Controllers /\ Len(Probe[c]) \in Nat /\ Len(Recover[c]) \in Nat
      /\ DOMAIN Probe[c] = 1 .. Len(Probe[c]) /\ DOMAIN Recover[c] = 1 .. Len(Recover[c])
  <2>1. c \in Controllers
    BY JobsAreTyped DEF PlaceInv
  <2>. QED
    BY <2>1, Programs
<1>2. CASE EnterProbe
  <2>1. TypeOK'
    BY <1>2 DEF EnterProbe, TypeOK
  <2>2. 1 \in 1 .. (Len(Probe[c]) + 1)
    BY <1>1
  <2>. QED
    BY <1>2, <2>1, <2>2 DEF EnterProbe, PlaceInv, HasPlan
<1>3. CASE RunProgram
  <2>1. PICK luck \in BOOLEAN, refused \in BOOLEAN : TakeStep(luck, refused) \/ FailStep(luck, refused)
    BY <1>3 DEF RunProgram, Chances
  <2>2. phase \in {"probe", "recover"}
    BY <1>3 DEF RunProgram
  <2>. QED
    BY <2>1, <2>2, StepIsTyped, FailureIsTyped
<1>4. CASE EndProbe
  BY <1>4 DEF EndProbe, TypeOK, PlaceInv, HasPlan
<1>5. CASE JudgeProbe
  <2>1. ProbeOutcome \in {"NotApplicable", "Cancelled", "Rejected", "Applicable"}
    BY OutcomesAreTyped DEF TypeOK
  <2>2. 1 \in 1 .. (Len(Recover[c]) + 1) /\ 1 \in 1 .. Len(Probe[c]) + Len(Recover[c]) + 1
    <3>1. \A m \in Nat, n \in Nat : 1 \in 1 .. (n + 1) /\ 1 \in 1 .. m + n + 1
      OBVIOUS
    <3>. QED
      BY <1>1, <3>1
  <2>3. TypeOK'
    BY <1>5, <2>1, <2>2 DEF JudgeProbe, TypeOK
  <2>. QED
    BY <1>5, <2>1, <2>2, <2>3 DEF JudgeProbe, PlaceInv, HasPlan
<1>6. CASE EndRecover
  <2>1. TypeOK'
    BY <1>6, ImagesAreTyped DEF EndRecover, TypeOK
  <2>2. pc = Len(Recover[c]) + 1
    <3>1. pc \notin 1 .. Len(Recover[c]) /\ pc \in 1 .. (Len(Recover[c]) + 1)
      BY <1>1, <1>6 DEF EndRecover, Program, PlaceInv
    <3>. QED
      BY <1>1, <3>1
  <2>. QED
    BY <1>6, <2>1, <2>2 DEF EndRecover, PlaceInv, HasPlan
<1>7. ASSUME NEW luck \in Chances, Replay(luck)
      PROVE  TypeOK' /\ PlaceInv'
  <2>1. Filled(cells, Destinations, "payload") \in [Cells -> Contents]
    <3>1. cells \in [Cells -> Contents] /\ "payload" \in Contents
      BY DEF TypeOK, Contents
    <3>. QED
      BY <3>1, ImagesAreTyped
  <2>2. TypeOK'
    BY <1>7, <2>1 DEF Replay, TypeOK
  <2>. QED
    BY <1>7, <2>2 DEF Replay, PlaceInv, HasPlan
<1>8. CASE Finalize
  <2>1. TypeOK'
    BY <1>8, ImagesAreTyped DEF Finalize, TypeOK
  <2>. QED
    BY <1>8, <2>1 DEF Finalize, PlaceInv, HasPlan
<1>9. CASE Cancel
  BY <1>9 DEF Cancel, TypeOK, PlaceInv, HasPlan
<1>10. CASE UNCHANGED vars
  <2>1. TypeOK'
    BY <1>10 DEF vars, TypeOK
  <2>2. PlaceInv'
    BY <1>10 DEF vars, PlaceInv, HasPlan
  <2>. QED
    BY <2>1, <2>2
<1>. QED
  BY <1>2, <1>3, <1>4, <1>5, <1>6, <1>7, <1>8, <1>9, <1>10 DEF Next, Rest

\* Every variable of ControllerReplay has its type, whatever the image.
THEOREM TypeCorrect == Spec => []TypeOK
<1>1. Init => TypeOK /\ PlaceInv
  BY InitType
<1>2. TypeOK /\ PlaceInv /\ [Next]_vars => (TypeOK /\ PlaceInv)'
  BY TypeStep
<1>. QED
  BY <1>1, <1>2, PTL DEF Spec

-----------------------------------------------------------------------------
(***************************************************************************)
(* What a step demands and what it changes.                                 *)
(***************************************************************************)
LEMMA PlainGrows ==
  ASSUME NEW A \in SUBSET Names, NEW p \in Seq(StepType), NEW i \in 1 .. (Len(p) + 1)
  PROVE  /\ PlainAt(A, p, 1) = A
         /\ \A k \in 1 .. (i - 1) :
               /\ PlainAt(A, p, k) \subseteq PlainAt(A, p, i)
               /\ p[k].do \in Opening => p[k].at \in PlainAt(A, p, i)
<1>1. Len(p) \in Nat /\ \A k \in 1 .. Len(p) : p[k].at \in Names
  <2>1. Len(p) \in Nat /\ \A k \in 1 .. Len(p) : p[k] \in StepType
    OBVIOUS
  <2>. QED
    BY <2>1 DEF StepType
<1>2. PlainAt(A, p, 1) = A
  <2>1. 1 .. (1 - 1) = {}
    OBVIOUS
  <2>. QED
    BY <2>1 DEF PlainAt
<1>3. \A n \in Nat : \A j \in 1 .. (n + 1) : \A k \in 1 .. (j - 1) :
         k \in 1 .. n /\ \A l \in 1 .. (k - 1) : l \in 1 .. (j - 1)
  OBVIOUS
<1>4. ASSUME NEW k \in 1 .. (i - 1)
      PROVE  /\ PlainAt(A, p, k) \subseteq PlainAt(A, p, i)
             /\ p[k].do \in Opening => p[k].at \in PlainAt(A, p, i)
  BY <1>1, <1>3 DEF PlainAt
<1>. QED
  BY <1>2, <1>4

LEMMA PlainOneOn ==
  ASSUME NEW A \in SUBSET Names, NEW p \in Seq(StepType), NEW i \in 1 .. Len(p)
  PROVE  PlainAt(A, p, i + 1) =
           IF p[i].do \in Opening THEN PlainAt(A, p, i) \cup {p[i].at} ELSE PlainAt(A, p, i)
<1>1. Len(p) \in Nat /\ p[i].at \in Names
  <2>1. Len(p) \in Nat /\ p[i] \in StepType
    OBVIOUS
  <2>. QED
    BY <2>1 DEF StepType
<1>2. \A n \in Nat : \A j \in 1 .. n :
         /\ \A k \in 1 .. ((j + 1) - 1) : k \in 1 .. (j - 1) \/ k = j
         /\ \A k \in 1 .. (j - 1) : k \in 1 .. ((j + 1) - 1)
         /\ j \in 1 .. ((j + 1) - 1)
  OBVIOUS
<1>3. ASSUME NEW r \in Names
      PROVE  r \in PlainAt(A, p, i + 1) <=>
               r \in PlainAt(A, p, i) \/ (p[i].do \in Opening /\ p[i].at = r)
  BY <1>1, <1>2 DEF PlainAt
<1>4. PlainAt(A, p, i + 1) \subseteq Names /\ PlainAt(A, p, i) \subseteq Names
  BY DEF PlainAt
<1>. QED
  BY <1>1, <1>3, <1>4

LEMMA PlainIsOpened ==
  ASSUME NEW A \in SUBSET Names, NEW p \in Seq(StepType), NEW i \in 1 .. (Len(p) + 1),
         NEW r \in PlainAt(A, p, i)
  PROVE  r \in A \/ \E k \in 1 .. Len(p) : p[k].at = r
<1>1. Len(p) \in Nat
  OBVIOUS
<1>2. \A n \in Nat : \A j \in 1 .. (n + 1) : \A k \in 1 .. (j - 1) : k \in 1 .. n
  OBVIOUS
<1>. QED
  BY <1>1, <1>2 DEF PlainAt

\* What is passed, whatever the luck.
LEMMA PassedIsSettled ==
  ASSUME NEW s \in StepType, NEW luck \in BOOLEAN, NEW refused \in BOOLEAN, Passes(s, luck, refused)
  PROVE  /\ s.do = "verify" => region[s.at] = "plain"
         /\ s.do = "agree" => Genuine(s.words, s.sums)
         /\ s.do = "disjoint" => ZerosAreDisjoint
<1>1. ASSUME s.do = "verify" PROVE region[s.at] = "plain"
  <2>1. Shows(region[s.at], s, luck)
    BY <1>1, Zenon DEF Passes
  <2>. QED
    BY <2>1 DEF Shows
<1>2. ASSUME s.do = "agree" PROVE Genuine(s.words, s.sums)
  <2>1. KeyIsRight(s, luck)
    BY <1>2, Zenon DEF Passes
  <2>. QED
    BY <2>1 DEF KeyIsRight, WordsAreRight, SumsAreRight, Genuine
<1>3. ASSUME s.do = "disjoint" PROVE ZerosAreDisjoint
  BY <1>3, Zenon DEF Passes
<1>. QED
  BY <1>1, <1>2, <1>3

LEMMA StepChanges ==
  ASSUME TypeOK, PlaceInv, NEW luck \in BOOLEAN, NEW refused \in BOOLEAN,
         phase \in {"probe", "recover"}, TakeStep(luck, refused)
  PROVE  /\ step.do \in Opening =>
               region'[step.at] = Decrypted(step, luck)
         /\ \A r \in Regions[job.controller] :
               step.do \notin Opening \/ r # step.at => region'[r] = region[r]
         /\ DOMAIN region' = DOMAIN region /\ job' = job /\ pc' = pc + 1
<1>1. step.at \in Regions[job.controller] /\ DOMAIN region = Regions[job.controller]
  BY AtWork DEF TakeStep, TypeOK
<1>2. region' = IF step.do \in Opening THEN [region EXCEPT ![step.at] = Decrypted(step, luck)] ELSE region
  BY DEF TakeStep, After, Opening
<1>3. job' = job /\ pc' = pc + 1
  BY DEF TakeStep
<1>. QED
  BY <1>1, <1>2, <1>3

-----------------------------------------------------------------------------
(***************************************************************************)
(* Settled steps stay settled: the regions they rest on are plain before the *)
(* next region is opened, and that one is not.                              *)
(***************************************************************************)
LEMMA RestsOnPlain ==
  ASSUME NEW plain, NEW s, Fits(plain, s)
  PROVE  /\ s.do \in Opening \/ s.do = "agree" => s.words \subseteq plain /\ s.sums \subseteq plain
         /\ s.do = "verify" => s.at \in plain
BY DEF Fits

LEMMA SettledStays ==
  ASSUME NEW s, Settled(s), job' = job,
         s.do \in Opening => region'[s.at] = region[s.at],
         s.do \in Opening \/ s.do = "agree" => \A r \in s.words \cup s.sums : region'[r] = region[r],
         s.do = "verify" => region'[s.at] = region[s.at]
  PROVE  Settled(s)'
<1>1. ZerosAreDisjoint => ZerosAreDisjoint'
  BY DEF ZerosAreDisjoint
<1>2. ASSUME s.do \in Opening \/ s.do = "agree", Genuine(s.words, s.sums)
      PROVE  Genuine(s.words, s.sums)'
  BY <1>2 DEF Genuine
<1>. QED
  BY <1>1, <1>2 DEF Settled

LEMMA InitSettled ==
  ASSUME Init
  PROVE  SettledInv
BY DEF Init, SettledInv, HasPlan, Raw

LEMMA StepSettles ==
  ASSUME TypeOK, PlaceInv, SettledInv, NEW luck \in BOOLEAN, NEW refused \in BOOLEAN,
         phase \in {"probe", "recover"}, TakeStep(luck, refused)
  PROVE  SettledInv'
<1>. DEFINE c == job.controller
            P == Recover[c]
            S == RecoverPlain(c, pc)
            R == Regions[c]
<1>1. /\ c \in Controllers /\ step \in StepType /\ step.at \in R
      /\ step.words \subseteq R /\ step.sums \subseteq R
      /\ phase = "recover" => pc \in 1 .. Len(P) /\ step = P[pc]
  BY AtWork DEF TakeStep
<1>2. /\ step.do \in Opening => region'[step.at] = Decrypted(step, luck)
      /\ \A r \in R : step.do \notin Opening \/ r # step.at => region'[r] = region[r]
      /\ DOMAIN region' = DOMAIN region /\ job' = job /\ pc' = pc + 1 /\ phase' = phase
  BY StepChanges DEF TakeStep
<1>3. DOMAIN region = R /\ ~HasPlan /\ ~HasPlan'
  BY <1>2 DEF TypeOK, PlaceInv, HasPlan, TakeStep
<1>4. ASSUME job.foreign, "shell" \in DOMAIN region
      PROVE  region'["shell"] # "plain"
  <2>1. CASE step.do \in Opening /\ step.at = "shell"
    BY <1>2, <1>4, <2>1, PlainByRightKey
  <2>2. CASE ~(step.do \in Opening /\ step.at = "shell")
    BY <1>2, <1>3, <1>4, <2>2 DEF SettledInv
  <2>. QED
    BY <2>1, <2>2
<1>5. ASSUME phase = "recover", NEW i \in 1 .. pc
      PROVE  Settled(P[i])'
  <2>1. /\ P \in Seq(StepType) /\ Len(P) \in Nat /\ pc \in 1 .. Len(P) /\ step = P[pc]
        /\ \A k \in 1 .. Len(P) : Fits(RecoverPlain(c, k), P[k])
    BY <1>1, <1>5, Programs
  <2>2. /\ \A n \in Nat : \A j \in 1 .. n : j \in 1 .. (n + 1) /\ \A k \in 1 .. j : k \in 1 .. (j - 1) \/ k = j
        /\ \A n \in Nat : \A j \in 1 .. n : \A k \in 1 .. j : k \in 1 .. n
    OBVIOUS
  <2>3. i \in 1 .. Len(P) /\ (i \in 1 .. (pc - 1) \/ i = pc) /\ pc \in 1 .. (Len(P) + 1)
    BY <2>1, <2>2
  <2>4. ProbePlain(c, Len(Probe[c]) + 1) \in SUBSET Names
    BY DEF ProbePlain, PlainAt
  <2>5. /\ i \in 1 .. (pc - 1) => RecoverPlain(c, i) \subseteq S
        /\ i \in 1 .. (pc - 1) /\ P[i].do \in Opening => P[i].at \in S
    BY <2>1, <2>3, <2>4, PlainGrows DEF RecoverPlain
  <2>6. \A r \in R \cap S : region'[r] = region[r]
    <3>1. step.do \in Opening => step.at \notin S
      BY <2>1 DEF Fits
    <3>. QED
      BY <1>2, <3>1
  <2>7. P[i].at \in R /\ P[i].words \subseteq R /\ P[i].sums \subseteq R
    <3>1. P[i] \in Steps(Recover[c])
      BY <2>1, <2>3 DEF Steps
    <3>. QED
      BY <1>1, <3>1 DEF Regions
  <2>8. /\ P[i].do \in Opening \/ P[i].do = "agree" =>
               P[i].words \subseteq RecoverPlain(c, i) /\ P[i].sums \subseteq RecoverPlain(c, i)
        /\ P[i].do = "verify" => P[i].at \in RecoverPlain(c, i)
    BY <2>1, <2>3, RestsOnPlain
  <2>9. CASE i \in 1 .. (pc - 1)
    <3>1. Settled(P[i])
      BY <1>5, <2>9 DEF SettledInv
    <3>2. P[i].do \in Opening => region'[P[i].at] = region[P[i].at]
      BY <2>5, <2>6, <2>7, <2>9
    <3>3. P[i].do \in Opening \/ P[i].do = "agree" =>
             \A r \in P[i].words \cup P[i].sums : region'[r] = region[r]
      BY <2>5, <2>6, <2>7, <2>8, <2>9
    <3>4. P[i].do = "verify" => region'[P[i].at] = region[P[i].at]
      BY <2>5, <2>6, <2>7, <2>8, <2>9
    <3>. QED
      BY <1>2, <3>1, <3>2, <3>3, <3>4, SettledStays
  <2>10. CASE i = pc
    <3>1. P[i] = step /\ RecoverPlain(c, i) = S
      BY <2>1, <2>10
    <3>2. /\ step.do = "verify" => region[step.at] = "plain"
          /\ step.do = "agree" => Genuine(step.words, step.sums)
          /\ step.do = "disjoint" => ZerosAreDisjoint
      BY <1>1, PassedIsSettled DEF TakeStep
    <3>3. step.do \in Opening /\ region'[step.at] = "plain" => Genuine(step.words, step.sums)
      BY <1>2, PlainByRightKey
    <3>4. step.do \in Opening \/ step.do = "agree" =>
             \A r \in step.words \cup step.sums : region'[r] = region[r]
      BY <2>6, <2>7, <2>8, <3>1
    <3>5. step.do = "verify" => region'[step.at] = region[step.at]
      BY <2>6, <2>7, <2>8, <3>1
    <3>6. ZerosAreDisjoint => ZerosAreDisjoint'
      BY <1>2 DEF ZerosAreDisjoint
    <3>7. ASSUME step.do \in Opening \/ step.do = "agree", Genuine(step.words, step.sums)
          PROVE  Genuine(P[i].words, P[i].sums)'
      <4>1. \A r \in P[i].words \cup P[i].sums : region'[r] = region[r]
        BY <3>1, <3>4, <3>7
      <4>2. Genuine(P[i].words, P[i].sums)
        BY <3>1, <3>7
      <4>3. P' = P
        BY <1>2
      <4>. QED
        BY <1>2, <4>1, <4>2, <4>3 DEF Genuine
    <3>8. P' = P
      BY <1>2
    <3>. QED
      BY <3>1, <3>2, <3>3, <3>5, <3>6, <3>7, <3>8 DEF Settled
  <2>. QED
    BY <2>3, <2>9, <2>10
<1>. QED
  <2>1. phase = "recover" => \A i \in 1 .. (pc' - 1) : i \in 1 .. pc
    <3>1. \A n \in Nat : \A j \in 1 .. n : \A k \in 1 .. ((j + 1) - 1) : k \in 1 .. j
      OBVIOUS
    <3>2. Len(P) \in Nat
      BY <1>1, Programs
    <3>. QED
      BY <1>1, <1>2, <3>1, <3>2
  <2>. QED
    BY <1>2, <1>3, <1>4, <1>5, <2>1 DEF SettledInv

LEMMA SettledStep ==
  ASSUME TypeOK, PlaceInv, SettledInv, [Next]_vars
  PROVE  SettledInv'
<1>1. CASE RunProgram
  <2>1. PICK luck \in BOOLEAN, refused \in BOOLEAN : TakeStep(luck, refused) \/ FailStep(luck, refused)
    BY <1>1 DEF RunProgram, Chances
  <2>2. phase \in {"probe", "recover"}
    BY <1>1 DEF RunProgram
  <2>3. CASE TakeStep(luck, refused)
    BY <2>2, <2>3, StepSettles
  <2>4. CASE FailStep(luck, refused)
    <3>1. region' = region /\ job' = job /\ phase' # "recover" /\ ~HasPlan'
      BY <2>2, <2>4 DEF FailStep, PlaceInv, HasPlan
    <3>. QED
      BY <3>1 DEF SettledInv
  <2>. QED
    BY <2>1, <2>3, <2>4
<1>2. ASSUME region' = region, job' = job,
             phase' = "recover" \/ HasPlan' =>
                \/ pc' = 1
                \/ pc' = pc /\ (phase = "recover" \/ HasPlan)
      PROVE  SettledInv'
  <2>1. \A s : Settled(s) => Settled(s)'
    BY <1>2 DEF Settled, Genuine, ZerosAreDisjoint
  <2>2. \A i : i \notin 1 .. (1 - 1)
    OBVIOUS
  <2>3. ASSUME phase' = "recover" \/ HasPlan', NEW i \in 1 .. (pc' - 1)
        PROVE  Settled(Recover[job.controller][i])'
    <3>1. pc' = pc /\ Settled(Recover[job.controller][i])
      BY <1>2, <2>2, <2>3 DEF SettledInv
    <3>2. Recover[job.controller][i]' = Recover[job.controller][i]
      BY <1>2
    <3>. QED
      BY <1>2, <2>1, <3>1, <3>2
  <2>. QED
    BY <1>2, <2>3 DEF SettledInv
<1>3. CASE EnterProbe
  BY <1>2, <1>3 DEF EnterProbe, PlaceInv, HasPlan
<1>4. CASE EndProbe
  BY <1>2, <1>4 DEF EndProbe, PlaceInv, HasPlan
<1>5. CASE JudgeProbe
  <2>1. ProbeOutcome \in {"NotApplicable", "Cancelled", "Rejected", "Applicable"}
    BY OutcomesAreTyped DEF TypeOK
  <2>. QED
    BY <1>2, <1>5, <2>1 DEF JudgeProbe, PlaceInv, HasPlan
<1>6. CASE EndRecover
  BY <1>2, <1>6 DEF EndRecover, PlaceInv, HasPlan
<1>7. ASSUME NEW luck \in Chances, Replay(luck)
      PROVE  SettledInv'
  BY <1>2, <1>7 DEF Replay, PlaceInv, HasPlan
<1>8. CASE Finalize
  BY <1>2, <1>8 DEF Finalize, PlaceInv, HasPlan
<1>9. CASE Cancel
  BY <1>2, <1>9 DEF Cancel, PlaceInv, HasPlan
<1>10. CASE UNCHANGED vars
  BY <1>2, <1>10 DEF vars, PlaceInv, HasPlan
<1>. QED
  BY <1>1, <1>3, <1>4, <1>5, <1>6, <1>7, <1>8, <1>9, <1>10 DEF Next, Rest

\* Only regions of the controller are opened.
LEMMA PlainIsARegion ==
  ASSUME NEW c \in Controllers
  PROVE  /\ ProbePlain(c, Len(Probe[c]) + 1) \ Raw \subseteq Regions[c]
         /\ RecoverPlain(c, Len(Recover[c]) + 1) \ Raw \subseteq Regions[c]
<1>. DEFINE p == Probe[c]
            q == Recover[c]
            B == ProbePlain(c, Len(p) + 1)
<1>1. p \in Seq(StepType) /\ q \in Seq(StepType) /\ Len(p) \in Nat /\ Len(q) \in Nat
  BY Programs
<1>2. Len(p) + 1 \in 1 .. (Len(p) + 1) /\ Len(q) + 1 \in 1 .. (Len(q) + 1)
  <2>1. \A n \in Nat : n + 1 \in 1 .. (n + 1)
    OBVIOUS
  <2>. QED
    BY <1>1, <2>1
<1>3. Raw \in SUBSET Names /\ B \in SUBSET Names
  BY DEF Raw, Names, ProbePlain, PlainAt
<1>4. B = PlainAt(Raw, p, Len(p) + 1)
  BY DEF ProbePlain
<1>5. RecoverPlain(c, Len(q) + 1) = PlainAt(B, q, Len(q) + 1)
  BY DEF RecoverPlain
<1>6. (\A k \in 1 .. Len(p) : p[k].at \in Regions[c]) /\ (\A k \in 1 .. Len(q) : q[k].at \in Regions[c])
  <2>1. /\ \A k \in 1 .. Len(p) : p[k] \in Steps(p)
        /\ \A k \in 1 .. Len(q) : q[k] \in Steps(q)
    BY <1>1 DEF Steps
  <2>2. Regions[c] = UNION {{s.at} \union s.words \union s.sums : s \in Steps(p) \union Steps(q)}
    BY DEF Regions
  <2>. HIDE DEF p, q
  <2>. QED
    BY <2>1, <2>2
<1>. HIDE DEF p, q, B
<1>7. \A r \in PlainAt(Raw, p, Len(p) + 1) : r \in Raw \/ \E k \in 1 .. Len(p) : p[k].at = r
  BY <1>1, <1>2, <1>3, PlainIsOpened, Zenon
<1>8. \A r \in PlainAt(B, q, Len(q) + 1) : r \in B \/ \E k \in 1 .. Len(q) : q[k].at = r
  BY <1>1, <1>2, <1>3, PlainIsOpened, Zenon
<1>9. B \ Raw \subseteq Regions[c]
  BY <1>4, <1>6, <1>7
<1>10. PlainAt(B, q, Len(q) + 1) \ Raw \subseteq Regions[c]
  BY <1>6, <1>8, <1>9
<1>. QED
  BY <1>5, <1>9, <1>10 DEF p, q, B

\* With a plan in hand, the whole recovery is settled, and so vouched for.
LEMMA PlanIsVouchedFor ==
  ASSUME TypeOK, PlaceInv, SettledInv, HasPlan
  PROVE  TamperIsNoticed /\ (job.controller = TerminalProfileDispatch => ZerosAreDisjoint)
<1>. DEFINE c == job.controller
            P == Recover[c]
<1>1. c \in Controllers
  BY JobsAreTyped DEF PlaceInv
<1>2. PICK B, C, U : Family(Probe[c], P, B, C, U)
  BY <1>1, Families
<1>3. P \in Seq(StepType) /\ Len(P) \in Nat /\ DOMAIN P = 1 .. Len(P)
  BY <1>1, Programs
<1>4. AllSettled(P)
  <2>1. \A n \in Nat : \A i \in 1 .. n : i \in 1 .. ((n + 1) - 1)
    OBVIOUS
  <2>. QED
    BY <1>3, <2>1 DEF SettledInv, PlaceInv, AllSettled
<1>5. Vouched(U)
  BY <1>2, <1>4 DEF Family
<1>6. Summed \subseteq U
  <2>1. \A s \in Steps(P) : s.sums \subseteq U
    BY <1>2, <1>3 DEF Family, Runs, Steps
  <2>. QED
    BY <2>1 DEF Summed
<1>7. "shell" \in DOMAIN region
  <2>1. "shell" \in ProbePlain(c, Len(Probe[c]) + 1) /\ "shell" \notin Raw
    BY <1>1, Programs DEF Raw
  <2>. QED
    BY <1>1, <2>1, PlainIsARegion DEF TypeOK
<1>8. TamperIsNoticed
  BY <1>5, <1>6, <1>7 DEF Vouched, SettledInv, TamperIsNoticed
<1>9. c = TerminalProfileDispatch => ZerosAreDisjoint
  BY <1>1, <1>4, Families
<1>. QED
  BY <1>8, <1>9

\* No image in which a byte under one of the controller's checksums was altered, and
\* no image of another family, gets as far as a plan: ControllerReplay's claim, for
\* all nine controllers and every set of altered regions.
THEOREM TamperAlwaysNoticed == Spec => []TamperIsNoticed
<1>1. Init => TypeOK /\ PlaceInv /\ SettledInv
  BY InitType, InitSettled
<1>2. TypeOK /\ PlaceInv /\ SettledInv /\ [Next]_vars => (TypeOK /\ PlaceInv /\ SettledInv)'
  BY TypeStep, SettledStep
<1>3. TypeOK /\ PlaceInv /\ SettledInv => TamperIsNoticed
  BY PlanIsVouchedFor DEF TamperIsNoticed
<1>. QED
  BY <1>1, <1>2, <1>3, PTL DEF Spec

-----------------------------------------------------------------------------
(***************************************************************************)
(* The token.                                                               *)
(***************************************************************************)
LEMMA StopStep ==
  ASSUME TypeOK, PlaceInv, StopInv, [Next]_vars
  PROVE  StopInv'
<1>1. CASE RunProgram
  <2>1. PICK luck \in BOOLEAN, refused \in BOOLEAN : TakeStep(luck, refused) \/ FailStep(luck, refused)
    BY <1>1 DEF RunProgram, Chances
  <2>2. phase \in {"probe", "recover"} /\ ~swallowed
    BY <1>1 DEF RunProgram, StopInv
  <2>3. CASE TakeStep(luck, refused)
    BY <2>3 DEF TakeStep, StopInv
  <2>4. CASE FailStep(luck, refused)
    <3>1. step \in StepType /\ Stopped(step) \in BOOLEAN /\ (Stopped(step) => token)
      <4>1. pc \in DOMAIN Program
        BY <2>4 DEF FailStep
      <4>. QED
        BY <2>2, <4>1, AtWork DEF Stopped, TypeOK
    <3>2. MissOf(step, Stopped(step)) = "cancelled" => token
      BY <3>1, MissesAreTyped
    <3>3. phase = "probe" =>
             inner' = MissOf(step, Stopped(step)) /\ phase' = "probed" /\ answer' = answer
      BY <2>4 DEF FailStep
    <3>4. phase = "recover" =>
             /\ answer' = IF Stopped(step) THEN "Cancelled" ELSE "Rejected"
             /\ phase' = "done" /\ inner' = inner
      BY <2>4 DEF FailStep
    <3>5. swallowed' = Stopped(step) /\ token' = token
      BY <2>2, <2>4, <3>1 DEF FailStep, TypeOK
    <3>. QED
      BY <2>2, <3>1, <3>2, <3>3, <3>4, <3>5 DEF StopInv
  <2>. QED
    BY <2>1, <2>3, <2>4
<1>2. CASE EnterProbe
  BY <1>2 DEF EnterProbe, StopInv
<1>3. CASE EndProbe
  BY <1>3 DEF EndProbe, StopInv
<1>4. CASE JudgeProbe
  <2>1. token => ProbeOutcome = "Cancelled"
    BY OutcomesAreTyped DEF TypeOK
  <2>2. ProbeOutcome = "Cancelled" => token \/ inner = "cancelled"
    BY OutcomesAreTyped DEF TypeOK
  <2>. QED
    BY <1>4, <2>1, <2>2 DEF JudgeProbe, StopInv
<1>5. CASE EndRecover
  BY <1>5 DEF EndRecover, StopInv
<1>6. ASSUME NEW luck \in Chances, Replay(luck)
      PROVE  StopInv'
  BY <1>6 DEF Replay, StopInv
<1>7. CASE Finalize
  BY <1>7 DEF Finalize, StopInv
<1>8. CASE Cancel
  BY <1>8 DEF Cancel, StopInv
<1>9. CASE UNCHANGED vars
  BY <1>9 DEF vars, StopInv
<1>. QED
  BY <1>1, <1>2, <1>3, <1>4, <1>5, <1>6, <1>7, <1>8, <1>9 DEF Next, Rest
-----------------------------------------------------------------------------
(***************************************************************************)
(* An intact image: every step can be taken.                                *)
(***************************************************************************)
LEMMA SoundLists ==
  ASSUME job \in Jobs, ListsAreSound
  PROVE  ZerosAreDisjoint /\ AcceptsPayloads
<1>1. job.zeros \in Seq(ZeroRanges) /\ job.payloads.records \in Seq(Records)
  BY JobsAreTyped
<1>2. ASSUME NEW i \in DOMAIN job.zeros, NEW j \in DOMAIN job.payloads.records,
             job.payloads.records[j].end > job.zeros[i].first
      PROVE  job.zeros[i].end <= job.payloads.records[j].first
  <2>. DEFINE z == job.zeros[i]
              d == job.payloads.records[j]
  <2>1. z \in ZeroRanges /\ d \in Records
    BY <1>1
  <2>2. /\ z.first \in Cells /\ z.first \in Nat /\ z.end \in Nat /\ z.first < z.end
        /\ d.first \in Nat /\ d.end \in Nat
    BY <2>1, JobsAreTyped DEF ZeroRanges, Records
  <2>3. PICK y \in Cells : d.first <= y /\ y < d.end
    <3>1. Span(d) # {}
      BY DEF ListsAreSound
    <3>. QED
      BY <3>1 DEF Span
  <2>4. d.first \in Cells /\ d.first < d.end
    <3>1. y \in Nat /\ 0 .. y \subseteq Cells
      BY JobsAreTyped
    <3>2. d.first \in 0 .. y /\ d.first < d.end
      BY <2>2, <2>3, <3>1
    <3>. QED
      BY <3>1, <3>2
  <2>5. Span(z) \intersect Span(d) = {}
    BY DEF ListsAreSound, Zeros, Destinations, Covered
  <2>6. d.end > z.first
    BY <1>2
  <2>. HIDE DEF z, d
  <2>7. ASSUME ~(z.end <= d.first)
        PROVE  FALSE
    <3>1. CASE z.first <= d.first
      <4>1. d.first < z.end /\ d.first <= d.first
        BY <2>2, <2>7
      <4>2. d.first \in Span(z) /\ d.first \in Span(d)
        BY <2>4, <3>1, <4>1 DEF Span
      <4>. QED
        BY <2>5, <4>2
    <3>2. CASE d.first <= z.first
      <4>1. z.first < d.end /\ z.first <= z.first
        BY <2>2, <2>6
      <4>2. z.first \in Span(z) /\ z.first \in Span(d)
        BY <2>2, <3>2, <4>1 DEF Span
      <4>. QED
        BY <2>5, <4>2
    <3>3. z.first <= d.first \/ d.first <= z.first
      BY <2>2
    <3>. QED
      BY <3>1, <3>2, <3>3
  <2>. QED
    BY <2>7 DEF z, d
<1>3. ZerosAreDisjoint
  BY <1>2 DEF ZerosAreDisjoint
<1>4. AcceptsPayloads
  BY DEF ListsAreSound, AcceptsPayloads
<1>. QED
  BY <1>3, <1>4

\* With the regions in the form of `plain`, a step that fits is taken.
LEMMA IntactPasses ==
  ASSUME job \in Jobs, Intact, NEW plain, NEW s \in StepType, Fits(plain, s), region = Form(plain),
         s.at \in Regions[job.controller], s.words \subseteq Regions[job.controller],
         s.sums \subseteq Regions[job.controller]
  PROVE  /\ Passes(s, TRUE, TRUE)
         /\ s.do \in Opening => Decrypted(s, TRUE) = "plain"
<1>1. /\ \A r \in Regions[job.controller] \ plain : region[r] = "sealed"
      /\ \A r \in Regions[job.controller] \intersect plain : region[r] = "plain"
  BY DEF Form
<1>2. ASSUME s.do \in Opening \cup {"peek"} \/ s.do = "agree"
      PROVE  KeyIsRight(s, TRUE)
  <2>1. s.words \subseteq plain /\ s.sums \subseteq plain
    BY <1>2 DEF Fits
  <2>2. s.words \subseteq Regions[job.controller] \intersect plain
        /\ s.sums \subseteq Regions[job.controller] \intersect plain
    BY <2>1
  <2>3. \A r : r \notin job.altered
    BY DEF Intact
  <2>. QED
    BY <1>1, <2>2, <2>3 DEF KeyIsRight, WordsAreRight, SumsAreRight
<1>3. ASSUME s.do \in Opening \cup {"peek"}
      PROVE  Decrypted(s, TRUE) = "plain"
  <2>1. KeyIsRight(s, TRUE)
    BY <1>2, <1>3
  <2>2. region[s.at] = "sealed"
    BY <1>1, <1>3 DEF Fits
  <2>. QED
    BY <2>1, <2>2 DEF Decrypted, Intact
<1>4. ASSUME s.do \in {"verify", "snapshot"}
      PROVE  Shows(region[s.at], s, TRUE)
  <2>1. region[s.at] = "plain"
    BY <1>1, <1>4 DEF Fits
  <2>. QED
    BY <2>1 DEF Shows
<1>5. ZerosAreDisjoint /\ AcceptsList(s.at)
  BY SoundLists DEF Intact, AcceptsList
<1>6. ASSUME s.do \in {"peek", "walk"}
      PROVE  Shows(Decrypted(s, TRUE), s, TRUE)
  BY <1>3, <1>6 DEF Opening, Shows
<1>7. s.do \in {"checkpoint", "verify", "agree", "snapshot", "open", "unmask", "peek", "walk",
                "disjoint"}
  BY DEF StepType, Doings, Opening
<1>8. CASE s.do = "checkpoint"
  BY <1>3, <1>8, Zenon DEF Passes, Opening
<1>9. CASE s.do = "verify"
  <2>1. Shows(region[s.at], s, TRUE)
    BY <1>4, <1>9
  <2>2. Passes(s, TRUE, TRUE)
    BY <1>9, <2>1, Zenon DEF Passes
  <2>. QED
    BY <1>3, <2>2
<1>10. CASE s.do = "agree"
  <2>1. KeyIsRight(s, TRUE)
    BY <1>2, <1>10
  <2>2. Passes(s, TRUE, TRUE)
    BY <1>10, <2>1, Zenon DEF Passes
  <2>. QED
    BY <1>3, <2>2
<1>11. CASE s.do = "snapshot"
  <2>1. Shows(region[s.at], s, TRUE)
    BY <1>4, <1>11
  <2>2. Passes(s, TRUE, TRUE)
    BY <1>11, <2>1, Zenon DEF Passes
  <2>. QED
    BY <1>3, <2>2
<1>12. CASE s.do \in {"open", "unmask"}
  <2>1. KeyIsRight(s, TRUE)
    BY <1>2, <1>12 DEF Opening
  <2>2. Passes(s, TRUE, TRUE)
    BY <1>12, <2>1, Zenon DEF Passes
  <2>. QED
    BY <1>3, <2>2
<1>13. CASE s.do = "peek"
  <2>1. Shows(Decrypted(s, TRUE), s, TRUE)
    BY <1>6, <1>13
  <2>2. Passes(s, TRUE, TRUE)
    BY <1>13, <2>1, Zenon DEF Passes
  <2>. QED
    BY <1>3, <2>2
<1>14. CASE s.do = "walk"
  <2>1. Shows(Decrypted(s, TRUE), s, TRUE) /\ AcceptsList(s.at)
    BY <1>5, <1>6, <1>14
  <2>2. Passes(s, TRUE, TRUE)
    BY <1>14, <2>1, Zenon DEF Passes
  <2>. QED
    BY <1>3, <2>2
<1>15. CASE s.do = "disjoint"
  <2>1. Passes(s, TRUE, TRUE)
    BY <1>5, <1>15, Zenon DEF Passes
  <2>. QED
    BY <1>3, <2>1
<1>. QED
  BY <1>7, <1>8, <1>9, <1>10, <1>11, <1>12, <1>13, <1>14, <1>15
\* The step the running program has come to, and the form before and after it.
LEMMA IntactStep ==
  ASSUME TypeOK, PlaceInv, IntactInv, Intact, phase \in {"probe", "recover"},
         pc \in DOMAIN Program
  PROVE  /\ Passes(step, TRUE, TRUE)
         /\ phase = "probe" =>
               After(step, TRUE) = Form(ProbePlain(job.controller, pc + 1))
         /\ phase = "recover" =>
               After(step, TRUE) = Form(RecoverPlain(job.controller, pc + 1))
<1>. DEFINE c == job.controller
<1>1. /\ c \in Controllers /\ step \in StepType /\ step.at \in Regions[c]
      /\ step.words \subseteq Regions[c] /\ step.sums \subseteq Regions[c]
  BY AtWork
<1>2. ASSUME NEW A \in SUBSET Names, NEW p \in Seq(StepType), pc \in 1 .. Len(p), step = p[pc],
             region = Form(PlainAt(A, p, pc)), Fits(PlainAt(A, p, pc), step)
      PROVE  Passes(step, TRUE, TRUE) /\ After(step, TRUE) = Form(PlainAt(A, p, pc + 1))
  <2>. DEFINE now == PlainAt(A, p, pc)
              next == PlainAt(A, p, pc + 1)
  <2>1. Passes(step, TRUE, TRUE) /\ (step.do \in Opening => Decrypted(step, TRUE) = "plain")
    BY <1>1, <1>2, IntactPasses DEF PlaceInv
  <2>2. next = IF step.do \in Opening THEN now \cup {step.at} ELSE now
    <3>1. PlainAt(A, p, pc + 1) =
            IF p[pc].do \in Opening THEN PlainAt(A, p, pc) \cup {p[pc].at} ELSE PlainAt(A, p, pc)
      BY <1>2, PlainOneOn
    <3>. QED
      BY <1>2, <3>1
  <2>3. region = Form(now)
    BY <1>2
  <2>. HIDE DEF now, next
  <2>4. After(step, TRUE) =
          IF step.do \in Opening THEN [region EXCEPT ![step.at] = Decrypted(step, TRUE)] ELSE region
    BY DEF After, Opening
  <2>5. CASE step.do \in Opening
    <3>1. After(step, TRUE) = [region EXCEPT ![step.at] = "plain"]
      BY <2>1, <2>4, <2>5
    <3>2. next = now \cup {step.at}
      BY <2>2, <2>5
    <3>3. [region EXCEPT ![step.at] = "plain"] = Form(next)
      BY <1>1, <2>3, <3>2 DEF Form
    <3>. QED
      BY <2>1, <3>1, <3>3 DEF next
  <2>6. CASE step.do \notin Opening
    BY <2>1, <2>2, <2>3, <2>4, <2>6 DEF next
  <2>. QED
    BY <2>5, <2>6
<1>3. /\ Probe[c] \in Seq(StepType) /\ Recover[c] \in Seq(StepType)
      /\ \A i \in 1 .. Len(Probe[c]) : Fits(ProbePlain(c, i), Probe[c][i])
      /\ \A i \in 1 .. Len(Recover[c]) : Fits(RecoverPlain(c, i), Recover[c][i])
  BY <1>1, Programs
<1>4. CASE phase = "probe"
  <2>1. pc \in 1 .. Len(Probe[c]) /\ step = Probe[c][pc]
    BY <1>4, AtWork
  <2>2. region = Form(ProbePlain(c, pc)) /\ Fits(ProbePlain(c, pc), step)
    BY <1>3, <1>4, <2>1 DEF IntactInv
  <2>3. Raw \in SUBSET Names
    BY DEF Raw, Names
  <2>4. Passes(step, TRUE, TRUE) /\ After(step, TRUE) = Form(PlainAt(Raw, Probe[c], pc + 1))
    BY <1>2, <1>3, <2>1, <2>2, <2>3 DEF ProbePlain
  <2>. QED
    BY <1>4, <2>4 DEF ProbePlain
<1>5. CASE phase = "recover"
  <2>. DEFINE B == ProbePlain(c, Len(Probe[c]) + 1)
  <2>1. pc \in 1 .. Len(Recover[c]) /\ step = Recover[c][pc]
    BY <1>5, AtWork
  <2>2. region = Form(RecoverPlain(c, pc)) /\ Fits(RecoverPlain(c, pc), step)
    BY <1>3, <1>5, <2>1 DEF IntactInv
  <2>3. B \in SUBSET Names
    BY DEF ProbePlain, PlainAt
  <2>4. \A i : RecoverPlain(c, i) = PlainAt(B, Recover[c], i)
    BY DEF RecoverPlain
  <2>5. Passes(step, TRUE, TRUE) /\ After(step, TRUE) = Form(PlainAt(B, Recover[c], pc + 1))
    <3>. HIDE DEF B
    <3>. QED
      BY <1>2, <1>3, <2>1, <2>2, <2>3, <2>4
  <2>. QED
    BY <1>5, <2>4, <2>5
<1>. QED
  BY <1>4, <1>5

LEMMA InitIntact ==
  ASSUME Init
  PROVE  IntactInv
<1>1. job.controller \in Controllers
  BY JobsAreTyped DEF Init
<1>2. ProbePlain(job.controller, 1) = Raw
  <2>1. Probe[job.controller] \in Seq(StepType) /\ Len(Probe[job.controller]) \in Nat
    BY <1>1, Programs
  <2>2. Raw \in SUBSET Names /\ 1 \in 1 .. (Len(Probe[job.controller]) + 1)
    BY <2>1 DEF Raw, Names
  <2>. QED
    BY <2>1, <2>2, PlainGrows DEF ProbePlain
<1>. QED
  BY <1>2 DEF Init, IntactInv, Form

LEMMA IntactKept ==
  ASSUME TypeOK, PlaceInv, IntactInv, [Next]_vars
  PROVE  IntactInv'
<1>. DEFINE c == job.controller
<1>1. job' = job /\ (Intact' <=> Intact) /\ \A plain : Form(plain)' = Form(plain)
  <2>1. job' = job
    <3>1. CASE RunProgram
      BY <3>1 DEF RunProgram, TakeStep, FailStep
    <3>2. CASE EnterProbe \/ EndProbe \/ JudgeProbe \/ EndRecover \/ Finalize \/ Cancel \/ UNCHANGED vars
      BY <3>2 DEF EnterProbe, EndProbe, JudgeProbe, EndRecover, Finalize, Cancel, vars
    <3>3. CASE \E luck \in Chances : Replay(luck)
      BY <3>3 DEF Replay
    <3>. QED
      BY <3>1, <3>2, <3>3 DEF Next, Rest
  <2>. QED
    BY <2>1 DEF Intact, ListsAreSound, SourceIsAccepted, Zeros, Destinations, Covered, Form
<1>2. SUFFICES ASSUME Intact
               PROVE  IntactInv'
  BY <1>1 DEF IntactInv
<1>3. /\ c \in Controllers /\ Chances = {TRUE}
      /\ Len(Probe[c]) \in Nat /\ Len(Recover[c]) \in Nat
      /\ DOMAIN Probe[c] = 1 .. Len(Probe[c]) /\ DOMAIN Recover[c] = 1 .. Len(Recover[c])
  <2>1. c \in Controllers
    BY JobsAreTyped DEF PlaceInv
  <2>2. Chances = {TRUE}
    BY <1>2 DEF Chances, Intact
  <2>. QED
    BY <2>1, <2>2, Programs
<1>4. CASE EnterProbe
  BY <1>1, <1>4 DEF EnterProbe, IntactInv, PlaceInv
<1>5. CASE RunProgram
  <2>1. phase \in {"probe", "recover"} /\ (TakeStep(TRUE, TRUE) \/ FailStep(TRUE, TRUE))
    BY <1>3, <1>5 DEF RunProgram
  <2>2. pc \in DOMAIN Program
    BY <2>1 DEF TakeStep, FailStep
  <2>3. /\ Passes(step, TRUE, TRUE)
        /\ phase = "probe" => After(step, TRUE) = Form(ProbePlain(c, pc + 1))
        /\ phase = "recover" => After(step, TRUE) = Form(RecoverPlain(c, pc + 1))
    BY <1>2, <2>1, <2>2, IntactStep
  <2>4. CASE TakeStep(TRUE, TRUE)
    <3>1. phase' = phase /\ pc' = pc + 1 /\ region' = After(step, TRUE)
      BY <2>4 DEF TakeStep
    <3>. QED
      BY <1>1, <2>1, <2>3, <3>1 DEF IntactInv
  <2>5. CASE FailStep(TRUE, TRUE)
    <3>1. Stopped(step)
      BY <2>3, <2>5 DEF FailStep
    <3>2. token /\ token' = token
      BY <2>5, <3>1 DEF FailStep, Stopped
    <3>3. \/ phase' = "probed"
          \/ phase' = "done" /\ answer' = "Cancelled"
      BY <2>5, <3>1 DEF FailStep
    <3>. QED
      BY <3>2, <3>3 DEF IntactInv
  <2>. QED
    BY <2>1, <2>4, <2>5
<1>6. CASE EndProbe
  <2>1. phase = "probe" /\ pc \in 1 .. (Len(Probe[c]) + 1) /\ pc \notin 1 .. Len(Probe[c])
    BY <1>3, <1>6 DEF EndProbe, Program, PlaceInv
  <2>2. pc = Len(Probe[c]) + 1
    BY <1>3, <2>1
  <2>3. region = Form(ProbePlain(c, Len(Probe[c]) + 1))
    BY <1>2, <2>1, <2>2 DEF IntactInv
  <2>4. phase' = "probed" /\ inner' = "found" /\ region' = region
    BY <1>6 DEF EndProbe
  <2>. QED
    BY <1>1, <2>3, <2>4 DEF IntactInv
<1>7. CASE JudgeProbe
  <2>1. phase = "probed" /\ region' = region
    BY <1>7 DEF JudgeProbe
  <2>2. /\ inner \in {"none", "cancelled", "error", "found"}
        /\ token \/ (inner = "found" /\ region = Form(ProbePlain(c, Len(Probe[c]) + 1)))
    BY <1>2, <2>1 DEF IntactInv, TypeOK
  <2>3. CASE token
    <3>1. phase' = "done" /\ answer' = "Cancelled"
      BY <1>7, <2>2, <2>3, OutcomesAreTyped DEF JudgeProbe
    <3>. QED
      BY <3>1 DEF IntactInv
  <2>4. CASE ~token
    <3>1. phase' = "recover" /\ pc' = 1
      BY <1>7, <2>2, <2>4, OutcomesAreTyped DEF JudgeProbe
    <3>2. RecoverPlain(c, 1) = ProbePlain(c, Len(Probe[c]) + 1)
      <4>. DEFINE B == ProbePlain(c, Len(Probe[c]) + 1)
      <4>1. B \in SUBSET Names /\ 1 \in 1 .. (Len(Recover[c]) + 1) /\ Recover[c] \in Seq(StepType)
        BY <1>3, Programs DEF ProbePlain, PlainAt
      <4>2. RecoverPlain(c, 1) = PlainAt(B, Recover[c], 1)
        BY DEF RecoverPlain
      <4>. HIDE DEF B
      <4>3. PlainAt(B, Recover[c], 1) = B
        BY <4>1, PlainGrows
      <4>. QED
        BY <4>2, <4>3 DEF B
    <3>3. region' = Form(RecoverPlain(c, 1))
      BY <2>1, <2>2, <2>4, <3>2
    <3>. QED
      BY <1>1, <3>1, <3>3 DEF IntactInv
  <2>. QED
    BY <2>3, <2>4
<1>8. CASE EndRecover
  <2>1. region = Form(RecoverPlain(c, pc))
    BY <1>2, <1>8 DEF EndRecover, IntactInv
  <2>. QED
    BY <1>1, <1>8, <2>1 DEF EndRecover, IntactInv
<1>9. ASSUME NEW luck \in Chances, Replay(luck)
      PROVE  IntactInv'
  <2>1. luck = TRUE /\ phase = "replay" /\ region' = region /\ pc' = pc
    BY <1>3, <1>9 DEF Replay
  <2>2. region = Form(RecoverPlain(c, Len(Recover[c]) + 1)) /\ pc = Len(Recover[c]) + 1
    BY <1>2, <2>1 DEF IntactInv, PlaceInv, HasPlan
  <2>3. PlanIsRight(luck)
    <3>1. {"contexts", "decoders", "payloads"} \subseteq RecoverPlain(c, Len(Recover[c]) + 1)
      BY <1>3, Programs DEF Plan
    <3>2. {"contexts", "decoders", "payloads"} \subseteq Regions[c]
      BY <1>3, <3>1, PlainIsARegion DEF Raw
    <3>3. \A r \in {"contexts", "decoders", "payloads"} : region[r] = "plain"
      BY <2>2, <3>1, <3>2 DEF Form
    <3>. QED
      BY <2>1, <3>3 DEF PlanIsRight
  <2>4. \/ phase' = "finalize"
        \/ phase' = "done" /\ answer' = "Cancelled"
    BY <1>9, <2>3 DEF Replay
  <2>. QED
    BY <1>1, <2>1, <2>2, <2>4 DEF IntactInv
<1>10. CASE Finalize
  <2>1. Finalizable
    BY <1>2, SoundLists DEF Finalizable, ListsAreSound, Intact, PlaceInv
  <2>2. phase' = "done" /\ answer' = "Recovered"
    BY <1>10, <2>1 DEF Finalize
  <2>. QED
    BY <2>2 DEF IntactInv
<1>11. CASE Cancel
  BY <1>1, <1>11 DEF Cancel, IntactInv
<1>12. CASE UNCHANGED vars
  BY <1>1, <1>12 DEF vars, IntactInv
<1>. QED
  BY <1>4, <1>5, <1>6, <1>7, <1>8, <1>9, <1>10, <1>11, <1>12 DEF Next, Rest

\* What the router is told is true: an intact image is recovered unless the user
\* stops the run, and a stop is told as a stop.
THEOREM AnswerAlwaysTrue == Spec => []AnswerIsTrue
<1>. DEFINE I == TypeOK /\ PlaceInv /\ IntactInv /\ StopInv
<1>1. Init => I
  BY InitType, InitIntact DEF Init, StopInv
<1>2. I /\ [Next]_vars => I'
  BY TypeStep, IntactKept, StopStep
<1>3. I => AnswerIsTrue
  BY DEF IntactInv, StopInv, Intact, AnswerIsTrue, StopIsTold
<1>. QED
  BY <1>1, <1>2, <1>3, PTL DEF Spec
-----------------------------------------------------------------------------
(***************************************************************************)
(* The recovered image.                                                     *)
(***************************************************************************)
LEMMA DisjointLists ==
  ASSUME job \in Jobs, ZerosAreDisjoint
  PROVE  Zeros \intersect Destinations = {}
<1>1. job.zeros \in Seq(ZeroRanges) /\ job.payloads.records \in Seq(Records)
  BY JobsAreTyped
<1>2. ASSUME NEW i \in DOMAIN job.zeros, NEW j \in DOMAIN job.payloads.records
      PROVE  Span(job.zeros[i]) \intersect Span(job.payloads.records[j]) = {}
  <2>. DEFINE z == job.zeros[i]
              d == job.payloads.records[j]
  <2>1. z \in ZeroRanges /\ d \in Records
    BY <1>1
  <2>2. z.first \in Nat /\ z.end \in Nat /\ d.first \in Nat /\ d.end \in Nat
    BY <2>1, JobsAreTyped DEF ZeroRanges, Records
  <2>3. d.end > z.first => z.end <= d.first
    BY DEF ZerosAreDisjoint
  <2>4. Cells \subseteq Nat
    BY JobsAreTyped
  <2>. HIDE DEF z, d
  <2>5. \A x \in Nat : ~(z.first <= x /\ x < z.end /\ d.first <= x /\ x < d.end)
    BY <2>2, <2>3
  <2>. QED
    BY <2>4, <2>5 DEF Span, z, d
<1>. QED
  BY <1>2 DEF Zeros, Destinations, Covered

\* The TLS directory and its template are put back exactly when the lists leave the
\* directory empty.
LEMMA TlsIsPutBack ==
  ASSUME NEW x \in Cells, job.controller = ShellDirectoryManifest,
         job.tls.directory \subseteq Cells,
         cells = Filled(BaseImage, Destinations, "payload")
  PROVE  FinalImage[x] = IF x \in PutBack \union PutBackForTls THEN "restored" ELSE cells[x]
<1> DEFINE image == WithRestoredHeader(cells)
           apart == /\ job.tls.directory \intersect (PutBack \union Destinations) = {}
                    /\ job.tls.directory \intersect Outer \subseteq Zeros
<1>1. PutBack = {Header} \union job.directories
  BY DEF PutBack
<1>2. BaseImage = Filled(WorkingImage, Zeros, "zero") /\ FinalImage = WithRestoredTls(image)
  BY BaseImages, FinalImages
<1>3. \A y \in Cells : cells[y] = IF y \in Destinations THEN "payload"
                                 ELSE IF y \in Zeros THEN "zero"
                                 ELSE IF y = Header THEN "prepared"
                                 ELSE IF y \in Outer THEN "scratch" ELSE "zero"
  BY <1>2 DEF Filled, WorkingImage
<1>4. \A y \in Cells : image[y] = IF y \in PutBack THEN "restored" ELSE cells[y]
  BY <1>1 DEF WithRestoredHeader, Filled
<1>5. \A y \in Cells : image[y] = "zero" <=>
                    (y \notin PutBack \union Destinations /\ (y \in Outer => y \in Zeros))
  <2>. HIDE DEF image
  <2>1. SUFFICES ASSUME NEW y \in Cells
                 PROVE  image[y] = "zero" <=>
                    (y \notin PutBack \union Destinations /\ (y \in Outer => y \in Zeros))
    OBVIOUS
  <2>2. y \notin PutBack => y # Header
    BY <1>1
  <2>3. image[y] = IF y \in PutBack THEN "restored" ELSE cells[y]
    BY <1>4
  <2>4. cells[y] = IF y \in Destinations THEN "payload" ELSE IF y \in Zeros THEN "zero"
                   ELSE IF y = Header THEN "prepared" ELSE IF y \in Outer THEN "scratch" ELSE "zero"
    BY <1>3
  <2>. QED
    BY <2>2, <2>3, <2>4
<1>. HIDE DEF image
<1>6. (\A y \in job.tls.directory : image[y] = "zero") <=> apart
  BY <1>5 DEF apart
<1> DEFINE free == \A y \in job.tls.directory : image[y] = "zero"
<1>9. TlsIsEmpty(image) <=> job.tls.blank \/ free
  BY Zenon DEF TlsIsEmpty
<1>10. PutBackForTls = IF job.tls.usable /\ (job.tls.blank \/ apart) /\ job.tls.directory # {}
                       THEN job.tls.directory \union job.tls.template ELSE {}
  BY Zenon DEF PutBackForTls
<1>7. PutBackForTls = IF job.tls.directory # {} /\ job.tls.usable /\ TlsIsEmpty(image)
                      THEN job.tls.directory \union job.tls.template ELSE {}
  <2>. HIDE DEF apart, free
  <2>1. free <=> apart
    BY <1>6 DEF free
  <2>. QED
    BY <1>9, <1>10, <2>1, Zenon
<1>8. FinalImage[x] = IF x \in PutBackForTls THEN "restored" ELSE image[x]
  BY <1>2, <1>7 DEF WithRestoredTls, Filled
<1>. QED
  BY <1>4, <1>8

\* What a finished image holds, cell by cell, whichever controller finished it.
LEMMA FinishedIsAccountedFor ==
  ASSUME NEW x \in Cells,
         cells = Filled(BaseImage, Destinations, "payload"),
         job.controller = ShellDirectoryManifest => job.tls.directory \subseteq Cells,
         job.controller = TerminalProfileDispatch => Zeros \intersect Destinations = {}
  PROVE  CellIsAccountedFor(x, FinalImage[x])
<1>1. \A image, places, content :
         Filled(image, places, content)[x] = IF x \in places THEN content ELSE image[x]
  BY DEF Filled
<1>2. /\ WorkingImage[x] = IF x = Header THEN "prepared" ELSE IF x \in Outer THEN "scratch" ELSE "zero"
      /\ MappedImage[x] \in {"header", "outer", "file"}
  BY DEF WorkingImage, MappedImage
<1>3. Prefilled(WorkingImage)[x] = IF job.managed /\ x \in Section THEN "file" ELSE WorkingImage[x]
  BY <1>1 DEF Prefilled
<1>4. cells[x] = IF x \in Destinations THEN "payload" ELSE BaseImage[x]
  BY <1>1
<1>13. job.controller # ShellDirectoryManifest => PutBackForTls = {}
  BY DEF PutBackForTls
<1>14. /\ FromFile = IF job.controller # ShellDirectoryManifest /\ job.managed THEN Section ELSE {}
       /\ StartsFromZeros <=>
             job.controller \in {ShellDirectoryManifest, CodecRelocation, StateAssetSelection}
  BY DEF FromFile, StartsFromZeros
<1>5. \A image : /\ WithRestoredHeader(image)[x] =
                      IF x \in {Header} \union job.directories THEN "restored" ELSE image[x]
                 /\ WithPristineOuter(image)[x] =
                      IF x \in Outer \ Destinations THEN "outer" ELSE image[x]
  BY <1>1 DEF WithRestoredHeader, WithPristineOuter
<1>6. TornDown(cells)[x] =
        IF x \in {Header} \union job.directories THEN "restored"
        ELSE IF ~(job.managed \/ job.controller = StateAssetSelection) /\ x \in Zeros THEN "zero"
        ELSE cells[x]
  BY <1>1, <1>5 DEF TornDown
<1>7. CASE job.controller = ShellDirectoryManifest
  <2>1. FinalImage[x] = IF x \in PutBack \union PutBackForTls THEN "restored" ELSE cells[x]
    BY <1>7, TlsIsPutBack
  <2>2. BaseImage[x] = IF x \in Zeros THEN "zero" ELSE WorkingImage[x]
    BY <1>1, <1>7, BaseImages
  <2>3. Header \in PutBack
    BY <1>7 DEF PutBack
  <2>. QED
    BY <1>2, <1>4, <1>7, <1>14, <2>1, <2>2, <2>3 DEF CellIsAccountedFor
<1>8. CASE job.controller = CodecRelocation /\ job.managed
  <2>1. FinalImage = TornDown(cells) /\ BaseImage = Prefilled(WorkingImage)
    BY <1>8, FinalImages, BaseImages
  <2>2. PutBack = {Header} \union job.directories /\ PutBackForTls = {}
    BY <1>8, <1>13, KindsDiffer DEF Kinds, PutBack
  <2>3. FinalImage[x] = IF x \in PutBack THEN "restored" ELSE cells[x]
    BY <1>6, <1>8, <2>1, <2>2
  <2>4. BaseImage[x] = IF x \in FromFile THEN "file" ELSE WorkingImage[x]
    BY <1>3, <1>8, <1>14, <2>1, KindsDiffer DEF Kinds
  <2>. QED
    BY <1>2, <1>4, <1>8, <1>14, <2>2, <2>3, <2>4 DEF CellIsAccountedFor
<1>9. CASE job.controller = CodecRelocation /\ ~job.managed
  <2>1. FinalImage = WithPristineOuter(cells) /\ BaseImage = Prefilled(WorkingImage)
    BY <1>9, FinalImages, BaseImages
  <2>2. PutBack = {} /\ PutBackForTls = {} /\ FromFile = {}
    BY <1>9, <1>13, <1>14, KindsDiffer DEF Kinds, PutBack
  <2>3. FinalImage[x] = IF x \in Outer \ Destinations THEN "outer" ELSE cells[x]
    BY <1>5, <2>1
  <2>4. BaseImage[x] = WorkingImage[x]
    BY <1>3, <1>9, <2>1
  <2>. QED
    BY <1>2, <1>4, <1>9, <1>14, <2>2, <2>3, <2>4 DEF CellIsAccountedFor
<1>10. CASE job.controller = StateAssetSelection
  <2>1. FinalImage = TornDown(cells) /\ BaseImage = Prefilled(WorkingImage)
    BY <1>10, FinalImages, BaseImages
  <2>2. PutBack = {Header} \union job.directories /\ PutBackForTls = {}
    BY <1>10, <1>13, KindsDiffer DEF Kinds, PutBack
  <2>3. FinalImage[x] = IF x \in PutBack THEN "restored" ELSE cells[x]
    BY <1>6, <1>10, <2>1, <2>2
  <2>4. BaseImage[x] = IF x \in FromFile THEN "file" ELSE WorkingImage[x]
    BY <1>3, <1>10, <1>14, <2>1, KindsDiffer DEF Kinds
  <2>. QED
    BY <1>2, <1>4, <1>10, <1>14, <2>2, <2>3, <2>4 DEF CellIsAccountedFor
<1>11. CASE job.controller = TerminalProfileDispatch /\ ~job.nested
  <2>1. FinalImage = TornDown(cells) /\ BaseImage = MappedImage
    BY <1>11, FinalImages, BaseImages, KindsDiffer DEF Kinds
  <2>2. PutBack = {Header} \union job.directories /\ PutBackForTls = {} /\ ~StartsFromZeros
    BY <1>11, <1>13, <1>14, KindsDiffer DEF Kinds, PutBack
  <2>3. x \in Zeros => x \notin Destinations
    BY <1>11
  <2>. QED
    BY <1>2, <1>4, <1>6, <2>1, <2>2, <2>3 DEF CellIsAccountedFor
<1>12. CASE job.controller \notin {ShellDirectoryManifest, CodecRelocation, StateAssetSelection}
            /\ (job.controller = TerminalProfileDispatch => job.nested)
  <2>1. FinalImage = cells /\ BaseImage = MappedImage
    BY <1>12, FinalImages, BaseImages
  <2>2. PutBack = {} /\ PutBackForTls = {} /\ ~StartsFromZeros
    BY <1>12, <1>13, <1>14 DEF PutBack
  <2>. QED
    BY <1>2, <1>4, <2>1, <2>2 DEF CellIsAccountedFor
<1>. QED
  BY <1>7, <1>8, <1>9, <1>10, <1>11, <1>12

\* What a cell may hold depends on the lists of the image alone.
LEMMA AccountDependsOnTheJob ==
  ASSUME job' = job
  PROVE  \A x, content : CellIsAccountedFor(x, content)' <=> CellIsAccountedFor(x, content)
<1>1. /\ Destinations' = Destinations /\ Zeros' = Zeros /\ PutBack' = PutBack
      /\ FromFile' = FromFile /\ (StartsFromZeros' <=> StartsFromZeros)
  BY DEF Destinations, Zeros, Covered, PutBack, FromFile, StartsFromZeros
<1>2. PutBackForTls' = PutBackForTls
  BY <1>1 DEF PutBackForTls
<1>. QED
  BY <1>1, <1>2 DEF CellIsAccountedFor

LEMMA CellsStep ==
  ASSUME TypeOK, PlaceInv, SettledInv, CellsInv, [Next]_vars
  PROVE  CellsInv'
<1>1. ASSUME job' = job, cells' = cells, phase' = phase, answer' = answer
      PROVE  CellsInv'
  <2>1. \A x, content : CellIsAccountedFor(x, content)' <=> CellIsAccountedFor(x, content)
    BY <1>1, AccountDependsOnTheJob
  <2>2. FinalImageIsAccountedFor => FinalImageIsAccountedFor'
    BY <1>1, <2>1 DEF FinalImageIsAccountedFor
  <2>3. BaseImage' = BaseImage /\ MappedImage' = MappedImage /\ Destinations' = Destinations
    BY <1>1 DEF MappedImage, BaseImage, WorkingImage, Prefilled, Filled, Destinations, Zeros, Covered
  <2>4. Filled(BaseImage, Destinations, "payload")' = Filled(BaseImage, Destinations, "payload")
    BY <2>3 DEF Filled
  <2>. QED
    BY <1>1, <2>2, <2>3, <2>4 DEF CellsInv
<1>2. ASSUME job' = job, answer' # "Recovered",
             \/ phase' = "done"
             \/ cells' = cells /\ phase' \in {"enter", "probe", "probed", "recover"}
                /\ phase \in {"enter", "probe", "probed", "recover"}
             \/ phase' = "replay" /\ cells' = BaseImage
             \/ phase = "replay" /\ phase' = "finalize"
                /\ cells' = Filled(cells, Destinations, "payload")
      PROVE  CellsInv'
  <2>1. BaseImage' = BaseImage /\ MappedImage' = MappedImage /\ Destinations' = Destinations
    BY <1>2 DEF MappedImage, BaseImage, WorkingImage, Prefilled, Filled, Destinations, Zeros, Covered
  <2>2. Filled(BaseImage, Destinations, "payload")' = Filled(BaseImage, Destinations, "payload")
    BY <2>1 DEF Filled
  <2>3. FinalImageIsAccountedFor'
    BY <1>2 DEF FinalImageIsAccountedFor
  <2>. QED
    BY <1>2, <2>1, <2>2, <2>3 DEF CellsInv
<1>3. phase # "done" => answer # "Recovered"
  BY DEF PlaceInv
<1>4. CASE EnterProbe
  BY <1>2, <1>3, <1>4 DEF EnterProbe
<1>5. CASE RunProgram
  <2>1. PICK luck \in BOOLEAN, refused \in BOOLEAN : TakeStep(luck, refused) \/ FailStep(luck, refused)
    BY <1>5 DEF RunProgram, Chances
  <2>2. CASE TakeStep(luck, refused)
    BY <1>1, <2>2 DEF TakeStep
  <2>3. CASE FailStep(luck, refused)
    <3>1. phase \in {"probe", "recover"} /\ job' = job /\ cells' = cells
      BY <1>5, <2>3 DEF RunProgram, FailStep
    <3>2. /\ phase' \in {"probed", "done"}
          /\ answer' # "Recovered"
      BY <1>3, <2>3, <3>1 DEF FailStep
    <3>. QED
      BY <1>2, <3>1, <3>2
  <2>. QED
    BY <2>1, <2>2, <2>3
<1>6. CASE EndProbe
  BY <1>2, <1>3, <1>6 DEF EndProbe
<1>7. CASE JudgeProbe
  <2>1. ProbeOutcome \in {"NotApplicable", "Cancelled", "Rejected", "Applicable"}
    BY OutcomesAreTyped DEF TypeOK
  <2>2. phase = "probed" /\ job' = job /\ cells' = cells
    BY <1>7 DEF JudgeProbe
  <2>3. phase' \in {"recover", "done"} /\ answer' # "Recovered"
    BY <1>3, <1>7, <2>1 DEF JudgeProbe
  <2>. QED
    BY <1>2, <2>2, <2>3
<1>8. CASE EndRecover
  BY <1>2, <1>3, <1>8 DEF EndRecover
<1>9. ASSUME NEW luck \in Chances, Replay(luck)
      PROVE  CellsInv'
  <2>1. job' = job /\ phase = "replay"
    BY <1>9 DEF Replay
  <2>2. answer' # "Recovered" /\ (phase' = "done" \/ (phase' = "finalize"
                                     /\ cells' = Filled(cells, Destinations, "payload")))
    BY <1>3, <1>9 DEF Replay
  <2>. QED
    BY <1>2, <2>1, <2>2
<1>10. CASE Finalize
  <2>1. phase = "finalize" /\ job' = job /\ phase' = "done"
    BY <1>10 DEF Finalize
  <2>2. CASE ~Finalizable
    <3>1. answer' # "Recovered"
      BY <1>10, <2>2 DEF Finalize
    <3>. QED
      BY <1>2, <2>1, <3>1
  <2>3. CASE Finalizable
    <3>1. cells' = FinalImage
      BY <1>10, <2>3 DEF Finalize
    <3>2. cells = Filled(BaseImage, Destinations, "payload")
      BY <2>1 DEF CellsInv
    <3>3. job.controller = TerminalProfileDispatch => Zeros \intersect Destinations = {}
      <4>1. HasPlan /\ job \in Jobs
        BY <2>1 DEF HasPlan, PlaceInv
      <4>. QED
        BY <4>1, PlanIsVouchedFor, DisjointLists
    <3>4. job.controller = ShellDirectoryManifest => job.tls.directory \subseteq Cells
      BY <2>3 DEF Finalizable
    <3>5. FinalImageIsAccountedFor'
      <4>1. \A x, content : CellIsAccountedFor(x, content)' <=> CellIsAccountedFor(x, content)
        BY <2>1, AccountDependsOnTheJob
      <4>2. SUFFICES ASSUME NEW x \in Cells
                     PROVE  CellIsAccountedFor(x, FinalImage[x])
        BY <3>1, <4>1 DEF FinalImageIsAccountedFor
      <4>. QED
        BY <3>2, <3>3, <3>4, FinishedIsAccountedFor
    <3>. QED
      BY <2>1, <3>5 DEF CellsInv
  <2>. QED
    BY <2>2, <2>3
<1>11. CASE Cancel
  BY <1>1, <1>11 DEF Cancel
<1>12. CASE UNCHANGED vars
  BY <1>1, <1>12 DEF vars
<1>. QED
  BY <1>4, <1>5, <1>6, <1>7, <1>8, <1>9, <1>10, <1>11, <1>12 DEF Next, Rest

\* Whatever the lists of an image say and whichever controller finishes it, every cell
\* of a recovered image is accounted for: payload where it was laid and not put back,
\* with TLS only put back over what holds nothing; zeros only where listed or where the
\* base image had nothing; and nothing of the controller's own working image but what the
\* three controllers that replay in it leave in the outer cells.
THEOREM FinalImageAlwaysAccountedFor == Spec => []FinalImageIsAccountedFor
<1>. DEFINE I == TypeOK /\ PlaceInv /\ SettledInv /\ CellsInv
<1>1. Init => I
  BY InitType, InitSettled DEF Init, CellsInv, FinalImageIsAccountedFor
<1>2. I /\ [Next]_vars => I'
  BY TypeStep, SettledStep, CellsStep
<1>3. I => FinalImageIsAccountedFor
  BY DEF CellsInv
<1>. QED
  BY <1>1, <1>2, <1>3, PTL DEF Spec
=============================================================================
