---------------------------- MODULE NestedProofs ----------------------------
(***************************************************************************)
(* Proofs about the nested records.                                         *)
(*                                                                         *)
(* Part 1 is about NestedGraph: the maps returned are those of the last     *)
(* generation of one graph, and the primary tier stays within its budget,   *)
(* for every set of maps, number of records and roots, and every budget.    *)
(*                                                                         *)
(* Part 2 is about NestedReplay: the bounded and parallel search for the    *)
(* key of one record answers what one thread that remembers every output    *)
(* would, for every set of outputs, number of keys, contexts and lanes, and *)
(* every size of the batches and of the result.                             *)
(***************************************************************************)
EXTENDS NestedGraph, NestedReplay, FiniteSetTheorems, SequenceTheorems, TLAPS

-----------------------------------------------------------------------------
(***************************************************************************)
(* Part 1.  The inductive invariant.                                        *)
(***************************************************************************)
InGraph == pc \in {"profile", "round", "pass", "record", "replay"}

\* Every generation and every output is that of a record that was processed.
GraphInv ==
    /\ graph.processed \subseteq 1 .. graph.records
    /\ Len(generations) <= Cardinality(graph.processed)
    /\ graph.outputs <= 2 * Cardinality(graph.processed)
    /\ graph.pass <= graph.outputs + 1
    /\ pc \in {"record", "replay"} => graph.pass <= graph.outputs
    /\ graph.next <= graph.records + 1
    /\ pc = "replay" => graph.next <= graph.records /\ graph.next \notin graph.processed

\* The maps in use are those of the last generation of this graph.
MapsInv ==
    /\ pc # "done" =>
          /\ result = Pending
          /\ maps = IF generations = <<>> THEN {} ELSE Last(generations)
    /\ pc \in {"tier", "profile"} => generations = <<>>
    /\ pc # "done" /\ image.outer # {} => tier = 1

\* The search is at a root of the image, under a checksum that root has.
RootInv ==
    /\ InGraph => /\ image.outer = {} /\ image.contexts = "bounded"
                  /\ root \in 1 .. Roots /\ checksum \in 1 .. image.checksums
                  /\ IsRooted(root) => checksum = 1
    /\ Roots = 0 => root = 0

\* What the scans did, a key of the legacy profile counted for as many scans as
\* a charge pays for.
Weight == IF extended THEN 1 ELSE MaxScans
KeysDone == MaxScans * work[FALSE].keys + work[TRUE].keys
BytesDone == MaxScans * work[FALSE].bytes + work[TRUE].bytes

\* What further scans of the same record can still do after the scan `s`.
Owed(s) ==
    IF extended
    THEN (IF s.form = "legacy" THEN ScanKeys(s) ELSE 0)
         + (IF s.keys = "direct" THEN 2 * Keys ELSE 0)
    ELSE IF s.keys = "direct" THEN MaxScans * (Keys - direct) ELSE 0

KeysOwed == IF pc = "replay" THEN Owed(scan) ELSE 0
BytesOwed == IF pc = "replay" THEN Owed(scan) * EncodedLength(graph.next) ELSE 0

\* What was charged pays for what was done and what is still owed, or was given
\* up.
BudgetInv ==
    /\ pc \in {"record", "replay"} => direct <= Keys
    /\ tier = 1 =>
          /\ KeysDone + MaxScans * budget.keys + KeysOwed <= MaxScans * KeyLimit
          /\ BytesDone + MaxScans * budget.bytes + BytesOwed <= MaxScans * ByteLimit

SearchInv ==
    /\ TypeOK /\ GraphInv /\ MapsInv /\ RootInv /\ BudgetInv /\ ResultIsLastGeneration

-----------------------------------------------------------------------------
(***************************************************************************)
(* Lemmas about the state.                                                  *)
(***************************************************************************)
Generation == (SUBSET Maps) \ {{}}

\* Bounded sequences.
LEMMA BoundedIsBounded ==
  ASSUME NEW S, NEW n \in Nat, NEW s
  PROVE  s \in BoundedSeq(S, n) <=> s \in Seq(S) /\ Len(s) <= n
<1>1. ASSUME s \in BoundedSeq(S, n) PROVE s \in Seq(S) /\ Len(s) <= n
  <2>1. PICK m \in 0 .. n : s \in [1 .. m -> S]
    BY <1>1 DEF BoundedSeq, SeqOf
  <2>. QED
    BY <2>1
<1>2. ASSUME s \in Seq(S), Len(s) <= n PROVE s \in BoundedSeq(S, n)
  <2>1. Len(s) \in 0 .. n /\ s \in [1 .. Len(s) -> S]
    BY <1>2
  <2>. QED
    BY <2>1 DEF BoundedSeq, SeqOf
<1>. QED
  BY <1>1, <1>2

\* The generations so far, and what the last one is.
LEMMA GenerationsAreTyped ==
  ASSUME TypeOK
  PROVE  /\ generations \in Seq(Generation) /\ Len(generations) <= MaxRecords
         /\ Len(generations) \in Nat
         /\ generations # <<>> =>
               Last(generations) \subseteq Maps /\ Last(generations) # {}
<1>1. generations \in Seq(Generation) /\ Len(generations) <= MaxRecords
  BY BoundedIsBounded, BoundsAreNatural DEF TypeOK, Generation
<1>2. ASSUME generations # <<>> PROVE Last(generations) \in Generation
  <2>1. Len(generations) \in 1 .. Len(generations)
    BY <1>1, <1>2
  <2>. QED
    BY <1>1, <2>1 DEF Last
<1>. QED
  BY <1>1, <1>2 DEF Generation

\* The records that were processed are counted.
LEMMA ProcessedAreCounted ==
  ASSUME TypeOK, GraphInv
  PROVE  /\ IsFiniteSet(graph.processed)
         /\ Cardinality(graph.processed) \in Nat
         /\ Cardinality(graph.processed) <= graph.records
         /\ graph.records \in 0 .. MaxRecords
<1>1. graph.records \in 0 .. MaxRecords /\ graph.processed \in SUBSET (1 .. graph.records)
  BY DEF TypeOK, GraphInv
<1>2. graph.records \in Int /\ graph.records >= 0
  BY <1>1, BoundsAreNatural
<1>3. /\ IsFiniteSet(1 .. graph.records)
      /\ Cardinality(1 .. graph.records) = IF 1 > graph.records THEN 0 ELSE graph.records - 1 + 1
  <2>1. \A n \in Int : /\ IsFiniteSet(1 .. n)
                      /\ Cardinality(1 .. n) = IF 1 > n THEN 0 ELSE n - 1 + 1
    BY FS_Interval
  <2>. QED
    BY <1>2, <2>1
<1>4. Cardinality(1 .. graph.records) = graph.records
  BY <1>2, <1>3
<1>. QED
  BY <1>1, <1>3, <1>4, FS_Subset, FS_CardinalityType

\* What was charged and what a record costs are numbers within the budget.
LEMMA KeysAreCounted ==
  ASSUME TypeOK
  PROVE  /\ Keys \in Nat /\ Keys > 0
         /\ EncodedLength(graph.next) \in Nat /\ Keys * EncodedLength(graph.next) \in Nat
         /\ \A e \in BOOLEAN : work[e].keys \in Nat /\ work[e].bytes \in Nat
         /\ KeysDone \in Nat /\ BytesDone \in Nat /\ direct \in Nat
         /\ budget.keys \in Nat /\ budget.bytes \in Nat
         /\ budget.keys <= KeyLimit /\ budget.bytes <= ByteLimit
<1>1. Bases \in {1, 2, 3} /\ Scalars \in {1, 2}
  BY DEF Bases, Scalars
<1>2. Keys \in Nat /\ Keys > 0
  BY <1>1 DEF Keys
<1>3. graph.next \in 1 .. MaxRecords + 1
  BY DEF TypeOK
<1>4. EncodedLength(graph.next) \in Nat
  BY <1>3, BoundsAreNatural DEF EncodedLength
<1>5. \A x, y \in Nat : x * y \in Nat
  OBVIOUS
<1>6. /\ \A e \in BOOLEAN : work[e].keys \in Nat /\ work[e].bytes \in Nat
      /\ direct \in 0 .. 6
      /\ budget.keys \in 0 .. KeyLimit /\ budget.bytes \in 0 .. ByteLimit
  BY DEF TypeOK
<1>7. \A n \in Nat : \A x \in 0 .. n : x \in Nat /\ x <= n
  OBVIOUS
<1>8. KeysDone \in Nat /\ BytesDone \in Nat
  <2>1. \A x, y \in Nat : 4 * x + y \in Nat
    OBVIOUS
  <2>. QED
    BY <1>6, <2>1 DEF KeysDone, BytesDone, MaxScans
<1>. QED
  BY <1>2, <1>4, <1>5, <1>6, <1>7, <1>8, BoundsAreNatural

\* A search that has not ended has returned nothing.
LEMMA NothingReturnedYet ==
  ASSUME SearchInv, pc # "done"
  PROVE  result = Pending
  BY DEF SearchInv, MapsInv

\* The graph before a record was looked at.
LEMMA NoGraphIsAGraph ==
  /\ NoGraph \in [records : 0 .. MaxRecords, processed : SUBSET Records,
                  outputs : 0 .. 2 * MaxRecords, pass : 0 .. 2 * MaxRecords + 1,
                  next : 1 .. MaxRecords + 1]
  /\ NoGraph.processed = {} /\ NoGraph.outputs = 0 /\ NoGraph.pass = 0 /\ NoGraph.next = 1
  /\ NoGraph.records = 0
  BY BoundsAreNatural DEF NoGraph

\* The empty sequence is one of generations.
LEMMA EmptyIsNoGeneration ==
  <<>> \in BoundedSeq(Generation, MaxRecords) /\ Len(<<>>) = 0
<1>1. <<>> \in Seq(Generation) /\ Len(<<>>) = 0
  OBVIOUS
<1>2. MaxRecords \in Nat /\ Len(<<>>) <= MaxRecords
  BY <1>1, BoundsAreNatural
<1>3. <<>> \in BoundedSeq(Generation, MaxRecords) <=>
         <<>> \in Seq(Generation) /\ Len(<<>>) <= MaxRecords
  BY <1>2, BoundedIsBounded
<1>. QED
  BY <1>1, <1>2, <1>3

\* Seq and the graph are typed as TypeOK says.
LEMMA GraphTyped ==
  ASSUME TypeOK
  PROVE  /\ graph \in [records : 0 .. MaxRecords, processed : SUBSET Records,
                       outputs : 0 .. 2 * MaxRecords, pass : 0 .. 2 * MaxRecords + 1,
                       next : 1 .. MaxRecords + 1]
         /\ image \in Image /\ Roots \in Nat /\ image.checksums \in 1 .. 2
         /\ image.rooted \in Nat /\ image.outer \subseteq Maps
         /\ image.contexts \in {"bounded", "too many"}
         /\ (image.contexts = "too many" => image.outer = {} /\ Roots = 0)
<1>1. /\ image \in [outer : SUBSET Maps, contexts : {"bounded", "too many"},
                    rooted : 0 .. MaxRoots, staged : 0 .. MaxRoots, checksums : 1 .. 2]
      /\ image.contexts = "too many" => image.outer = {} /\ image.rooted + image.staged = 0
  BY DEF TypeOK, Image
<1>2. /\ image.rooted \in 0 .. MaxRoots /\ image.staged \in 0 .. MaxRoots
      /\ image.checksums \in 1 .. 2 /\ image.outer \subseteq Maps
      /\ image.contexts \in {"bounded", "too many"}
  BY <1>1
<1>3. Roots \in Nat /\ image.rooted \in Nat
  <2>1. ASSUME NEW a \in 0 .. MaxRoots, NEW b \in 0 .. MaxRoots PROVE a \in Nat /\ a + b \in Nat
    BY BoundsAreNatural
  <2>. QED
    BY <1>2, <2>1 DEF Roots
<1>4. graph \in [records : 0 .. MaxRecords, processed : SUBSET Records,
                 outputs : 0 .. 2 * MaxRecords, pass : 0 .. 2 * MaxRecords + 1,
                 next : 1 .. MaxRecords + 1] /\ image \in Image
  BY DEF TypeOK
<1>. QED
  BY <1>1, <1>2, <1>3, <1>4 DEF Roots

\* The scans of a record have a number of keys, and owe one.
Scans == [keys : {"none", "direct", "rest", "all"}, form : {"legacy", "extended"}]

LEMMA ScansAreCounted ==
  ASSUME TypeOK, direct <= Keys, NEW s \in Scans
  PROVE  /\ ScanKeys(s) \in Nat /\ Owed(s) \in Nat
         /\ ScanKeys(s) * EncodedLength(graph.next) \in Nat
         /\ Owed(s) * EncodedLength(graph.next) \in Nat
<1>1. /\ Keys \in Nat /\ direct \in Nat /\ EncodedLength(graph.next) \in Nat
  BY KeysAreCounted
<1>2. /\ Keys - direct \in Nat /\ 2 * Keys \in Nat /\ 4 * (Keys - direct) \in Nat
  BY <1>1
<1>3. ScanKeys(s) \in Nat
  BY <1>1, <1>2 DEF ScanKeys
<1>4. \A x, y \in Nat : x * y \in Nat /\ x + y \in Nat
  OBVIOUS
<1>5. Owed(s) \in Nat
  <2>1. (IF s.form = "legacy" THEN ScanKeys(s) ELSE 0) \in Nat
    BY <1>3
  <2>2. (IF s.keys = "direct" THEN 2 * Keys ELSE 0) \in Nat
    BY <1>2
  <2>. QED
    BY <1>2, <1>4, <2>1, <2>2, Zenon DEF Owed, MaxScans
<1>. QED
  BY <1>1, <1>3, <1>4, <1>5

LEMMA OwedIsCounted ==
  ASSUME SearchInv
  PROVE  KeysOwed \in Nat /\ BytesOwed \in Nat
<1>1. CASE pc = "replay"
  <2>1. TypeOK /\ direct <= Keys /\ scan \in Scans
    BY <1>1 DEF SearchInv, BudgetInv, TypeOK, Scans
  <2>. QED
    BY <1>1, <2>1, ScansAreCounted DEF KeysOwed, BytesOwed
<1>2. CASE pc # "replay"
  BY <1>2 DEF KeysOwed, BytesOwed
<1>. QED
  BY <1>1, <1>2

\* What was given up is not charged back.
LEMMA BudgetIsKept ==
  ASSUME SearchInv, pc' # "replay", pc' = "record" => direct' <= Keys',
         UNCHANGED <<tier, work, budget>>
  PROVE  BudgetInv'
<1>1. /\ KeysOwed \in Nat /\ BytesOwed \in Nat /\ KeyLimit \in Nat /\ ByteLimit \in Nat
      /\ KeysDone \in Nat /\ BytesDone \in Nat /\ budget.keys \in Nat /\ budget.bytes \in Nat
  BY KeysAreCounted, OwedIsCounted, BoundsAreNatural DEF SearchInv
<1>2. tier = 1 => /\ KeysDone + MaxScans * budget.keys + KeysOwed <= MaxScans * KeyLimit
                  /\ BytesDone + MaxScans * budget.bytes + BytesOwed <= MaxScans * ByteLimit
  BY DEF SearchInv, BudgetInv
<1>3. \A d, x, o, l \in Nat : d + 4 * x + o <= 4 * l => d + 4 * x + 0 <= 4 * l
  OBVIOUS
<1>4. tier = 1 => /\ KeysDone + MaxScans * budget.keys + 0 <= MaxScans * KeyLimit
                  /\ BytesDone + MaxScans * budget.bytes + 0 <= MaxScans * ByteLimit
  BY <1>1, <1>2, <1>3, Zenon DEF MaxScans
<1>5. KeysDone' = KeysDone /\ BytesDone' = BytesDone /\ KeysOwed' = 0 /\ BytesOwed' = 0
  BY DEF KeysDone, BytesDone, KeysOwed, BytesOwed
<1>. QED
  BY <1>4, <1>5 DEF BudgetInv

\* One profile's work changes.
LEMMA OneProfileChanges ==
  ASSUME NEW R, NEW f \in [BOOLEAN -> R], NEW e \in BOOLEAN, NEW r \in R
  PROVE  /\ [f EXCEPT ![e] = r] \in [BOOLEAN -> R]
         /\ [f EXCEPT ![e] = r][e] = r
         /\ \A o \in BOOLEAN : o # e => [f EXCEPT ![e] = r][o] = f[o]
  OBVIOUS

\* A scan does as many keys as it has, weighed by the profile.
LEMMA ScanIsDone ==
  ASSUME SearchInv, direct <= Keys, tier = 1, NEW s \in Scans, work' = Scanned(s)
  PROVE  /\ work' \in [BOOLEAN -> [keys : Nat, bytes : Nat]]
         /\ KeysDone' = KeysDone + Weight * ScanKeys(s)
         /\ BytesDone' = BytesDone + Weight * (ScanKeys(s) * EncodedLength(graph.next))
<1> DEFINE k == ScanKeys(s)
           b == ScanKeys(s) * EncodedLength(graph.next)
           lk == work[FALSE].keys
           lb == work[FALSE].bytes
           ek == work[TRUE].keys
           eb == work[TRUE].bytes
<1>1. /\ work \in [BOOLEAN -> [keys : Nat, bytes : Nat]] /\ extended \in BOOLEAN
      /\ k \in Nat /\ b \in Nat
  BY ScansAreCounted DEF SearchInv, TypeOK
<1>2. work' = [work EXCEPT ![extended] = [keys |-> work[extended].keys + k,
                                          bytes |-> work[extended].bytes + b]]
  BY DEF Scanned
<1>. HIDE DEF k, b
<1>3. /\ work[FALSE] \in [keys : Nat, bytes : Nat] /\ work[TRUE] \in [keys : Nat, bytes : Nat]
  BY <1>1
<1>4. lk \in Nat /\ lb \in Nat /\ ek \in Nat /\ eb \in Nat /\ k \in Nat /\ b \in Nat
  BY <1>1, <1>3
<1>5. KeysDone = 4 * lk + ek /\ BytesDone = 4 * lb + eb
  BY DEF KeysDone, BytesDone, MaxScans
<1>6. CASE extended
  <2>1. /\ work'[TRUE] = [keys |-> ek + k, bytes |-> eb + b] /\ work'[FALSE] = work[FALSE]
        /\ work' \in [BOOLEAN -> [keys : Nat, bytes : Nat]]
    <3>1. extended = TRUE
      BY <1>1, <1>6
    <3>2. work' = [work EXCEPT ![TRUE] = [keys |-> ek + k, bytes |-> eb + b]]
      BY <1>2, <3>1
    <3>. HIDE DEF ek, eb
    <3>3. [keys |-> ek + k, bytes |-> eb + b] \in [keys : Nat, bytes : Nat]
      BY <1>4
    <3> DEFINE r == [keys |-> ek + k, bytes |-> eb + b]
    <3>4. TRUE \in BOOLEAN /\ FALSE \in BOOLEAN /\ FALSE # TRUE
      OBVIOUS
    <3>. HIDE DEF r
    <3>5. /\ [work EXCEPT ![TRUE] = r] \in [BOOLEAN -> [keys : Nat, bytes : Nat]]
          /\ [work EXCEPT ![TRUE] = r][TRUE] = r /\ [work EXCEPT ![TRUE] = r][FALSE] = work[FALSE]
      BY <1>1, <3>3, <3>4, OneProfileChanges, Zenon DEF r
    <3>. QED
      BY <3>2, <3>5, Zenon DEF r
  <2>2. KeysDone' = 4 * lk + (ek + k) /\ BytesDone' = 4 * lb + (eb + b) /\ Weight = 1
    BY <1>6, <2>1 DEF KeysDone, BytesDone, MaxScans, Weight
  <2>. HIDE DEF lk, lb, ek, eb
  <2>3. /\ 4 * lk + (ek + k) = (4 * lk + ek) + 1 * k
        /\ 4 * lb + (eb + b) = (4 * lb + eb) + 1 * b
    BY <1>4
  <2>4. KeysDone' = KeysDone + Weight * k /\ BytesDone' = BytesDone + Weight * b
    BY <1>5, <2>2, <2>3, Zenon
  <2>. QED
    BY <2>1, <2>4 DEF k, b
<1>7. CASE ~extended
  <2>1. /\ work'[FALSE] = [keys |-> lk + k, bytes |-> lb + b] /\ work'[TRUE] = work[TRUE]
        /\ work' \in [BOOLEAN -> [keys : Nat, bytes : Nat]]
    <3>1. extended = FALSE
      BY <1>1, <1>7
    <3>2. work' = [work EXCEPT ![FALSE] = [keys |-> lk + k, bytes |-> lb + b]]
      BY <1>2, <3>1
    <3>. HIDE DEF lk, lb
    <3>3. [keys |-> lk + k, bytes |-> lb + b] \in [keys : Nat, bytes : Nat]
      BY <1>4
    <3> DEFINE r == [keys |-> lk + k, bytes |-> lb + b]
    <3>4. FALSE \in BOOLEAN /\ TRUE \in BOOLEAN /\ TRUE # FALSE
      OBVIOUS
    <3>. HIDE DEF r
    <3>5. /\ [work EXCEPT ![FALSE] = r] \in [BOOLEAN -> [keys : Nat, bytes : Nat]]
          /\ [work EXCEPT ![FALSE] = r][FALSE] = r /\ [work EXCEPT ![FALSE] = r][TRUE] = work[TRUE]
      BY <1>1, <3>3, <3>4, OneProfileChanges, Zenon DEF r
    <3>. QED
      BY <3>2, <3>5, Zenon DEF r
  <2>2. KeysDone' = 4 * (lk + k) + ek /\ BytesDone' = 4 * (lb + b) + eb /\ Weight = 4
    BY <1>7, <2>1 DEF KeysDone, BytesDone, MaxScans, Weight
  <2>. HIDE DEF lk, lb, ek, eb
  <2>3. /\ 4 * (lk + k) + ek = (4 * lk + ek) + 4 * k
        /\ 4 * (lb + b) + eb = (4 * lb + eb) + 4 * b
    BY <1>4
  <2>4. KeysDone' = KeysDone + Weight * k /\ BytesDone' = BytesDone + Weight * b
    BY <1>5, <2>2, <2>3, Zenon
  <2>. QED
    BY <2>1, <2>4 DEF k, b
<1>. QED
  BY <1>6, <1>7

\* What keys cost, their bytes cost for each byte of the record.
LEMMA BytesFollowKeys ==
  ASSUME NEW w \in {1, 4}, NEW k \in Nat, NEW n \in Nat, NEW o \in Nat, NEW l \in Nat,
         w * k + n <= o
  PROVE  w * (k * l) + n * l <= o * l
<1>1. PICK r \in Nat : o = w * k + n + r
  <2>1. o - (w * k + n) \in Nat
    <3>1. w * k + n \in Nat
      OBVIOUS
    <3>. QED
      BY <3>1
  <2>. QED
    BY <2>1
<1>2. o * l = (w * k) * l + n * l + r * l
  BY <1>1
<1>3. (w * k) * l = w * (k * l)
  OBVIOUS
<1>4. r * l \in Nat /\ n * l \in Nat /\ w * (k * l) \in Nat
  <2>1. \A x, y \in Nat : x * y \in Nat
    OBVIOUS
  <2>. QED
    BY <2>1
<1>. QED
  BY <1>2, <1>3, <1>4

\* The numbers of a graph.
LEMMA GraphIsCounted ==
  ASSUME TypeOK
  PROVE  /\ graph.records \in Nat /\ graph.records <= MaxRecords /\ graph.outputs \in Nat
         /\ graph.pass \in Nat /\ graph.next \in Nat /\ graph.next > 0
         /\ graph.processed \subseteq Records /\ MaxRecords \in Nat
<1>1. /\ graph.records \in 0 .. MaxRecords /\ graph.outputs \in 0 .. 2 * MaxRecords
      /\ graph.pass \in 0 .. 2 * MaxRecords + 1 /\ graph.next \in 1 .. MaxRecords + 1
      /\ graph.processed \subseteq Records
  BY DEF TypeOK
<1>2. \A n \in Nat : /\ \A x \in 0 .. n : x \in Nat /\ x <= n
                     /\ \A x \in 0 .. 2 * n : x \in Nat
                     /\ \A x \in 0 .. 2 * n + 1 : x \in Nat
                     /\ \A x \in 1 .. n + 1 : x \in Nat /\ x > 0
  OBVIOUS
<1>. QED
  BY <1>1, <1>2, BoundsAreNatural

-----------------------------------------------------------------------------
(***************************************************************************)
(* What ends a tier or the search keeps the invariant.                      *)
(***************************************************************************)
LEMMA ReturnKeeps ==
  ASSUME SearchInv, NEW r \in [kind : {"maps", "too many", "cancelled"}, maps : SUBSET Maps],
         Return(r), ResultIsLastGeneration'
  PROVE  SearchInv'
<1>1. /\ result' = r /\ pc' = "done"
      /\ UNCHANGED <<image, tier, root, checksum, extended, graph, maps,
                     generations, direct, scan, budget, work>>
  BY DEF Return
<1>2. TypeOK'
  BY <1>1 DEF SearchInv, TypeOK, Roots
<1>3. GraphInv' /\ MapsInv' /\ RootInv'
  BY <1>1 DEF SearchInv, GraphInv, MapsInv, RootInv, InGraph, Roots
<1>4. BudgetInv'
  BY <1>1, BudgetIsKept
<1>. QED
  BY <1>2, <1>3, <1>4 DEF SearchInv

\* The search passes to the next tier.
LEMMA NextTierKeeps ==
  ASSUME SearchInv, pc # "done", tier < 3, tier = 1 => image.outer = {}, NextTier
  PROVE  SearchInv'
<1>1. /\ tier' = tier + 1 /\ pc' = "tier" /\ maps' = {} /\ generations' = <<>>
      /\ graph' = NoGraph /\ work' = NoWork
      /\ UNCHANGED <<image, root, checksum, extended, direct, scan, budget, result>>
  BY DEF NextTier
<1>2. tier \in 1 .. 3 /\ tier' \in 2 .. 3
  <2>1. tier \in 1 .. 3
    BY DEF SearchInv, TypeOK, Tiers
  <2>. QED
    BY <1>1, <2>1
<1>3. TypeOK'
  <2>1. generations' \in BoundedSeq((SUBSET Maps) \ {{}}, MaxRecords)
    BY <1>1, EmptyIsNoGeneration DEF Generation
  <2>2. tier' \in Tiers /\ Roots' = Roots
    BY <1>1, <1>2 DEF Tiers, Roots
  <2>3. /\ graph' \in [records : 0 .. MaxRecords, processed : SUBSET Records,
                  outputs : 0 .. 2 * MaxRecords, pass : 0 .. 2 * MaxRecords + 1,
                  next : 1 .. MaxRecords + 1]
        /\ work' \in [BOOLEAN -> [keys : Nat, bytes : Nat]]
    BY <1>1, NoGraphIsAGraph DEF NoWork
  <2>. QED
    BY <1>1, <2>1, <2>2, <2>3 DEF SearchInv, TypeOK
<1>4. GraphInv'
  BY <1>1, NoGraphIsAGraph, EmptyIsNoGeneration, FS_EmptySet DEF GraphInv
<1>5. image.outer = {}
  BY <1>2 DEF SearchInv, MapsInv
<1>6. MapsInv' /\ RootInv' /\ BudgetInv'
  BY <1>1, <1>2, <1>5, NothingReturnedYet
     DEF SearchInv, MapsInv, RootInv, InGraph, Roots, BudgetInv, Tiers
<1>7. ResultIsLastGeneration'
  BY <1>1, NothingReturnedYet DEF ResultIsLastGeneration, Pending, Failed
<1>. QED
  BY <1>3, <1>4, <1>6, <1>7 DEF SearchInv

\* A root fails.
LEMMA FailKeeps ==
  ASSUME SearchInv, pc # "done", image.outer = {},
         NEW e \in {"too many", "cancelled", "exhausted"}, e = "exhausted" => tier = 1,
         Fail(e)
  PROVE  SearchInv'
<1>1. CASE e = "exhausted"
  BY <1>1, NextTierKeeps DEF Fail
<1>2. CASE e # "exhausted"
  <2>1. Return(Failed(e))
    BY <1>2 DEF Fail
  <2>2. ResultIsLastGeneration'
    BY <1>2, <2>1 DEF Return, Failed, ResultIsLastGeneration
  <2>. QED
    BY <1>2, <2>1, <2>2, ReturnKeeps DEF Failed
<1>. QED
  BY <1>1, <1>2

\* A tier that ends with maps of the outer stage or of the last generation.
LEMMA EndWithMapsKeeps ==
  ASSUME SearchInv, pc # "done", NEW S \in SUBSET Maps, S # {}, EndTier(S),
         S = IF image.outer # {} THEN image.outer
             ELSE IF generations = <<>> THEN {} ELSE Last(generations)
  PROVE  SearchInv'
<1>1. Return(Found(S))
  BY DEF EndTier
<1>2. ResultIsLastGeneration'
  BY <1>1 DEF Return, Found, ResultIsLastGeneration
<1>. QED
  BY <1>1, <1>2, ReturnKeeps DEF Found

(***************************************************************************)
(* Trying the next root, of which there may be none.                        *)
(***************************************************************************)
LEMMA TryKeeps ==
  ASSUME SearchInv, pc # "done", generations = <<>>, image.outer = {},
         image.contexts = "bounded",
         NEW r \in 1 .. Roots + 1, NEW c \in 1 .. image.checksums,
         IsRooted(r) => c = 1,
         r > Roots => /\ root = Roots
                      /\ Roots > 0 => /\ extended
                                      /\ checksum = IF IsRooted(root) THEN 1
                                                    ELSE image.checksums,
         Try(r, c)
  PROVE  SearchInv'
<1>1. TypeOK /\ maps = {} /\ result = Pending
  BY DEF SearchInv, MapsInv
<1>2. /\ Roots \in Nat /\ image.checksums \in 1 .. 2 /\ tier \in Tiers
  BY <1>1, GraphTyped DEF TypeOK
<1>3. CASE r > Roots
  <2>1. EndTier({})
    BY <1>1, <1>3 DEF Try
  <2>2. CASE tier < 3
    BY <2>1, <2>2, NextTierKeeps DEF EndTier
  <2>3. CASE tier = 3
    <3>1. Return(Found({}))
      BY <2>1, <2>3 DEF EndTier
    <3>2. ResultIsLastGeneration'
      BY <1>3, <2>3, <3>1 DEF Return, Found, ResultIsLastGeneration, Roots, IsRooted
    <3>. QED
      BY <3>1, <3>2, ReturnKeeps DEF Found
  <2>. QED
    BY <1>2, <2>2, <2>3 DEF Tiers
<1>4. CASE ~(r > Roots)
  <2>1. /\ root' = r /\ checksum' = c /\ extended' = FALSE /\ pc' = "profile"
        /\ generations' = <<>> /\ maps' = {} /\ graph' = NoGraph
        /\ UNCHANGED <<image, tier, direct, scan, budget, work, result>>
    BY <1>1, <1>4 DEF Try
  <2>2. r \in 1 .. Roots /\ Roots' = Roots /\ c \in 0 .. 2
    BY <1>2, <1>4, <2>1 DEF Roots
  <2>3. TypeOK'
    <3>1. generations' \in BoundedSeq((SUBSET Maps) \ {{}}, MaxRecords)
      BY <2>1, EmptyIsNoGeneration DEF Generation
    <3>2. root' \in (0 .. Roots)' /\ checksum' \in 0 .. 2
      BY <1>2, <2>1, <2>2
    <3>. QED
      BY <1>1, <2>1, <3>1, <3>2, NoGraphIsAGraph DEF TypeOK
  <2>4. GraphInv'
    BY <2>1, NoGraphIsAGraph, EmptyIsNoGeneration, FS_EmptySet DEF GraphInv
  <2>5. MapsInv' /\ RootInv'
    BY <1>1, <1>2, <2>1, <2>2 DEF SearchInv, MapsInv, RootInv, InGraph, IsRooted
  <2>6. BudgetInv'
    BY <2>1, BudgetIsKept
  <2>7. ResultIsLastGeneration'
    BY <1>1, <2>1 DEF ResultIsLastGeneration, Pending, Failed
  <2>. QED
    BY <2>3, <2>4, <2>5, <2>6, <2>7 DEF SearchInv
<1>. QED
  BY <1>3, <1>4

-----------------------------------------------------------------------------
(***************************************************************************)
(* One lemma for each action.                                               *)
(***************************************************************************)
LEMMA StartKeeps == SearchInv /\ StartTier => SearchInv'
<1>. SUFFICES ASSUME SearchInv, StartTier PROVE SearchInv'
  OBVIOUS
<1>1. TypeOK /\ pc = "tier" /\ generations = <<>> /\ RootInv
  BY DEF SearchInv, StartTier, MapsInv
<1>2. /\ Roots \in Nat /\ image.checksums \in 1 .. 2 /\ image.outer \subseteq Maps
      /\ image.contexts \in {"bounded", "too many"}
      /\ image.contexts = "too many" => image.outer = {}
  BY <1>1, GraphTyped
<1>3. CASE image.contexts = "too many"
  BY <1>1, <1>2, <1>3, FailKeeps DEF StartTier
<1>4. CASE image.contexts # "too many" /\ image.outer # {}
  <2>1. EndTier(image.outer)
    BY <1>4 DEF StartTier
  <2>. QED
    BY <1>1, <1>2, <1>4, <2>1, EndWithMapsKeeps
<1>5. CASE image.contexts # "too many" /\ image.outer = {}
  <2>1. Try(1, 1) /\ image.contexts = "bounded"
    BY <1>2, <1>5 DEF StartTier
  <2>2. /\ 1 \in 1 .. Roots + 1 /\ 1 \in 1 .. image.checksums
        /\ 1 > Roots => Roots = 0 /\ ~(Roots > 0)
    <3>1. ASSUME NEW n \in Nat, NEW m \in 1 .. 2
          PROVE  1 \in 1 .. n + 1 /\ 1 \in 1 .. m /\ (1 > n => n = 0 /\ ~(n > 0))
      OBVIOUS
    <3>. QED
      BY <1>2, <3>1, Zenon
  <2>3. 1 > Roots => root = Roots /\ ~(Roots > 0)
    BY <1>1, <2>2 DEF RootInv
  <2>. QED
    BY <1>1, <1>5, <2>1, <2>2, <2>3, TryKeeps
<1>. QED
  BY <1>3, <1>4, <1>5

\* A profile of a graph begins.
LEMMA BeginProfileKeeps == SearchInv /\ BeginProfile => SearchInv'
<1>. SUFFICES ASSUME SearchInv, BeginProfile PROVE SearchInv'
  OBVIOUS
<1>1. TypeOK /\ pc = "profile" /\ generations = <<>> /\ image.outer = {} /\ result = Pending
  BY DEF SearchInv, BeginProfile, MapsInv, RootInv, InGraph
<1>2. ASSUME NEW n \in 0 .. MaxRecords,
             graph' = [NoGraph EXCEPT !.records = n], pc' = "round",
             UNCHANGED <<image, tier, root, checksum, extended, maps,
                         generations, direct, scan, budget, work, result>>
      PROVE  SearchInv'
  <2>1. /\ graph' \in [records : 0 .. MaxRecords, processed : SUBSET Records,
                       outputs : 0 .. 2 * MaxRecords, pass : 0 .. 2 * MaxRecords + 1,
                       next : 1 .. MaxRecords + 1]
        /\ graph'.processed = {} /\ graph'.outputs = 0 /\ graph'.pass = 0
        /\ graph'.next = 1 /\ graph'.records \in Nat
    BY <1>2, NoGraphIsAGraph, BoundsAreNatural DEF NoGraph
  <2>2. TypeOK' /\ Roots' = Roots
    BY <1>1, <1>2, <2>1 DEF TypeOK, Roots
  <2>3. GraphInv'
    <3>1. generations' = <<>> /\ Cardinality(graph'.processed) = 0 /\ pc' = "round"
      BY <1>1, <1>2, <2>1, FS_EmptySet
    <3>. QED
      BY <2>1, <3>1, EmptyIsNoGeneration DEF GraphInv
  <2>4. MapsInv' /\ RootInv' /\ ResultIsLastGeneration'
    BY <1>1, <1>2, <2>2
       DEF SearchInv, MapsInv, RootInv, InGraph, IsRooted, ResultIsLastGeneration, Pending, Failed
  <2>5. BudgetInv'
    BY <1>2, BudgetIsKept
  <2>. QED
    BY <2>2, <2>3, <2>4, <2>5 DEF SearchInv
<1>3. ASSUME NEW e \in {"cancelled", "too many"}, Fail(e) PROVE SearchInv'
  BY <1>1, <1>3, FailKeeps
<1>. QED
  BY <1>2, <1>3 DEF BeginProfile

(***************************************************************************)
(* A graph is done: with its maps, with the other profile still to be tried,*)
(* or with another root.                                                    *)
(***************************************************************************)
LEMMA EndGraphKeeps ==
  ASSUME SearchInv, pc \in {"round", "pass"}, EndGraph
  PROVE  SearchInv'
<1>1. /\ TypeOK /\ image.outer = {} /\ image.contexts = "bounded" /\ root \in 1 .. Roots
      /\ checksum \in 1 .. image.checksums /\ result = Pending
      /\ IsRooted(root) => checksum = 1
      /\ maps = IF generations = <<>> THEN {} ELSE Last(generations)
  BY DEF SearchInv, MapsInv, RootInv, InGraph
<1>2. Roots \in Nat /\ image.checksums \in 1 .. 2 /\ extended \in BOOLEAN
  BY <1>1, GraphTyped DEF TypeOK
<1>3. CASE generations # <<>>
  <2>1. EndTier(maps) /\ maps \subseteq Maps /\ maps # {}
    BY <1>1, <1>3, GenerationsAreTyped DEF EndGraph
  <2>. QED
    BY <1>1, <1>3, <2>1, EndWithMapsKeeps
<1>4. CASE generations = <<>> /\ ~extended
  <2>1. /\ extended' = TRUE /\ pc' = "profile"
        /\ UNCHANGED <<image, tier, root, checksum, graph, maps, generations,
                       direct, scan, budget, work, result>>
    BY <1>4 DEF EndGraph
  <2>2. TypeOK' /\ Roots' = Roots
    BY <1>1, <2>1 DEF TypeOK, Roots
  <2>3. GraphInv' /\ MapsInv' /\ RootInv' /\ ResultIsLastGeneration'
    BY <1>1, <1>4, <2>1, <2>2
       DEF SearchInv, GraphInv, MapsInv, RootInv, InGraph, IsRooted, ResultIsLastGeneration,
           Pending, Failed
  <2>4. BudgetInv'
    BY <2>1, BudgetIsKept
  <2>. QED
    BY <2>2, <2>3, <2>4 DEF SearchInv
<1>5. CASE generations = <<>> /\ extended
  <2>1. NextRoot
    BY <1>5 DEF EndGraph
  <2>2. CASE ~IsRooted(root) /\ checksum < image.checksums
    <3>1. Try(root, checksum + 1)
      BY <2>1, <2>2 DEF NextRoot
    <3>2. root \in 1 .. Roots + 1 /\ checksum + 1 \in 1 .. image.checksums /\ ~(root > Roots)
      BY <1>1, <1>2, <2>2
    <3>. QED
      BY <1>1, <1>5, <2>2, <3>1, <3>2, TryKeeps
  <2>3. CASE ~(~IsRooted(root) /\ checksum < image.checksums)
    <3>1. Try(root + 1, 1)
      BY <2>1, <2>3 DEF NextRoot
    <3>2. root + 1 \in 1 .. Roots + 1 /\ 1 \in 1 .. image.checksums
      BY <1>1, <1>2
    <3>3. root + 1 > Roots => root = Roots
      BY <1>1, <1>2
    <3>4. checksum = IF IsRooted(root) THEN 1 ELSE image.checksums
      BY <1>1, <1>2, <2>3
    <3>. QED
      BY <1>1, <1>5, <3>1, <3>2, <3>3, <3>4, TryKeeps
  <2>. QED
    BY <2>2, <2>3
<1>. QED
  BY <1>2, <1>3, <1>4, <1>5

\* A step within a graph that only moves the search on.
LEMMA MovingKeeps ==
  ASSUME SearchInv, InGraph, pc' \in {"pass", "record"},
         graph' \in [records : 0 .. MaxRecords, processed : SUBSET Records,
                     outputs : 0 .. 2 * MaxRecords, pass : 0 .. 2 * MaxRecords + 1,
                     next : 1 .. MaxRecords + 1],
         graph'.records = graph.records, graph'.processed = graph.processed,
         graph'.outputs = graph.outputs, graph'.pass <= graph.outputs + 1,
         pc' = "record" => graph'.pass <= graph.outputs,
         graph'.next <= graph.records + 1,
         UNCHANGED <<image, tier, root, checksum, extended, maps, generations, budget, result,
                     work>>,
         BudgetInv', direct' \in 0 .. 6, scan' \in Scans
  PROVE  SearchInv'
<1>1. TypeOK' /\ Roots' = Roots
  BY DEF SearchInv, TypeOK, Roots, Scans
<1>2. GraphInv'
  BY DEF SearchInv, GraphInv
<1>3. MapsInv' /\ RootInv' /\ ResultIsLastGeneration'
  BY <1>1 DEF SearchInv, MapsInv, RootInv, InGraph, IsRooted, ResultIsLastGeneration
<1>. QED
  BY <1>1, <1>2, <1>3 DEF SearchInv

\* A round begins.
LEMMA BeginRoundKeeps == SearchInv /\ BeginRound => SearchInv'
<1>. SUFFICES ASSUME SearchInv, BeginRound PROVE SearchInv'
  OBVIOUS
<1>1. TypeOK /\ GraphInv /\ pc = "round"
  BY DEF SearchInv, BeginRound
<1>2. CASE Cardinality(graph.processed) = graph.records
  BY <1>1, <1>2, EndGraphKeeps DEF BeginRound
<1>3. CASE Cardinality(graph.processed) # graph.records
  <2>1. /\ graph' = [graph EXCEPT !.pass = 0, !.next = 1] /\ pc' = "pass"
        /\ UNCHANGED <<image, tier, root, checksum, extended, maps,
                       generations, direct, scan, budget, work, result>>
    BY <1>3 DEF BeginRound
  <2>2. /\ graph \in [records : 0 .. MaxRecords, processed : SUBSET Records,
                      outputs : 0 .. 2 * MaxRecords, pass : 0 .. 2 * MaxRecords + 1,
                      next : 1 .. MaxRecords + 1]
        /\ graph.outputs \in Nat /\ graph.records \in Nat
        /\ 0 \in 0 .. 2 * MaxRecords + 1 /\ 1 \in 1 .. MaxRecords + 1
    <3>1. \A n \in Nat : 0 \in 0 .. 2 * n + 1 /\ 1 \in 1 .. n + 1
      OBVIOUS
    <3>. QED
      BY <1>1, <3>1, GraphTyped, GraphIsCounted
  <2>3. /\ graph' \in [records : 0 .. MaxRecords, processed : SUBSET Records,
                       outputs : 0 .. 2 * MaxRecords, pass : 0 .. 2 * MaxRecords + 1,
                       next : 1 .. MaxRecords + 1]
        /\ graph'.records = graph.records /\ graph'.processed = graph.processed
        /\ graph'.outputs = graph.outputs /\ graph'.pass = 0 /\ graph'.next = 1
    BY <2>1, <2>2
  <2>4. BudgetInv'
    BY <2>1, BudgetIsKept
  <2>5. direct' \in 0 .. 6 /\ scan' \in Scans
    BY <1>1, <2>1 DEF TypeOK, Scans
  <2>. QED
    BY <1>1, <2>1, <2>2, <2>3, <2>4, <2>5, MovingKeeps DEF InGraph
<1>. QED
  BY <1>2, <1>3

\* A pass begins.
LEMMA BeginPassKeeps == SearchInv /\ BeginPass => SearchInv'
<1>. SUFFICES ASSUME SearchInv, BeginPass PROVE SearchInv'
  OBVIOUS
<1>1. TypeOK /\ GraphInv /\ pc = "pass" /\ image.outer = {}
  BY DEF SearchInv, BeginPass, RootInv, InGraph
<1>2. CASE graph.pass > graph.outputs
  BY <1>1, <1>2, EndGraphKeeps DEF BeginPass
<1>3. ASSUME ~(graph.pass > graph.outputs), NEW s \in DirectScalars, direct' = Bases * s,
             pc' = "record",
             UNCHANGED <<image, tier, root, checksum, extended, graph, maps,
                         generations, scan, budget, work, result>>
      PROVE  SearchInv'
  <2>1. /\ graph.outputs \in Nat /\ graph.pass \in Nat /\ graph.next <= graph.records + 1
        /\ graph.pass <= graph.outputs
    BY <1>1, <1>3, GraphIsCounted DEF GraphInv
  <2>2. direct' \in 0 .. 6 /\ direct' <= Keys'
    <3>1. Bases \in {1, 2, 3} /\ Scalars \in {1, 2} /\ s \in 0 .. Scalars
      BY DEF Bases, Scalars, DirectScalars
    <3>2. \A x \in {1, 2, 3}, y \in {1, 2} : \A z \in 0 .. y : x * z \in 0 .. 6 /\ x * z <= x * y
      OBVIOUS
    <3>3. Keys' = Bases * Scalars
      BY <1>3 DEF Keys, Bases, Scalars
    <3>. QED
      BY <1>3, <3>1, <3>2, <3>3
  <2>5. BudgetInv'
    BY <1>3, <2>2, BudgetIsKept
  <2>3. /\ graph' \in [records : 0 .. MaxRecords, processed : SUBSET Records,
                       outputs : 0 .. 2 * MaxRecords, pass : 0 .. 2 * MaxRecords + 1,
                       next : 1 .. MaxRecords + 1]
        /\ graph' = graph /\ scan' \in Scans
    BY <1>1, <1>3 DEF TypeOK, Scans
  <2>4. graph'.pass <= graph.outputs + 1
    BY <2>1, <2>3
  <2>. QED
    BY <1>1, <1>3, <2>1, <2>2, <2>3, <2>4, <2>5, MovingKeeps DEF InGraph
<1>4. CASE Fail("too many")
  BY <1>1, <1>4, FailKeeps
<1>. QED
  BY <1>2, <1>3, <1>4 DEF BeginPass

(***************************************************************************)
(* The charge of a record is taken from the budget before its first scan,   *)
(* and pays for all the scans the record can get.                            *)
(***************************************************************************)
LEMMA ChargeIsTaken ==
  ASSUME SearchInv, pc = "record", CanAfford, pc' = "replay",
         budget' = IF tier > 1 THEN budget ELSE Charged,
         NEW s \in Scans,
         s = [keys |-> IF direct > 0 THEN "direct" ELSE "all", form |-> "legacy"],
         Scan(s),
         UNCHANGED <<image, tier, root, checksum, extended, graph, maps,
                     generations, direct, result>>
  PROVE  /\ BudgetInv' /\ budget' \in [keys : 0 .. KeyLimit, bytes : 0 .. ByteLimit]
         /\ work' \in [BOOLEAN -> [keys : Nat, bytes : Nat]]
<1> DEFINE l == EncodedLength(graph.next)
           b == Keys * l
<1>1. /\ Keys \in Nat /\ b \in Nat /\ l \in Nat /\ KeysDone \in Nat /\ BytesDone \in Nat
      /\ budget.keys \in Nat /\ budget.bytes \in Nat /\ KeyLimit \in Nat /\ ByteLimit \in Nat
      /\ budget.keys <= KeyLimit /\ budget.bytes <= ByteLimit
      /\ direct \in Nat /\ direct <= Keys /\ extended \in BOOLEAN
      /\ work \in [BOOLEAN -> [keys : Nat, bytes : Nat]]
  BY KeysAreCounted, BoundsAreNatural DEF SearchInv, BudgetInv, TypeOK
<1>2. /\ Keys' = Keys /\ EncodedLength(graph.next)' = l /\ direct' = direct /\ scan' = s
      /\ Owed(scan)' = Owed(s)
  BY DEF Keys, Bases, Scalars, EncodedLength, Scan, Owed, ScanKeys
<1>3. tier \in 1 .. 3
  BY DEF SearchInv, TypeOK, Tiers
<1>4. CASE tier > 1
  <2>1. budget' = budget /\ work' = work /\ tier' # 1
    BY <1>3, <1>4 DEF Scan, Scanned
  <2>. QED
    BY <1>1, <1>2, <2>1 DEF BudgetInv, SearchInv, TypeOK
<1>5. CASE tier = 1
  <2>1. /\ budget'.keys = budget.keys - Keys /\ budget'.bytes = budget.bytes - b
        /\ budget' = [keys |-> budget.keys - Keys, bytes |-> budget.bytes - b]
    BY <1>5 DEF Charged
  <2>2. budget.keys >= Keys /\ budget.bytes >= b
    BY <1>5 DEF CanAfford
  <2>3. /\ KeysDone + 4 * budget.keys + 0 <= 4 * KeyLimit
        /\ BytesDone + 4 * budget.bytes + 0 <= 4 * ByteLimit
    BY <1>5 DEF SearchInv, BudgetInv, KeysOwed, BytesOwed, MaxScans
  <2>4. /\ work' \in [BOOLEAN -> [keys : Nat, bytes : Nat]]
        /\ KeysDone' = KeysDone + Weight * ScanKeys(s)
        /\ BytesDone' = BytesDone + Weight * (ScanKeys(s) * l)
        /\ ScanKeys(s) \in Nat /\ Owed(s) \in Nat /\ Weight \in {1, 4}
    BY <1>1, <1>5, ScanIsDone, ScansAreCounted DEF Scan, SearchInv, Weight, MaxScans
  <2>5. Weight * ScanKeys(s) + Owed(s) <= 4 * Keys
    BY <1>1 DEF Weight, Owed, ScanKeys, MaxScans
  <2>6. Weight * (ScanKeys(s) * l) + Owed(s) * l <= 4 * b
    <3>1. 4 * Keys \in Nat /\ (4 * Keys) * l = 4 * b
      BY <1>1
    <3>. QED
      BY <1>1, <2>4, <2>5, <3>1, BytesFollowKeys
  <2> DEFINE wk == Weight * ScanKeys(s)
             wb == Weight * (ScanKeys(s) * l)
             ok == Owed(s)
             ob == Owed(s) * l
  <2>7. wk \in Nat /\ wb \in Nat /\ ok \in Nat /\ ob \in Nat
    <3>1. \A x, y \in Nat : x * y \in Nat
      OBVIOUS
    <3>2. Weight \in Nat
      BY <2>4
    <3>. QED
      BY <1>1, <2>4, <3>1, <3>2
  <2>. HIDE DEF b, wk, wb, ok, ob
  <2>8. /\ (KeysDone + wk) + 4 * (budget.keys - Keys) + ok <= 4 * KeyLimit
        /\ (BytesDone + wb) + 4 * (budget.bytes - b) + ob <= 4 * ByteLimit
    <3>1. wk + ok <= 4 * Keys /\ wb + ob <= 4 * b
      BY <2>5, <2>6 DEF wk, wb, ok, ob
    <3>. QED
      BY <1>1, <2>2, <2>3, <2>7, <3>1
  <2>9. /\ budget.keys - Keys \in 0 .. KeyLimit /\ budget.bytes - b \in 0 .. ByteLimit
    BY <1>1, <2>2
  <2>10. KeysOwed' = ok /\ BytesOwed' = ob /\ KeysDone' = KeysDone + wk /\ BytesDone' = BytesDone + wb
    BY <1>2, <2>4 DEF KeysOwed, BytesOwed, ok, ob, wk, wb
  <2>11. BudgetInv'
    BY <1>1, <1>2, <2>1, <2>8, <2>10, Zenon DEF BudgetInv, MaxScans
  <2>. QED
    BY <2>1, <2>4, <2>9, <2>11
<1>. QED
  BY <1>3, <1>4, <1>5

\* A record is charged to the budget, or does not fit it.
LEMMA ChargeKeeps == SearchInv /\ ChargeRecord => SearchInv'
<1>. SUFFICES ASSUME SearchInv, ChargeRecord PROVE SearchInv'
  OBVIOUS
<1>1. TypeOK /\ GraphInv /\ pc = "record" /\ image.outer = {} /\ tier \in 1 .. 3
  BY DEF SearchInv, ChargeRecord, RootInv, InGraph, TypeOK, Tiers
<1>2. /\ graph \in [records : 0 .. MaxRecords, processed : SUBSET Records,
                       outputs : 0 .. 2 * MaxRecords, pass : 0 .. 2 * MaxRecords + 1,
                       next : 1 .. MaxRecords + 1]
      /\ graph.records \in Nat /\ graph.records <= MaxRecords /\ graph.outputs \in Nat
      /\ graph.pass \in Nat /\ graph.next \in Nat /\ graph.next > 0 /\ MaxRecords \in Nat
      /\ graph.pass <= graph.outputs /\ graph.next <= graph.records + 1
  BY <1>1, GraphTyped, GraphIsCounted DEF GraphInv
<1>3. direct \in 0 .. 6 /\ scan \in Scans /\ direct <= Keys
  BY <1>1 DEF TypeOK, Scans, SearchInv, BudgetInv
<1>4. CASE graph.next > graph.records
  <2>1. /\ graph' = [graph EXCEPT !.pass = @ + 1, !.next = 1] /\ pc' = "pass"
        /\ direct' = 0
        /\ UNCHANGED <<scan, budget, work, image, tier, root, checksum, extended,
                       maps, generations, result>>
    BY <1>4 DEF ChargeRecord
  <2>2. graph.outputs \in 0 .. 2 * MaxRecords
    BY <1>1 DEF TypeOK
  <2>3. graph.pass + 1 \in 0 .. 2 * MaxRecords + 1 /\ 1 \in 1 .. MaxRecords + 1
    BY <1>2, <2>2
  <2>4. /\ graph' \in [records : 0 .. MaxRecords, processed : SUBSET Records,
                       outputs : 0 .. 2 * MaxRecords, pass : 0 .. 2 * MaxRecords + 1,
                       next : 1 .. MaxRecords + 1]
        /\ graph'.records = graph.records /\ graph'.processed = graph.processed
        /\ graph'.outputs = graph.outputs /\ graph'.pass = graph.pass + 1 /\ graph'.next = 1
    BY <1>2, <2>1, <2>3
  <2>5. graph'.pass <= graph.outputs + 1 /\ graph'.next <= graph.records + 1
    BY <1>2, <2>4
  <2>6. BudgetInv'
    BY <2>1, BudgetIsKept
  <2>. QED
    BY <1>1, <1>3, <2>1, <2>4, <2>5, <2>6, MovingKeeps DEF InGraph
<1>5. CASE ~(graph.next > graph.records) /\ graph.next \in graph.processed
  <2>1. /\ graph' = [graph EXCEPT !.next = @ + 1] /\ pc' = pc
        /\ UNCHANGED <<direct, scan, budget, work, image, tier, root, checksum, extended,
                       maps, generations, result>>
    BY <1>5 DEF ChargeRecord
  <2>2. graph.next + 1 \in 1 .. MaxRecords + 1 /\ graph.next + 1 <= graph.records + 1
    BY <1>2, <1>5
  <2>3. /\ graph' \in [records : 0 .. MaxRecords, processed : SUBSET Records,
                       outputs : 0 .. 2 * MaxRecords, pass : 0 .. 2 * MaxRecords + 1,
                       next : 1 .. MaxRecords + 1]
        /\ graph'.records = graph.records /\ graph'.processed = graph.processed
        /\ graph'.outputs = graph.outputs /\ graph'.pass = graph.pass
        /\ graph'.next = graph.next + 1
    BY <1>2, <2>1, <2>2
  <2>4. graph'.pass <= graph.outputs + 1
    BY <1>2, <2>3
  <2>6. Keys' = Keys
    BY <2>1, <2>3 DEF Keys, Bases, Scalars
  <2>5. BudgetInv'
    BY <1>1, <1>3, <2>1, <2>6, BudgetIsKept
  <2>. QED
    BY <1>1, <1>2, <1>3, <2>1, <2>2, <2>3, <2>4, <2>5, MovingKeeps DEF InGraph
<1>6. CASE ~(graph.next > graph.records) /\ graph.next \notin graph.processed /\ ~CanAfford
  <2>1. Fail("exhausted")
    BY <1>6 DEF ChargeRecord
  <2>2. tier = 1
    BY <1>1, <1>6 DEF CanAfford
  <2>. QED
    BY <1>1, <2>1, <2>2, FailKeeps
<1>7. CASE ~(graph.next > graph.records) /\ graph.next \notin graph.processed /\ CanAfford
  <2> DEFINE first == [keys |-> IF direct > 0 THEN "direct" ELSE "all", form |-> "legacy"]
  <2>1. /\ budget' = IF tier > 1 THEN budget ELSE Charged
        /\ pc' = "replay" /\ Scan(first)
        /\ UNCHANGED <<image, tier, root, checksum, extended, graph, maps,
                       generations, direct, result>>
    BY <1>7 DEF ChargeRecord
  <2>2. first \in Scans
    BY DEF Scans
  <2>3. /\ BudgetInv' /\ budget' \in [keys : 0 .. KeyLimit, bytes : 0 .. ByteLimit]
        /\ work' \in [BOOLEAN -> [keys : Nat, bytes : Nat]] /\ scan' \in Scans
    BY <1>1, <1>7, <2>1, <2>2, ChargeIsTaken DEF Scan
  <2>4. TypeOK' /\ Roots' = Roots
    BY <1>1, <2>1, <2>3 DEF TypeOK, Roots, Scans
  <2>5. GraphInv'
    BY <1>1, <1>2, <1>7, <2>1 DEF GraphInv
  <2>6. MapsInv' /\ RootInv' /\ ResultIsLastGeneration'
    BY <1>1, <2>1, <2>4
       DEF SearchInv, MapsInv, RootInv, InGraph, IsRooted, ResultIsLastGeneration
  <2>. QED
    BY <2>3, <2>4, <2>5, <2>6 DEF SearchInv
<1>. QED
  BY <1>4, <1>5, <1>6, <1>7

\* A further scan is paid for by what the one before still owed.
LEMMA RescanKeeps ==
  ASSUME SearchInv, pc = "replay", NEW s \in Scans, Rescan(s),
         Weight * ScanKeys(s) + Owed(s) <= Owed(scan)
  PROVE  SearchInv'
<1> DEFINE l == EncodedLength(graph.next)
<1>1. /\ TypeOK /\ pc' = "replay" /\ scan' = s /\ work' = Scanned(s)
      /\ UNCHANGED <<pc, image, tier, root, checksum, extended, graph, maps,
                     generations, direct, budget, result>>
  BY DEF Rescan, Scan, SearchInv
<1>2. /\ l \in Nat /\ KeysDone \in Nat /\ BytesDone \in Nat /\ direct <= Keys
      /\ budget.keys \in Nat /\ budget.bytes \in Nat /\ KeyLimit \in Nat /\ ByteLimit \in Nat
      /\ tier \in 1 .. 3 /\ scan \in Scans /\ Weight \in {1, 4}
  BY <1>1, KeysAreCounted, BoundsAreNatural
     DEF SearchInv, BudgetInv, TypeOK, Tiers, Scans, Weight, MaxScans
<1>3. /\ ScanKeys(s) \in Nat /\ Owed(s) \in Nat /\ Owed(scan) \in Nat
  BY <1>1, <1>2, ScansAreCounted
<1>4. Keys' = Keys /\ EncodedLength(graph.next)' = l /\ Owed(scan)' = Owed(s)
  BY <1>1 DEF Keys, Bases, Scalars, EncodedLength, Owed, ScanKeys
<1>5. BudgetInv' /\ work' \in [BOOLEAN -> [keys : Nat, bytes : Nat]]
  <2>1. CASE tier > 1
    <3>1. work' = work /\ tier' # 1
      BY <1>1, <1>2, <2>1 DEF Scanned
    <3>. QED
      BY <1>1, <1>2, <1>4, <3>1 DEF BudgetInv, TypeOK
  <2>2. CASE tier = 1
    <3>1. /\ work' \in [BOOLEAN -> [keys : Nat, bytes : Nat]]
          /\ KeysDone' = KeysDone + Weight * ScanKeys(s)
          /\ BytesDone' = BytesDone + Weight * (ScanKeys(s) * l)
      BY <1>1, <1>2, <2>2, ScanIsDone
    <3>2. Weight * (ScanKeys(s) * l) + Owed(s) * l <= Owed(scan) * l
      BY <1>2, <1>3, BytesFollowKeys
    <3>3. /\ KeysDone + 4 * budget.keys + Owed(scan) <= 4 * KeyLimit
          /\ BytesDone + 4 * budget.bytes + Owed(scan) * l <= 4 * ByteLimit
      BY <2>2 DEF SearchInv, BudgetInv, KeysOwed, BytesOwed, MaxScans
    <3> DEFINE wk == Weight * ScanKeys(s)
               wb == Weight * (ScanKeys(s) * l)
               nb == Owed(s) * l
               ob == Owed(scan) * l
    <3>4. wk \in Nat /\ wb \in Nat /\ nb \in Nat /\ ob \in Nat
      <4>1. \A x, y \in Nat : x * y \in Nat
        OBVIOUS
      <4>2. Weight \in Nat
        BY <1>2
      <4>. QED
        BY <1>2, <1>3, <4>1, <4>2
    <3>5. /\ wk + Owed(s) <= Owed(scan) /\ wb + nb <= ob
      BY <3>2
    <3>6. \A d, x, w, n, o, k \in Nat :
             d + 4 * x + o <= 4 * k /\ w + n <= o => (d + w) + 4 * x + n <= 4 * k
      OBVIOUS
    <3>. HIDE DEF wk, wb, nb, ob, l
    <3>7. /\ (KeysDone + wk) + 4 * budget.keys + Owed(s) <= 4 * KeyLimit
          /\ (BytesDone + wb) + 4 * budget.bytes + nb <= 4 * ByteLimit
      BY <1>2, <1>3, <3>3, <3>4, <3>5, <3>6 DEF ob
    <3>8. /\ KeysOwed' = Owed(s) /\ BytesOwed' = nb
          /\ KeysDone' = KeysDone + wk /\ BytesDone' = BytesDone + wb
      BY <1>1, <1>4, <3>1 DEF KeysOwed, BytesOwed, nb, wk, wb
    <3>. QED
      BY <1>1, <1>2, <1>4, <3>1, <3>7, <3>8 DEF BudgetInv, MaxScans
  <2>. QED
    BY <1>2, <2>1, <2>2
<1>6. TypeOK' /\ Roots' = Roots
  BY <1>1, <1>5 DEF TypeOK, Roots, Scans
<1>7. GraphInv' /\ MapsInv' /\ RootInv' /\ ResultIsLastGeneration'
  BY <1>1, <1>6
     DEF SearchInv, GraphInv, MapsInv, RootInv, InGraph, IsRooted, ResultIsLastGeneration
<1>. QED
  BY <1>5, <1>6, <1>7 DEF SearchInv

\* The three further scans.
LEMMA ScansKeep == SearchInv /\ (WidenScan \/ ScanRest \/ ScanAll) => SearchInv'
<1>. SUFFICES ASSUME SearchInv, WidenScan \/ ScanRest \/ ScanAll PROVE SearchInv'
  OBVIOUS
<1>1. /\ pc = "replay" /\ scan \in Scans /\ Keys \in Nat /\ direct \in Nat /\ direct <= Keys
      /\ extended \in BOOLEAN
  BY KeysAreCounted DEF SearchInv, BudgetInv, TypeOK, Scans, WidenScan, ScanRest, ScanAll
<1>2. CASE WidenScan
  <2> DEFINE s == [scan EXCEPT !.form = "extended"]
  <2>1. /\ s \in Scans /\ s.keys = scan.keys /\ s.form = "extended" /\ scan.form = "legacy"
        /\ extended /\ Rescan(s)
    BY <1>1, <1>2 DEF WidenScan, Scans
  <2>2. ScanKeys(s) = ScanKeys(scan) /\ ScanKeys(s) \in Nat
    BY <1>1, <2>1 DEF ScanKeys
  <2>. HIDE DEF s
  <2>3. Weight * ScanKeys(s) + Owed(s) <= Owed(scan)
    BY <1>1, <2>1, <2>2 DEF Weight, Owed
  <2>. QED
    BY <1>1, <2>1, <2>3, RescanKeeps
<1>3. CASE ScanRest
  <2> DEFINE s == [keys |-> "rest", form |-> "legacy"]
  <2>1. /\ s \in Scans /\ s.keys = "rest" /\ s.form = "legacy" /\ scan.keys = "direct"
        /\ Missed /\ Rescan(s)
    BY <1>1, <1>3 DEF ScanRest, Scans
  <2>2. ScanKeys(s) = Keys - direct
    BY <2>1 DEF ScanKeys
  <2>. HIDE DEF s
  <2>3. Weight * ScanKeys(s) + Owed(s) <= Owed(scan)
    BY <1>1, <2>1, <2>2 DEF Weight, Owed, Missed, MaxScans
  <2>. QED
    BY <1>1, <2>1, <2>3, RescanKeeps
<1>4. CASE ScanAll
  <2> DEFINE s == [keys |-> "all", form |-> "legacy"]
  <2>1. /\ s \in Scans /\ s.keys = "all" /\ s.form = "legacy" /\ scan.keys = "direct"
        /\ extended /\ Rescan(s)
    BY <1>1, <1>4 DEF ScanAll, Scans
  <2>2. ScanKeys(s) = Keys /\ ScanKeys(scan) = direct
    BY <2>1 DEF ScanKeys
  <2>. HIDE DEF s
  <2>3. Weight * ScanKeys(s) + Owed(s) <= Owed(scan)
    BY <1>1, <2>1, <2>2 DEF Weight, Owed
  <2>. QED
    BY <1>1, <2>1, <2>3, RescanKeeps
<1>. QED
  BY <1>2, <1>3, <1>4

\* A record is left.
LEMMA LeaveKeeps == SearchInv /\ LeaveRecord => SearchInv'
<1>. SUFFICES ASSUME SearchInv, LeaveRecord PROVE SearchInv'
  OBVIOUS
<1>1. /\ TypeOK /\ GraphInv /\ pc = "replay"
      /\ graph' = [graph EXCEPT !.next = @ + 1] /\ pc' = "record" /\ scan' = NoScan
      /\ UNCHANGED <<image, tier, root, checksum, extended, maps, generations,
                     direct, budget, work, result>>
      /\ direct \in 0 .. 6 /\ direct <= Keys
  BY DEF SearchInv, LeaveRecord, TypeOK, BudgetInv
<1>3. /\ graph \in [records : 0 .. MaxRecords, processed : SUBSET Records,
                       outputs : 0 .. 2 * MaxRecords, pass : 0 .. 2 * MaxRecords + 1,
                       next : 1 .. MaxRecords + 1]
      /\ graph.records \in Nat /\ graph.records <= MaxRecords /\ graph.outputs \in Nat
      /\ graph.pass \in Nat /\ graph.next \in Nat /\ graph.next > 0 /\ MaxRecords \in Nat
      /\ graph.pass <= graph.outputs /\ graph.next <= graph.records
  BY <1>1, GraphTyped, GraphIsCounted DEF GraphInv
<1>4. graph.next + 1 \in 1 .. MaxRecords + 1 /\ graph.next + 1 <= graph.records + 1
  BY <1>3
<1>5. /\ graph' \in [records : 0 .. MaxRecords, processed : SUBSET Records,
                       outputs : 0 .. 2 * MaxRecords, pass : 0 .. 2 * MaxRecords + 1,
                       next : 1 .. MaxRecords + 1]
      /\ graph'.records = graph.records /\ graph'.processed = graph.processed
      /\ graph'.outputs = graph.outputs /\ graph'.pass = graph.pass
      /\ graph'.next = graph.next + 1
  BY <1>1, <1>3, <1>4
<1>6. graph'.pass <= graph.outputs + 1 /\ Keys' = Keys
  BY <1>1, <1>3, <1>5 DEF Keys, Bases, Scalars
<1>2. BudgetInv' /\ scan' \in Scans
  BY <1>1, <1>6, BudgetIsKept DEF NoScan, Scans
<1>. QED
  BY <1>1, <1>2, <1>3, <1>4, <1>5, <1>6, MovingKeeps DEF InGraph

\* A record fails.
LEMMA FailRecordKeeps == SearchInv /\ FailRecord => SearchInv'
<1>. SUFFICES ASSUME SearchInv, FailRecord PROVE SearchInv'
  OBVIOUS
<1>1. pc = "replay" /\ image.outer = {}
  BY DEF SearchInv, FailRecord, RootInv, InGraph
<1>. QED
  BY <1>1, FailKeeps DEF FailRecord

(***************************************************************************)
(* A selected record is one more of a finite number, and its maps are the  *)
(* last generation.                                                         *)
(***************************************************************************)
LEMMA SelectKeeps == SearchInv /\ SelectRecord => SearchInv'
<1>. SUFFICES ASSUME SearchInv, SelectRecord PROVE SearchInv'
  OBVIOUS
<1>1. PICK S \in SUBSET Maps, contexts \in 1 .. 2 :
        /\ generations' = IF S = {} THEN generations ELSE Append(generations, S)
        /\ maps' = Used(S)
        /\ graph' = Processed(contexts)
        /\ IF RepeatsFrontier(S) \/ IsFrontier(S)
           THEN pc' = "done" /\ result' = Found(Used(S))
           ELSE pc' = "round" /\ UNCHANGED result
        /\ scan' = NoScan /\ direct' = 0
        /\ UNCHANGED <<image, tier, root, checksum, extended, budget, work>>
  BY DEF SelectRecord
<1>2. /\ TypeOK /\ GraphInv /\ pc = "replay" /\ image.outer = {} /\ result = Pending
      /\ maps = IF generations = <<>> THEN {} ELSE Last(generations)
      /\ graph.next <= graph.records /\ graph.next \notin graph.processed
      /\ pc' \in {"round", "done"}
  BY <1>1 DEF SearchInv, SelectRecord, GraphInv, MapsInv, RootInv, InGraph
<1>3. BudgetInv' /\ scan' \in Scans /\ direct' \in 0 .. 6
  BY <1>1, <1>2, BudgetIsKept DEF NoScan, Scans
<1>4. /\ generations \in Seq(Generation) /\ Len(generations) \in Nat
      /\ generations # <<>> => Last(generations) \subseteq Maps /\ Last(generations) # {}
  BY <1>2, GenerationsAreTyped
<1>5. /\ graph \in [records : 0 .. MaxRecords, processed : SUBSET Records,
                       outputs : 0 .. 2 * MaxRecords, pass : 0 .. 2 * MaxRecords + 1,
                       next : 1 .. MaxRecords + 1]
      /\ graph.records \in Nat /\ graph.records <= MaxRecords /\ graph.outputs \in Nat
      /\ graph.pass \in Nat /\ graph.next \in Nat /\ graph.next > 0 /\ MaxRecords \in Nat
      /\ graph.processed \subseteq 1 .. graph.records
      /\ graph.outputs <= 2 * Cardinality(graph.processed)
      /\ graph.pass <= graph.outputs + 1
      /\ Len(generations) <= Cardinality(graph.processed)
  BY <1>2, GraphTyped, GraphIsCounted DEF GraphInv
<1> DEFINE more == graph.processed \union {graph.next}
<1>6. /\ IsFiniteSet(graph.processed) /\ Cardinality(graph.processed) \in Nat
      /\ Cardinality(more) = Cardinality(graph.processed) + 1
  BY <1>2, ProcessedAreCounted, FS_AddElement
<1>7. /\ more \in SUBSET (1 .. graph.records) /\ more \subseteq Records
      /\ Cardinality(more) <= graph.records
  <2>1. graph.next \in 1 .. graph.records
    BY <1>2, <1>5
  <2>2. 1 .. graph.records \subseteq Records
    BY <1>5 DEF Records
  <2>3. IsFiniteSet(1 .. graph.records) /\ Cardinality(1 .. graph.records) = graph.records
    <3>1. graph.records \in Int
      BY <1>5
    <3>2. /\ IsFiniteSet(1 .. graph.records)
          /\ Cardinality(1 .. graph.records) =
                IF 1 > graph.records THEN 0 ELSE graph.records - 1 + 1
      BY <3>1, FS_Interval
    <3>. QED
      BY <1>5, <3>2
  <2>4. more \in SUBSET (1 .. graph.records)
    BY <1>5, <2>1
  <2>. QED
    BY <2>2, <2>3, <2>4, FS_Subset
<1>. HIDE DEF more
<1>8. graph' = [graph EXCEPT !.processed = more, !.outputs = graph.outputs + contexts]
  BY <1>1 DEF Processed, more
<1>9. /\ graph.outputs + contexts \in 0 .. 2 * MaxRecords
      /\ graph.outputs + contexts <= 2 * Cardinality(more)
      /\ graph.pass <= graph.outputs + contexts + 1
  <2>1. ASSUME NEW o \in Nat, NEW p \in Nat, NEW c \in Nat, NEW r \in Nat, NEW m \in Nat,
               o <= 2 * c, p <= o + 1, c + 1 <= r, r <= m
        PROVE  /\ o + contexts \in 0 .. 2 * m /\ o + contexts <= 2 * (c + 1)
               /\ p <= o + contexts + 1
    BY <2>1
  <2>2. Cardinality(graph.processed) + 1 <= graph.records
    BY <1>6, <1>7
  <2>. QED
    BY <1>5, <1>6, <2>1, <2>2
<1>10. /\ graph' \in [records : 0 .. MaxRecords, processed : SUBSET Records,
                       outputs : 0 .. 2 * MaxRecords, pass : 0 .. 2 * MaxRecords + 1,
                       next : 1 .. MaxRecords + 1]
       /\ graph'.processed = more /\ graph'.outputs = graph.outputs + contexts
       /\ graph'.records = graph.records /\ graph'.pass = graph.pass
       /\ graph'.next = graph.next
  BY <1>5, <1>7, <1>8, <1>9
<1>11. /\ generations' \in Seq(Generation)
       /\ Len(generations') <= Len(generations) + 1
       /\ Len(generations') \in Nat
       /\ S # {} => generations' # <<>> /\ Last(generations') = S
  <2>1. CASE S = {}
    BY <1>1, <1>4, <2>1
  <2>2. CASE S # {}
    <3>1. S \in Generation /\ generations' = Append(generations, S)
      BY <1>1, <2>2 DEF Generation
    <3>2. /\ generations' \in Seq(Generation) /\ Len(generations') = Len(generations) + 1
          /\ generations' # <<>> /\ generations'[Len(generations) + 1] = S
      BY <1>4, <3>1, AppendProperties
    <3>. QED
      BY <1>4, <3>2 DEF Last
  <2>. QED
    BY <2>1, <2>2
<1>12. maps' = IF generations' = <<>> THEN {} ELSE Last(generations')
  <2>1. CASE S = {}
    BY <1>1, <1>2, <2>1 DEF Used
  <2>2. CASE S # {}
    BY <1>1, <1>11, <2>2 DEF Used
  <2>. QED
    BY <2>1, <2>2
<1>13. maps' \subseteq Maps
  BY <1>1, <1>2, <1>4 DEF Used
<1>14. Len(generations') <= Cardinality(more) /\ Len(generations') <= MaxRecords
  <2>1. ASSUME NEW l \in Nat, NEW g \in Nat, NEW c \in Nat, NEW r \in Nat, NEW m \in Nat,
               l <= g + 1, g <= c, c + 1 <= r, r <= m
        PROVE  l <= c + 1 /\ l <= m
    BY <2>1
  <2>2. Cardinality(graph.processed) + 1 <= graph.records
    BY <1>6, <1>7
  <2>. QED
    BY <1>4, <1>5, <1>6, <1>7, <1>11, <2>1, <2>2
<1>15. ASSUME RepeatsFrontier(S) \/ IsFrontier(S) PROVE ResultIsLastGeneration'
  <2>1. S # {}
    BY <1>4, <1>15, FS_EmptySet DEF RepeatsFrontier, IsFrontier
  <2>2. pc' = "done" /\ result' = Found(S) /\ image' = image
    BY <1>1, <1>15, <2>1 DEF Used
  <2>. QED
    BY <1>2, <1>11, <2>1, <2>2 DEF Found, ResultIsLastGeneration
<1>16. ResultIsLastGeneration'
  <2>1. CASE ~(RepeatsFrontier(S) \/ IsFrontier(S))
    BY <1>1, <1>2, <2>1 DEF ResultIsLastGeneration, Pending, Failed
  <2>. QED
    BY <1>15, <2>1
<1>17. result' \in [kind : {"none", "maps", "too many", "cancelled"}, maps : SUBSET Maps]
  <2>1. CASE result' = Found(Used(S))
    BY <1>1, <1>13, <2>1 DEF Found
  <2>2. CASE result' = result
    BY <1>2, <2>2 DEF TypeOK
  <2>. QED
    BY <1>1, <2>1, <2>2
<1>18. TypeOK' /\ Roots' = Roots
  <2>1. generations' \in BoundedSeq((SUBSET Maps) \ {{}}, MaxRecords)
    BY <1>5, <1>11, <1>14, BoundedIsBounded DEF Generation
  <2>. QED
    BY <1>1, <1>2, <1>3, <1>10, <1>13, <1>17, <2>1 DEF TypeOK, Roots, Scans
<1>19. GraphInv'
  BY <1>2, <1>5, <1>7, <1>9, <1>10, <1>14 DEF GraphInv
<1>20. MapsInv' /\ RootInv'
  BY <1>1, <1>2, <1>12, <1>18 DEF SearchInv, MapsInv, RootInv, InGraph, IsRooted
<1>. QED
  BY <1>3, <1>16, <1>18, <1>19, <1>20 DEF SearchInv

-----------------------------------------------------------------------------
(***************************************************************************)
(* The theorems.                                                            *)
(***************************************************************************)
LEMMA InitIsRight == Init => SearchInv
<1>. SUFFICES ASSUME Init PROVE SearchInv
  OBVIOUS
<1>1. /\ pc = "tier" /\ tier = 1 /\ root = 0 /\ checksum = 0 /\ extended = FALSE
      /\ graph = NoGraph /\ maps = {} /\ generations = <<>> /\ work = NoWork
      /\ direct = 0 /\ scan = NoScan
      /\ budget = [keys |-> KeyLimit, bytes |-> ByteLimit] /\ result = Pending
      /\ image \in Image
  BY DEF Init
<1>2. budget \in [keys : 0 .. KeyLimit, bytes : 0 .. ByteLimit]
  BY <1>1, BoundsAreNatural
<1>3. Roots \in Nat
  <2>1. image.rooted \in 0 .. MaxRoots /\ image.staged \in 0 .. MaxRoots
    BY <1>1 DEF Image
  <2>2. ASSUME NEW a \in 0 .. MaxRoots, NEW b \in 0 .. MaxRoots PROVE a + b \in Nat
    BY BoundsAreNatural
  <2>. QED
    BY <2>1, <2>2 DEF Roots
<1>4. TypeOK
  <2>1. generations \in BoundedSeq((SUBSET Maps) \ {{}}, MaxRecords)
    BY <1>1, EmptyIsNoGeneration DEF Generation
  <2>2. result \in [kind : {"none", "maps", "too many", "cancelled"}, maps : SUBSET Maps]
    BY <1>1 DEF Pending, Failed
  <2>3. graph \in [records : 0 .. MaxRecords, processed : SUBSET Records,
                       outputs : 0 .. 2 * MaxRecords, pass : 0 .. 2 * MaxRecords + 1,
                       next : 1 .. MaxRecords + 1] /\ work \in [BOOLEAN -> [keys : Nat, bytes : Nat]]
        /\ scan \in Scans /\ direct \in 0 .. 6
    BY <1>1, NoGraphIsAGraph DEF NoWork, NoScan, Scans
  <2>4. root \in 0 .. Roots /\ checksum \in 0 .. 2 /\ tier \in Tiers
    BY <1>1, <1>3 DEF Tiers
  <2>. QED
    BY <1>1, <1>2, <2>1, <2>2, <2>3, <2>4 DEF TypeOK, Scans
<1>5. GraphInv
  <2>1. Cardinality(graph.processed) = 0 /\ Len(generations) = 0
    BY <1>1, NoGraphIsAGraph, FS_EmptySet
  <2>. QED
    BY <1>1, <2>1, NoGraphIsAGraph DEF GraphInv
<1>6. MapsInv /\ RootInv /\ ResultIsLastGeneration
  BY <1>1 DEF MapsInv, RootInv, InGraph, ResultIsLastGeneration, Pending, Failed
<1>7. BudgetInv
  <2>1. /\ KeysDone = 0 /\ BytesDone = 0 /\ KeysOwed = 0 /\ BytesOwed = 0
        /\ budget.keys = KeyLimit /\ budget.bytes = ByteLimit
    BY <1>1 DEF KeysDone, BytesDone, KeysOwed, BytesOwed, NoWork, MaxScans
  <2>2. 0 + 4 * KeyLimit + 0 <= 4 * KeyLimit /\ 0 + 4 * ByteLimit + 0 <= 4 * ByteLimit
    BY BoundsAreNatural
  <2>. QED
    BY <1>1, <2>1, <2>2 DEF BudgetInv, MaxScans
<1>. QED
  BY <1>4, <1>5, <1>6, <1>7 DEF SearchInv

\* A step that changes nothing.
LEMMA StutterKeeps == SearchInv /\ UNCHANGED vars => SearchInv'
<1>. SUFFICES ASSUME SearchInv, UNCHANGED vars PROVE SearchInv'
  OBVIOUS
<1>1. GraphInv' /\ MapsInv' /\ ResultIsLastGeneration'
  BY DEF vars, SearchInv, GraphInv, MapsInv, ResultIsLastGeneration, Roots, IsRooted
<1>3. TypeOK'
  BY DEF vars, SearchInv, TypeOK, Roots
<1>2. RootInv' /\ BudgetInv'
  BY DEF vars, SearchInv, RootInv, InGraph, Roots, IsRooted, BudgetInv, Keys, Bases, Scalars,
         EncodedLength, KeysDone, BytesDone, KeysOwed, BytesOwed, Owed, ScanKeys
<1>. QED
  BY <1>1, <1>2, <1>3 DEF SearchInv

\* SearchInv is an invariant.
LEMMA SearchInvHolds == Spec => []SearchInv
<1>1. Init => SearchInv
  BY InitIsRight
<1>2. SearchInv /\ [Next]_vars => SearchInv'
  BY StartKeeps, BeginProfileKeeps, BeginRoundKeeps, BeginPassKeeps, ChargeKeeps, ScansKeep,
     LeaveKeeps,
     FailRecordKeeps, SelectKeeps, StutterKeeps DEF Next, Step, Stopped
<1>. QED
  BY <1>1, <1>2, PTL DEF Spec

(***************************************************************************)
(* The variables keep their types: no graph processes more records than its*)
(* stage has, nor yields more generations or contexts than its records can.*)
(***************************************************************************)
THEOREM TypeCorrect == Spec => []TypeOK
<1>1. SearchInv => TypeOK
  BY DEF SearchInv
<1>. QED
  BY <1>1, SearchInvHolds, PTL

(***************************************************************************)
(* The maps the search returns are those of the outer stage or of the last *)
(* generation of one graph; no maps are returned only by the last tier, after *)
(* every root, checksum and profile (discover_nested_byte_map_result).     *)
(***************************************************************************)
THEOREM LastGenerationIsReturned == Spec => []ResultIsLastGeneration
<1>1. SearchInv => ResultIsLastGeneration
  BY DEF SearchInv
<1>. QED
  BY <1>1, SearchInvHolds, PTL

(***************************************************************************)
(* The scans of the primary tier keep to its budget, over all its roots,    *)
(* checksums and profiles together: a charged key is gone through once in   *)
(* the legacy profile and at most MaxScans times in the extended one, since *)
(* a record is charged before its first scan and later ones only take what  *)
(* that scan has left (replay_nested_keys and the replayer's two forms).    *)
(***************************************************************************)
THEOREM PrimaryWorkStaysWithinBudget == Spec => []PrimaryWorkIsBounded
<1>1. SearchInv => PrimaryWorkIsBounded
  <2>. SUFFICES ASSUME SearchInv, tier = 1
                PROVE  KeysDone <= 4 * KeyLimit /\ BytesDone <= 4 * ByteLimit
    BY DEF PrimaryWorkIsBounded, KeysDone, BytesDone, MaxScans
  <2>1. /\ KeysOwed \in Nat /\ BytesOwed \in Nat /\ KeyLimit \in Nat /\ ByteLimit \in Nat
        /\ KeysDone \in Nat /\ BytesDone \in Nat /\ budget.keys \in Nat /\ budget.bytes \in Nat
    BY KeysAreCounted, OwedIsCounted, BoundsAreNatural DEF SearchInv
  <2>2. /\ KeysDone + 4 * budget.keys + KeysOwed <= 4 * KeyLimit
        /\ BytesDone + 4 * budget.bytes + BytesOwed <= 4 * ByteLimit
    BY DEF SearchInv, BudgetInv, MaxScans
  <2>. QED
    BY <2>1, <2>2
<1>. QED
  BY <1>1, SearchInvHolds, PTL

-----------------------------------------------------------------------------
(***************************************************************************)
(* Part 2.  The inductive invariant of the replay.                          *)
(***************************************************************************)
\* The search space, and the set of keys, the maps and the context in turn.  What
\* led to the fallback: the keys rooted in the metadata left the record undecided,
\* and only if they matched nothing are they not replayed again.
DirectIsUndecided ==
    \/ VerdictUpTo(space.direct).kind = "NoMatch"
    \/ VerdictUpTo(space.direct).kind = "Ambiguous" /\ space.extended

SpaceInv ==
    /\ space \in [contexts : 1 .. MaxTries, keys : 0 .. MaxTries,
                  direct : 0 .. MaxTries, lanes : 1 .. MaxLanes, extended : BOOLEAN,
                  yields : [Tries(space.contexts, space.keys, space.extended) ->
                                Outputs \union {NoOutput}]]
    /\ space.direct <= space.keys

PlaceInv ==
    /\ search \in [tier : {"direct", "fallback"}, first : Int, last : Int,
                   maps : {"legacy", "extended"}, context : 1 .. space.contexts]
    /\ search.maps = "extended" => space.extended
    /\ step \notin {"start", "done"} =>
          /\ 1 <= search.first /\ search.first <= search.last /\ search.last <= space.keys
          /\ search.maps = "extended" => OfHits(Hits("legacy", search.last)).kind = "NoMatch"
          /\ IF search.tier = "direct"
             THEN search.first = 1 /\ search.last = space.direct
             ELSE /\ search.last = space.keys /\ DirectIsUndecided
                  /\ \/ search.first = 1
                     \/ /\ search.first = space.direct + 1
                        /\ VerdictUpTo(space.direct).kind = "NoMatch"

-----------------------------------------------------------------------------
\* What a list of candidates holds of the hits T when those of D were looked at:
\* each output once, with the key of its first hit in T; and unless the list is
\* full, every output of D.
Earlier(t, u) == t[2] < u[2] \/ (t[2] = u[2] /\ t[3] <= u[3])
IsFirst(y, c, T) ==
    \E t \in T : /\ y[t] = c.output /\ t[3] = c.key
                 /\ \A u \in T : y[u] = c.output => Earlier(t, u)
Collects(y, cs, cap, full, sort, T, D) ==
    /\ cs \in Seq(Candidates(sort)) /\ Len(cs) <= cap
    /\ \A i, j \in DOMAIN cs : cs[i].output = cs[j].output => i = j
    /\ \A i \in DOMAIN cs : IsFirst(y, cs[i], T)
    /\ IF full THEN Len(cs) = cap /\ \E t \in T : y[t] \in sort /\ ~Holds(cs, y[t])
               ELSE \A t \in D : y[t] \in sort => Holds(cs, y[t])

\* The hits this set of keys can make, and those before a place of the search.
Sought == { t \in Hits(search.maps, search.last) : search.first <= t[3] }
Before(n, k) == { t \in Sought : t[2] < n \/ (t[2] = n /\ t[3] < k) }

-----------------------------------------------------------------------------
\* The chunks share the keys, each from where the one before it ends, and a batch
\* collects the hits of its own chunk.
From(i) == IF i = 1 THEN search.first ELSE chunks[i - 1].last + 1
Within(i) == { t \in Sought : t[2] = search.context /\ From(i) <= t[3] /\ t[3] <= chunks[i].last }

BatchType == [structured : Seq(Candidates(Structured)), unstructured : Seq(Candidates(Unstructured)),
              structuredTruncated : BOOLEAN, unstructuredTruncated : BOOLEAN]
BatchCollects(y, b, T, D) ==
    /\ b \in BatchType
    /\ Collects(y, b.structured, MaxLocalOutputs, b.structuredTruncated, Structured, T, D)
    /\ Collects(y, b.unstructured, MaxLocalOutputs, b.unstructuredTruncated, Unstructured, T, D)

IsChunk(i) ==
    /\ From(i) <= chunks[i].last /\ chunks[i].last <= search.last
    /\ search.first <= From(i) /\ From(i) <= chunks[i].next
    /\ chunks[i].status = "replaying" => chunks[i].next <= chunks[i].last
    /\ chunks[i].status = "done" => chunks[i].next = chunks[i].last + 1
    /\ chunks[i].status = "cancelled" => cancelled
    /\ BatchCollects(space.yields, chunks[i].batch, Within(i), {t \in Within(i) : t[3] < chunks[i].next})

ChunkInv ==
    step \in {"replay", "structured", "unstructured"} =>
        /\ chunks \in Seq([next : Int, last : Int, batch : BatchType,
                           status : {"replaying", "done", "cancelled"}])
        /\ chunks # <<>> /\ chunks[Len(chunks)].last = search.last
        /\ \A i \in DOMAIN chunks : IsChunk(i)

-----------------------------------------------------------------------------
\* What was merged collects the hits of the chunks passed, and in the chunk in turn
\* those whose outputs are the candidates passed.
Listed(i, k, cs) == { t \in Within(i) : \E j \in 1 .. k - 1 : cs[j].output = space.yields[t] }
MergedCollects(S, U) ==
    /\ Collects(space.yields, merged.structured, MaxOutputs, FALSE, Structured, Sought, S)
    /\ Collects(space.yields, merged.unstructured, MaxOutputs, merged.overflow, Unstructured, Sought, U)

Passed == Before(search.context, From(at.chunk))
MergedType == [structured : Seq(Candidates(Structured)),
               unstructured : Seq(Candidates(Unstructured)), overflow : BOOLEAN]

MergeInv ==
    /\ merged \in MergedType
    /\ Len(merged.structured) <= MaxOutputs /\ Len(merged.unstructured) <= MaxOutputs
    /\ at \in [chunk : Nat \ {0}, candidate : Nat \ {0}]
    /\ step \in {"structured", "unstructured"} =>
          \A i \in DOMAIN chunks : chunks[i].status # "replaying"
    /\ step \in {"context", "replay"} =>
          MergedCollects(Before(search.context, search.first), Before(search.context, search.first))
    /\ step = "structured" =>
          /\ at.chunk <= Len(chunks)
          /\ at.candidate <= Len(chunks[at.chunk].batch.structured) + 1
          /\ MergedCollects(Passed \union Listed(at.chunk, at.candidate, chunks[at.chunk].batch.structured), Passed)
    /\ step = "unstructured" =>
          /\ at.chunk <= Len(chunks)
          /\ at.candidate <= Len(chunks[at.chunk].batch.unstructured) + 1
          /\ chunks[at.chunk].status = "done"
          /\ MergedCollects(Passed \union Within(at.chunk),
                            Passed \union Listed(at.chunk, at.candidate, chunks[at.chunk].batch.unstructured))
    /\ step = "merged" =>
          MergedCollects(Before(search.context, search.last + 1), Before(search.context, search.last + 1))

\* What is answered is expected, and no batch was ever too small.
AnswerInv ==
    /\ step \in {"start", "context", "replay", "structured", "unstructured", "merged", "done"}
    /\ cancelled \in BOOLEAN
    /\ step # "done" => answer = Undecided
    /\ answer.kind \in {"none", "NoMatch", "Unique", "Ambiguous", "TooMany", "Cancelled"}
    /\ VerdictIsSequential

ReplayInv == SpaceInv /\ PlaceInv /\ ChunkInv /\ MergeInv /\ AnswerInv

-----------------------------------------------------------------------------
(***************************************************************************)
(* Lists of candidates.                                                    *)
(***************************************************************************)

\* A list that collects some hits collects fewer of them too.
LEMMA CollectsLess ==
  ASSUME NEW y, NEW cs, NEW cap, NEW full, NEW sort, NEW T, NEW D, NEW E,
         Collects(y, cs, cap, full, sort, T, D),
         \A t \in E : y[t] \in sort => t \in D
  PROVE  Collects(y, cs, cap, full, sort, T, E)
BY DEF Collects

\* An output the list holds already adds nothing.
LEMMA HeldIsCollected ==
  ASSUME NEW y, NEW cs, NEW cap, NEW full, NEW sort, NEW T, NEW D, NEW E, NEW o,
         Collects(y, cs, cap, full, sort, T, D), Holds(cs, o),
         \A u \in E : u \in D \/ y[u] = o
  PROVE  Collects(y, cs, cap, full, sort, T, E)
BY DEF Collects

\* A list that is full and misses an output says that it is full.
LEMMA FullCollects ==
  ASSUME NEW y, NEW cs, NEW cap, NEW full, NEW sort, NEW T, NEW D, NEW E, NEW t \in T,
         Collects(y, cs, cap, full, sort, T, D), Len(cs) = cap,
         y[t] \in sort, ~Holds(cs, y[t])
  PROVE  Collects(y, cs, cap, TRUE, sort, T, E)
BY DEF Collects

\* An output that is appended is collected, if its try is the first with it.
LEMMA NewIsCollected ==
  ASSUME NEW y, NEW cs, NEW cap \in Nat, NEW sort, NEW T, NEW D, NEW E, NEW t \in T,
         Collects(y, cs, cap, FALSE, sort, T, D), Len(cs) < cap,
         y[t] \in sort, t[3] \in 1 .. MaxTries, ~Holds(cs, y[t]),
         \A u \in T : y[u] = y[t] => u \in D \/ Earlier(t, u),
         \A u \in E : u \in D \/ y[u] = y[t]
  PROVE  Collects(y, Append(cs, Candidate(y[t], t[3])), cap, FALSE, sort, T, E)
<1> DEFINE c == Candidate(y[t], t[3])
           new == Append(cs, c)
<1>1. cs \in Seq(Candidates(sort)) /\ c \in Candidates(sort) /\ c.output = y[t] /\ c.key = t[3]
  BY DEF Collects, Candidate, Candidates
<1>2. /\ new \in Seq(Candidates(sort)) /\ Len(new) = Len(cs) + 1 /\ Len(cs) \in Nat
      /\ DOMAIN cs = 1 .. Len(cs) /\ DOMAIN new = 1 .. Len(cs) + 1
      /\ \A i \in DOMAIN cs : new[i] = cs[i]
      /\ new[Len(cs) + 1] = c
  BY <1>1
<1> HIDE DEF c, new
<1>3. Len(new) <= cap
  BY <1>2
<1>4. ASSUME NEW i \in DOMAIN new, NEW j \in DOMAIN new, new[i].output = new[j].output
      PROVE  i = j
  BY <1>1, <1>2, <1>4 DEF Collects, Holds
<1>5. IsFirst(y, c, T)
  <2>1. ASSUME NEW u \in T, y[u] = y[t]
        PROVE  Earlier(t, u)
    BY <2>1 DEF Collects
  <2> QED
    BY <1>1, <2>1 DEF IsFirst
<1>6. \A i \in DOMAIN new : IsFirst(y, new[i], T)
  BY <1>2, <1>5 DEF Collects
<1>7. \A u \in E : y[u] \in sort => Holds(new, y[u])
  <2>1. \A o : Holds(cs, o) => Holds(new, o)
    BY <1>2 DEF Holds
  <2>2. Holds(new, y[t])
    BY <1>1, <1>2 DEF Holds
  <2> QED
    BY <2>1, <2>2 DEF Collects
<1>8. Collects(y, new, cap, FALSE, sort, T, E)
  BY <1>2, <1>3, <1>4, <1>6, <1>7 DEF Collects
<1> QED
  BY <1>8 DEF c, new

\* The outputs of a list.
Held(cs) == {cs[i].output : i \in DOMAIN cs}
\* As many outputs are held as there are candidates.
LEMMA HeldAreCounted ==
  ASSUME NEW S, NEW cs \in Seq(S), \A i, j \in DOMAIN cs : cs[i].output = cs[j].output => i = j
  PROVE  IsFiniteSet(Held(cs)) /\ Cardinality(Held(cs)) = Len(cs)
<1> DEFINE f == [i \in 1 .. Len(cs) |-> cs[i].output]
<1>1. Len(cs) \in Nat /\ DOMAIN cs = 1 .. Len(cs)
  OBVIOUS
<1>2. IsFiniteSet(1 .. Len(cs)) /\ Cardinality(1 .. Len(cs)) = Len(cs)
  <2>1. 1 \in Int /\ Len(cs) \in Int
    BY <1>1
  <2>2. IsFiniteSet(1 .. Len(cs)) /\ Cardinality(1 .. Len(cs)) = IF 1 > Len(cs) THEN 0 ELSE Len(cs) - 1 + 1
    BY <2>1, FS_Interval, Zenon
  <2> QED
    BY <1>1, <2>2
<1>3. /\ f \in [1 .. Len(cs) -> Held(cs)] /\ \A i \in 1 .. Len(cs) : f[i] = cs[i].output
      /\ \A o \in Held(cs) : \E i \in 1 .. Len(cs) : f[i] = o
  BY <1>1 DEF Held
<1> HIDE DEF f
<1>4. f \in Injection(1 .. Len(cs), Held(cs))
  BY <1>1, <1>3 DEF Injection, IsInjective
<1>5. f \in Surjection(1 .. Len(cs), Held(cs))
  BY <1>3 DEF Surjection
<1> QED
  BY <1>2, <1>4, <1>5, FS_Surjection

\* A list of one length cannot hold the outputs of a longer one.
LEMMA LongerIsNotHeld ==
  ASSUME NEW S, NEW cs \in Seq(S), \A i, j \in DOMAIN cs : cs[i].output = cs[j].output => i = j,
         NEW R, NEW ds \in Seq(R), \A i, j \in DOMAIN ds : ds[i].output = ds[j].output => i = j,
         \A i \in DOMAIN ds : Holds(cs, ds[i].output)
  PROVE  Len(ds) <= Len(cs)
<1>1. Held(ds) \subseteq Held(cs)
  BY DEF Held, Holds
<1>2. /\ IsFiniteSet(Held(cs)) /\ Cardinality(Held(cs)) = Len(cs)
      /\ Cardinality(Held(ds)) = Len(ds)
  BY HeldAreCounted
<1> QED
  BY <1>1, <1>2, FS_Subset

-----------------------------------------------------------------------------
(***************************************************************************)
(* Batches.                                                                *)
(***************************************************************************)

\* One output enters a list, or finds it full.
LEMMA OutputIsCollected ==
  ASSUME NEW y, NEW cs, NEW cap \in Nat, NEW full \in BOOLEAN, NEW sort, NEW T, NEW D, NEW E, NEW t \in T,
         Collects(y, cs, cap, full, sort, T, D),
         y[t] \in sort, t[3] \in 1 .. MaxTries, ~full, ~Holds(cs, y[t]),
         \A u \in T : y[u] = y[t] => u \in D \/ Earlier(t, u),
         \A u \in E : u \in D \/ y[u] = y[t]
  PROVE  Collects(y, IF Len(cs) >= cap THEN cs ELSE Append(cs, Candidate(y[t], t[3])),
                  cap, Len(cs) >= cap, sort, T, E)
<1>1. Len(cs) \in Nat /\ Len(cs) <= cap
  BY DEF Collects
<1>2. Collects(y, cs, cap, FALSE, sort, T, D)
  BY Zenon DEF Collects
<1>3. CASE Len(cs) >= cap
  <2>1. Len(cs) = cap
    BY <1>1, <1>3
  <2>2. Collects(y, cs, cap, TRUE, sort, T, E)
    BY <2>1, FullCollects
  <2> QED
    BY <1>3, <2>2, Zenon
<1>4. CASE ~(Len(cs) >= cap)
  <2>1. Len(cs) < cap
    BY <1>1, <1>4
  <2>2. Collects(y, Append(cs, Candidate(y[t], t[3])), cap, FALSE, sort, T, E)
    BY <1>2, <2>1, NewIsCollected
  <2>3. (Len(cs) >= cap) = FALSE
    BY <1>4
  <2>4. (IF Len(cs) >= cap THEN cs ELSE Append(cs, Candidate(y[t], t[3])))
          = Append(cs, Candidate(y[t], t[3]))
    BY <1>4, Zenon
  <2> QED
    BY <2>2, <2>3, <2>4, Zenon
<1> QED
  BY <1>3, <1>4

\* What one try yields enters the batch of its sort.
LEMMA ConsiderCollects ==
  ASSUME NEW y, NEW b, NEW T, NEW D, NEW t, BatchCollects(y, b, T, D),
         y[t] \in Outputs \union {NoOutput}, y[t] # NoOutput => t \in T,
         t[3] \in 1 .. MaxTries, \A u \in T : u \in D \/ Earlier(t, u)
  PROVE  BatchCollects(y, Consider(b, y[t], t[3]), T, D \union ({t} \intersect T))
<1> DEFINE o == y[t]
           k == t[3]
           F == D \union ({t} \intersect T)
<1>1. MaxLocalOutputs \in Nat
  BY RetentionAssumption
<1>2. /\ b \in BatchType
      /\ Collects(y, b.structured, MaxLocalOutputs, b.structuredTruncated, Structured, T, D)
      /\ Collects(y, b.unstructured, MaxLocalOutputs, b.unstructuredTruncated, Unstructured, T, D)
  BY DEF BatchCollects
<1>3. /\ b.structuredTruncated \in BOOLEAN /\ b.unstructuredTruncated \in BOOLEAN
      /\ b.structured \in Seq(Candidates(Structured)) /\ b.unstructured \in Seq(Candidates(Unstructured))
  BY <1>2 DEF BatchType
<1>4. ASSUME o = NoOutput
      PROVE  Consider(b, o, k) = b
  BY <1>4 DEF Consider
<1>5. CASE o = NoOutput
  <2>1. \A u \in F : y[u] \in Structured \union Unstructured => u \in D
    BY <1>5, OutputsAreApart
  <2>2. /\ Collects(y, b.structured, MaxLocalOutputs, b.structuredTruncated, Structured, T, F)
        /\ Collects(y, b.unstructured, MaxLocalOutputs, b.unstructuredTruncated, Unstructured, T, F)
    BY <1>2, <2>1, CollectsLess
  <2> QED
    BY <1>2, <1>4, <1>5, <2>2, Zenon DEF BatchCollects
<1>6. CASE o \in Structured
  <2>1. t \in T /\ o # NoOutput
    BY <1>6, OutputsAreApart
  <2>2. Collects(y, b.unstructured, MaxLocalOutputs, b.unstructuredTruncated, Unstructured, T, F)
    <3>1. \A u \in F : y[u] \in Unstructured => u \in D
      BY <1>6, OutputsAreApart
    <3> QED
      BY <1>2, <3>1, CollectsLess
  <2>3. CASE b.structuredTruncated \/ Holds(b.structured, o)
    <3>1. Consider(b, o, k) = b
      BY <1>6, <2>3 DEF Consider
    <3>2. Collects(y, b.structured, MaxLocalOutputs, b.structuredTruncated, Structured, T, F)
      BY <1>2, <2>3 DEF Collects
    <3> QED
      BY <1>2, <2>2, <3>1, <3>2, Zenon DEF BatchCollects
  <2>4. CASE ~b.structuredTruncated /\ ~Holds(b.structured, o)
    <3> DEFINE full == Len(b.structured) >= MaxLocalOutputs
               cs == IF full THEN b.structured ELSE Append(b.structured, Candidate(o, k))
    <3>1. Consider(b, o, k) = [b EXCEPT !.structured = cs, !.structuredTruncated = full]
      BY <1>6, <2>1, <2>4, Zenon DEF Consider
    <3>2. Collects(y, cs, MaxLocalOutputs, full, Structured, T, F)
      <4>1. /\ \A u \in T : y[u] = y[t] => u \in D \/ Earlier(t, u)
            /\ \A u \in F : u \in D \/ y[u] = y[t]
        OBVIOUS
      <4> HIDE DEF F
      <4> QED
        BY <1>1, <1>2, <1>3, <1>6, <2>1, <2>4, <4>1, OutputIsCollected, Zenon
    <3>4. full \in BOOLEAN /\ cs \in Seq(Candidates(Structured))
      <4>1. full \in BOOLEAN
        OBVIOUS
      <4>2. cs \in Seq(Candidates(Structured))
        BY <3>2, Zenon DEF Collects
      <4> QED
        BY <4>1, <4>2
    <3> HIDE DEF full, cs
    <3>5. /\ [b EXCEPT !.structured = cs, !.structuredTruncated = full] \in BatchType
          /\ [b EXCEPT !.structured = cs, !.structuredTruncated = full].structured = cs
          /\ [b EXCEPT !.structured = cs, !.structuredTruncated = full].structuredTruncated = full
          /\ [b EXCEPT !.structured = cs, !.structuredTruncated = full].unstructured = b.unstructured
          /\ [b EXCEPT !.structured = cs, !.structuredTruncated = full].unstructuredTruncated
                = b.unstructuredTruncated
      BY <1>2, <3>4 DEF BatchType
    <3> QED
      BY <2>2, <3>1, <3>2, <3>5, Zenon DEF BatchCollects
  <2> QED
    BY <2>3, <2>4
<1>7. CASE o \in Unstructured
  <2>1. t \in T /\ o # NoOutput /\ o \notin Structured
    BY <1>7, OutputsAreApart
  <2>2. Collects(y, b.structured, MaxLocalOutputs, b.structuredTruncated, Structured, T, F)
    <3>1. \A u \in F : y[u] \in Structured => u \in D
      BY <1>7, OutputsAreApart
    <3> QED
      BY <1>2, <3>1, CollectsLess
  <2>3. CASE b.unstructuredTruncated \/ Holds(b.unstructured, o)
    <3>1. Consider(b, o, k) = b
      BY <2>1, <2>3 DEF Consider
    <3>2. Collects(y, b.unstructured, MaxLocalOutputs, b.unstructuredTruncated, Unstructured, T, F)
      BY <1>2, <2>3 DEF Collects
    <3> QED
      BY <1>2, <2>2, <3>1, <3>2, Zenon DEF BatchCollects
  <2>4. CASE ~b.unstructuredTruncated /\ ~Holds(b.unstructured, o)
    <3> DEFINE full == Len(b.unstructured) >= MaxLocalOutputs
               cs == IF full THEN b.unstructured ELSE Append(b.unstructured, Candidate(o, k))
    <3>1. Consider(b, o, k) = [b EXCEPT !.unstructured = cs, !.unstructuredTruncated = full]
      BY <2>1, <2>4, Zenon DEF Consider
    <3>2. Collects(y, cs, MaxLocalOutputs, full, Unstructured, T, F)
      <4>1. /\ \A u \in T : y[u] = y[t] => u \in D \/ Earlier(t, u)
            /\ \A u \in F : u \in D \/ y[u] = y[t]
        OBVIOUS
      <4> HIDE DEF F
      <4> QED
        BY <1>1, <1>2, <1>3, <1>7, <2>1, <2>4, <4>1, OutputIsCollected, Zenon
    <3>4. full \in BOOLEAN /\ cs \in Seq(Candidates(Unstructured))
      <4>1. full \in BOOLEAN
        OBVIOUS
      <4>2. cs \in Seq(Candidates(Unstructured))
        BY <3>2, Zenon DEF Collects
      <4> QED
        BY <4>1, <4>2
    <3> HIDE DEF full, cs
    <3>5. /\ [b EXCEPT !.unstructured = cs, !.unstructuredTruncated = full] \in BatchType
          /\ [b EXCEPT !.unstructured = cs, !.unstructuredTruncated = full].unstructured = cs
          /\ [b EXCEPT !.unstructured = cs, !.unstructuredTruncated = full].unstructuredTruncated = full
          /\ [b EXCEPT !.unstructured = cs, !.unstructuredTruncated = full].structured = b.structured
          /\ [b EXCEPT !.unstructured = cs, !.unstructuredTruncated = full].structuredTruncated
                = b.structuredTruncated
      BY <1>2, <3>4 DEF BatchType
    <3> QED
      BY <2>2, <3>1, <3>2, <3>5, Zenon DEF BatchCollects
  <2> QED
    BY <2>3, <2>4
<1> QED
  BY <1>5, <1>6, <1>7 DEF Outputs

\* A key leaves in the batch what its tries yield.
LEMMA KeyIsCollected ==
  ASSUME NEW b, NEW T, NEW k \in 1 .. MaxTries, NEW D, SpaceInv,
         search.maps \in {"legacy", "extended"}, search.maps = "extended" => space.extended,
         search.context \in 1 .. space.contexts, k \in 1 .. space.keys,
         BatchCollects(space.yields, b, T, D),
         \A m \in MapsUsed(search.maps = "extended") :
             space.yields[<<m, search.context, k>>] # NoOutput => <<m, search.context, k>> \in T,
         \A u \in T : u \in D \/ (u[2] = search.context /\ k <= u[3])
  PROVE  BatchCollects(space.yields, ConsiderKey(b, k), T,
             D \union {u \in T : \E m \in MapsUsed(search.maps = "extended") : u = <<m, search.context, k>>})
<1> DEFINE y == space.yields
           l == <<"legacy", search.context, k>>
           x == <<"extended", search.context, k>>
           c == Consider(b, y[l], k)
<1>1. /\ l[2] = search.context /\ l[3] = k /\ x[2] = search.context /\ x[3] = k
  OBVIOUS
<1>2. \A u \in T : (u \in D \/ Earlier(l, u)) /\ (u \in D \/ Earlier(x, u))
  BY <1>1 DEF Earlier
<1>3. /\ MapsUsed(FALSE) = {"legacy"} /\ MapsUsed(TRUE) = {"legacy", "extended"}
  BY DEF MapsUsed
<1>4. l \in Tries(space.contexts, space.keys, space.extended) /\ y[l] \in Outputs \union {NoOutput}
  <2>1. l \in Tries(space.contexts, space.keys, space.extended)
    BY DEF Tries, MapsUsed
  <2> QED
    BY <2>1 DEF SpaceInv
<1>5. y[l] # NoOutput => l \in T
  BY <1>3
<1>6. BatchCollects(y, c, T, D \union ({l} \intersect T))
  BY <1>1, <1>2, <1>4, <1>5, ConsiderCollects
<1>7. CASE search.maps = "legacy"
  <2>1. ConsiderKey(b, k) = c
    BY <1>7 DEF ConsiderKey
  <2>2. D \union ({l} \intersect T)
          = D \union {u \in T : \E m \in MapsUsed(search.maps = "extended") : u = <<m, search.context, k>>}
    BY <1>3, <1>7
  <2> QED
    BY <1>6, <2>1, <2>2
<1>8. CASE search.maps = "extended"
  <2>1. ConsiderKey(b, k) = Consider(c, y[x], k)
    BY <1>8 DEF ConsiderKey
  <2>2. x \in Tries(space.contexts, space.keys, space.extended) /\ y[x] \in Outputs \union {NoOutput}
    <3>1. x \in Tries(space.contexts, space.keys, space.extended)
      BY <1>8 DEF Tries, MapsUsed
    <3> QED
      BY <3>1 DEF SpaceInv
  <2>3. y[x] # NoOutput => x \in T
    BY <1>3, <1>8
  <2> DEFINE E == D \union ({l} \intersect T)
  <2>4. \A u \in T : u \in E \/ Earlier(x, u)
    BY <1>2
  <2>5. BatchCollects(y, Consider(c, y[x], k), T, E \union ({x} \intersect T))
    <3> HIDE DEF E, c
    <3> QED
      BY <1>1, <1>6, <2>2, <2>3, <2>4, ConsiderCollects DEF E
  <2>6. E \union ({x} \intersect T)
          = D \union {u \in T : \E m \in MapsUsed(search.maps = "extended") : u = <<m, search.context, k>>}
    BY <1>3, <1>8
  <2> QED
    BY <2>1, <2>5, <2>6
<1> QED
  BY <1>7, <1>8

-----------------------------------------------------------------------------
(***************************************************************************)
(* What one thread would answer.                                           *)
(***************************************************************************)

\* There are finitely many tries.
LEMMA TriesAreFinite ==
  ASSUME NEW n \in Int, NEW k \in Int, NEW e \in BOOLEAN
  PROVE  IsFiniteSet(Tries(n, k, e))
<1> DEFINE P == (MapsUsed(e) \X (1 .. n)) \X (1 .. k)
           f == [p \in P |-> <<p[1][1], p[1][2], p[2]>>]
<1>1. IsFiniteSet(MapsUsed(e))
  <2>1. IsFiniteSet({"legacy"}) /\ IsFiniteSet({"legacy"} \union {"extended"})
    BY FS_Singleton, FS_AddElement
  <2>2. {"legacy"} \union {"extended"} = {"legacy", "extended"}
    OBVIOUS
  <2> QED
    BY <2>1, <2>2 DEF MapsUsed
<1>2. IsFiniteSet(1 .. n) /\ IsFiniteSet(1 .. k)
  <2>1. 1 \in Int
    OBVIOUS
  <2> QED
    BY <2>1, FS_Interval, Zenon
<1>3. IsFiniteSet(P)
  <2>1. IsFiniteSet(MapsUsed(e) \X (1 .. n))
    BY <1>1, <1>2, FS_Product
  <2> QED
    BY <1>2, <2>1, FS_Product
<1>4. f \in [P -> Tries(n, k, e)]
  BY DEF Tries
<1>5. ASSUME NEW t \in Tries(n, k, e)
      PROVE  \E p \in P : f[p] = t
  <2>1. /\ t = <<t[1], t[2], t[3]>> /\ t[1] \in MapsUsed(e) /\ t[2] \in 1 .. n /\ t[3] \in 1 .. k
    BY DEF Tries
  <2>2. <<<<t[1], t[2]>>, t[3]>> \in P
    BY <2>1
  <2>3. f[<<<<t[1], t[2]>>, t[3]>>] = t
    BY <2>1, <2>2
  <2> QED
    BY <2>2, <2>3
<1>6. f \in Surjection(P, Tries(n, k, e))
  BY <1>4, <1>5 DEF Surjection
<1> QED
  BY <1>3, <1>6, FS_Surjection

\* The outputs found, and what a hit is.
FoundIn(H) == {space.yields[t] : t \in H}

IsHit(t) == /\ t[2] \in 1 .. space.contexts /\ t[3] \in 1 .. space.keys
            /\ t[3] \in 1 .. MaxTries /\ space.yields[t] \in Structured \union Unstructured

\* The hits among the tries: finitely many outputs, each of one of the two sorts.
LEMMA HitsAreTyped ==
  ASSUME SpaceInv, NEW mp \in {"legacy", "extended"}, mp = "extended" => space.extended, NEW last,
         NEW H \in SUBSET Hits(mp, last)
  PROVE  /\ IsFiniteSet(FoundIn(H))
         /\ \A t \in H : IsHit(t)
<1> DEFINE e == (mp = "extended")
           f == [t \in H |-> space.yields[t]]
<1>1. /\ space.contexts \in Int /\ space.keys \in Int /\ space.keys <= MaxTries
      /\ space.yields \in [Tries(space.contexts, space.keys, space.extended) -> Outputs \union {NoOutput}]
  BY RetentionAssumption DEF SpaceInv
<1>2. H \subseteq Tries(space.contexts, space.keys, e) /\ \A t \in H : space.yields[t] # NoOutput
  BY DEF Hits
<1>3. Tries(space.contexts, space.keys, e) \subseteq Tries(space.contexts, space.keys, space.extended)
  BY DEF Tries, MapsUsed, SpaceInv
<1>4. IsFiniteSet(H)
  <2>1. e \in BOOLEAN
    OBVIOUS
  <2>2. IsFiniteSet(Tries(space.contexts, space.keys, e))
    BY <1>1, <2>1, TriesAreFinite, Zenon
  <2> QED
    BY <1>2, <2>2, FS_Subset
<1>5. f \in Surjection(H, FoundIn(H))
  BY DEF Surjection, FoundIn
<1>6. IsFiniteSet(FoundIn(H))
  BY <1>4, <1>5, FS_Surjection
<1>7. \A t \in H : t[2] \in 1 .. space.contexts /\ t[3] \in 1 .. space.keys
  BY <1>2 DEF Tries
<1>8. \A t \in H : space.yields[t] \in Structured \union Unstructured
  BY <1>1, <1>2, <1>3 DEF Outputs
<1>9. \A t \in H : t[3] \in 1 .. MaxTries
  BY <1>1, <1>7, RetentionAssumption
<1> QED
  BY <1>6, <1>7, <1>8, <1>9 DEF IsHit

\* The key of a candidate is that of the first hit with its output.
LEMMA FirstKeyIs ==
  ASSUME NEW H, NEW c, IsFirst(space.yields, c, H), \A t \in H : t[2] \in Int /\ t[3] \in Int
  PROVE  FirstKey(H, c.output) = c.key
<1> DEFINE T == { t \in H : space.yields[t] = c.output }
           Lowest(t) == \A u \in T : t[2] < u[2] \/ (t[2] = u[2] /\ t[3] <= u[3])
           x == CHOOSE t \in T : Lowest(t)
<1>1. PICK t \in T : t[3] = c.key /\ Lowest(t)
  BY DEF IsFirst, Earlier
<1>2. x \in T /\ Lowest(x)
  <2>1. \E s \in T : Lowest(s)
    BY <1>1
  <2> HIDE DEF T, Lowest
  <2> QED
    BY <2>1
<1>3. /\ x[2] < t[2] \/ (x[2] = t[2] /\ x[3] <= t[3])
      /\ t[2] < x[2] \/ (t[2] = x[2] /\ t[3] <= x[3])
      /\ x[2] \in Int /\ x[3] \in Int /\ t[2] \in Int /\ t[3] \in Int
  <2> HIDE DEF x
  <2> QED
    BY <1>1, <1>2
<1>4. x[3] = c.key
  <2> HIDE DEF x, T
  <2> QED
    BY <1>1, <1>3
<1>5. FirstKey(H, c.output) = x[3]
  BY Zenon DEF FirstKey
<1> QED
  BY <1>4, <1>5, Zenon

\* The outputs of a list that has everything are those found.
LEMMA CollectedIsFound ==
  ASSUME NEW H, NEW cs, NEW sort, Collects(space.yields, cs, MaxOutputs, FALSE, sort, H, H)
  PROVE  /\ FoundIn(H) \intersect sort = Held(cs)
         /\ Cardinality(FoundIn(H) \intersect sort) = Len(cs)
<1>1. cs \in Seq(Candidates(sort)) /\ \A i \in DOMAIN cs : cs[i].output \in sort
  <2>1. cs \in Seq(Candidates(sort))
    BY DEF Collects
  <2>2. \A i \in DOMAIN cs : cs[i] \in Candidates(sort)
    BY <2>1
  <2> QED
    BY <2>1, <2>2 DEF Candidates
<1>2. Held(cs) \subseteq FoundIn(H) \intersect sort
  BY <1>1 DEF Collects, IsFirst, Held, FoundIn
<1>3. FoundIn(H) \intersect sort \subseteq Held(cs)
  BY DEF Collects, Holds, Held, FoundIn
<1>4. Cardinality(Held(cs)) = Len(cs)
  BY <1>1, HeldAreCounted DEF Collects
<1> QED
  BY <1>2, <1>3, <1>4

\* A full list leaves out at least one output that was found.
LEMMA FullIsExceeded ==
  ASSUME NEW H, NEW D, NEW cs, NEW full, NEW sort, IsFiniteSet(FoundIn(H)),
         Collects(space.yields, cs, MaxOutputs, full, sort, H, D), Len(cs) = MaxOutputs,
         NEW t \in H, space.yields[t] \in sort, ~Holds(cs, space.yields[t])
  PROVE  Cardinality(FoundIn(H) \intersect sort) > MaxOutputs
<1> DEFINE F == FoundIn(H) \intersect sort
           o == space.yields[t]
<1>1. cs \in Seq(Candidates(sort)) /\ \A i \in DOMAIN cs : cs[i].output \in sort
  <2>1. cs \in Seq(Candidates(sort))
    BY DEF Collects
  <2>2. \A i \in DOMAIN cs : cs[i] \in Candidates(sort)
    BY <2>1
  <2> QED
    BY <2>1, <2>2 DEF Candidates
<1>2. Held(cs) \subseteq F
  BY <1>1 DEF Collects, IsFirst, Held, FoundIn
<1>3. o \in F /\ o \notin Held(cs)
  BY DEF FoundIn, Held, Holds
<1>4. IsFiniteSet(Held(cs)) /\ Cardinality(Held(cs)) = MaxOutputs
  BY <1>1, HeldAreCounted DEF Collects
<1>5. IsFiniteSet(F)
  BY FS_Subset
<1> HIDE DEF F, o
<1>6. Cardinality(Held(cs) \union {o}) = MaxOutputs + 1
  BY <1>3, <1>4, FS_AddElement
<1>7. Cardinality(Held(cs) \union {o}) <= Cardinality(F)
  <2>1. Held(cs) \union {o} \in SUBSET F
    BY <1>2, <1>3
  <2> QED
    BY <1>5, <2>1, FS_Subset
<1>8. Cardinality(F) \in Nat /\ MaxOutputs \in Nat
  BY <1>5, FS_CardinalityType, RetentionAssumption
<1>9. Cardinality(F) > MaxOutputs
  BY <1>6, <1>7, <1>8
<1> QED
  BY <1>9 DEF F

\* The verdict on lists that collect all hits is that on the hits themselves.
LEMMA JudgeIsRight ==
  ASSUME NEW H, NEW m, IsFiniteSet(FoundIn(H)),
         \A t \in H : t[2] \in Int /\ t[3] \in Int,
         m.overflow \in BOOLEAN,
         Collects(space.yields, m.structured, MaxOutputs, FALSE, Structured, H, H),
         Collects(space.yields, m.unstructured, MaxOutputs, m.overflow, Unstructured, H, H)
  PROVE  Judge(m) = OfHits(H) /\ OfHits(H).kind # "TooMany"
<1> DEFINE S == FoundIn(H) \intersect Structured
           U == FoundIn(H) \intersect Unstructured
           s == Len(m.structured)
           u == Len(m.unstructured)
           Only(X) == Verdict("Unique", CHOOSE o \in X : TRUE, FirstKey(H, CHOOSE o \in X : TRUE))
<1>1. MaxOutputs \in Nat /\ MaxOutputs >= 1
  BY RetentionAssumption
<1>2. /\ m.structured \in Seq(Candidates(Structured)) /\ m.unstructured \in Seq(Candidates(Unstructured))
      /\ s \in Nat /\ u \in Nat /\ s <= MaxOutputs /\ u <= MaxOutputs
  BY DEF Collects
<1>3. S = Held(m.structured) /\ Cardinality(S) = s
  BY CollectedIsFound
<1>4. m.overflow => Cardinality(U) > MaxOutputs
  <2>1. SUFFICES ASSUME m.overflow
                 PROVE  Cardinality(U) > MaxOutputs
    OBVIOUS
  <2>2. /\ u = MaxOutputs
        /\ \E t \in H : space.yields[t] \in Unstructured /\ ~Holds(m.unstructured, space.yields[t])
    BY <2>1 DEF Collects
  <2> QED
    BY <2>2, FullIsExceeded
<1>5. ~m.overflow => U = Held(m.unstructured) /\ Cardinality(U) = u
  <2>1. SUFFICES ASSUME ~m.overflow
                 PROVE  U = Held(m.unstructured) /\ Cardinality(U) = u
    OBVIOUS
  <2>2. Collects(space.yields, m.unstructured, MaxOutputs, FALSE, Unstructured, H, H)
    BY <2>1, Zenon DEF Collects
  <2> QED
    BY <2>2, CollectedIsFound
<1>6. IsFiniteSet(U) /\ Cardinality(U) \in Nat
  BY FS_Subset, FS_CardinalityType
<1>7. OfHits(H) = IF Cardinality(S) > MaxOutputs THEN Plain("TooMany")
                  ELSE IF Cardinality(S) = 1 THEN Only(S)
                  ELSE IF Cardinality(S) > 1 \/ Cardinality(U) > 1 THEN Plain("Ambiguous")
                  ELSE IF Cardinality(U) = 1 THEN Only(U)
                  ELSE Plain("NoMatch")
  BY Zenon DEF OfHits, FoundIn
<1>8. ASSUME NEW cs, NEW X, cs \in Seq(Candidates(X)), Len(cs) = 1,
             \A i \in DOMAIN cs : IsFirst(space.yields, cs[i], H), NEW F, F = Held(cs)
      PROVE  Only(F) = Verdict("Unique", cs[1].output, cs[1].key)
  <2>1. DOMAIN cs = {1}
    BY <1>8
  <2>2. F = {cs[1].output}
    BY <1>8, <2>1 DEF Held
  <2>3. (CHOOSE o \in F : TRUE) = cs[1].output
    BY <2>2
  <2>4. FirstKey(H, cs[1].output) = cs[1].key
    BY <1>8, <2>1, FirstKeyIs
  <2> QED
    BY <2>3, <2>4, Zenon
<1>9. s = 1 => Only(S) = Verdict("Unique", m.structured[1].output, m.structured[1].key)
  <2>1. \A i \in DOMAIN m.structured : IsFirst(space.yields, m.structured[i], H)
    BY DEF Collects
  <2> HIDE DEF S, Only
  <2> QED
    BY <1>2, <1>3, <1>8, <2>1
<1>10. u = 1 /\ ~m.overflow => Only(U) = Verdict("Unique", m.unstructured[1].output, m.unstructured[1].key)
  <2>1. \A i \in DOMAIN m.unstructured : IsFirst(space.yields, m.unstructured[i], H)
    BY DEF Collects
  <2> HIDE DEF U, Only
  <2> QED
    BY <1>2, <1>5, <1>8, <2>1
<1>11. \A o, k : Verdict("Unique", o, k).kind # "TooMany"
  BY DEF Verdict
<1>12. Plain("Ambiguous").kind # "TooMany" /\ Plain("NoMatch").kind # "TooMany"
  BY DEF Verdict, Plain
<1>13. CASE s = 1
  <2>1. OfHits(H) = Only(S)
    <3> HIDE DEF S, U, Only
    <3> QED
      BY <1>1, <1>2, <1>3, <1>7, <1>13
  <2>2. Judge(m) = Verdict("Unique", m.structured[1].output, m.structured[1].key)
    BY <1>13, Zenon DEF Judge
  <2> HIDE DEF S, Only
  <2> QED
    BY <1>9, <1>11, <1>13, <2>1, <2>2, Zenon
<1>14. CASE s # 1 /\ (s > 1 \/ m.overflow \/ u > 1)
  <2>1. Cardinality(S) > 1 \/ Cardinality(U) > 1
    <3> HIDE DEF S, U
    <3> QED
      BY <1>1, <1>2, <1>3, <1>4, <1>5, <1>6, <1>14
  <2>2. OfHits(H) = Plain("Ambiguous")
    <3> HIDE DEF S, U, Only
    <3> QED
      BY <1>1, <1>2, <1>3, <1>7, <1>14, <2>1
  <2>3. Judge(m) = Plain("Ambiguous")
    BY <1>14, Zenon DEF Judge
  <2> QED
    BY <1>12, <2>2, <2>3, Zenon
<1>15. CASE s # 1 /\ ~(s > 1 \/ m.overflow \/ u > 1)
  <2>1. s = 0 /\ ~m.overflow /\ u \in {0, 1}
    <3> HIDE DEF s, u
    <3> QED
      BY <1>2, <1>15
  <2>2. Cardinality(S) = 0 /\ Cardinality(U) = u
    BY <1>3, <1>5, <2>1
  <2>3. CASE u = 1
    <3>1. OfHits(H) = Only(U)
      <4> HIDE DEF S, U, Only
      <4> QED
        BY <1>1, <1>7, <2>2, <2>3
    <3>2. Judge(m) = Verdict("Unique", m.unstructured[1].output, m.unstructured[1].key)
      BY <1>15, <2>3, Zenon DEF Judge
    <3> HIDE DEF U, Only
    <3> QED
      BY <1>10, <1>11, <2>1, <2>3, <3>1, <3>2, Zenon
  <2>4. CASE u = 0
    <3>1. OfHits(H) = Plain("NoMatch")
      <4> HIDE DEF S, U, Only
      <4> QED
        BY <1>1, <1>7, <2>2, <2>4
    <3>2. Judge(m) = Plain("NoMatch")
      <4>1. u # 1
        BY <2>4
      <4> QED
        BY <1>15, <4>1, Zenon DEF Judge
    <3> QED
      BY <1>12, <3>1, <3>2, Zenon
  <2> QED
    BY <2>1, <2>3, <2>4
<1> QED
  BY <1>13, <1>14, <1>15

\* One structured output more than the list has room for: there are too many.
LEMMA TooManyIsRight ==
  ASSUME NEW H, NEW D, NEW cs, IsFiniteSet(FoundIn(H)),
         Collects(space.yields, cs, MaxOutputs, FALSE, Structured, H, D), ~(Len(cs) < MaxOutputs),
         NEW t \in H, space.yields[t] \in Structured, ~Holds(cs, space.yields[t])
  PROVE  OfHits(H) = Plain("TooMany")
<1>1. Len(cs) = MaxOutputs
  BY RetentionAssumption DEF Collects
<1>2. Cardinality(FoundIn(H) \intersect Structured) > MaxOutputs
  BY <1>1, FullIsExceeded
<1> QED
  BY <1>2, Zenon DEF OfHits, FoundIn

\* Nothing matches where there is no hit, and nowhere else.
LEMMA NoMatchIsNoHit ==
  ASSUME NEW H, IsFiniteSet(FoundIn(H)), \A t \in H : space.yields[t] \in Structured \union Unstructured
  PROVE  /\ OfHits(H).kind = "NoMatch" => H = {}
         /\ H = {} => OfHits(H) = Plain("NoMatch")
<1> DEFINE S == FoundIn(H) \intersect Structured
           U == FoundIn(H) \intersect Unstructured
           Only(X) == Verdict("Unique", CHOOSE o \in X : TRUE, FirstKey(H, CHOOSE o \in X : TRUE))
<1>1. /\ IsFiniteSet(S) /\ Cardinality(S) \in Nat
      /\ IsFiniteSet(U) /\ Cardinality(U) \in Nat
  BY FS_Subset, FS_CardinalityType
<1>2. OfHits(H) = IF Cardinality(S) > MaxOutputs THEN Plain("TooMany")
                  ELSE IF Cardinality(S) = 1 THEN Only(S)
                  ELSE IF Cardinality(S) > 1 \/ Cardinality(U) > 1 THEN Plain("Ambiguous")
                  ELSE IF Cardinality(U) = 1 THEN Only(U)
                  ELSE Plain("NoMatch")
  BY Zenon DEF OfHits, FoundIn
<1>3. /\ Plain("TooMany").kind = "TooMany" /\ Plain("Ambiguous").kind = "Ambiguous"
      /\ \A X : Only(X).kind = "Unique"
  BY DEF Plain, Verdict
<1>4. ASSUME OfHits(H).kind = "NoMatch"
      PROVE  H = {}
  <2>1. Cardinality(S) = 0 /\ Cardinality(U) = 0
    <3>1. /\ ~(Cardinality(S) > MaxOutputs) /\ Cardinality(S) # 1 /\ ~(Cardinality(S) > 1)
          /\ ~(Cardinality(U) > 1) /\ Cardinality(U) # 1
      <4> HIDE DEF S, U, Only
      <4> QED
        BY <1>2, <1>3, <1>4
    <3> HIDE DEF S, U
    <3> QED
      BY <1>1, <3>1
  <2>2. S = {} /\ U = {}
    BY <1>1, <2>1, FS_EmptySet
  <2> QED
    BY <2>2 DEF FoundIn
<1>5. ASSUME H = {}
      PROVE  OfHits(H) = Plain("NoMatch")
  <2>1. S = {} /\ U = {}
    BY <1>5 DEF FoundIn
  <2>2. Cardinality(S) = 0 /\ Cardinality(U) = 0
    BY <2>1, FS_EmptySet
  <2> HIDE DEF S, U, Only
  <2> QED
    BY <1>2, <2>2, RetentionAssumption
<1> QED
  BY <1>4, <1>5

-----------------------------------------------------------------------------
(***************************************************************************)
(* The order of the search.                                                *)
(***************************************************************************)

\* The four kinds of verdict on a set of hits.
LEMMA KindsOfHits ==
  ASSUME NEW H
  PROVE  /\ OfHits(H).kind \in {"TooMany", "Unique", "Ambiguous", "NoMatch"}
         /\ OfHits(H).kind = "NoMatch" => OfHits(H) = Plain("NoMatch")
<1> DEFINE S == {space.yields[t] : t \in H} \intersect Structured
           U == {space.yields[t] : t \in H} \intersect Unstructured
           Only(X) == Verdict("Unique", CHOOSE o \in X : TRUE, FirstKey(H, CHOOSE o \in X : TRUE))
<1>1. OfHits(H) = IF Cardinality(S) > MaxOutputs THEN Plain("TooMany")
                  ELSE IF Cardinality(S) = 1 THEN Only(S)
                  ELSE IF Cardinality(S) > 1 \/ Cardinality(U) > 1 THEN Plain("Ambiguous")
                  ELSE IF Cardinality(U) = 1 THEN Only(U)
                  ELSE Plain("NoMatch")
  BY Zenon DEF OfHits
<1>2. /\ Plain("TooMany").kind = "TooMany" /\ Plain("Ambiguous").kind = "Ambiguous"
      /\ Plain("NoMatch").kind = "NoMatch" /\ \A X : Only(X).kind = "Unique"
  BY DEF Plain, Verdict
<1> HIDE DEF S, U, Only
<1> QED
  BY <1>1, <1>2

\* No match means that no try hits, under either kind of maps.
LEMMA NoMatchHasNoHit ==
  ASSUME SpaceInv, NEW last, VerdictUpTo(last).kind = "NoMatch"
  PROVE  Hits("legacy", last) = {} /\ (space.extended => Hits("extended", last) = {})
<1>1. OfHits(Hits("legacy", last)).kind = "NoMatch"
  BY Zenon DEF VerdictUpTo
<1>2. space.extended => OfHits(Hits("extended", last)).kind = "NoMatch"
  BY <1>1, Zenon DEF VerdictUpTo
<1>3. ASSUME NEW mp \in {"legacy", "extended"}, mp = "extended" => space.extended,
             OfHits(Hits(mp, last)).kind = "NoMatch"
      PROVE  Hits(mp, last) = {}
  <2>1. Hits(mp, last) \in SUBSET Hits(mp, last)
    OBVIOUS
  <2>2. /\ IsFiniteSet(FoundIn(Hits(mp, last)))
        /\ \A t \in Hits(mp, last) : space.yields[t] \in Structured \union Unstructured
    BY <1>3, <2>1, HitsAreTyped DEF IsHit
  <2> QED
    BY <1>3, <2>2, NoMatchIsNoHit
<1>4. Hits("legacy", last) = {}
  BY <1>1, <1>3
<1>5. space.extended => Hits("extended", last) = {}
  BY <1>2, <1>3
<1> QED
  BY <1>4, <1>5

\* Without a hit there is no match.
LEMMA NoHitIsNoMatch ==
  ASSUME SpaceInv, NEW last, \A mp \in {"legacy", "extended"} : Hits(mp, last) = {}
  PROVE  VerdictUpTo(last) = Plain("NoMatch")
<1>1. FoundIn({}) = {}
  BY DEF FoundIn
<1>2. OfHits({}) = Plain("NoMatch")
  BY <1>1, FS_EmptySet, NoMatchIsNoHit
<1> QED
  BY <1>2 DEF VerdictUpTo

Searching == step \notin {"start", "done"}

\* Every hit of the maps in use is sought: none is among the keys skipped.
LEMMA SoughtIsAll ==
  ASSUME SpaceInv, PlaceInv, Searching
  PROVE  Sought = Hits(search.maps, search.last)
<1>1. ASSUME NEW t \in Hits(search.maps, search.last)
      PROVE  search.first <= t[3]
  <2>1. search.maps \in {"legacy", "extended"} /\ (search.maps = "extended" => space.extended)
    BY DEF PlaceInv
  <2>2. t[3] \in Int /\ 1 <= t[3] /\ t[3] <= search.last
    <3>1. t[3] \in 1 .. space.keys
      <4> DEFINE H == Hits(search.maps, search.last)
      <4>1. H \in SUBSET Hits(search.maps, search.last)
        OBVIOUS
      <4>2. t \in H
        OBVIOUS
      <4> HIDE DEF H
      <4>3. \A u \in H : IsHit(u)
        BY <2>1, <4>1, HitsAreTyped
      <4> QED
        BY <4>2, <4>3 DEF IsHit
    <3>2. t[3] <= search.last
      BY DEF Hits
    <3> QED
      BY <3>1, <3>2 DEF SpaceInv
  <2>3. CASE search.first = 1
    BY <2>2, <2>3
  <2>4. CASE search.first = space.direct + 1 /\ VerdictUpTo(space.direct).kind = "NoMatch"
    <3>1. Hits(search.maps, space.direct) = {}
      BY <2>1, <2>4, NoMatchHasNoHit
    <3>2. t[3] <= space.direct => t \in Hits(search.maps, space.direct)
      BY DEF Hits
    <3>3. space.direct \in Int
      BY DEF SpaceInv
    <3> QED
      BY <2>2, <2>4, <3>1, <3>2, <3>3
  <2> QED
    BY <2>3, <2>4 DEF PlaceInv, Searching
<1> QED
  BY <1>1 DEF Sought

\* The verdict on the hits under the maps in use is that on the keys up to the last,
\* unless the extended maps are still to be tried.
LEMMA VerdictIsFinal ==
  ASSUME PlaceInv, Searching, NEW v, v = OfHits(Hits(search.maps, search.last)),
         v.kind = "NoMatch" => ~space.extended \/ search.maps = "extended"
  PROVE  v = VerdictUpTo(search.last)
<1>1. search.maps \in {"legacy", "extended"} /\ (search.maps = "extended" => space.extended)
  BY DEF PlaceInv
<1>2. CASE search.maps = "extended"
  <2>1. OfHits(Hits("legacy", search.last)).kind = "NoMatch"
    BY <1>2 DEF PlaceInv, Searching
  <2> QED
    BY <1>1, <1>2, <2>1, Zenon DEF VerdictUpTo
<1>3. CASE search.maps = "legacy"
  BY <1>3, Zenon DEF VerdictUpTo
<1> QED
  BY <1>1, <1>2, <1>3

\* The verdict at which the search stops is the one expected of it.
LEMMA AnswerIsExpected ==
  ASSUME PlaceInv, Searching, NEW v, v = OfHits(Hits(search.maps, search.last)),
         v.kind = "NoMatch" => ~space.extended \/ search.maps = "extended",
         \/ search.tier = "fallback"
         \/ v.kind \in {"Unique", "TooMany"}
         \/ v.kind = "Ambiguous" /\ ~space.extended
         \/ search.last = space.keys
  PROVE  v = Expected
<1>1. v = VerdictUpTo(search.last)
  BY VerdictIsFinal
<1>2. CASE search.tier = "fallback"
  <2>1. search.last = space.keys /\ DirectIsUndecided
    BY <1>2 DEF PlaceInv, Searching
  <2>2. Expected = VerdictUpTo(space.keys)
    BY <2>1 DEF Expected, DirectIsUndecided
  <2> QED
    BY <1>1, <2>1, <2>2
<1>3. CASE search.tier # "fallback"
  <2>1. search.last = space.direct
    BY <1>3 DEF PlaceInv, Searching
  <2>2. CASE v.kind \in {"Unique", "TooMany"} \/ (v.kind = "Ambiguous" /\ ~space.extended)
    BY <1>1, <2>1, <2>2 DEF Expected
  <2>3. CASE search.last = space.keys
    BY <1>1, <2>1, <2>3, Zenon DEF Expected
  <2> QED
    BY <1>3, <2>2, <2>3
<1> QED
  BY <1>2, <1>3

\* What is said of the space alone stays when the space does.
LEMMA SpaceStays ==
  ASSUME space' = space
  PROVE  /\ SpaceInv' <=> SpaceInv
         /\ Expected' = Expected
         /\ DirectIsUndecided' <=> DirectIsUndecided
         /\ VerdictUpTo(space.direct)' = VerdictUpTo(space.direct)
<1>1. SpaceInv' <=> SpaceInv
  BY DEF SpaceInv
<1>2. \A mp, last : Hits(mp, last)' = Hits(mp, last)
  BY DEF Hits
<1>3. \A H, o : FirstKey(H, o)' = FirstKey(H, o)
  BY DEF FirstKey
<1>4. \A H : OfHits(H)' = OfHits(H)
  BY <1>3 DEF OfHits
<1>5. VerdictUpTo(space.direct)' = VerdictUpTo(space.direct)
  BY <1>2, <1>4 DEF VerdictUpTo
<1>6. VerdictUpTo(space.keys)' = VerdictUpTo(space.keys)
  BY <1>2, <1>4 DEF VerdictUpTo
<1>7. Expected' = Expected
  BY <1>5, <1>6 DEF Expected
<1>8. DirectIsUndecided' <=> DirectIsUndecided
  BY <1>5 DEF DirectIsUndecided
<1> QED
  BY <1>1, <1>5, <1>7, <1>8

\* The verdict under the legacy maps depends on the last key alone.
LEMMA LastStays ==
  ASSUME space' = space, NEW last, search'.last = last
  PROVE  OfHits(Hits("legacy", search.last))' = OfHits(Hits("legacy", last))
<1>1. Hits("legacy", search.last)' = Hits("legacy", last)
  BY DEF Hits
<1>2. \A H, o : FirstKey(H, o)' = FirstKey(H, o)
  BY DEF FirstKey
<1>3. \A H : OfHits(H)' = OfHits(H)
  BY <1>2 DEF OfHits
<1> QED
  BY <1>1, <1>3

-----------------------------------------------------------------------------
(***************************************************************************)
(* The keys in chunks.                                                     *)
(***************************************************************************)

\* The quotient is rounded up.
LEMMA CeilIs ==
  ASSUME NEW a \in Nat \ {0}, NEW b \in Nat \ {0}
  PROVE  /\ Ceil(a, b) \in Nat \ {0}
         /\ (Ceil(a, b) - 1) * b < a /\ a <= Ceil(a, b) * b
<1>1. a + b - 1 \in Nat
  OBVIOUS
<1>2. \A n \in Nat : n \div b \in Nat /\ n % b \in 0 .. b - 1 /\ n = b * (n \div b) + (n % b)
  OBVIOUS
<1>3. PICK q \in Nat, r \in 0 .. b - 1 : q = (a + b - 1) \div b /\ a + b - 1 = b * q + r
  BY <1>1, <1>2
<1>4. PICK p \in Int : p = b * q
  BY <1>3
<1>5. q * b = p /\ (q - 1) * b = p - b
  BY <1>4
<1>6. p - b < a /\ a <= p /\ p >= 1
  BY <1>3, <1>4
<1>7. q # 0
  BY <1>4, <1>6
<1> QED
  BY <1>3, <1>5, <1>6, <1>7 DEF Ceil

\* There is at least one worker.
LEMMA WorkersExist ==
  ASSUME SpaceInv, NEW n \in Nat \ {0}
  PROVE  WorkerCount(n) \in Nat \ {0}
<1>1. space.lanes \in Nat \ {0} /\ KeysPerWorker \in Nat \ {0}
  BY RetentionAssumption DEF SpaceInv
<1>2. Ceil(n, KeysPerWorker) \in Nat \ {0}
  BY <1>1, CeilIs
<1> QED
  BY <1>1, <1>2 DEF WorkerCount, Lesser

ChunkType == [next : Int, last : Int, batch : BatchType, status : {"replaying", "done", "cancelled"}]

\* The chunks are not empty, each starts where the one before it ends, and the last
\* ends with the last key.
LEMMA ChunksAreRight ==
  ASSUME SpaceInv, PlaceInv, Searching
  PROVE  \E n \in Nat \ {0} :
            /\ Chunks \in [1 .. n -> ChunkType] /\ Chunks[n].last = search.last
            /\ \A i \in 1 .. n :
                  /\ Chunks[i].status = "replaying" /\ Chunks[i].batch = Batch
                  /\ Chunks[i].next = IF i = 1 THEN search.first ELSE Chunks[i - 1].last + 1
                  /\ search.first <= Chunks[i].next /\ Chunks[i].next <= Chunks[i].last
                  /\ Chunks[i].last <= search.last
<1>1. /\ search.first \in Int /\ search.last \in Int /\ 1 <= search.first
      /\ search.first <= search.last
  BY DEF PlaceInv, Searching
<1>2. KeyCount \in Nat \ {0} /\ search.last = search.first + KeyCount - 1
  BY <1>1 DEF KeyCount
<1>3. WorkerCount(KeyCount) \in Nat \ {0}
  BY <1>2, WorkersExist
<1>4. PICK size \in Nat \ {0} : size = Ceil(KeyCount, WorkerCount(KeyCount))
  BY <1>2, <1>3, CeilIs
<1>5. PICK n \in Nat \ {0} : n = Ceil(KeyCount, size) /\ (n - 1) * size < KeyCount /\ KeyCount <= n * size
  BY <1>2, <1>4, CeilIs
<1> DEFINE start(i) == search.first + (i - 1) * size
           end(i) == Lesser(search.first + i * size - 1, search.last)
<1>6. Chunks = [i \in 1 .. n |-> [next |-> start(i), last |-> end(i), batch |-> Batch, status |-> "replaying"]]
  BY <1>4, <1>5 DEF Chunks
<1>8. ASSUME NEW i \in 1 .. n
      PROVE  /\ (i - 1) * size \in Nat /\ (i - 1) * size < KeyCount
             /\ i * size = (i - 1) * size + size
  <2>1. (i - 1) * size <= (n - 1) * size /\ (i - 1) * size \in Nat /\ (n - 1) * size \in Nat
    OBVIOUS
  <2>2. i * size = (i - 1) * size + size
    OBVIOUS
  <2> QED
    BY <1>2, <1>5, <2>1, <2>2
<1>9. ASSUME NEW i \in 1 .. n
      PROVE  /\ start(i) \in Int /\ end(i) \in Int
             /\ search.first <= start(i) /\ start(i) <= end(i) /\ end(i) <= search.last
             /\ i # 1 => start(i) = end(i - 1) + 1
             /\ i = 1 => start(i) = search.first
             /\ i = n => end(i) = search.last
  <2>1. PICK d \in Nat : d = (i - 1) * size
    BY <1>8
  <2>2. d < KeyCount /\ i * size = d + size
    BY <1>8, <2>1
  <2>3. start(i) = search.first + d
    BY <2>1
  <2>4. end(i) = Lesser(search.first + (d + size) - 1, search.last)
    BY <2>2
  <2>5. start(i) \in Int /\ search.first <= start(i)
    BY <1>1, <2>3
  <2>6. end(i) \in Int /\ start(i) <= end(i) /\ end(i) <= search.last
    <3> HIDE DEF start, end
    <3> QED
      BY <1>1, <1>2, <1>4, <2>2, <2>3, <2>4 DEF Lesser
  <2>7. i # 1 => start(i) = end(i - 1) + 1
    <3>1. end(i - 1) = Lesser(search.first + d - 1, search.last)
      BY <2>1
    <3> HIDE DEF start, end
    <3> QED
      BY <1>1, <1>2, <2>2, <2>3, <3>1 DEF Lesser
  <2>8. i = 1 => start(i) = search.first
    <3>1. i = 1 => d = 0
      BY <2>1
    <3> HIDE DEF start, end
    <3> QED
      BY <1>1, <2>3, <3>1
  <2>9. i = n => end(i) = search.last
    <3>1. i = n => KeyCount <= d + size
      BY <1>5, <2>2
    <3> HIDE DEF start, end
    <3> QED
      BY <1>1, <1>2, <2>4, <3>1 DEF Lesser
  <2> HIDE DEF start, end
  <2> QED
    BY <2>5, <2>6, <2>7, <2>8, <2>9
<1>10. Batch \in BatchType
  BY DEF Batch, BatchType
<1> HIDE DEF start, end
<1>11. Chunks \in [1 .. n -> ChunkType]
  BY <1>6, <1>9, <1>10 DEF ChunkType
<1>12. \A i \in 1 .. n : /\ Chunks[i].status = "replaying" /\ Chunks[i].batch = Batch
                         /\ Chunks[i].next = start(i) /\ Chunks[i].last = end(i)
  BY <1>6
<1>13. \A i \in 1 .. n : i # 1 => i - 1 \in 1 .. n
  OBVIOUS
<1>14. n \in 1 .. n
  OBVIOUS
<1>15. Chunks[n].last = search.last
  BY <1>9, <1>12, <1>14
<1>16. ASSUME NEW i \in 1 .. n
       PROVE  /\ Chunks[i].status = "replaying" /\ Chunks[i].batch = Batch
              /\ Chunks[i].next = IF i = 1 THEN search.first ELSE Chunks[i - 1].last + 1
              /\ search.first <= Chunks[i].next /\ Chunks[i].next <= Chunks[i].last
              /\ Chunks[i].last <= search.last
  BY <1>9, <1>12, <1>13
<1> QED
  BY <1>11, <1>15, <1>16

-----------------------------------------------------------------------------
(***************************************************************************)
(* What a step leaves as it is.                                            *)
(***************************************************************************)

\* The place of the search stays.
LEMMA PlaceStays ==
  ASSUME PlaceInv, space' = space, search' = search, Searching' => Searching
  PROVE  PlaceInv'
<1>1. OfHits(Hits("legacy", search.last))' = OfHits(Hits("legacy", search.last))
  BY LastStays
<1>2. /\ DirectIsUndecided' <=> DirectIsUndecided
      /\ VerdictUpTo(space.direct)' = VerdictUpTo(space.direct)
  BY SpaceStays
<1> QED
  BY <1>1, <1>2 DEF PlaceInv, Searching

\* The answer stays.
LEMMA AnswerStays ==
  ASSUME AnswerInv, space' = space, answer' = answer, step # "done",
         step' \in {"context", "replay", "structured", "unstructured", "merged"} \/ step' = step,
         cancelled' \in BOOLEAN, cancelled => cancelled'
  PROVE  AnswerInv'
<1>1. Expected' = Expected
  BY SpaceStays
<1> QED
  BY <1>1 DEF AnswerInv, VerdictIsSequential

\* The hits sought stay.
LEMMA SoughtStays ==
  ASSUME space' = space, search' = search
  PROVE  Sought' = Sought
BY DEF Sought, Hits

\* The chunks stay, whether or not the search is cancelled.
LEMMA ChunksStay ==
  ASSUME ChunkInv, UNCHANGED <<space, search, chunks>>, cancelled => cancelled',
         step \in {"replay", "structured", "unstructured"}
  PROVE  ChunkInv'
<1>1. Sought' = Sought
  BY SoughtStays
<1>2. ASSUME NEW i \in DOMAIN chunks
      PROVE  IsChunk(i)'
  <2>1. IsChunk(i)
    BY DEF ChunkInv
  <2>2. From(i)' = From(i)
    BY DEF From
  <2>3. Within(i)' = Within(i)
    BY <1>1, <2>2 DEF Within
  <2> QED
    BY <2>1, <2>2, <2>3 DEF IsChunk
<1> QED
  BY <1>2 DEF ChunkInv

\* What is merged stays.
LEMMA MergeStays ==
  ASSUME MergeInv, UNCHANGED <<space, step, search, chunks, merged, at>>
  PROVE  MergeInv'
<1>1. Sought' = Sought
  BY SoughtStays
<1>2. From(at.chunk)' = From(at.chunk)
  BY DEF From
<1>3. Within(at.chunk)' = Within(at.chunk)
  BY <1>1, <1>2 DEF Within
<1>4. Passed' = Passed
  BY <1>1, <1>2 DEF Passed, Before
<1>5. /\ Listed(at.chunk, at.candidate, chunks[at.chunk].batch.structured)' = Listed(at.chunk, at.candidate, chunks[at.chunk].batch.structured)
      /\ Listed(at.chunk, at.candidate, chunks[at.chunk].batch.unstructured)' = Listed(at.chunk, at.candidate, chunks[at.chunk].batch.unstructured)
  BY <1>3 DEF Listed
<1>6. /\ Before(search.context, search.first)' = Before(search.context, search.first)
      /\ Before(search.context, search.last + 1)' = Before(search.context, search.last + 1)
  BY <1>1 DEF Before
<1>7. /\ merged.structured' = merged.structured /\ merged.unstructured' = merged.unstructured
      /\ merged.overflow' = merged.overflow /\ space.yields' = space.yields
  OBVIOUS
<1> QED
  BY <1>1, <1>3, <1>4, <1>5, <1>6, <1>7 DEF MergeInv, MergedCollects

-----------------------------------------------------------------------------
(***************************************************************************)
(* The search ends, or begins anew.                                        *)
(***************************************************************************)

\* An answer that is the expected one, or admits that the search was cancelled.
LEMMA AnswerKeeps ==
  ASSUME ReplayInv, step # "done", NEW v, Answer(v),
         v.kind \in {"NoMatch", "Unique", "Ambiguous", "TooMany", "Cancelled"},
         v.kind = "Cancelled" => cancelled, v.kind # "Cancelled" => v = Expected
  PROVE  ReplayInv'
<1>1. UNCHANGED <<space, search, chunks, merged, at, cancelled>> /\ answer' = v /\ step' = "done"
  BY DEF Answer
<1>2. SpaceInv'
  BY <1>1, SpaceStays DEF ReplayInv
<1>3. PlaceInv'
  BY <1>1, PlaceStays DEF ReplayInv, Searching
<1>4. ChunkInv'
  BY <1>1 DEF ChunkInv
<1>5. MergeInv'
  BY <1>1 DEF MergeInv, ReplayInv
<1>6. AnswerInv'
  <2>1. Expected' = Expected
    BY <1>1, SpaceStays
  <2> QED
    BY <1>1, <2>1 DEF AnswerInv, ReplayInv, VerdictIsSequential
<1> QED
  BY <1>2, <1>3, <1>4, <1>5, <1>6 DEF ReplayInv

\* An empty list collects no hits.
LEMMA EmptyCollects ==
  ASSUME NEW y, NEW cap \in Nat, NEW sort, NEW T, NEW D, \A t \in D : y[t] \notin sort
  PROVE  Collects(y, <<>>, cap, FALSE, sort, T, D)
<1>1. <<>> \in Seq(Candidates(sort)) /\ Len(<<>>) = 0 /\ DOMAIN <<>> = {}
  OBVIOUS
<1> QED
  BY <1>1 DEF Collects

\* A new set of keys, or the extended maps.
LEMMA ReplayBegins ==
  ASSUME ReplayInv, step # "done", NEW s, Replay(s),
         s \in [tier : {"direct", "fallback"}, first : Int, last : Int,
                maps : {"legacy", "extended"}, context : {1}],
         1 <= s.first, s.first <= s.last, s.last <= space.keys,
         s.maps = "extended" =>
            space.extended /\ OfHits(Hits("legacy", s.last)).kind = "NoMatch",
         IF s.tier = "direct" THEN s.first = 1 /\ s.last = space.direct
         ELSE /\ s.last = space.keys /\ DirectIsUndecided
              /\ \/ s.first = 1
                 \/ s.first = space.direct + 1 /\ VerdictUpTo(space.direct).kind = "NoMatch"
  PROVE  ReplayInv'
<1>1. /\ UNCHANGED <<space, at, cancelled, answer>> /\ search' = s /\ merged' = Nothing
      /\ chunks' = <<>> /\ step' = "context"
  BY DEF Replay
<1>2. SpaceInv'
  BY <1>1, SpaceStays DEF ReplayInv
<1>3. PlaceInv'
  <2>1. OfHits(Hits("legacy", search.last))' = OfHits(Hits("legacy", s.last))
    BY <1>1, LastStays
  <2>2. /\ DirectIsUndecided' <=> DirectIsUndecided
        /\ VerdictUpTo(space.direct)' = VerdictUpTo(space.direct)
    BY <1>1, SpaceStays
  <2>3. 1 \in 1 .. space.contexts /\ space.contexts \in Int
    BY DEF ReplayInv, SpaceInv
  <2>4. s \in [tier : {"direct", "fallback"}, first : Int, last : Int,
               maps : {"legacy", "extended"}, context : 1 .. space.contexts]
    BY <2>3
  <2> QED
    BY <1>1, <2>1, <2>2, <2>4 DEF PlaceInv
<1>4. ChunkInv'
  BY <1>1 DEF ChunkInv
<1>5. MergeInv'
  <2>2. MaxOutputs \in Nat
    BY RetentionAssumption
  <2>3. /\ merged'.structured = <<>> /\ merged'.unstructured = <<>> /\ merged'.overflow = FALSE
        /\ merged' \in [structured : Seq(Candidates(Structured)),
                         unstructured : Seq(Candidates(Unstructured)), overflow : BOOLEAN]
        /\ Len(merged'.structured) = 0 /\ Len(merged'.unstructured) = 0
    BY <1>1 DEF Nothing
  <2>4. MergedCollects(Before(search.context, search.first), Before(search.context, search.first))'
    <3>1. Before(search.context, search.first)' = {}
      <4>1. ASSUME NEW t \in Sought'
            PROVE  t[2] \in Int /\ 1 <= t[2] /\ t[3] \in Int /\ s.first <= t[3]
        BY <1>1 DEF Sought, Hits, Tries
      <4>2. search'.context = 1 /\ search'.first = s.first
        BY <1>1
      <4> QED
        BY <4>1, <4>2 DEF Before
    <3>2. /\ Collects(space'.yields, <<>>, MaxOutputs, FALSE, Structured, Sought', {})
          /\ Collects(space'.yields, <<>>, MaxOutputs, FALSE, Unstructured, Sought', {})
      BY <2>2, EmptyCollects
    <3> QED
      BY <2>3, <3>1, <3>2 DEF MergedCollects
  <2> QED
    BY <1>1, <2>2, <2>3, <2>4 DEF MergeInv, MergedType, ReplayInv
<1>6. AnswerInv'
  BY <1>1, AnswerStays DEF ReplayInv, AnswerInv
<1> QED
  BY <1>2, <1>3, <1>4, <1>5, <1>6 DEF ReplayInv

\* The complete set of keys, or what is left of it.
LEMMA FallbackKeeps ==
  ASSUME ReplayInv, step # "done", NEW first \in Int, Fallback(first), DirectIsUndecided, 1 <= first,
         \/ first = 1
         \/ first = space.direct + 1 /\ VerdictUpTo(space.direct).kind = "NoMatch"
  PROVE  ReplayInv'
<1>1. space.keys \in Nat /\ space.direct \in Nat /\ space.direct <= space.keys
  BY RetentionAssumption DEF ReplayInv, SpaceInv
<1>2. CASE first <= space.keys
  <2> DEFINE s == Search("fallback", first, space.keys)
  <2>1. Replay(s)
    BY <1>2, Zenon DEF Fallback
  <2>2. /\ s \in [tier : {"direct", "fallback"}, first : Int, last : Int,
                 maps : {"legacy", "extended"}, context : {1}]
        /\ s.first = first /\ s.last = space.keys /\ s.maps = "legacy" /\ s.tier = "fallback"
    BY <1>1 DEF Search
  <2> HIDE DEF s
  <2>3. s.maps # "extended" /\ s.tier # "direct" /\ 1 <= s.first /\ s.first <= s.last /\ s.last <= space.keys
    BY <1>1, <1>2, <2>2
  <2> QED
    BY <2>1, <2>2, <2>3, ReplayBegins
<1>3. CASE ~(first <= space.keys)
  <2>1. Answer(Plain("NoMatch"))
    BY <1>3, Zenon DEF Fallback
  <2>2. Plain("NoMatch").kind = "NoMatch"
    BY DEF Plain, Verdict
  <2>3. Plain("NoMatch") = Expected
    <3>1. Expected = VerdictUpTo(space.keys)
      BY DEF Expected, DirectIsUndecided
    <3>2. CASE space.keys = 0
      <4>1. \A mp \in {"legacy", "extended"} : Hits(mp, space.keys) = {}
        BY <3>2 DEF Hits, Tries
      <4> QED
        BY <3>1, <4>1, NoHitIsNoMatch DEF ReplayInv
    <3>3. CASE space.keys # 0
      <4>1. space.direct = space.keys /\ VerdictUpTo(space.direct).kind = "NoMatch"
        BY <1>1, <1>3, <3>3
      <4>2. VerdictUpTo(space.direct) = Plain("NoMatch")
        <5>1. \E H : VerdictUpTo(space.direct) = OfHits(H)
          BY Zenon DEF VerdictUpTo
        <5> QED
          BY <4>1, <5>1, KindsOfHits
      <4> QED
        BY <3>1, <4>1, <4>2
    <3> QED
      BY <3>2, <3>3
  <2> QED
    BY <2>1, <2>2, <2>3, AnswerKeeps
<1> QED
  BY <1>2, <1>3

\* The search starts with the keys rooted in the metadata, if there are any.
LEMMA StartOpens == ReplayInv /\ Start => ReplayInv'
<1> SUFFICES ASSUME ReplayInv, Start
             PROVE  ReplayInv'
  OBVIOUS
<1>1. step = "start"
  BY DEF Start
<1>2. space.direct \in Nat /\ space.direct <= space.keys /\ space.keys \in Nat
  BY RetentionAssumption DEF ReplayInv, SpaceInv
<1>3. CASE space.direct # 0
  <2> DEFINE s == Search("direct", 1, space.direct)
  <2>1. Replay(s)
    BY <1>3, Zenon DEF Start
  <2>2. /\ s \in [tier : {"direct", "fallback"}, first : Int, last : Int,
                 maps : {"legacy", "extended"}, context : {1}]
        /\ s.first = 1 /\ s.last = space.direct /\ s.maps = "legacy" /\ s.tier = "direct"
    BY <1>2 DEF Search
  <2> HIDE DEF s
  <2>3. s.maps # "extended" /\ 1 <= s.first /\ s.first <= s.last /\ s.last <= space.keys
    BY <1>2, <1>3, <2>2
  <2> QED
    BY <1>1, <2>1, <2>2, <2>3, ReplayBegins
<1>4. CASE space.direct = 0
  <2>1. Fallback(1)
    BY <1>4, Zenon DEF Start
  <2>2. \A mp \in {"legacy", "extended"} : Hits(mp, 0) = {}
    BY <1>2 DEF Hits, Tries
  <2>3. VerdictUpTo(0) = Plain("NoMatch")
    BY <2>2, NoHitIsNoMatch DEF ReplayInv
  <2>4. Plain("NoMatch").kind = "NoMatch"
    BY DEF Plain, Verdict
  <2>5. DirectIsUndecided
    BY <1>4, <2>3, <2>4 DEF DirectIsUndecided
  <2>6. 1 \in Int /\ 1 <= 1
    OBVIOUS
  <2> QED
    BY <1>1, <2>1, <2>5, <2>6, FallbackKeeps
<1> QED
  BY <1>3, <1>4

\* The keys of a context are dealt to the lanes.
LEMMA ContextBegins == ReplayInv /\ BeginContext => ReplayInv'
<1> SUFFICES ASSUME ReplayInv, BeginContext
             PROVE  ReplayInv'
  OBVIOUS
<1>1. step = "context" /\ Searching
  BY DEF BeginContext, Searching
<1>2. CASE cancelled
  <2>1. Answer(Plain("Cancelled")) /\ Plain("Cancelled").kind = "Cancelled"
    BY <1>2 DEF BeginContext, Plain, Verdict
  <2> QED
    BY <1>1, <1>2, <2>1, AnswerKeeps
<1>3. CASE ~cancelled
  <2>1. chunks' = Chunks /\ step' = "replay" /\ UNCHANGED <<space, search, merged, at, cancelled, answer>>
    BY <1>3 DEF BeginContext
  <2>2. SpaceInv'
    BY <2>1, SpaceStays DEF ReplayInv
  <2>3. PlaceInv'
    BY <1>1, <2>1, PlaceStays DEF ReplayInv
  <2>4. AnswerInv'
    <3>1. AnswerInv /\ cancelled \in BOOLEAN
      BY DEF ReplayInv, AnswerInv
    <3> QED
      BY <1>1, <2>1, <3>1, AnswerStays
  <2>5. MergeInv'
    <3>1. Sought' = Sought
      BY <2>1, SoughtStays
    <3>2. Before(search.context, search.first)' = Before(search.context, search.first)
      BY <2>1, <3>1 DEF Before
    <3>3. MergedCollects(Before(search.context, search.first), Before(search.context, search.first))
      BY <1>1 DEF ReplayInv, MergeInv
    <3>4. MergedCollects(Before(search.context, search.first), Before(search.context, search.first))'
      BY <2>1, <3>1, <3>2, <3>3 DEF MergedCollects
    <3> QED
      BY <2>1, <3>4 DEF ReplayInv, MergeInv
  <2>6. ChunkInv'
    <3>1. PICK n \in Nat \ {0} :
            /\ Chunks \in [1 .. n -> ChunkType] /\ Chunks[n].last = search.last
            /\ \A i \in 1 .. n :
                  /\ Chunks[i].status = "replaying" /\ Chunks[i].batch = Batch
                  /\ Chunks[i].next = IF i = 1 THEN search.first ELSE Chunks[i - 1].last + 1
                  /\ search.first <= Chunks[i].next /\ Chunks[i].next <= Chunks[i].last
                  /\ Chunks[i].last <= search.last
      BY <1>1, ChunksAreRight DEF ReplayInv
    <3>2. chunks' \in Seq(ChunkType) /\ Len(chunks') = n /\ DOMAIN chunks' = 1 .. n /\ chunks' # <<>>
      BY <2>1, <3>1
    <3>3. ASSUME NEW i \in 1 .. n
          PROVE  IsChunk(i)'
      <4>1. /\ chunks'[i].status = "replaying" /\ chunks'[i].batch = Batch
            /\ chunks'[i].next = From(i)' /\ search.first <= From(i)' /\ From(i)' <= chunks'[i].last
            /\ chunks'[i].last <= search.last /\ search'.first = search.first /\ search'.last = search.last
            /\ chunks'[i].next \in Int
        <5>1. Chunks[i] \in ChunkType
          BY <3>1
        <5>2. From(i)' = IF i = 1 THEN search.first ELSE Chunks[i - 1].last + 1
          BY <2>1 DEF From
        <5> QED
          BY <2>1, <3>1, <5>1, <5>2 DEF ChunkType
      <4>2. {t \in Within(i) : t[3] < chunks[i].next}' = {}
        <5>1. ASSUME NEW t \in Sought'
              PROVE  t[3] \in Int
          <6>1. space'.keys \in Int
            BY <2>2, RetentionAssumption DEF SpaceInv
          <6> QED
            BY <6>1 DEF Sought, Hits, Tries
        <5>2. ASSUME NEW t \in Within(i)'
              PROVE  ~(t[3] < chunks'[i].next)
          <6>1. t \in Sought' /\ chunks'[i].next <= t[3]
            BY <4>1 DEF Within
          <6> QED
            BY <4>1, <5>1, <6>1
        <5> QED
          BY <5>2
      <4>3. BatchCollects(space'.yields, Batch, Within(i)', {})
        <5>1. /\ Collects(space'.yields, <<>>, MaxLocalOutputs, FALSE, Structured, Within(i)', {})
              /\ Collects(space'.yields, <<>>, MaxLocalOutputs, FALSE, Unstructured, Within(i)', {})
          <6>1. MaxLocalOutputs \in Nat
            BY RetentionAssumption
          <6> QED
            BY <6>1, EmptyCollects
        <5>2. /\ Batch \in BatchType /\ Batch.structured = <<>> /\ Batch.unstructured = <<>>
              /\ Batch.structuredTruncated = FALSE /\ Batch.unstructuredTruncated = FALSE
          BY DEF Batch, BatchType
        <5> QED
          BY <5>1, <5>2, Zenon DEF BatchCollects
      <4> QED
        BY <4>1, <4>2, <4>3 DEF IsChunk
    <3> QED
      BY <2>1, <3>1, <3>2, <3>3 DEF ChunkInv, ChunkType
  <2> QED
    BY <2>2, <2>3, <2>4, <2>5, <2>6 DEF ReplayInv
<1> QED
  BY <1>2, <1>3

\* A batch that collects some hits collects fewer of them too.
LEMMA BatchCollectsLess ==
  ASSUME NEW y, NEW b, NEW T, NEW D, NEW F, BatchCollects(y, b, T, D), F \subseteq D
  PROVE  BatchCollects(y, b, T, F)
<1>1. /\ Collects(y, b.structured, MaxLocalOutputs, b.structuredTruncated, Structured, T, F)
      /\ Collects(y, b.unstructured, MaxLocalOutputs, b.unstructuredTruncated, Unstructured, T, F)
  BY CollectsLess DEF BatchCollects
<1> QED
  BY <1>1 DEF BatchCollects

\* The hits of a chunk, and those of one key among them.
LEMMA SoughtIsTyped ==
  ASSUME SpaceInv, PlaceInv
  PROVE  /\ IsFiniteSet(FoundIn(Sought))
         /\ \A t \in Sought : IsHit(t) /\ t[1] \in MapsUsed(search.maps = "extended") /\ t = <<t[1], t[2], t[3]>>
<1>1. Sought \in SUBSET Hits(search.maps, search.last)
  BY DEF Sought
<1>2. search.maps \in {"legacy", "extended"} /\ (search.maps = "extended" => space.extended)
  BY DEF PlaceInv
<1>3. IsFiniteSet(FoundIn(Sought)) /\ \A t \in Sought : IsHit(t)
  BY <1>1, <1>2, HitsAreTyped
<1>4. \A t \in Sought : t[1] \in MapsUsed(search.maps = "extended") /\ t = <<t[1], t[2], t[3]>>
  BY <1>1 DEF Hits, Tries
<1> QED
  BY <1>3, <1>4

\* A lane replays a key, or sees the token.
LEMMA KeyKeeps == ReplayInv /\ (\E i \in DOMAIN chunks : ReplayKey(i)) => ReplayInv'
<1> SUFFICES ASSUME ReplayInv, NEW i \in DOMAIN chunks, ReplayKey(i)
             PROVE  ReplayInv'
  OBVIOUS
<1>1. /\ step = "replay" /\ chunks[i].status = "replaying"
      /\ UNCHANGED <<space, step, search, merged, at, cancelled, answer>>
  BY DEF ReplayKey
<1>2. SpaceInv'
  BY <1>1, SpaceStays DEF ReplayInv
<1>3. PlaceInv'
  BY <1>1, PlaceStays DEF ReplayInv, Searching
<1>4. AnswerInv'
  <2>1. AnswerInv /\ cancelled \in BOOLEAN
    BY DEF ReplayInv, AnswerInv
  <2> QED
    BY <1>1, <2>1, AnswerStays
<1>5. Sought' = Sought
  BY <1>1, SoughtStays
<1>6. MergeInv'
  <2>1. Before(search.context, search.first)' = Before(search.context, search.first)
    BY <1>1, <1>5 DEF Before
  <2>2. MergedCollects(Before(search.context, search.first), Before(search.context, search.first))
    BY <1>1 DEF ReplayInv, MergeInv
  <2>3. MergedCollects(Before(search.context, search.first), Before(search.context, search.first))'
    BY <1>1, <1>5, <2>1, <2>2 DEF MergedCollects
  <2> QED
    BY <1>1, <2>3 DEF ReplayInv, MergeInv
<1>7. ChunkInv'
  <2> DEFINE c == chunks[i]
             k == chunks[i].next
  <2>1. /\ chunks \in Seq(ChunkType) /\ chunks # <<>> /\ chunks[Len(chunks)].last = search.last
        /\ \A j \in DOMAIN chunks : IsChunk(j)
    BY <1>1 DEF ReplayInv, ChunkInv, ChunkType
  <2>0. \A j \in DOMAIN chunks : chunks[j] \in ChunkType /\ chunks[j].last \in Int
    <3>1. \A j \in DOMAIN chunks : chunks[j] \in ChunkType
      BY <2>1
    <3> QED
      BY <3>1 DEF ChunkType
  <2>2. c \in ChunkType /\ k \in Int /\ c.last \in Int
    <3>1. c \in ChunkType
      BY <2>1
    <3> QED
      BY <3>1 DEF ChunkType
  <2>3. /\ IsChunk(i) /\ From(i) <= k /\ k <= c.last /\ c.last <= search.last /\ search.first <= From(i)
        /\ BatchCollects(space.yields, c.batch, Within(i), {t \in Within(i) : t[3] < k})
    BY <1>1, <2>1 DEF IsChunk
  <2>4. PICK new \in ChunkType :
          /\ chunks' = [chunks EXCEPT ![i] = new] /\ new.last = c.last
          /\ new.status = "replaying" => new.next <= new.last
          /\ new.status = "done" => new.next = new.last + 1
          /\ new.status = "cancelled" => cancelled
          /\ From(i) <= new.next
          /\ BatchCollects(space.yields, new.batch, Within(i), {t \in Within(i) : t[3] < new.next})
    <3>1. CASE cancelled
      <4> DEFINE new == [c EXCEPT !.status = "cancelled"]
      <4>1. chunks' = [chunks EXCEPT ![i] = new]
        BY <3>1 DEF ReplayKey
      <4>2. /\ new \in ChunkType /\ new.last = c.last /\ new.next = c.next /\ new.batch = c.batch
            /\ new.status = "cancelled"
        BY <2>2 DEF ChunkType
      <4> HIDE DEF new
      <4> QED
        BY <2>3, <3>1, <4>1, <4>2
    <3>2. CASE ~cancelled
      <4> DEFINE b == ConsiderKey(c.batch, k)
                 new == [next |-> k + 1, last |-> c.last, batch |-> b,
                         status |-> IF k = c.last THEN "done" ELSE c.status]
      <4>1. chunks' = [chunks EXCEPT ![i] = new]
        BY <3>2, Zenon DEF ReplayKey
      <4>2. BatchCollects(space.yields, b, Within(i), {t \in Within(i) : t[3] < k + 1})
        <5>0. /\ SpaceInv /\ PlaceInv /\ space.keys \in 0 .. MaxTries /\ MaxTries \in Int
              /\ search.first \in Int /\ search.last \in Int
              /\ 1 <= search.first /\ search.last <= space.keys
          BY <1>1, RetentionAssumption DEF ReplayInv, SpaceInv, PlaceInv
        <5>1. /\ search.maps \in {"legacy", "extended"} /\ (search.maps = "extended" => space.extended)
              /\ search.context \in 1 .. space.contexts
          BY <5>0 DEF PlaceInv
        <5>2. From(i) \in Int
          <6>1. i - 1 \in DOMAIN chunks \/ i = 1
            BY <2>1
          <6>2. \A j \in DOMAIN chunks : chunks[j].last \in Int
            BY <2>0
          <6> QED
            BY <5>0, <6>1, <6>2 DEF From
        <5>3. k \in 1 .. space.keys /\ k \in 1 .. MaxTries
          BY <2>2, <2>3, <5>0, <5>2
        <5>4. ASSUME NEW u \in Within(i)
              PROVE  /\ u[2] = search.context /\ u[3] \in Int /\ u[1] \in MapsUsed(search.maps = "extended")
                     /\ u = <<u[1], u[2], u[3]>>
          BY <5>0, SoughtIsTyped DEF Within, IsHit
        <5>5. ASSUME NEW m \in MapsUsed(search.maps = "extended"),
                     space.yields[<<m, search.context, k>>] # NoOutput
              PROVE  <<m, search.context, k>> \in Within(i)
          <6> DEFINE t == <<m, search.context, k>>
          <6>1. t[2] = search.context /\ t[3] = k
            OBVIOUS
          <6>2. t \in Tries(space.contexts, space.keys, search.maps = "extended")
            BY <5>1, <5>3 DEF Tries
          <6>3. k <= search.last /\ search.first <= k
            BY <2>2, <2>3, <5>0, <5>2
          <6>4. t \in Sought
            BY <5>5, <6>1, <6>2, <6>3 DEF Sought, Hits
          <6> QED
            BY <2>3, <6>1, <6>4 DEF Within
        <5>6. \A u \in Within(i) : u \in {t \in Within(i) : t[3] < k} \/ (u[2] = search.context /\ k <= u[3])
          BY <2>2, <5>4
        <5> DEFINE D == {t \in Within(i) : t[3] < k}
                   F == {u \in Within(i) : \E m \in MapsUsed(search.maps = "extended") : u = <<m, search.context, k>>}
        <5>7. BatchCollects(space.yields, b, Within(i), D \union F)
          BY <2>3, <5>0, <5>1, <5>3, <5>5, <5>6, KeyIsCollected
        <5>8. {t \in Within(i) : t[3] < k + 1} \subseteq D \union F
          <6>1. ASSUME NEW u \in Within(i), u[3] < k + 1
                PROVE  u[3] < k \/ u = <<u[1], search.context, k>>
            <7>1. u[3] < k \/ u[3] = k
              BY <2>2, <5>4, <6>1
            <7> QED
              BY <5>4, <7>1
          <6> QED
            BY <5>4, <6>1
        <5> HIDE DEF D, F
        <5> QED
          BY <5>7, <5>8, BatchCollectsLess
      <4>3. /\ new \in ChunkType /\ new.last = c.last /\ new.next = k + 1 /\ new.batch = b
            /\ new.status = IF k = c.last THEN "done" ELSE "replaying"
        <5>1. b \in BatchType
          BY <4>2 DEF BatchCollects
        <5> HIDE DEF b
        <5>2. k + 1 \in Int
          BY <2>2
        <5>3. \A s \in {"replaying", "done", "cancelled"} :
                 [next |-> k + 1, last |-> c.last, batch |-> b, status |-> s] \in ChunkType
          BY <2>2, <5>1, <5>2 DEF ChunkType
        <5>4. (IF k = c.last THEN "done" ELSE c.status) \in {"replaying", "done", "cancelled"}
          BY <1>1
        <5> QED
          BY <1>1, <5>3, <5>4
      <4>4. From(i) <= k + 1 /\ (k # c.last => k + 1 <= c.last)
        <5>1. From(i) \in Int
          <6>0. search.first \in Int
            BY DEF ReplayInv, PlaceInv
          <6>1. i - 1 \in DOMAIN chunks \/ i = 1
            BY <2>1
          <6>2. \A j \in DOMAIN chunks : chunks[j].last \in Int
            BY <2>0
          <6> QED
            BY <6>0, <6>1, <6>2 DEF From
        <5> QED
          BY <2>2, <2>3, <5>1
      <4> HIDE DEF new, b
      <4> QED
        BY <4>1, <4>2, <4>3, <4>4
    <3> QED
      BY <3>1, <3>2
  <2>5. /\ chunks' \in Seq(ChunkType) /\ DOMAIN chunks' = DOMAIN chunks /\ Len(chunks') = Len(chunks)
        /\ chunks' # <<>> /\ chunks'[i] = new
        /\ \A j \in DOMAIN chunks : j # i => chunks'[j] = chunks[j]
        /\ \A j \in DOMAIN chunks : chunks'[j].last = chunks[j].last
        /\ Len(chunks) \in DOMAIN chunks
    BY <2>1, <2>4
  <2>6. ASSUME NEW j \in DOMAIN chunks
        PROVE  From(j)' = From(j) /\ Within(j)' = Within(j)
    <3>1. From(j)' = From(j)
      <4>1. j = 1 \/ j - 1 \in DOMAIN chunks
        BY <2>1
      <4> QED
        BY <1>1, <2>5, <4>1 DEF From
    <3> QED
      BY <1>1, <1>5, <2>5, <3>1 DEF Within
  <2>7. ASSUME NEW j \in DOMAIN chunks
        PROVE  IsChunk(j)'
    <3>1. IsChunk(j)
      BY <2>1
    <3>2. CASE j = i
      <4>1. From(i)' = From(i) /\ Within(i)' = Within(i) /\ chunks'[i] = new
        BY <2>5, <2>6
      <4> QED
        BY <1>1, <2>3, <2>4, <3>2, <4>1 DEF IsChunk
    <3>3. CASE j # i
      <4>1. From(j)' = From(j) /\ Within(j)' = Within(j) /\ chunks'[j] = chunks[j]
        BY <2>5, <2>6, <3>3
      <4> QED
        BY <1>1, <3>1, <4>1 DEF IsChunk
    <3> QED
      BY <3>2, <3>3
  <2> QED
    BY <1>1, <2>1, <2>5, <2>7 DEF ChunkInv, ChunkType
<1> QED
  BY <1>2, <1>3, <1>4, <1>6, <1>7 DEF ReplayInv

-----------------------------------------------------------------------------
(***************************************************************************)
(* The merge: where a step may lead.                                       *)
(***************************************************************************)

\* The merge is under way or about to begin, and what it leaves behind.
Merging == step \in {"replay", "structured", "unstructured"}
CollectsMerged(m, S, U) ==
    /\ m \in MergedType
    /\ Collects(space.yields, m.structured, MaxOutputs, FALSE, Structured, Sought, S)
    /\ Collects(space.yields, m.unstructured, MaxOutputs, m.overflow, Unstructured, Sought, U)

\* A step of the merge changes what is merged, and its place, only.
LEMMA MergeKeeps ==
  ASSUME ReplayInv, Merging, UNCHANGED <<space, search, chunks, cancelled, answer>>,
         step' \in {"structured", "unstructured", "merged"}, MergeInv'
  PROVE  ReplayInv'
<1>1. SpaceInv'
  BY SpaceStays DEF ReplayInv
<1>2. PlaceInv'
  BY PlaceStays DEF ReplayInv, Searching, Merging
<1>3. ChunkInv'
  BY ChunksStay DEF ReplayInv, Merging
<1>4. AnswerInv'
  <2>1. AnswerInv /\ cancelled \in BOOLEAN /\ step # "done"
    BY DEF ReplayInv, AnswerInv, Merging
  <2> QED
    BY <2>1, AnswerStays
<1> QED
  BY <1>1, <1>2, <1>3, <1>4 DEF ReplayInv

\* The sets of hits stay when the search and the chunks do.
LEMMA SetsStay ==
  ASSUME UNCHANGED <<space, search, chunks>>
  PROVE  /\ Sought' = Sought
         /\ \A i : From(i)' = From(i) /\ Within(i)' = Within(i)
         /\ \A i, k, cs : Listed(i, k, cs)' = Listed(i, k, cs)
         /\ \A n, k : Before(n, k)' = Before(n, k)
<1>1. Sought' = Sought
  BY SoughtStays
<1>2. \A i : From(i)' = From(i)
  BY DEF From
<1>3. \A i : Within(i)' = Within(i)
  BY <1>1, <1>2 DEF Within
<1>4. \A i, k, cs : Listed(i, k, cs)' = Listed(i, k, cs)
  BY <1>3 DEF Listed
<1>5. \A n, k : Before(n, k)' = Before(n, k)
  BY <1>1 DEF Before
<1> QED
  BY <1>1, <1>2, <1>3, <1>4, <1>5

\* What is merged next, seen from the state after the step.
LEMMA MergedCollectsNext ==
  ASSUME UNCHANGED <<space, search, chunks>>, NEW S, NEW U, CollectsMerged(merged', S, U)
  PROVE  /\ merged' \in MergedType
         /\ Len(merged'.structured) <= MaxOutputs /\ Len(merged'.unstructured) <= MaxOutputs
         /\ Collects(space'.yields, merged'.structured, MaxOutputs, FALSE, Structured, Sought', S)
         /\ Collects(space'.yields, merged'.unstructured, MaxOutputs, merged'.overflow, Unstructured, Sought', U)
<1>1. Sought' = Sought
  BY SoughtStays
<1>2. /\ Len(merged'.structured) <= MaxOutputs /\ Len(merged'.unstructured) <= MaxOutputs
  BY DEF CollectsMerged, Collects
<1> QED
  BY <1>1, <1>2 DEF CollectsMerged

\* The merge goes on with a structured candidate.
LEMMA StructuredNext ==
  ASSUME ReplayInv, Merging, UNCHANGED <<space, search, chunks, cancelled, answer>>,
         step' = "structured", NEW i \in DOMAIN chunks, NEW k \in Nat \ {0},
         at' = [chunk |-> i, candidate |-> k],
         k <= Len(chunks[i].batch.structured) + 1,
         \A j \in DOMAIN chunks : chunks[j].status # "replaying",
         CollectsMerged(merged', Before(search.context, From(i))
                                     \union Listed(i, k, chunks[i].batch.structured),
                                 Before(search.context, From(i)))
  PROVE  ReplayInv'
<1>1. i \in Nat \ {0} /\ i <= Len(chunks)
  BY DEF ReplayInv, ChunkInv, Merging
<1>2. at'.chunk = i /\ at'.candidate = k /\ at' \in [chunk : Nat \ {0}, candidate : Nat \ {0}]
  BY <1>1
<1>3. /\ Passed' = Before(search.context, From(i))
      /\ Listed(at.chunk, at.candidate, chunks[at.chunk].batch.structured)'
            = Listed(i, k, chunks[i].batch.structured)
  BY <1>2, SetsStay DEF Passed, Before, From, Listed, Within
<1>4. MergedCollects(Passed \union Listed(at.chunk, at.candidate, chunks[at.chunk].batch.structured), Passed)'
  BY <1>3, MergedCollectsNext DEF MergedCollects
<1>5. MergeInv'
  BY <1>1, <1>2, <1>4, MergedCollectsNext DEF MergeInv
<1> QED
  BY <1>5, MergeKeeps

\* The merge goes on with an unstructured candidate.
LEMMA UnstructuredNext ==
  ASSUME ReplayInv, Merging, UNCHANGED <<space, search, chunks, cancelled, answer>>,
         step' = "unstructured", NEW i \in DOMAIN chunks, NEW k \in Nat \ {0},
         at' = [chunk |-> i, candidate |-> k],
         k <= Len(chunks[i].batch.unstructured) + 1, chunks[i].status = "done",
         \A j \in DOMAIN chunks : chunks[j].status # "replaying",
         CollectsMerged(merged', Before(search.context, From(i)) \union Within(i),
                                 Before(search.context, From(i))
                                     \union Listed(i, k, chunks[i].batch.unstructured))
  PROVE  ReplayInv'
<1>1. i \in Nat \ {0} /\ i <= Len(chunks)
  BY DEF ReplayInv, ChunkInv, Merging
<1>2. at'.chunk = i /\ at'.candidate = k /\ at' \in [chunk : Nat \ {0}, candidate : Nat \ {0}]
  BY <1>1
<1>3. /\ Passed' = Before(search.context, From(i)) /\ Within(at.chunk)' = Within(i)
      /\ Listed(at.chunk, at.candidate, chunks[at.chunk].batch.unstructured)'
            = Listed(i, k, chunks[i].batch.unstructured)
  BY <1>2, SetsStay DEF Passed, Before, From, Listed, Within
<1>4. MergedCollects(Passed \union Within(at.chunk),
          Passed \union Listed(at.chunk, at.candidate, chunks[at.chunk].batch.unstructured))'
  BY <1>3, MergedCollectsNext DEF MergedCollects
<1>5. MergeInv'
  BY <1>1, <1>2, <1>4, MergedCollectsNext DEF MergeInv
<1> QED
  BY <1>5, MergeKeeps

\* The batches of a context are merged.
LEMMA MergedNext ==
  ASSUME ReplayInv, Merging, UNCHANGED <<space, search, chunks, cancelled, answer>>,
         step' = "merged", at' \in [chunk : Nat \ {0}, candidate : Nat \ {0}],
         CollectsMerged(merged', Before(search.context, search.last + 1),
                                 Before(search.context, search.last + 1))
  PROVE  ReplayInv'
<1>1. Before(search.context, search.last + 1)' = Before(search.context, search.last + 1)
  BY SetsStay DEF Before
<1>2. MergedCollects(Before(search.context, search.last + 1), Before(search.context, search.last + 1))'
  BY <1>1, MergedCollectsNext DEF MergedCollects
<1>3. MergeInv'
  BY <1>2, MergedCollectsNext DEF MergeInv
<1> QED
  BY <1>3, MergeKeeps

-----------------------------------------------------------------------------
(***************************************************************************)
(* The merge: one candidate, and one chunk.                                *)
(***************************************************************************)

\* The types of a chunk.
LEMMA ChunkIsTyped ==
  ASSUME ReplayInv, Merging, NEW i \in DOMAIN chunks
  PROVE  /\ IsChunk(i) /\ chunks[i] \in ChunkType
         /\ From(i) \in Int /\ chunks[i].last \in Int /\ chunks[i].next \in Int
         /\ i \in Nat \ {0} /\ chunks[i].batch \in BatchType
<1>1. /\ chunks \in Seq(ChunkType) /\ IsChunk(i) /\ search.first \in Int
  BY DEF ReplayInv, ChunkInv, PlaceInv, Merging, ChunkType
<1>2. \A j \in DOMAIN chunks : chunks[j] \in ChunkType
  BY <1>1
<1>3. \A j \in DOMAIN chunks : /\ chunks[j].last \in Int /\ chunks[j].next \in Int
                               /\ chunks[j].batch \in BatchType
  BY <1>2 DEF ChunkType
<1>4. i \in Nat \ {0} /\ (i = 1 \/ i - 1 \in DOMAIN chunks)
  BY <1>1
<1>5. From(i) \in Int
  BY <1>1, <1>3, <1>4 DEF From
<1> QED
  BY <1>1, <1>2, <1>3, <1>4, <1>5

\* The types of the search, and of a hit it seeks.
LEMMA SearchIsTyped ==
  ASSUME ReplayInv
  PROVE  /\ search.context \in Int /\ search.first \in Int /\ search.last \in Int
         /\ \A t \in Sought : /\ t[2] \in Int /\ t[3] \in Int /\ t[3] \in 1 .. MaxTries
                              /\ search.first <= t[3] /\ t[3] <= search.last
                              /\ 1 <= t[2] /\ t[2] <= space.contexts
<1>1. search.context \in Int /\ search.first \in Int /\ search.last \in Int
  BY DEF ReplayInv, PlaceInv
<1>2. \A t \in Sought : IsHit(t)
  BY SoughtIsTyped DEF ReplayInv
<1>3. \A t \in Sought : search.first <= t[3] /\ t[3] <= search.last
  BY DEF Sought, Hits
<1>4. space.contexts \in Int /\ space.keys \in Int
  BY RetentionAssumption DEF ReplayInv, SpaceInv
<1> QED
  BY <1>1, <1>2, <1>3, <1>4 DEF IsHit

\* The hits up to the end of a chunk are those before it and its own.
LEMMA PassedAndChunk ==
  ASSUME ReplayInv, Merging, NEW i \in DOMAIN chunks,
         NEW t \in Before(search.context, chunks[i].last + 1)
  PROVE  t \in Before(search.context, From(i)) \/ t \in Within(i)
<1>1. From(i) \in Int /\ chunks[i].last \in Int
  BY ChunkIsTyped
<1>2. t \in Sought /\ t[2] \in Int /\ t[3] \in Int /\ search.context \in Int
  BY SearchIsTyped DEF Before
<1>3. t[2] < search.context \/ (t[2] = search.context /\ t[3] < chunks[i].last + 1)
  BY DEF Before
<1>4. CASE t[2] < search.context \/ t[3] < From(i)
  BY <1>2, <1>3, <1>4 DEF Before
<1>5. CASE t[2] = search.context /\ ~(t[3] < From(i)) /\ t[3] < chunks[i].last + 1
  <2>1. From(i) <= t[3] /\ t[3] <= chunks[i].last
    BY <1>1, <1>2, <1>5
  <2> QED
    BY <1>2, <1>5, <2>1 DEF Within
<1> QED
  BY <1>3, <1>4, <1>5

\* A candidate of a batch is the first hit with its output, but for those of the
\* chunks before.
LEMMA CandidateIsFirst ==
  ASSUME ReplayInv, Merging, NEW i \in DOMAIN chunks, NEW c, NEW sort, c \in Candidates(sort),
         IsFirst(space.yields, c, Within(i))
  PROVE  \E t \in Within(i) :
            /\ t \in Sought /\ c = Candidate(space.yields[t], t[3]) /\ space.yields[t] = c.output
            /\ c.output \in sort
            /\ \A u \in Sought : space.yields[u] = space.yields[t] =>
                  u \in Before(search.context, From(i)) \/ Earlier(t, u)
<1> DEFINE y == space.yields
<1>1. PICK t \in Within(i) : /\ y[t] = c.output /\ t[3] = c.key
                             /\ \A u \in Within(i) : y[u] = c.output => Earlier(t, u)
  BY DEF IsFirst
<1>2. t \in Sought /\ t[2] = search.context /\ t[3] <= chunks[i].last
  BY DEF Within
<1>3. c = Candidate(y[t], t[3]) /\ c.output \in sort
  BY <1>1 DEF Candidate, Candidates
<1>4. From(i) \in Int /\ chunks[i].last \in Int
  BY ChunkIsTyped
<1>5. ASSUME NEW u \in Sought, y[u] = y[t]
      PROVE  u \in Before(search.context, From(i)) \/ Earlier(t, u)
  <2>1. /\ u[2] \in Int /\ u[3] \in Int /\ t[2] \in Int /\ t[3] \in Int /\ search.context \in Int
    BY <1>2, SearchIsTyped
  <2>2. CASE u \in Within(i)
    BY <1>1, <1>5, <2>2
  <2>3. CASE u \notin Within(i)
    <3>1. ~(u[2] = search.context /\ From(i) <= u[3] /\ u[3] <= chunks[i].last)
      BY <2>3 DEF Within
    <3>2. \/ u[2] < search.context
          \/ u[2] = search.context /\ u[3] < From(i)
          \/ t[2] < u[2]
          \/ t[2] = u[2] /\ t[3] <= u[3]
      BY <1>2, <1>4, <2>1, <3>1
    <3> QED
      BY <3>2 DEF Before, Earlier
  <2> QED
    BY <2>2, <2>3
<1> QED
  BY <1>1, <1>2, <1>3, <1>5

\* The hits passed when the candidates of a chunk are merged in turn, and when all are.
UpTo(i, n, cs) == Before(search.context, From(i)) \union Listed(i, n, cs)
Through(i) == Before(search.context, From(i)) \union Within(i)

\* What becomes of a candidate that is merged.
Joins(held, full, sort, c, E) ==
    /\ Holds(held, c.output) => Collects(space.yields, held, MaxOutputs, full, sort, Sought, E)
    /\ ~Holds(held, c.output) /\ Len(held) < MaxOutputs =>
           Collects(space.yields, Append(held, c), MaxOutputs, full, sort, Sought, E)
    /\ ~Holds(held, c.output) /\ ~(Len(held) < MaxOutputs) =>
           Collects(space.yields, held, MaxOutputs, TRUE, sort, Sought, E)
    /\ c.output \in sort /\ \E t \in Sought : space.yields[t] = c.output

\* A candidate joins the list, is held already, or finds the list full.
LEMMA CandidateJoins ==
  ASSUME ReplayInv, Merging, NEW i \in DOMAIN chunks, NEW cs, NEW sort, NEW full \in BOOLEAN,
         NEW bfull, NEW D, Collects(space.yields, cs, MaxLocalOutputs, bfull, sort, Within(i), D),
         NEW n \in DOMAIN cs, NEW held,
         Collects(space.yields, held, MaxOutputs, full, sort, Sought, UpTo(i, n, cs))
  PROVE  Joins(held, full, sort, cs[n], UpTo(i, n + 1, cs))
<1> DEFINE y == space.yields
           R == UpTo(i, n, cs)
           E == UpTo(i, n + 1, cs)
<1>1. cs \in Seq(Candidates(sort)) /\ IsFirst(y, cs[n], Within(i))
  BY DEF Collects
<1>2. cs[n] \in Candidates(sort) /\ n \in Nat \ {0}
  BY <1>1
<1>3. PICK t \in Within(i) :
         /\ t \in Sought /\ cs[n] = Candidate(y[t], t[3]) /\ y[t] = cs[n].output
         /\ cs[n].output \in sort
         /\ \A u \in Sought : y[u] = y[t] =>
               u \in Before(search.context, From(i)) \/ Earlier(t, u)
  BY <1>1, <1>2, CandidateIsFirst
<1>4. \A u \in E : u \in R \/ y[u] = cs[n].output
  <2>1. \A j \in 1 .. (n + 1) - 1 : j \in 1 .. n - 1 \/ j = n
    BY <1>2
  <2> QED
    BY <2>1 DEF Listed, UpTo
<1>5. MaxOutputs \in Nat /\ t[3] \in 1 .. MaxTries /\ held \in Seq(Candidates(sort)) /\ Len(held) <= MaxOutputs
  BY <1>3, SearchIsTyped, RetentionAssumption DEF Collects
<1>6. ASSUME Holds(held, cs[n].output)
      PROVE  Collects(y, held, MaxOutputs, full, sort, Sought, E)
  BY <1>4, <1>6, HeldIsCollected
<1>7. ASSUME ~Holds(held, cs[n].output), Len(held) < MaxOutputs
      PROVE  Collects(y, Append(held, cs[n]), MaxOutputs, full, sort, Sought, E)
  <2>1. Len(held) # MaxOutputs
    BY <1>5, <1>7
  <2>2. full = FALSE
    BY <2>1 DEF Collects
  <2>3. Collects(y, held, MaxOutputs, FALSE, sort, Sought, R)
    BY <2>2
  <2>4. /\ \A u \in Sought : y[u] = y[t] => u \in R \/ Earlier(t, u)
        /\ \A u \in E : u \in R \/ y[u] = y[t]
        /\ y[t] \in sort /\ ~Holds(held, y[t]) /\ t \in Sought
    BY <1>3, <1>4, <1>7 DEF UpTo
  <2>5. Collects(y, Append(held, Candidate(y[t], t[3])), MaxOutputs, FALSE, sort, Sought, E)
    BY <1>5, <1>7, <2>3, <2>4, NewIsCollected
  <2> QED
    BY <1>3, <2>2, <2>5
<1>8. ASSUME ~Holds(held, cs[n].output), ~(Len(held) < MaxOutputs)
      PROVE  Collects(y, held, MaxOutputs, TRUE, sort, Sought, E)
  <2>1. Len(held) = MaxOutputs
    BY <1>5, <1>8
  <2>2. y[t] \in sort /\ ~Holds(held, y[t]) /\ t \in Sought
    BY <1>3, <1>8
  <2> QED
    BY <2>1, <2>2, FullCollects
<1> QED
  BY <1>3, <1>6, <1>7, <1>8 DEF Joins

\* When all candidates of a batch have passed, the list collects the hits of its
\* chunk; a batch that dropped an output has more candidates than the list has room
\* for, so that the list is known to be full.
LEMMA ChunkIsMerged ==
  ASSUME ReplayInv, Merging, NEW i \in DOMAIN chunks, chunks[i].status = "done",
         NEW cs, NEW sort, NEW full \in BOOLEAN, NEW bfull \in BOOLEAN,
         NEW D, D = {t \in Within(i) : t[3] < chunks[i].next},
         Collects(space.yields, cs, MaxLocalOutputs, bfull, sort, Within(i), D),
         NEW k \in Nat, k > Len(cs), NEW held,
         Collects(space.yields, held, MaxOutputs, full, sort, Sought, UpTo(i, k, cs))
  PROVE  /\ bfull => full
         /\ Collects(space.yields, held, MaxOutputs, full, sort, Sought, Through(i))
<1> DEFINE y == space.yields
           R == UpTo(i, k, cs)
           E == Through(i)
<1>1. cs \in Seq(Candidates(sort)) /\ held \in Seq(Candidates(sort)) /\ Len(held) <= MaxOutputs
  BY DEF Collects
<1>2. ASSUME NEW j \in DOMAIN cs
      PROVE  j \in 1 .. k - 1 /\ \E t \in Within(i) : y[t] = cs[j].output /\ t \in R /\ y[t] \in sort
  <2>1. j \in 1 .. k - 1
    BY <1>1
  <2>2. IsFirst(y, cs[j], Within(i)) /\ cs[j] \in Candidates(sort)
    BY <1>1 DEF Collects
  <2>3. PICK t \in Within(i) : y[t] = cs[j].output /\ cs[j].output \in sort
    BY <2>2, CandidateIsFirst
  <2>4. t \in R
    BY <2>1, <2>3 DEF Listed, UpTo
  <2> QED
    BY <2>1, <2>3, <2>4
<1>3. ASSUME ~full
      PROVE  ~bfull
  <2>1. \A t \in R : y[t] \in sort => Holds(held, y[t])
    BY <1>3 DEF Collects
  <2>2. \A j \in DOMAIN cs : Holds(held, cs[j].output)
    BY <1>2, <2>1
  <2>3. /\ \A a, b \in DOMAIN cs : cs[a].output = cs[b].output => a = b
        /\ \A a, b \in DOMAIN held : held[a].output = held[b].output => a = b
    BY DEF Collects
  <2>4. Len(cs) <= Len(held)
    BY <1>1, <2>2, <2>3, LongerIsNotHeld
  <2>5. Len(cs) # MaxLocalOutputs
    BY <1>1, <2>4, RetentionAssumption
  <2> QED
    BY <2>5 DEF Collects
<1>4. CASE full
  BY <1>4 DEF Collects
<1>5. CASE ~full
  <2>1. bfull = FALSE
    BY <1>3, <1>5
  <2>2. \A t \in Within(i) : t[3] < chunks[i].next
    <3>1. chunks[i].next = chunks[i].last + 1 /\ chunks[i].last \in Int
      BY ChunkIsTyped DEF IsChunk
    <3>2. \A t \in Within(i) : t[3] \in Int /\ t[3] <= chunks[i].last
      BY SearchIsTyped DEF Within
    <3> QED
      BY <3>1, <3>2
  <2>3. \A t \in Within(i) : y[t] \in sort => Holds(cs, y[t])
    BY <2>1, <2>2 DEF Collects
  <2>4. \A t \in Within(i) : y[t] \in sort => t \in R
    BY <1>2, <2>3 DEF Holds, Listed, UpTo
  <2>5. \A t \in E : y[t] \in sort => t \in R
    BY <2>4 DEF UpTo, Through
  <2> QED
    BY <1>5, <2>1, <2>5, CollectsLess
<1> QED
  BY <1>3, <1>4, <1>5

-----------------------------------------------------------------------------
(***************************************************************************)
(* The merge, action by action.                                            *)
(***************************************************************************)

\* The merge begins with the first chunk.
LEMMA MergeBegins == ReplayInv /\ BeginMerge => ReplayInv'
<1> SUFFICES ASSUME ReplayInv, BeginMerge
             PROVE  ReplayInv'
  OBVIOUS
<1>1. /\ step = "replay" /\ Merging /\ step' = "structured" /\ at' = [chunk |-> 1, candidate |-> 1]
      /\ \A i \in DOMAIN chunks : chunks[i].status # "replaying"
      /\ UNCHANGED <<space, search, chunks, merged, cancelled, answer>>
  BY DEF BeginMerge, Merging, StartOf
<1>2. 1 \in DOMAIN chunks
  <2>1. \E S : chunks \in Seq(S) /\ chunks # <<>>
    BY <1>1 DEF ReplayInv, ChunkInv
  <2> QED
    BY <2>1
<1>3. Before(search.context, From(1)) = Before(search.context, search.first)
  BY DEF From
<1>4. Listed(1, 1, chunks[1].batch.structured) = {}
  BY DEF Listed
<1>5. CollectsMerged(merged', Before(search.context, From(1))
                                  \union Listed(1, 1, chunks[1].batch.structured),
                              Before(search.context, From(1)))
  <2>1. merged \in MergedType
        /\ MergedCollects(Before(search.context, search.first), Before(search.context, search.first))
    BY <1>1 DEF ReplayInv, MergeInv
  <2> QED
    BY <1>1, <1>3, <1>4, <2>1 DEF MergedCollects, CollectsMerged
<1>6. 1 <= Len(chunks[1].batch.structured) + 1
  <2>1. chunks[1].batch.structured \in Seq(Candidates(Structured))
    BY <1>1, <1>2, ChunkIsTyped DEF BatchType
  <2>2. Len(chunks[1].batch.structured) \in Nat
    BY <2>1
  <2> QED
    BY <2>2
<1> QED
  BY <1>1, <1>2, <1>5, <1>6, StructuredNext

\* A batch is missing only if the search was cancelled.
LEMMA MissingKeeps == ReplayInv /\ BatchIsMissing => ReplayInv'
<1> SUFFICES ASSUME ReplayInv, BatchIsMissing
             PROVE  ReplayInv'
  OBVIOUS
<1>1. /\ step = "structured" /\ chunks[at.chunk].status = "cancelled" /\ Answer(Plain("Cancelled"))
  BY DEF BatchIsMissing
<1>2. at.chunk \in DOMAIN chunks /\ IsChunk(at.chunk)
  BY <1>1 DEF ReplayInv, MergeInv, ChunkInv
<1>3. cancelled
  BY <1>1, <1>2 DEF IsChunk
<1>4. Plain("Cancelled").kind = "Cancelled"
  BY DEF Plain, Verdict
<1> QED
  BY <1>1, <1>3, <1>4, AnswerKeeps

\* The place of the merge.
LEMMA PlaceOfMerge ==
  ASSUME ReplayInv, step \in {"structured", "unstructured"}
  PROVE  /\ Merging /\ at.chunk \in DOMAIN chunks /\ at.candidate \in Nat \ {0}
         /\ at = [chunk |-> at.chunk, candidate |-> at.candidate]
         /\ chunks[at.chunk].batch \in BatchType
         /\ \A i \in DOMAIN chunks : chunks[i].status # "replaying"
         /\ BatchCollects(space.yields, chunks[at.chunk].batch, Within(at.chunk),
                {t \in Within(at.chunk) : t[3] < chunks[at.chunk].next})
         /\ step = "structured" =>
               CollectsMerged(merged, Before(search.context, From(at.chunk))
                                  \union Listed(at.chunk, at.candidate, chunks[at.chunk].batch.structured),
                              Before(search.context, From(at.chunk)))
         /\ step = "unstructured" =>
               /\ chunks[at.chunk].status = "done"
               /\ CollectsMerged(merged, Before(search.context, From(at.chunk)) \union Within(at.chunk),
                              Before(search.context, From(at.chunk))
                                  \union Listed(at.chunk, at.candidate, chunks[at.chunk].batch.unstructured))
<1>1. Merging /\ at \in [chunk : Nat \ {0}, candidate : Nat \ {0}] /\ at.chunk <= Len(chunks)
  BY DEF Merging, ReplayInv, MergeInv
<1>2. \E S : chunks \in Seq(S)
  BY <1>1 DEF Merging, ReplayInv, ChunkInv
<1>3. at.chunk \in DOMAIN chunks
  BY <1>1, <1>2
<1>4. IsChunk(at.chunk) /\ chunks[at.chunk].batch \in BatchType
  BY <1>1, <1>3, ChunkIsTyped
<1>5. step = "structured" =>
        CollectsMerged(merged, Before(search.context, From(at.chunk))
                           \union Listed(at.chunk, at.candidate, chunks[at.chunk].batch.structured),
                       Before(search.context, From(at.chunk)))
  BY DEF ReplayInv, MergeInv, MergedCollects, CollectsMerged, Passed
<1>6. step = "unstructured" =>
        /\ chunks[at.chunk].status = "done"
        /\ CollectsMerged(merged, Before(search.context, From(at.chunk)) \union Within(at.chunk),
                       Before(search.context, From(at.chunk))
                           \union Listed(at.chunk, at.candidate, chunks[at.chunk].batch.unstructured))
  BY DEF ReplayInv, MergeInv, MergedCollects, CollectsMerged, Passed
<1>7. \A i \in DOMAIN chunks : chunks[i].status # "replaying"
  BY DEF ReplayInv, MergeInv
<1> QED
  BY <1>1, <1>3, <1>4, <1>5, <1>6, <1>7 DEF IsChunk

\* A structured candidate is merged; one too many ends the search.
LEMMA StructuredKeeps == ReplayInv /\ MergeStructured => ReplayInv'
<1> SUFFICES ASSUME ReplayInv, MergeStructured
             PROVE  ReplayInv'
  OBVIOUS
<1> DEFINE i == at.chunk
           n == at.candidate
           cs == chunks[i].batch.structured
           held == merged.structured
           P == Before(search.context, From(i))
<1>1. step = "structured" /\ n <= Len(cs)
  BY DEF MergeStructured
<1>2. /\ Merging /\ i \in DOMAIN chunks /\ n \in Nat \ {0} /\ at = [chunk |-> i, candidate |-> n]
      /\ chunks[i].batch \in BatchType /\ \A j \in DOMAIN chunks : chunks[j].status # "replaying"
      /\ BatchCollects(space.yields, chunks[i].batch, Within(i), {t \in Within(i) : t[3] < chunks[i].next})
      /\ CollectsMerged(merged, P \union Listed(i, n, cs), P)
  BY <1>1, PlaceOfMerge
<1>3. cs \in Seq(Candidates(Structured)) /\ n \in DOMAIN cs /\ n + 1 \in Nat \ {0} /\ n + 1 <= Len(cs) + 1
  <2>1. cs \in Seq(Candidates(Structured))
    BY <1>2 DEF BatchType
  <2>2. Len(cs) \in Nat /\ DOMAIN cs = 1 .. Len(cs)
    BY <2>1
  <2> QED
    BY <1>1, <1>2, <2>1, <2>2
<1>4. /\ merged \in MergedType
      /\ Collects(space.yields, held, MaxOutputs, FALSE, Structured, Sought, P \union Listed(i, n, cs))
      /\ Collects(space.yields, merged.unstructured, MaxOutputs, merged.overflow, Unstructured, Sought, P)
  BY <1>2 DEF CollectsMerged
<1>5. Collects(space.yields, cs, MaxLocalOutputs, chunks[i].batch.structuredTruncated, Structured,
               Within(i), {t \in Within(i) : t[3] < chunks[i].next})
  BY <1>2 DEF BatchCollects
<1> DEFINE E == P \union Listed(i, n + 1, cs)
<1>6. /\ Holds(held, cs[n].output) => Collects(space.yields, held, MaxOutputs, FALSE, Structured, Sought, E)
      /\ ~Holds(held, cs[n].output) /\ Len(held) < MaxOutputs =>
             Collects(space.yields, Append(held, cs[n]), MaxOutputs, FALSE, Structured, Sought, E)
      /\ cs[n].output \in Structured /\ \E t \in Sought : space.yields[t] = cs[n].output
  <2> DEFINE D == {t \in Within(i) : t[3] < chunks[i].next}
             truncated == chunks[i].batch.structuredTruncated
  <2>1. /\ Collects(space.yields, held, MaxOutputs, FALSE, Structured, Sought, UpTo(i, n, cs))
        /\ Collects(space.yields, cs, MaxLocalOutputs, truncated, Structured, Within(i), D)
    BY <1>4, <1>5 DEF UpTo
  <2>2. Joins(held, FALSE, Structured, cs[n], UpTo(i, n + 1, cs))
    <3> HIDE DEF i, n, cs, held, P, E, D, truncated
    <3> QED
      BY <1>2, <1>3, <2>1, CandidateJoins
  <2>3. UpTo(i, n + 1, cs) = E
    BY DEF UpTo
  <2> QED
    BY <2>2, <2>3 DEF Joins
<1>7. ASSUME NEW new \in MergedType, Advance(new), new.unstructured = merged.unstructured,
             new.overflow = merged.overflow,
             Collects(space.yields, new.structured, MaxOutputs, FALSE, Structured, Sought, E)
      PROVE  ReplayInv'
  <2>1. /\ merged' = new /\ at' = [chunk |-> i, candidate |-> n + 1] /\ step' = "structured"
        /\ UNCHANGED <<space, search, chunks, cancelled, answer>>
    BY <1>1, <1>2, <1>7 DEF Advance
  <2>2. CollectsMerged(merged', E, P)
    BY <1>4, <1>7, <2>1 DEF CollectsMerged
  <2> QED
    BY <1>2, <1>3, <2>1, <2>2, StructuredNext
<1>8. CASE Holds(held, cs[n].output)
  <2>1. Advance(merged)
    BY <1>8, Zenon DEF MergeStructured
  <2> QED
    BY <1>4, <1>6, <1>7, <1>8, <2>1
<1>9. CASE ~Holds(held, cs[n].output) /\ Len(held) < MaxOutputs
  <2> DEFINE new == [merged EXCEPT !.structured = Append(held, cs[n])]
  <2>1. Advance(new)
    BY <1>9, Zenon DEF MergeStructured
  <2>2. Collects(space.yields, Append(held, cs[n]), MaxOutputs, FALSE, Structured, Sought, E)
    BY <1>6, <1>9
  <2>3. /\ new \in MergedType /\ new.structured = Append(held, cs[n])
        /\ new.unstructured = merged.unstructured /\ new.overflow = merged.overflow
    BY <1>4, <2>2 DEF MergedType, Collects
  <2> HIDE DEF new
  <2> QED
    BY <1>7, <2>1, <2>2, <2>3
<1>10. CASE ~Holds(held, cs[n].output) /\ ~(Len(held) < MaxOutputs)
  <2>1. Answer(Plain("TooMany"))
    BY <1>10, Zenon DEF MergeStructured
  <2>2. Searching /\ step # "done" /\ SpaceInv /\ PlaceInv
    BY <1>1 DEF Searching, ReplayInv
  <2>3. Sought = Hits(search.maps, search.last)
    BY <2>2, SoughtIsAll
  <2>4. IsFiniteSet(FoundIn(Sought))
    BY <2>2, SoughtIsTyped
  <2>5. OfHits(Sought) = Plain("TooMany")
    <3>1. PICK t \in Sought : space.yields[t] = cs[n].output
      BY <1>6
    <3>2. space.yields[t] \in Structured /\ ~Holds(held, space.yields[t])
      BY <1>6, <1>10, <3>1
    <3> QED
      BY <1>4, <1>10, <2>4, <3>2, TooManyIsRight
  <2>6. Plain("TooMany").kind = "TooMany"
    BY DEF Plain, Verdict
  <2>7. Plain("TooMany") = Expected
    BY <2>2, <2>3, <2>5, <2>6, AnswerIsExpected
  <2> QED
    BY <2>1, <2>2, <2>6, <2>7, AnswerKeeps
<1> QED
  BY <1>8, <1>9, <1>10

\* The structured candidates of a batch are merged: none can have been dropped.
LEMMA StructuredEnds == ReplayInv /\ EndStructured => ReplayInv'
<1> SUFFICES ASSUME ReplayInv, EndStructured
             PROVE  ReplayInv'
  OBVIOUS
<1> DEFINE i == at.chunk
           n == at.candidate
           b == chunks[i].batch
           P == Before(search.context, From(i))
<1>1. step = "structured" /\ chunks[i].status = "done" /\ n > Len(b.structured)
  BY DEF EndStructured
<1>2. /\ Merging /\ i \in DOMAIN chunks /\ n \in Nat \ {0}
      /\ b \in BatchType /\ \A j \in DOMAIN chunks : chunks[j].status # "replaying"
      /\ BatchCollects(space.yields, b, Within(i), {t \in Within(i) : t[3] < chunks[i].next})
      /\ CollectsMerged(merged, P \union Listed(i, n, b.structured), P)
  BY <1>1, PlaceOfMerge
<1>3. /\ b.structuredTruncated \in BOOLEAN
      /\ Collects(space.yields, b.structured, MaxLocalOutputs, b.structuredTruncated, Structured,
               Within(i), {t \in Within(i) : t[3] < chunks[i].next})
  BY <1>2 DEF BatchCollects, BatchType
<1>4. /\ merged \in MergedType
      /\ Collects(space.yields, merged.structured, MaxOutputs, FALSE, Structured, Sought, P \union Listed(i, n, b.structured))
      /\ Collects(space.yields, merged.unstructured, MaxOutputs, merged.overflow, Unstructured, Sought, P)
  BY <1>2 DEF CollectsMerged
<1>5. /\ b.structuredTruncated => FALSE
      /\ Collects(space.yields, merged.structured, MaxOutputs, FALSE, Structured, Sought, P \union Within(i))
  <2> DEFINE cs == b.structured
             held == merged.structured
             D == {t \in Within(i) : t[3] < chunks[i].next}
             truncated == b.structuredTruncated
  <2>1. /\ Collects(space.yields, held, MaxOutputs, FALSE, Structured, Sought, UpTo(i, n, cs))
        /\ Collects(space.yields, cs, MaxLocalOutputs, truncated, Structured, Within(i), D)
        /\ D = {t \in Within(i) : t[3] < chunks[i].next}
    BY <1>3, <1>4 DEF UpTo
  <2>2. truncated \in BOOLEAN /\ n \in Nat /\ n > Len(cs)
    BY <1>1, <1>2, <1>3
  <2>3. /\ truncated => FALSE
        /\ Collects(space.yields, held, MaxOutputs, FALSE, Structured, Sought, Through(i))
    <3> HIDE DEF i, n, b, cs, held, P, D, truncated
    <3> QED
      BY <1>1, <1>2, <2>1, <2>2, ChunkIsMerged
  <2> QED
    BY <2>3 DEF Through
<1>6. /\ at' = [chunk |-> i, candidate |-> 1] /\ step' = "unstructured"
      /\ UNCHANGED <<space, search, chunks, merged, cancelled, answer>>
  BY <1>5 DEF EndStructured, StartOf
<1>7. P \union Listed(i, 1, b.unstructured) = P
  BY DEF Listed
<1>8. CollectsMerged(merged', P \union Within(i), P \union Listed(i, 1, b.unstructured))
  BY <1>4, <1>5, <1>6, <1>7 DEF CollectsMerged
<1>9. 1 <= Len(b.unstructured) + 1
  <2>1. b.unstructured \in Seq(Candidates(Unstructured))
    BY <1>2 DEF BatchType
  <2>2. Len(b.unstructured) \in Nat
    BY <2>1
  <2> QED
    BY <2>2
<1> QED
  BY <1>1, <1>2, <1>6, <1>8, <1>9, UnstructuredNext

\* An unstructured candidate is merged, or overflows.
LEMMA UnstructuredKeeps == ReplayInv /\ MergeUnstructured => ReplayInv'
<1> SUFFICES ASSUME ReplayInv, MergeUnstructured
             PROVE  ReplayInv'
  OBVIOUS
<1> DEFINE i == at.chunk
           n == at.candidate
           cs == chunks[i].batch.unstructured
           held == merged.unstructured
           P == Before(search.context, From(i))
           E == P \union Listed(i, n + 1, cs)
<1>1. step = "unstructured" /\ n <= Len(cs)
  BY DEF MergeUnstructured
<1>2. /\ Merging /\ i \in DOMAIN chunks /\ n \in Nat \ {0} /\ at = [chunk |-> i, candidate |-> n]
      /\ chunks[i].batch \in BatchType /\ chunks[i].status = "done"
      /\ \A j \in DOMAIN chunks : chunks[j].status # "replaying"
      /\ BatchCollects(space.yields, chunks[i].batch, Within(i), {t \in Within(i) : t[3] < chunks[i].next})
      /\ CollectsMerged(merged, P \union Within(i), P \union Listed(i, n, cs))
  BY <1>1, PlaceOfMerge
<1>3. cs \in Seq(Candidates(Unstructured)) /\ n \in DOMAIN cs /\ n + 1 \in Nat \ {0} /\ n + 1 <= Len(cs) + 1
  <2>1. cs \in Seq(Candidates(Unstructured))
    BY <1>2 DEF BatchType
  <2>2. Len(cs) \in Nat /\ DOMAIN cs = 1 .. Len(cs)
    BY <2>1
  <2> QED
    BY <1>1, <1>2, <2>1, <2>2
<1>4. /\ merged \in MergedType /\ merged.overflow \in BOOLEAN
      /\ Collects(space.yields, merged.structured, MaxOutputs, FALSE, Structured, Sought, P \union Within(i))
      /\ Collects(space.yields, held, MaxOutputs, merged.overflow, Unstructured, Sought, P \union Listed(i, n, cs))
  BY <1>2 DEF CollectsMerged, MergedType
<1>5. Collects(space.yields, cs, MaxLocalOutputs, chunks[i].batch.unstructuredTruncated, Unstructured,
               Within(i), {t \in Within(i) : t[3] < chunks[i].next})
  BY <1>2 DEF BatchCollects
<1>6. /\ Holds(held, cs[n].output) =>
             Collects(space.yields, held, MaxOutputs, merged.overflow, Unstructured, Sought, E)
      /\ ~Holds(held, cs[n].output) /\ Len(held) < MaxOutputs =>
             Collects(space.yields, Append(held, cs[n]), MaxOutputs, merged.overflow, Unstructured, Sought, E)
      /\ ~Holds(held, cs[n].output) /\ ~(Len(held) < MaxOutputs) =>
             Collects(space.yields, held, MaxOutputs, TRUE, Unstructured, Sought, E)
  <2> DEFINE D == {t \in Within(i) : t[3] < chunks[i].next}
             truncated == chunks[i].batch.unstructuredTruncated
             full == merged.overflow
  <2>1. /\ Collects(space.yields, held, MaxOutputs, full, Unstructured, Sought, UpTo(i, n, cs))
        /\ Collects(space.yields, cs, MaxLocalOutputs, truncated, Unstructured, Within(i), D)
        /\ full \in BOOLEAN
    BY <1>4, <1>5 DEF UpTo
  <2>2. Joins(held, full, Unstructured, cs[n], UpTo(i, n + 1, cs))
    <3> HIDE DEF i, n, cs, held, P, E, D, truncated, full
    <3> QED
      BY <1>2, <1>3, <2>1, CandidateJoins
  <2>3. UpTo(i, n + 1, cs) = E
    BY DEF UpTo
  <2> QED
    BY <2>2, <2>3 DEF Joins
<1>7. ASSUME NEW new \in MergedType, Advance(new), new.structured = merged.structured,
             Collects(space.yields, new.unstructured, MaxOutputs, new.overflow, Unstructured, Sought, E)
      PROVE  ReplayInv'
  <2>1. /\ merged' = new /\ at' = [chunk |-> i, candidate |-> n + 1] /\ step' = "unstructured"
        /\ UNCHANGED <<space, search, chunks, cancelled, answer>>
    BY <1>1, <1>2, <1>7 DEF Advance
  <2>2. CollectsMerged(merged', P \union Within(i), E)
    BY <1>4, <1>7, <2>1 DEF CollectsMerged
  <2> QED
    BY <1>2, <1>3, <2>1, <2>2, UnstructuredNext
<1>8. CASE Holds(held, cs[n].output)
  <2>1. Advance(merged)
    BY <1>8, Zenon DEF MergeUnstructured
  <2> QED
    BY <1>4, <1>6, <1>7, <1>8, <2>1
<1>9. CASE ~Holds(held, cs[n].output) /\ Len(held) < MaxOutputs
  <2> DEFINE new == [merged EXCEPT !.unstructured = Append(held, cs[n])]
  <2>1. Advance(new)
    BY <1>9, Zenon DEF MergeUnstructured
  <2>2. Collects(space.yields, Append(held, cs[n]), MaxOutputs, merged.overflow, Unstructured, Sought, E)
    BY <1>6, <1>9
  <2>3. /\ new \in MergedType /\ new.unstructured = Append(held, cs[n])
        /\ new.structured = merged.structured /\ new.overflow = merged.overflow
    BY <1>4, <2>2 DEF MergedType, Collects
  <2> HIDE DEF new
  <2> QED
    BY <1>7, <2>1, <2>2, <2>3
<1>10. CASE ~Holds(held, cs[n].output) /\ ~(Len(held) < MaxOutputs)
  <2> DEFINE new == [merged EXCEPT !.overflow = TRUE]
  <2>1. Advance(new)
    BY <1>10, Zenon DEF MergeUnstructured
  <2>2. Collects(space.yields, held, MaxOutputs, TRUE, Unstructured, Sought, E)
    BY <1>6, <1>10
  <2>3. /\ new \in MergedType /\ new.unstructured = held
        /\ new.structured = merged.structured /\ new.overflow = TRUE
    BY <1>4 DEF MergedType
  <2> HIDE DEF new
  <2> QED
    BY <1>7, <2>1, <2>2, <2>3
<1> QED
  BY <1>8, <1>9, <1>10

\* The merge passes to the next batch, or has merged the last one.
LEMMA BatchEnds == ReplayInv /\ EndBatch => ReplayInv'
<1> SUFFICES ASSUME ReplayInv, EndBatch
             PROVE  ReplayInv'
  OBVIOUS
<1> DEFINE i == at.chunk
           n == at.candidate
           b == chunks[i].batch
           P == Before(search.context, From(i))
<1>1. step = "unstructured" /\ n > Len(b.unstructured)
  BY DEF EndBatch
<1>2. /\ Merging /\ i \in DOMAIN chunks /\ n \in Nat \ {0}
      /\ b \in BatchType /\ chunks[i].status = "done"
      /\ \A j \in DOMAIN chunks : chunks[j].status # "replaying"
      /\ BatchCollects(space.yields, b, Within(i), {t \in Within(i) : t[3] < chunks[i].next})
      /\ CollectsMerged(merged, P \union Within(i), P \union Listed(i, n, b.unstructured))
  BY <1>1, PlaceOfMerge
<1>3. /\ b.unstructuredTruncated \in BOOLEAN
      /\ Collects(space.yields, b.unstructured, MaxLocalOutputs, b.unstructuredTruncated, Unstructured,
               Within(i), {t \in Within(i) : t[3] < chunks[i].next})
  BY <1>2 DEF BatchCollects, BatchType
<1>4. /\ merged \in MergedType /\ merged.overflow \in BOOLEAN
      /\ Collects(space.yields, merged.structured, MaxOutputs, FALSE, Structured, Sought, Through(i))
      /\ Collects(space.yields, merged.unstructured, MaxOutputs, merged.overflow, Unstructured, Sought,
               UpTo(i, n, b.unstructured))
  BY <1>2 DEF CollectsMerged, MergedType, Through, UpTo
<1>5. /\ b.unstructuredTruncated => merged.overflow
      /\ Collects(space.yields, merged.unstructured, MaxOutputs, merged.overflow, Unstructured, Sought, Through(i))
  <2> DEFINE cs == b.unstructured
             held == merged.unstructured
             D == {t \in Within(i) : t[3] < chunks[i].next}
             truncated == b.unstructuredTruncated
             full == merged.overflow
  <2>1. /\ Collects(space.yields, held, MaxOutputs, full, Unstructured, Sought, UpTo(i, n, cs))
        /\ Collects(space.yields, cs, MaxLocalOutputs, truncated, Unstructured, Within(i), D)
        /\ D = {t \in Within(i) : t[3] < chunks[i].next}
    BY <1>3, <1>4
  <2>2. truncated \in BOOLEAN /\ full \in BOOLEAN /\ n \in Nat /\ n > Len(cs)
    BY <1>1, <1>2, <1>3, <1>4
  <2>3. /\ truncated => full
        /\ Collects(space.yields, held, MaxOutputs, full, Unstructured, Sought, Through(i))
    <3> HIDE DEF i, n, b, cs, held, P, D, truncated, full
    <3> QED
      BY <1>1, <1>2, <2>1, <2>2, ChunkIsMerged
  <2> QED
    BY <2>3
<1>6. /\ merged' = [merged EXCEPT !.overflow = merged.overflow \/ b.unstructuredTruncated]
      /\ at' = [chunk |-> i + 1, candidate |-> 1]
      /\ step' = IF i = Len(chunks) THEN "merged" ELSE "structured"
      /\ UNCHANGED <<space, search, chunks, cancelled, answer>>
  BY DEF EndBatch, StartOf
<1>7. merged' = merged
  <2>1. (merged.overflow \/ b.unstructuredTruncated) = merged.overflow
    BY <1>3, <1>4, <1>5
  <2> QED
    BY <1>4, <1>6, <2>1 DEF MergedType
<1>8. ASSUME NEW F, \A t \in F : t \in Through(i)
      PROVE  CollectsMerged(merged', F, F)
  <2>1. /\ Collects(space.yields, merged.structured, MaxOutputs, FALSE, Structured, Sought, F)
        /\ Collects(space.yields, merged.unstructured, MaxOutputs, merged.overflow, Unstructured, Sought, F)
    BY <1>4, <1>5, <1>8, CollectsLess
  <2> QED
    BY <1>4, <1>7, <2>1 DEF CollectsMerged
<1>9. \A t \in Before(search.context, chunks[i].last + 1) : t \in Through(i)
  BY <1>2, PassedAndChunk DEF Through
<1>10. i \in Nat \ {0} /\ i <= Len(chunks) /\ Len(chunks) \in Nat /\ DOMAIN chunks = 1 .. Len(chunks)
       /\ chunks[Len(chunks)].last = search.last
  <2>1. (\E S : chunks \in Seq(S)) /\ chunks[Len(chunks)].last = search.last
    BY <1>1 DEF ReplayInv, ChunkInv
  <2> QED
    BY <1>2, <2>1
<1>11. CASE i = Len(chunks)
  <2>1. CollectsMerged(merged', Before(search.context, search.last + 1), Before(search.context, search.last + 1))
    BY <1>8, <1>9, <1>10, <1>11
  <2>2. step' = "merged" /\ at' \in [chunk : Nat \ {0}, candidate : Nat \ {0}]
    BY <1>6, <1>10, <1>11
  <2> QED
    BY <1>2, <1>6, <2>1, <2>2, MergedNext
<1>12. CASE i # Len(chunks)
  <2>1. i + 1 \in DOMAIN chunks /\ step' = "structured"
    BY <1>6, <1>10, <1>12
  <2>2. From(i + 1) = chunks[i].last + 1
    BY <1>10 DEF From
  <2>3. Listed(i + 1, 1, chunks[i + 1].batch.structured) = {}
    BY DEF Listed
  <2>4. CollectsMerged(merged', Before(search.context, From(i + 1))
                                    \union Listed(i + 1, 1, chunks[i + 1].batch.structured),
                                Before(search.context, From(i + 1)))
    BY <1>8, <1>9, <2>2, <2>3
  <2>5. 1 <= Len(chunks[i + 1].batch.structured) + 1
    <3>1. chunks[i + 1].batch.structured \in Seq(Candidates(Structured))
      BY <1>2, <2>1, ChunkIsTyped DEF BatchType
    <3>2. Len(chunks[i + 1].batch.structured) \in Nat
      BY <3>1
    <3> QED
      BY <3>2
  <2>6. chunks[i + 1].status # "replaying"
    BY <1>2, <2>1
  <2> QED
    BY <1>2, <1>6, <2>1, <2>4, <2>5, <2>6, StructuredNext
<1> QED
  BY <1>11, <1>12

-----------------------------------------------------------------------------
(***************************************************************************)
(* The end of a context, and of the last one.                              *)
(***************************************************************************)

\* What follows the verdict on one set of keys.
LEMMA VerdictKeeps ==
  ASSUME ReplayInv, Searching, NEW v, AfterReplay(v),
         v = OfHits(Hits(search.maps, search.last)), v.kind # "TooMany"
  PROVE  ReplayInv'
<1>1. /\ PlaceInv /\ SpaceInv /\ step # "done"
      /\ search \in [tier : {"direct", "fallback"}, first : Int, last : Int,
                     maps : {"legacy", "extended"}, context : 1 .. space.contexts]
      /\ 1 <= search.first /\ search.first <= search.last /\ search.last <= space.keys
      /\ (search.maps = "extended" => space.extended)
  BY DEF ReplayInv, PlaceInv, Searching
<1>2. v.kind \in {"Unique", "Ambiguous", "NoMatch"}
  BY KindsOfHits
<1>3. CASE v.kind = "NoMatch" /\ space.extended /\ search.maps = "legacy"
  <2> DEFINE s == [search EXCEPT !.maps = "extended", !.context = 1]
  <2>1. Replay(s)
    BY <1>3, Zenon DEF AfterReplay
  <2>2. /\ s \in [tier : {"direct", "fallback"}, first : Int, last : Int,
                  maps : {"legacy", "extended"}, context : {1}]
        /\ s.tier = search.tier /\ s.first = search.first /\ s.last = search.last
    BY <1>1
  <2> HIDE DEF s
  <2>3. OfHits(Hits("legacy", s.last)).kind = "NoMatch"
    BY <1>3, <2>2
  <2>4. /\ 1 <= s.first /\ s.first <= s.last /\ s.last <= space.keys
    BY <1>1, <2>2
  <2>5. IF s.tier = "direct" THEN s.first = 1 /\ s.last = space.direct
        ELSE /\ s.last = space.keys /\ DirectIsUndecided
             /\ \/ s.first = 1
                \/ s.first = space.direct + 1 /\ VerdictUpTo(space.direct).kind = "NoMatch"
    BY <1>1, <2>2 DEF PlaceInv, Searching
  <2> QED
    BY <1>1, <1>3, <2>1, <2>2, <2>3, <2>4, <2>5, ReplayBegins
<1>4. CASE ~(v.kind = "NoMatch" /\ space.extended /\ search.maps = "legacy")
  <2>1. v.kind = "NoMatch" => ~space.extended \/ search.maps = "extended"
    BY <1>1, <1>4
  <2>2. v = VerdictUpTo(search.last)
    BY <1>1, <2>1, VerdictIsFinal
  <2>3. CASE search.tier = "fallback"
    <3>1. Answer(v)
      BY <1>4, <2>3, Zenon DEF AfterReplay
    <3>2. v = Expected
      BY <1>1, <2>1, <2>3, AnswerIsExpected
    <3> QED
      BY <1>1, <1>2, <3>1, <3>2, AnswerKeeps
  <2>4. CASE search.tier # "fallback"
    <3>1. search.tier = "direct" /\ search.last = space.direct
      BY <1>1, <2>4 DEF PlaceInv, Searching
    <3>2. v = VerdictUpTo(space.direct) /\ space.direct \in Nat
      BY <1>1, <2>2, <3>1, RetentionAssumption DEF SpaceInv
    <3>3. CASE v.kind = "NoMatch"
      <4>1. Fallback(space.direct + 1)
        BY <1>4, <2>4, <3>3, Zenon DEF AfterReplay
      <4>2. DirectIsUndecided /\ VerdictUpTo(space.direct).kind = "NoMatch"
        BY <3>2, <3>3 DEF DirectIsUndecided
      <4>3. space.direct + 1 \in Int /\ 1 <= space.direct + 1
        BY <3>2
      <4> QED
        BY <1>1, <4>1, <4>2, <4>3, FallbackKeeps
    <3>4. CASE v.kind # "NoMatch" /\ (~space.extended \/ v.kind = "Unique")
      <4>1. Answer(v)
        BY <1>4, <2>4, <3>4, Zenon DEF AfterReplay
      <4>2. v.kind \in {"Unique", "TooMany"} \/ (v.kind = "Ambiguous" /\ ~space.extended)
        BY <1>2, <3>4
      <4>3. v = Expected
        BY <1>1, <2>1, <4>2, AnswerIsExpected
      <4> QED
        BY <1>1, <1>2, <4>1, <4>3, AnswerKeeps
    <3>5. CASE v.kind # "NoMatch" /\ ~(~space.extended \/ v.kind = "Unique")
      <4>1. Fallback(1)
        BY <1>4, <2>4, <3>5, Zenon DEF AfterReplay
      <4>2. DirectIsUndecided
        <5>1. v.kind = "Ambiguous" /\ space.extended
          BY <1>2, <3>5
        <5> QED
          BY <3>2, <5>1 DEF DirectIsUndecided
      <4>3. 1 \in Int /\ 1 <= 1
        OBVIOUS
      <4> QED
        BY <1>1, <4>1, <4>2, <4>3, FallbackKeeps
    <3> QED
      BY <3>3, <3>4, <3>5
  <2> QED
    BY <2>3, <2>4
<1> QED
  BY <1>3, <1>4

\* The next context, or the verdict.
LEMMA ContextEnds == ReplayInv /\ EndContext => ReplayInv'
<1> SUFFICES ASSUME ReplayInv, EndContext
             PROVE  ReplayInv'
  OBVIOUS
<1>1. step = "merged" /\ Searching /\ SpaceInv /\ PlaceInv
  BY DEF EndContext, Searching, ReplayInv
<1>2. /\ search.context \in 1 .. space.contexts /\ space.contexts \in Int /\ search.context \in Int
      /\ search.first \in Int /\ search.last \in Int
      /\ search \in [tier : {"direct", "fallback"}, first : Int, last : Int,
                     maps : {"legacy", "extended"}, context : 1 .. space.contexts]
  BY <1>1, RetentionAssumption DEF SpaceInv, PlaceInv
<1>3. /\ merged \in MergedType
      /\ MergedCollects(Before(search.context, search.last + 1), Before(search.context, search.last + 1))
  BY <1>1 DEF ReplayInv, MergeInv
<1>4. ASSUME NEW F, \A t \in F : t \in Before(search.context, search.last + 1)
      PROVE  CollectsMerged(merged, F, F)
  <2>1. /\ Collects(space.yields, merged.structured, MaxOutputs, FALSE, Structured, Sought, F)
        /\ Collects(space.yields, merged.unstructured, MaxOutputs, merged.overflow, Unstructured, Sought, F)
    BY <1>3, <1>4, CollectsLess DEF MergedCollects
  <2> QED
    BY <1>3, <2>1 DEF CollectsMerged
<1>5. \A t \in Sought : /\ t[2] \in Int /\ t[3] \in Int /\ t[2] <= space.contexts
                        /\ search.first <= t[3] /\ t[3] <= search.last /\ t[3] < search.last + 1
  BY <1>2, SearchIsTyped
<1>6. CASE search.context < space.contexts
  <2>1. /\ search' = [search EXCEPT !.context = search.context + 1]
        /\ step' = "context" /\ chunks' = <<>>
        /\ UNCHANGED <<space, merged, at, cancelled, answer>>
    BY <1>6 DEF EndContext
  <2>2. /\ search' \in [tier : {"direct", "fallback"}, first : Int, last : Int,
                     maps : {"legacy", "extended"}, context : 1 .. space.contexts]
        /\ search'.tier = search.tier /\ search'.first = search.first /\ search'.last = search.last
        /\ search'.maps = search.maps /\ search'.context = search.context + 1
    <3>1. search.context + 1 \in 1 .. space.contexts
      BY <1>2, <1>6
    <3> QED
      BY <1>2, <2>1, <3>1
  <2>3. SpaceInv'
    BY <1>1, <2>1, SpaceStays
  <2>4. PlaceInv'
    <3>1. OfHits(Hits("legacy", search.last))' = OfHits(Hits("legacy", search.last))
      BY <2>1, <2>2, LastStays
    <3>2. /\ DirectIsUndecided' <=> DirectIsUndecided
          /\ VerdictUpTo(space.direct)' = VerdictUpTo(space.direct)
      BY <2>1, SpaceStays
    <3> QED
      BY <1>1, <2>1, <2>2, <3>1, <3>2 DEF PlaceInv, Searching
  <2>5. ChunkInv'
    BY <2>1 DEF ChunkInv
  <2>6. AnswerInv'
    <3>1. AnswerInv /\ cancelled \in BOOLEAN
      BY DEF ReplayInv, AnswerInv
    <3> QED
      BY <1>1, <2>1, <3>1, AnswerStays
  <2>7. MergeInv'
    <3>1. Sought' = Sought
      BY <2>1, <2>2 DEF Sought, Hits
    <3> DEFINE F == { t \in Sought : t[2] < search.context + 1
                                     \/ (t[2] = search.context + 1 /\ t[3] < search.first) }
    <3>2. Before(search.context, search.first)' = F
      BY <2>2, <3>1 DEF Before
    <3>3. ASSUME NEW t \in F
          PROVE  t \in Before(search.context, search.last + 1)
      <4>1. t \in Sought /\ (t[2] < search.context + 1 \/ t[3] < search.first)
        OBVIOUS
      <4>2. t[2] < search.context \/ (t[2] = search.context /\ t[3] < search.last + 1)
        BY <1>2, <1>5, <4>1
      <4> QED
        BY <4>1, <4>2 DEF Before
    <3> HIDE DEF F
    <3>4. CollectsMerged(merged, F, F)
      BY <1>4, <3>3
    <3>5. MergedCollects(Before(search.context, search.first), Before(search.context, search.first))'
      BY <2>1, <3>1, <3>2, <3>4 DEF MergedCollects, CollectsMerged
    <3> QED
      BY <2>1, <3>5 DEF ReplayInv, MergeInv
  <2> QED
    BY <2>3, <2>4, <2>5, <2>6, <2>7 DEF ReplayInv
<1>7. CASE ~(search.context < space.contexts)
  <2>1. AfterReplay(Judge(merged))
    BY <1>7, Zenon DEF EndContext
  <2>2. \A t \in Sought : t \in Before(search.context, search.last + 1)
    <3>1. search.context = space.contexts
      BY <1>2, <1>7
    <3>2. \A t \in Sought : t[2] < search.context \/ (t[2] = search.context /\ t[3] < search.last + 1)
      BY <1>2, <1>5, <3>1
    <3> QED
      BY <3>2 DEF Before
  <2>3. CollectsMerged(merged, Sought, Sought)
    BY <1>4, <2>2
  <2>4. IsFiniteSet(FoundIn(Sought)) /\ merged.overflow \in BOOLEAN
    BY <1>1, <1>3, SoughtIsTyped DEF MergedType
  <2>5. Judge(merged) = OfHits(Sought) /\ OfHits(Sought).kind # "TooMany"
    BY <1>5, <2>3, <2>4, JudgeIsRight DEF CollectsMerged
  <2>6. Sought = Hits(search.maps, search.last)
    BY <1>1, SoughtIsAll
  <2> QED
    BY <1>1, <2>1, <2>5, <2>6, VerdictKeeps
<1> QED
  BY <1>6, <1>7

\* The search is cancelled.
LEMMA CancelKeeps == ReplayInv /\ Cancel => ReplayInv'
<1> SUFFICES ASSUME ReplayInv, Cancel
             PROVE  ReplayInv'
  OBVIOUS
<1>1. /\ step # "done" /\ cancelled' = TRUE
      /\ UNCHANGED <<space, step, search, chunks, merged, at, answer>>
  BY DEF Cancel
<1>2. SpaceInv'
  BY <1>1, SpaceStays DEF ReplayInv
<1>3. PlaceInv'
  BY <1>1, PlaceStays DEF ReplayInv, Searching
<1>4. ChunkInv'
  <2>1. CASE step \in {"replay", "structured", "unstructured"}
    BY <1>1, <2>1, ChunksStay DEF ReplayInv
  <2>2. CASE step \notin {"replay", "structured", "unstructured"}
    BY <1>1, <2>2 DEF ChunkInv
  <2> QED
    BY <2>1, <2>2
<1>5. MergeInv'
  BY <1>1, MergeStays DEF ReplayInv
<1>6. AnswerInv'
  BY <1>1, AnswerStays DEF ReplayInv
<1> QED
  BY <1>2, <1>3, <1>4, <1>5, <1>6 DEF ReplayInv

\* A step that changes nothing.
LEMMA NothingKeeps == ReplayInv /\ UNCHANGED replayVars => ReplayInv'
<1> SUFFICES ASSUME ReplayInv, UNCHANGED replayVars
             PROVE  ReplayInv'
  OBVIOUS
<1>1. UNCHANGED <<space, step, search, chunks, merged, at, cancelled, answer>>
  BY DEF replayVars
<1>2. SpaceInv'
  BY <1>1, SpaceStays DEF ReplayInv
<1>3. PlaceInv'
  BY <1>1, PlaceStays DEF ReplayInv, Searching
<1>4. ChunkInv'
  <2>1. CASE step \in {"replay", "structured", "unstructured"}
    BY <1>1, <2>1, ChunksStay DEF ReplayInv
  <2>2. CASE step \notin {"replay", "structured", "unstructured"}
    BY <1>1, <2>2 DEF ChunkInv
  <2> QED
    BY <2>1, <2>2
<1>5. MergeInv'
  BY <1>1, MergeStays DEF ReplayInv
<1>6. AnswerInv'
  <2>1. Expected' = Expected
    BY <1>1, SpaceStays
  <2> QED
    BY <1>1, <2>1 DEF ReplayInv, AnswerInv, VerdictIsSequential
<1> QED
  BY <1>2, <1>3, <1>4, <1>5, <1>6 DEF ReplayInv

\* The invariant holds initially.
LEMMA ReplayInitIsRight == ReplayInit => ReplayInv
<1> SUFFICES ASSUME ReplayInit
             PROVE  ReplayInv
  OBVIOUS
<1>1. SpaceInv
  <2>0. PICK n \in 1 .. MaxTries, k \in 0 .. MaxTries, e \in BOOLEAN, l \in 1 .. MaxLanes :
          /\ n * k <= MaxTries
          /\ \E d \in 0 .. k, H \in SUBSET Tries(n, k, e) :
                /\ Cardinality(H) <= MaxHits
                /\ \E f \in [H -> Outputs] :
                      space = SearchSpace(n, k, e, d, l,
                                  [t \in Tries(n, k, e) |-> IF t \in H THEN f[t] ELSE NoOutput])
    BY Zenon DEF ReplayInit
  <2>h. PICK d \in 0 .. k, H \in SUBSET Tries(n, k, e) : \E f \in [H -> Outputs] :
             space = SearchSpace(n, k, e, d, l,
                         [t \in Tries(n, k, e) |-> IF t \in H THEN f[t] ELSE NoOutput])
    BY <2>0, Zenon
  <2>1. PICK f \in [H -> Outputs] :
             space = SearchSpace(n, k, e, d, l,
                         [t \in Tries(n, k, e) |-> IF t \in H THEN f[t] ELSE NoOutput])
    BY <2>h
  <2> DEFINE y == [t \in Tries(n, k, e) |-> IF t \in H THEN f[t] ELSE NoOutput]
  <2>2. y \in [Tries(n, k, e) -> Outputs \union {NoOutput}]
    OBVIOUS
  <2> HIDE DEF y
  <2>3. d \in 0 .. MaxTries /\ d <= k
    BY RetentionAssumption
  <2>4. /\ space.contexts = n /\ space.keys = k /\ space.extended = e
        /\ space.direct = d /\ space.lanes = l /\ space.yields = y
        /\ space = [contexts |-> n, keys |-> k, extended |-> e, direct |-> d, lanes |-> l, yields |-> y]
    BY <2>1 DEF SearchSpace, y
  <2> QED
    BY <2>2, <2>3, <2>4 DEF SpaceInv
<1>2. step = "start" /\ answer = Undecided /\ cancelled = FALSE
  BY DEF ReplayInit
<1>3. PlaceInv
  <2>1. /\ search = Search("direct", 1, space.direct) /\ space.direct \in Int
        /\ 1 \in 1 .. space.contexts
    BY <1>1, RetentionAssumption DEF ReplayInit, SpaceInv
  <2> QED
    BY <1>2, <2>1 DEF PlaceInv, Search
<1>4. ChunkInv
  BY <1>2 DEF ChunkInv
<1>5. MergeInv
  <2>1. /\ merged = Nothing /\ at = [chunk |-> 1, candidate |-> 1]
    BY DEF ReplayInit, StartOf
  <2>2. /\ merged \in MergedType /\ Len(merged.structured) = 0 /\ Len(merged.unstructured) = 0
        /\ at \in [chunk : Nat \ {0}, candidate : Nat \ {0}]
    BY <2>1 DEF Nothing, MergedType
  <2>3. 0 <= MaxOutputs
    BY RetentionAssumption
  <2> QED
    BY <1>2, <2>2, <2>3 DEF MergeInv
<1>6. AnswerInv
  <2>1. answer.kind = "none"
    BY <1>2 DEF Undecided, Plain, Verdict
  <2> QED
    BY <1>2, <2>1 DEF AnswerInv, VerdictIsSequential
<1> QED
  BY <1>1, <1>3, <1>4, <1>5, <1>6 DEF ReplayInv

\* ReplayInv is an invariant.
LEMMA ReplayInvHolds == ReplaySpec => []ReplayInv
<1>1. ReplayInv /\ [ReplayNext]_replayVars => ReplayInv'
  <2> SUFFICES ASSUME ReplayInv, [ReplayNext]_replayVars
               PROVE  ReplayInv'
    OBVIOUS
  <2> QED
    BY StartOpens, ContextBegins, KeyKeeps, MergeBegins, MissingKeeps, StructuredKeeps,
       StructuredEnds, UnstructuredKeeps, BatchEnds, ContextEnds, CancelKeeps, NothingKeeps
       DEF ReplayNext, ReplayStopped
<1> QED
  BY ReplayInitIsRight, <1>1, PTL DEF ReplaySpec

\* However many lanes there are and whatever the batches and the merge dropped, a
\* search that was not cancelled answers what one thread with room for every
\* output would answer.
THEOREM VerdictAlwaysSequential == ReplaySpec => []VerdictIsSequential
<1>1. ReplayInv => VerdictIsSequential
  BY DEF ReplayInv, AnswerInv
<1> QED
  BY ReplayInvHolds, <1>1, PTL

\* The variables of the replay keep their types and bounds.
THEOREM ReplayTypeCorrect == ReplaySpec => []ReplayTypeOK
<1>1. ReplayInv => ReplayTypeOK
  <2> SUFFICES ASSUME ReplayInv
               PROVE  ReplayTypeOK
    OBVIOUS
  <2>1. /\ space \in [contexts : 1 .. MaxTries, keys : 0 .. MaxTries,
                      direct : 0 .. MaxTries, lanes : 1 .. MaxLanes,
                      extended : BOOLEAN, yields : {space.yields}]
        /\ space.yields \in [Tries(space.contexts, space.keys, space.extended) ->
                                Outputs \union {NoOutput}]
    BY DEF ReplayInv, SpaceInv
  <2>2. /\ step \in {"start", "context", "replay", "structured", "unstructured", "merged", "done"}
        /\ cancelled \in BOOLEAN
        /\ answer.kind \in {"none", "NoMatch", "Unique", "Ambiguous", "TooMany",
                            "RetentionExceeded", "Cancelled"}
    BY DEF ReplayInv, AnswerInv
  <2>3. /\ search.tier \in {"direct", "fallback"} /\ search.maps \in {"legacy", "extended"}
        /\ search.context \in 1 .. space.contexts
    BY DEF ReplayInv, PlaceInv
  <2>4. step \in {"structured", "unstructured"} => at.chunk \in DOMAIN chunks /\ at.candidate \in Nat \ {0}
    BY PlaceOfMerge
  <2>5. step = "replay" => /\ chunks # <<>> /\ Head(chunks).next >= search.first
                          /\ Last(chunks).last = search.last
    <3> SUFFICES ASSUME step = "replay"
                 PROVE  /\ chunks # <<>> /\ Head(chunks).next >= search.first
                        /\ Last(chunks).last = search.last
      OBVIOUS
    <3>1. /\ chunks \in Seq(ChunkType) /\ chunks # <<>> /\ chunks[Len(chunks)].last = search.last
      BY DEF ReplayInv, ChunkInv, ChunkType
    <3>2. 1 \in DOMAIN chunks /\ Head(chunks) = chunks[1]
      BY <3>1
    <3>3. search.first <= From(1) /\ From(1) <= chunks[1].next /\ chunks[1].next \in Int
          /\ From(1) \in Int /\ search.first \in Int
      BY <3>2, ChunkIsTyped, SearchIsTyped DEF IsChunk, Merging
    <3> QED
      BY <3>1, <3>2, <3>3 DEF Last
  <2>6. /\ merged.structured \in BoundedSeq(Candidates(Structured), MaxOutputs)
        /\ merged.unstructured \in BoundedSeq(Candidates(Unstructured), MaxOutputs)
        /\ merged.overflow \in BOOLEAN
    <3>1. ASSUME NEW S, NEW cs \in Seq(S), Len(cs) <= MaxOutputs
          PROVE  cs \in BoundedSeq(S, MaxOutputs)
      <4>1. Len(cs) \in 0 .. MaxOutputs /\ cs \in [1 .. Len(cs) -> S]
        BY <3>1, RetentionAssumption
      <4> QED
        BY <4>1 DEF BoundedSeq, SeqOf
    <3>2. merged \in MergedType /\ Len(merged.structured) <= MaxOutputs /\ Len(merged.unstructured) <= MaxOutputs
      BY DEF ReplayInv, MergeInv
    <3> QED
      BY <3>1, <3>2 DEF MergedType
  <2> QED
    BY <2>1, <2>2, <2>3, <2>4, <2>5, <2>6 DEF ReplayTypeOK
<1> QED
  BY ReplayInvHolds, <1>1, PTL
=============================================================================
