------------------------- MODULE OutputRebuildProofs -------------------------
(***************************************************************************)
(* Proofs about OutputRebuild, for every image, alignment and set of        *)
(* structures: the passes change loader data alone, the file that is       *)
(* written is a valid image that holds what the passes left in memory, the  *)
(* retained directories are in it as they were recovered, what the          *)
(* relocations name holds addresses, and a well-formed image is rebuilt.    *)
(***************************************************************************)
EXTENDS OutputRebuild, FiniteSetTheorems, SequenceTheorems, WellFoundedInduction, TLAPS

-----------------------------------------------------------------------------
(***************************************************************************)
(* Natural numbers: least and greatest elements, multiples, alignment.      *)
(***************************************************************************)
LEMMA LeastElement ==
  ASSUME NEW T \in SUBSET Nat, T # {}
  PROVE  \E x \in T : \A y \in T : x <= y
<1>1. PICK x \in T : \A y \in T : <<y, x>> \notin OpToRel(<, Nat)
  BY NatLessThanWellFounded, WFMin
<1>2. \A y \in T : ~(y < x)
  BY <1>1 DEF OpToRel
<1>. QED
  BY <1>2

\* And a bounded one has a greatest.
LEMMA GreatestElement ==
  ASSUME NEW n \in Nat, NEW S \in SUBSET (0 .. n), S # {}
  PROVE  Greatest(S) \in S /\ \A x \in S : x <= Greatest(S)
<1> DEFINE T == {k \in 0 .. n : n - k \in S}
<1>1. PICK s \in S : TRUE
  OBVIOUS
<1>2. n - s \in T
  <2>1. s \in 0 .. n /\ n - (n - s) = s /\ n - s \in 0 .. n
    BY <1>1
  <2>. QED
    BY <1>1, <2>1
<1>3. PICK k \in T : \A l \in T : k <= l
  <2>1. T \in SUBSET Nat /\ T # {}
    BY <1>2
  <2>. QED
    BY <2>1, LeastElement
<1>4. ASSUME NEW x \in S
      PROVE  x <= n - k
  <2>1. x \in 0 .. n /\ n - (n - x) = x /\ n - x \in 0 .. n
    OBVIOUS
  <2>2. k <= n - x
    BY <1>3, <2>1
  <2>. QED
    BY <1>3, <2>1, <2>2
<1>5. \E m \in S : \A x \in S : x <= m
  BY <1>3, <1>4
<1>. QED
  BY <1>5 DEF Greatest

\* The multiples of a.
LEMMA Multiples ==
  ASSUME NEW a \in Nat \ {0}
  PROVE  /\ \A k \in Nat : k * a \in Nat /\ (k * a) % a = 0
         /\ \A n \in Nat : n % a = 0 => n \div a \in Nat /\ n = (n \div a) * a
<1>1. \A k \in Nat : k * a \in Nat /\ (k * a) % a = 0
  OBVIOUS
<1>2. ASSUME NEW n \in Nat, n % a = 0
      PROVE  n \div a \in Nat /\ n = (n \div a) * a
  <2>1. n \div a \in Nat /\ n = a * (n \div a) + (n % a)
    OBVIOUS
  <2>. QED
    BY <1>2, <2>1
<1>. QED
  BY <1>1, <1>2

\* Their sums and differences.
LEMMA MultiplesAdd ==
  ASSUME NEW a \in Nat \ {0}, NEW m \in Nat, NEW n \in Nat, m % a = 0, n % a = 0
  PROVE  /\ (m + n) % a = 0
         /\ n <= m => (m - n) % a = 0
<1>1. PICK j \in Nat, k \in Nat : m = j * a /\ n = k * a
  BY Multiples
<1>2. m + n = (j + k) * a /\ j + k \in Nat
  BY <1>1
<1>3. (m + n) % a = 0
  <2>1. \A l \in Nat : (l * a) % a = 0
    BY Multiples
  <2>2. ((j + k) * a) % a = 0
    BY <1>2, <2>1
  <2>. QED
    BY <1>2, <2>2
<1>4. ASSUME n <= m
      PROVE  (m - n) % a = 0
  <2>1. k <= j
    BY <1>1, <1>4
  <2>2. m - n = (j - k) * a /\ j - k \in Nat
    BY <1>1, <2>1
  <2>. QED
    BY <2>2, Multiples
<1>. QED
  BY <1>3, <1>4

\* What is a multiple of a multiple of a.
LEMMA MultiplesOfMultiples ==
  ASSUME NEW a \in Nat \ {0}, NEW b \in Nat \ {0}, NEW n \in Nat, n % b = 0, b % a = 0
  PROVE  n % a = 0
<1>1. PICK j \in Nat : n = j * b
  BY Multiples
<1>2. PICK k \in Nat : b = k * a
  BY Multiples
<1>3. n = (j * k) * a /\ j * k \in Nat
  BY <1>1, <1>2
<1>4. \A l \in Nat : (l * a) % a = 0
  BY Multiples
<1>5. ((j * k) * a) % a = 0
  BY <1>3, <1>4
<1>. QED
  BY <1>3, <1>5

\* The least multiple of a that is not below n.
LEMMA AlignedUp ==
  ASSUME NEW a \in Nat \ {0}, NEW n \in Nat
  PROVE  /\ AlignUp(n, a) \in Nat /\ n <= AlignUp(n, a) /\ AlignUp(n, a) % a = 0
         /\ \A m \in Nat : m % a = 0 /\ n <= m => AlignUp(n, a) <= m
         /\ n = 0 => AlignUp(n, a) = 0
<1>1. AlignUp(n, a) \in Nat /\ n <= AlignUp(n, a) /\ AlignUp(n, a) < n + a
  BY DEF AlignUp
<1>2. AlignUp(n, a) % a = 0
  BY DEF AlignUp
<1>3. ASSUME NEW m \in Nat, m % a = 0, n <= m
      PROVE  AlignUp(n, a) <= m
  <2>1. PICK j \in Nat, k \in Nat : m = j * a /\ AlignUp(n, a) = k * a
    BY <1>1, <1>2, <1>3, Multiples
  <2>2. k * a < (j + 1) * a
    BY <1>1, <1>3, <2>1
  <2>3. k < j + 1
    BY <2>2
  <2>4. k * a <= j * a
    BY <2>3
  <2>. QED
    BY <2>1, <2>4
<1>4. n = 0 => AlignUp(n, a) = 0
  <2>1. 0 % a = 0
    OBVIOUS
  <2>. QED
    BY <1>1, <1>3, <2>1
<1>. QED
  BY <1>1, <1>2, <1>3, <1>4


-----------------------------------------------------------------------------
(***************************************************************************)
(* The inductive invariant.                                                 *)
(***************************************************************************)
DirectoryTable ==
    [index : {"exception", "debug", "resource", "tls", "import", "iat"}, range : Ranges,
     payload : Ranges]
PlacedTable == [start : Nat, length : Nat, at : Nat, raw : Nat]

\* What the passes keep is of its kind.
DataInv ==
    /\ image \in Images
    /\ pc \in {"start", "cleared", "recovered", "relocated", "ready", "serialized",
              "done", "failed"}
    /\ mapped \in [0 .. image.sizeOfImage - 1 -> Values]
    /\ directories \subseteq DirectoryTable
    /\ relocations.entries \subseteq Positions /\ relocations.directory \in Ranges
    /\ relocations.prefix \in Nat
    /\ export \in Ranges
    /\ failure # "none" <=> pc = "failed"

\* What a pass relies on: nothing was changed before the first, the import cells are
\* backed in those that follow, sections are placed when all passes are through.
ProgressInv ==
    /\ pc = "start" => mapped = image.cells
    /\ pc \in {"start", "cleared", "recovered", "relocated"} => layout = <<>>
    /\ pc \in {"cleared", "recovered", "relocated"} => Backed(Sections, IatDirectory)
    /\ pc \in {"serialized", "done"} => Len(layout) = Len(Sections)

\* The placed sections: each cut down to its extent, all aligned, one behind the
\* other without a gap from the end of the headers.
Ends(k) == layout[k].at + layout[k].raw
LayoutInv ==
    /\ layout \in Seq(PlacedTable) /\ Len(layout) <= Len(Sections)
    /\ \A k \in 1 .. Len(layout) :
          /\ layout[k].start = Sections[k].start
          /\ layout[k].length = Larger(Sections[k].virtual, Sections[k].raw)
          /\ layout[k].raw = AlignUp(Extent(Sections[k]), FileAlignment)
          /\ layout[k].at % FileAlignment = 0
          /\ image.sizeOfHeaders <= layout[k].at /\ layout[k].start <= image.sizeOfImage
    /\ \A j, k \in 1 .. Len(layout) : j < k => Ends(j) <= layout[k].at
    /\ layout # <<>> =>
          \A at \in Nat : image.sizeOfHeaders <= at /\ at < Ends(Len(layout)) =>
              \E k \in 1 .. Len(layout) : layout[k].at <= at /\ at < Ends(k)

\* The file is what the placed sections and the generated one spell out.
FileInv ==
    /\ pc \in {"serialized", "done"} =>
          file = [at \in 0 .. FileLength(layout) - 1 |-> FileCell(layout, at)]
    /\ \A at \in DOMAIN file : file[at] \in Values
    /\ pointer \in 0 .. Cardinality(DOMAIN file)

\* What is outside of sections stays zero if it was.
ContentInv == HoldsInSections(image.cells) => HoldsInSections(mapped)

RebuildInv ==
    /\ DataInv /\ ProgressInv /\ LayoutInv /\ FileInv /\ ContentInv
    /\ OnlyLoaderDataChanges

-----------------------------------------------------------------------------
(***************************************************************************)
(* What parsing demanded of the image.                                      *)
(***************************************************************************)
\* The two alignments, as the lemmas need them.
LEMMA AlignmentsAre ==
  /\ FileAlignment \in Nat \ {0} /\ SectionAlignment \in Nat \ {0}
  /\ \A n \in Nat : n % SectionAlignment = 0 => n % FileAlignment = 0
<1>1. FileAlignment \in Nat \ {0} /\ SectionAlignment \in Nat \ {0} /\ SectionAlignment % FileAlignment = 0
  BY Alignments
<1>. QED
  BY <1>1, MultiplesOfMultiples

\* The sections of an image, one by one.
LEMMA SectionIs ==
  ASSUME image \in Images, NEW n \in DOMAIN Sections
  PROVE  /\ n \in 1 .. Len(Sections) /\ Len(Sections) \in Nat
         /\ Sections[n].start \in Nat /\ Sections[n].virtual \in Nat /\ Sections[n].raw \in Nat
         /\ Larger(Sections[n].virtual, Sections[n].raw) \in Nat
         /\ Sections[n].start % SectionAlignment = 0
         /\ Larger(Sections[n].virtual, Sections[n].raw) # 0 =>
               /\ image.sizeOfHeaders <= Sections[n].start
               /\ Sections[n].start + Larger(Sections[n].virtual, Sections[n].raw)
                     <= image.sizeOfImage
<1>1. IsLaidOut(image)
  BY ImagesAreTyped
<1>2. image.sizeOfHeaders \in Nat /\ image.sizeOfImage \in Nat /\ Sections \in Seq(SectionTable)
  BY <1>1 DEF IsLaidOut, Sections
<1>3. n \in 1 .. Len(Sections) /\ Len(Sections) \in Nat /\ Sections[n] \in SectionTable
  BY <1>2
<1>4. /\ Sections[n].start % SectionAlignment = 0
      /\ SectionCells(Sections[n]) \subseteq image.sizeOfHeaders .. image.sizeOfImage - 1
  BY <1>1 DEF IsLaidOut, Sections
<1> DEFINE l == Larger(Sections[n].virtual, Sections[n].raw)
           s == Sections[n].start
<1>5. s \in Nat /\ Sections[n].virtual \in Nat /\ Sections[n].raw \in Nat /\ l \in Nat
  BY <1>3 DEF SectionTable, Larger
<1>6. s .. s + l - 1 \subseteq image.sizeOfHeaders .. image.sizeOfImage - 1
  BY <1>4 DEF SectionCells
<1>. HIDE DEF l, s
<1>8. CASE l = 0
  BY <1>2, <1>3, <1>4, <1>5, <1>8 DEF l, s
<1>9. CASE l # 0
  <2>1. s \in s .. s + l - 1 /\ s + l - 1 \in s .. s + l - 1
    BY <1>5, <1>9
  <2>2. s \in image.sizeOfHeaders .. image.sizeOfImage - 1
    BY <1>6, <2>1
  <2>3. s + l - 1 \in image.sizeOfHeaders .. image.sizeOfImage - 1
    BY <1>6, <2>1
  <2>4. image.sizeOfHeaders <= s /\ s + l <= image.sizeOfImage
    BY <1>2, <1>5, <2>2, <2>3
  <2>. QED
    BY <1>3, <1>4, <1>5, <2>4 DEF l, s
<1>. QED
  BY <1>8, <1>9

\* The sizes of an image; there is a section at least.
LEMMA ImageIs ==
  ASSUME image \in Images
  PROVE  /\ image.sizeOfHeaders \in Nat \ {0} /\ image.sizeOfHeaders % FileAlignment = 0
         /\ image.sizeOfImage \in Nat /\ image.sizeOfImage % SectionAlignment = 0
         /\ image.sizeOfHeaders <= image.sizeOfImage
         /\ GeneratedAt = image.sizeOfImage
         /\ Sections \in Seq(SectionTable) /\ Len(Sections) \in Nat \ {0}
         /\ DOMAIN Sections = 1 .. Len(Sections)
<1>1. IsLaidOut(image)
  BY ImagesAreTyped
<1>2. /\ image.sizeOfHeaders \in Nat \ {0} /\ image.sizeOfHeaders % FileAlignment = 0
      /\ image.sizeOfImage \in Nat /\ image.sizeOfImage % SectionAlignment = 0
      /\ image.sizeOfHeaders <= image.sizeOfImage
      /\ Sections \in Seq(SectionTable) /\ Sections # <<>>
  BY <1>1 DEF IsLaidOut, Sections
<1>3. Len(Sections) \in Nat \ {0} /\ DOMAIN Sections = 1 .. Len(Sections)
  BY <1>2
<1>4. GeneratedAt = image.sizeOfImage
  <2>1. image.sizeOfImage <= AlignUp(image.sizeOfImage, SectionAlignment)
    BY <1>2, AlignmentsAre, AlignedUp
  <2>2. AlignUp(image.sizeOfImage, SectionAlignment) <= image.sizeOfImage
    <3>1. \A m \in Nat : m % SectionAlignment = 0 /\ image.sizeOfImage <= m
              => AlignUp(image.sizeOfImage, SectionAlignment) <= m
      BY <1>2, AlignmentsAre, AlignedUp
    <3>. QED
      BY <1>2, <3>1
  <2>3. AlignUp(image.sizeOfImage, SectionAlignment) \in Nat
    BY <1>2, AlignmentsAre, AlignedUp
  <2>. QED
    BY <1>2, <2>1, <2>2, <2>3 DEF GeneratedAt
<1>. QED
  BY <1>2, <1>3, <1>4

\* A section that is rounded up in the file still ends before the next one starts, and
\* before the image ends.
LEMMA RoomForRaw ==
  ASSUME image \in Images, NEW n \in DOMAIN Sections,
         NEW e \in 0 .. Larger(Sections[n].virtual, Sections[n].raw)
  PROVE  /\ AlignUp(e, FileAlignment) \in Nat /\ e <= AlignUp(e, FileAlignment)
         /\ AlignUp(e, FileAlignment) % FileAlignment = 0
         /\ e = 0 => AlignUp(e, FileAlignment) = 0
         /\ e # 0 => Sections[n].start + AlignUp(e, FileAlignment) <= image.sizeOfImage
         /\ \A m \in DOMAIN Sections :
               n < m => Sections[n].start + AlignUp(e, FileAlignment) <= Sections[m].start
<1> DEFINE s == Sections[n].start
           up == AlignUp(e, FileAlignment)
           l == Larger(Sections[n].virtual, Sections[n].raw)
<1>1. /\ s \in Nat /\ l \in Nat /\ s % SectionAlignment = 0
      /\ l # 0 => s + l <= image.sizeOfImage
  BY SectionIs
<1>2. image.sizeOfImage \in Nat /\ image.sizeOfImage % SectionAlignment = 0
  BY ImageIs
<1>3. e \in Nat /\ e <= l
  BY <1>1
<1>. HIDE DEF l
<1>4. FileAlignment \in Nat \ {0}
  BY AlignmentsAre
<1>5. /\ up \in Nat /\ e <= up /\ up % FileAlignment = 0
      /\ e = 0 => up = 0
  BY <1>3, <1>4, AlignedUp
<1>6. ASSUME NEW b \in Nat, b % SectionAlignment = 0, s + l <= b
      PROVE  s + up <= b
  <2>1. b % FileAlignment = 0 /\ s % FileAlignment = 0
    BY <1>1, <1>6, AlignmentsAre
  <2>2. s <= b
    BY <1>1, <1>6
  <2>3. (b - s) % FileAlignment = 0
    BY <1>1, <1>4, <2>1, <2>2, MultiplesAdd
  <2>4. b - s \in Nat /\ e <= b - s
    BY <1>1, <1>3, <1>6
  <2>5. up <= b - s
    BY <1>3, <1>4, <2>3, <2>4, AlignedUp
  <2>. HIDE DEF s, up
  <2>. QED
    BY <1>1, <1>5, <2>4, <2>5
<1>7. ASSUME NEW m \in DOMAIN Sections, n < m
      PROVE  s + l <= Sections[m].start
  <2>1. IsLaidOut(image)
    BY ImagesAreTyped
  <2>. QED
    BY <1>7, <2>1 DEF IsLaidOut, Sections, l
<1>8. ASSUME NEW m \in DOMAIN Sections, n < m
      PROVE  s + up <= Sections[m].start
  <2>1. Sections[m].start \in Nat /\ Sections[m].start % SectionAlignment = 0
    BY SectionIs
  <2>. QED
    BY <1>6, <1>7, <1>8, <2>1
<1>9. e # 0 => s + up <= image.sizeOfImage
  BY <1>1, <1>2, <1>3, <1>6
<1>. QED
  BY <1>5, <1>8, <1>9

-----------------------------------------------------------------------------
(***************************************************************************)
(* The operators the passes are built from.                                 *)
(***************************************************************************)
\* The extent of a section lies within it, and reaches every cell that is not zero or
\* is required.
LEMMA ExtentIs ==
  ASSUME image \in Images, NEW n \in DOMAIN Sections
  PROVE  /\ Extent(Sections[n]) \in 0 .. Larger(Sections[n].virtual, Sections[n].raw)
         /\ \A c \in SectionCells(Sections[n]) :
               mapped[c] # "zero" \/ (\E r \in RequiredRanges : c \in Cells(r)) =>
                   c - Sections[n].start + 1 <= Extent(Sections[n])
<1> DEFINE s == Sections[n]
           l == Larger(s.virtual, s.raw)
           held == SectionCells(s)
                    \intersect ({ d \in SectionCells(s) : mapped[d] # "zero" }
                                \union UNION { Cells(r) : r \in RequiredRanges })
           S == {0} \union { c - s.start + 1 : c \in held }
<1>1. s.start \in Nat /\ l \in Nat
  BY SectionIs
<1>2. \A c \in SectionCells(s) : c \in Int /\ s.start <= c /\ c - s.start + 1 <= l
  BY <1>1 DEF SectionCells
<1>3. S \in SUBSET (0 .. l) /\ S # {}
  <2>1. held \subseteq SectionCells(s)
    OBVIOUS
  <2>. HIDE DEF held, l
  <2>2. \A c \in held : c - s.start + 1 \in 0 .. l
    BY <1>1, <1>2, <2>1
  <2>3. 0 \in 0 .. l
    BY <1>1
  <2>. QED
    BY <2>2, <2>3
<1>4. Extent(s) = Greatest(S)
  BY DEF Extent
<1>. HIDE DEF S
<1>5. Greatest(S) \in S /\ \A x \in S : x <= Greatest(S)
  BY <1>1, <1>3, GreatestElement
<1>6. ASSUME NEW c \in SectionCells(s),
             mapped[c] # "zero" \/ (\E r \in RequiredRanges : c \in Cells(r))
      PROVE  c - s.start + 1 <= Greatest(S)
  <2>1. c \in held
    BY <1>6
  <2>2. c - s.start + 1 \in S
    BY <2>1 DEF S
  <2>. QED
    BY <1>5, <2>2
<1>7. Greatest(S) \in 0 .. l
  BY <1>3, <1>5
<1>. QED
  BY <1>4, <1>6, <1>7

\* The import cells of an image: ranges of it that are not empty and do not overlap.
LEMMA IatIs ==
  ASSUME image \in Images
  PROVE  /\ DOMAIN image.iats = 1 .. Len(image.iats) /\ Len(image.iats) \in Nat
         /\ DOMAIN image.iats # {}
         /\ \A n \in DOMAIN image.iats :
               /\ image.iats[n].from \in Nat /\ image.iats[n].to \in Nat
               /\ image.iats[n].from < image.iats[n].to
               /\ image.iats[n].to <= image.sizeOfImage
         /\ \A n, m \in DOMAIN image.iats :
               n # m => \/ image.iats[n].to <= image.iats[m].from
                        \/ image.iats[m].to <= image.iats[n].from
<1>1. IsRead(image) /\ image.sizeOfImage \in Nat
  BY ImagesAreTyped, ImageIs
<1>2. image.iats \in Seq(Ranges) /\ image.iats # <<>>
  BY <1>1 DEF IsRead
<1>3. \A n, m \in DOMAIN image.iats :
         /\ Cells(image.iats[n]) # {} /\ Cells(image.iats[n]) \subseteq 0 .. image.sizeOfImage - 1
         /\ n # m => Cells(image.iats[n]) \intersect Cells(image.iats[m]) = {}
  BY <1>1 DEF IsRead
<1>4. /\ DOMAIN image.iats = 1 .. Len(image.iats) /\ Len(image.iats) \in Nat
      /\ DOMAIN image.iats # {}
  <2>1. DOMAIN image.iats = 1 .. Len(image.iats) /\ Len(image.iats) \in Nat \ {0}
    BY <1>2
  <2>2. 1 \in DOMAIN image.iats
    BY <2>1
  <2>. QED
    BY <2>1, <2>2
<1>5. ASSUME NEW n \in DOMAIN image.iats
      PROVE  /\ image.iats[n].from \in Nat /\ image.iats[n].to \in Nat
             /\ image.iats[n].from < image.iats[n].to
             /\ image.iats[n].to <= image.sizeOfImage
  <2>1. image.iats[n] \in Ranges
    BY <1>2
  <2>2. image.iats[n].from \in Nat /\ image.iats[n].to \in Nat
    BY <2>1 DEF Ranges
  <2>3. PICK c \in Cells(image.iats[n]) : TRUE
    BY <1>3
  <2>4. image.iats[n].from < image.iats[n].to
    BY <2>2, <2>3 DEF Cells
  <2>5. image.iats[n].to - 1 \in Cells(image.iats[n])
    BY <2>2, <2>4 DEF Cells
  <2>6. image.iats[n].to - 1 \in 0 .. image.sizeOfImage - 1
    BY <1>3, <2>5
  <2>. QED
    BY <1>1, <2>2, <2>4, <2>6
<1>6. ASSUME NEW n \in DOMAIN image.iats, NEW m \in DOMAIN image.iats, n # m,
             image.iats[m].from < image.iats[n].to, image.iats[n].from < image.iats[m].to
      PROVE  FALSE
  <2> DEFINE a == image.iats[n].from
             b == image.iats[m].from
  <2>1. a \in Nat /\ b \in Nat
    BY <1>5
  <2>2. CASE a <= b
    <3>1. b \in Cells(image.iats[n]) /\ b \in Cells(image.iats[m])
      BY <1>5, <1>6, <2>2 DEF Cells
    <3>. QED
      BY <1>3, <1>6, <3>1
  <2>3. CASE b <= a
    <3>1. a \in Cells(image.iats[n]) /\ a \in Cells(image.iats[m])
      BY <1>5, <1>6, <2>3 DEF Cells
    <3>. QED
      BY <1>3, <1>6, <3>1
  <2>. QED
    BY <2>1, <2>2, <2>3
<1>7. \A n, m \in DOMAIN image.iats :
         n # m => \/ image.iats[n].to <= image.iats[m].from
                  \/ image.iats[m].to <= image.iats[n].from
  BY <1>5, <1>6
<1>. QED
  BY <1>4, <1>5, <1>7

\* The hull of the import cells covers each of them.
LEMMA HullCovers ==
  ASSUME image \in Images
  PROVE  /\ IatDirectory.from \in Nat /\ IatDirectory.to \in Nat
         /\ \A c \in IatCells : c \in Cells(IatDirectory)
<1> DEFINE I == DOMAIN image.iats
           from(i) == image.iats[i].from
           until(i) == image.iats[i].to
           First(i) == \A j \in I : image.iats[i].from <= image.iats[j].from
           Final(i) == \A j \in I : image.iats[j].from <= image.iats[i].from
           S == {from(i) : i \in I}
           f == CHOOSE i \in I : First(i)
           g == CHOOSE i \in I : Final(i)
<1>1. /\ I # {}
      /\ \A n \in I : from(n) \in Nat /\ until(n) \in Nat /\ from(n) < until(n) /\ until(n) <= image.sizeOfImage
      /\ \A n, m \in I : n # m => until(n) <= from(m) \/ until(m) <= from(n)
  BY IatIs
<1>2. image.sizeOfImage \in Nat
  BY ImageIs
<1>3. S # {} /\ S \in SUBSET Nat /\ S \in SUBSET (0 .. image.sizeOfImage)
  <2>1. \A n \in I : from(n) \in 0 .. image.sizeOfImage
    BY <1>1, <1>2
  <2>2. S \subseteq 0 .. image.sizeOfImage
    BY <2>1
  <2>3. S \subseteq Nat
    BY <1>1
  <2>4. S # {}
    BY <1>1
  <2>. QED
    BY <2>2, <2>3, <2>4
<1>4. PICK x \in S : \A y \in S : x <= y
  BY <1>3, LeastElement
<1>5. PICK a \in I : from(a) = x
  BY <1>4
<1>6. First(a)
  BY <1>4, <1>5
<1>7. f \in I /\ First(f)
  BY <1>6
<1>8. Greatest(S) \in S /\ \A y \in S : y <= Greatest(S)
  BY <1>2, <1>3, GreatestElement
<1>9. PICK b \in I : from(b) = Greatest(S)
  BY <1>8
<1>10. Final(b)
  BY <1>8, <1>9
<1>11. g \in I /\ Final(g)
  BY <1>10
<1>12. IatDirectory = [from |-> from(f), to |-> until(g)]
  BY DEF IatDirectory
<1>. HIDE DEF f, g, S
<1>13. \A i \in I : from(f) <= from(i) /\ until(i) <= until(g)
  <2>1. SUFFICES ASSUME NEW i \in I
                 PROVE  from(f) <= from(i) /\ until(i) <= until(g)
    OBVIOUS
  <2>2. from(f) <= from(i) /\ from(i) <= from(g)
    BY <1>7, <1>11
  <2>3. i = g \/ until(i) <= from(g) \/ until(g) <= from(i)
    BY <1>1, <1>11
  <2>. QED
    BY <1>1, <1>11, <2>2, <2>3
<1>14. ASSUME NEW c \in IatCells
       PROVE  c \in Cells(IatDirectory)
  <2>1. PICK i \in I : c \in Cells(image.iats[i])
    BY DEF IatCells
  <2>2. c \in from(i) .. until(i) - 1
    BY <2>1 DEF Cells
  <2>3. c \in from(f) .. until(g) - 1
    BY <1>1, <1>7, <1>11, <1>13, <2>2
  <2>. QED
    BY <1>12, <2>3 DEF Cells
<1>. QED
  BY <1>1, <1>7, <1>11, <1>12, <1>14

\* What the profile clears is a part of what is found.
LEMMA StaleIsFound ==
  Stale \subseteq image.stale
BY DEF Stale, Candidates

\* The quotient of a division is not larger than what is divided.
LEMMA QuotientIsSmaller ==
  ASSUME NEW a \in Nat \ {0}, NEW n \in Nat
  PROVE  n \div a \in 0 .. n
<1>1. n \div a \in Nat /\ n = a * (n \div a) + (n % a) /\ n % a \in Nat
  OBVIOUS
<1>2. \A q \in Nat, r \in Nat : q <= a * q + r
  OBVIOUS
<1>. QED
  BY <1>1, <1>2

\* The length of a canonical stream is a number.
LEMMA PayloadLengthIs ==
  ASSUME NEW n \in Nat, NEW entries \in SUBSET (0 .. n)
  PROVE  PayloadLength(entries) \in Nat
<1>1. IsFiniteSet(0 .. n)
  BY FS_Interval
<1>2. IsFiniteSet(entries)
  BY <1>1, FS_Subset
<1>3. {Page(c) : c \in entries} \subseteq 0 .. n
  <2>1. \A c \in 0 .. n : c \div SectionAlignment \in 0 .. n
    BY AlignmentsAre, QuotientIsSmaller
  <2>. QED
    BY <2>1 DEF Page
<1>4. IsFiniteSet({Page(c) : c \in entries})
  BY <1>1, <1>3, FS_Subset
<1>5. IsFiniteSet({c \in entries : SlotsBefore(entries, c) % 2 = 0})
  BY <1>2, FS_Subset
<1>. QED
  BY <1>4, <1>5, FS_CardinalityType DEF PayloadLength

\* What is read of an image is typed.
LEMMA ReadIs ==
  ASSUME image \in Images
  PROVE  /\ image.cells \in [0 .. image.sizeOfImage - 1 -> Values]
         /\ image.directories \subseteq DirectoryTable
         /\ image.declared \in Streams(0 .. image.sizeOfImage - 1)
         /\ image.producers \in Seq(Streams(0 .. image.sizeOfImage - 1))
         /\ image.export \in Ranges
         /\ image.modules \in Seq(STRING)
BY ImagesAreTyped DEF IsRead, DirectoryTable

\* A stream that is trusted is one of the image, or none.
LEMMA SelectedIs ==
  ASSUME image \in Images
  PROVE  SelectStream(image, mapped).stream \in Streams(0 .. image.sizeOfImage - 1)
<1> DEFINE declared == image.declared
           found == Producers(image, mapped)
           T == Streams(0 .. image.sizeOfImage - 1)
<1>1. declared \in T /\ image.producers \in Seq(T)
  BY ReadIs
<1>2. NoStream \in T
  BY DEF NoStream, NoRange, Streams, Ranges
<1>3. ASSUME found # {}
      PROVE  image.producers[FirstOf(found)] \in T
  <2>1. found \subseteq DOMAIN image.producers
    BY DEF Producers
  <2>2. DOMAIN image.producers \subseteq Nat
    BY <1>1
  <2>3. found \in SUBSET Nat
    BY <2>1, <2>2
  <2>. HIDE DEF found
  <2>4. \E i \in found : \A j \in found : i <= j
    BY <1>3, <2>3, LeastElement
  <2>5. FirstOf(found) \in found
    BY <2>4 DEF FirstOf
  <2>. QED
    BY <1>1, <2>1, <2>5
<1>. HIDE DEF T, declared, found
<1>4. \A s \in T : Trust(s).stream \in T
  BY DEF Trust
<1>5. Refuse.stream \in T
  BY <1>2 DEF Refuse
<1>6. SelectStream(image, mapped) \in {Refuse, Trust(declared), Trust(NoStream), Trust(image.producers[FirstOf(found)])}
  BY Zenon DEF SelectStream, declared, found
<1>7. SelectStream(image, mapped) = Trust(image.producers[FirstOf(found)])
        => \/ found # {} \/ SelectStream(image, mapped) \in {Refuse, Trust(declared), Trust(NoStream)}
  BY Zenon DEF SelectStream, declared, found
<1>. QED
  BY <1>1, <1>2, <1>3, <1>4, <1>5, <1>6, <1>7 DEF T

\* The canonical slots lie in the image.
LEMMA EntriesAre ==
  ASSUME image \in Images
  PROVE  LET stream == SelectStream(image, mapped).stream
         IN  /\ Entries(image, stream) \subseteq 0 .. image.sizeOfImage - 1
             /\ stream.range \in Ranges
             /\ PayloadLength(Entries(image, stream)) \in Nat
<1> DEFINE stream == SelectStream(image, mapped).stream
           positions == 0 .. image.sizeOfImage - 1
<1>1. stream \in Streams(positions) /\ image.declared \in Streams(positions)
  BY SelectedIs, ReadIs
<1>. HIDE DEF stream
<1>2. stream.range \in Ranges /\ stream.effective \subseteq positions /\ image.declared.effective \subseteq positions
  BY <1>1 DEF Streams
<1>3. Entries(image, stream) \subseteq positions
  BY <1>2 DEF Entries, Restored
<1>4. image.sizeOfImage \in Nat
  BY ImageIs
<1>5. Entries(image, stream) \subseteq 0 .. image.sizeOfImage
  BY <1>3, <1>4
<1>6. PayloadLength(Entries(image, stream)) \in Nat
  BY <1>4, <1>5, PayloadLengthIs
<1>. QED
  BY <1>2, <1>3, <1>6 DEF stream

\* Trimming leaves a range, and a directory that is retained is a directory.
LEMMA RetainedIs ==
  ASSUME image \in Images, NEW d \in DirectoryTable
  PROVE  Retained(d) \in DirectoryTable
<1>1. d.range \in Ranges /\ d.range.from \in Nat /\ d.range.to \in Nat
  BY DEF DirectoryTable, Ranges
<1>2. Trimmed(d.range) \in Ranges
  <2> DEFINE H == Holds(d.range)
  <2>1. CASE H = {}
    BY <2>1 DEF Trimmed, NoRange, Ranges
  <2>2. CASE H # {}
    <3>1. \A c \in H : c \in Nat /\ d.range.from <= c /\ c < d.range.to
      BY <1>1 DEF Holds, Cells
    <3>. HIDE DEF H
    <3> DEFINE l == CHOOSE c \in H : \A e \in H : c <= e
    <3>2. \E c \in H : \A e \in H : c <= e
      BY <2>2, <3>1, LeastElement
    <3>3. l \in H
      BY <3>2
    <3>4. Trimmed(d.range) = [d.range EXCEPT !.from = l]
      BY <2>2 DEF Trimmed, H
    <3>. HIDE DEF l
    <3>5. l \in Nat /\ l <= d.range.to
      BY <1>1, <3>1, <3>3
    <3>. QED
      BY <1>1, <3>4, <3>5 DEF Ranges
  <2>. QED
    BY <2>1, <2>2
<1>. QED
  BY <1>1, <1>2 DEF Retained, DirectoryTable

\* The export directory, where it is found.
LEMMA ExportIs ==
  ASSUME image \in Images, NEW sections, NEW cells
  PROVE  ExportIn(sections, cells) \in Ranges
BY ReadIs DEF ExportIn, NoRange, Ranges

-----------------------------------------------------------------------------
(***************************************************************************)
(* Each pass keeps the invariant.                                           *)
(***************************************************************************)
\* Sections that were placed stay where they are when what they were placed by does.
LEMMA LayoutStays ==
  ASSUME LayoutInv, UNCHANGED <<image, mapped, directories, layout>>
  PROVE  LayoutInv'
<1>1. RequiredRanges' = RequiredRanges
  BY DEF RequiredRanges
<1>2. \A s : Extent(s)' = Extent(s)
  BY <1>1 DEF Extent, SectionCells
<1>3. Sections' = Sections
  BY DEF Sections
<1>4. \A k : Ends(k)' = Ends(k)
  BY DEF Ends
<1>. QED
  BY <1>2, <1>3, <1>4 DEF LayoutInv

\* Before the first section is placed there is nothing to say.
LEMMA NothingPlaced ==
  ASSUME DataInv', layout' = <<>>
  PROVE  LayoutInv'
<1>1. Len(Sections)' \in Nat
  BY ImageIs DEF DataInv
<1>. QED
  BY <1>1 DEF LayoutInv

\* A file that is not written yet stays as it is.
LEMMA FileStays ==
  ASSUME FileInv, UNCHANGED <<file, pointer>>, pc' \notin {"serialized", "done"}
  PROVE  FileInv'
BY DEF FileInv

\* What the invariant says of the image stays when the image does.
LEMMA ContentStays ==
  ASSUME RebuildInv, UNCHANGED <<image, mapped>>
  PROVE  ContentInv' /\ OnlyLoaderDataChanges'
<1>1. Sections' = Sections
  BY DEF Sections
<1>2. \A c : InSection(c)' = InSection(c)
  BY <1>1 DEF InSection, SectionCells
<1>3. ContentInv'
  BY <1>2 DEF RebuildInv, ContentInv, HoldsInSections
<1>4. ImportCells' = ImportCells
  BY DEF ImportCells, OwnImports, IatCells
<1>5. OnlyLoaderDataChanges'
  BY <1>4 DEF RebuildInv, OnlyLoaderDataChanges
<1>. QED
  BY <1>3, <1>5

\* A rebuild that fails leaves everything as it is.
LEMMA FailKeeps ==
  ASSUME RebuildInv, NEW why, why # "none", Fail(why)
  PROVE  RebuildInv'
<1>. USE DEF Fail
<1>1. DataInv'
  BY DEF RebuildInv, DataInv, Positions
<1>2. ProgressInv'
  BY DEF RebuildInv, ProgressInv
<1>3. LayoutInv'
  BY LayoutStays DEF RebuildInv
<1>4. FileInv'
  BY FileStays DEF RebuildInv
<1>5. ContentInv' /\ OnlyLoaderDataChanges'
  BY ContentStays
<1>. QED
  BY <1>1, <1>2, <1>3, <1>4, <1>5 DEF RebuildInv

\* A pass that writes in sections, or zeros, leaves nothing outside of them.
LEMMA WritingInSections ==
  ASSUME RebuildInv, image' = image, DOMAIN mapped' = DOMAIN mapped,
         \A c \in DOMAIN mapped :
             mapped'[c] # "zero" => mapped[c] # "zero" \/ InSection(c)
  PROVE  ContentInv'
<1>1. \A c : InSection(c)' <=> InSection(c)
  BY DEF InSection, SectionCells, Sections
<1>2. HoldsInSections(mapped) => HoldsInSections(mapped)'
  BY <1>1 DEF HoldsInSections
<1>3. HoldsInSections(image.cells)' => HoldsInSections(image.cells)
  BY <1>1 DEF HoldsInSections
<1>. QED
  BY <1>2, <1>3 DEF RebuildInv, ContentInv

\* The import cells are found backed, and clearing holds nothing anew.
LEMMA ClearKeeps ==
  ASSUME RebuildInv, ClearImports
  PROVE  RebuildInv'
<1>1. CASE ~Backed(Sections, IatDirectory)
  BY <1>1, FailKeeps DEF ClearImports
<1>2. CASE /\ Backed(Sections, IatDirectory)
           /\ image.profile = "EncodedLoader" /\ Stale # {} /\ Competing(Stale)
  BY <1>2, FailKeeps DEF ClearImports
<1>3. CASE /\ Backed(Sections, IatDirectory)
           /\ ~(image.profile = "EncodedLoader" /\ Stale # {} /\ Competing(Stale))
  <2>1. /\ pc = "start" /\ pc' = "cleared"
        /\ mapped' = [c \in DOMAIN mapped |-> IF c \in Cleared THEN "zero" ELSE mapped[c]]
        /\ UNCHANGED <<image, directories, relocations, export, layout, file, pointer, failure>>
    BY <1>3 DEF ClearImports
  <2>2. DataInv /\ mapped = image.cells /\ layout = <<>>
    BY <2>1 DEF RebuildInv, ProgressInv
  <2>3. mapped' \in [0 .. image.sizeOfImage - 1 -> Values]
    <3>1. "zero" \in Values
      BY DEF Values
    <3>. QED
      BY <2>1, <2>2, <3>1 DEF DataInv
  <2>4. DataInv'
    BY <2>1, <2>2, <2>3 DEF DataInv, Positions
  <2>5. ProgressInv'
    <3>1. IatDirectory' = IatDirectory /\ Sections' = Sections
      BY <2>1 DEF IatDirectory, Sections
    <3>2. Backed(Sections, IatDirectory)'
      BY <1>3, <3>1 DEF Backed, SectionCells, Cells
    <3>. QED
      BY <2>1, <2>2, <3>2 DEF ProgressInv
  <2>6. LayoutInv'
    BY <2>1, <2>2, <2>4, NothingPlaced
  <2>7. FileInv'
    BY <2>1, FileStays DEF RebuildInv
  <2>8. ContentInv'
    <3>1. DOMAIN mapped' = DOMAIN mapped
      BY <2>1
    <3>2. \A c \in DOMAIN mapped : mapped'[c] # "zero" => mapped[c] # "zero"
      BY <2>1
    <3>. QED
      BY <2>1, <3>1, <3>2, WritingInSections
  <2>9. OnlyLoaderDataChanges'
    <3>1. Cleared \subseteq ImportCells
      BY StaleIsFound DEF Cleared, ImportCells
    <3>2. ImportCells' = ImportCells
      BY <2>1 DEF ImportCells, OwnImports, IatCells
    <3>. QED
      BY <2>1, <2>2, <3>1, <3>2 DEF OnlyLoaderDataChanges
  <2>. QED
    BY <2>4, <2>5, <2>6, <2>7, <2>8, <2>9 DEF RebuildInv
<1>. QED
  BY <1>1, <1>2, <1>3

\* The linker's layout is adopted as it is.
LEMMA AdoptKeeps ==
  ASSUME RebuildInv, AdoptLinkerLayout
  PROVE  RebuildInv'
<1> DEFINE refused == \E d \in image.directories : d.index = "debug" /\ ~DebugIsBacked(d)
<1>1. CASE refused
  BY <1>1, FailKeeps DEF AdoptLinkerLayout
<1>2. CASE ~refused
  <2>1. /\ pc = "start" /\ pc' = "ready" /\ directories' = image.directories
        /\ UNCHANGED <<image, mapped, relocations, export, layout, file, pointer, failure>>
    BY <1>2 DEF AdoptLinkerLayout
  <2>2. DataInv'
    BY <2>1, ReadIs DEF RebuildInv, DataInv, Positions
  <2>3. layout = <<>>
    BY <2>1 DEF RebuildInv, ProgressInv
  <2>4. ProgressInv'
    BY <2>1, <2>3 DEF ProgressInv
  <2>5. LayoutInv'
    BY <2>1, <2>2, <2>3, NothingPlaced
  <2>6. FileInv'
    BY <2>1, FileStays DEF RebuildInv
  <2>7. ContentInv' /\ OnlyLoaderDataChanges'
    BY <2>1, ContentStays
  <2>. QED
    BY <2>2, <2>4, <2>5, <2>6, <2>7 DEF RebuildInv
<1>. QED
  BY <1>1, <1>2

\* The image is not touched when the directories are read.
LEMMA RecoverKeeps ==
  ASSUME RebuildInv, RecoverDirectories
  PROVE  RebuildInv'
<1>1. CASE \E d \in image.directories : Judged(d) = "refuse"
  BY <1>1, FailKeeps DEF RecoverDirectories
<1>2. CASE ~\E d \in image.directories : Judged(d) = "refuse"
  <2>1. /\ pc = "cleared" /\ pc' = "recovered"
        /\ directories' = { Retained(d) : d \in { e \in image.directories : Judged(e) = "keep" } }
        /\ UNCHANGED <<image, mapped, relocations, export, layout, file, pointer, failure>>
    BY <1>2 DEF RecoverDirectories
  <2>2. DataInv /\ layout = <<>> /\ Backed(Sections, IatDirectory)
    BY <2>1 DEF RebuildInv, ProgressInv
  <2>3. \A d \in image.directories : Retained(d) \in DirectoryTable
    BY <2>2, RetainedIs, ReadIs DEF DataInv
  <2>4. directories' \subseteq DirectoryTable
    BY <2>1, <2>3
  <2>5. DataInv'
    BY <2>1, <2>2, <2>4 DEF DataInv, Positions
  <2>6. ProgressInv'
    <3>1. IatDirectory' = IatDirectory /\ Sections' = Sections
      BY <2>1 DEF IatDirectory, Sections
    <3>2. Backed(Sections, IatDirectory)'
      BY <2>2, <3>1 DEF Backed, SectionCells, Cells
    <3>. QED
      BY <2>1, <2>2, <3>2 DEF ProgressInv
  <2>7. LayoutInv'
    BY <2>1, <2>2, <2>5, NothingPlaced
  <2>8. FileInv'
    BY <2>1, FileStays DEF RebuildInv
  <2>9. ContentInv' /\ OnlyLoaderDataChanges'
    BY <2>1, ContentStays
  <2>. QED
    BY <2>5, <2>6, <2>7, <2>8, <2>9 DEF RebuildInv
<1>. QED
  BY <1>1, <1>2

\* What backs a range holds its cells.
LEMMA BackedIsInSection ==
  ASSUME NEW r, Backed(Sections, r), NEW c \in Cells(r)
  PROVE  InSection(c)
BY DEF Backed, InSection

\* The relocations are written in a section, over cells that are then "reloc".
LEMMA PlaceKeeps ==
  ASSUME RebuildInv, PlaceRelocations
  PROVE  RebuildInv'
<1> DEFINE choice == SelectStream(image, mapped)
           entries == Entries(image, choice.stream)
           length == PayloadLength(entries)
           inPlace == [from |-> choice.stream.range.from,
                       to |-> choice.stream.range.from + length]
           behind == [from |-> GeneratedAt, to |-> GeneratedAt + length]
           refused == ~choice.ok \/ ~EntriesAreValid(image, mapped, choice.stream)
<1>1. CASE refused
  BY <1>1, FailKeeps DEF PlaceRelocations
<1>2. CASE ~refused
  <2>1. /\ pc = "recovered" /\ pc' = "relocated"
        /\ UNCHANGED <<image, directories, export, layout, file, pointer, failure>>
    BY <1>2 DEF PlaceRelocations
  <2>2. \/ relocations' = NoRelocations /\ UNCHANGED mapped
        \/ /\ FitsInPlace(image, choice.stream, length)
           /\ relocations' = [entries |-> entries, directory |-> inPlace, prefix |-> 0]
           /\ mapped' = [c \in DOMAIN mapped |-> IF c \in Cells(inPlace) THEN "reloc" ELSE mapped[c]]
        \/ /\ relocations' = [entries |-> entries, directory |-> behind, prefix |-> length]
           /\ UNCHANGED mapped
    BY <1>2 DEF PlaceRelocations
  <2>3. DataInv /\ layout = <<>> /\ Backed(Sections, IatDirectory)
    BY <2>1 DEF RebuildInv, ProgressInv
  <2>4. /\ entries \subseteq 0 .. image.sizeOfImage - 1 /\ length \in Nat
        /\ choice.stream.range \in Ranges
    BY <2>3, EntriesAre DEF DataInv
  <2>5. GeneratedAt \in Nat /\ image.sizeOfImage \in Nat
    BY <2>3, ImageIs DEF DataInv
  <2>. HIDE DEF choice, entries, length
  <2>6. inPlace \in Ranges /\ behind \in Ranges /\ NoRange \in Ranges
    BY <2>4, <2>5 DEF Ranges, NoRange
  <2>7. entries \subseteq Positions
    BY <2>4, <2>5 DEF Positions
  <2>8. /\ relocations'.entries \subseteq Positions /\ relocations'.directory \in Ranges
        /\ relocations'.prefix \in Nat
    BY <2>2, <2>4, <2>6, <2>7 DEF NoRelocations
  <2>9. mapped' \in [0 .. image.sizeOfImage - 1 -> Values]
    <3>1. "reloc" \in Values
      BY DEF Values
    <3>. QED
      BY <2>2, <2>3, <3>1 DEF DataInv
  <2>10. DataInv'
    BY <2>1, <2>3, <2>8, <2>9 DEF DataInv, Positions
  <2>11. ProgressInv'
    <3>1. IatDirectory' = IatDirectory /\ Sections' = Sections
      BY <2>1 DEF IatDirectory, Sections
    <3>2. Backed(Sections, IatDirectory)'
      BY <2>3, <3>1 DEF Backed, SectionCells, Cells
    <3>. QED
      BY <2>1, <2>3, <3>2 DEF ProgressInv
  <2>12. LayoutInv'
    BY <2>1, <2>3, <2>10, NothingPlaced
  <2>13. FileInv'
    BY <2>1, FileStays DEF RebuildInv
  <2>14. ContentInv' /\ OnlyLoaderDataChanges'
    <3>1. CASE UNCHANGED mapped
      BY <2>1, <3>1, ContentStays
    <3>2. CASE /\ FitsInPlace(image, choice.stream, length)
               /\ mapped' = [c \in DOMAIN mapped |->
                                IF c \in Cells(inPlace) THEN "reloc" ELSE mapped[c]]
      <4>1. Backed(Sections, inPlace)
        BY <3>2 DEF FitsInPlace, Sections
      <4>. HIDE DEF inPlace
      <4>2. \A c \in Cells(inPlace) : InSection(c)
        BY <4>1, BackedIsInSection
      <4>3. /\ DOMAIN mapped' = DOMAIN mapped
            /\ \A c \in DOMAIN mapped : c \notin Cells(inPlace) => mapped'[c] = mapped[c]
        BY <3>2
      <4>4. ContentInv'
        BY <2>1, <4>2, <4>3, WritingInSections
      <4>5. ImportCells' = ImportCells
        BY <2>1 DEF ImportCells, OwnImports, IatCells
      <4>6. OnlyLoaderDataChanges'
        BY <2>1, <3>2, <4>5 DEF RebuildInv, OnlyLoaderDataChanges
      <4>. QED
        BY <4>4, <4>6
    <3>. QED
      BY <2>2, <3>1, <3>2
  <2>. QED
    BY <2>10, <2>11, <2>12, <2>13, <2>14 DEF RebuildInv
<1>. QED
  BY <1>1, <1>2

\* An import cell gets its thunk or the null behind the last; no other cell changes.
LEMMA ImportCellIs ==
  ASSUME image \in Images, NEW c
  PROVE  \/ c \in IatCells /\ ImportCell(c) \in {"zero", "thunk"}
         \/ ImportCell(c) = mapped[c]
<1> DEFINE Null == \E i \in DOMAIN image.iats : c = image.iats[i].to - 1
           Thunk == \E i \in DOMAIN image.iats :
                        c \in Cells(image.iats[i]) /\ c # image.iats[i].to - 1
<1>1. CASE Null
  <2>1. PICK i \in DOMAIN image.iats : c = image.iats[i].to - 1
    BY <1>1
  <2>2. image.iats[i].from \in Nat /\ image.iats[i].to \in Nat /\ image.iats[i].from < image.iats[i].to
    BY IatIs
  <2>3. c \in Cells(image.iats[i])
    BY <2>1, <2>2 DEF Cells
  <2>4. c \in IatCells
    BY <2>3 DEF IatCells
  <2>5. ASSUME NEW j \in DOMAIN image.iats, c \in Cells(image.iats[j])
        PROVE  c = image.iats[j].to - 1
    <3>1. image.iats[j].from \in Nat /\ image.iats[j].to \in Nat
      BY IatIs
    <3>2. image.iats[j].from <= c /\ c < image.iats[j].to
      BY <2>5, <3>1 DEF Cells
    <3>3. i # j => image.iats[i].to <= image.iats[j].from \/ image.iats[j].to <= image.iats[i].from
      BY IatIs
    <3>. QED
      BY <2>1, <2>2, <3>1, <3>2, <3>3
  <2>6. ~Thunk
    BY <2>5
  <2>7. ImportCell(c) = "zero"
    BY <1>1, <2>6, Zenon DEF ImportCell
  <2>. QED
    BY <2>4, <2>7
<1>2. CASE ~Null /\ Thunk
  <2>1. c \in IatCells
    BY <1>2 DEF IatCells
  <2>2. ImportCell(c) = "thunk"
    BY <1>2, Zenon DEF ImportCell
  <2>. QED
    BY <2>1, <2>2
<1>3. CASE ~Null /\ ~Thunk
  <2>1. ImportCell(c) = mapped[c]
    BY <1>3, Zenon DEF ImportCell
  <2>. QED
    BY <2>1
<1>. QED
  BY <1>1, <1>2, <1>3

\* The import cells lie in a section; the export directory is a range of the image.
LEMMA InitializeKeeps ==
  ASSUME RebuildInv, InitializeImports
  PROVE  RebuildInv'
<1>1. /\ pc = "relocated" /\ pc' = "ready" /\ export' = ExportIn(Sections, mapped)
      /\ mapped' = [c \in DOMAIN mapped |-> ImportCell(c)]
      /\ UNCHANGED <<image, directories, relocations, layout, file, pointer, failure>>
  BY DEF InitializeImports
<1>2. DataInv /\ layout = <<>> /\ Backed(Sections, IatDirectory)
  BY <1>1 DEF RebuildInv, ProgressInv
<1>3. image \in Images /\ mapped \in [0 .. image.sizeOfImage - 1 -> Values]
  BY <1>2 DEF DataInv
<1>4. \A c \in DOMAIN mapped : \/ c \in IatCells /\ mapped'[c] \in {"zero", "thunk"}
                               \/ mapped'[c] = mapped[c]
  BY <1>1, <1>3, ImportCellIs
<1>5. mapped' \in [0 .. image.sizeOfImage - 1 -> Values]
  <2>1. "zero" \in Values /\ "thunk" \in Values
    BY DEF Values
  <2>2. \A c \in DOMAIN mapped : ImportCell(c) \in Values
    BY <1>3, <2>1, ImportCellIs
  <2>. QED
    BY <1>1, <1>3, <2>2
<1>6. DataInv'
  <2>1. export' \in Ranges
    BY <1>1, <1>3, ExportIs
  <2>. QED
    BY <1>1, <1>2, <1>5, <2>1 DEF DataInv, Positions
<1>7. ProgressInv'
  BY <1>1, <1>2 DEF ProgressInv
<1>8. LayoutInv'
  BY <1>1, <1>2, <1>6, NothingPlaced
<1>9. FileInv'
  BY <1>1, FileStays DEF RebuildInv
<1>10. ContentInv'
  <2>1. \A c \in IatCells : InSection(c)
    BY <1>2, <1>3, HullCovers, BackedIsInSection
  <2>2. DOMAIN mapped' = DOMAIN mapped
    BY <1>1
  <2>3. \A c \in DOMAIN mapped : mapped'[c] # "zero" => mapped[c] # "zero" \/ InSection(c)
    BY <1>4, <2>1
  <2>. QED
    BY <1>1, <2>2, <2>3, WritingInSections
<1>11. OnlyLoaderDataChanges'
  <2>1. ImportCells' = ImportCells
    BY <1>1 DEF ImportCells, OwnImports, IatCells
  <2>2. IatCells \subseteq ImportCells
    BY DEF ImportCells
  <2>3. \A c \in DOMAIN mapped : mapped'[c] # image.cells[c] =>
            c \in ImportCells \/ mapped'[c] = "reloc"
    BY <1>4, <2>2 DEF RebuildInv, OnlyLoaderDataChanges
  <2>. QED
    BY <1>1, <2>1, <2>3 DEF OnlyLoaderDataChanges
<1>. QED
  BY <1>6, <1>7, <1>8, <1>9, <1>10, <1>11 DEF RebuildInv

\* Where a section is placed: behind the headers, or behind the one placed before it.
LEMMA PlaceIs ==
  ASSUME DataInv, LayoutInv, Len(layout) < Len(Sections)
  PROVE  LET n == Len(layout) + 1
             s == Sections[n]
             at == IF layout = <<>> THEN image.sizeOfHeaders ELSE Ends(Len(layout))
             placed == [start |-> s.start, length |-> Larger(s.virtual, s.raw), at |-> at,
                        raw |-> AlignUp(Extent(s), FileAlignment)]
         IN  /\ n \in DOMAIN Sections
             /\ Place(layout, s) = Append(layout, placed)
             /\ placed \in PlacedTable
             /\ at % FileAlignment = 0 /\ image.sizeOfHeaders <= at
<1> DEFINE n == Len(layout) + 1
           s == Sections[n]
           at == IF layout = <<>> THEN image.sizeOfHeaders ELSE Ends(Len(layout))
           raw == AlignUp(Extent(s), FileAlignment)
<1>1. image \in Images /\ layout \in Seq(PlacedTable)
  BY DEF DataInv, LayoutInv
<1>2. /\ image.sizeOfHeaders \in Nat /\ image.sizeOfHeaders % FileAlignment = 0
      /\ FileAlignment \in Nat \ {0}
  BY <1>1, ImageIs, AlignmentsAre
<1>3. n \in DOMAIN Sections
  BY <1>1, ImageIs
<1>4. s.start \in Nat /\ Larger(s.virtual, s.raw) \in Nat
  BY <1>1, <1>3, SectionIs
<1>5. Extent(s) \in 0 .. Larger(s.virtual, s.raw)
  BY <1>1, <1>3, ExtentIs
<1>6. raw \in Nat
  BY <1>1, <1>3, <1>5, RoomForRaw
<1>7. AlignUp(image.sizeOfHeaders, FileAlignment) = image.sizeOfHeaders
  <2>1. image.sizeOfHeaders <= AlignUp(image.sizeOfHeaders, FileAlignment)
    BY <1>2, AlignedUp
  <2>2. \A m \in Nat : m % FileAlignment = 0 /\ image.sizeOfHeaders <= m
            => AlignUp(image.sizeOfHeaders, FileAlignment) <= m
    BY <1>2, AlignedUp
  <2>3. AlignUp(image.sizeOfHeaders, FileAlignment) <= image.sizeOfHeaders
    BY <1>2, <2>2
  <2>4. AlignUp(image.sizeOfHeaders, FileAlignment) \in Nat
    BY <1>2, AlignedUp
  <2>. QED
    BY <1>2, <2>1, <2>3, <2>4
<1>8. ASSUME layout # <<>>
      PROVE  /\ Last(layout).at + Last(layout).raw = Ends(Len(layout))
             /\ Ends(Len(layout)) \in Nat /\ Ends(Len(layout)) % FileAlignment = 0
             /\ image.sizeOfHeaders <= Ends(Len(layout))
  <2>1. Len(layout) \in 1 .. Len(layout) /\ Last(layout) = layout[Len(layout)]
    BY <1>1, <1>8 DEF Last
  <2>2. layout[Len(layout)] \in PlacedTable
    BY <1>1, <2>1
  <2> DEFINE k == Len(layout)
  <2>3. /\ layout[k].raw = AlignUp(Extent(Sections[k]), FileAlignment)
        /\ layout[k].at % FileAlignment = 0 /\ image.sizeOfHeaders <= layout[k].at
    BY <2>1 DEF LayoutInv
  <2>4. k \in DOMAIN Sections
    BY <1>1, <2>1, ImageIs
  <2>5. Extent(Sections[k]) \in 0 .. Larger(Sections[k].virtual, Sections[k].raw)
    BY <1>1, <2>4, ExtentIs
  <2>6. layout[k].raw % FileAlignment = 0
    BY <1>1, <2>3, <2>4, <2>5, RoomForRaw
  <2>7. layout[k].at \in Nat /\ layout[k].raw \in Nat
    BY <2>2 DEF PlacedTable
  <2>8. Ends(k) % FileAlignment = 0
    BY <1>2, <2>3, <2>6, <2>7, MultiplesAdd DEF Ends
  <2>. QED
    BY <1>2, <2>1, <2>3, <2>7, <2>8 DEF Ends
<1>9. /\ at = IF layout = <<>> THEN AlignUp(image.sizeOfHeaders, FileAlignment)
              ELSE Last(layout).at + Last(layout).raw
      /\ at \in Nat /\ at % FileAlignment = 0 /\ image.sizeOfHeaders <= at
  <2>1. CASE layout = <<>>
    BY <1>2, <1>7, <2>1
  <2>2. CASE layout # <<>>
    BY <1>8, <2>2
  <2>. QED
    BY <2>1, <2>2
<1>10. Place(layout, s) = Append(layout, [start |-> s.start, length |-> Larger(s.virtual, s.raw),
                                          at |-> at, raw |-> raw])
  BY <1>9, Zenon DEF Place
<1>11. [start |-> s.start, length |-> Larger(s.virtual, s.raw), at |-> at, raw |-> raw] \in PlacedTable
  <2>. HIDE DEF at, raw, s
  <2>. QED
    BY <1>4, <1>6, <1>9 DEF PlacedTable
<1>. QED
  BY <1>3, <1>9, <1>10, <1>11

\* A section is placed behind the others, and they stay where they are.
LEMMA CompactKeeps ==
  ASSUME RebuildInv, CompactSection
  PROVE  RebuildInv'
<1>1. CASE (~image.pogo /\ ~image.hasRoom) \/ \E r \in RequiredRanges : ~InSections(Cells(r))
  BY <1>1, FailKeeps DEF CompactSection
<1>2. CASE /\ ~(~image.pogo /\ ~image.hasRoom)
           /\ ~\E r \in RequiredRanges : ~InSections(Cells(r))
           /\ Sections[Len(layout) + 1].start > image.sizeOfImage
  BY <1>2, FailKeeps DEF CompactSection
<1>3. CASE /\ ~(~image.pogo /\ ~image.hasRoom)
           /\ ~\E r \in RequiredRanges : ~InSections(Cells(r))
           /\ ~(Sections[Len(layout) + 1].start > image.sizeOfImage)
  <2> DEFINE n == Len(layout) + 1
             s == Sections[n]
             at == IF layout = <<>> THEN image.sizeOfHeaders ELSE Ends(Len(layout))
             placed == [start |-> s.start, length |-> Larger(s.virtual, s.raw), at |-> at,
                        raw |-> AlignUp(Extent(s), FileAlignment)]
  <2>1. /\ pc = "ready" /\ Len(layout) < Len(Sections) /\ layout' = Place(layout, s)
        /\ ~(s.start > image.sizeOfImage)
        /\ UNCHANGED <<image, pc, mapped, directories, relocations, export, file, pointer,
                       failure>>
    BY <1>3 DEF CompactSection
  <2>2. DataInv /\ LayoutInv /\ image \in Images /\ layout \in Seq(PlacedTable)
    BY DEF RebuildInv, DataInv, LayoutInv
  <2>3. /\ n \in DOMAIN Sections /\ layout' = Append(layout, placed) /\ placed \in PlacedTable
        /\ at % FileAlignment = 0 /\ image.sizeOfHeaders <= at
    BY <2>1, <2>2, PlaceIs
  <2>4. DataInv'
    BY <2>1, <2>2 DEF DataInv, Positions
  <2>5. ProgressInv'
    BY <2>1 DEF ProgressInv
  <2>6. LayoutInv'
    <3>1. RequiredRanges' = RequiredRanges
      BY <2>1 DEF RequiredRanges
    <3>2. \A k : Extent(Sections[k])' = Extent(Sections[k])
      BY <2>1, <3>1 DEF Extent, SectionCells, Sections
    <3>3. Sections' = Sections
      BY <2>1 DEF Sections
    <3>4. Len(Sections) \in Nat /\ DOMAIN Sections = 1 .. Len(Sections) /\ Len(layout) \in Nat
      BY <2>2, ImageIs
    <3>5. /\ placed.start = s.start /\ placed.length = Larger(s.virtual, s.raw) /\ placed.at = at
          /\ placed.raw = AlignUp(Extent(s), FileAlignment)
      OBVIOUS
    <3>6. /\ placed.start \in Nat /\ placed.at \in Nat /\ placed.raw \in Nat
      BY <2>3 DEF PlacedTable
    <3> DEFINE end(k) == layout'[k].at + layout'[k].raw
    <3>. HIDE DEF placed, at
    <3>7. /\ layout' \in Seq(PlacedTable) /\ Len(layout') = n /\ layout'[n] = placed
          /\ \A k \in 1 .. Len(layout) : layout'[k] = layout[k]
          /\ layout' # <<>>
      <4>1. /\ layout' \in Seq(PlacedTable) /\ Len(layout') = n /\ layout'[n] = placed
            /\ \A k \in 1 .. Len(layout) : layout'[k] = layout[k]
        BY <2>2, <2>3
      <4>. QED
        BY <3>4, <4>1
    <3>8. ASSUME NEW k \in 1 .. n
          PROVE  /\ layout'[k].start = Sections[k].start
                 /\ layout'[k].length = Larger(Sections[k].virtual, Sections[k].raw)
                 /\ layout'[k].raw = AlignUp(Extent(Sections[k]), FileAlignment)
                 /\ layout'[k].at % FileAlignment = 0
                 /\ image.sizeOfHeaders <= layout'[k].at /\ layout'[k].start <= image.sizeOfImage
      <4>1. CASE k = n
        <5>1. s.start <= image.sizeOfImage
          <6>1. s.start \in Nat /\ image.sizeOfImage \in Nat
            BY <2>2, <2>3, SectionIs, ImageIs
          <6>. QED
            BY <2>1, <6>1
        <5>. QED
          BY <2>3, <3>5, <3>7, <4>1, <5>1
      <4>2. CASE k # n
        <5>1. k \in 1 .. Len(layout) /\ layout'[k] = layout[k]
          BY <3>4, <3>7, <4>2
        <5>. QED
          BY <2>2, <5>1 DEF LayoutInv
      <4>. QED
        BY <4>1, <4>2
    <3>9. \A k \in 1 .. Len(layout) :
             /\ layout[k].at \in Nat /\ layout[k].raw \in Nat
             /\ Ends(k) = layout[k].at + layout[k].raw /\ end(k) = Ends(k)
             /\ Ends(k) \in Nat /\ layout[k].at <= Ends(k)
      <4>1. \A k \in 1 .. Len(layout) : layout[k] \in PlacedTable
        BY <2>2
      <4>2. \A k \in 1 .. Len(layout) :
               /\ layout[k].at \in Nat /\ layout[k].raw \in Nat
               /\ Ends(k) = layout[k].at + layout[k].raw
        BY <4>1 DEF PlacedTable, Ends
      <4>3. \A k \in 1 .. Len(layout) : end(k) = Ends(k)
        BY <3>7, <4>2
      <4>4. \A k \in 1 .. Len(layout) : Ends(k) \in Nat /\ layout[k].at <= Ends(k)
        BY <4>2
      <4>. QED
        BY <4>2, <4>3, <4>4
    <3>10. end(n) = at + placed.raw
      BY <3>5, <3>7
    <3>11. \A j \in 1 .. Len(layout) : Ends(j) <= at
      <4>1. SUFFICES ASSUME NEW j \in 1 .. Len(layout)
                     PROVE  Ends(j) <= at
        OBVIOUS
      <4>2. at = Ends(Len(layout)) /\ Len(layout) \in 1 .. Len(layout)
        BY <3>4 DEF at
      <4>3. CASE j = Len(layout)
        BY <3>9, <4>2, <4>3
      <4>4. CASE j # Len(layout)
        <5>1. j < Len(layout)
          BY <3>4, <4>4
        <5>2. Ends(j) <= layout[Len(layout)].at
          BY <2>2, <4>2, <5>1 DEF LayoutInv
        <5>3. layout[Len(layout)].at <= Ends(Len(layout))
          BY <3>9, <4>2
        <5>4. Ends(j) \in Nat /\ layout[Len(layout)].at \in Nat /\ Ends(Len(layout)) \in Nat
          BY <3>9, <4>2
        <5>. QED
          BY <4>2, <5>2, <5>3, <5>4
      <4>. QED
        BY <4>3, <4>4
    <3>12. ASSUME NEW j \in 1 .. n, NEW k \in 1 .. n, j < k
           PROVE  end(j) <= layout'[k].at
      <4>1. j \in 1 .. Len(layout) /\ end(j) = Ends(j)
        BY <3>4, <3>9, <3>12
      <4>2. CASE k = n
        BY <3>5, <3>7, <3>11, <4>1, <4>2
      <4>3. CASE k # n
        <5>1. k \in 1 .. Len(layout) /\ layout'[k] = layout[k]
          BY <3>4, <3>7, <4>3
        <5>. QED
          BY <2>2, <3>12, <4>1, <5>1 DEF LayoutInv
      <4>. QED
        BY <4>2, <4>3
    <3>13. ASSUME NEW p \in Nat, image.sizeOfHeaders <= p, p < end(n)
           PROVE  \E k \in 1 .. n : layout'[k].at <= p /\ p < end(k)
      <4>1. CASE at <= p
        <5>1. n \in 1 .. n
          BY <3>4
        <5>2. layout'[n].at = at
          BY <3>5, <3>7
        <5>. QED
          BY <3>13, <4>1, <5>1, <5>2
      <4>2. CASE ~(at <= p)
        <5>1. image.sizeOfHeaders \in Nat
          BY <2>2, ImageIs
        <5>2. layout # <<>> /\ at = Ends(Len(layout))
          BY <3>13, <4>2 DEF at
        <5>3. p < Ends(Len(layout))
          BY <3>5, <3>6, <4>2, <5>2
        <5>4. PICK k \in 1 .. Len(layout) : layout[k].at <= p /\ p < Ends(k)
          BY <2>2, <3>13, <5>2, <5>3 DEF LayoutInv
        <5>5. k \in 1 .. n /\ layout'[k].at <= p /\ p < end(k)
          BY <3>4, <3>7, <3>9, <5>4
        <5>. QED
          BY <5>5
      <4>. QED
        BY <4>1, <4>2
    <3>14. Len(layout') <= Len(Sections)
      BY <2>3, <3>4, <3>7
    <3>. HIDE DEF n, end
    <3>15. \A k \in 1 .. Len(layout') :
              /\ layout'[k].start = Sections'[k].start
              /\ layout'[k].length = Larger(Sections'[k].virtual, Sections'[k].raw)
              /\ layout'[k].raw = AlignUp(Extent(Sections[k])', FileAlignment)
              /\ layout'[k].at % FileAlignment = 0
              /\ image'.sizeOfHeaders <= layout'[k].at /\ layout'[k].start <= image'.sizeOfImage
      BY <2>1, <3>2, <3>3, <3>7, <3>8
    <3>16. \A j, k \in 1 .. Len(layout') : j < k => Ends(j)' <= layout'[k].at
      <4>1. \A k : Ends(k)' = end(k)
        BY DEF Ends, end
      <4>. QED
        BY <3>7, <3>12, <4>1
    <3>17. \A p \in Nat : image'.sizeOfHeaders <= p /\ p < Ends(Len(layout))' =>
               \E k \in 1 .. Len(layout') : layout'[k].at <= p /\ p < Ends(k)'
      <4>1. \A k : Ends(k)' = end(k)
        BY DEF Ends, end
      <4>2. Ends(Len(layout))' = end(n)
        BY <3>7 DEF Ends, end
      <4>. QED
        BY <2>1, <3>7, <3>13, <4>1, <4>2
    <3>. QED
      BY <3>3, <3>7, <3>14, <3>15, <3>16, <3>17 DEF LayoutInv
  <2>7. FileInv'
    BY <2>1, FileStays DEF RebuildInv
  <2>8. ContentInv' /\ OnlyLoaderDataChanges'
    BY <2>1, ContentStays
  <2>. QED
    BY <2>4, <2>5, <2>6, <2>7, <2>8 DEF RebuildInv
<1>. QED
  BY <1>1, <1>2, <1>3

\* A section where it was placed, in the file and in the image.
LEMMA PlacedIs ==
  ASSUME DataInv, LayoutInv, NEW k \in 1 .. Len(layout)
  PROVE  /\ k \in DOMAIN Sections
         /\ layout[k].start \in Nat /\ layout[k].length \in Nat
         /\ layout[k].at \in Nat /\ layout[k].raw \in Nat
         /\ layout[k].start = Sections[k].start
         /\ layout[k].length = Larger(Sections[k].virtual, Sections[k].raw)
         /\ layout[k].raw = AlignUp(Extent(Sections[k]), FileAlignment)
         /\ layout[k].at % FileAlignment = 0 /\ layout[k].raw % FileAlignment = 0
         /\ image.sizeOfHeaders <= layout[k].at
         /\ Ends(k) \in Nat /\ Ends(k) = layout[k].at + layout[k].raw
         /\ layout[k].start + layout[k].raw <= image.sizeOfImage
         /\ layout[k].start + layout[k].length <= image.sizeOfImage
<1>1. image \in Images /\ layout \in Seq(PlacedTable) /\ Len(layout) <= Len(Sections)
  BY DEF DataInv, LayoutInv
<1>2. k \in DOMAIN Sections
  BY <1>1, ImageIs
<1>3. layout[k] \in PlacedTable
  BY <1>1
<1>4. /\ layout[k].start = Sections[k].start
      /\ layout[k].length = Larger(Sections[k].virtual, Sections[k].raw)
      /\ layout[k].raw = AlignUp(Extent(Sections[k]), FileAlignment)
      /\ layout[k].at % FileAlignment = 0
      /\ image.sizeOfHeaders <= layout[k].at /\ layout[k].start <= image.sizeOfImage
  BY DEF LayoutInv
<1>5. Extent(Sections[k]) \in 0 .. Larger(Sections[k].virtual, Sections[k].raw)
  BY <1>1, <1>2, ExtentIs
<1>6. /\ AlignUp(Extent(Sections[k]), FileAlignment) % FileAlignment = 0
      /\ Extent(Sections[k]) = 0 => AlignUp(Extent(Sections[k]), FileAlignment) = 0
      /\ Extent(Sections[k]) # 0 =>
            Sections[k].start + AlignUp(Extent(Sections[k]), FileAlignment) <= image.sizeOfImage
  BY <1>1, <1>2, <1>5, RoomForRaw
<1>7. layout[k].length # 0 => layout[k].start + layout[k].length <= image.sizeOfImage
  BY <1>1, <1>2, <1>4, SectionIs
<1>8. /\ layout[k].start \in Nat /\ layout[k].length \in Nat
      /\ layout[k].at \in Nat /\ layout[k].raw \in Nat
  BY <1>3 DEF PlacedTable
<1>10. /\ layout[k].start + layout[k].raw <= image.sizeOfImage
       /\ layout[k].start + layout[k].length <= image.sizeOfImage
  BY <1>4, <1>6, <1>7, <1>8
<1>9. Ends(k) \in Nat /\ Ends(k) = layout[k].at + layout[k].raw
  BY <1>8 DEF Ends
<1>. QED
  BY <1>2, <1>4, <1>6, <1>8, <1>9, <1>10

\* What one section takes in the image, and in the file, ends before the next one.
LEMMA PlacedInOrder ==
  ASSUME DataInv, LayoutInv, NEW k \in 1 .. Len(layout), NEW m \in 1 .. Len(layout), k < m
  PROVE  /\ Ends(k) <= layout[m].at
         /\ layout[k].start < layout[m].start
         /\ layout[k].start + layout[k].raw <= layout[m].start
         /\ layout[k].start + layout[k].length <= layout[m].start
<1>1. image \in Images
  BY DEF DataInv
<1>2. k \in DOMAIN Sections /\ m \in DOMAIN Sections
  BY PlacedIs
<1>3. /\ layout[k].start = Sections[k].start /\ layout[m].start = Sections[m].start
      /\ layout[k].length = Larger(Sections[k].virtual, Sections[k].raw)
      /\ layout[k].raw = AlignUp(Extent(Sections[k]), FileAlignment)
  BY PlacedIs
<1>4. Extent(Sections[k]) \in 0 .. Larger(Sections[k].virtual, Sections[k].raw)
  BY <1>1, <1>2, ExtentIs
<1>5. Sections[k].start + AlignUp(Extent(Sections[k]), FileAlignment) <= Sections[m].start
  BY <1>1, <1>2, <1>4, RoomForRaw
<1>6. IsLaidOut(image)
  BY <1>1, ImagesAreTyped
<1>7. /\ Sections[k].start < Sections[m].start
      /\ Sections[k].start + Larger(Sections[k].virtual, Sections[k].raw) <= Sections[m].start
  BY <1>2, <1>6 DEF IsLaidOut, Sections
<1>8. Ends(k) <= layout[m].at
  BY DEF LayoutInv
<1>. QED
  BY <1>3, <1>5, <1>7, <1>8

\* The sections end where the last one does.
LEMMA FileEndIs ==
  ASSUME DataInv, LayoutInv, Len(layout) = Len(Sections)
  PROVE  /\ Len(layout) \in Nat \ {0} /\ layout # <<>> /\ DOMAIN layout = 1 .. Len(layout)
         /\ DOMAIN Sections = 1 .. Len(layout)
         /\ FileEnd(layout) = Ends(Len(layout)) /\ FileEnd(layout) \in Nat
         /\ FileEnd(layout) % FileAlignment = 0
         /\ image.sizeOfHeaders <= FileEnd(layout)
         /\ \A k \in 1 .. Len(layout) : Ends(k) <= FileEnd(layout)
<1>1. image \in Images /\ layout \in Seq(PlacedTable)
  BY DEF DataInv, LayoutInv
<1> DEFINE n == Len(layout)
<1>2. n \in Nat \ {0} /\ DOMAIN layout = 1 .. n /\ DOMAIN Sections = 1 .. n
  BY <1>1, ImageIs
<1>3. layout # <<>> /\ n \in 1 .. n
  BY <1>2
<1>4. FileEnd(layout) = Ends(n)
  BY DEF FileEnd, Last, Ends
<1>5. /\ Ends(n) \in Nat /\ Ends(n) = layout[n].at + layout[n].raw
      /\ layout[n].at \in Nat /\ layout[n].raw \in Nat
      /\ layout[n].at % FileAlignment = 0 /\ layout[n].raw % FileAlignment = 0
      /\ image.sizeOfHeaders <= layout[n].at
  BY <1>3, PlacedIs
<1>6. Ends(n) % FileAlignment = 0
  BY <1>5, AlignmentsAre, MultiplesAdd
<1>7. image.sizeOfHeaders <= Ends(n)
  BY <1>1, <1>5, ImageIs
<1>. HIDE DEF n
<1>8. ASSUME NEW k \in 1 .. n
      PROVE  Ends(k) <= Ends(n)
  <2>1. CASE k = n
    BY <1>5, <2>1
  <2>2. CASE k # n
    <3>1. k < n
      BY <1>2, <2>2
    <3>2. Ends(k) <= layout[n].at
      BY <1>3, <3>1, PlacedInOrder DEF n
    <3>3. Ends(k) \in Nat
      BY PlacedIs DEF n
    <3>. QED
      BY <1>5, <3>2, <3>3
  <2>. QED
    BY <2>1, <2>2
<1>. QED
  BY <1>2, <1>3, <1>4, <1>5, <1>6, <1>7, <1>8 DEF n

\* What is generated has a length, and holds relocations and imports.
LEMMA GeneratedIs ==
  ASSUME DataInv
  PROVE  /\ GeneratedLength \in Nat
         /\ ~image.pogo => relocations.prefix <= GeneratedLength
         /\ \A k \in Nat : k < GeneratedLength => Generated[k] \in {"reloc", "import"}
         /\ AlignUp(GeneratedLength, FileAlignment) \in Nat
         /\ GeneratedLength <= AlignUp(GeneratedLength, FileAlignment)
         /\ AlignUp(GeneratedLength, FileAlignment) % FileAlignment = 0
         /\ AlignUp(GeneratedLength, SectionAlignment) \in Nat
         /\ AlignUp(GeneratedLength, FileAlignment) <= AlignUp(GeneratedLength, SectionAlignment)
<1>1. image \in Images /\ relocations.prefix \in Nat
  BY DEF DataInv
<1>2. Cardinality(IatCells) \in Nat
  <2>1. IatDirectory.from \in Nat /\ IatDirectory.to \in Nat
        /\ IatCells \subseteq Cells(IatDirectory)
    BY <1>1, HullCovers
  <2>2. IsFiniteSet(Cells(IatDirectory))
    <3>1. IatDirectory.to - 1 \in Int /\ IatDirectory.from \in Int
      BY <2>1
    <3>. QED
      BY <3>1, FS_Interval DEF Cells
  <2>. QED
    BY <2>1, <2>2, FS_Subset, FS_CardinalityType
<1>3. Len(image.modules) \in Nat
  BY <1>1, ReadIs
<1>4. GeneratedLength \in Nat /\ (~image.pogo => relocations.prefix <= GeneratedLength)
  BY <1>1, <1>2, <1>3 DEF GeneratedLength, ImportLength
<1>5. \A k \in Nat : k < GeneratedLength => Generated[k] \in {"reloc", "import"}
  BY <1>4 DEF Generated
<1>6. /\ AlignUp(GeneratedLength, FileAlignment) \in Nat
      /\ GeneratedLength <= AlignUp(GeneratedLength, FileAlignment)
      /\ AlignUp(GeneratedLength, FileAlignment) % FileAlignment = 0
      /\ \A m \in Nat : m % FileAlignment = 0 /\ GeneratedLength <= m
            => AlignUp(GeneratedLength, FileAlignment) <= m
  BY <1>4, AlignmentsAre, AlignedUp
<1>7. /\ AlignUp(GeneratedLength, SectionAlignment) \in Nat
      /\ GeneratedLength <= AlignUp(GeneratedLength, SectionAlignment)
      /\ AlignUp(GeneratedLength, SectionAlignment) % SectionAlignment = 0
  BY <1>4, AlignmentsAre, AlignedUp
<1>8. AlignUp(GeneratedLength, SectionAlignment) % FileAlignment = 0
  BY <1>7, AlignmentsAre
<1>9. AlignUp(GeneratedLength, FileAlignment) <= AlignUp(GeneratedLength, SectionAlignment)
  BY <1>6, <1>7, <1>8
<1>. QED
  BY <1>4, <1>5, <1>6, <1>7, <1>9

\* What the file holds where a section was placed.
LEMMA PlacedCell ==
  ASSUME DataInv, LayoutInv, Len(layout) = Len(Sections),
         NEW i \in 1 .. Len(layout), NEW at \in Nat, layout[i].at <= at, at < Ends(i)
  PROVE  FileCell(layout, at) = IF at - layout[i].at < layout[i].length
                                THEN mapped[layout[i].start + (at - layout[i].at)] ELSE "zero"
<1> DEFINE Here(j) == at \in layout[j].at .. layout[j].at + layout[j].raw - 1
           p == CHOOSE j \in DOMAIN layout : Here(j)
<1>1. \A j \in 1 .. Len(layout) :
         /\ layout[j].at \in Nat /\ layout[j].raw \in Nat
         /\ Ends(j) \in Nat /\ Ends(j) = layout[j].at + layout[j].raw
         /\ image.sizeOfHeaders <= layout[j].at
  BY PlacedIs
<1>2. /\ DOMAIN layout = 1 .. Len(layout) /\ FileEnd(layout) \in Nat
      /\ Ends(i) <= FileEnd(layout)
  BY FileEndIs
<1>3. image.sizeOfHeaders \in Nat
  BY ImageIs DEF DataInv
<1>4. ~(at < image.sizeOfHeaders) /\ ~(at >= FileEnd(layout))
  BY <1>1, <1>2, <1>3
<1>5. Here(i)
  BY <1>1
<1>6. p \in DOMAIN layout /\ Here(p)
  BY <1>2, <1>5
<1>. HIDE DEF p
<1>7. p = i
  <2>1. p \in 1 .. Len(layout) /\ layout[p].at <= at /\ at < Ends(p)
    <3>1. p \in 1 .. Len(layout)
      BY <1>2, <1>6
    <3>2. layout[p].at \in Nat /\ layout[p].raw \in Nat /\ Ends(p) = layout[p].at + layout[p].raw
      BY <1>1, <3>1
    <3>. QED
      BY <1>6, <3>1, <3>2
  <2>2. CASE p < i
    <3>1. Ends(p) <= layout[i].at
      BY <2>1, <2>2, PlacedInOrder
    <3>. QED
      BY <1>1, <2>1, <3>1
  <2>3. CASE i < p
    <3>1. Ends(i) <= layout[p].at
      BY <2>1, <2>3, PlacedInOrder
    <3>. QED
      BY <1>1, <2>1, <3>1
  <2>. QED
    BY <2>1, <2>2, <2>3
<1>8. FileCell(layout, at) = IF at - layout[p].at < layout[p].length
                             THEN mapped[layout[p].start + (at - layout[p].at)] ELSE "zero"
  BY <1>4, Zenon DEF FileCell, p
<1>. QED
  BY <1>7, <1>8

\* All that is written is of a kind.
LEMMA FileIsTyped ==
  ASSUME DataInv, LayoutInv, Len(layout) = Len(Sections),
         NEW at \in 0 .. FileLength(layout) - 1
  PROVE  FileCell(layout, at) \in Values
<1>1. {"header", "reloc", "import", "zero"} \subseteq Values
  BY DEF Values
<1>2. /\ FileEnd(layout) \in Nat /\ FileEnd(layout) = Ends(Len(layout)) /\ layout # <<>>
      /\ image.sizeOfHeaders \in Nat
  BY FileEndIs, ImageIs DEF DataInv
<1>3. at \in Nat
  OBVIOUS
<1>4. CASE at < image.sizeOfHeaders
  BY <1>1, <1>4 DEF FileCell
<1>5. CASE ~(at < image.sizeOfHeaders) /\ at >= FileEnd(layout)
  <2> DEFINE k == at - FileEnd(layout)
  <2>1. k \in Nat
    BY <1>2, <1>3, <1>5
  <2>2. FileCell(layout, at) = IF k < GeneratedLength THEN Generated[k] ELSE "zero"
    BY <1>5, Zenon DEF FileCell
  <2>. HIDE DEF k
  <2>3. k < GeneratedLength => Generated[k] \in {"reloc", "import"}
    BY <2>1, GeneratedIs
  <2>. QED
    BY <1>1, <2>2, <2>3
<1>6. CASE ~(at < image.sizeOfHeaders) /\ ~(at >= FileEnd(layout))
  <2>1. PICK i \in 1 .. Len(layout) : layout[i].at <= at /\ at < Ends(i)
    BY <1>2, <1>3, <1>6 DEF LayoutInv
  <2>2. FileCell(layout, at) = IF at - layout[i].at < layout[i].length
                               THEN mapped[layout[i].start + (at - layout[i].at)] ELSE "zero"
    BY <1>3, <2>1, PlacedCell
  <2>3. /\ layout[i].start \in Nat /\ layout[i].length \in Nat /\ layout[i].at \in Nat
        /\ layout[i].start + layout[i].length <= image.sizeOfImage
    BY PlacedIs
  <2>4. at - layout[i].at < layout[i].length =>
            layout[i].start + (at - layout[i].at) \in 0 .. image.sizeOfImage - 1
    <3>1. image.sizeOfImage \in Nat
      BY ImageIs DEF DataInv
    <3>2. PICK k \in Nat : k = at - layout[i].at
      BY <1>3, <2>1, <2>3
    <3>3. k < layout[i].length => layout[i].start + k \in 0 .. image.sizeOfImage - 1
      BY <2>3, <3>1
    <3>. QED
      BY <3>2, <3>3
  <2>5. mapped \in [0 .. image.sizeOfImage - 1 -> Values]
    BY DEF DataInv
  <2>. QED
    BY <1>1, <2>2, <2>4, <2>5
<1>. QED
  BY <1>4, <1>5, <1>6

\* Where a cell is in the file.
LEMMA FilePositionIs ==
  ASSUME DataInv, LayoutInv, Len(layout) = Len(Sections), NEW c \in Int
  PROVE  FilePosition(layout, c) \in 0 .. FileEnd(layout)
<1> DEFINE Here(j) == c - layout[j].start \in 0 .. layout[j].raw - 1
           p == CHOOSE i \in DOMAIN layout : Here(i)
<1>1. DOMAIN layout = 1 .. Len(layout) /\ FileEnd(layout) \in Nat
  BY FileEndIs
<1>2. CASE \E i \in DOMAIN layout : Here(i)
  <2>1. p \in DOMAIN layout /\ Here(p)
    BY <1>2
  <2>2. FilePosition(layout, c) = layout[p].at + c - layout[p].start
    BY <1>2, Zenon DEF FilePosition
  <2>. HIDE DEF p
  <2>3. /\ layout[p].start \in Nat /\ layout[p].at \in Nat /\ layout[p].raw \in Nat
        /\ Ends(p) = layout[p].at + layout[p].raw
    BY <1>1, <2>1, PlacedIs
  <2>4. Ends(p) <= FileEnd(layout)
    BY <1>1, <2>1, FileEndIs
  <2>5. PICK k \in Nat : k = c - layout[p].start /\ k < layout[p].raw
    BY <2>1, <2>3
  <2>6. FilePosition(layout, c) = layout[p].at + k
    BY <2>2, <2>3, <2>5
  <2>7. layout[p].at + k \in 0 .. FileEnd(layout)
    <3>1. k < layout[p].raw /\ k \in Nat
      BY <2>5
    <3>2. layout[p].at + k < layout[p].at + layout[p].raw
      BY <2>3, <3>1
    <3>3. layout[p].at + layout[p].raw <= FileEnd(layout)
      BY <2>3, <2>4
    <3>4. layout[p].at + k \in Nat /\ layout[p].at + layout[p].raw \in Nat
      BY <2>3, <3>1
    <3>. QED
      BY <1>1, <3>2, <3>3, <3>4
  <2>. QED
    BY <2>6, <2>7
<1>3. CASE ~\E i \in DOMAIN layout : Here(i)
  <2>1. FilePosition(layout, c) = 0
    BY <1>3, Zenon DEF FilePosition
  <2>. QED
    BY <1>1, <2>1
<1>. QED
  BY <1>2, <1>3

\* What a file is spelt from.
LEMMA SpellingStays ==
  ASSUME UNCHANGED <<image, mapped, relocations, layout>>
  PROVE  /\ FileLength(layout)' = FileLength(layout)
         /\ \A at : FileCell(layout, at)' = FileCell(layout, at)
<1>1. GeneratedLength' = GeneratedLength
  BY DEF GeneratedLength, ImportLength, IatCells
<1>2. Generated' = Generated
  BY <1>1 DEF Generated
<1>3. FileEnd(layout)' = FileEnd(layout)
  BY DEF FileEnd
<1>4. FileLength(layout)' = FileLength(layout)
  BY <1>1, <1>3 DEF FileLength
<1>5. \A at : FileCell(layout, at)' = FileCell(layout, at)
  BY <1>1, <1>2, <1>3 DEF FileCell
<1>. QED
  BY <1>4, <1>5

\* The length of the file is where the generated section ends.
LEMMA FileLengthIs ==
  ASSUME DataInv, LayoutInv, Len(layout) = Len(Sections)
  PROVE  /\ FileLength(layout) \in Nat
         /\ FileLength(layout) = FileEnd(layout) + AlignUp(GeneratedLength, FileAlignment)
         /\ FileEnd(layout) <= FileLength(layout)
         /\ Cardinality(0 .. FileLength(layout) - 1) = FileLength(layout)
<1>1. FileEnd(layout) \in Nat /\ AlignUp(GeneratedLength, FileAlignment) \in Nat
  BY FileEndIs, GeneratedIs
<1>2. /\ FileLength(layout) = FileEnd(layout) + AlignUp(GeneratedLength, FileAlignment)
      /\ FileLength(layout) \in Nat /\ FileEnd(layout) <= FileLength(layout)
  BY <1>1 DEF FileLength
<1>3. ASSUME NEW n \in Nat
      PROVE  Cardinality(0 .. n - 1) = n
  <2>1. 0 \in Int /\ n - 1 \in Int
    OBVIOUS
  <2>2. Cardinality(0 .. n - 1) = IF 0 > n - 1 THEN 0 ELSE (n - 1) - 0 + 1
    BY <2>1, FS_Interval
  <2>. QED
    BY <2>2
<1>. QED
  BY <1>2, <1>3

\* The payload of the debug record is a range.
LEMMA DebugDataIs ==
  ASSUME DataInv
  PROVE  DebugData \in Ranges
<1>1. CASE DebugRecords = {}
  BY <1>1 DEF DebugData, NoRange, Ranges
<1>2. CASE DebugRecords # {}
  <2> DEFINE d == CHOOSE e \in DebugRecords : TRUE
  <2>1. d \in DebugRecords
    BY <1>2
  <2>2. d \in DirectoryTable
    BY <2>1 DEF DebugRecords, DataInv
  <2>3. DebugData = d.payload
    BY <1>2 DEF DebugData
  <2>. HIDE DEF d
  <2>. QED
    BY <2>2, <2>3 DEF DirectoryTable
<1>. QED
  BY <1>1, <1>2

\* The file is written from the placed sections.
LEMMA SerializeKeeps ==
  ASSUME RebuildInv, Serialize
  PROVE  RebuildInv'
<1>1. CASE DebugData # NoRange /\ FilePosition(layout, DebugData.from) = 0
  BY <1>1, FailKeeps DEF Serialize
<1>2. CASE ~(DebugData # NoRange /\ FilePosition(layout, DebugData.from) = 0)
  <2>1. /\ pc = "ready" /\ Len(layout) = Len(Sections) /\ pc' = "serialized"
        /\ file' = [at \in 0 .. FileLength(layout) - 1 |-> FileCell(layout, at)]
        /\ pointer' = IF DebugData = NoRange THEN 0 ELSE FilePosition(layout, DebugData.from)
        /\ UNCHANGED <<image, mapped, directories, relocations, export, layout, failure>>
    BY <1>2 DEF Serialize
  <2>2. DataInv /\ LayoutInv
    BY DEF RebuildInv
  <2>3. DataInv'
    BY <2>1, <2>2 DEF DataInv, Positions
  <2>4. ProgressInv'
    <3>1. Sections' = Sections
      BY <2>1 DEF Sections
    <3>. QED
      BY <2>1, <3>1 DEF ProgressInv
  <2>5. LayoutInv'
    BY <2>1, <2>2, LayoutStays
  <2>6. FileInv'
    <3>1. file' = [at \in 0 .. FileLength(layout)' - 1 |-> FileCell(layout, at)']
      BY <2>1, SpellingStays
    <3>2. \A at \in 0 .. FileLength(layout) - 1 : FileCell(layout, at) \in Values
      BY <2>1, <2>2, FileIsTyped
    <3>3. \A at \in DOMAIN file' : file'[at] \in Values
      BY <2>1, <3>2
    <3>4. Cardinality(DOMAIN file') = FileLength(layout)
      BY <2>1, <2>2, FileLengthIs
    <3>5. FileLength(layout) \in Nat /\ FileEnd(layout) \in Nat /\ FileEnd(layout) <= FileLength(layout)
      BY <2>1, <2>2, FileLengthIs, FileEndIs
    <3>6. DebugData.from \in Int
      BY <2>2, DebugDataIs DEF Ranges
    <3>7. FilePosition(layout, DebugData.from) \in 0 .. FileEnd(layout)
      BY <2>1, <2>2, <3>6, FilePositionIs
    <3>8. pointer' \in 0 .. Cardinality(DOMAIN file')
      BY <2>1, <3>4, <3>5, <3>7
    <3>. QED
      BY <3>1, <3>3, <3>8 DEF FileInv
  <2>7. ContentInv' /\ OnlyLoaderDataChanges'
    BY <2>1, ContentStays
  <2>. QED
    BY <2>3, <2>4, <2>5, <2>6, <2>7 DEF RebuildInv
<1>. QED
  BY <1>1, <1>2

\* A step that changes nothing but where the rebuild is, from a written file to the end.
LEMMA FinishKeeps ==
  ASSUME RebuildInv, pc = "serialized", pc' = "done",
         UNCHANGED <<image, mapped, directories, relocations, export, layout, file, pointer,
                     failure>>
  PROVE  RebuildInv'
<1>1. DataInv'
  BY DEF RebuildInv, DataInv, Positions
<1>2. ProgressInv'
  <2>1. Sections' = Sections
    BY DEF Sections
  <2>. QED
    BY <2>1 DEF RebuildInv, ProgressInv
<1>3. LayoutInv'
  BY LayoutStays DEF RebuildInv
<1>4. FileInv'
  <2>1. FileLength(layout)' = FileLength(layout) /\ \A at : FileCell(layout, at)' = FileCell(layout, at)
    BY SpellingStays
  <2>. QED
    BY <2>1 DEF RebuildInv, FileInv
<1>5. ContentInv' /\ OnlyLoaderDataChanges'
  BY ContentStays
<1>. QED
  BY <1>1, <1>2, <1>3, <1>4, <1>5 DEF RebuildInv

\* The verification changes nothing but the verdict.
LEMMA VerifyKeeps ==
  ASSUME RebuildInv, Verify
  PROVE  RebuildInv'
<1>1. \/ \E why \in {"layout", "mapping", "imports", "relocation directory", "export"} : Fail(why)
      \/ /\ pc' = "done"
         /\ UNCHANGED <<image, mapped, directories, relocations, export, layout, file,
                        pointer, failure>>
  BY Zenon DEF Verify
<1>2. CASE \E why \in {"layout", "mapping", "imports", "relocation directory", "export"} : Fail(why)
  BY <1>2, FailKeeps
<1>3. CASE /\ pc' = "done"
           /\ UNCHANGED <<image, mapped, directories, relocations, export, layout, file,
                          pointer, failure>>
  BY <1>3, FinishKeeps DEF Verify
<1>. QED
  BY <1>1, <1>2, <1>3

\* Nothing happens.
LEMMA StutterKeeps ==
  ASSUME RebuildInv, UNCHANGED vars
  PROVE  RebuildInv'
<1>. USE DEF vars
<1>1. DataInv'
  BY DEF RebuildInv, DataInv, Positions
<1>2. ProgressInv'
  <2>1. IatDirectory' = IatDirectory /\ Sections' = Sections
    BY DEF IatDirectory, Sections
  <2>2. Backed(Sections, IatDirectory)' <=> Backed(Sections, IatDirectory)
    BY <2>1 DEF Backed, SectionCells, Cells
  <2>. QED
    BY <2>1, <2>2 DEF RebuildInv, ProgressInv
<1>3. LayoutInv'
  BY LayoutStays DEF RebuildInv
<1>4. FileInv'
  <2>1. FileLength(layout)' = FileLength(layout) /\ \A at : FileCell(layout, at)' = FileCell(layout, at)
    BY SpellingStays
  <2>. QED
    BY <2>1 DEF RebuildInv, FileInv
<1>5. ContentInv' /\ OnlyLoaderDataChanges'
  BY ContentStays
<1>. QED
  BY <1>1, <1>2, <1>3, <1>4, <1>5 DEF RebuildInv

-----------------------------------------------------------------------------
(***************************************************************************)
(* The invariant holds throughout; what is kept is typed, and the passes    *)
(* change loader data alone.                                                *)
(***************************************************************************)
\* Before the first pass.
LEMMA InitInv ==
  Init => RebuildInv
<1>. SUFFICES ASSUME Init PROVE RebuildInv
  OBVIOUS
<1>. USE DEF Init
<1>1. /\ image.cells \in [0 .. image.sizeOfImage - 1 -> Values]
      /\ image.sizeOfImage \in Nat /\ Len(Sections) \in Nat
  BY ReadIs, ImageIs
<1>2. DataInv
  BY <1>1 DEF DataInv, NoRelocations, NoRange, Ranges, Positions
<1>3. ProgressInv
  BY DEF ProgressInv
<1>4. LayoutInv
  BY <1>1 DEF LayoutInv
<1>5. FileInv
  <2>1. DOMAIN file = {}
    OBVIOUS
  <2>2. Cardinality(DOMAIN file) = 0
    BY <2>1, FS_EmptySet
  <2>. QED
    BY <2>1, <2>2 DEF FileInv
<1>6. ContentInv /\ OnlyLoaderDataChanges
  BY DEF ContentInv, OnlyLoaderDataChanges
<1>. QED
  BY <1>2, <1>3, <1>4, <1>5, <1>6 DEF RebuildInv

\* Every step keeps the invariant.
LEMMA NextInv ==
  RebuildInv /\ [Next]_vars => RebuildInv'
<1>. SUFFICES ASSUME RebuildInv, [Next]_vars PROVE RebuildInv'
  OBVIOUS
<1>1. CASE ClearImports
  BY <1>1, ClearKeeps
<1>2. CASE AdoptLinkerLayout
  BY <1>2, AdoptKeeps
<1>3. CASE RecoverDirectories
  BY <1>3, RecoverKeeps
<1>4. CASE PlaceRelocations
  BY <1>4, PlaceKeeps
<1>5. CASE InitializeImports
  BY <1>5, InitializeKeeps
<1>6. CASE CompactSection
  BY <1>6, CompactKeeps
<1>7. CASE Serialize
  BY <1>7, SerializeKeeps
<1>8. CASE Verify
  BY <1>8, VerifyKeeps
<1>9. CASE UNCHANGED vars
  BY <1>9, StutterKeeps
<1>. QED
  BY <1>1, <1>2, <1>3, <1>4, <1>5, <1>6, <1>7, <1>8, <1>9 DEF Next, Stopped

\* The invariant of the rebuild.
THEOREM RebuildIsConsistent == Spec => []RebuildInv
BY InitInv, NextInv, PTL DEF Spec

\* What the passes keep is of its kind, a placed section is no longer than the one it is
\* cut from, and the debug pointer is a position of the file.
THEOREM TypeCorrect == Spec => []TypeOK
<1>1. RebuildInv => TypeOK
  <2>. SUFFICES ASSUME RebuildInv PROVE TypeOK
    OBVIOUS
  <2>1. DataInv /\ LayoutInv /\ FileInv
    BY DEF RebuildInv
  <2>2. \A r \in Ranges : IsRange(r)
    BY DEF Ranges, IsRange
  <2>3. \A d \in directories : IsRange(d.range) /\ IsRange(d.payload)
    BY <2>1, <2>2 DEF DataInv, DirectoryTable
  <2>4. IsRange(relocations.directory) /\ IsRange(export)
    BY <2>1, <2>2 DEF DataInv
  <2>5. layout \in Seq(PlacedTable) /\ DOMAIN layout = 1 .. Len(layout)
    BY <2>1 DEF LayoutInv
  <2>6. ASSUME NEW i \in DOMAIN layout
        PROVE  layout[i].at \in Nat /\ layout[i].raw \in 0 .. AlignUp(layout[i].length, FileAlignment)
    <3>1. /\ i \in DOMAIN Sections /\ layout[i].at \in Nat /\ layout[i].raw \in Nat
          /\ layout[i].length \in Nat
          /\ layout[i].length = Larger(Sections[i].virtual, Sections[i].raw)
          /\ layout[i].raw = AlignUp(Extent(Sections[i]), FileAlignment)
      BY <2>1, <2>5, <2>6, PlacedIs
    <3>2. Extent(Sections[i]) \in 0 .. layout[i].length
      BY <2>1, <3>1, ExtentIs DEF DataInv
    <3>3. /\ AlignUp(layout[i].length, FileAlignment) \in Nat
          /\ layout[i].length <= AlignUp(layout[i].length, FileAlignment)
          /\ AlignUp(layout[i].length, FileAlignment) % FileAlignment = 0
      BY <3>1, AlignmentsAre, AlignedUp
    <3>4. Extent(Sections[i]) \in Nat
          /\ Extent(Sections[i]) <= AlignUp(layout[i].length, FileAlignment)
      BY <3>1, <3>2, <3>3
    <3>5. \A m \in Nat : m % FileAlignment = 0 /\ Extent(Sections[i]) <= m
              => AlignUp(Extent(Sections[i]), FileAlignment) <= m
      BY <3>4, AlignmentsAre, AlignedUp
    <3>6. layout[i].raw <= AlignUp(layout[i].length, FileAlignment)
      BY <3>1, <3>3, <3>4, <3>5
    <3>. QED
      BY <3>1, <3>3, <3>6
  <2>. QED
    BY <2>1, <2>3, <2>4, <2>6 DEF TypeOK, DataInv, LayoutInv, FileInv
<1>. QED
  BY <1>1, RebuildIsConsistent, PTL

\* No pass writes to the image but over import data, or the relocation stream.
THEOREM LoaderDataChangesAlone == Spec => []OnlyLoaderDataChanges
<1>1. RebuildInv => OnlyLoaderDataChanges
  BY DEF RebuildInv
<1>. QED
  BY <1>1, RebuildIsConsistent, PTL

-----------------------------------------------------------------------------
(***************************************************************************)
(* The file holds the image.                                                *)
(***************************************************************************)
Written == RebuildInv /\ SectionsHoldAll /\ pc \in {"serialized", "done"}
Size(i) == Larger(WrittenSections[i].virtual, WrittenSections[i].raw)

\* What is known once the file is written.
LEMMA WrittenInv ==
  ASSUME Written
  PROVE  /\ DataInv /\ LayoutInv /\ image \in Images /\ Len(layout) = Len(Sections)
         /\ file = [at \in 0 .. FileLength(layout) - 1 |-> FileCell(layout, at)]
         /\ HoldsInSections(mapped)
BY DEF Written, RebuildInv, DataInv, ProgressInv, FileInv, ContentInv, SectionsHoldAll

\* The section table of the file: the sections of the image, and what is generated.
LEMMA WrittenIs ==
  ASSUME Written
  PROVE  /\ \A i \in 1 .. Len(layout) :
               /\ i \in DOMAIN WrittenSections /\ WrittenAt(i) = layout[i].at
               /\ WrittenSections[i].start = layout[i].start
               /\ WrittenSections[i].raw = layout[i].raw
               /\ WrittenSections[i].virtual = Sections[i].virtual
         /\ \A i \in DOMAIN WrittenSections :
               \/ i \in 1 .. Len(layout)
               \/ /\ i = Len(layout) + 1 /\ GeneratedLength # 0
                  /\ WrittenSections[i] = GeneratedSection /\ WrittenAt(i) = FileEnd(layout)
         /\ GeneratedLength # 0 => Len(layout) + 1 \in DOMAIN WrittenSections
<1> DEFINE n == Len(layout)
           F == [i \in DOMAIN Sections |-> [Sections[i] EXCEPT !.raw = layout[i].raw]]
           G == IF GeneratedLength = 0 THEN <<>> ELSE <<GeneratedSection>>
<1>1. /\ n \in Nat \ {0} /\ DOMAIN layout = 1 .. n /\ DOMAIN Sections = 1 .. n
      /\ Sections \in Seq(SectionTable)
  BY WrittenInv, FileEndIs, ImageIs
<1>2. \A i \in 1 .. n : layout[i].raw \in Nat /\ layout[i].start = Sections[i].start
  BY WrittenInv, PlacedIs
<1>3. \A i \in 1 .. n : Sections[i] \in SectionTable
  BY <1>1
<1>4. \A i \in 1 .. n : /\ F[i] \in SectionTable /\ F[i].start = layout[i].start
                        /\ F[i].raw = layout[i].raw /\ F[i].virtual = Sections[i].virtual
  BY <1>1, <1>2, <1>3 DEF SectionTable
<1>5. F \in Seq(SectionTable) /\ Len(F) = n
  <2>1. F = [i \in 1 .. n |-> F[i]] /\ DOMAIN F = 1 .. n
    BY <1>1
  <2>. HIDE DEF F
  <2>2. F \in [1 .. n -> SectionTable]
    BY <1>4, <2>1
  <2>3. F \in Seq(SectionTable)
    BY <1>1, <2>2
  <2>. QED
    BY <1>1, <2>1, <2>3
<1>6. WrittenSections = F \o G
  BY DEF WrittenSections
<1>7. GeneratedSection \in [start : {GeneratedAt}, virtual : {AlignUp(GeneratedLength, SectionAlignment)},
                            raw : {AlignUp(GeneratedLength, FileAlignment)}]
  BY DEF GeneratedSection
<1>. HIDE DEF F
<1>8. CASE GeneratedLength = 0
  <2>1. WrittenSections = F
    BY <1>5, <1>6, <1>8
  <2>2. DOMAIN WrittenSections = 1 .. n
    BY <1>5, <2>1
  <2>. QED
    BY <1>1, <1>4, <1>8, <2>1, <2>2 DEF WrittenAt
<1>9. CASE GeneratedLength # 0
  <2>. HIDE DEF n
  <2>1. WrittenSections = F \o <<GeneratedSection>>
    BY <1>6, <1>9
  <2>2. /\ DOMAIN WrittenSections = 1 .. n + 1
        /\ \A i \in 1 .. n : WrittenSections[i] = F[i]
        /\ WrittenSections[n + 1] = GeneratedSection
    BY <1>1, <1>5, <2>1
  <2>3. \A i \in 1 .. n : i \in DOMAIN WrittenSections /\ WrittenAt(i) = layout[i].at
    BY <1>1, <2>2 DEF WrittenAt
  <2>4. \A i \in DOMAIN WrittenSections : i \in 1 .. n \/ i = n + 1
    BY <1>1, <2>2
  <2>5. WrittenAt(n + 1) = FileEnd(layout)
    BY <1>1 DEF WrittenAt
  <2>6. n + 1 \in DOMAIN WrittenSections
    BY <1>1, <2>2
  <2>. QED
    BY <1>4, <1>9, <2>2, <2>3, <2>4, <2>5, <2>6 DEF n
<1>. QED
  BY <1>8, <1>9

\* Each section of the file: where it is in the file and in memory.
LEMMA WrittenOne ==
  ASSUME Written, NEW i \in DOMAIN WrittenSections
  PROVE  /\ WrittenSections[i].start \in Nat /\ WrittenSections[i].raw \in Nat /\ Size(i) \in Nat
         /\ WrittenAt(i) \in Nat /\ FinalSize \in Nat
         /\ WrittenSections[i].start % SectionAlignment = 0
         /\ WrittenSections[i].raw % FileAlignment = 0
         /\ WrittenAt(i) % FileAlignment = 0
         /\ image.sizeOfHeaders <= WrittenAt(i)
         /\ WrittenAt(i) + WrittenSections[i].raw <= FileLength(layout)
         /\ Size(i) # 0 => image.sizeOfHeaders <= WrittenSections[i].start
         /\ WrittenSections[i].start + Size(i) <= FinalSize
<1>1. /\ DataInv /\ LayoutInv /\ image \in Images /\ Len(layout) = Len(Sections)
  BY WrittenInv
<1>2. /\ FileLength(layout) \in Nat /\ FileEnd(layout) \in Nat
      /\ FileLength(layout) = FileEnd(layout) + AlignUp(GeneratedLength, FileAlignment)
      /\ FileEnd(layout) % FileAlignment = 0 /\ image.sizeOfHeaders <= FileEnd(layout)
  BY <1>1, FileLengthIs, FileEndIs
<1>3. /\ GeneratedLength \in Nat
      /\ AlignUp(GeneratedLength, FileAlignment) \in Nat
      /\ AlignUp(GeneratedLength, FileAlignment) % FileAlignment = 0
      /\ AlignUp(GeneratedLength, SectionAlignment) \in Nat
      /\ AlignUp(GeneratedLength, FileAlignment) <= AlignUp(GeneratedLength, SectionAlignment)
  BY <1>1, GeneratedIs
<1>4. /\ image.sizeOfImage \in Nat /\ image.sizeOfHeaders \in Nat
      /\ image.sizeOfHeaders <= image.sizeOfImage /\ image.sizeOfImage % SectionAlignment = 0
      /\ GeneratedAt = image.sizeOfImage
  BY <1>1, ImageIs
<1>5. FinalSize \in Nat /\ image.sizeOfImage <= FinalSize
      /\ (GeneratedLength # 0 => FinalSize = image.sizeOfImage + AlignUp(GeneratedLength, SectionAlignment))
  BY <1>3, <1>4 DEF FinalSize, GeneratedSection
<1>6. CASE i \in 1 .. Len(layout)
  <2> DEFINE l == layout[i]
             v == Sections[i].virtual
  <2>1. /\ WrittenAt(i) = l.at /\ WrittenSections[i].start = l.start
        /\ WrittenSections[i].raw = l.raw /\ WrittenSections[i].virtual = v
    BY <1>6, WrittenIs
  <2>2. /\ i \in DOMAIN Sections
        /\ l.start \in Nat /\ l.length \in Nat /\ l.at \in Nat /\ l.raw \in Nat
        /\ l.start = Sections[i].start
        /\ l.length = Larger(v, Sections[i].raw)
        /\ l.raw = AlignUp(Extent(Sections[i]), FileAlignment)
        /\ l.at % FileAlignment = 0 /\ l.raw % FileAlignment = 0
        /\ image.sizeOfHeaders <= l.at
        /\ Ends(i) \in Nat /\ Ends(i) = l.at + l.raw
        /\ l.start + l.raw <= image.sizeOfImage
        /\ l.start + l.length <= image.sizeOfImage
    BY <1>1, <1>6, PlacedIs
  <2>3. Ends(i) <= FileEnd(layout)
    BY <1>1, <1>6, FileEndIs
  <2>4. /\ Sections[i].start % SectionAlignment = 0 /\ v \in Nat /\ Sections[i].raw \in Nat
        /\ l.length # 0 => image.sizeOfHeaders <= l.start
    BY <1>1, <2>2, SectionIs
  <2>5. l.raw # 0 => l.length # 0
    <3>1. Extent(Sections[i]) \in 0 .. l.length
      BY <1>1, <2>2, ExtentIs
    <3>2. Extent(Sections[i]) = 0 => AlignUp(Extent(Sections[i]), FileAlignment) = 0
      BY <1>1, <2>2, <3>1, RoomForRaw
    <3>. QED
      BY <2>2, <3>1, <3>2
  <2>6. v <= l.length
    BY <2>2, <2>4 DEF Larger
  <2>7. Size(i) = IF v < l.raw THEN l.raw ELSE v
    BY <2>1 DEF Size, Larger
  <2>. HIDE DEF l, v
  <2>8. /\ Size(i) \in Nat /\ (Size(i) # 0 => image.sizeOfHeaders <= l.start)
        /\ l.start + Size(i) <= image.sizeOfImage
    <3>1. l.start \in Nat /\ l.raw \in Nat /\ l.length \in Nat /\ v \in Nat
      BY <2>2, <2>4
    <3>2. l.start + l.raw <= image.sizeOfImage /\ l.start + l.length <= image.sizeOfImage
      BY <2>2
    <3>3. Size(i) = l.raw \/ (Size(i) = v /\ l.raw <= v)
      BY <2>7, <3>1
    <3>4. Size(i) \in Nat /\ l.start + Size(i) <= image.sizeOfImage
      BY <1>4, <2>6, <3>1, <3>2, <3>3
    <3>5. Size(i) # 0 => l.length # 0
      BY <2>5, <2>6, <3>1, <3>3
    <3>. QED
      BY <2>4, <3>4, <3>5
  <2>9. l.start + Size(i) <= FinalSize
    BY <1>4, <1>5, <2>2, <2>8
  <2>10. l.at + l.raw <= FileLength(layout)
    BY <1>2, <1>3, <2>2, <2>3
  <2>11. l.start % SectionAlignment = 0
    BY <2>2, <2>4
  <2>. QED
    BY <1>5, <2>1, <2>2, <2>8, <2>9, <2>10, <2>11
<1>7. CASE i \notin 1 .. Len(layout)
  <2>1. /\ GeneratedLength # 0
        /\ WrittenSections[i] = GeneratedSection /\ WrittenAt(i) = FileEnd(layout)
    BY <1>7, WrittenIs
  <2>2. /\ WrittenSections[i].start = image.sizeOfImage
        /\ WrittenSections[i].raw = AlignUp(GeneratedLength, FileAlignment)
        /\ WrittenSections[i].virtual = AlignUp(GeneratedLength, SectionAlignment)
    BY <1>4, <2>1 DEF GeneratedSection
  <2>3. Size(i) = AlignUp(GeneratedLength, SectionAlignment)
    BY <1>3, <2>2 DEF Size, Larger
  <2>. QED
    BY <1>2, <1>3, <1>4, <1>5, <2>1, <2>2, <2>3
<1>. QED
  BY <1>6, <1>7

\* One section of the file ends before the next starts, in the file and in memory.
LEMMA WrittenInOrder ==
  ASSUME Written, NEW i \in DOMAIN WrittenSections, NEW j \in DOMAIN WrittenSections, i < j
  PROVE  /\ WrittenSections[i].start < WrittenSections[j].start
         /\ WrittenSections[i].start + Size(i) <= WrittenSections[j].start
         /\ WrittenAt(i) + WrittenSections[i].raw <= WrittenAt(j)
<1>1. /\ DataInv /\ LayoutInv /\ image \in Images /\ Len(layout) = Len(Sections)
  BY WrittenInv
<1>2. Len(layout) \in Nat /\ DOMAIN Sections = 1 .. Len(layout)
  BY <1>1, FileEndIs
<1>3. i \in 1 .. Len(layout)
  <2>1. i \in 1 .. Len(layout) \/ i = Len(layout) + 1
    BY WrittenIs
  <2>2. j \in 1 .. Len(layout) \/ j = Len(layout) + 1
    BY WrittenIs
  <2>. QED
    BY <1>2, <2>1, <2>2
<1> DEFINE l == layout[i]
           v == Sections[i].virtual
<1>4. /\ WrittenAt(i) = l.at /\ WrittenSections[i].start = l.start
      /\ WrittenSections[i].raw = l.raw /\ WrittenSections[i].virtual = v
  BY <1>3, WrittenIs
<1>5. /\ i \in DOMAIN Sections
      /\ l.start \in Nat /\ l.length \in Nat /\ l.at \in Nat /\ l.raw \in Nat
      /\ l.length = Larger(v, Sections[i].raw) /\ l.start = Sections[i].start
      /\ Ends(i) \in Nat /\ Ends(i) = l.at + l.raw
      /\ l.start + l.raw <= image.sizeOfImage
      /\ l.start + l.length <= image.sizeOfImage
  BY <1>1, <1>3, PlacedIs
<1>6. v \in Nat /\ Sections[i].raw \in Nat
  BY <1>1, <1>5, SectionIs
<1>7. v <= l.length
  BY <1>5, <1>6 DEF Larger
<1>8. Size(i) = IF v < l.raw THEN l.raw ELSE v
  BY <1>4 DEF Size, Larger
<1>9. CASE j \in 1 .. Len(layout)
  <2>1. /\ Ends(i) <= layout[j].at
        /\ l.start < layout[j].start
        /\ l.start + l.raw <= layout[j].start
        /\ l.start + l.length <= layout[j].start
    BY <1>1, <1>3, <1>9, PlacedInOrder
  <2>2. WrittenAt(j) = layout[j].at /\ WrittenSections[j].start = layout[j].start
    BY <1>9, WrittenIs
  <2>3. layout[j].start \in Nat
    BY <1>1, <1>9, PlacedIs
  <2>. HIDE DEF l, v
  <2>4. l.start + Size(i) <= layout[j].start
    BY <1>5, <1>6, <1>7, <1>8, <2>1, <2>3
  <2>. QED
    BY <1>4, <1>5, <2>1, <2>2, <2>4
<1>10. CASE j \notin 1 .. Len(layout)
  <2>1. WrittenSections[j] = GeneratedSection /\ WrittenAt(j) = FileEnd(layout)
    BY <1>10, WrittenIs
  <2>2. WrittenSections[j].start = image.sizeOfImage /\ image.sizeOfImage \in Nat
    BY <1>1, <2>1, ImageIs DEF GeneratedSection
  <2>3. l.start < image.sizeOfImage
    BY <1>5 DEF Written, SectionsHoldAll
  <2>4. Ends(i) <= FileEnd(layout)
    BY <1>1, <1>3, FileEndIs
  <2>. HIDE DEF l, v
  <2>5. l.start + Size(i) <= image.sizeOfImage
    BY <1>5, <1>6, <1>7, <1>8, <2>2
  <2>. QED
    BY <1>4, <1>5, <2>1, <2>2, <2>3, <2>4, <2>5
<1>. QED
  BY <1>9, <1>10

\* What was written passes for an image.
LEMMA WrittenIsImage ==
  ASSUME Written
  PROVE  IsImage
<1> DEFINE W == WrittenSections
<1>1. ASSUME NEW i \in DOMAIN W, NEW j \in DOMAIN W, i < j
      PROVE  /\ W[i].start < W[j].start
             /\ SectionCells(W[i]) \intersect SectionCells(W[j]) = {}
             /\ RawCells(i) \intersect RawCells(j) = {}
  <2>1. /\ W[i].start \in Nat /\ W[i].raw \in Nat /\ Size(i) \in Nat /\ WrittenAt(i) \in Nat
    BY WrittenOne
  <2>2. /\ W[j].start \in Nat /\ W[j].raw \in Nat /\ Size(j) \in Nat /\ WrittenAt(j) \in Nat
    BY WrittenOne
  <2>3. /\ W[i].start < W[j].start /\ W[i].start + Size(i) <= W[j].start
        /\ WrittenAt(i) + W[i].raw <= WrittenAt(j)
    BY <1>1, WrittenInOrder
  <2>4. /\ SectionCells(W[i]) = W[i].start .. W[i].start + Size(i) - 1
        /\ SectionCells(W[j]) = W[j].start .. W[j].start + Size(j) - 1
        /\ RawCells(i) = WrittenAt(i) .. WrittenAt(i) + W[i].raw - 1
        /\ RawCells(j) = WrittenAt(j) .. WrittenAt(j) + W[j].raw - 1
    BY DEF SectionCells, Size, RawCells
  <2>. HIDE DEF W
  <2>6. SectionCells(W[i]) \intersect SectionCells(W[j]) = {}
    <3>1. (W[i].start .. W[i].start + Size(i) - 1)
              \intersect (W[j].start .. W[j].start + Size(j) - 1) = {}
      BY <2>1, <2>2, <2>3
    <3>. QED
      BY <2>4, <3>1
  <2>7. RawCells(i) \intersect RawCells(j) = {}
    <3>1. (WrittenAt(i) .. WrittenAt(i) + W[i].raw - 1)
              \intersect (WrittenAt(j) .. WrittenAt(j) + W[j].raw - 1) = {}
      BY <2>1, <2>2, <2>3
    <3>. QED
      BY <2>4, <3>1
  <2>. QED
    BY <2>3, <2>6, <2>7
<1>2. ASSUME NEW i \in DOMAIN W
      PROVE  /\ W[i].start % SectionAlignment = 0 /\ W[i].raw % FileAlignment = 0
             /\ W[i].raw # 0 => WrittenAt(i) % FileAlignment = 0
             /\ RawCells(i) \subseteq image.sizeOfHeaders .. Cardinality(DOMAIN file) - 1
             /\ SectionCells(W[i]) \subseteq image.sizeOfHeaders .. FinalSize - 1
  <2>1. /\ W[i].start \in Nat /\ W[i].raw \in Nat /\ Size(i) \in Nat
        /\ WrittenAt(i) \in Nat /\ FinalSize \in Nat
        /\ W[i].start % SectionAlignment = 0
        /\ W[i].raw % FileAlignment = 0
        /\ WrittenAt(i) % FileAlignment = 0
        /\ image.sizeOfHeaders <= WrittenAt(i)
        /\ WrittenAt(i) + W[i].raw <= FileLength(layout)
        /\ Size(i) # 0 => image.sizeOfHeaders <= W[i].start
        /\ W[i].start + Size(i) <= FinalSize
    BY WrittenOne
  <2>2. Cardinality(DOMAIN file) = FileLength(layout) /\ FileLength(layout) \in Nat
    BY WrittenInv, FileLengthIs
  <2>3. image.sizeOfHeaders \in Nat
    BY WrittenInv, ImageIs
  <2>4. /\ SectionCells(W[i]) = W[i].start .. W[i].start + Size(i) - 1
        /\ RawCells(i) = WrittenAt(i) .. WrittenAt(i) + W[i].raw - 1
    BY DEF SectionCells, Size, RawCells
  <2>. HIDE DEF W
  <2>6. RawCells(i) \subseteq image.sizeOfHeaders .. Cardinality(DOMAIN file) - 1
    <3>1. WrittenAt(i) .. WrittenAt(i) + W[i].raw - 1
              \subseteq image.sizeOfHeaders .. FileLength(layout) - 1
      BY <2>1, <2>2, <2>3
    <3>. QED
      BY <2>2, <2>4, <3>1
  <2>7. SectionCells(W[i]) \subseteq image.sizeOfHeaders .. FinalSize - 1
    <3>1. W[i].start .. W[i].start + Size(i) - 1 \subseteq image.sizeOfHeaders .. FinalSize - 1
      BY <2>1, <2>3
    <3>. QED
      BY <2>4, <3>1
  <2>. QED
    BY <2>1, <2>6, <2>7
<1>. QED
  BY <1>1, <1>2 DEF IsImage

\* A cell behind what a section holds, which the rounding takes in, is in no section.
LEMMA PaddingIsOutside ==
  ASSUME Written, NEW i \in 1 .. Len(layout), NEW c \in Nat,
         layout[i].start + layout[i].length <= c, c < layout[i].start + layout[i].raw
  PROVE  ~InSection(c)
<1>1. SUFFICES ASSUME NEW m \in DOMAIN Sections, c \in SectionCells(Sections[m])
               PROVE  FALSE
  BY DEF InSection
<1>2. DataInv /\ LayoutInv /\ Len(layout) = Len(Sections)
  BY WrittenInv
<1>3. m \in 1 .. Len(layout) /\ Len(layout) \in Nat
  BY <1>2, FileEndIs
<1>4. /\ layout[m].start \in Nat /\ layout[m].length \in Nat
      /\ layout[m].start = Sections[m].start
      /\ layout[m].length = Larger(Sections[m].virtual, Sections[m].raw)
  BY <1>2, <1>3, PlacedIs
<1>5. layout[m].start <= c /\ c < layout[m].start + layout[m].length
  <2>1. c \in layout[m].start .. layout[m].start + layout[m].length - 1
    BY <1>1, <1>4 DEF SectionCells
  <2>. QED
    BY <1>4, <2>1
<1>6. layout[i].start \in Nat /\ layout[i].length \in Nat /\ layout[i].raw \in Nat
  BY <1>2, PlacedIs
<1>7. CASE m = i
  BY <1>5, <1>6, <1>7
<1>8. CASE m < i
  <2>1. layout[m].start + layout[m].length <= layout[i].start
    BY <1>2, <1>3, <1>8, PlacedInOrder
  <2>2. \A f, l, s, w, x \in Nat : x < f + l /\ f + l <= s => ~(s + w <= x)
    OBVIOUS
  <2>. QED
    BY <1>4, <1>5, <1>6, <2>1, <2>2
<1>9. CASE i < m
  <2>1. layout[i].start + layout[i].raw <= layout[m].start
    BY <1>2, <1>3, <1>9, PlacedInOrder
  <2>2. \A s, w, f, x \in Nat : x < s + w /\ s + w <= f => ~(f <= x)
    OBVIOUS
  <2>. QED
    BY <1>4, <1>5, <1>6, <2>1, <2>2
<1>. QED
  BY <1>3, <1>7, <1>8, <1>9

\* A cell that is not zero is in the part of its section that is written.
LEMMA WrittenReachesCell ==
  ASSUME Written, NEW c \in image.sizeOfHeaders .. image.sizeOfImage - 1, mapped[c] # "zero"
  PROVE  \E i \in DOMAIN WrittenSections :
             c - WrittenSections[i].start \in 0 .. WrittenSections[i].raw - 1
<1>1. /\ DataInv /\ LayoutInv /\ image \in Images /\ Len(layout) = Len(Sections)
      /\ HoldsInSections(mapped)
  BY WrittenInv
<1>2. image.sizeOfHeaders \in Nat /\ image.sizeOfImage \in Nat
  BY <1>1, ImageIs
<1>3. c \in DOMAIN mapped /\ c \in Nat /\ image.sizeOfHeaders <= c
  BY <1>1, <1>2 DEF DataInv
<1>4. InSection(c)
  BY <1>1, <1>3 DEF HoldsInSections
<1>5. PICK m \in DOMAIN Sections : c \in SectionCells(Sections[m])
  BY <1>4 DEF InSection
<1>6. m \in 1 .. Len(layout)
  BY <1>1, FileEndIs
<1>7. /\ layout[m].start \in Nat /\ layout[m].length \in Nat /\ layout[m].raw \in Nat
      /\ layout[m].start = Sections[m].start
      /\ layout[m].length = Larger(Sections[m].virtual, Sections[m].raw)
      /\ layout[m].raw = AlignUp(Extent(Sections[m]), FileAlignment)
  BY <1>1, <1>6, PlacedIs
<1>8. layout[m].start <= c /\ c < layout[m].start + layout[m].length
  BY <1>5, <1>7 DEF SectionCells
<1>9. /\ Extent(Sections[m]) \in 0 .. layout[m].length
      /\ c - layout[m].start + 1 <= Extent(Sections[m])
  BY <1>1, <1>5, <1>7, ExtentIs
<1>10. Extent(Sections[m]) <= layout[m].raw
  BY <1>1, <1>5, <1>7, <1>9, RoomForRaw
<1>11. c - layout[m].start \in 0 .. layout[m].raw - 1
  BY <1>3, <1>7, <1>8, <1>9, <1>10
<1>12. /\ m \in DOMAIN WrittenSections /\ WrittenSections[m].start = layout[m].start
       /\ WrittenSections[m].raw = layout[m].raw
  BY <1>6, WrittenIs
<1>. QED
  BY <1>11, <1>12

\* A cell that a section of the file covers is read back as it is in memory.
LEMMA CoveredCellIsRead ==
  ASSUME Written, NEW c \in image.sizeOfHeaders .. image.sizeOfImage - 1,
         NEW i \in DOMAIN WrittenSections,
         c - WrittenSections[i].start \in 0 .. WrittenSections[i].raw - 1
  PROVE  file[WrittenAt(i) + c - WrittenSections[i].start] = mapped[c]
<1>1. /\ DataInv /\ LayoutInv /\ image \in Images /\ Len(layout) = Len(Sections)
      /\ file = [at \in 0 .. FileLength(layout) - 1 |-> FileCell(layout, at)]
      /\ HoldsInSections(mapped)
  BY WrittenInv
<1>2. /\ image.sizeOfHeaders \in Nat /\ image.sizeOfImage \in Nat
      /\ GeneratedAt = image.sizeOfImage
  BY <1>1, ImageIs
<1>3. c \in Nat /\ c < image.sizeOfImage /\ image.sizeOfHeaders <= c /\ c \in DOMAIN mapped
  BY <1>1, <1>2 DEF DataInv
<1>4. i \in 1 .. Len(layout)
  <2>1. SUFFICES ASSUME i \notin 1 .. Len(layout) PROVE FALSE
    OBVIOUS
  <2>2. WrittenSections[i] = GeneratedSection
    BY <2>1, WrittenIs
  <2>3. WrittenSections[i].start = image.sizeOfImage
    BY <1>2, <2>2 DEF GeneratedSection
  <2>. QED
    BY <1>2, <1>3, <2>3
<1>5. /\ WrittenAt(i) = layout[i].at /\ WrittenSections[i].start = layout[i].start
      /\ WrittenSections[i].raw = layout[i].raw
  BY <1>4, WrittenIs
<1>6. /\ layout[i].start \in Nat /\ layout[i].length \in Nat
      /\ layout[i].at \in Nat /\ layout[i].raw \in Nat
      /\ Ends(i) = layout[i].at + layout[i].raw
  BY <1>1, <1>4, PlacedIs
<1> DEFINE at == layout[i].at + c - layout[i].start
<1>7. /\ at \in Nat /\ layout[i].at <= at /\ at < Ends(i) /\ at - layout[i].at = c - layout[i].start
      /\ layout[i].start + (at - layout[i].at) = c
      /\ layout[i].start <= c /\ c < layout[i].start + layout[i].raw
  BY <1>3, <1>5, <1>6
<1>. HIDE DEF at
<1>8. FileCell(layout, at) = IF at - layout[i].at < layout[i].length
                             THEN mapped[layout[i].start + (at - layout[i].at)] ELSE "zero"
  BY <1>1, <1>4, <1>7, PlacedCell
<1>9. at \in 0 .. FileLength(layout) - 1
  <2>1. /\ FileLength(layout) \in Nat /\ FileEnd(layout) \in Nat /\ Ends(i) <= FileEnd(layout)
        /\ FileEnd(layout) <= FileLength(layout)
    BY <1>1, <1>4, FileLengthIs, FileEndIs
  <2>. QED
    BY <1>6, <1>7, <2>1
<1>10. file[at] = FileCell(layout, at)
  BY <1>1, <1>9
<1>11. CASE at - layout[i].at < layout[i].length
  BY <1>5, <1>7, <1>8, <1>10, <1>11 DEF at
<1>12. CASE ~(at - layout[i].at < layout[i].length)
  <2>1. layout[i].start + layout[i].length <= c
    BY <1>3, <1>6, <1>7, <1>12
  <2>2. ~InSection(c)
    BY <1>3, <1>4, <1>7, <2>1, PaddingIsOutside
  <2>3. mapped[c] = "zero"
    BY <1>1, <1>3, <2>2 DEF HoldsInSections
  <2>. QED
    BY <1>5, <1>8, <1>10, <1>12, <2>3 DEF at
<1>. QED
  BY <1>11, <1>12

\* Loaded, the file is what is in memory.
LEMMA LoadedIsMapped ==
  ASSUME Written, NEW c \in image.sizeOfHeaders .. image.sizeOfImage - 1
  PROVE  Loaded[c] = mapped[c]
<1> DEFINE Here(n) == c - WrittenSections[n].start \in 0 .. WrittenSections[n].raw - 1
           i == CHOOSE n \in DOMAIN WrittenSections : Here(n)
<1>1. /\ image \in Images /\ DataInv
  BY WrittenInv
<1>2. image.sizeOfHeaders \in Nat /\ image.sizeOfImage \in Nat /\ GeneratedAt = image.sizeOfImage
  BY <1>1, ImageIs
<1>3. AlignUp(GeneratedLength, SectionAlignment) \in Nat
  BY <1>1, GeneratedIs
<1>4. c \in 0 .. FinalSize - 1 /\ ~(c < image.sizeOfHeaders)
  <2>1. FinalSize = image.sizeOfImage
        \/ FinalSize = image.sizeOfImage + AlignUp(GeneratedLength, SectionAlignment)
    BY <1>2 DEF FinalSize, GeneratedSection
  <2>. QED
    BY <1>2, <1>3, <2>1
<1>5. CASE \E n \in DOMAIN WrittenSections : Here(n)
  <2>1. i \in DOMAIN WrittenSections /\ Here(i)
    BY <1>5
  <2>2. Loaded[c] = file[WrittenAt(i) + c - WrittenSections[i].start]
    BY <1>4, <1>5 DEF Loaded
  <2>. HIDE DEF i
  <2>. QED
    BY <2>1, <2>2, CoveredCellIsRead
<1>6. CASE ~\E n \in DOMAIN WrittenSections : Here(n)
  <2>1. Loaded[c] = "zero"
    BY <1>4, <1>6 DEF Loaded
  <2>2. mapped[c] = "zero"
    BY <1>6, WrittenReachesCell
  <2>. QED
    BY <2>1, <2>2
<1>. QED
  BY <1>5, <1>6

\* The file is an image itself and holds all that the passes left in memory: neither the
\* parsing of the verification nor its comparison fails on an image whose sections hold
\* all its data.
THEOREM FileAlwaysHoldsTheImage == Spec => []FileHoldsTheImage
<1>1. RebuildInv => FileHoldsTheImage
  <2>. SUFFICES ASSUME RebuildInv, SectionsHoldAll, pc \in {"serialized", "done"}
                PROVE  IsImage /\ ~MappingDiffers(Loaded)
    BY DEF FileHoldsTheImage
  <2>1. Written
    BY DEF Written
  <2>2. IsImage
    BY <2>1, WrittenIsImage
  <2>3. ~MappingDiffers(Loaded)
    BY <2>1, LoadedIsMapped DEF MappingDiffers
  <2>. QED
    BY <2>2, <2>3
<1>. QED
  BY <1>1, RebuildIsConsistent, PTL

-----------------------------------------------------------------------------
(***************************************************************************)
(* The directories survive.                                                 *)
(***************************************************************************)
CellsOfDirectory(d) == Cells(d.range) \union Cells(d.payload)
Kept(d) ==
    \A c \in CellsOfDirectory(d) : c \in DOMAIN mapped => mapped[c] = image.cells[c]
IsApart(d) == CellsOfDirectory(d) \intersect (IatCells \union StreamCells) = {}

\* Directories are read after imports were cleared, and are as they were recovered from
\* then on; what is required lies in sections once one was placed.
DirectoryInv ==
    /\ pc \in {"cleared", "recovered", "relocated"} => ~image.pogo
    /\ pc \in {"start", "cleared"} => directories = {}
    /\ pc = "cleared" =>
          \A c \in DOMAIN mapped : c \notin ImportCells => mapped[c] = image.cells[c]
    /\ \A d \in directories :
          d.index = "debug" => d.payload = NoRange \/ Backed(Sections, d.payload)
    /\ DirectoriesAreApart =>
          \A d \in directories : Kept(d) /\ (image.pogo \/ IsApart(d))
    /\ layout # <<>> => \A r \in RequiredRanges : InSections(Cells(r))
    /\ pc \in {"serialized", "done"} =>
          pointer = IF DebugData = NoRange THEN 0 ELSE FilePosition(layout, DebugData.from)

\* What is left where it was stays as it was.
LEMMA DirectoryStays ==
  ASSUME RebuildInv, DirectoryInv, UNCHANGED <<image, mapped, directories, layout>>,
         pc' \in {"failed", "done"} \/ pc' = pc,
         pc' \in {"serialized", "done"} => pc \in {"serialized", "done"} /\ pointer' = pointer
  PROVE  DirectoryInv'
<1>1. /\ Sections' = Sections /\ ImportCells' = ImportCells
      /\ IatCells' = IatCells /\ StreamCells' = StreamCells
  BY DEF Sections, ImportCells, OwnImports, IatCells, StreamCells
<1>2. RequiredRanges' = RequiredRanges /\ DebugData' = DebugData
  BY DEF RequiredRanges, DebugData, DebugRecords
<1>3. \A r : Backed(Sections, r)' <=> Backed(Sections, r)
  BY <1>1 DEF Backed, SectionCells
<1>4. \A cells : InSections(cells)' <=> InSections(cells)
  BY <1>1 DEF InSections, SectionCells
<1>5. DirectoriesAreApart' <=> DirectoriesAreApart
  BY <1>1 DEF DirectoriesAreApart
<1>6. \A d : (Kept(d)' <=> Kept(d)) /\ (IsApart(d)' <=> IsApart(d))
  BY <1>1 DEF Kept, IsApart, CellsOfDirectory
<1>7. \A c : FilePosition(layout, c)' = FilePosition(layout, c)
  BY DEF FilePosition
<1>8. /\ pc' \in {"cleared", "recovered", "relocated"} => ~image'.pogo
      /\ pc' \in {"start", "cleared"} => directories' = {}
      /\ pc' = "cleared" =>
            \A c \in DOMAIN mapped' : c \notin ImportCells' => mapped'[c] = image'.cells[c]
  BY <1>1 DEF DirectoryInv
<1>9. \A d \in directories' :
          d.index = "debug" => d.payload = NoRange \/ Backed(Sections, d.payload)'
  BY <1>3 DEF DirectoryInv
<1>10. DirectoriesAreApart' =>
          \A d \in directories' : Kept(d)' /\ (image'.pogo \/ IsApart(d)')
  BY <1>5, <1>6 DEF DirectoryInv
<1>11. layout' # <<>> => \A r \in RequiredRanges' : InSections(Cells(r))'
  BY <1>2, <1>4 DEF DirectoryInv
<1>12. pc' \in {"serialized", "done"} =>
          pointer' = IF DebugData' = NoRange THEN 0 ELSE FilePosition(layout, DebugData.from)'
  BY <1>2, <1>7 DEF DirectoryInv
<1>. QED
  BY <1>8, <1>9, <1>10, <1>11, <1>12 DEF DirectoryInv

\* Clearing the imports leaves all other cells as they were.
LEMMA ClearKeepsDirectories ==
  ASSUME RebuildInv, DirectoryInv, ClearImports
  PROVE  DirectoryInv'
<1>1. CASE \E why : Fail(why)
  BY <1>1, DirectoryStays DEF Fail
<1>2. CASE ~\E why : Fail(why)
  <2>1. /\ pc = "start" /\ pc' = "cleared" /\ ~image.pogo
        /\ mapped' = [c \in DOMAIN mapped |-> IF c \in Cleared THEN "zero" ELSE mapped[c]]
        /\ UNCHANGED <<image, directories, relocations, export, layout, file, pointer, failure>>
    BY <1>2, Zenon DEF ClearImports
  <2>2. mapped = image.cells /\ layout = <<>> /\ directories = {}
    BY <2>1 DEF RebuildInv, ProgressInv, DirectoryInv
  <2>3. ImportCells' = ImportCells
    BY <2>1 DEF ImportCells, OwnImports, IatCells
  <2>4. Cleared \subseteq ImportCells
    BY StaleIsFound DEF Cleared, ImportCells
  <2>. QED
    BY <2>1, <2>2, <2>3, <2>4 DEF DirectoryInv
<1>. QED
  BY <1>1, <1>2

\* The linker's directories are those of the image.
LEMMA AdoptKeepsDirectories ==
  ASSUME RebuildInv, DirectoryInv, AdoptLinkerLayout
  PROVE  DirectoryInv'
<1> DEFINE refused == \E d \in image.directories : d.index = "debug" /\ ~DebugIsBacked(d)
<1>1. CASE refused
  BY <1>1, DirectoryStays DEF AdoptLinkerLayout, Fail
<1>2. CASE ~refused
  <2>1. /\ pc = "start" /\ pc' = "ready" /\ directories' = image.directories /\ image.pogo
        /\ UNCHANGED <<image, mapped, relocations, export, layout, file, pointer, failure>>
    BY <1>2 DEF AdoptLinkerLayout
  <2>2. mapped = image.cells /\ layout = <<>>
    BY <2>1 DEF RebuildInv, ProgressInv
  <2>3. \A r : Backed(Sections, r)' <=> Backed(Sections, r)
    BY <2>1 DEF Backed, SectionCells, Sections
  <2>4. \A d \in directories' : d.index = "debug" =>
            d.payload = NoRange \/ Backed(Sections, d.payload)'
    BY <1>2, <2>1, <2>3 DEF DebugIsBacked
  <2>5. \A d \in directories' : Kept(d)'
    BY <2>1, <2>2 DEF Kept
  <2>. QED
    BY <2>1, <2>2, <2>4, <2>5 DEF DirectoryInv
<1>. QED
  BY <1>1, <1>2

\* A directory that is kept is as it was recovered, and no larger than it was.
LEMMA RetainedIsKept ==
  ASSUME RebuildInv, DirectoryInv, pc = "cleared", DirectoriesAreApart,
         NEW d \in image.directories, Judged(d) = "keep"
  PROVE  Kept(Retained(d)) /\ IsApart(Retained(d))
<1>1. /\ image \in Images /\ ~image.pogo
      /\ \A c \in DOMAIN mapped : c \notin ImportCells => mapped[c] = image.cells[c]
  BY DEF RebuildInv, DataInv, DirectoryInv
<1>2. /\ (Cells(d.range) \union Cells(d.payload)) \intersect (IatCells \union StreamCells) = {}
      /\ Cells(d.payload) \intersect ImportCells = {}
      /\ d.index \notin {"exception", "debug", "resource"} =>
            Cells(d.range) \intersect ImportCells = {}
  BY <1>1 DEF DirectoriesAreApart
<1>3. d \in DirectoryTable
  BY <1>1, ReadIs
<1>4. CASE d.index = "exception"
  <2>1. Retained(d) = [d EXCEPT !.range = Trimmed(d.range)]
    BY <1>4 DEF Retained
  <2>2. Retained(d).range = Trimmed(d.range) /\ Retained(d).payload = d.payload
    BY <1>3, <2>1 DEF DirectoryTable
  <2>3. Trimmed(d.range) # NoRange /\ Intact(Trimmed(d.range))
    BY <1>4, Zenon DEF Judged
  <2>4. Cells(Trimmed(d.range)) \subseteq Cells(d.range)
    <3> DEFINE H == Holds(d.range)
               l == CHOOSE c \in H : \A e \in H : c <= e
    <3>1. H # {} /\ Trimmed(d.range) = [d.range EXCEPT !.from = l]
      BY <2>3 DEF Trimmed
    <3>2. d.range \in Ranges /\ d.range.from \in Nat /\ d.range.to \in Nat
      BY <1>3 DEF DirectoryTable, Ranges
    <3>3. \A c \in H : c \in Nat /\ d.range.from <= c
      BY <3>2 DEF Holds, Cells
    <3>. HIDE DEF H
    <3>4. \E c \in H : \A e \in H : c <= e
      BY <3>1, <3>3, LeastElement
    <3>5. l \in H
      BY <3>4
    <3>. HIDE DEF l
    <3>6. Trimmed(d.range).from = l /\ Trimmed(d.range).to = d.range.to
      BY <3>1, <3>2 DEF Ranges
    <3>7. l \in Nat /\ d.range.from <= l
      BY <3>3, <3>5
    <3>. QED
      BY <3>2, <3>6, <3>7 DEF Cells
  <2>5. Kept(Retained(d))
    BY <1>1, <1>2, <2>2, <2>3 DEF Kept, CellsOfDirectory, Intact
  <2>6. IsApart(Retained(d))
    BY <1>2, <2>2, <2>4 DEF IsApart, CellsOfDirectory
  <2>. QED
    BY <2>5, <2>6
<1>5. CASE d.index # "exception"
  <2>1. Retained(d) = d
    BY <1>5 DEF Retained
  <2>2. d.index \in {"debug", "resource"} => Intact(d.range)
    <3>1. CASE d.index = "debug"
      BY <3>1, Zenon DEF Judged
    <3>2. CASE d.index = "resource"
      BY <3>2, Zenon DEF Judged
    <3>. QED
      BY <3>1, <3>2
  <2>3. Kept(d)
    BY <1>1, <1>2, <1>5, <2>2 DEF Kept, CellsOfDirectory, Intact
  <2>4. IsApart(d)
    BY <1>2 DEF IsApart, CellsOfDirectory
  <2>. QED
    BY <2>1, <2>3, <2>4
<1>. QED
  BY <1>4, <1>5

\* The directories that are kept are as they were.
LEMMA RecoverKeepsDirectories ==
  ASSUME RebuildInv, DirectoryInv, RecoverDirectories
  PROVE  DirectoryInv'
<1>1. CASE \E d \in image.directories : Judged(d) = "refuse"
  BY <1>1, DirectoryStays DEF RecoverDirectories, Fail
<1>2. CASE ~\E d \in image.directories : Judged(d) = "refuse"
  <2>1. /\ pc = "cleared" /\ pc' = "recovered"
        /\ directories' = { Retained(d) : d \in { e \in image.directories : Judged(e) = "keep" } }
        /\ UNCHANGED <<image, mapped, relocations, export, layout, file, pointer, failure>>
    BY <1>2 DEF RecoverDirectories
  <2>2. layout = <<>> /\ ~image.pogo /\ image \in Images
    BY <2>1 DEF RebuildInv, ProgressInv, DirectoryInv, DataInv
  <2>3. \A r : Backed(Sections, r)' <=> Backed(Sections, r)
    BY <2>1 DEF Backed, SectionCells, Sections
  <2>4. ASSUME NEW e \in directories', e.index = "debug"
        PROVE  e.payload = NoRange \/ Backed(Sections, e.payload)'
    <3>1. PICK d \in image.directories : Judged(d) = "keep" /\ e = Retained(d)
      BY <2>1
    <3>2. d \in DirectoryTable
      BY <2>2, ReadIs
    <3>3. d.index = "debug" /\ e = d
      BY <2>4, <3>1, <3>2 DEF Retained, DirectoryTable
    <3>4. DebugIsBacked(d)
      BY <3>1, <3>3, Zenon DEF Judged
    <3>. QED
      BY <2>3, <3>3, <3>4 DEF DebugIsBacked
  <2>5. DirectoriesAreApart' <=> DirectoriesAreApart
    BY <2>1 DEF DirectoriesAreApart, ImportCells, OwnImports, IatCells, StreamCells
  <2>6. \A d : (Kept(d)' <=> Kept(d)) /\ (IsApart(d)' <=> IsApart(d))
    BY <2>1 DEF Kept, IsApart, CellsOfDirectory, IatCells, StreamCells
  <2>7. ASSUME DirectoriesAreApart, NEW e \in directories'
        PROVE  Kept(e) /\ IsApart(e)
    <3>1. PICK d \in image.directories : Judged(d) = "keep" /\ e = Retained(d)
      BY <2>1
    <3>. QED
      BY <2>1, <2>7, <3>1, RetainedIsKept
  <2>. QED
    BY <2>1, <2>2, <2>4, <2>5, <2>6, <2>7 DEF DirectoryInv
<1>. QED
  BY <1>1, <1>2


\* What is written over import cells and streams leaves the directories as they were.
LEMMA WritingKeepsDirectories ==
  ASSUME RebuildInv, DirectoryInv, ~image.pogo, pc' \in {"relocated", "ready"},
         UNCHANGED <<image, directories, layout>>, DOMAIN mapped' = DOMAIN mapped,
         \A c \in DOMAIN mapped : c \notin IatCells \union StreamCells => mapped'[c] = mapped[c]
  PROVE  DirectoryInv'
<1>1. /\ Sections' = Sections /\ ImportCells' = ImportCells
      /\ IatCells' = IatCells /\ StreamCells' = StreamCells
  BY DEF Sections, ImportCells, OwnImports, IatCells, StreamCells
<1>2. RequiredRanges' = RequiredRanges
  BY DEF RequiredRanges
<1>3. \A r : Backed(Sections, r)' <=> Backed(Sections, r)
  BY <1>1 DEF Backed, SectionCells
<1>4. \A cells : InSections(cells)' <=> InSections(cells)
  BY <1>1 DEF InSections, SectionCells
<1>5. DirectoriesAreApart' <=> DirectoriesAreApart
  BY <1>1 DEF DirectoriesAreApart
<1>6. \A d : IsApart(d)' <=> IsApart(d)
  BY <1>1 DEF IsApart, CellsOfDirectory
<1>7. \A d : Kept(d) /\ IsApart(d) => Kept(d)'
  BY DEF Kept, IsApart, CellsOfDirectory
<1>8. \A d \in directories' :
          d.index = "debug" => d.payload = NoRange \/ Backed(Sections, d.payload)'
  BY <1>3 DEF DirectoryInv
<1>9. DirectoriesAreApart' => \A d \in directories' : Kept(d)' /\ IsApart(d)'
  BY <1>5, <1>6, <1>7 DEF DirectoryInv
<1>10. layout' # <<>> => \A r \in RequiredRanges' : InSections(Cells(r))'
  BY <1>2, <1>4 DEF DirectoryInv
<1>11. /\ pc' \in {"cleared", "recovered", "relocated"} => ~image'.pogo
       /\ pc' \notin {"start", "cleared", "serialized", "done"}
  OBVIOUS
<1>. QED
  BY <1>8, <1>9, <1>10, <1>11 DEF DirectoryInv

\* The cells that slots name.
SlotCells ==
    image.declared.effective
    \union UNION { image.producers[i].effective : i \in DOMAIN image.producers }

\* The stream that is trusted is one of those the image has, or none.
LEMMA TrustedIs ==
  ASSUME image \in Images
  PROVE  LET choice == SelectStream(image, mapped)
         IN  /\ Cells(choice.stream.range) \subseteq StreamCells
             /\ choice.stream.effective \subseteq SlotCells
             /\ choice.ok => \A c \in Cells(choice.stream.range) : mapped[c] = "reloc"
<1> DEFINE declared == image.declared
           found == Producers(image, mapped)
           first == image.producers[FirstOf(found)]
           choice == SelectStream(image, mapped)
           Sound(s) == /\ Cells(s.range) \subseteq StreamCells
                       /\ s.effective \subseteq SlotCells
           Whole(s) == \A c \in Cells(s.range) : mapped[c] = "reloc"
<1>1. Sound(declared)
  BY DEF StreamCells, SlotCells
<1>2. Sound(NoStream) /\ Whole(NoStream)
  BY DEF NoStream, NoRange, Cells
<1>3. Whole(declared) \/ declared = NoStream \/ choice = Refuse
  <2>1. ASSUME declared # NoStream, ~Parses(image, mapped, declared)
        PROVE  choice = Refuse
    BY <2>1, Zenon DEF SelectStream
  <2>2. Parses(image, mapped, declared) => Whole(declared)
    BY DEF Parses
  <2>. QED
    BY <2>1, <2>2
<1>4. ASSUME found # {}
      PROVE  Sound(first) /\ Whole(first)
  <2>1. found \subseteq DOMAIN image.producers
    BY DEF Producers
  <2>2. DOMAIN image.producers \subseteq Nat
    BY ReadIs
  <2>3. found \in SUBSET Nat
    BY <2>1, <2>2
  <2>4. \A i \in found : Parses(image, mapped, image.producers[i])
    BY DEF Producers
  <2>. HIDE DEF found
  <2>5. \E i \in found : \A j \in found : i <= j
    BY <1>4, <2>3, LeastElement
  <2>6. FirstOf(found) \in found
    BY <2>5 DEF FirstOf
  <2>7. Sound(first)
    BY <2>1, <2>6 DEF StreamCells, SlotCells
  <2>8. Whole(first)
    BY <2>4, <2>6 DEF Parses
  <2>. QED
    BY <2>7, <2>8
<1>5. \/ choice \in {Refuse, Trust(declared), Trust(NoStream)}
      \/ found # {} /\ choice = Trust(first)
  BY Zenon DEF SelectStream
<1>. HIDE DEF declared, found, first, choice, Sound, Whole
<1>6. \A s : Trust(s).stream = s
  BY DEF Trust
<1>7. Refuse.stream = NoStream /\ Refuse.ok = FALSE
  BY DEF Refuse
<1>8. Sound(choice.stream)
  BY <1>1, <1>2, <1>4, <1>5, <1>6, <1>7
<1>9. choice.ok => Whole(choice.stream)
  BY <1>2, <1>3, <1>4, <1>5, <1>6, <1>7
<1>. QED
  BY <1>8, <1>9 DEF Sound, Whole, choice

\* What the placement of the relocations writes, if it writes.
LEMMA PlacementIs ==
  ASSUME RebuildInv, PlaceRelocations
  PROVE  LET choice == SelectStream(image, mapped)
             entries == Entries(image, choice.stream)
         IN  \/ Fail("relocations")
             \/ /\ pc = "recovered" /\ pc' = "relocated"
                /\ UNCHANGED <<image, directories, export, layout, file, pointer, failure>>
                /\ choice.ok /\ EntriesAreValid(image, mapped, choice.stream)
                /\ relocations'.entries = entries
                /\ \/ UNCHANGED mapped
                   \/ \E cells \in SUBSET Cells(choice.stream.range) :
                          mapped' = [c \in DOMAIN mapped |->
                                         IF c \in cells THEN "reloc" ELSE mapped[c]]
<1> DEFINE choice == SelectStream(image, mapped)
           entries == Entries(image, choice.stream)
           length == PayloadLength(entries)
           inPlace == [from |-> choice.stream.range.from,
                       to |-> choice.stream.range.from + length]
           behind == [from |-> GeneratedAt, to |-> GeneratedAt + length]
           refused == ~choice.ok \/ ~EntriesAreValid(image, mapped, choice.stream)
<1>1. CASE refused
  BY <1>1 DEF PlaceRelocations
<1>2. CASE ~refused
  <2>1. /\ pc = "recovered" /\ pc' = "relocated"
        /\ UNCHANGED <<image, directories, export, layout, file, pointer, failure>>
        /\ choice.ok /\ EntriesAreValid(image, mapped, choice.stream)
    BY <1>2 DEF PlaceRelocations
  <2>2. \/ entries = {} /\ relocations' = NoRelocations /\ UNCHANGED mapped
        \/ /\ FitsInPlace(image, choice.stream, length)
           /\ relocations' = [entries |-> entries, directory |-> inPlace, prefix |-> 0]
           /\ mapped' = [c \in DOMAIN mapped |-> IF c \in Cells(inPlace) THEN "reloc" ELSE mapped[c]]
        \/ /\ relocations' = [entries |-> entries, directory |-> behind, prefix |-> length]
           /\ UNCHANGED mapped
    BY <1>2 DEF PlaceRelocations
  <2>3. image \in Images
    BY DEF RebuildInv, DataInv
  <2>4. length \in Nat /\ choice.stream.range \in Ranges
    BY <2>3, EntriesAre
  <2>. HIDE DEF choice, length
  <2>5. FitsInPlace(image, choice.stream, length) =>
            Cells(inPlace) \subseteq Cells(choice.stream.range)
    BY <2>4 DEF FitsInPlace, Length, Cells, Ranges
  <2>6. relocations'.entries = entries
    BY <2>2 DEF NoRelocations
  <2>. HIDE DEF inPlace
  <2>7. \/ UNCHANGED mapped
        \/ \E cells \in SUBSET Cells(choice.stream.range) :
               mapped' = [c \in DOMAIN mapped |-> IF c \in cells THEN "reloc" ELSE mapped[c]]
    BY <2>2, <2>5
  <2>. QED
    BY <2>1, <2>6, <2>7 DEF choice
<1>. QED
  BY <1>1, <1>2

\* The relocations are written over the stream that is trusted.
LEMMA PlaceKeepsDirectories ==
  ASSUME RebuildInv, DirectoryInv, PlaceRelocations
  PROVE  DirectoryInv'
<1> DEFINE choice == SelectStream(image, mapped)
<1>1. CASE Fail("relocations")
  BY <1>1, DirectoryStays DEF Fail
<1>2. CASE /\ pc = "recovered" /\ pc' = "relocated"
           /\ UNCHANGED <<image, directories, export, layout, file, pointer, failure>>
           /\ \/ UNCHANGED mapped
              \/ \E cells \in SUBSET Cells(choice.stream.range) :
                     mapped' = [c \in DOMAIN mapped |->
                                    IF c \in cells THEN "reloc" ELSE mapped[c]]
  <2>1. image \in Images /\ ~image.pogo
    BY <1>2 DEF RebuildInv, DataInv, DirectoryInv
  <2>2. Cells(choice.stream.range) \subseteq StreamCells
    BY <2>1, TrustedIs
  <2>. HIDE DEF choice
  <2>3. /\ DOMAIN mapped' = DOMAIN mapped
        /\ \A c \in DOMAIN mapped : c \notin IatCells \union StreamCells => mapped'[c] = mapped[c]
    BY <1>2, <2>2
  <2>. QED
    BY <1>2, <2>1, <2>3, WritingKeepsDirectories
<1>. QED
  BY <1>1, <1>2, PlacementIs

\* The import cells are apart from the directories.
LEMMA InitializeKeepsDirectories ==
  ASSUME RebuildInv, DirectoryInv, InitializeImports
  PROVE  DirectoryInv'
<1>1. /\ pc = "relocated" /\ pc' = "ready" /\ mapped' = [c \in DOMAIN mapped |-> ImportCell(c)]
      /\ UNCHANGED <<image, directories, layout>>
  BY DEF InitializeImports
<1>2. image \in Images /\ ~image.pogo
  BY <1>1 DEF RebuildInv, DataInv, DirectoryInv
<1>3. /\ DOMAIN mapped' = DOMAIN mapped
      /\ \A c \in DOMAIN mapped : c \notin IatCells => mapped'[c] = mapped[c]
  BY <1>1, <1>2, ImportCellIs
<1>. QED
  BY <1>1, <1>2, <1>3, WritingKeepsDirectories

\* A section is only placed when all that is required lies in sections.
LEMMA CompactKeepsDirectories ==
  ASSUME RebuildInv, DirectoryInv, CompactSection
  PROVE  DirectoryInv'
<1>1. CASE \E why : Fail(why)
  BY <1>1, DirectoryStays DEF Fail
<1>2. CASE ~\E why : Fail(why)
  <2>1. /\ ~\E r \in RequiredRanges : ~InSections(Cells(r))
        /\ pc = "ready" /\ UNCHANGED <<image, pc, mapped, directories>>
    BY <1>2, Zenon DEF CompactSection
  <2>2. /\ Sections' = Sections /\ ImportCells' = ImportCells
        /\ IatCells' = IatCells /\ StreamCells' = StreamCells /\ RequiredRanges' = RequiredRanges
    BY <2>1 DEF Sections, ImportCells, OwnImports, IatCells, StreamCells, RequiredRanges
  <2>3. \A r : Backed(Sections, r)' <=> Backed(Sections, r)
    BY <2>2 DEF Backed, SectionCells
  <2>4. \A cells : InSections(cells)' <=> InSections(cells)
    BY <2>2 DEF InSections, SectionCells
  <2>5. DirectoriesAreApart' <=> DirectoriesAreApart
    BY <2>1, <2>2 DEF DirectoriesAreApart
  <2>6. \A d : (Kept(d)' <=> Kept(d)) /\ (IsApart(d)' <=> IsApart(d))
    BY <2>1, <2>2 DEF Kept, IsApart, CellsOfDirectory
  <2>7. \A d \in directories' :
            d.index = "debug" => d.payload = NoRange \/ Backed(Sections, d.payload)'
    BY <2>1, <2>3 DEF DirectoryInv
  <2>8. DirectoriesAreApart' => \A d \in directories' : Kept(d)' /\ (image'.pogo \/ IsApart(d)')
    BY <2>1, <2>5, <2>6 DEF DirectoryInv
  <2>9. \A r \in RequiredRanges' : InSections(Cells(r))'
    BY <2>1, <2>2, <2>4
  <2>. QED
    BY <2>1, <2>7, <2>8, <2>9 DEF DirectoryInv
<1>. QED
  BY <1>1, <1>2

\* The record names the position its data was placed at.
LEMMA SerializeKeepsDirectories ==
  ASSUME RebuildInv, DirectoryInv, Serialize
  PROVE  DirectoryInv'
<1>1. CASE \E why : Fail(why)
  BY <1>1, DirectoryStays DEF Fail
<1>2. CASE ~\E why : Fail(why)
  <2>1. /\ pc = "ready" /\ pc' = "serialized"
        /\ pointer' = IF DebugData = NoRange THEN 0 ELSE FilePosition(layout, DebugData.from)
        /\ UNCHANGED <<image, mapped, directories, layout>>
    BY <1>2, Zenon DEF Serialize
  <2>2. /\ Sections' = Sections /\ ImportCells' = ImportCells /\ DebugData' = DebugData
        /\ IatCells' = IatCells /\ StreamCells' = StreamCells /\ RequiredRanges' = RequiredRanges
    BY <2>1 DEF Sections, ImportCells, OwnImports, IatCells, StreamCells, RequiredRanges,
                DebugData, DebugRecords
  <2>3. \A r : Backed(Sections, r)' <=> Backed(Sections, r)
    BY <2>2 DEF Backed, SectionCells
  <2>4. \A cells : InSections(cells)' <=> InSections(cells)
    BY <2>2 DEF InSections, SectionCells
  <2>5. DirectoriesAreApart' <=> DirectoriesAreApart
    BY <2>1, <2>2 DEF DirectoriesAreApart
  <2>6. \A d : (Kept(d)' <=> Kept(d)) /\ (IsApart(d)' <=> IsApart(d))
    BY <2>1, <2>2 DEF Kept, IsApart, CellsOfDirectory
  <2>7. \A d \in directories' :
            d.index = "debug" => d.payload = NoRange \/ Backed(Sections, d.payload)'
    BY <2>1, <2>3 DEF DirectoryInv
  <2>8. DirectoriesAreApart' => \A d \in directories' : Kept(d)' /\ (image'.pogo \/ IsApart(d)')
    BY <2>1, <2>5, <2>6 DEF DirectoryInv
  <2>9. layout' # <<>> => \A r \in RequiredRanges' : InSections(Cells(r))'
    BY <2>1, <2>2, <2>4 DEF DirectoryInv
  <2>10. pointer' = IF DebugData' = NoRange THEN 0 ELSE FilePosition(layout, DebugData.from)'
    <3>1. FilePosition(layout, DebugData.from)' = FilePosition(layout, DebugData.from)
      BY <2>1, <2>2 DEF FilePosition
    <3>. QED
      BY <2>1, <2>2, <3>1
  <2>. QED
    BY <2>1, <2>7, <2>8, <2>9, <2>10 DEF DirectoryInv
<1>. QED
  BY <1>1, <1>2

\* The verification changes nothing.
LEMMA VerifyKeepsDirectories ==
  ASSUME RebuildInv, DirectoryInv, Verify
  PROVE  DirectoryInv'
<1>1. pc = "serialized" /\ pc' \in {"failed", "done"}
      /\ UNCHANGED <<image, mapped, directories, layout, pointer>>
  BY Zenon DEF Verify, Fail
<1>. QED
  BY <1>1, DirectoryStays

\* Nothing is retained at first.
LEMMA InitDirectoryInv ==
  Init => DirectoryInv
BY DEF Init, DirectoryInv

\* Each pass keeps the directories.
LEMMA NextDirectoryInv ==
  ASSUME RebuildInv, DirectoryInv, [Next]_vars
  PROVE  DirectoryInv'
<1>1. CASE UNCHANGED vars
  BY <1>1, DirectoryStays DEF vars
<1>2. CASE Stopped
  BY <1>2, DirectoryStays DEF Stopped, vars
<1>. QED
  BY <1>1, <1>2, ClearKeepsDirectories, AdoptKeepsDirectories, RecoverKeepsDirectories,
     PlaceKeepsDirectories, InitializeKeepsDirectories, CompactKeepsDirectories,
     SerializeKeepsDirectories, VerifyKeepsDirectories DEF Next

\* The directories that were retained stay as they were recovered, from the pass that
\* retains them to the end, and what they need is in sections.
THEOREM DirectoriesAreConsistent == Spec => [](RebuildInv /\ DirectoryInv)
<1>1. Init => RebuildInv /\ DirectoryInv
  BY InitInv, InitDirectoryInv
<1>2. RebuildInv /\ DirectoryInv /\ [Next]_vars => (RebuildInv /\ DirectoryInv)'
  BY NextInv, NextDirectoryInv
<1>. QED
  BY <1>1, <1>2, PTL DEF Spec

\* A cell that is written is found in the section it was placed with.
LEMMA PositionIs ==
  ASSUME DataInv, LayoutInv, Len(layout) = Len(Sections),
         NEW m \in 1 .. Len(layout), NEW c \in Nat,
         layout[m].start <= c, c < layout[m].start + layout[m].raw
  PROVE  FilePosition(layout, c) = layout[m].at + c - layout[m].start
<1> DEFINE Here(i) == c - layout[i].start \in 0 .. layout[i].raw - 1
           p == CHOOSE i \in DOMAIN layout : Here(i)
<1>1. DOMAIN layout = 1 .. Len(layout) /\ Len(layout) \in Nat
  BY FileEndIs
<1>2. /\ layout[m].start \in Nat /\ layout[m].raw \in Nat
  BY PlacedIs
<1>3. Here(m)
  BY <1>2
<1>4. ASSUME NEW i \in 1 .. Len(layout), Here(i)
      PROVE  i = m
  <2>1. layout[i].start \in Nat /\ layout[i].raw \in Nat
    BY PlacedIs
  <2>2. layout[i].start <= c /\ c < layout[i].start + layout[i].raw
    <3>1. \A f, w \in Nat : c - f \in 0 .. w - 1 => f <= c /\ c < f + w
      OBVIOUS
    <3>. QED
      BY <1>4, <2>1, <3>1
  <2>3. i < m => layout[i].start + layout[i].raw <= layout[m].start
    BY PlacedInOrder
  <2>4. m < i => layout[m].start + layout[m].raw <= layout[i].start
    BY PlacedInOrder
  <2>. QED
    BY <1>2, <2>1, <2>2, <2>3, <2>4
<1>5. \E i \in DOMAIN layout : Here(i)
  BY <1>1, <1>3
<1>6. p \in DOMAIN layout /\ Here(p)
  BY <1>5
<1>7. FilePosition(layout, c) = layout[p].at + c - layout[p].start
  BY <1>5 DEF FilePosition
<1>. HIDE DEF p
<1>8. p = m
  BY <1>1, <1>4, <1>6
<1>. QED
  BY <1>7, <1>8

\* What is required of a section is written with it, at a position behind the headers.
LEMMA RequiredIsPlaced ==
  ASSUME DataInv, LayoutInv, Len(layout) = Len(Sections),
         NEW r \in RequiredRanges, NEW c \in Cells(r),
         NEW m \in DOMAIN Sections, c \in SectionCells(Sections[m])
  PROVE  /\ m \in 1 .. Len(layout) /\ c \in Nat
         /\ layout[m].start <= c
         /\ c < layout[m].start + layout[m].length /\ c < layout[m].start + layout[m].raw
         /\ FilePosition(layout, c) = layout[m].at + c - layout[m].start
         /\ FilePosition(layout, c) \in Nat /\ FilePosition(layout, c) # 0
<1> DEFINE s == Sections[m]
<1>1. image \in Images
  BY DEF DataInv
<1>2. m \in 1 .. Len(layout) /\ DOMAIN Sections = 1 .. Len(Sections)
  BY <1>1, ImageIs
<1>3. /\ layout[m].start \in Nat /\ layout[m].length \in Nat
      /\ layout[m].at \in Nat /\ layout[m].raw \in Nat
      /\ layout[m].start = s.start /\ layout[m].length = Larger(s.virtual, s.raw)
      /\ layout[m].raw = AlignUp(Extent(s), FileAlignment)
      /\ image.sizeOfHeaders <= layout[m].at
  BY <1>2, PlacedIs
<1>4. /\ Extent(s) \in 0 .. Larger(s.virtual, s.raw)
      /\ c - s.start + 1 <= Extent(s)
  BY <1>1, ExtentIs
<1>5. Extent(s) \in Nat /\ Extent(s) <= AlignUp(Extent(s), FileAlignment)
  <2>1. Extent(s) \in Nat
    BY <1>3, <1>4
  <2>. QED
    BY <2>1, AlignmentsAre, AlignedUp
<1>6. image.sizeOfHeaders \in Nat \ {0}
  BY <1>1, ImageIs
<1>. HIDE DEF s
<1>7. c \in Nat /\ layout[m].start <= c /\ c < layout[m].start + layout[m].length
  BY <1>3 DEF SectionCells, s
<1>8. c < layout[m].start + layout[m].raw
  BY <1>3, <1>4, <1>5, <1>7
<1>9. FilePosition(layout, c) = layout[m].at + c - layout[m].start
  BY <1>2, <1>7, <1>8, PositionIs
<1>10. layout[m].at + c - layout[m].start \in Nat /\ layout[m].at + c - layout[m].start # 0
  <2>1. \A h \in Nat \ {0}, a, f, x \in Nat :
            h <= a /\ f <= x => a + x - f \in Nat /\ a + x - f # 0
    OBVIOUS
  <2>. QED
    BY <1>3, <1>6, <1>7, <2>1
<1>. QED
  BY <1>2, <1>7, <1>8, <1>9, <1>10

Ended == RebuildInv /\ DirectoryInv /\ pc \in {"serialized", "done"}

\* What is required is written with the section it lies in.
LEMMA RequiredIsWritten ==
  ASSUME Ended, DirectoriesAreApart, NEW r \in RequiredRanges, NEW c \in Cells(r),
         NEW m \in DOMAIN Sections, c \in SectionCells(Sections[m])
  PROVE  /\ FilePosition(layout, c) = layout[m].at + c - layout[m].start
         /\ FilePosition(layout, c) # 0
         /\ file[FilePosition(layout, c)] = image.cells[c]
         /\ layout[m].at \in Nat /\ layout[m].start \in Nat
<1> DEFINE at == FilePosition(layout, c)
<1>1. /\ DataInv /\ LayoutInv /\ image \in Images /\ Len(layout) = Len(Sections)
      /\ file = [q \in 0 .. FileLength(layout) - 1 |-> FileCell(layout, q)]
  BY DEF Ended, RebuildInv, DataInv, ProgressInv, FileInv
<1>2. /\ m \in 1 .. Len(layout) /\ c \in Nat
      /\ layout[m].start <= c
      /\ c < layout[m].start + layout[m].length /\ c < layout[m].start + layout[m].raw
      /\ at = layout[m].at + c - layout[m].start
      /\ at \in Nat /\ at # 0
  BY <1>1, RequiredIsPlaced
<1>3. /\ layout[m].start \in Nat /\ layout[m].length \in Nat
      /\ layout[m].at \in Nat /\ layout[m].raw \in Nat
      /\ Ends(m) \in Nat /\ Ends(m) = layout[m].at + layout[m].raw
      /\ layout[m].start + layout[m].length <= image.sizeOfImage
  BY <1>1, <1>2, PlacedIs
<1>. HIDE DEF at
<1>4. /\ layout[m].at <= at /\ at < Ends(m)
      /\ at - layout[m].at < layout[m].length
      /\ layout[m].start + (at - layout[m].at) = c
  <2>1. PICK k \in Nat : k = c - layout[m].start
    BY <1>2, <1>3
  <2>2. at = layout[m].at + k /\ layout[m].start + k = c
    BY <1>2, <1>3, <2>1
  <2>3. k < layout[m].length /\ k < layout[m].raw
    <3>1. \A x, f, l \in Nat : x < f + l => x - f < l
      OBVIOUS
    <3>. QED
      BY <1>2, <1>3, <2>1, <3>1
  <2>. QED
    BY <1>3, <2>2, <2>3
<1>5. at \in 0 .. FileLength(layout) - 1
  <2>1. Ends(m) <= FileEnd(layout) /\ FileEnd(layout) \in Nat
    BY <1>1, <1>2, FileEndIs
  <2>2. FileEnd(layout) <= FileLength(layout) /\ FileLength(layout) \in Nat
    BY <1>1, FileLengthIs
  <2>. QED
    BY <1>2, <1>3, <1>4, <2>1, <2>2
<1>6. file[at] = mapped[c]
  <2>1. file[at] = FileCell(layout, at)
    BY <1>1, <1>5
  <2>2. FileCell(layout, at) = IF at - layout[m].at < layout[m].length
                               THEN mapped[layout[m].start + (at - layout[m].at)] ELSE "zero"
    BY <1>1, <1>2, <1>4, PlacedCell
  <2>. QED
    BY <1>4, <2>1, <2>2
<1>7. mapped[c] = image.cells[c]
  <2>1. image.sizeOfImage \in Nat
    BY <1>1, ImageIs
  <2>2. c \in DOMAIN mapped
    <3>1. \A x, f, l, n \in Nat : x < f + l /\ f + l <= n => x \in 0 .. n - 1
      OBVIOUS
    <3>2. c \in 0 .. image.sizeOfImage - 1
      BY <1>2, <1>3, <2>1, <3>1
    <3>. QED
      BY <1>1, <3>2 DEF DataInv
  <2>3. PICK d \in directories : r \in {d.range, d.payload}
    BY DEF RequiredRanges
  <2>4. Kept(d)
    BY DEF Ended, DirectoryInv
  <2>. QED
    BY <2>2, <2>3, <2>4 DEF Kept, CellsOfDirectory
<1>. QED
  BY <1>2, <1>3, <1>6, <1>7 DEF at

\* Every directory that was retained is in the file as it was recovered, in every section
\* it reaches, and the debug record names the place of its data.
THEOREM DirectoriesAlwaysSurvive == Spec => []DirectoriesSurvive
<1>1. RebuildInv /\ DirectoryInv => DirectoriesSurvive
  <2>. SUFFICES ASSUME RebuildInv, DirectoryInv, pc = "done", DirectoriesAreApart
                PROVE  /\ \A r \in RequiredRanges : \A c \in Cells(r) :
                             /\ FilePosition(layout, c) # 0
                             /\ file[FilePosition(layout, c)] = image.cells[c]
                       /\ \A k \in 0 .. Length(DebugData) - 1 :
                             file[pointer + k] = image.cells[DebugData.from + k]
    BY DEF DirectoriesSurvive
  <2>1. Ended /\ DataInv
    BY DEF Ended, RebuildInv
  <2>2. layout # <<>>
    <3>1. image \in Images /\ Len(layout) = Len(Sections)
      BY DEF RebuildInv, DataInv, ProgressInv
    <3>. QED
      BY <3>1, ImageIs
  <2>3. ASSUME NEW r \in RequiredRanges, NEW c \in Cells(r)
        PROVE  FilePosition(layout, c) # 0 /\ file[FilePosition(layout, c)] = image.cells[c]
    <3>1. PICK m \in DOMAIN Sections : c \in SectionCells(Sections[m])
      BY <2>2 DEF DirectoryInv, InSections
    <3>. QED
      BY <2>1, <3>1, RequiredIsWritten
  <2>4. ASSUME NEW k \in 0 .. Length(DebugData) - 1
        PROVE  file[pointer + k] = image.cells[DebugData.from + k]
    <3>1. DebugData \in Ranges /\ DebugData.from \in Nat /\ DebugData.to \in Nat
      BY <2>1, DebugDataIs DEF Ranges
    <3>2. /\ k \in Nat /\ DebugData.from \in Cells(DebugData)
          /\ DebugData.from + k \in Cells(DebugData)
      BY <3>1 DEF Cells, Length
    <3>3. DebugData # NoRange
      BY <3>2 DEF NoRange, Cells
    <3>4. PICK d \in directories : d.index = "debug" /\ DebugData = d.payload
      BY <3>3 DEF DebugData, DebugRecords
    <3>5. DebugData \in RequiredRanges
      <4>1. DebugData \in {d.range, d.payload}
        BY <3>4
      <4>2. DebugData \in UNION { {e.range, e.payload} : e \in directories }
        BY <4>1
      <4>. QED
        BY <3>3, <4>2 DEF RequiredRanges
    <3>6. PICK m \in DOMAIN Sections : Cells(DebugData) \subseteq SectionCells(Sections[m])
      BY <3>3, <3>4 DEF DirectoryInv, Backed
    <3>7. pointer = FilePosition(layout, DebugData.from)
      BY <3>3 DEF DirectoryInv
    <3>. HIDE DEF DebugData
    <3>8. /\ FilePosition(layout, DebugData.from) = layout[m].at + DebugData.from - layout[m].start
          /\ layout[m].at \in Nat /\ layout[m].start \in Nat
      BY <2>1, <3>2, <3>5, <3>6, RequiredIsWritten
    <3>9. /\ FilePosition(layout, DebugData.from + k)
                = layout[m].at + (DebugData.from + k) - layout[m].start
          /\ file[FilePosition(layout, DebugData.from + k)] = image.cells[DebugData.from + k]
      BY <2>1, <3>2, <3>5, <3>6, RequiredIsWritten
    <3>10. pointer + k = FilePosition(layout, DebugData.from + k)
      <4>1. \A a, b, f, g \in Nat : (a + f - b) + g = a + (f + g) - b
        OBVIOUS
      <4>. QED
        BY <3>1, <3>2, <3>7, <3>8, <3>9, <4>1
    <3>. QED
      BY <3>9, <3>10
  <2>. QED
    BY <2>3, <2>4
<1>. QED
  BY <1>1, DirectoriesAreConsistent, PTL

-----------------------------------------------------------------------------
(***************************************************************************)
(* The relocations are sound.                                               *)
(***************************************************************************)
\* From when they are placed on, the relocations name slots of the image, and nothing but
\* import cells is written any more.
RelocationInv ==
    ~image.pogo /\ pc \in {"relocated", "ready", "serialized", "done"} =>
        /\ relocations.entries \subseteq SlotCells
        /\ SlotsAreApart =>
              /\ \A c \in relocations.entries : HoldsAddress(mapped, c)
              /\ RequiredByTls(image, mapped) \subseteq relocations.entries
        /\ image.declared.effective \ image.destinations \subseteq relocations.entries

\* Slots are cells of the image.
LEMMA SlotsAre ==
  ASSUME image \in Images
  PROVE  /\ SlotCells \subseteq 0 .. image.sizeOfImage - 1
         /\ image.tls \subseteq 0 .. image.sizeOfImage - 1
         /\ SlotsAreApart => SlotCells \intersect IatCells = {}
<1>1. /\ image.declared \in Streams(0 .. image.sizeOfImage - 1)
      /\ image.producers \in Seq(Streams(0 .. image.sizeOfImage - 1))
  BY ReadIs
<1>2. \A i \in DOMAIN image.producers : image.producers[i] \in Streams(0 .. image.sizeOfImage - 1)
  BY <1>1
<1>3. SlotCells \subseteq 0 .. image.sizeOfImage - 1
  BY <1>1, <1>2 DEF SlotCells, Streams
<1>4. image.tls \subseteq 0 .. image.sizeOfImage - 1
  BY ImagesAreTyped DEF IsRead
<1>5. SlotsAreApart => SlotCells \intersect IatCells = {}
  BY DEF SlotsAreApart, SlotCells
<1>. QED
  BY <1>3, <1>4, <1>5

\* Where neither the image nor the relocations change, they stay sound.
LEMMA RelocationsStay ==
  ASSUME RelocationInv, UNCHANGED <<image, mapped, relocations>>,
         pc' \in {"relocated", "ready", "serialized", "done"} /\ ~image.pogo =>
             pc \in {"relocated", "ready", "serialized", "done"}
  PROVE  RelocationInv'
<1>1. /\ SlotCells' = SlotCells /\ (SlotsAreApart' <=> SlotsAreApart)
  BY DEF SlotCells, SlotsAreApart, IatCells
<1>2. /\ RequiredByTls(image, mapped)' = RequiredByTls(image, mapped)
      /\ \A c : HoldsAddress(mapped, c)' <=> HoldsAddress(mapped, c)
  BY DEF RequiredByTls, HoldsAddress
<1>. QED
  BY <1>1, <1>2 DEF RelocationInv

\* The stream is written over itself; its slots hold addresses, and those TLS needs and
\* those of the declared stream that were not written over are among them.
LEMMA PlaceRelocates ==
  ASSUME RebuildInv, PlaceRelocations
  PROVE  RelocationInv'
<1> DEFINE choice == SelectStream(image, mapped)
           entries == Entries(image, choice.stream)
<1>1. CASE Fail("relocations")
  BY <1>1 DEF Fail, RelocationInv
<1>2. CASE /\ UNCHANGED image
           /\ choice.ok /\ EntriesAreValid(image, mapped, choice.stream)
           /\ relocations'.entries = entries
           /\ \/ UNCHANGED mapped
              \/ \E cells \in SUBSET Cells(choice.stream.range) :
                     mapped' = [c \in DOMAIN mapped |->
                                    IF c \in cells THEN "reloc" ELSE mapped[c]]
  <2>1. image \in Images /\ mapped \in [0 .. image.sizeOfImage - 1 -> Values]
    BY DEF RebuildInv, DataInv
  <2>2. /\ choice.stream.effective \subseteq SlotCells
        /\ \A c \in Cells(choice.stream.range) : mapped[c] = "reloc"
    BY <1>2, <2>1, TrustedIs
  <2>3. entries \subseteq SlotCells
    BY <2>2 DEF Entries, Restored, SlotCells
  <2>4. image.declared.effective \ image.destinations \subseteq entries
    BY DEF Entries, Restored
  <2>5. /\ \A c \in entries : HoldsAddress(mapped, c)
        /\ RequiredByTls(image, mapped) \subseteq entries
    BY <1>2 DEF EntriesAreValid
  <2>. HIDE DEF choice, entries
  <2>6. mapped' = mapped
    BY <1>2, <2>1, <2>2
  <2>7. SlotCells' = SlotCells
    BY <1>2 DEF SlotCells
  <2>8. /\ relocations'.entries \subseteq SlotCells'
        /\ \A c \in relocations'.entries : HoldsAddress(mapped', c)
        /\ RequiredByTls(image', mapped') \subseteq relocations'.entries
        /\ image'.declared.effective \ image'.destinations \subseteq relocations'.entries
    BY <1>2, <2>3, <2>4, <2>5, <2>6, <2>7
  <2>. QED
    BY <2>8 DEF RelocationInv
<1>. QED
  BY <1>1, <1>2, PlacementIs

\* No slot is an import cell, so none is filled in.
LEMMA InitializeKeepsRelocations ==
  ASSUME RebuildInv, RelocationInv, InitializeImports
  PROVE  RelocationInv'
<1>1. /\ pc = "relocated" /\ pc' = "ready" /\ mapped' = [c \in DOMAIN mapped |-> ImportCell(c)]
      /\ UNCHANGED <<image, relocations>>
  BY DEF InitializeImports
<1>2. image \in Images /\ DOMAIN mapped = 0 .. image.sizeOfImage - 1
  BY DEF RebuildInv, DataInv
<1>3. \A c \in DOMAIN mapped : c \notin IatCells => mapped'[c] = mapped[c]
  BY <1>1, <1>2, ImportCellIs
<1>4. /\ SlotCells' = SlotCells /\ (SlotsAreApart' <=> SlotsAreApart)
  BY <1>1 DEF SlotCells, SlotsAreApart, IatCells
<1>5. CASE image.pogo
  BY <1>1, <1>5 DEF RelocationInv
<1>6. CASE ~image.pogo
  <2>1. /\ relocations.entries \subseteq SlotCells
        /\ SlotsAreApart =>
              /\ \A c \in relocations.entries : HoldsAddress(mapped, c)
              /\ RequiredByTls(image, mapped) \subseteq relocations.entries
        /\ image.declared.effective \ image.destinations \subseteq relocations.entries
    BY <1>1, <1>6 DEF RelocationInv
  <2>2. ASSUME SlotsAreApart
        PROVE  /\ \A c \in relocations.entries : HoldsAddress(mapped', c)
               /\ RequiredByTls(image, mapped') = RequiredByTls(image, mapped)
    <3>1. \A c \in SlotCells \union image.tls : mapped'[c] = mapped[c]
      <4>1. image.tls \intersect IatCells = {}
        BY <2>2 DEF SlotsAreApart
      <4>. QED
        BY <1>2, <1>3, <2>2, <4>1, SlotsAre
    <3>2. \A c \in relocations.entries : HoldsAddress(mapped', c)
      BY <2>1, <2>2, <3>1 DEF HoldsAddress
    <3>3. { c \in image.tls : mapped'[c] # "zero" } = { c \in image.tls : mapped[c] # "zero" }
      BY <3>1
    <3>4. RequiredByTls(image, mapped') = RequiredByTls(image, mapped)
      BY <3>3 DEF RequiredByTls
    <3>. QED
      BY <3>2, <3>4
  <2>. QED
    BY <1>1, <1>4, <2>1, <2>2 DEF RelocationInv
<1>. QED
  BY <1>5, <1>6

\* Each pass keeps the relocations sound.
LEMMA NextRelocationInv ==
  ASSUME RebuildInv, RelocationInv, [Next]_vars
  PROVE  RelocationInv'
<1> DEFINE placed == {"relocated", "ready", "serialized", "done"}
<1>1. CASE UNCHANGED vars
  BY <1>1, RelocationsStay DEF vars
<1>2. CASE ClearImports
  <2>1. pc' \in {"cleared", "failed"}
    BY <1>2, Zenon DEF ClearImports, Fail
  <2>. QED
    BY <2>1 DEF RelocationInv
<1>3. CASE RecoverDirectories
  <2>1. pc' \in {"recovered", "failed"}
    BY <1>3 DEF RecoverDirectories, Fail
  <2>. QED
    BY <2>1 DEF RelocationInv
<1>4. CASE AdoptLinkerLayout
  <2>1. image.pogo /\ image' = image
    BY <1>4 DEF AdoptLinkerLayout, Fail
  <2>. QED
    BY <2>1 DEF RelocationInv
<1>5. CASE CompactSection
  <2>1. pc = "ready" /\ UNCHANGED <<image, mapped, relocations>>
    BY <1>5, Zenon DEF CompactSection, Fail
  <2>. QED
    BY <2>1, RelocationsStay
<1>6. CASE Serialize
  <2>1. pc = "ready" /\ UNCHANGED <<image, mapped, relocations>>
    BY <1>6, Zenon DEF Serialize, Fail
  <2>. QED
    BY <2>1, RelocationsStay
<1>7. CASE Verify
  <2>1. pc = "serialized" /\ UNCHANGED <<image, mapped, relocations>>
    BY <1>7, Zenon DEF Verify, Fail
  <2>. QED
    BY <2>1, RelocationsStay
<1>8. CASE Stopped
  BY <1>8, RelocationsStay DEF Stopped, vars
<1>. QED
  BY <1>1, <1>2, <1>3, <1>4, <1>5, <1>6, <1>7, <1>8, PlaceRelocates, InitializeKeepsRelocations
     DEF Next

\* Every cell the relocations name holds an address in the final image, TLS is covered, and
\* no declared relocation is lost except where the payload wrote over it.
THEOREM RelocationsAlwaysSound == Spec => []RelocationsAreSound
<1>1. Init => RelocationInv
  BY DEF Init, RelocationInv
<1>2. RebuildInv /\ RelocationInv /\ [Next]_vars => RelocationInv'
  BY NextRelocationInv
<1>3. RelocationInv => RelocationsAreSound
  BY DEF RelocationInv, RelocationsAreSound
<1>. QED
  BY <1>1, <1>2, <1>3, RebuildIsConsistent, PTL DEF Spec

-----------------------------------------------------------------------------
(***************************************************************************)
(* A well-formed image is rebuilt.                                          *)
(***************************************************************************)
\* No descriptor of a graph that was found is left.
StaleIsGone == \A g \in image.stale : \A c \in Cells(g.meta) : mapped[c] # "stale"

\* The stream that was placed is in a section, or it is the front of what is generated;
\* what it names lies in sections.
IsSlot(c) == Housed([from |-> c, to |-> c + 1])
InPlace ==
    /\ Backed(Sections, relocations.directory)
    /\ \A c \in Cells(relocations.directory) : mapped[c] = "reloc" /\ c \notin IatCells
InFront ==
    /\ relocations.directory =
          [from |-> GeneratedAt, to |-> GeneratedAt + relocations.prefix]
    /\ relocations.prefix # 0
StreamIsPlaced ==
    relocations.entries # {} =>
        /\ \A c \in relocations.entries : IsSlot(c)
        /\ InPlace \/ InFront

\* What each pass leaves to the next, of a well-formed image.
RequiredIsHeld == \A r \in RequiredRanges : Cells(r) # {} /\ InSections(Cells(r))
LinkedInv == mapped = image.cells /\ relocations = NoRelocations
ClearedInv ==
    /\ pc # "start" => StaleIsGone
    /\ pc \in {"start", "cleared", "recovered"} =>
          /\ relocations = NoRelocations
          /\ \A c \in DOMAIN mapped : c \notin MayBeCleared => mapped[c] = image.cells[c]
    /\ pc \in {"relocated", "ready", "serialized"} => StreamIsPlaced
    /\ pc \in {"ready", "serialized"} => export = ExportIn(Sections, mapped)
GoesWell ==
    /\ pc # "failed" /\ RequiredIsHeld
    /\ IF image.pogo THEN LinkedInv ELSE ClearedInv
WellInv == IsWellFormed => GoesWell

\* What is asked of an image says nothing of what is done to it.
LEMMA ImageStays ==
  ASSUME UNCHANGED image
  PROVE  /\ IsWellFormed' <=> IsWellFormed
         /\ Sections' = Sections /\ GeneratedAt' = GeneratedAt
         /\ IatCells' = IatCells /\ MayBeCleared' = MayBeCleared
         /\ \A c : IsSlot(c)' <=> IsSlot(c)
         /\ \A r : Backed(Sections, r)' <=> Backed(Sections, r)
         /\ \A cells : InSections(cells)' <=> InSections(cells)
<1>1. Sections' = Sections /\ GeneratedAt' = GeneratedAt
  BY DEF Sections, GeneratedAt
<1>2. /\ IatCells' = IatCells /\ OwnImports' = OwnImports
  BY DEF IatCells, OwnImports
<1>3. MayBeCleared' = MayBeCleared /\ ImportCells' = ImportCells
  BY <1>2 DEF MayBeCleared, ImportCells
<1>4. \A r : Backed(Sections, r)' <=> Backed(Sections, r)
  BY <1>1 DEF Backed, SectionCells
<1>5. \A cells : InSections(cells)' <=> InSections(cells)
  BY <1>1 DEF InSections, SectionCells
<1>6. \A r : Housed(r)' <=> Housed(r)
  BY <1>1 DEF Housed
<1>7. \A c : IsSlot(c)' <=> IsSlot(c)
  BY <1>6 DEF IsSlot
<1>8. SectionsHoldAll' <=> SectionsHoldAll
  <2>1. \A c : InSection(c)' <=> InSection(c)
    BY <1>1 DEF InSection, SectionCells
  <2>2. HoldsInSections(image.cells)' <=> HoldsInSections(image.cells)
    BY <2>1 DEF HoldsInSections
  <2>. QED
    BY <1>1, <2>2 DEF SectionsHoldAll
<1>9. GraphsAgree' <=> GraphsAgree
  <2>1. \A g : Readable(Sections, image.cells, g)' <=> Readable(Sections, image.cells, g)
    BY <1>4 DEF Readable
  <2>. QED
    BY <2>1 DEF GraphsAgree
<1>10. ImportsAreWellFormed' <=> ImportsAreWellFormed
  <2>1. IatDirectory' = IatDirectory
    BY DEF IatDirectory
  <2>2. /\ Housed(IatDirectory)' <=> Housed(IatDirectory)
        /\ Housed(image.export)' <=> Housed(image.export)
    BY <1>1, <2>1 DEF Housed
  <2>. QED
    BY <1>2, <1>6, <1>9, <2>2 DEF ImportsAreWellFormed
<1>11. DirectoriesAreWellFormed' <=> DirectoriesAreWellFormed
  BY <1>3, <1>5, <1>6 DEF DirectoriesAreWellFormed
<1>12. RelocationsAreWellFormed' <=> RelocationsAreWellFormed
  <2>1. \A s : IsIntact(s)' <=> IsIntact(s)
    BY <1>3, <1>6 DEF IsIntact
  <2>2. IsIntact(image.declared)' <=> IsIntact(image.declared)
    BY <1>3, <1>6 DEF IsIntact
  <2>3. \A i \in DOMAIN image.producers : IsIntact(image.producers[i])' <=> IsIntact(image.producers[i])
    BY <1>3, <1>6 DEF IsIntact
  <2>4. StreamsAgree' <=> StreamsAgree
    BY DEF StreamsAgree, Produced
  <2>. QED
    BY <2>2, <2>3, <2>4 DEF RelocationsAreWellFormed
<1>13. IsWellFormed' <=> IsWellFormed
  BY <1>8, <1>10, <1>11, <1>12 DEF IsWellFormed
<1>. QED
  BY <1>1, <1>2, <1>3, <1>4, <1>5, <1>7, <1>13

\* What is in a section is in the image.
LEMMA BackedIsInImage ==
  ASSUME image \in Images, NEW r, Backed(Sections, r)
  PROVE  /\ Cells(r) # {} /\ InSections(Cells(r))
         /\ Cells(r) \subseteq image.sizeOfHeaders .. image.sizeOfImage - 1
<1>1. PICK i \in DOMAIN Sections : Cells(r) # {} /\ Cells(r) \subseteq SectionCells(Sections[i])
  BY DEF Backed
<1>2. SectionCells(Sections[i]) \subseteq image.sizeOfHeaders .. image.sizeOfImage - 1
  BY ImagesAreTyped DEF IsLaidOut, Sections
<1>. QED
  BY <1>1, <1>2 DEF InSections

\* What lies within the virtual size of a section is backed by it.
LEMMA HousedIsBacked ==
  ASSUME image \in Images, NEW r, Housed(r), Cells(r) # {}
  PROVE  Backed(Sections, r)
<1>1. PICK i \in DOMAIN Sections :
          Cells(r) \subseteq Sections[i].start .. Sections[i].start + Sections[i].virtual - 1
  BY DEF Housed
<1>2. Sections[i].start \in Nat /\ Sections[i].virtual \in Nat /\ Sections[i].raw \in Nat
  BY SectionIs
<1>3. \A s, v, w \in Nat : s .. s + v - 1 \subseteq s .. s + Larger(v, w) - 1
  BY DEF Larger
<1>4. Sections[i].start .. Sections[i].start + Sections[i].virtual - 1
          \subseteq SectionCells(Sections[i])
  BY <1>2, <1>3 DEF SectionCells
<1>. QED
  BY <1>1, <1>4 DEF Backed

\* And stays so in the file, whose sections keep their virtual size.
LEMMA HousedIsWritten ==
  ASSUME Written, NEW r, Housed(r), Cells(r) # {}
  PROVE  Backed(WrittenSections, r)
<1>1. PICK i \in DOMAIN Sections :
          Cells(r) \subseteq Sections[i].start .. Sections[i].start + Sections[i].virtual - 1
  BY DEF Housed
<1>2. /\ DataInv /\ LayoutInv /\ image \in Images /\ Len(layout) = Len(Sections)
  BY WrittenInv
<1>3. i \in 1 .. Len(layout)
  BY <1>2, ImageIs
<1>4. /\ i \in DOMAIN WrittenSections
      /\ WrittenSections[i].start = Sections[i].start
      /\ WrittenSections[i].virtual = Sections[i].virtual
      /\ WrittenSections[i].raw \in Nat
  BY <1>2, <1>3, WrittenIs, PlacedIs
<1>5. Sections[i].start \in Nat /\ Sections[i].virtual \in Nat
  BY <1>2, SectionIs
<1>6. \A s, v, w \in Nat : s .. s + v - 1 \subseteq s .. s + Larger(v, w) - 1
  BY DEF Larger
<1>7. Sections[i].start .. Sections[i].start + Sections[i].virtual - 1
          \subseteq SectionCells(WrittenSections[i])
  BY <1>4, <1>5, <1>6 DEF SectionCells
<1>. QED
  BY <1>1, <1>4, <1>7 DEF Backed

-----------------------------------------------------------------------------
\* Of finitely many graphs one has the most modules.
LEMMA WinnersExist ==
  ASSUME NEW graphs \in SUBSET Graphs, IsFiniteSet(graphs), graphs # {}
  PROVE  Winners(graphs) # {}
<1> DEFINE Lost(G) == G # {} /\ Winners(G) = {}
           T == {k \in Nat : \E G \in SUBSET graphs :
                                IsFiniteSet(G) /\ Cardinality(G) = k /\ Lost(G)}
<1>1. SUFFICES ASSUME Lost(graphs) PROVE FALSE
  OBVIOUS
<1>2. Cardinality(graphs) \in T
  BY <1>1, FS_CardinalityType
<1>3. PICK k \in T : \A l \in T : k <= l
  <2>1. T \in SUBSET Nat /\ T # {}
    BY <1>2
  <2>. HIDE DEF T
  <2>. QED
    BY <2>1, LeastElement
<1>4. PICK G \in SUBSET graphs : IsFiniteSet(G) /\ Cardinality(G) = k /\ Lost(G)
  BY <1>3
<1>5. PICK g \in G : TRUE
  BY <1>4
<1> DEFINE H == G \ {g}
<1>6. IsFiniteSet(H) /\ Cardinality(H) = k - 1 /\ k \in Nat
  BY <1>3, <1>4, <1>5, FS_RemoveElement
<1>7. Cardinality(H) \in Nat /\ ~(k <= Cardinality(H))
  BY <1>6, FS_CardinalityType
<1>8. ~Lost(H)
  BY <1>3, <1>6, <1>7
<1>9. \A h \in G : Len(h.modules) \in Nat
  BY DEF Graphs
<1>10. CASE H = {}
  <2>1. g \in Winners(G)
    BY <1>9, <1>10 DEF Winners
  <2>. QED
    BY <1>4, <2>1
<1>11. CASE H # {}
  <2>1. PICK h \in H : \A x \in H : Len(x.modules) <= Len(h.modules)
    BY <1>8, <1>11 DEF Winners
  <2>2. CASE Len(g.modules) <= Len(h.modules)
    <3>1. h \in Winners(G)
      BY <2>1, <2>2 DEF Winners
    <3>. QED
      BY <1>4, <3>1
  <2>3. CASE ~(Len(g.modules) <= Len(h.modules))
    <3>1. \A x \in G : Len(x.modules) <= Len(g.modules)
      BY <1>9, <2>1, <2>3
    <3>2. g \in Winners(G)
      BY <3>1 DEF Winners
    <3>. QED
      BY <1>4, <3>2
  <2>. QED
    BY <2>2, <2>3
<1>. QED
  BY <1>10, <1>11

\* The first of those is selected.
LEMMA WinnerIs ==
  ASSUME NEW graphs \in SUBSET Graphs, IsFiniteSet(graphs), graphs # {}
  PROVE  /\ Winner(graphs) \in graphs
         /\ \A g \in graphs : Len(g.modules) <= Len(Winner(graphs).modules)
<1> DEFINE W == Winners(graphs)
           T == {n \in Nat : \E g \in W : g.meta.from = n}
<1>1. PICK w \in W : TRUE
  BY WinnersExist
<1>2. \A g \in W : g.meta.from \in Nat
  BY DEF Winners, Graphs, Ranges
<1>3. PICK n \in T : \A m \in T : n <= m
  <2>1. T \in SUBSET Nat /\ T # {}
    BY <1>1, <1>2
  <2>. HIDE DEF T
  <2>. QED
    BY <2>1, LeastElement
<1>4. \E g \in W : \A h \in W : g.meta.from <= h.meta.from
  <2>1. PICK g \in W : g.meta.from = n
    BY <1>3
  <2>2. \A h \in W : h.meta.from \in T
    BY <1>2
  <2>. QED
    BY <1>3, <2>1, <2>2
<1>5. Winner(graphs) \in W
  BY <1>4 DEF Winner
<1>. QED
  BY <1>5 DEF Winners

\* A sequence that is as long as a part of it is that part.
LEMMA WindowOfEqualLength ==
  ASSUME NEW S, NEW p \in Seq(S), NEW q \in Seq(S), IsWindow(p, q), Len(q) <= Len(p)
  PROVE  p = q
<1>1. Len(p) \in Nat /\ Len(q) \in Nat
  OBVIOUS
<1>2. PICK i \in 0 .. Len(q) - Len(p) : SubSeq(q, i + 1, i + Len(p)) = p
  BY DEF IsWindow
<1>3. i = 0 /\ Len(p) = Len(q)
  BY <1>1, <1>2
<1>4. SubSeq(q, 1, Len(q)) = p
  BY <1>1, <1>2, <1>3
<1>5. SubSeq(q, 1, Len(q)) = q
  OBVIOUS
<1>. QED
  BY <1>4, <1>5

\* Every sequence is a part of itself.
LEMMA WindowOfItself ==
  ASSUME NEW S, NEW p \in Seq(S)
  PROVE  IsWindow(p, p)
<1>1. Len(p) \in Nat /\ Len(p) - Len(p) = 0 /\ 0 + 1 = 1 /\ 0 + Len(p) = Len(p)
  OBVIOUS
<1>2. SubSeq(p, 1, Len(p)) = p
  OBVIOUS
<1>3. 0 \in 0 .. 0
  OBVIOUS
<1>. QED
  BY <1>1, <1>2, <1>3 DEF IsWindow

\* The modules of a graph, each with its address, are as many as their names.
LEMMA ModulesAre ==
  ASSUME NEW g \in Graphs
  PROVE  /\ ModulesOf(g) \in Seq(STRING \X Nat)
         /\ Len(ModulesOf(g)) = Len(g.modules)
<1>1. /\ g.iats \in Seq(Ranges) /\ g.modules \in Seq(STRING)
      /\ Len(g.iats) = Len(g.modules) /\ Len(g.modules) \in Nat
  BY DEF Graphs
<1>2. ASSUME NEW n \in 1 .. Len(g.modules)
      PROVE  <<g.modules[n], g.iats[n].from>> \in STRING \X Nat
  BY <1>1 DEF Ranges
<1>3. DOMAIN g.modules = 1 .. Len(g.modules)
  BY <1>1
<1>4. ModulesOf(g) \in [1 .. Len(g.modules) -> STRING \X Nat]
  BY <1>2, <1>3 DEF ModulesOf
<1>5. ModulesOf(g) \in Seq(STRING \X Nat)
  BY <1>1, <1>4, SeqDef
<1>. QED
  BY <1>1, <1>4, <1>5, LenProperties

\* Graphs that are parts of one do not compete.
LEMMA AgreeingDoNotCompete ==
  ASSUME NEW graphs \in SUBSET Graphs, IsFiniteSet(graphs), graphs # {},
         \A g, h \in graphs : \/ IsWindow(ModulesOf(g), ModulesOf(h))
                             \/ IsWindow(ModulesOf(h), ModulesOf(g))
  PROVE  ~Competing(graphs)
<1> DEFINE w == Winner(graphs)
<1>1. w \in graphs /\ \A g \in graphs : Len(g.modules) <= Len(w.modules)
  BY WinnerIs
<1>. HIDE DEF w
<1>2. \A g \in graphs : /\ ModulesOf(g) \in Seq(STRING \X Nat)
                         /\ Len(ModulesOf(g)) = Len(g.modules)
  BY ModulesAre
<1>3. ASSUME NEW g \in graphs
      PROVE  IsWindow(ModulesOf(g), ModulesOf(w))
  <2>1. CASE IsWindow(ModulesOf(w), ModulesOf(g))
    <3>1. ModulesOf(w) = ModulesOf(g)
      BY <1>1, <1>2, <2>1, WindowOfEqualLength
    <3>. QED
      BY <2>1, <3>1
  <2>. QED
    BY <1>1, <2>1
<1>. QED
  BY <1>3 DEF Competing, w

-----------------------------------------------------------------------------
\* A pass that leaves the directories leaves what they require where it is.
LEMMA RequiredStays ==
  ASSUME RequiredIsHeld, UNCHANGED <<image, directories>>
  PROVE  RequiredIsHeld'
<1>1. RequiredRanges' = RequiredRanges
  BY DEF RequiredRanges
<1>2. \A cells : InSections(cells)' <=> InSections(cells)
  BY ImageStays
<1>. QED
  BY <1>1, <1>2 DEF RequiredIsHeld

\* The import cells are in the image, and are backed where they are housed.
LEMMA IatsAreBacked ==
  ASSUME image \in Images, IsWellFormed
  PROVE  /\ Backed(Sections, IatDirectory)
         /\ \A n \in DOMAIN image.iats :
               Cells(image.iats[n]) # {} /\ Housed(image.iats[n])
<1>1. Housed(IatDirectory)
  BY DEF IsWellFormed, ImportsAreWellFormed
<1>2. \A n \in DOMAIN image.iats : Cells(image.iats[n]) # {}
  BY ImagesAreTyped DEF IsRead
<1>3. \A n \in DOMAIN image.iats : Cells(image.iats[n]) \subseteq Cells(IatDirectory)
  BY HullCovers DEF IatCells
<1>4. DOMAIN image.iats # {}
  BY IatIs
<1>5. Cells(IatDirectory) # {}
  BY <1>2, <1>3, <1>4
<1>6. Backed(Sections, IatDirectory)
  BY <1>1, <1>5, HousedIsBacked
<1>7. ASSUME NEW n \in DOMAIN image.iats
      PROVE  Housed(image.iats[n])
  <2>1. Cells(image.iats[n]) \subseteq Cells(IatDirectory)
    BY <1>3
  <2>. QED
    BY <1>1, <2>1 DEF Housed
<1>. QED
  BY <1>2, <1>6, <1>7

\* The graphs that were found are of their kind, and finitely many.
LEMMA StaleIs ==
  ASSUME image \in Images
  PROVE  image.stale \in SUBSET Graphs /\ IsFiniteSet(image.stale)
BY ImagesAreTyped DEF IsRead

\* All graphs are still there when imports are cleared, and all are cleared.
LEMMA AllStaleIsCleared ==
  ASSUME image \in Images, IsWellFormed, mapped = image.cells, ~image.pogo,
         NEW g \in image.stale
  PROVE  Cells(g.meta) \subseteq Cleared
<1>1. /\ Readable(Sections, image.cells, g)
      /\ image.profile = "EncodedLoader" \/ g.modules = image.modules
  BY DEF IsWellFormed, ImportsAreWellFormed, GraphsAgree
<1>2. g \in Candidates(Sections, mapped)
  BY <1>1 DEF Candidates
<1>3. g \in Stale
  BY <1>1, <1>2 DEF Stale
<1>. QED
  BY <1>3 DEF Cleared, CellsOf

\* Clearing the imports of a well-formed image goes well.
LEMMA ClearGoesWell ==
  ASSUME RebuildInv, IsWellFormed, GoesWell, ClearImports
  PROVE  GoesWell'
<1>1. /\ image \in Images /\ pc = "start" /\ ~image.pogo /\ mapped = image.cells
      /\ mapped \in [0 .. image.sizeOfImage - 1 -> Values]
  BY DEF RebuildInv, DataInv, ProgressInv, ClearImports
<1>2. Backed(Sections, IatDirectory)
  BY <1>1, IatsAreBacked
<1>3. ASSUME image.profile = "EncodedLoader", Stale # {}
      PROVE  ~Competing(Stale)
  <2>1. Stale \in SUBSET Graphs /\ IsFiniteSet(Stale)
    BY <1>1, StaleIs, StaleIsFound, FS_Subset
  <2>2. \A g, h \in Stale : \/ IsWindow(ModulesOf(g), ModulesOf(h))
                            \/ IsWindow(ModulesOf(h), ModulesOf(g))
    BY <1>3, StaleIsFound DEF IsWellFormed, ImportsAreWellFormed, GraphsAgree
  <2>. QED
    BY <1>3, <2>1, <2>2, AgreeingDoNotCompete
<1>4. /\ mapped' = [c \in DOMAIN mapped |-> IF c \in Cleared THEN "zero" ELSE mapped[c]]
      /\ pc' = "cleared"
      /\ UNCHANGED <<image, directories, relocations>>
  BY <1>2, <1>3 DEF ClearImports
<1>5. Cleared \subseteq MayBeCleared
  BY StaleIsFound DEF Cleared, MayBeCleared
<1>6. MayBeCleared' = MayBeCleared
  BY <1>4, ImageStays
<1>7. \A c \in DOMAIN mapped' : c \notin MayBeCleared' => mapped'[c] = image'.cells[c]
  BY <1>1, <1>4, <1>5, <1>6
<1>8. StaleIsGone'
  <2>1. SUFFICES ASSUME NEW g \in image.stale, NEW c \in Cells(g.meta)
                 PROVE  mapped'[c] # "stale"
    BY <1>4 DEF StaleIsGone
  <2>2. c \in Cleared
    BY <1>1, AllStaleIsCleared
  <2>3. Backed(Sections, g.meta)
    BY DEF IsWellFormed, ImportsAreWellFormed, GraphsAgree, Readable
  <2>4. c \in DOMAIN mapped
    <3>1. c \in image.sizeOfHeaders .. image.sizeOfImage - 1
      BY <1>1, <2>3, BackedIsInImage
    <3>2. image.sizeOfHeaders \in Nat /\ image.sizeOfImage \in Nat
      BY <1>1, ImageIs
    <3>. QED
      BY <1>1, <3>1, <3>2
  <2>. QED
    BY <1>4, <2>2, <2>4
<1>9. relocations' = NoRelocations
  BY <1>1, <1>4 DEF GoesWell, ClearedInv
<1>10. ClearedInv'
  <2>1. pc' = "cleared" /\ NoRelocations' = NoRelocations
    BY <1>4 DEF NoRelocations
  <2>. QED
    BY <1>7, <1>8, <1>9, <2>1 DEF ClearedInv
<1>11. RequiredIsHeld'
  BY <1>4, RequiredStays DEF GoesWell
<1>. QED
  BY <1>1, <1>4, <1>10, <1>11 DEF GoesWell

-----------------------------------------------------------------------------
\* The directories of a well-formed image lie in its sections.
LEMMA WellDirectory ==
  ASSUME image \in Images, IsWellFormed, NEW d \in image.directories
  PROVE  /\ d \in DirectoryTable
         /\ Cells(d.range) # {} /\ InSections(Cells(d.range))
         /\ d.index # "resource" => Backed(Sections, d.range)
         /\ d.payload = NoRange \/ (Cells(d.payload) # {} /\ Backed(Sections, d.payload))
         /\ image.pogo \/ d.index \in {"exception", "debug", "resource", "tls"}
         /\ image.pogo \/ Cells(d.range) \intersect ImportCells = {}
<1>1. d \in DirectoryTable
  BY ReadIs
<1>2. /\ Cells(d.range) # {} /\ (d.payload = NoRange \/ Cells(d.payload) # {})
      /\ image.pogo \/ d.index \notin {"import", "iat"}
  BY ImagesAreTyped DEF IsRead
<1>3. image.pogo \/ d.index \in {"exception", "debug", "resource", "tls"}
  BY <1>1, <1>2 DEF DirectoryTable
<1>4. /\ Housed(d.payload)
      /\ IF d.index = "resource" THEN InSections(Cells(d.range)) ELSE Housed(d.range)
      /\ ~image.pogo => Cells(d.range) \intersect ImportCells = {}
  BY DEF IsWellFormed, DirectoriesAreWellFormed
<1>5. d.index # "resource" => Backed(Sections, d.range)
  BY <1>2, <1>4, HousedIsBacked
<1>6. InSections(Cells(d.range))
  BY <1>4, <1>5, BackedIsInImage
<1>7. d.payload = NoRange \/ (Cells(d.payload) # {} /\ Backed(Sections, d.payload))
  BY <1>2, <1>4, HousedIsBacked
<1>. QED
  BY <1>1, <1>2, <1>3, <1>4, <1>5, <1>6, <1>7

\* What lies in sections lies in the image.
LEMMA InSectionsIsInImage ==
  ASSUME image \in Images, NEW cells, InSections(cells)
  PROVE  cells \subseteq 0 .. image.sizeOfImage - 1
<1>1. \A n \in DOMAIN Sections :
          SectionCells(Sections[n]) \subseteq image.sizeOfHeaders .. image.sizeOfImage - 1
  BY ImagesAreTyped DEF IsLaidOut, Sections
<1>2. image.sizeOfHeaders \in Nat /\ image.sizeOfImage \in Nat
  BY ImageIs
<1>3. image.sizeOfHeaders .. image.sizeOfImage - 1 \subseteq 0 .. image.sizeOfImage - 1
  BY <1>2
<1>. QED
  BY <1>1, <1>3 DEF InSections

\* What is trimmed of a table of runtime functions is its end.
LEMMA TrimmedIs ==
  ASSUME NEW r \in Ranges, Holds(r) # {}
  PROVE  /\ Cells(Trimmed(r)) # {} /\ Cells(Trimmed(r)) \subseteq Cells(r)
<1> DEFINE T == Holds(r)
           c == CHOOSE x \in T : \A y \in T : x <= y
<1>1. r.from \in Nat /\ r.to \in Nat /\ DOMAIN r = {"from", "to"}
  BY DEF Ranges
<1>2. T \subseteq r.from .. r.to - 1
  BY DEF Holds, Cells
<1>3. T \in SUBSET Nat
  BY <1>1, <1>2
<1>. HIDE DEF T
<1>4. \E x \in T : \A y \in T : x <= y
  BY <1>3, LeastElement DEF T
<1>5. c \in T
  BY <1>4
<1>6. Trimmed(r) = [r EXCEPT !.from = c]
  BY DEF Trimmed, T
<1>. HIDE DEF c
<1>7. Trimmed(r).from = c /\ Trimmed(r).to = r.to
  BY <1>1, <1>6 DEF Ranges
<1>8. c \in r.from .. r.to - 1
  BY <1>2, <1>5
<1>9. c .. r.to - 1 \subseteq r.from .. r.to - 1 /\ c \in c .. r.to - 1
  BY <1>1, <1>8
<1>. QED
  BY <1>7, <1>9 DEF Cells

\* No directory is refused, and what is kept of it is in sections.
LEMMA WellJudged ==
  ASSUME image \in Images, IsWellFormed, ~image.pogo, NEW d \in image.directories,
         mapped \in [0 .. image.sizeOfImage - 1 -> Values],
         \A c \in DOMAIN mapped : c \notin ImportCells => mapped[c] = image.cells[c]
  PROVE  /\ Judged(d) # "refuse"
         /\ Judged(d) = "keep" =>
               /\ Cells(Retained(d).range) # {} /\ InSections(Cells(Retained(d).range))
               /\ Retained(d).payload = d.payload
<1>1. /\ d \in DirectoryTable
      /\ Cells(d.range) # {} /\ InSections(Cells(d.range))
      /\ d.index # "resource" => Backed(Sections, d.range)
      /\ d.payload = NoRange \/ (Cells(d.payload) # {} /\ Backed(Sections, d.payload))
      /\ d.index \in {"exception", "debug", "resource", "tls"}
      /\ Cells(d.range) \intersect ImportCells = {}
  BY WellDirectory
<1>2. Intact(d.range)
  <2>1. Cells(d.range) \subseteq DOMAIN mapped
    BY <1>1, InSectionsIsInImage
  <2>. QED
    BY <1>1, <2>1 DEF Intact
<1>3. CASE d.index = "exception"
  <2> DEFINE t == Trimmed(d.range)
  <2>1. d.range \in Ranges
    BY <1>1 DEF DirectoryTable
  <2>2. Retained(d).range = t /\ Retained(d).payload = d.payload
    BY <1>1, <1>3 DEF Retained, DirectoryTable
  <2>3. CASE Holds(d.range) = {}
    <3>1. t = NoRange
      BY <2>3 DEF Trimmed
    <3>2. Judged(d) = "drop"
      BY <1>3, <3>1, Zenon DEF Judged
    <3>. QED
      BY <3>2
  <2>4. CASE Holds(d.range) # {}
    <3>1. Cells(t) # {} /\ Cells(t) \subseteq Cells(d.range)
      BY <2>1, <2>4, TrimmedIs
    <3>. HIDE DEF t
    <3>2. Intact(t) /\ Backed(Sections, t) /\ InSections(Cells(t))
      BY <1>1, <1>2, <1>3, <3>1 DEF Intact, Backed, InSections
    <3>3. Judged(d) \in {"drop", "keep"}
      BY <1>3, <3>2, Zenon DEF Judged, t
    <3>. QED
      BY <2>2, <3>1, <3>2, <3>3
  <2>. QED
    BY <2>3, <2>4
<1>4. CASE d.index # "exception"
  <2>1. Retained(d) = d
    BY <1>4 DEF Retained
  <2>2. Judged(d) # "refuse"
    <3>1. CASE d.index = "debug"
      <4>1. DebugIsBacked(d) /\ Backed(Sections, d.range)
        BY <1>1, <3>1 DEF DebugIsBacked
      <4>2. Judged(d) \in {"drop", "keep"}
        BY <1>2, <3>1, <4>1, Zenon DEF Judged
      <4>. QED
        BY <4>2
    <3>2. CASE d.index = "resource"
      <4>1. InSections(Holds(d.range))
        BY <1>1 DEF InSections, Holds
      <4>2. Judged(d) = "keep"
        BY <1>2, <3>2, <4>1 DEF Judged
      <4>. QED
        BY <4>2
    <3>3. CASE d.index = "tls"
      BY <1>1, <3>3 DEF Judged
    <3>. QED
      BY <1>1, <1>4, <3>1, <3>2, <3>3
  <2>. QED
    BY <1>1, <2>1, <2>2
<1>. QED
  BY <1>3, <1>4

\* Recovering the directories of a well-formed image goes well.
LEMMA RecoverGoesWell ==
  ASSUME RebuildInv, DirectoryInv, IsWellFormed, GoesWell, RecoverDirectories
  PROVE  GoesWell'
<1>1. /\ image \in Images /\ pc = "cleared" /\ ~image.pogo
      /\ mapped \in [0 .. image.sizeOfImage - 1 -> Values]
      /\ \A c \in DOMAIN mapped : c \notin ImportCells => mapped[c] = image.cells[c]
  BY DEF RebuildInv, DataInv, DirectoryInv, RecoverDirectories
<1>2. \A d \in image.directories :
          /\ Judged(d) # "refuse"
          /\ Judged(d) = "keep" =>
                /\ Cells(Retained(d).range) # {} /\ InSections(Cells(Retained(d).range))
                /\ Retained(d).payload = d.payload
  BY <1>1, WellJudged
<1>3. /\ directories' = { Retained(d) : d \in { e \in image.directories : Judged(e) = "keep" } }
      /\ pc' = "recovered" /\ UNCHANGED <<image, mapped, relocations>>
  BY <1>2 DEF RecoverDirectories
<1>4. ASSUME NEW r \in RequiredRanges'
      PROVE  Cells(r) # {} /\ InSections(Cells(r))
  <2>1. PICK e \in directories' : r \in {e.range, e.payload} /\ r # NoRange
    BY DEF RequiredRanges
  <2>2. PICK d \in image.directories : Judged(d) = "keep" /\ e = Retained(d)
    BY <1>3, <2>1
  <2>3. /\ Cells(e.range) # {} /\ InSections(Cells(e.range)) /\ e.payload = d.payload
    BY <1>2, <2>2
  <2>4. d.payload = NoRange \/ (Cells(d.payload) # {} /\ InSections(Cells(d.payload)))
    BY <1>1, WellDirectory, BackedIsInImage
  <2>. QED
    BY <2>1, <2>3, <2>4
<1>5. RequiredIsHeld'
  <2>1. \A cells : InSections(cells)' <=> InSections(cells)
    BY <1>3, ImageStays
  <2>. QED
    BY <1>4, <2>1 DEF RequiredIsHeld
<1>6. ClearedInv'
  <2>1. StaleIsGone' <=> StaleIsGone
    BY <1>3 DEF StaleIsGone
  <2>2. MayBeCleared' = MayBeCleared /\ NoRelocations' = NoRelocations
    BY <1>3, ImageStays DEF NoRelocations
  <2>. QED
    BY <1>1, <1>3, <2>1, <2>2 DEF GoesWell, ClearedInv
<1>. QED
  BY <1>1, <1>3, <1>5, <1>6 DEF GoesWell

\* So does taking over the layout of the linker.
LEMMA AdoptGoesWell ==
  ASSUME RebuildInv, IsWellFormed, GoesWell, AdoptLinkerLayout
  PROVE  GoesWell'
<1>1. image \in Images /\ image.pogo /\ pc = "start"
  BY DEF RebuildInv, DataInv, AdoptLinkerLayout
<1>2. \A d \in image.directories :
          /\ d.index = "debug" => DebugIsBacked(d)
          /\ Cells(d.range) # {} /\ InSections(Cells(d.range))
          /\ d.payload = NoRange \/ (Cells(d.payload) # {} /\ InSections(Cells(d.payload)))
  <2>1. SUFFICES ASSUME NEW d \in image.directories
                 PROVE  /\ d.index = "debug" => DebugIsBacked(d)
                        /\ Cells(d.range) # {} /\ InSections(Cells(d.range))
                        /\ d.payload = NoRange
                           \/ (Cells(d.payload) # {} /\ InSections(Cells(d.payload)))
    OBVIOUS
  <2>2. /\ Cells(d.range) # {} /\ InSections(Cells(d.range))
        /\ d.index # "resource" => Backed(Sections, d.range)
        /\ d.payload = NoRange \/ (Cells(d.payload) # {} /\ Backed(Sections, d.payload))
    BY <1>1, WellDirectory
  <2>3. d.index = "debug" => DebugIsBacked(d)
    BY <2>2 DEF DebugIsBacked
  <2>4. d.payload = NoRange \/ InSections(Cells(d.payload))
    BY <1>1, <2>2, BackedIsInImage
  <2>. QED
    BY <2>2, <2>3, <2>4
<1>3. /\ directories' = image.directories /\ pc' = "ready"
      /\ UNCHANGED <<image, mapped, relocations>>
  BY <1>2 DEF AdoptLinkerLayout
<1>4. RequiredIsHeld'
  <2>1. \A cells : InSections(cells)' <=> InSections(cells)
    BY <1>3, ImageStays
  <2>2. \A r \in RequiredRanges' : Cells(r) # {} /\ InSections(Cells(r))
    BY <1>2, <1>3 DEF RequiredRanges
  <2>. QED
    BY <2>1, <2>2 DEF RequiredIsHeld
<1>5. LinkedInv'
  BY <1>1, <1>3 DEF GoesWell, LinkedInv, NoRelocations
<1>. QED
  BY <1>1, <1>3, <1>4, <1>5 DEF GoesWell

-----------------------------------------------------------------------------
\* The graphs that were found lie in the image.
LEMMA StaleIsInImage ==
  ASSUME RebuildInv, IsWellFormed, NEW g \in image.stale
  PROVE  Cells(g.meta) \subseteq DOMAIN mapped
<1>1. image \in Images /\ mapped \in [0 .. image.sizeOfImage - 1 -> Values]
  BY DEF RebuildInv, DataInv
<1>2. Backed(Sections, g.meta)
  BY DEF IsWellFormed, ImportsAreWellFormed, GraphsAgree, Readable
<1>3. InSections(Cells(g.meta))
  BY <1>1, <1>2, BackedIsInImage
<1>. QED
  BY <1>1, <1>3, InSectionsIsInImage

\* What is written later on is no descriptor.
LEMMA StaleStaysGone ==
  ASSUME RebuildInv, IsWellFormed, StaleIsGone, UNCHANGED image,
         \A c \in DOMAIN mapped : mapped'[c] = mapped[c] \/ mapped'[c] \in {"zero", "thunk", "reloc"}
  PROVE  StaleIsGone'
<1>1. SUFFICES ASSUME NEW g \in image.stale, NEW c \in Cells(g.meta)
               PROVE  mapped'[c] # "stale"
  BY DEF StaleIsGone
<1>2. c \in DOMAIN mapped /\ mapped[c] # "stale"
  BY StaleIsInImage DEF StaleIsGone
<1>. QED
  BY <1>2

\* Nothing of a stream that is intact was cleared.
LEMMA IntactStays ==
  ASSUME image \in Images, NEW s, IsIntact(s), s.effective \subseteq 0 .. image.sizeOfImage - 1,
         mapped \in [0 .. image.sizeOfImage - 1 -> Values],
         \A c \in DOMAIN mapped : c \notin MayBeCleared => mapped[c] = image.cells[c]
  PROVE  /\ Parses(image, mapped, s)
         /\ \A c \in s.effective : HoldsAddress(mapped, c) /\ IsSlot(c)
<1>1. /\ Backed(Sections, s.range)
      /\ \A c \in Cells(s.range) : image.cells[c] = "reloc"
      /\ Cells(s.range) \intersect ImportCells = {}
  BY DEF IsIntact, Parses, Sections
<1>2. Cells(s.range) \subseteq DOMAIN mapped
  BY <1>1, BackedIsInImage, InSectionsIsInImage
<1>3. MayBeCleared \subseteq ImportCells
  BY DEF MayBeCleared, ImportCells
<1>4. \A c \in Cells(s.range) : mapped[c] = "reloc"
  BY <1>1, <1>2, <1>3
<1>5. Parses(image, mapped, s)
  BY <1>1, <1>4 DEF Parses, Sections
<1>6. \A c \in s.effective : /\ HoldsAddress(image.cells, c) /\ c \notin MayBeCleared
                             /\ IsSlot(c)
  BY DEF IsIntact, IsSlot
<1>7. \A c \in s.effective : mapped[c] = image.cells[c]
  BY <1>6
<1>. QED
  BY <1>5, <1>6, <1>7 DEF HoldsAddress

\* The streams of a well-formed image are as they were when the relocations are placed.
LEMMA StreamsStay ==
  ASSUME image \in Images, RelocationsAreWellFormed,
         mapped \in [0 .. image.sizeOfImage - 1 -> Values],
         \A c \in DOMAIN mapped : c \notin MayBeCleared => mapped[c] = image.cells[c]
  PROVE  /\ image.declared = NoStream
            \/ (IsIntact(image.declared) /\ Parses(image, mapped, image.declared))
         /\ \A c \in image.declared.effective : HoldsAddress(mapped, c) /\ IsSlot(c)
         /\ \A i \in DOMAIN image.producers :
               /\ image.producers[i].effective # {} =>
                     IsIntact(image.producers[i]) /\ Parses(image, mapped, image.producers[i])
               /\ \A c \in image.producers[i].effective : HoldsAddress(mapped, c) /\ IsSlot(c)
<1>1. /\ image.declared \in Streams(0 .. image.sizeOfImage - 1)
      /\ \A i \in DOMAIN image.producers :
            image.producers[i] \in Streams(0 .. image.sizeOfImage - 1)
  BY ReadIs
<1>2. \A s \in Streams(0 .. image.sizeOfImage - 1) : s.effective \subseteq 0 .. image.sizeOfImage - 1
  BY DEF Streams
<1>3. ASSUME NEW i \in DOMAIN image.producers, image.producers[i].effective # {}
      PROVE  /\ IsIntact(image.producers[i]) /\ Parses(image, mapped, image.producers[i])
             /\ \A c \in image.producers[i].effective : HoldsAddress(mapped, c) /\ IsSlot(c)
  <2>1. IsIntact(image.producers[i])
    BY <1>3 DEF RelocationsAreWellFormed
  <2>2. image.producers[i].effective \subseteq 0 .. image.sizeOfImage - 1
    BY <1>1, <1>2
  <2>. QED
    BY <2>1, <2>2, IntactStays
<1>4. image.declared = NoStream => image.declared.effective = {}
  BY DEF NoStream
<1>5. ASSUME image.declared # NoStream
      PROVE  /\ IsIntact(image.declared) /\ Parses(image, mapped, image.declared)
             /\ \A c \in image.declared.effective : HoldsAddress(mapped, c) /\ IsSlot(c)
  <2>1. IsIntact(image.declared)
    BY <1>5 DEF RelocationsAreWellFormed
  <2>2. image.declared.effective \subseteq 0 .. image.sizeOfImage - 1
    BY <1>1, <1>2
  <2>3. /\ Parses(image, mapped, image.declared)
        /\ \A c \in image.declared.effective : HoldsAddress(mapped, c) /\ IsSlot(c)
    BY <2>1, <2>2, IntactStays
  <2>. QED
    BY <2>1, <2>3
<1>6. \A c \in image.declared.effective : HoldsAddress(mapped, c) /\ IsSlot(c)
  BY <1>4, <1>5
<1>7. \A i \in DOMAIN image.producers :
         \A c \in image.producers[i].effective : HoldsAddress(mapped, c) /\ IsSlot(c)
  BY <1>3
<1>8. \A i \in DOMAIN image.producers :
         image.producers[i].effective # {} =>
            IsIntact(image.producers[i]) /\ Parses(image, mapped, image.producers[i])
  BY <1>3
<1>9. image.declared = NoStream
      \/ (IsIntact(image.declared) /\ Parses(image, mapped, image.declared))
  BY <1>5
<1>. QED
  BY <1>6, <1>7, <1>8, <1>9, Zenon

\* One of the streams is trusted, and what it relocates holds addresses and covers TLS.
LEMMA WellSelected ==
  ASSUME image \in Images, RelocationsAreWellFormed,
         mapped \in [0 .. image.sizeOfImage - 1 -> Values],
         \A c \in DOMAIN mapped : c \notin MayBeCleared => mapped[c] = image.cells[c]
  PROVE  LET choice == SelectStream(image, mapped)
         IN  /\ choice.ok /\ EntriesAreValid(image, mapped, choice.stream)
             /\ choice.stream = NoStream \/ IsIntact(choice.stream)
             /\ \A c \in Entries(image, choice.stream) : IsSlot(c)
<1> DEFINE declared == image.declared
           found == Producers(image, mapped)
           choice == SelectStream(image, mapped)
           Fine(s) == /\ EntriesAreValid(image, mapped, s)
                      /\ s = NoStream \/ IsIntact(s)
                      /\ \A c \in Entries(image, s) : IsSlot(c)
<1>1. /\ declared = NoStream \/ (IsIntact(declared) /\ Parses(image, mapped, declared))
      /\ \A c \in declared.effective : HoldsAddress(mapped, c) /\ IsSlot(c)
      /\ \A i \in DOMAIN image.producers :
            /\ image.producers[i].effective # {} =>
                  IsIntact(image.producers[i]) /\ Parses(image, mapped, image.producers[i])
            /\ \A c \in image.producers[i].effective : HoldsAddress(mapped, c) /\ IsSlot(c)
  BY StreamsStay
<1>2. NoStream.effective = {} /\ NoStream.absolute = {}
  BY DEF NoStream
<1>3. RequiredByTls(image, mapped) \subseteq image.tls
  BY DEF RequiredByTls
<1>4. \A s : Trust(s).ok = TRUE /\ Trust(s).stream = s
  BY DEF Trust
<1>5. StreamsAgree
  BY DEF RelocationsAreWellFormed
<1>6. ~(declared # NoStream /\ ~Parses(image, mapped, declared))
  BY <1>1
<1>7. Entries(image, declared) = declared.effective
  BY DEF Entries, Restored
<1>8. CASE declared.effective # {} /\ Covered(image, declared.range)
  <2>1. choice = Trust(declared)
    BY <1>6, <1>8, Zenon DEF SelectStream
  <2>2. image.tls \subseteq declared.effective
    BY <1>5, <1>8 DEF StreamsAgree
  <2>3. declared # NoStream
    BY <1>2, <1>8
  <2>4. EntriesAreValid(image, mapped, declared)
    BY <1>1, <1>3, <1>7, <2>2 DEF EntriesAreValid
  <2>. HIDE DEF choice, declared
  <2>. QED
    BY <1>1, <1>4, <1>7, <2>1, <2>3, <2>4 DEF choice
<1>9. CASE ~(declared.effective # {} /\ Covered(image, declared.range))
  <2>1. /\ image.tls \subseteq Produced \union (declared.effective \ image.destinations)
        /\ declared.effective # {} /\ Produced = {} =>
              image.dynamicBase /\ declared.effective = image.tls
    BY <1>5, <1>9 DEF StreamsAgree
  <2>2. image.producers \in Seq(Streams(0 .. image.sizeOfImage - 1))
    BY ReadIs
  <2>3. DOMAIN image.producers \subseteq {1}
    <3>1. DOMAIN image.producers = 1 .. Len(image.producers) /\ Len(image.producers) \in Nat
      BY <2>2
    <3>2. Len(image.producers) <= 1
      BY DEF RelocationsAreWellFormed
    <3>. QED
      BY <3>1, <3>2
  <2>4. CASE found # {}
    <3> DEFINE p == image.producers[1]
    <3>1. found = {1} /\ 1 \in DOMAIN image.producers
      BY <2>3, <2>4 DEF Producers
    <3>2. p.effective # {}
      BY <3>1 DEF Producers
    <3>3. FirstOf(found) = 1
      <4>1. FirstOf(found) \in {1}
        BY <3>1 DEF FirstOf
      <4>. QED
        BY <4>1
    <3>4. Rivals(image, found) = {}
      BY <3>1, <3>3 DEF Rivals
    <3>5. choice = Trust(p)
      <4>1. choice = IF Rivals(image, found) # {} THEN Refuse ELSE Trust(image.producers[FirstOf(found)])
        BY <1>6, <1>9, <2>4, Zenon DEF SelectStream
      <4>. QED
        BY <3>3, <3>4, <4>1
    <3>6. Produced = p.effective
      BY <2>3, <3>1 DEF Produced
    <3>. HIDE DEF p, found
    <3>7. declared.effective \ image.destinations \subseteq Entries(image, p)
      BY DEF Entries, Restored
    <3>8. Entries(image, p) \subseteq p.effective \union declared.effective
      BY DEF Entries, Restored
    <3>9. p.effective \subseteq Entries(image, p)
      BY DEF Entries
    <3>10. /\ IsIntact(p)
           /\ \A c \in p.effective : HoldsAddress(mapped, c) /\ IsSlot(c)
      BY <1>1, <3>1, <3>2 DEF p
    <3>11. image.tls \subseteq Entries(image, p)
      BY <2>1, <3>6, <3>7, <3>9
    <3>12. \A c \in Entries(image, p) : HoldsAddress(mapped, c) /\ IsSlot(c)
      BY <1>1, <3>8, <3>10
    <3>13. EntriesAreValid(image, mapped, p)
      BY <1>3, <3>11, <3>12 DEF EntriesAreValid
    <3>. HIDE DEF choice
    <3>. QED
      BY <1>4, <3>5, <3>10, <3>12, <3>13 DEF choice
  <2>5. CASE found = {}
    <3>1. Produced = {}
      <4>1. \A i \in DOMAIN image.producers : image.producers[i].effective = {}
        BY <1>1, <2>5 DEF Producers
      <4>. QED
        BY <4>1 DEF Produced
    <3>2. CASE declared.effective = {}
      <4>1. choice = Trust(NoStream)
        BY <1>6, <1>9, <2>5, <3>2, Zenon DEF SelectStream
      <4>2. Entries(image, NoStream) = {}
        BY <1>2, <3>2 DEF Entries, Restored
      <4>3. RequiredByTls(image, mapped) = {}
        BY <1>3, <2>1, <3>1, <3>2
      <4>4. EntriesAreValid(image, mapped, NoStream)
        BY <4>2, <4>3 DEF EntriesAreValid
      <4>. HIDE DEF choice
      <4>. QED
        BY <1>4, <4>1, <4>2, <4>4 DEF choice
    <3>3. CASE declared.effective # {}
      <4>1. image.dynamicBase /\ declared.effective = image.tls
        BY <2>1, <3>1, <3>3
      <4>2. RequiredByTls(image, mapped) = image.tls
        BY <1>1, <4>1 DEF RequiredByTls, HoldsAddress
      <4>3. MatchesTls(image, mapped, declared)
        BY <1>1, <3>3, <4>1, <4>2 DEF MatchesTls
      <4>4. choice = Trust(declared)
        BY <1>6, <1>9, <2>5, <3>3, <4>3, Zenon DEF SelectStream
      <4>5. EntriesAreValid(image, mapped, declared)
        BY <1>1, <1>7, <4>1, <4>2 DEF EntriesAreValid
      <4>6. declared # NoStream
        BY <1>2, <3>3
      <4>. HIDE DEF choice, declared
      <4>. QED
        BY <1>1, <1>4, <1>7, <4>4, <4>5, <4>6 DEF choice
    <3>. QED
      BY <3>2, <3>3
  <2>. QED
    BY <2>4, <2>5
<1>. QED
  BY <1>8, <1>9

\* Relocations take up room.
LEMMA PayloadIsNotEmpty ==
  ASSUME NEW n \in Nat, NEW entries \in SUBSET (0 .. n), entries # {}
  PROVE  PayloadLength(entries) \in Nat /\ PayloadLength(entries) # 0
<1> DEFINE pages == { Page(c) : c \in entries }
           even == { c \in entries : SlotsBefore(entries, c) % 2 = 0 }
<1>1. pages \subseteq 0 .. n
  <2>1. \A c \in entries : Page(c) \in 0 .. c
    BY AlignmentsAre, QuotientIsSmaller DEF Page
  <2>. QED
    BY <2>1
<1>2. IsFiniteSet(0 .. n)
  <2>1. 0 \in Int /\ n \in Int
    OBVIOUS
  <2>. QED
    BY <2>1, FS_Interval, Zenon
<1>3. IsFiniteSet(pages) /\ IsFiniteSet(even)
  <2>1. even \subseteq 0 .. n
    OBVIOUS
  <2>. QED
    BY <1>1, <1>2, <2>1, FS_Subset
<1>4. pages # {}
  OBVIOUS
<1>. HIDE DEF pages, even
<1>5. Cardinality(pages) \in Nat /\ Cardinality(even) \in Nat /\ Cardinality(pages) # 0
  BY <1>3, <1>4, FS_CardinalityType, FS_EmptySet
<1>6. PayloadLength(entries) = Cardinality(pages) + Cardinality(even)
  BY DEF PayloadLength, pages, even
<1>. QED
  BY <1>5, <1>6

\* Placing the relocations of a well-formed image goes well.
LEMMA PlaceGoesWell ==
  ASSUME RebuildInv, DirectoryInv, IsWellFormed, GoesWell, PlaceRelocations
  PROVE  GoesWell'
<1> DEFINE choice == SelectStream(image, mapped)
           entries == Entries(image, choice.stream)
           length == PayloadLength(entries)
           inPlace == [from |-> choice.stream.range.from,
                       to |-> choice.stream.range.from + length]
           behind == [from |-> GeneratedAt, to |-> GeneratedAt + length]
<1>1. /\ image \in Images /\ pc = "recovered" /\ ~image.pogo
      /\ mapped \in [0 .. image.sizeOfImage - 1 -> Values]
  BY DEF RebuildInv, DataInv, DirectoryInv, PlaceRelocations
<1>2. /\ StaleIsGone
      /\ \A c \in DOMAIN mapped : c \notin MayBeCleared => mapped[c] = image.cells[c]
  BY <1>1 DEF GoesWell, ClearedInv
<1>3. RelocationsAreWellFormed
  BY <1>1 DEF IsWellFormed
<1>4. /\ choice.ok /\ EntriesAreValid(image, mapped, choice.stream)
      /\ choice.stream = NoStream \/ IsIntact(choice.stream)
      /\ \A c \in entries : IsSlot(c)
  BY <1>1, <1>2, <1>3, WellSelected
<1>5. /\ entries \subseteq 0 .. image.sizeOfImage - 1 /\ choice.stream.range \in Ranges
      /\ length \in Nat
  BY <1>1, EntriesAre
<1>6. /\ pc' = "relocated" /\ UNCHANGED <<image, directories, export, layout>>
      /\ \/ entries = {} /\ relocations' = NoRelocations /\ UNCHANGED mapped
         \/ /\ FitsInPlace(image, choice.stream, length)
            /\ relocations' = [entries |-> entries, directory |-> inPlace, prefix |-> 0]
            /\ mapped' = [c \in DOMAIN mapped |-> IF c \in Cells(inPlace) THEN "reloc" ELSE mapped[c]]
         \/ /\ entries # {}
            /\ relocations' = [entries |-> entries, directory |-> behind, prefix |-> length]
            /\ UNCHANGED mapped
  BY <1>4 DEF PlaceRelocations
<1>. HIDE DEF choice, entries, length
<1>7. StaleIsGone'
  <2>1. \A c \in DOMAIN mapped : mapped'[c] = mapped[c] \/ mapped'[c] \in {"zero", "thunk", "reloc"}
    BY <1>6
  <2>. QED
    BY <1>2, <1>6, <2>1, StaleStaysGone
<1>8. \A c : IsSlot(c)' <=> IsSlot(c)
  BY <1>6, ImageStays
<1>9. StreamIsPlaced'
  <2>1. CASE relocations' = NoRelocations
    BY <2>1 DEF StreamIsPlaced, NoRelocations
  <2>2. CASE /\ FitsInPlace(image, choice.stream, length)
             /\ relocations' = [entries |-> entries, directory |-> inPlace, prefix |-> 0]
             /\ mapped' = [c \in DOMAIN mapped |-> IF c \in Cells(inPlace) THEN "reloc" ELSE mapped[c]]
    <3>1. Backed(Sections, inPlace)
      BY <2>2 DEF FitsInPlace, Sections
    <3>2. Cells(inPlace) \subseteq Cells(choice.stream.range)
      BY <1>5, <2>2 DEF FitsInPlace, Length, Cells, Ranges
    <3>. HIDE DEF inPlace
    <3>3. Cells(choice.stream.range) \intersect ImportCells = {}
      <4>1. CASE choice.stream = NoStream
        BY <4>1 DEF NoStream, NoRange, Cells
      <4>. QED
        BY <1>4, <4>1 DEF IsIntact
    <3>4. \A c \in Cells(inPlace) : c \notin IatCells
      BY <3>2, <3>3 DEF ImportCells
    <3>5. Cells(inPlace) \subseteq DOMAIN mapped
      BY <1>1, <3>1, BackedIsInImage, InSectionsIsInImage
    <3>6. \A c \in Cells(inPlace) : mapped'[c] = "reloc"
      BY <2>2, <3>5
    <3>7. /\ relocations'.directory = inPlace /\ relocations'.entries = entries
          /\ IatCells' = IatCells
      BY <1>6, <2>2, ImageStays
    <3>8. Backed(Sections, relocations.directory)'
      <4>1. Sections' = Sections
        BY <1>6, ImageStays
      <4>. QED
        BY <3>1, <3>7, <4>1 DEF Backed
    <3>9. InPlace'
      BY <3>4, <3>6, <3>7, <3>8 DEF InPlace
    <3>10. \A c \in relocations'.entries : IsSlot(c)'
      BY <1>4, <1>8, <3>7
    <3>. QED
      BY <3>9, <3>10 DEF StreamIsPlaced
  <2>3. CASE /\ entries # {}
             /\ relocations' = [entries |-> entries, directory |-> behind, prefix |-> length]
    <3>1. length # 0
      <4>1. image.sizeOfImage \in Nat
        BY <1>1, ImageIs
      <4>2. entries \in SUBSET (0 .. image.sizeOfImage)
        BY <1>5, <4>1
      <4>. QED
        BY <2>3, <4>1, <4>2, PayloadIsNotEmpty DEF length
    <3>2. GeneratedAt' = GeneratedAt
      BY <1>6, ImageStays
    <3>3. InFront'
      BY <2>3, <3>1, <3>2 DEF InFront
    <3>4. \A c \in relocations'.entries : IsSlot(c)'
      BY <1>4, <1>8, <2>3
    <3>. QED
      BY <3>3, <3>4 DEF StreamIsPlaced
  <2>. QED
    BY <1>6, <2>1, <2>2, <2>3
<1>10. ClearedInv'
  BY <1>6, <1>7, <1>9 DEF ClearedInv
<1>11. RequiredIsHeld'
  BY <1>6, RequiredStays DEF GoesWell
<1>. QED
  BY <1>1, <1>6, <1>10, <1>11 DEF GoesWell

\* Filling in the import cells touches neither the stream nor the exports.
LEMMA InitializeGoesWell ==
  ASSUME RebuildInv, DirectoryInv, IsWellFormed, GoesWell, InitializeImports
  PROVE  GoesWell'
<1>1. /\ image \in Images /\ pc = "relocated" /\ pc' = "ready" /\ ~image.pogo
      /\ mapped \in [0 .. image.sizeOfImage - 1 -> Values]
      /\ mapped' = [c \in DOMAIN mapped |-> ImportCell(c)]
      /\ export' = ExportIn(Sections, mapped)
      /\ UNCHANGED <<image, directories, relocations>>
  BY DEF RebuildInv, DataInv, DirectoryInv, InitializeImports
<1>2. \A c \in DOMAIN mapped :
          \/ c \in IatCells /\ mapped'[c] \in {"zero", "thunk"}
          \/ mapped'[c] = mapped[c]
  BY <1>1, ImportCellIs
<1>3. StaleIsGone /\ StreamIsPlaced
  BY <1>1 DEF GoesWell, ClearedInv
<1>4. StaleIsGone'
  BY <1>1, <1>2, <1>3, StaleStaysGone
<1>5. StreamIsPlaced'
  <2>1. /\ IatCells' = IatCells /\ GeneratedAt' = GeneratedAt /\ Sections' = Sections
        /\ \A c : IsSlot(c)' <=> IsSlot(c)
    BY <1>1, ImageStays
  <2>2. ASSUME InPlace
        PROVE  InPlace'
    <3>1. Cells(relocations.directory) \subseteq DOMAIN mapped
      BY <1>1, <2>2, BackedIsInImage, InSectionsIsInImage DEF InPlace
    <3>2. \A c \in Cells(relocations.directory) : mapped'[c] = "reloc" /\ c \notin IatCells
      BY <1>2, <2>2, <3>1 DEF InPlace
    <3>3. Backed(Sections, relocations.directory)'
      BY <1>1, <2>1, <2>2 DEF InPlace, Backed
    <3>. QED
      BY <1>1, <2>1, <3>2, <3>3 DEF InPlace
  <2>3. InFront' <=> InFront
    BY <1>1, <2>1 DEF InFront
  <2>4. relocations'.entries = relocations.entries
    BY <1>1
  <2>. QED
    BY <1>3, <2>1, <2>2, <2>3, <2>4 DEF StreamIsPlaced
<1>6. export' = ExportIn(Sections, mapped)'
  <2>1. Sections' = Sections
    BY <1>1, ImageStays
  <2>2. Cells(image.export) \intersect IatCells = {}
    BY DEF IsWellFormed, ImportsAreWellFormed
  <2>3. ASSUME Backed(Sections, image.export)
        PROVE  \A c \in Cells(image.export) : mapped'[c] = mapped[c]
    <3>1. Cells(image.export) \subseteq DOMAIN mapped
      BY <1>1, <2>3, BackedIsInImage, InSectionsIsInImage
    <3>. QED
      BY <1>2, <2>2, <3>1
  <2>4. Backed(Sections, image.export)' <=> Backed(Sections, image.export)
    BY <1>1, <2>1 DEF Backed
  <2>5. CASE Backed(Sections, image.export)
    <3>1. (\A c \in Cells(image.export) : mapped[c] = image.cells[c])
          <=> (\A c \in Cells(image.export) : mapped'[c] = image.cells[c])
      BY <2>3, <2>5
    <3>. QED
      BY <1>1, <2>1, <2>4, <3>1 DEF ExportIn
  <2>6. CASE ~Backed(Sections, image.export)
    BY <1>1, <2>4, <2>6 DEF ExportIn
  <2>. QED
    BY <2>5, <2>6
<1>7. ClearedInv'
  BY <1>1, <1>4, <1>5, <1>6 DEF ClearedInv
<1>8. RequiredIsHeld'
  BY <1>1, RequiredStays DEF GoesWell
<1>. QED
  BY <1>1, <1>7, <1>8 DEF GoesWell

\* The writing of the file leaves the image as the passes left it.
LEMMA GoesOnWell ==
  ASSUME GoesWell, UNCHANGED <<image, mapped, directories, relocations, export>>,
         pc' = pc \/ (pc \in {"ready", "serialized"} /\ pc' \in {"serialized", "done"})
  PROVE  GoesWell'
<1>1. /\ IatCells' = IatCells /\ GeneratedAt' = GeneratedAt /\ Sections' = Sections
      /\ MayBeCleared' = MayBeCleared /\ NoRelocations' = NoRelocations
      /\ \A c : IsSlot(c)' <=> IsSlot(c)
  BY ImageStays DEF NoRelocations
<1>2. StaleIsGone' <=> StaleIsGone
  BY DEF StaleIsGone
<1>3. StreamIsPlaced' <=> StreamIsPlaced
  <2>1. Backed(Sections, relocations.directory)' <=> Backed(Sections, relocations.directory)
    BY <1>1 DEF Backed
  <2>2. InPlace' <=> InPlace
    BY <1>1, <2>1 DEF InPlace
  <2>3. InFront' <=> InFront
    BY <1>1 DEF InFront
  <2>. QED
    BY <1>1, <2>2, <2>3 DEF StreamIsPlaced
<1>4. ExportIn(Sections, mapped)' = ExportIn(Sections, mapped)
  BY <1>1 DEF ExportIn, Backed
<1>5. ClearedInv => ClearedInv'
  BY <1>1, <1>2, <1>3, <1>4 DEF ClearedInv
<1>6. LinkedInv => LinkedInv'
  BY <1>1 DEF LinkedInv
<1>7. RequiredIsHeld'
  BY RequiredStays DEF GoesWell
<1>. QED
  BY <1>5, <1>6, <1>7 DEF GoesWell

\* No section of a well-formed image is refused.
LEMMA CompactGoesWell ==
  ASSUME RebuildInv, IsWellFormed, GoesWell, CompactSection
  PROVE  GoesWell'
<1>1. /\ image \in Images /\ pc = "ready" /\ Len(layout) < Len(Sections) /\ layout \in Seq(PlacedTable)
  BY DEF RebuildInv, DataInv, LayoutInv, CompactSection
<1>2. \A r \in RequiredRanges : InSections(Cells(r))
  BY DEF GoesWell, RequiredIsHeld
<1>3. ~(Sections[Len(layout) + 1].start > image.sizeOfImage)
  <2>1. Len(layout) + 1 \in DOMAIN Sections
    BY <1>1, ImageIs
  <2>2. Sections[Len(layout) + 1].start < image.sizeOfImage
    BY <2>1 DEF IsWellFormed, SectionsHoldAll
  <2>3. Sections[Len(layout) + 1].start \in Nat /\ image.sizeOfImage \in Nat
    BY <1>1, <2>1, SectionIs, ImageIs
  <2>. QED
    BY <2>2, <2>3
<1>4. ~(~image.pogo /\ ~image.hasRoom)
  BY DEF IsWellFormed
<1>5. UNCHANGED <<image, pc, mapped, directories, relocations, export>>
  BY <1>2, <1>3, <1>4, Zenon DEF CompactSection
<1>. QED
  BY <1>5, GoesOnWell

\* The data of the debug record of a well-formed image has a place in the file.
LEMMA SerializeGoesWell ==
  ASSUME RebuildInv, IsWellFormed, GoesWell, Serialize
  PROVE  GoesWell'
<1>1. DataInv /\ LayoutInv /\ pc = "ready" /\ Len(layout) = Len(Sections)
  BY DEF RebuildInv, Serialize
<1>2. ASSUME DebugData # NoRange
      PROVE  FilePosition(layout, DebugData.from) # 0
  <2>1. DebugRecords # {}
    BY <1>2 DEF DebugData
  <2> DEFINE d == CHOOSE x \in DebugRecords : TRUE
  <2>2. d \in DebugRecords /\ DebugData = d.payload
    BY <2>1 DEF DebugData
  <2>3. d \in directories
    BY <2>2 DEF DebugRecords
  <2>. HIDE DEF d
  <2>4. DebugData \in RequiredRanges
    BY <1>2, <2>2, <2>3 DEF RequiredRanges
  <2>5. Cells(DebugData) # {} /\ InSections(Cells(DebugData))
    BY <2>4 DEF GoesWell, RequiredIsHeld
  <2>6. DebugData.from \in Cells(DebugData)
    BY <1>1, <2>5, DebugDataIs DEF Cells, Ranges
  <2>7. PICK m \in DOMAIN Sections : DebugData.from \in SectionCells(Sections[m])
    BY <2>5, <2>6 DEF InSections
  <2>. QED
    BY <1>1, <2>4, <2>6, <2>7, RequiredIsPlaced
<1>3. pc' = "serialized" /\ UNCHANGED <<image, mapped, directories, relocations, export>>
  BY <1>2, Zenon DEF Serialize
<1>. QED
  BY <1>1, <1>3, GoesOnWell

-----------------------------------------------------------------------------
\* A cell that is not zero is written with the section it lies in.
LEMMA NonzeroIsWritten ==
  ASSUME Written, NEW i \in DOMAIN Sections, NEW c \in SectionCells(Sections[i]), mapped[c] # "zero"
  PROVE  i \in DOMAIN WrittenSections /\ c \in SectionCells(WrittenSections[i])
<1>1. /\ DataInv /\ LayoutInv /\ image \in Images /\ Len(layout) = Len(Sections)
  BY WrittenInv
<1>2. i \in 1 .. Len(layout)
  BY <1>1, ImageIs
<1>3. /\ layout[i].start \in Nat /\ layout[i].length \in Nat /\ layout[i].raw \in Nat
      /\ layout[i].start = Sections[i].start
      /\ layout[i].length = Larger(Sections[i].virtual, Sections[i].raw)
      /\ layout[i].raw = AlignUp(Extent(Sections[i]), FileAlignment)
  BY <1>1, <1>2, PlacedIs
<1>4. c \in layout[i].start .. layout[i].start + layout[i].length - 1
  BY <1>3 DEF SectionCells
<1>5. /\ Extent(Sections[i]) \in 0 .. layout[i].length
      /\ c - layout[i].start + 1 <= Extent(Sections[i])
  BY <1>1, <1>3, ExtentIs
<1>6. Extent(Sections[i]) <= layout[i].raw
  BY <1>1, <1>3, <1>5, RoomForRaw
<1>7. /\ i \in DOMAIN WrittenSections /\ WrittenSections[i].start = layout[i].start
      /\ WrittenSections[i].raw = layout[i].raw /\ WrittenSections[i].virtual = Sections[i].virtual
  BY <1>2, WrittenIs
<1>8. Sections[i].virtual \in Nat
  BY <1>1, SectionIs
<1>9. \A s, v, w, e, x \in Nat :
          s <= x /\ x - s + 1 <= e /\ e <= w => x \in s .. s + Larger(v, w) - 1
  BY DEF Larger
<1>10. c \in Nat /\ layout[i].start <= c /\ Extent(Sections[i]) \in Nat
  BY <1>3, <1>4, <1>5
<1>11. c \in layout[i].start .. layout[i].start + Larger(Sections[i].virtual, layout[i].raw) - 1
  BY <1>3, <1>5, <1>6, <1>8, <1>9, <1>10
<1>. QED
  BY <1>7, <1>11 DEF SectionCells

\* What was generated is read back where the sections of the image end.
LEMMA GeneratedIsRead ==
  ASSUME Written, NEW k \in Nat, k < GeneratedLength
  PROVE  Loaded[GeneratedAt + k] = Generated[k]
<1> DEFINE c == GeneratedAt + k
           n == Len(layout) + 1
           Here(i) == c - WrittenSections[i].start \in 0 .. WrittenSections[i].raw - 1
           p == CHOOSE i \in DOMAIN WrittenSections : Here(i)
           at == FileEnd(layout) + k
<1>1. /\ DataInv /\ LayoutInv /\ image \in Images /\ Len(layout) = Len(Sections)
      /\ file = [q \in 0 .. FileLength(layout) - 1 |-> FileCell(layout, q)]
  BY WrittenInv
<1>2. /\ image.sizeOfHeaders \in Nat /\ image.sizeOfImage \in Nat
      /\ image.sizeOfHeaders <= image.sizeOfImage /\ GeneratedAt = image.sizeOfImage
  BY <1>1, ImageIs
<1>3. /\ GeneratedLength \in Nat
      /\ AlignUp(GeneratedLength, FileAlignment) \in Nat
      /\ GeneratedLength <= AlignUp(GeneratedLength, FileAlignment)
      /\ AlignUp(GeneratedLength, SectionAlignment) \in Nat
      /\ AlignUp(GeneratedLength, FileAlignment) <= AlignUp(GeneratedLength, SectionAlignment)
  BY <1>1, GeneratedIs
<1>4. GeneratedLength # 0
  BY <1>3
<1>5. /\ FileEnd(layout) \in Nat /\ image.sizeOfHeaders <= FileEnd(layout)
      /\ Len(layout) \in Nat
      /\ FileLength(layout) = FileEnd(layout) + AlignUp(GeneratedLength, FileAlignment)
  BY <1>1, FileEndIs, FileLengthIs
<1>6. n \in DOMAIN WrittenSections /\ n \notin 1 .. Len(layout)
  BY <1>4, <1>5, WrittenIs
<1>7. WrittenSections[n] = GeneratedSection /\ WrittenAt(n) = FileEnd(layout)
  BY <1>6, WrittenIs
<1>8. /\ WrittenSections[n].start = image.sizeOfImage
      /\ WrittenSections[n].raw = AlignUp(GeneratedLength, FileAlignment)
  BY <1>2, <1>7 DEF GeneratedSection
<1>9. c \in Nat /\ c - image.sizeOfImage = k /\ image.sizeOfImage <= c
  BY <1>2
<1>10. Here(n)
  BY <1>3, <1>8, <1>9
<1>11. ASSUME NEW i \in DOMAIN WrittenSections, Here(i)
       PROVE  i = n
  <2>1. SUFFICES ASSUME i # n PROVE FALSE
    OBVIOUS
  <2>2. i \in 1 .. Len(layout)
    BY <2>1, WrittenIs
  <2>3. WrittenSections[i].start = layout[i].start /\ WrittenSections[i].raw = layout[i].raw
    BY <2>2, WrittenIs
  <2>4. /\ layout[i].start \in Nat /\ layout[i].raw \in Nat
        /\ layout[i].start + layout[i].raw <= image.sizeOfImage
    BY <1>1, <2>2, PlacedIs
  <2>5. c - layout[i].start \in 0 .. layout[i].raw - 1
    BY <1>11, <2>3
  <2>6. \A x, s, r, z \in Nat : s + r <= z /\ z <= x => x - s \notin 0 .. r - 1
    OBVIOUS
  <2>. HIDE DEF c
  <2>. QED
    BY <1>2, <1>9, <2>4, <2>5, <2>6
<1>12. p = n
  <2>1. \E i \in DOMAIN WrittenSections : Here(i)
    BY <1>6, <1>10
  <2>2. p \in DOMAIN WrittenSections /\ Here(p)
    BY <2>1
  <2>. HIDE DEF p
  <2>. QED
    BY <1>11, <2>2
<1>13. c \in 0 .. FinalSize - 1 /\ ~(c < image.sizeOfHeaders)
  <2>1. FinalSize = image.sizeOfImage + AlignUp(GeneratedLength, SectionAlignment)
    BY <1>2, <1>4 DEF FinalSize, GeneratedSection
  <2>. QED
    BY <1>2, <1>3, <2>1
<1>14. Loaded[c] = file[WrittenAt(p) + c - WrittenSections[p].start]
  BY <1>6, <1>10, <1>13 DEF Loaded
<1>15. WrittenAt(n) + c - WrittenSections[n].start = at
  <2>1. \A e, z, x \in Nat : e + (z + x) - z = e + x
    OBVIOUS
  <2>. QED
    BY <1>2, <1>5, <1>7, <1>8, <2>1
<1>16. /\ at \in 0 .. FileLength(layout) - 1 /\ ~(at < image.sizeOfHeaders)
       /\ at >= FileEnd(layout) /\ at - FileEnd(layout) = k
  <2>1. \A e, x, g, u, h \in Nat :
            x < g /\ g <= u /\ h <= e =>
                /\ e + x \in 0 .. (e + u) - 1 /\ ~(e + x < h)
                /\ e + x >= e /\ (e + x) - e = x
    OBVIOUS
  <2> DEFINE u == AlignUp(GeneratedLength, FileAlignment)
             e == FileEnd(layout)
  <2>2. u \in Nat /\ e \in Nat /\ GeneratedLength <= u
    BY <1>3, <1>5
  <2>. HIDE DEF u, e
  <2>3. /\ e + k \in 0 .. (e + u) - 1 /\ ~(e + k < image.sizeOfHeaders)
        /\ e + k >= e /\ (e + k) - e = k
    BY <1>2, <1>3, <1>5, <2>1, <2>2 DEF e
  <2>4. FileLength(layout) = e + u
    BY <1>5 DEF u, e
  <2>. QED
    BY <2>3, <2>4 DEF e
<1>. HIDE DEF c, n, p, at
<1>17. Loaded[c] = file[at]
  BY <1>12, <1>14, <1>15
<1>18. file[at] = FileCell(layout, at)
  BY <1>1, <1>16
<1>19. FileCell(layout, at) = Generated[k]
  BY <1>16 DEF FileCell
<1>. QED
  BY <1>17, <1>18, <1>19 DEF c

\* The stream that was placed is found again in the file.
LEMMA StreamIsRead ==
  ASSUME Written, ~image.pogo, StreamIsPlaced
  PROVE  ~RelocationsDiffer(Loaded)
<1>1. /\ DataInv /\ image \in Images
  BY WrittenInv
<1>2. SUFFICES ASSUME relocations.entries # {}
               PROVE  /\ Backed(WrittenSections, relocations.directory)
                      /\ \A c \in Cells(relocations.directory) : Loaded[c] = "reloc"
                      /\ \A c \in relocations.entries :
                            Backed(WrittenSections, [from |-> c, to |-> c + 1])
  BY DEF RelocationsDiffer
<1>3. ASSUME NEW c \in relocations.entries
      PROVE  Backed(WrittenSections, [from |-> c, to |-> c + 1])
  <2>1. Housed([from |-> c, to |-> c + 1])
    BY <1>2 DEF StreamIsPlaced, IsSlot
  <2>2. c \in Nat
    BY <1>1, ImageIs DEF DataInv, Positions
  <2>3. c \in Cells([from |-> c, to |-> c + 1])
    BY <2>2 DEF Cells
  <2>. QED
    BY <2>1, <2>3, HousedIsWritten
<1>4. CASE InPlace
  <2>1. /\ Backed(Sections, relocations.directory)
        /\ \A c \in Cells(relocations.directory) : mapped[c] = "reloc"
    BY <1>4 DEF InPlace
  <2>2. PICK i \in DOMAIN Sections : /\ Cells(relocations.directory) # {}
                                     /\ Cells(relocations.directory) \subseteq SectionCells(Sections[i])
    BY <2>1 DEF Backed
  <2>3. \A c \in Cells(relocations.directory) :
            i \in DOMAIN WrittenSections /\ c \in SectionCells(WrittenSections[i])
    BY <2>1, <2>2, NonzeroIsWritten
  <2>4. Backed(WrittenSections, relocations.directory)
    BY <2>2, <2>3 DEF Backed
  <2>5. \A c \in Cells(relocations.directory) : Loaded[c] = "reloc"
    BY <1>1, <2>1, BackedIsInImage, LoadedIsMapped
  <2>. QED
    BY <1>3, <2>4, <2>5
<1>5. CASE InFront
  <2> DEFINE x == relocations.prefix
  <2>1. /\ relocations.directory = [from |-> GeneratedAt, to |-> GeneratedAt + x]
        /\ x \in Nat /\ x # 0
    BY <1>1, <1>5 DEF InFront, DataInv
  <2>2. /\ GeneratedLength \in Nat
        /\ AlignUp(GeneratedLength, FileAlignment) \in Nat
        /\ GeneratedLength <= AlignUp(GeneratedLength, FileAlignment)
        /\ AlignUp(GeneratedLength, SectionAlignment) \in Nat
        /\ AlignUp(GeneratedLength, FileAlignment) <= AlignUp(GeneratedLength, SectionAlignment)
        /\ GeneratedAt \in Nat
    BY <1>1, GeneratedIs, ImageIs
  <2>3. x <= GeneratedLength
    BY <1>1, GeneratedIs
  <2>. HIDE DEF x
  <2>4. Cells(relocations.directory) = GeneratedAt .. GeneratedAt + x - 1
    <3>1. relocations.directory.from = GeneratedAt /\ relocations.directory.to = GeneratedAt + x
      BY <2>1
    <3>. QED
      BY <2>1, <2>2, <3>1 DEF Cells
  <2>5. Backed(WrittenSections, relocations.directory)
    <3> DEFINE n == Len(layout) + 1
    <3>1. GeneratedLength # 0
      BY <2>1, <2>2, <2>3
    <3>2. Len(layout) \in Nat
      BY WrittenInv, FileEndIs
    <3>3. n \in DOMAIN WrittenSections /\ n \notin 1 .. Len(layout)
      BY <3>1, <3>2, WrittenIs
    <3>4. WrittenSections[n] = GeneratedSection
      BY <3>3, WrittenIs
    <3>5. SectionCells(WrittenSections[n]) =
              GeneratedAt .. GeneratedAt + AlignUp(GeneratedLength, SectionAlignment) - 1
      BY <2>2, <3>4 DEF GeneratedSection, SectionCells, Larger
    <3>6. GeneratedAt .. GeneratedAt + x - 1
             \subseteq GeneratedAt .. GeneratedAt + AlignUp(GeneratedLength, SectionAlignment) - 1
      BY <2>1, <2>2, <2>3
    <3>7. GeneratedAt \in GeneratedAt .. GeneratedAt + x - 1
      BY <2>1, <2>2
    <3>. HIDE DEF n
    <3>. QED
      BY <2>4, <3>3, <3>5, <3>6, <3>7 DEF Backed
  <2>6. ASSUME NEW c \in Cells(relocations.directory)
        PROVE  Loaded[c] = "reloc"
    <3>1. PICK k \in Nat : c = GeneratedAt + k /\ k < x
      <4>1. c \in GeneratedAt .. GeneratedAt + x - 1
        BY <2>4
      <4>2. c - GeneratedAt \in Nat /\ c = GeneratedAt + (c - GeneratedAt) /\ c - GeneratedAt < x
        BY <2>1, <2>2, <4>1
      <4>. QED
        BY <4>2
    <3>2. k < GeneratedLength
      BY <2>1, <2>2, <2>3, <3>1
    <3>3. Generated[k] = "reloc"
      <4>1. k \in 0 .. GeneratedLength - 1
        BY <2>2, <3>2
      <4>. QED
        BY <3>1, <4>1 DEF Generated, x
    <3>. QED
      BY <3>1, <3>2, <3>3, GeneratedIsRead
  <2>. QED
    BY <1>3, <2>5, <2>6
<1>. QED
  BY <1>2, <1>4, <1>5 DEF StreamIsPlaced

\* With the linker's layout every graph that was found is found again.
LEMMA LinkedImportsAreRead ==
  ASSUME Written, IsWellFormed, image.pogo, mapped = image.cells
  PROVE  ~ImportsDiffer(Loaded)
<1>1. image \in Images
  BY WrittenInv
<1>2. /\ {g.meta : g \in image.stale} = {image.importData}
      /\ \A g \in image.stale :
            /\ Readable(Sections, image.cells, g)
            /\ Housed(g.meta) /\ \A i \in DOMAIN g.iats : Housed(g.iats[i])
  BY DEF IsWellFormed, ImportsAreWellFormed, GraphsAgree
<1>3. ASSUME NEW g \in image.stale
      PROVE  Readable(WrittenSections, Loaded, g)
  <2>1. /\ Backed(Sections, g.meta) /\ \A c \in Cells(g.meta) : image.cells[c] = "stale"
        /\ \A i \in DOMAIN g.iats : Backed(Sections, g.iats[i])
    BY <1>2 DEF Readable
  <2>2. Backed(WrittenSections, g.meta)
    BY <1>1, <1>2, <2>1, BackedIsInImage, HousedIsWritten
  <2>3. \A i \in DOMAIN g.iats : Backed(WrittenSections, g.iats[i])
    BY <1>1, <1>2, <2>1, BackedIsInImage, HousedIsWritten
  <2>4. \A c \in Cells(g.meta) : Loaded[c] = "stale"
    BY <1>1, <2>1, BackedIsInImage, LoadedIsMapped
  <2>. QED
    BY <2>2, <2>3, <2>4 DEF Readable
<1>4. Candidates(WrittenSections, Loaded) = image.stale
  BY <1>3 DEF Candidates
<1>. QED
  BY <1>2, <1>4 DEF ImportsDiffer

\* Otherwise none is: of each a descriptor was cleared.
LEMMA ClearedImportsAreNotRead ==
  ASSUME Written, IsWellFormed, ~image.pogo, StaleIsGone
  PROVE  ~ImportsDiffer(Loaded)
<1>1. image \in Images
  BY WrittenInv
<1>2. ASSUME NEW g \in image.stale, Readable(WrittenSections, Loaded, g)
      PROVE  FALSE
  <2>1. Backed(Sections, g.meta)
    BY DEF IsWellFormed, ImportsAreWellFormed, GraphsAgree, Readable
  <2>2. PICK c \in Cells(g.meta) : TRUE
    BY <1>1, <2>1, BackedIsInImage
  <2>3. Loaded[c] = mapped[c]
    BY <1>1, <2>1, BackedIsInImage, LoadedIsMapped
  <2>. QED
    BY <1>2, <2>3 DEF Readable, StaleIsGone
<1>3. Candidates(WrittenSections, Loaded) = {}
  BY <1>2 DEF Candidates
<1>4. \A i \in DOMAIN image.iats : Backed(WrittenSections, image.iats[i])
  BY <1>1, IatsAreBacked, HousedIsWritten
<1>. QED
  BY <1>3, <1>4 DEF ImportsDiffer

\* The exports are found where they were found in memory, or in neither.
LEMMA ExportIsRead ==
  ASSUME Written, IsWellFormed
  PROVE  ExportIn(WrittenSections, Loaded) = ExportIn(Sections, mapped)
<1>1. image \in Images
  BY WrittenInv
<1>2. Housed(image.export)
  BY DEF IsWellFormed, ImportsAreWellFormed
<1>3. CASE Cells(image.export) = {}
  BY <1>3 DEF ExportIn, Backed
<1>4. CASE Cells(image.export) # {}
  <2>1. Backed(Sections, image.export) /\ Backed(WrittenSections, image.export)
    BY <1>1, <1>2, <1>4, HousedIsBacked, HousedIsWritten
  <2>2. \A c \in Cells(image.export) : Loaded[c] = mapped[c]
    BY <1>1, <2>1, BackedIsInImage, LoadedIsMapped
  <2>. QED
    BY <2>1, <2>2 DEF ExportIn
<1>. QED
  BY <1>3, <1>4

\* The verification finds a well-formed image as the passes left it.
LEMMA VerifyGoesWell ==
  ASSUME RebuildInv, IsWellFormed, GoesWell, Verify
  PROVE  GoesWell'
<1>1. pc = "serialized"
  BY DEF Verify
<1>2. Written
  BY <1>1 DEF Written, IsWellFormed
<1>3. IsImage /\ ~MappingDiffers(Loaded)
  BY <1>2, WrittenIsImage, LoadedIsMapped DEF MappingDiffers
<1>4. /\ ~ImportsDiffer(Loaded) /\ ~RelocationsDiffer(Loaded)
      /\ image.pogo \/ ExportIn(WrittenSections, Loaded) = export
  <2>1. CASE image.pogo
    <3>1. mapped = image.cells /\ relocations.entries = {}
      BY <2>1 DEF GoesWell, LinkedInv, NoRelocations
    <3>2. ~RelocationsDiffer(Loaded)
      BY <3>1 DEF RelocationsDiffer
    <3>. QED
      BY <1>2, <2>1, <3>1, <3>2, LinkedImportsAreRead
  <2>2. CASE ~image.pogo
    <3>1. StaleIsGone /\ StreamIsPlaced /\ export = ExportIn(Sections, mapped)
      BY <1>1, <2>2 DEF GoesWell, ClearedInv
    <3>. QED
      BY <1>2, <2>2, <3>1, ClearedImportsAreNotRead, StreamIsRead, ExportIsRead
  <2>. QED
    BY <2>1, <2>2
<1>5. pc' = "done" /\ UNCHANGED <<image, mapped, directories, relocations, export>>
  BY <1>3, <1>4, Zenon DEF Verify
<1>. QED
  BY <1>1, <1>5, GoesOnWell

\* At first nothing is required and nothing was placed.
LEMMA InitGoesWell ==
  Init => WellInv
<1>1. SUFFICES ASSUME Init PROVE GoesWell
  BY DEF WellInv
<1>2. RequiredIsHeld
  BY <1>1 DEF Init, RequiredIsHeld, RequiredRanges
<1>3. ClearedInv /\ LinkedInv
  BY <1>1 DEF Init, ClearedInv, LinkedInv
<1>. QED
  BY <1>1, <1>2, <1>3 DEF Init, GoesWell

\* Every step goes well with a well-formed image.
LEMMA NextGoesWell ==
  ASSUME RebuildInv, DirectoryInv, WellInv, [Next]_vars
  PROVE  WellInv'
<1>1. image' = image
  BY Zenon DEF Next, vars, ClearImports, AdoptLinkerLayout, RecoverDirectories, PlaceRelocations,
              InitializeImports, CompactSection, Serialize, Verify, Stopped, Fail
<1>2. SUFFICES ASSUME IsWellFormed PROVE GoesWell'
  BY <1>1, ImageStays DEF WellInv
<1>3. GoesWell
  BY <1>2 DEF WellInv
<1>4. CASE Stopped \/ UNCHANGED vars
  <2>1. UNCHANGED <<image, pc, mapped, directories, relocations, export>>
    BY <1>4 DEF Stopped, vars
  <2>. QED
    BY <1>3, <2>1, GoesOnWell
<1>. QED
  BY <1>2, <1>3, <1>4, ClearGoesWell, AdoptGoesWell, RecoverGoesWell, PlaceGoesWell,
     InitializeGoesWell, CompactGoesWell, SerializeGoesWell, VerifyGoesWell DEF Next

\* A well-formed image is rebuilt: whatever its sections, import graphs, directories and
\* relocation streams are, no pass refuses what an earlier pass left of it, and the
\* verification of the file that was written fails in no comparison.
THEOREM WellFormedAlwaysRebuilt == Spec => []WellFormedIsRebuilt
<1>1. Init => RebuildInv /\ DirectoryInv /\ WellInv
  BY InitInv, InitDirectoryInv, InitGoesWell
<1>2. RebuildInv /\ DirectoryInv /\ WellInv /\ [Next]_vars => (RebuildInv /\ DirectoryInv /\ WellInv)'
  BY NextInv, NextDirectoryInv, NextGoesWell
<1>3. WellInv => WellFormedIsRebuilt
  BY DEF WellInv, GoesWell, WellFormedIsRebuilt
<1>. QED
  BY <1>1, <1>2, <1>3, PTL DEF Spec

=============================================================================
