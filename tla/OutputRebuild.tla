---------------------------- MODULE OutputRebuild ----------------------------
(***************************************************************************)
(* `rebuild` and `rebuild_pogo` of stages/rebuild/mod.rs: from the image   *)
(* recovered in memory to a file that passes its own verification.         *)
(*                                                                         *)
(* The passes change the image one after the other and each relies on what *)
(* the others left: stale imports are cleared before directories are       *)
(* recovered, relocations are written before exports are looked for, and   *)
(* the import cells are filled in last.  Then the sections are cut down to *)
(* what they hold, written, mapped again and compared.                     *)
(***************************************************************************)
EXTENDS BaseRelocations, SequencesExt

CONSTANTS
    Images       \* the recovered images

Values == {"zero", "data", "va", "stale", "import", "thunk", "reloc", "header",
           "debug", "pointer", "directory", "export"}
Ranges == { r \in [from : Nat, to : Nat] : r.from <= r.to }
Streams(positions) == [range : Ranges, effective : SUBSET positions, absolute : SUBSET positions]
Graphs == { g \in [meta : Ranges, iats : Seq(Ranges), modules : Seq(STRING)] :
                Len(g.iats) = Len(g.modules) }
SectionTable == [start : Nat, virtual : Nat, raw : Nat]

\* What Pe::parse demands of the sections (validate_layout_for): aligned, one behind
\* the other, what is not empty between the headers and the end.
IsLaidOut(i) ==
    /\ i.sizeOfHeaders \in Nat \ {0} /\ i.sizeOfHeaders % FileAlignment = 0
    /\ i.sizeOfImage \in Nat /\ i.sizeOfImage % SectionAlignment = 0
    /\ i.sizeOfHeaders <= i.sizeOfImage
    /\ i.sections \in Seq(SectionTable) /\ i.sections # <<>>
    /\ \A n, m \in DOMAIN i.sections : n < m =>
          /\ i.sections[n].start < i.sections[m].start
          /\ i.sections[n].start + Larger(i.sections[n].virtual, i.sections[n].raw)
                <= i.sections[m].start
    /\ \A n \in DOMAIN i.sections :
          LET s == i.sections[n]
          IN  /\ s.start % SectionAlignment = 0
              /\ SectionCells(s) \subseteq i.sizeOfHeaders .. i.sizeOfImage - 1

\* What is read before anything is rebuilt.  A module stands for a name and its symbols,
\* and `hasRoom` says that the headers have room for one more section.  The import
\* cells of the modules lie in the image and do not overlap (validate_loader_graph).
\* Empty directories are passed by, and the import directories are only taken over with
\* the linker's layout.
IsRead(i) ==
    LET positions == 0 .. i.sizeOfImage - 1
    IN  /\ i.cells \in [positions -> Values]
        /\ i.profile \in {"EncodedLoader", "Standard"} /\ i.pogo \in BOOLEAN /\ i.dynamicBase \in BOOLEAN
        /\ i.hasRoom \in BOOLEAN
        /\ i.modules \in Seq(STRING) /\ i.iats \in Seq(Ranges) /\ i.iats # <<>>
        /\ \A n, m \in DOMAIN i.iats :
              /\ Cells(i.iats[n]) # {} /\ Cells(i.iats[n]) \subseteq positions
              /\ n # m => Cells(i.iats[n]) \intersect Cells(i.iats[m]) = {}
        /\ i.importData \in Ranges /\ i.export \in Ranges
        /\ i.stale \subseteq Graphs /\ IsFiniteSet(i.stale)
        /\ i.directories \subseteq
              [index : {"exception", "debug", "resource", "tls", "import", "iat"}, range : Ranges,
               payload : Ranges]
        /\ \A d \in i.directories :
              /\ Cells(d.range) # {} /\ (d.payload = NoRange \/ Cells(d.payload) # {})
              /\ i.pogo \/ d.index \notin {"import", "iat"}
        /\ i.declared \in Streams(positions) /\ i.producers \in Seq(Streams(positions))
        /\ i.tls \subseteq positions /\ i.destinations \subseteq Nat

ASSUME ImagesAreTyped == \A i \in Images : IsLaidOut(i) /\ IsRead(i)

VARIABLES
    image,         \* the recovered image
    pc,            \* which pass is next, "done" or "failed"
    mapped,        \* what the image holds now
    directories,   \* the retained directories
    relocations,   \* [entries, directory, prefix]: the canonical relocations
    export,        \* range of the export directory, or NoRange
    layout,        \* where each section goes in the file
    file,          \* the cells of the file
    pointer,       \* the file position the debug record names, or 0
    failure        \* why the rebuild failed

vars == <<image, pc, mapped, directories, relocations, export, layout, file,
          pointer, failure>>

Sections == image.sections
GeneratedAt == AlignUp(image.sizeOfImage, SectionAlignment)
NoRelocations == [entries |-> {}, directory |-> NoRange, prefix |-> 0]

Init ==
    /\ image \in Images
    /\ pc = "start"
    /\ mapped = image.cells
    /\ directories = {}
    /\ relocations = NoRelocations
    /\ export = NoRange
    /\ layout = <<>> /\ file = <<>> /\ pointer = 0
    /\ failure = "none"

Fail(why) ==
    /\ pc' = "failed" /\ failure' = why
    /\ UNCHANGED <<image, mapped, directories, relocations, export, layout, file,
                   pointer>>

-----------------------------------------------------------------------------
\* Imports already in the image.

\* The descriptors of the graph are still there and its cells are backed.
Readable(sections, cells, graph) ==
    /\ Backed(sections, graph.meta)
    /\ \A c \in Cells(graph.meta) : cells[c] = "stale"
    /\ \A i \in DOMAIN graph.iats : Backed(sections, graph.iats[i])

Candidates(sections, cells) ==
    { graph \in image.stale : Readable(sections, cells, graph) }

IsWindow(part, whole) ==
    \E i \in 0 .. Len(whole) - Len(part) : SubSeq(whole, i + 1, i + Len(part)) = part

CellsOf(graph) ==
    Cells(graph.meta) \union UNION { Cells(graph.iats[i]) : i \in DOMAIN graph.iats }

\* A module is compared as a whole: with the address it was read for.
ModulesOf(graph) ==
    [n \in DOMAIN graph.modules |-> <<graph.modules[n], graph.iats[n].from>>]

\* The selected graph is whatever has the most modules; every other candidate
\* has to be a part of it.
Winners(graphs) == { g \in graphs : \A h \in graphs : Len(h.modules) <= Len(g.modules) }
Winner(graphs) == CHOOSE g \in Winners(graphs) :
                      \A h \in Winners(graphs) : g.meta.from <= h.meta.from
Competing(graphs) ==
    \E g \in graphs : ~IsWindow(ModulesOf(g), ModulesOf(Winner(graphs)))

\* What a profile clears.  The encoded loader's graph is not in the image in
\* standard form: what is, is scaffolding.  The standard profile's graph is, and
\* may have clones.
Stale ==
    LET graphs == Candidates(Sections, mapped)
    IN  IF image.profile = "EncodedLoader" THEN graphs
        ELSE { g \in graphs : g.modules = image.modules }

IatCells == UNION { Cells(image.iats[i]) : i \in DOMAIN image.iats }
OwnImports == IF image.profile = "EncodedLoader" THEN {}
              ELSE Cells(image.importData)
                   \union IatCells

\* Mutants: only the winner is cleared; all between the first range and the
\* last is cleared.
ClearedOfWinner == OwnImports \union (IF Stale = {} THEN {} ELSE CellsOf(Winner(Stale)))
ClearedHull ==
    LET cells == OwnImports \union UNION { CellsOf(g) : g \in Stale }
    IN  { c \in DOMAIN mapped : \E a, b \in cells : a <= c /\ c <= b }
Cleared == OwnImports \union UNION { CellsOf(g) : g \in Stale }

\* All import cells of the image, with whatever lies between them.
IatDirectory ==
    LET First(i) == \A j \in DOMAIN image.iats : image.iats[i].from <= image.iats[j].from
        Final(i) == \A j \in DOMAIN image.iats : image.iats[j].from <= image.iats[i].from
    IN  [from |-> image.iats[CHOOSE i \in DOMAIN image.iats : First(i)].from,
         to |-> image.iats[CHOOSE i \in DOMAIN image.iats : Final(i)].to]

ClearImports ==
    /\ pc = "start" /\ ~image.pogo
    /\ IF ~Backed(Sections, IatDirectory) THEN Fail("import address table")
       ELSE IF image.profile = "EncodedLoader" /\ Stale # {} /\ Competing(Stale)
       THEN Fail("competing imports")
       ELSE /\ mapped' = [c \in DOMAIN mapped |->
                              IF c \in Cleared THEN "zero" ELSE mapped[c]]
            /\ pc' = "cleared"
            /\ UNCHANGED <<image, directories, relocations, export, layout, file,
                           pointer, failure>>

-----------------------------------------------------------------------------
\* Directories.

Holds(r) == { c \in Cells(r) : mapped[c] # "zero" }
Intact(r) == \A c \in Cells(r) : mapped[c] = image.cells[c]

\* Runtime functions cleared at the front of the table are skipped.
Trimmed(r) == IF Holds(r) = {} THEN NoRange
              ELSE [r EXCEPT !.from = CHOOSE c \in Holds(r) : \A d \in Holds(r) : c <= d]

\* What a resource tree reaches may lie in several sections; every other
\* directory lies in one.
InSections(cells) == \A c \in cells : \E i \in DOMAIN Sections : c \in SectionCells(Sections[i])

\* The debug record lies in one section, and so does its data.
DebugIsBacked(d) ==
    Backed(Sections, d.range) /\ (d.payload = NoRange \/ Backed(Sections, d.payload))

\* [kind, directory]: keep it, drop it, or refuse the image.
Judged(d) ==
    CASE d.index = "exception" ->
            LET t == Trimmed(d.range)
            IN  IF t = NoRange THEN "drop"
                ELSE IF Intact(t) /\ Backed(Sections, t) THEN "keep"
                ELSE IF t # d.range THEN "drop" ELSE "refuse"
      [] d.index = "debug" ->
            IF ~Backed(Sections, d.range) THEN "refuse"
            ELSE IF Holds(d.range) = {} THEN "drop"
            ELSE IF Intact(d.range) /\ DebugIsBacked(d) THEN "keep" ELSE "refuse"
      [] d.index = "resource" ->
            IF Intact(d.range) /\ InSections(Holds(d.range)) THEN "keep" ELSE "refuse"
      [] d.index = "tls" ->
            IF Backed(Sections, d.range) THEN "keep" ELSE "refuse"

Retained(d) == IF d.index = "exception" THEN [d EXCEPT !.range = Trimmed(d.range)] ELSE d

RecoverDirectories ==
    /\ pc = "cleared"
    /\ IF \E d \in image.directories : Judged(d) = "refuse"
       THEN Fail("directory")
       ELSE /\ directories' = { Retained(d) : d \in { e \in image.directories : Judged(e) = "keep" } }
            /\ pc' = "recovered"
            /\ UNCHANGED <<image, mapped, relocations, export, layout, file, pointer,
                           failure>>

\* The relocations are selected, made canonical and placed.  In place, the rest
\* of the old stream stays behind the new one.
PlaceRelocations ==
    /\ pc = "recovered"
    /\ LET choice == SelectStream(image, mapped)
           entries == Entries(image, choice.stream)
           length == PayloadLength(entries)
           inPlace == [from |-> choice.stream.range.from,
                       to |-> choice.stream.range.from + length]
       IN  IF ~choice.ok \/ ~EntriesAreValid(image, mapped, choice.stream)
           THEN Fail("relocations")
           ELSE /\ IF entries = {} THEN relocations' = NoRelocations /\ UNCHANGED mapped
                   ELSE IF FitsInPlace(image, choice.stream, length)
                   THEN /\ relocations' = [entries |-> entries, directory |-> inPlace,
                                           prefix |-> 0]
                        /\ mapped' = [c \in DOMAIN mapped |->
                                          IF c \in Cells(inPlace) THEN "reloc" ELSE mapped[c]]
                   ELSE /\ relocations' = [entries |-> entries,
                                           directory |-> [from |-> GeneratedAt,
                                                          to |-> GeneratedAt + length],
                                           prefix |-> length]
                        /\ UNCHANGED mapped
                /\ pc' = "relocated"
                /\ UNCHANGED <<image, directories, export, layout, file, pointer, failure>>

\* The export directory is where its graph can be read.
ExportIn(sections, cells) ==
    IF /\ Backed(sections, image.export)
       /\ \A c \in Cells(image.export) : cells[c] = image.cells[c]
    THEN image.export ELSE NoRange

\* Generated imports: descriptors, and a lookup table as long as the cells.
ImportLength == Len(image.modules) + 1 + Cardinality(IatCells)
GeneratedLength == IF image.pogo THEN 0 ELSE relocations.prefix + ImportLength
Generated == [k \in 0 .. GeneratedLength - 1 |->
                  IF k < relocations.prefix THEN "reloc" ELSE "import"]

\* Each cell gets what its lookup entry holds, the last one of a module null.
ImportCell(c) ==
    CASE \E i \in DOMAIN image.iats : c = image.iats[i].to - 1 -> "zero"
      [] \E i \in DOMAIN image.iats : c \in Cells(image.iats[i]) /\ c # image.iats[i].to - 1
            -> "thunk"
      [] OTHER -> mapped[c]

InitializeImports ==
    /\ pc = "relocated"
    /\ export' = ExportIn(Sections, mapped)
    /\ mapped' = [c \in DOMAIN mapped |-> ImportCell(c)]
    /\ pc' = "ready"
    /\ UNCHANGED <<image, directories, relocations, layout, file, pointer, failure>>

\* Authenticated linker metadata gives the whole layout: the image and its
\* directories are final, and nothing is generated.
AdoptLinkerLayout ==
    /\ pc = "start" /\ image.pogo
    /\ IF \E d \in image.directories : d.index = "debug" /\ ~DebugIsBacked(d)
       THEN Fail("debug directory")
       ELSE /\ directories' = image.directories
            /\ pc' = "ready"
            /\ UNCHANGED <<image, mapped, relocations, export, layout, file, pointer, failure>>

-----------------------------------------------------------------------------
\* The file.

\* What the file has to hold even if it is zero: the directories and the data
\* of the debug record.
RequiredRanges ==
    (UNION { {d.range, d.payload} : d \in directories }) \ {NoRange}

Greatest(S) == CHOOSE m \in S : \A n \in S : n <= m

\* Mutant: only the section a range starts in has to hold it.
ExtentOfFirstSection(s) ==
    Greatest({0} \union { c - s.start + 1 : c \in
        SectionCells(s) \intersect
            ( { d \in SectionCells(s) : mapped[d] # "zero" }
              \union UNION { Cells(r) : r \in { q \in RequiredRanges :
                                              q.from \in SectionCells(s) } } ) })

\* Mutant: counted from the start of the image.
ExtentOfImage(s) ==
    Greatest({0} \union { c + 1 : c \in
        SectionCells(s) \intersect
            ( { d \in SectionCells(s) : mapped[d] # "zero" }
              \union UNION { Cells(r) : r \in RequiredRanges } ) })

\* How many cells of the section are written: up to the last one that is not
\* zero or is required.
Extent(s) ==
    Greatest({0} \union { c - s.start + 1 : c \in
        SectionCells(s) \intersect
            ( { d \in SectionCells(s) : mapped[d] # "zero" }
              \union UNION { Cells(r) : r \in RequiredRanges } ) })

\* The sections follow the headers in the file, each cut down and aligned.
\* Mutant: the next one starts where the data of this one ends.
PlaceClosely(placed, s) ==
    Append(placed, [start |-> s.start,
                    length |-> Larger(s.virtual, s.raw),
                    at |-> IF placed = <<>> THEN image.sizeOfHeaders
                           ELSE Last(placed).at + Last(placed).extent,
                    extent |-> Extent(s),
                    raw |-> AlignUp(Extent(s), FileAlignment)])
Place(placed, s) ==
    Append(placed, [start |-> s.start,
                    length |-> Larger(s.virtual, s.raw),
                    at |-> IF placed = <<>> THEN AlignUp(image.sizeOfHeaders, FileAlignment)
                           ELSE Last(placed).at + Last(placed).raw,
                    raw |-> AlignUp(Extent(s), FileAlignment)])

\* Headers without room for the section of the generated data are refused first
\* (serialize_sections).
CompactSection ==
    /\ pc = "ready" /\ Len(layout) < Len(Sections)
    /\ IF ~image.pogo /\ ~image.hasRoom THEN Fail("header room")
       ELSE IF \E r \in RequiredRanges : ~InSections(Cells(r)) THEN Fail("required range")
       ELSE IF Sections[Len(layout) + 1].start > image.sizeOfImage THEN Fail("section range")
       ELSE /\ layout' = Place(layout, Sections[Len(layout) + 1])
            /\ UNCHANGED <<image, pc, mapped, directories, relocations, export, file,
                           pointer, failure>>

FileEnd(placed) == Last(placed).at + Last(placed).raw
FileLength(placed) == FileEnd(placed) + AlignUp(GeneratedLength, FileAlignment)

\* What is written at a position.
FileCell(placed, at) ==
    IF at < image.sizeOfHeaders THEN "header"
    ELSE IF at >= FileEnd(placed)
    THEN LET k == at - FileEnd(placed) IN IF k < GeneratedLength THEN Generated[k] ELSE "zero"
    ELSE LET p == CHOOSE i \in DOMAIN placed : at \in placed[i].at .. placed[i].at + placed[i].raw - 1
             k == at - placed[p].at
         IN  IF k < placed[p].length THEN mapped[placed[p].start + k] ELSE "zero"

\* Where a cell of the image is in the file; 0 when it is not.
FilePosition(placed, c) ==
    IF \E i \in DOMAIN placed : c - placed[i].start \in 0 .. placed[i].raw - 1
    THEN LET p == CHOOSE i \in DOMAIN placed : c - placed[i].start \in 0 .. placed[i].raw - 1
         IN  placed[p].at + c - placed[p].start
    ELSE 0

DebugRecords == { d \in directories : d.index = "debug" }
DebugData == IF DebugRecords = {} THEN NoRange ELSE (CHOOSE d \in DebugRecords : TRUE).payload

Serialize ==
    /\ pc = "ready" /\ Len(layout) = Len(Sections)
    /\ IF DebugData # NoRange /\ FilePosition(layout, DebugData.from) = 0
       THEN Fail("debug data")
       ELSE /\ file' = [at \in 0 .. FileLength(layout) - 1 |-> FileCell(layout, at)]
            /\ pointer' = IF DebugData = NoRange THEN 0
                          ELSE FilePosition(layout, DebugData.from)
            /\ pc' = "serialized"
            /\ UNCHANGED <<image, mapped, directories, relocations, export, layout, failure>>

-----------------------------------------------------------------------------
\* The verification: the file is parsed, mapped and compared.

GeneratedSection == [start |-> GeneratedAt, virtual |-> AlignUp(GeneratedLength, SectionAlignment),
                     raw |-> AlignUp(GeneratedLength, FileAlignment)]
WrittenSections ==
    [i \in DOMAIN Sections |-> [Sections[i] EXCEPT !.raw = layout[i].raw]]
    \o (IF GeneratedLength = 0 THEN <<>> ELSE <<GeneratedSection>>)
FinalSize == IF GeneratedLength = 0 THEN image.sizeOfImage
             ELSE GeneratedAt + GeneratedSection.virtual

WrittenAt(i) == IF i \in DOMAIN layout THEN layout[i].at ELSE FileEnd(layout)
RawCells(i) == WrittenAt(i) .. WrittenAt(i) + WrittenSections[i].raw - 1

\* What parsing demands of a file.
IsImage ==
    /\ \A i, j \in DOMAIN WrittenSections : i < j =>
          /\ WrittenSections[i].start < WrittenSections[j].start
          /\ SectionCells(WrittenSections[i]) \intersect SectionCells(WrittenSections[j]) = {}
          /\ RawCells(i) \intersect RawCells(j) = {}
    /\ \A i \in DOMAIN WrittenSections :
          /\ WrittenSections[i].start % SectionAlignment = 0
          /\ WrittenSections[i].raw % FileAlignment = 0
          /\ WrittenSections[i].raw # 0 => WrittenAt(i) % FileAlignment = 0
          /\ RawCells(i) \subseteq image.sizeOfHeaders .. Cardinality(DOMAIN file) - 1
          /\ SectionCells(WrittenSections[i]) \subseteq image.sizeOfHeaders .. FinalSize - 1

\* The file mapped into memory.
Loaded ==
    [c \in 0 .. FinalSize - 1 |->
        IF c < image.sizeOfHeaders THEN file[c]
        ELSE IF \E i \in DOMAIN WrittenSections :
                   c - WrittenSections[i].start \in 0 .. WrittenSections[i].raw - 1
        THEN LET i == CHOOSE n \in DOMAIN WrittenSections :
                          c - WrittenSections[n].start \in 0 .. WrittenSections[n].raw - 1
             IN  file[WrittenAt(i) + c - WrittenSections[i].start]
        ELSE "zero"]

\* The field rewritten in the debug record.
PointerCells == { d.range.to - 1 : d \in DebugRecords }

MappingDiffers(loaded) ==
    \E c \in image.sizeOfHeaders .. image.sizeOfImage - 1 :
        c \notin PointerCells /\ loaded[c] # mapped[c]

\* The only import graph to be read is the one that belongs there.
ImportsDiffer(loaded) ==
    LET graphs == Candidates(WrittenSections, loaded)
    IN  IF image.pogo THEN {g.meta : g \in graphs} # {image.importData}
        ELSE \/ graphs # {}
             \/ \E i \in DOMAIN image.iats : ~Backed(WrittenSections, image.iats[i])

RelocationsDiffer(loaded) ==
    /\ relocations.entries # {}
    /\ \/ ~Backed(WrittenSections, relocations.directory)
       \/ \E c \in Cells(relocations.directory) : loaded[c] # "reloc"
       \/ \E c \in relocations.entries :
              ~Backed(WrittenSections, [from |-> c, to |-> c + 1])

Verify ==
    /\ pc = "serialized"
    /\ IF ~IsImage THEN Fail("layout")
       ELSE LET loaded == Loaded
            IN  IF MappingDiffers(loaded) THEN Fail("mapping")
                ELSE IF ImportsDiffer(loaded) THEN Fail("imports")
                ELSE IF RelocationsDiffer(loaded) THEN Fail("relocation directory")
                ELSE IF ~image.pogo /\ ExportIn(WrittenSections, loaded) # export
                THEN Fail("export")
                ELSE /\ pc' = "done"
                     /\ UNCHANGED <<image, mapped, directories, relocations, export,
                                    layout, file, pointer, failure>>

Stopped == pc \in {"done", "failed"} /\ UNCHANGED vars

Next ==
    \/ ClearImports \/ AdoptLinkerLayout \/ RecoverDirectories \/ PlaceRelocations
    \/ InitializeImports \/ CompactSection \/ Serialize \/ Verify \/ Stopped

Spec == Init /\ [][Next]_vars

-----------------------------------------------------------------------------
Positions == 0 .. image.sizeOfImage
IsRange(r) == r.from \in Nat /\ r.to \in Nat /\ r.from <= r.to

TypeOK ==
    /\ pc \in {"start", "cleared", "recovered", "relocated", "ready", "serialized",
              "done", "failed"}
    /\ mapped \in [0 .. image.sizeOfImage - 1 -> Values]
    /\ \A d \in directories : IsRange(d.range) /\ IsRange(d.payload)
    /\ relocations.entries \subseteq Positions /\ IsRange(relocations.directory)
    /\ relocations.prefix \in Nat
    /\ IsRange(export)
    /\ Len(layout) <= Len(Sections)
    /\ \A i \in DOMAIN layout :
          layout[i].at \in Nat /\ layout[i].raw \in 0 .. AlignUp(layout[i].length, FileAlignment)
    /\ \A at \in DOMAIN file : file[at] \in Values
    /\ pointer \in 0 .. Cardinality(DOMAIN file)
    /\ failure # "none" <=> pc = "failed"

\* Sections start in the image, and are the only places behind the headers that hold
\* anything.  Nothing checks this on the way in: an image that is otherwise is refused
\* when its sections are placed, or at the end.
InSection(c) == \E i \in DOMAIN Sections : c \in SectionCells(Sections[i])
HoldsInSections(cells) ==
    \A c \in DOMAIN cells :
        cells[c] # "zero" /\ image.sizeOfHeaders <= c => InSection(c)
SectionsHoldAll ==
    /\ \A i \in DOMAIN Sections : Sections[i].start < image.sizeOfImage
    /\ HoldsInSections(image.cells)

\* The file holds the image: it is a valid image itself and, mapped, differs
\* from the recovered one in the rewritten debug pointer alone.  Cutting the
\* sections down and moving them loses nothing that sections held, so the
\* comparison with the mapped output never fails.
FileHoldsTheImage ==
    SectionsHoldAll /\ pc \in {"serialized", "done"} => IsImage /\ ~MappingDiffers(Loaded)

\* Nothing but import data and the relocation stream changes on the way from
\* the recovered image to the output.
ImportCells == OwnImports \union IatCells \union UNION { CellsOf(g) : g \in image.stale }
OnlyLoaderDataChanges ==
    \A c \in DOMAIN mapped :
        mapped[c] # image.cells[c] => c \in ImportCells \/ mapped[c] = "reloc"

\* Nothing that a pass writes lies over a directory.  Of what is cleared this is only
\* asked where it is not looked at: clearing an exception, debug or resource directory
\* is noticed.
StreamCells ==
    Cells(image.declared.range)
    \union UNION { Cells(image.producers[i].range) : i \in DOMAIN image.producers }
DirectoriesAreApart ==
    \/ image.pogo
    \/ \A d \in image.directories :
          /\ (Cells(d.range) \union Cells(d.payload)) \intersect (IatCells \union StreamCells) = {}
          /\ Cells(d.payload) \intersect ImportCells = {}
          /\ d.index \notin {"exception", "debug", "resource"} =>
                Cells(d.range) \intersect ImportCells = {}

\* Every retained directory is in the file as it was recovered, in all its
\* cells and in every section it reaches, even where it is zero; and the debug
\* record names the position its data was moved to.
DirectoriesSurvive ==
    pc = "done" /\ DirectoriesAreApart =>
        /\ \A r \in RequiredRanges : \A c \in Cells(r) :
              /\ FilePosition(layout, c) # 0
              /\ c \notin PointerCells => file[FilePosition(layout, c)] = image.cells[c]
        /\ \A k \in 0 .. Length(DebugData) - 1 :
              file[pointer + k] = image.cells[DebugData.from + k]

\* No import cell is named by a slot, or by TLS.
SlotsAreApart ==
    /\ image.tls \intersect IatCells = {}
    /\ image.declared.effective \intersect IatCells = {}
    /\ \A i \in DOMAIN image.producers : image.producers[i].effective \intersect IatCells = {}

\* The relocations of the output are complete and safe to apply: every cell
\* they name holds an address in the final image, after imports were cleared
\* and filled in and the stream was moved; TLS is covered; and a declared
\* relocation is left out only where the payload wrote over it.
RelocationsAreSound ==
    pc = "done" /\ ~image.pogo /\ SlotsAreApart =>
        /\ \A c \in relocations.entries : HoldsAddress(mapped, c)
        /\ RequiredByTls(image, mapped) \subseteq relocations.entries
        /\ image.declared.effective \ image.destinations \subseteq relocations.entries

\* The verification refuses no image a linker lays out.  Every structure lies within the
\* virtual size of a section, and what one pass writes is not what another reads.
Housed(r) ==
    \E i \in DOMAIN Sections :
        Cells(r) \subseteq Sections[i].start .. Sections[i].start + Sections[i].virtual - 1

\* The import graphs found are parts of one, with the same addresses, or clones of the
\* one that belongs there.
GraphsAgree ==
    \A g \in image.stale :
        /\ Readable(Sections, image.cells, g)
        /\ IF image.profile = "EncodedLoader"
           THEN \A h \in image.stale : \/ IsWindow(ModulesOf(g), ModulesOf(h))
                                       \/ IsWindow(ModulesOf(h), ModulesOf(g))
           ELSE g.modules = image.modules
ImportsAreWellFormed ==
    /\ Housed(IatDirectory) /\ GraphsAgree
    /\ Housed(image.export) /\ Cells(image.export) \intersect IatCells = {}
    /\ image.pogo =>
          /\ {g.meta : g \in image.stale} = {image.importData}
          /\ \A g \in image.stale :
                Housed(g.meta) /\ \A i \in DOMAIN g.iats : Housed(g.iats[i])

DirectoriesAreWellFormed ==
    \A d \in image.directories :
        /\ Housed(d.payload)
        /\ IF d.index = "resource" THEN InSections(Cells(d.range)) ELSE Housed(d.range)
        /\ ~image.pogo => Cells(d.range) \intersect ImportCells = {}

\* The streams are there, away from the import data, and their slots hold addresses.
\* They agree: one is trusted, and it covers TLS.
MayBeCleared == OwnImports \union UNION { CellsOf(g) : g \in image.stale }
IsIntact(stream) ==
    /\ Parses(image, image.cells, stream)
    /\ Cells(stream.range) \intersect ImportCells = {}
    /\ \A c \in stream.effective : /\ HoldsAddress(image.cells, c) /\ c \notin MayBeCleared
                                   /\ Housed([from |-> c, to |-> c + 1])
Produced == UNION { image.producers[i].effective : i \in DOMAIN image.producers }
StreamsAgree ==
    LET declared == image.declared
    IN  IF declared.effective # {} /\ Covered(image, declared.range)
        THEN image.tls \subseteq declared.effective
        ELSE /\ image.tls \subseteq Produced \union (declared.effective \ image.destinations)
             /\ declared.effective # {} /\ Produced = {} =>
                   image.dynamicBase /\ declared.effective = image.tls
RelocationsAreWellFormed ==
    /\ image.declared = NoStream \/ IsIntact(image.declared)
    /\ \A i \in DOMAIN image.producers :
          image.producers[i].effective # {} => IsIntact(image.producers[i])
    /\ Len(image.producers) <= 1 /\ StreamsAgree

IsWellFormed ==
    /\ SectionsHoldAll /\ ImportsAreWellFormed /\ DirectoriesAreWellFormed
    /\ image.pogo \/ (image.hasRoom /\ RelocationsAreWellFormed)

\* A well-formed image is rebuilt: no pass refuses what an earlier one left of it, and no
\* comparison of the verification fails.
WellFormedIsRebuilt == IsWellFormed => pc # "failed"

=============================================================================
