--------------------------- MODULE BaseRelocations ---------------------------
(***************************************************************************)
(* The base relocations of the rebuilt image: which relocation stream of   *)
(* the recovered image is trusted, and what the canonical stream contains  *)
(* (stages/rebuild/mod.rs).                                                *)
(*                                                                         *)
(* A position of the image is a cell, large enough for a pointer; a range  *)
(* is [from, to).  A stream is its range and the slots its bytes spell     *)
(* out: `effective` ones name the cell to relocate, `absolute` ones are    *)
(* the padding, which names a cell too.                                    *)
(***************************************************************************)
EXTENDS Integers, Sequences, FiniteSets

CONSTANTS
    SectionAlignment,   \* cells of a page
    FileAlignment       \* cells the file is aligned to

ASSUME Alignments ==
    /\ FileAlignment \in Nat \ {0} /\ SectionAlignment \in Nat \ {0}
    /\ SectionAlignment % FileAlignment = 0

Cells(r) == r.from .. r.to - 1
Length(r) == r.to - r.from
NoRange == [from |-> 0, to |-> 0]
NoStream == [range |-> NoRange, effective |-> {}, absolute |-> {}]

Larger(a, b) == IF a < b THEN b ELSE a
AlignUp(n, a) == ((n + a - 1) \div a) * a

\* A section reaches as far as the larger of its two sizes.
SectionCells(s) == s.start .. s.start + Larger(s.virtual, s.raw) - 1
Backed(sections, r) ==
    \E i \in DOMAIN sections : Cells(r) # {} /\ Cells(r) \subseteq SectionCells(sections[i])

-----------------------------------------------------------------------------
\* Which stream is trusted.

\* The bytes of the stream are still there.
Parses(image, mapped, stream) ==
    /\ Backed(image.sections, stream.range)
    /\ \A c \in Cells(stream.range) : mapped[c] = "reloc"

HoldsAddress(mapped, c) == mapped[c] = "va"

Covered(image, r) == Cells(r) # {} /\ Cells(r) \subseteq image.destinations

\* A payload record may start with a stream.  A block with a slot that holds no
\* address ends the stream before it; the streams here have one block.
Producers(image, mapped) ==
    { i \in DOMAIN image.producers :
          LET stream == image.producers[i]
          IN  /\ stream.effective # {}
              /\ Parses(image, mapped, stream)
              /\ \A c \in stream.effective : HoldsAddress(mapped, c) }

\* The records are looked at in turn, and one that the stream found before extends
\* over is passed by: the first that starts with a stream, and those behind its end.
FirstOf(found) == CHOOSE i \in found : \A j \in found : i <= j
Rivals(image, found) ==
    { j \in found : /\ FirstOf(found) < j
                    /\ image.producers[FirstOf(found)].range.to <= image.producers[j].range.from }

\* The pointers of the TLS directory and of its callback array, which the
\* loader must relocate when the image may be moved.
RequiredByTls(image, mapped) ==
    IF image.dynamicBase THEN { c \in image.tls : mapped[c] # "zero" } ELSE {}

MatchesTls(image, mapped, stream) ==
    /\ \A c \in stream.effective : HoldsAddress(mapped, c)
    /\ stream.effective # {}
    /\ stream.effective = RequiredByTls(image, mapped)

Trust(stream) == [ok |-> TRUE, stream |-> stream]
Refuse == [ok |-> FALSE, stream |-> NoStream]

\* The declared stream if the payload wrote all of it; else the only stream a
\* payload record starts with; else the declared one if it is exactly what TLS
\* needs.  A declared stream that relocates something is never ignored.
SelectStream(image, mapped) ==
    LET declared == image.declared
        found == Producers(image, mapped)
    IN  IF declared # NoStream /\ ~Parses(image, mapped, declared) THEN Refuse
        ELSE IF declared.effective # {} /\ Covered(image, declared.range)
        THEN Trust(declared)
        ELSE IF found # {}
        THEN IF Rivals(image, found) # {} THEN Refuse ELSE Trust(image.producers[FirstOf(found)])
        ELSE IF declared.effective = {} THEN Trust(NoStream)
        ELSE IF MatchesTls(image, mapped, declared) THEN Trust(declared)
        ELSE Refuse

-----------------------------------------------------------------------------
\* What the canonical stream contains.

\* The declared slots the selected stream does not have: those the payload did
\* not write over, and those the selected stream holds a placeholder for.
Restored(image, selected) ==
    { c \in image.declared.effective \ selected.effective :
          c \in selected.absolute \/ c \notin image.destinations }

Entries(image, selected) == selected.effective \union Restored(image, selected)

\* Mutant: the cells TLS needs are not looked for.
EntriesHoldAddresses(image, mapped, selected) ==
    \A c \in Entries(image, selected) : HoldsAddress(mapped, c)
EntriesAreValid(image, mapped, selected) ==
    /\ \A c \in Entries(image, selected) : HoldsAddress(mapped, c)
    /\ RequiredByTls(image, mapped) \subseteq Entries(image, selected)

\* One block per page: a header, and a cell for every two slots.
Page(c) == c \div SectionAlignment
SlotsBefore(entries, c) == Cardinality({ d \in entries : Page(d) = Page(c) /\ d < c })
PayloadLength(entries) ==
    Cardinality({ Page(c) : c \in entries })
    + Cardinality({ c \in entries : SlotsBefore(entries, c) % 2 = 0 })

\* In the place of the selected stream when it fits, else before the generated
\* imports.
FitsInPlace(image, selected, length) ==
    /\ length <= Length(selected.range)
    /\ Backed(image.sections,
              [from |-> selected.range.from, to |-> selected.range.from + length])

=============================================================================
