--------------------------- MODULE ImportDiscovery ---------------------------
(* Import recovery, src/pipeline/stages/imports: the scan for CrackProof's      *)
(* encoded descriptor table, which has no address and is found by trying every   *)
(* aligned place of every section, and the ordinary import directory, which a    *)
(* managed image uses and a native library falls back to.                        *)
(*                                                                               *)
(* The image is a row of cells, one for each place a table may start, cut in      *)
(* sections. A descriptor is Width cells. It is null when all of them are zero,    *)
(* unfit when one is (a field the code demands is then zero, or a record is        *)
(* torn), broken when its names, thunks or address table do not hold up, and        *)
(* otherwise names a module. A descriptor is its place: that two candidates have     *)
(* the same modules where they share descriptors is not a question.                   *)
(* The budgets of functions, name bytes and metadata are spent by the module as       *)
(* that of descriptors is, and are left to it.                                        *)
EXTENDS Naturals, Sequences, FiniteSets

CONSTANTS
    Width,             \* DESCRIPTOR_SIZE / DESCRIPTOR_ALIGNMENT: 5 in the code
    MaxStarts,         \* MAX_SCANNED_DESCRIPTOR_STARTS
    MaxDescriptors,    \* MAX_PARSED_DESCRIPTORS
    MaxCandidates,     \* MAX_VALID_CANDIDATES
    MaxDeclared        \* MAX_STANDARD_DESCRIPTORS: descriptors a directory may declare

ASSUME ImportBoundsAreNatural ==
    /\ Width \in Nat \ {0} /\ MaxStarts \in Nat /\ MaxDescriptors \in Nat
    /\ MaxCandidates \in Nat

VARIABLES
    imports,       \* the image: [cells, sections, directory]
    source,        \* the profile: "EncodedLoader", "Standard", "NativeDll", "none"
    doing,         \* "idle", "scan", "choose", "directory", "returned"
    place,         \* the next table start, or the next descriptor of the directory
    starts,        \* budget: places scanned
    parsed,        \* budget: descriptors charged
    candidates,    \* the tables found: [at, modules]
    discovery      \* what was returned

importVars == <<imports, source, doing, place, starts, parsed, candidates, discovery>>

Failed == [result |-> "failed"]
Found(profile, at, modules) ==
    [result |-> "found", profile |-> profile, at |-> at, modules |-> modules]

Places == DOMAIN imports.cells
Span(p) == p .. p + Width - 1
InOneSection(p) == Span(p) \subseteq Places /\ \E s \in imports.sections : Span(p) \subseteq s

\* The module name, the thunks and the hint/name records of a descriptor decode.
Decodes(p) == \A c \in Span(p) : imports.cells[c] # "broken"

\* is_null_descriptor, the field checks of parse_candidate, and what it decodes.
Descriptor(p) ==
    LET values == {imports.cells[c] : c \in Span(p)}
    IN  IF      ~InOneSection(p)   THEN "torn"
        ELSE IF values = {"zero"}  THEN "null"
        ELSE IF "zero" \in values  THEN "unfit"
        ELSE IF ~Decodes(p)        THEN "broken"
        ELSE "module"

\* The run of modules that starts at p, and the descriptor that ends it.
Row(p, n) == p + n * Width
RunLength(p) ==
    CHOOSE n \in 0 .. Len(imports.cells) :
        /\ \A i \in 0 .. n - 1 : Descriptor(Row(p, i)) = "module"
        /\ Descriptor(Row(p, n)) # "module"
RunEnd(p) == Descriptor(Row(p, RunLength(p)))

\* parse_candidate: the descriptors it charges, and whether a table is found.
Charge(p) == RunLength(p) + (IF RunEnd(p) = "broken" THEN 1 ELSE 0)
IsTable(p) == RunLength(p) > 0 /\ RunEnd(p) = "null"

\* The places where a descriptor fits into a section, in the order of the scan.
IsStart(p) == InOneSection(p)

\* What a scan of the places S charges: the descriptors read from each of its starts.
IsParsed(p) == IsStart(p) /\ Descriptor(p) # "null"
Charged(S) == UNION {{p} \X (1 .. Charge(p)) : p \in {q \in S : IsParsed(q)}}

ImportInit ==
    /\ source = "none" /\ doing = "idle"
    /\ place = 1 /\ starts = 0 /\ parsed = 0
    /\ candidates = {}
    /\ discovery = [result |-> "none"]

StartImports(profile) ==
    /\ doing = "idle"
    /\ source' = profile
    /\ doing' = IF profile = "Standard" THEN "directory" ELSE "scan"
    /\ UNCHANGED <<imports, place, starts, parsed, candidates, discovery>>

\* The budgets of one place; every charge is checked as it is made.
OverParsed(charge, finds) ==
    \/ parsed + charge > MaxDescriptors
    \/ finds /\ Cardinality(candidates) + 1 > MaxCandidates
OverBudget(charge, finds) == starts + 1 > MaxStarts \/ OverParsed(charge, finds)

\* Any error of the scan sends a native library to the ordinary directory.
ScanFails ==
    /\ IF source = "NativeDll"
       THEN doing' = "directory" /\ UNCHANGED discovery
       ELSE doing' = "returned" /\ discovery' = Failed
    /\ place' = 1 /\ starts' = 0 /\ parsed' = 0   \* the directory has its own budget

SkipPlace ==
    /\ doing = "scan" /\ place <= Len(imports.cells) /\ ~IsStart(place)
    /\ place' = place + 1
    /\ UNCHANGED <<imports, source, doing, starts, parsed, candidates, discovery>>

\* One place: charged, passed over when null, else parsed as a table.
ScanPlace ==
    /\ doing = "scan" /\ place <= Len(imports.cells) /\ IsStart(place)
    /\ LET charge == IF Descriptor(place) = "null" THEN 0 ELSE Charge(place)
           finds == Descriptor(place) # "null" /\ IsTable(place)
       IN  IF OverBudget(charge, finds)
           THEN ScanFails /\ UNCHANGED candidates
           ELSE /\ starts' = starts + 1
                /\ parsed' = parsed + charge
                /\ candidates' = IF finds
                                 THEN candidates \union
                                      {[at |-> place, modules |-> RunLength(place)]}
                                 ELSE candidates
                /\ place' = place + 1
                /\ UNCHANGED <<doing, discovery>>
    /\ UNCHANGED <<imports, source>>

EndScan ==
    /\ doing = "scan" /\ place > Len(imports.cells)
    /\ doing' = "choose"
    /\ UNCHANGED <<imports, source, place, starts, parsed, candidates, discovery>>

IsShorter(c, winner) == c.modules <= winner.modules
\* candidate_is_suffix_of: some rows further down, up to the same null descriptor.
IsSuffixOf(c, winner) ==
    /\ IsShorter(c, winner)
    /\ c.at = Row(winner.at, winner.modules - c.modules)

Longest == {c \in candidates : \A d \in candidates : d.modules <= c.modules}

\* Exactly one longest table, and every other one its suffix.
ChooseTable ==
    /\ doing = "choose"
    /\ IF /\ Cardinality(Longest) = 1
          /\ \A w \in Longest : \A c \in candidates : IsSuffixOf(c, w)
       THEN LET w == CHOOSE c \in Longest : TRUE
            IN  /\ doing' = "returned"
                /\ discovery' = Found("EncodedLoader", w.at, w.modules)
                /\ UNCHANGED <<place, starts, parsed>>
       ELSE ScanFails
    /\ UNCHANGED <<imports, source, candidates>>

(* The ordinary directory: imports.directory has the descriptors from its start *)
(* to the end of the image and the number its size declares, 0 for none. The     *)
(* descriptor after the declared ones may still be the null one.                  *)
Directory == imports.directory

ReadDirectory ==
    /\ doing = "directory"
    /\ LET refuse == doing' = "returned" /\ discovery' = Failed
                     /\ UNCHANGED <<place, parsed>>
       IN  IF \/ Directory.declared = 0 \/ Directory.declared > MaxDeclared
              \/ parsed + 1 > MaxDescriptors
              \/ place > Len(Directory.rows)
           THEN refuse
           ELSE IF Directory.rows[place] = "null"
           THEN /\ doing' = "returned"
                /\ discovery' = IF place > 1 THEN Found("Standard", 1, place - 1) ELSE Failed
                /\ parsed' = parsed + 1 /\ UNCHANGED place
           ELSE IF Directory.rows[place] = "broken" \/ place > Directory.declared
           THEN refuse
           ELSE /\ place' = place + 1 /\ parsed' = parsed + 1
                /\ UNCHANGED <<doing, discovery>>
    /\ UNCHANGED <<imports, source, starts, candidates>>

ImportSteps ==
    \/ SkipPlace \/ ScanPlace \/ EndScan \/ ChooseTable \/ ReadDirectory

-----------------------------------------------------------------------------
\* An image: its cells, and a directory that is no longer than the image.
ImportImage(i) ==
    /\ i.cells \in Seq({"zero", "good", "broken"})
    /\ Len(i.directory.rows) \in 0 .. Len(i.cells)

ImportTypeOK ==
    /\ ImportImage(imports)
    /\ source \in {"none", "EncodedLoader", "Standard", "NativeDll"}
    /\ doing \in {"idle", "scan", "choose", "directory", "returned"}
    /\ place \in 1 .. Len(imports.cells) + 1
    /\ starts \in 0 .. MaxStarts /\ parsed \in 0 .. MaxDescriptors
    /\ \A c \in candidates : c.at \in Places /\ c.modules \in Nat \ {0}
    /\ Cardinality(candidates) <= MaxCandidates
    /\ discovery.result \in {"none", "failed", "found"}

\* The cells of a table: its rows and the null descriptor that ends it.
TableAt(p) == UNION {Span(Row(p, i)) : i \in 0 .. RunLength(p)}

\* No table holds all others, or the search of the whole image exceeds a budget.
TableStarts == {p \in Places : IsStart(p) /\ IsTable(p)}
EncodedIsUndecided ==
    \/ ~\E p \in TableStarts : \A q \in TableStarts : TableAt(q) \subseteq TableAt(p)
    \/ Cardinality({p \in Places : IsStart(p)}) > MaxStarts
    \/ Cardinality(TableStarts) > MaxCandidates
    \/ Cardinality(Charged(Places)) > MaxDescriptors

(* The encoded table returned explains every table the image holds: each lies     *)
(* inside it, down to the same null descriptor. So no order of the scan, no pair of *)
(* equally long tables and no budget that ends it early can make it return one of   *)
(* two import graphs (loader.rs: every other valid graph, including a shorter one,  *)
(* makes discovery ambiguous).                                                       *)
EncodedTableIsDominant ==
    discovery.result = "found" /\ discovery.profile = "EncodedLoader" =>
        /\ IsTable(discovery.at)
        /\ \A p \in Places : IsStart(p) /\ IsTable(p) =>
              /\ TableAt(p) \subseteq TableAt(discovery.at)
              /\ Row(p, RunLength(p)) = Row(discovery.at, RunLength(discovery.at))
=============================================================================
