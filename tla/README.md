# Models of the CrackProof unpacker

This directory holds TLA+ models of the Rust program in this repository: a
command line tool that recovers the original PE image from a file protected
with CrackProof. The program is sequential on the outside (nine stages, one
thread) and cautious on the inside: it searches a packed image for structures
that have no address, accepts one only when nothing contradicts it, checks its
work limits before it starts, can be cancelled at many points, and reports
every step to an observer that may itself fail. The models are about that
caution: what is accepted, what is refused, what is reported, and what is left
on disk.

Paths below are relative to the repository root.

## 1. Inventory

### Pipeline and run lifecycle — `src/pipeline/mod.rs`, `stage.rs`, `observer.rs`, `failure.rs`, `cancellation.rs`, `outcome.rs`
* State: the stage, the partial `RunSummary`, the shared `CancellationToken`,
  and (outside) the observer and the output file.
* Operations: `run` executes nine stages; `run_stage` brackets each with a
  checkpoint, `StageStarted`/`OperationStarted`, the work, a checkpoint,
  `OperationCompleted`/`StageCompleted`; `make_failure` classifies an error,
  tells the observer and builds the failure.
* Hard: Ctrl-C is another thread; every `observe` can fail; the failure's
  class is found by type behind layers of context and by message; the output
  file is written in two visible steps.
* Correct when: result, events, summary and exit code agree; a cancelled run
  starts no stage; nothing is written unless all eight earlier stages
  succeeded; success means the whole image was written.

### Payload route — `stages/payload/decrypt/router.rs`, `controller/mod.rs`
* State: the attempts made, the first controller success.
* Operations: for each of nine registrations probe, recover, authenticate,
  finalize; then the evidence search.
* Hard: a fatal error after a success; contradictory successes; a token set
  between any two steps; a trace that is rewritten at the end.
* Correct when: the payload is the only one any controller vouches for, the
  trace explains the decision, cancellation bites at once.

### Candidate replay — `stages/payload/decrypt/replay.rs`
* State: per lane a reused scratch image; per candidate a result.
* Operations: prepare prefix-viable chains, deal them to rayon lanes, replay
  each over all blocks, join, choose the only survivor, replay it again.
* Hard: lanes run concurrently, reuse memory, stop early on an error; the
  number of lanes depends on the memory available.
* Correct when: each result is the candidate's own and the choice is that of a
  sequential replay.

### Payload-block table discovery — `stages/payload/decrypt/records.rs`
* State: two rows of memoised run lengths, the longest run, a work counter.
* Operations: two backward passes over every (offset, phase), one rebuild.
* Hard: dynamic programming with one row, phase arithmetic modulo 256, a work
  bound computed before the work.
* Correct when: the table selected contains every other one and the bound is
  never hit half way.

### Controllers — `stages/payload/decrypt/controller/*.rs`
* State: the controller's copy of the mapped image, opened layer by layer, and
  the base image it will hand to the replay.
* Operations: nine families, each a `probe` (is this my root?), a `recover`
  (open the layers, read the lists, propose a plan) and a `finalize` (zero
  ranges, header, the protector's own section). `shared.rs` holds the steps,
  `controller/mod.rs` the dispatch and what an ending probe means.
* Hard: no key is compared with anything; a key is made of words and checksums
  of layers opened before, some of them over the encrypted form of a region
  that was read in passing. Probes make different things of a failing step. The
  order of zero fills, restorations and the replay differs from one to another.
* Correct when: an altered or foreign image never becomes a plan, an intact one
  always does, a stop is told as a stop, and the recovered image holds the
  payload and nothing of the controller's own.

### Nested records — `stages/payload/nested/mod.rs`, `decrypt/replay.rs`
* State: the work budget (keys and encoded bytes), per graph the records
  processed and the byte maps in use, per record bounded batches of outputs.
* Operations: three tiers of graph discovery; per graph profiles, rounds and
  output passes; per record a charge and a key search, direct or in parallel
  chunks.
* Hard: the key search runs on several lanes and its bounded findings are
  merged to unique, ambiguous or none; a budget is shared by every graph of the
  primary tier and may end in the middle of one; maps found in one round unlock
  records in the next.
* Correct when: the merged verdict is that of one sequential search over all
  keys, the budget is never overdrawn and bounds what the scans add up to, what is returned was found last, and the search
  ends.

### Evidence search and decoder — `evidence.rs`, `decoder.rs`, `grammar.rs`, `aes.rs`
* Evidence search: block table, AES contexts, decoders and nested byte maps are
  searched independently and combined by replay.
* Decoder: a prefix code in a table of nodes; validation is a depth-first walk
  with stamps that wrap and a bounded stack.

### Detection, imports, startup, rebuild — `stages/detect`, `imports`, `startup`, `rebuild`
* Detection scans for exactly one descriptor, with progress and checkpoints.
* Startup recovery (`startup/stage.rs`, `sparse.rs`, `native/*.rs`) looks for
  the entry: managed and library entries, then native ones in the raw image,
  then in the image decoded in place by each sparse-page profile, which is taken
  back after every look. Hard: five shapes of entry, each with evidence that
  skips a site or ends the search; two sites, two keys or one key derived by two
  profiles. Correct when the entry is the only one in the image left in memory,
  and nothing decidable is refused.
* Import recovery (`imports/mod.rs`, `loader.rs`, `standard.rs`) scans every
  aligned place for a descriptor table under four budgets and takes the longest
  if every other is its suffix; managed images use the ordinary directory,
  native libraries fall back to it. Correct when the table contains every rival
  and belongs to the entry.
* Rebuild clears the imports it finds, retains the directories it can vouch
  for, selects and rewrites the base relocations, fills in the import cells,
  cuts the sections down to what they hold, writes the file, maps it again and
  compares. Hard: each pass relies on what the earlier ones left, sections and
  directories may end behind one another's sizes, zero tails are dropped.
  Correct when: nothing but loader data changes, the file holds the image and
  all it retained, every relocation names an address, and a well-formed image
  is not refused by the rebuild's own verification.

### Command line, telemetry and displays — `src/cli`
* The exit code, the Ctrl-C handler, and three observers: interactive, JSON
  lines (a hub with a sequence counter and a current stage) and silent.

### Not part of the logic
`src/pe` (parsing), `src/util`, `stages/payload/bootstrap` (pure byte work).

### How the parts interact
The command line builds one request and one token and calls `run`. Stages call
each other's results only through `run`, never directly. The payload stage
calls the route, the route calls controllers and the evidence search, both of
which end in candidate replay. Everything reports through the observer and
looks at the one token. `PROJECT.json` lists the hazards of each part with the
line where they bite.

## 2. Modules and the code they model

| Module | Models | State and actions |
|---|---|---|
| `UnpackPipeline` | `Pipeline::run`, `run_stage`, `make_failure`, `classify_failure`, `write.rs`, the exit code | `pc`/`stage` is the position in `run_stage`; `events` the observe calls with their results; `summary` the stages timed and evidenced; `files` the two paths. One action per observe call, checkpoint, way the work ends and step of `fs::write`; `Cancel` is the signal thread and `Crash` the death of the process |
| `UnpackContract` | what a run promises about the output file | abstract specification, implemented by `UnpackPipeline` |
| `PayloadRouter` | `recover_payload_automatically` with the real registry | `answer` is what each applicable controller will say; `attempts` the trace; `retained` the kept success; one action per step between two looks at the token |
| `PayloadDecision` | what the route decides, in one step | abstract specification, implemented by `PayloadRouter` |
| `CandidateReplay` | the parallel part of `select_payload_plan_impl` | per lane the candidate, the block, the scratch image; the image is the last writer of each cell |
| `PayloadBlocks` | `discover_payload_block_table_impl` | per pass the index and phase, the two rows of lengths, the counter |
| `NestedReplay` | `replay_nested_keys` and `replay_nested_record`: the key search of one nested record | `search` is the set of keys, the byte maps and the context in turn; `chunks` the keys, position and bounded batch of each lane; `merged` and `at` what the caller has merged and the candidate that comes next; one action per key replayed, per candidate merged, per batch and context that ends, per look at the token |
| `NestedGraph` | `discover_nested_byte_map_result` and what it calls for a graph | `tier`, `root`, profile, round and pass are the loops; `budget` is what the primary tier may still charge, `work` what its scans did, by profile; `direct` and `scan` are the keys of the scan under way and its form; `maps` and `processed` what the graph has found; one action per loop entry, per scan of a record's keys and per way a record is left |
| `BaseRelocations` | the trust in relocation streams and the canonical stream of `rebuild/mod.rs`, as operators | none: an image record and its contents are parameters |
| `OutputRebuild` | `rebuild` and `rebuild_pogo`, the parsing and mapping of the result | `mapped` is the image in memory, `layout` and `file` what is written; one action per pass, `failure` names the pass's refusal |
| `StartupEntry` | the evidence of each entry profile in `startup/mod.rs`, `native/amd64.rs`, `native/i386.rs`, as tables and operators | none: an image and a view of it are parameters |
| `StartupSelection` | `select_output_entry` and the sparse profiles of `stage.rs`, `sparse.rs` | `decoded` is the set of keys the image in memory was decoded with an odd number of times, `untried` the profiles left to try; one action per look, decoding and restoration |
| `ImportDiscovery` | `loader.rs`, `standard.rs`, the choice in `imports/mod.rs` | `place` is the scan, `starts`, `parsed`, `candidates` its budgets; one action per place, per descriptor of a directory, per choice |
| `ImageRecovery` | the two stages as `Pipeline::run` orders them | composes `StartupSelection` and `ImportDiscovery` |
| `ControllerPrograms` | the probe and recovery of the nine controllers, as sequences of steps in the vocabulary of `shared.rs` | none: constants of the registry |
| `ControllerReplay` | `controller/mod.rs` and the finalizers, running a program | `region` is each region's form (sealed, plain, noise), `cells` the base and the recovered image; one action per step, per failing step, per phase |
| `MC*` | instances for TLC | constants only |
| `*Proofs` | theorems about the module of that name (`NestedProofs`: about `NestedGraph` and `NestedReplay`) | see section 5 |

Abstractions that matter:

* In `UnpackPipeline` a stage's work is the set of ways it can end
  (`WorkCauses`), each with the type the classification can still find. One
  progress event stands for up to 21 of the descriptor scan. `hardLink` and
  `samePath` are the ways the output path can denote the input.
* In `PayloadRouter` a controller's internals are one answer, fixed by the
  image and chosen in `Init`. Plans are taken up to `semantically_eq`.
* In `CandidateReplay` bytes are replaced by who wrote them last. That is
  exactly what decides whether a decoding can differ from that on a fresh
  image: with the same writer before its destination a block decodes as
  `fate` says, with another writer anything may happen.
* In `NestedReplay` an output is a model value and the image fixes, in `Init`,
  which outputs the tries of a key yield; whether an output is structured is a
  property of the value, as it is of the bytes in the code.
* In `NestedGraph` the answer of a scan is arbitrary (that is `NestedReplay`'s
  subject), and a set of keys is its size, which is all the budget looks at. The
  charge and the work are kept apart: a record is charged for its keys once, and
  then the direct prefix, what is behind it or the complete set are gone through,
  each in the legacy and perhaps in the extended form. A scan counts as all its keys,
  though an error or a second output may end it early. One unit of work is one key
  over one record; that each takes all AES contexts, byte maps and rotations is a
  factor the code's budget does not count either.
* In `OutputRebuild` a position is a cell that a pointer fits in, with one of
  a few contents. The image says where its graphs, directories and streams are;
  whether one can still be read is whether its cells are as they were. Headers,
  names and checksums have no content of their own. A module of a graph is its name
  and symbols with the address it was read for: rivals are compared as a whole,
  clones without the address, as in the code.
* In `StartupEntry` a site is known by the first piece of evidence it lacks; in
  `StartupSelection` an image decoded under two keys at once shows no entry.
* In `ImportDiscovery` an image is a row of cells, one for each place a table
  may start, and a descriptor holds up or does not. The code's descriptors are
  five cells; the instance uses two.
* In `ControllerPrograms` a key is the set of regions whose words and checksums
  it is made of. It is right when all of them have the form the protector's own
  code would see, wrong otherwise, and a wrong key makes noise; noise passes
  the weak checks (`Snapshot`) and fails the demanding ones (`Verify`). A word
  read in an altered region may be intact; a checksum over it never is.
* In `ControllerReplay` the payload replay is `CandidateReplay`, seen as right or
  refused; the registry's and the container's part is in `PayloadRouter`. A cell holds
  what wrote it last. Whether zero bytes lie at the TLS directory, whoever wrote them,
  and whether the packed file's TLS directory can be used are fields of the image.
* In `PayloadBlocks` the record cipher is replaced by an arbitrary table of
  kinds. Offset and phase determine the record, so the comparison of the first
  record in `payload_block_table_is_exact_suffix` is always true and left out.

## 3. Runs

| Run | Instance | What it shows |
|---|---|---|
| `pipeline` | all 8 requests, about 22 000 states | `RunIsReported`, `SummaryMatchesEvents`, `CancelStopsTheRun`, `FailsClosed`, and that the run implements `UnpackContract` and ends |
| `output_is_atomic`, `output_preserved_is_true`, `input_is_never_overwritten` | same | three claims of the repository that the code does not keep, section 6 |
| `payload_router` | the 9 registrations, 4 containers, 2 plans, 2 images, about 525 000 states | `PayloadIsUnanimous`, `TraceTellsTheRoute`, `CancellationIsPrompt`, and that the route implements `PayloadDecision` |
| `candidate_replay` | 3 candidates, up to 3 lanes (4 threads), 3 cells, 4 layouts, about 62 000 states | `VerdictIsItsOwn`, `SelectionIsSequential`, `SelectionEnds` |
| `payload_blocks` | every source of 1 to 4 records under 2 phases, 5 refused, about 490 000 states | `SelectionIsDominant`, `WorkIsBounded` |
| `nested_replay` | 6 outputs (3 structured), 2 lanes, 3 tries a key, 3 hits, result of 1, batches of 2, about 404 000 states | `VerdictIsSequential` |
| `nested_graph` | 2 maps, up to 2 records, 1 root of each kind, 6 keys, 8 bytes, about 884 000 states | `ResultIsLastGeneration`, `PrimaryWorkIsBounded`, `SearchEnds` |
| `image_recovery` | 2 keys, 3 profiles one of which repeats a key, every small view of an image; 5 to 12 cells in 1 or 2 sections, about 520 000 states | `ImageIsAsReported`, `SelectedEntryIsAlone`, `SparseImageIsRecovered`, `EncodedTableIsDominant`, `ImportsFollowTheEntry` |
| `controllers` | the 9 programs; up to two altered regions, another family's layout, every pair of payload destinations with every zero range, the directories put back and the places of TLS on 6 cells, about 2 250 000 states | `TamperIsNoticed`, `AnswerIsTrue`, `FinalImageIsAccountedFor` |
| `output_rebuild` | 2 or 3 sections of one page of 4 cells, about 23 000 images and 155 000 states | `FileHoldsTheImage`, `DirectoriesSurvive`, `OnlyLoaderDataChanges`, `RelocationsAreSound`, `WellFormedIsRebuilt` |

Why the bounds are enough. The pipeline has no unbounded part: nine stages,
each once. The registry is the real one; two plans and two images let two
controllers agree, differ in the plan alone and in the image alone, and the
up to four controllers of a container bring a success before and after
each. Three candidates on one to three lanes give every way to share a
scratch; three cells give adjacent, overlapping and unordered destinations.
Four records and two phases give a dominant run with a tail, two runs of equal
length, a run in the tail's place with the wrong phase, and a run that crosses
phases; `MaxChecks` is the work of exactly four records, so the bound is tight
there and five records are refused. Three hits over-fill a batch of two and a
result of one with outputs of either sort, and three keys on two lanes leave a
chunk shorter than the other. Two records let one seed the maps of the other,
repeat its maps, or contradict them; 6 keys and 8 bytes run out separately,
together, inside a graph and between two graphs, and the scans of the extended
profile add up to exactly four times the 6 keys. The token is looked at in every second row
(256th in the code). For the rebuild, a page of four cells and a file alignment
of two leave padding before, at and behind every boundary; the first section
takes every virtual and raw size, a directory of each kind every position, its
own section's end and the gap included; up to two import graphs are parts,
clones or rivals, rivals by their addresses alone included; a declared and up to two produced streams choose among three
targets, with every combination of what the payload wrote; directories lie apart
from, next to and over what is cleared; data lies outside of sections, and an
empty section at the end of the image and behind it; slots lie among the import
cells too. For startup, every piece of
evidence is lacking at one site, alone and beside a complete site of the same or
another shape; two keys and three profiles give one match, two matches, the same
key twice and a match in the raw image too. For imports, every content of up to
ten cells of two (`zero`, `good`) or eight cells of three (`broken` as well)
kinds, cut behind the fourth cell or not, and two rows of twelve give parts,
suffixes, rivals of equal length, torn tables and a table behind more places
than are scanned; `MaxStarts` 10, `MaxDescriptors` 9,
`MaxCandidates` 3 and `MaxDeclared` 2 are each met by some rows and kept by
others. For the controllers, every region a program reads or sums is altered
alone and with every other one: the two are the region a key depends on and the
one that could mask it, a third only alters more. Two destinations and one zero
range on six cells, a header among them, lie apart, touch, overlap and coincide,
inside and outside the protector's own section (2 .. 4) and the section with the
COM descriptor (1 .. 2). The TLS directory lies in and outside the protector's section,
behind the image, on payload that is zero, with its template on payload, and is
unusable; a source lies in the file, behind it, in a certificate and in a declared
security directory without one.

## 4. Fairness

`UnpackPipeline` and `PayloadRouter` are one thread that never waits: weak
fairness of that thread's next step, none of `Cancel` and `Crash`. It assumes
that a file operation or an observer call returns. `CandidateReplay` has weak
fairness of the caller and of each lane: rayon runs every closure it was given,
and a lane never waits for another. `NestedGraph` is one thread: weak fairness
of its step. `PayloadBlocks`, `NestedReplay`, `OutputRebuild`,
`ImageRecovery` and `ControllerReplay` state no liveness: their loops
are bounded by construction, and the check for deadlock shows that a state
without successor is one that has returned.

## 5. Proofs

Each `*Proofs` module proves, for every value of the constants, that an inductive
invariant holds, and the properties as its consequences. An invariant is laid
out as in the code: one conjunct per thing the loops carry. TLC checked each of
them on the run of its module before it was proved.

**`UnpackPipelineProofs`** (any set of requests; `RequestsAreTyped`).
`TypeCorrect`, `ReportsAreRight`, `SummaryIsRight`, `CancellationStops`,
`RunFailsClosed` state the five invariants of the run; `ContractIsKept` that its
steps are steps of `UnpackContract` or stutters. What the properties say of
`events` and `summary` is true of finished runs and stages, so `IInv` adds what
is true in between: `PlaceInv` (which events are pending at each `pc`),
`SummaryInv` (timings are those of the completed stages), `EventsInv` (the
order of what was observed), `ReportInv` (which failure is being told),
`CancelInv` (what may still happen since the token was set) and `FilesInv` (the
files are untouched up to the last stage, and what each of its steps does).

**`PayloadRouterProofs`** (any plans and images, no assumption). `TypeCorrect`,
`Unanimity`, `PromptCancellation` and `TraceIsTrue` state the run's properties;
`DecisionIsSafe` that the route's steps are steps of `PayloadDecision` or
stutters. That the returned payload is the only one needs to know, before the
return, that every registration up to the cursor was seen and agreed: `Passed`
and `CursorInv` carry that, `ReturnedInv` what was returned and why, `CancelInv`
what may have happened since the token was set. The trace is rewritten at the
end, so `TraceInv` says what the running trace holds before.

**`CandidateReplayProofs`** (any number of candidates, blocks, cells and lanes;
`CountsArePositive`, `LayoutsAreTyped`). `VerdictsDoNotLeak` rests on
`ScratchInv`: what a lane's scratch holds before a block's destination is what
a fresh image would hold there, for every block it has still to decode.
`ParallelSelectionIsSequential` adds `DealtInv` (each candidate is dealt once)
to go from results to the choice.

**`PayloadBlocksProofs`** (any source, phases and bound; `BoundsArePositive`).
`SelectedTableIsDominant` says that the two backward passes find the run that
contains all others. Its invariant says what each memoised length means: it is
the closed-form length of the run at that offset and phase, for the places
passed in the row being filled and for the whole row before. `WorkStaysWithinBound`
counts the places done and at most one suffix for each row.

**`NestedProofs`**, part 1 (any numbers of maps, records, roots, keys and bytes;
`BoundsAreNatural`). `LastGenerationIsReturned` needs `MapsInv` (the maps of a
graph are its generations so far) and `RootInv` (which tiers and roots were left
without a result); `PrimaryWorkStaysWithinBudget` needs `BudgetInv`: what the scans
did, the legacy profile's times `MaxScans`, with `MaxScans` times what may still be
charged and what further scans of the record in turn may still do (`Owed`), stays
within `MaxScans` times the budget. `Owed` falls with each scan: after a prefix that
fits nothing comes the rest, after one that fits too much the complete set, after
the legacy form the extended one, and nothing after that.

**`NestedProofs`**, part 2 (any outputs, contexts, keys, lanes and any size of
batches and result; `RetentionAssumption`: a batch has room for one output more
than the result, as line 543 of `replay.rs` has it; `OutputsAreApart`: an output
is structured or it is not). `VerdictAlwaysSequential` says that the answer, its
output and its key included, is that of one thread that remembers everything. All of
it rests on one notion, `Collects`: a list holds each output once, with the key
of its first hit in some set, and unless the list is full, every output of the hits
looked at. Batches and the result are such lists, so one lemma (`NewIsCollected`)
serves both. `SpaceInv` and `PlaceInv` say which keys are tried and what led there;
`ChunkInv` that the chunks share the keys without gap or overlap and that a batch
collects the hits of its chunk up to its next key; `MergeInv` that the result
collects the hits of the chunks passed and, of the chunk in turn, those whose
outputs are the candidates passed. The order of the merge makes a key the
first: a hit of an earlier chunk or context was merged before
(`CandidateIsFirst`). The bound of a batch cannot be felt: a batch that dropped an
output has more distinct candidates than the result has room for, so by the time they
are merged the result was exceeded already (`LongerIsNotHeld`, `ChunkIsMerged`), and
the error of an exceeded retention bound is unreachable. `VerdictKeeps` follows
`replay_nested_keys`: keys that matched nothing add no hit to the complete set
(`SoughtIsAll`), which is why skipping them changes nothing.

**`ImageRecoveryProofs`** (any keys, profiles, images and limits; `KeysAreKeys`,
`ImportBoundsAreNatural`, `InputsAreTyped`). `ReportedImageIsLeft`,
`SelectionIsUnambiguous` and `DecidableImagesAreRecovered` rest on `StartupInv`:
`DecodedInv` says under which key the image is at each step, `SuccessInv` that
the successes noted so far are exactly the profiles no longer in `untried` that
show an authentic entry, in their order. `ImportTableIsDominant` rests on
`CandidatesInv`: the candidates collected are the tables that start at the places
passed. `LeastElement` (every set of naturals that is not empty has a least
element) stands in where an induction would be used. `ImportTableFollowsTheEntry` speaks
of the budgets of the scan, which the code counts and the property measures:
`BudgetInv` says that the counts so far are the sizes of what lies behind the cursor,
so a budget that is exceeded is one the whole image exceeds, and one that is not was
no reason to stop; `SourceInv` says which profile and which error of the encoded graph
led to the directory. That a table which holds all others is the one chosen follows
from `CandidatesInv` again.

**`ControllerReplayProofs`** (any images, altered regions, lists and layouts;
`JobsAreTyped`). `TamperAlwaysNoticed`, `AnswerAlwaysTrue` and
`FinalImageAlwaysAccountedFor` state the properties of the run for all nine
controllers. The programs are constants of some forty steps, so what is needed of
them is proved piece by piece, in the pieces the code is written in: `Runs(A, p, B, U)`
says that `p` can be taken step by step from the plain regions `A`, leaves `B`
plain and sums within `U`, and `Then` puts two such pieces together; there is one
lemma for each controller, and `Families` for whichever it is. Every state then
satisfies `SettledInv`: each step that was passed still has what it demanded. What a
key rests on is plain before the next region is opened, and that one is not
(`Fits`), so an opening never undoes what an earlier step rested on
(`StepSettles`). Then the argument goes backwards: the last region verified is
plain, so its key was right, so the regions under that key's checksums are not
altered and were plain, and so on down to the shell, which another family's image
never opens. `AnswerAlwaysTrue` goes forwards: in an intact image the regions are
in the form `RecoverPlain` gives at each step (`IntactInv`), so every step passes
unless the token is set, and `StopInv` says who knows of the token.
`CellsInv` says what the image holds before the payload is laid, after it, and at
the end; `TlsIsPutBack` tells from the lists alone whether the TLS directory is found
empty.

**`OutputRebuildProofs`** (any images and alignments; `Alignments`,
`ImagesAreTyped`: what the parser and `validate_loader_graph` demand). `TypeCorrect`,
`LoaderDataChangesAlone`, `FileAlwaysHoldsTheImage`, `DirectoriesAlwaysSurvive`,
`RelocationsAlwaysSound` and `WellFormedAlwaysRebuilt` state the properties of the
rebuild. The
arithmetic comes first: `AlignedUp` (the least multiple not below), `RoomForRaw` (a
section cut down and aligned again still ends before the next one, since that one
starts on a page). `LayoutInv` says that the sections placed so far follow each
other in the file without a gap, each as long as its extent; `PlacedCell` then tells
what the file holds at any place, and `CoveredCellIsRead`, `WrittenReachesCell` and
`PaddingIsOutside` that mapping it gives the image back: a cell of a section is
either written or zero, and the padding that alignment adds is no other section's.
`DirectoryInv` carries a retained directory through the passes: it is as it was
recovered, and neither the stream nor the import cells lie over it. `RelocationInv`
carries the slots from their validation to the end: the stream is written over a
stream (`TrustedIs`), and the import cells are no slots. `WellFormedAlwaysRebuilt`
is about every refusal at once. `WellInv` says what each pass leaves to the next of a
well-formed image: the descriptors of every graph found are gone (`StaleIsGone`), what
is required lies in sections (`RequiredIsHeld`), the stream is in place or in front of
what is generated (`StreamIsPlaced`), and where nothing may have been cleared memory is
as it was (`ClearedInv`; `LinkedInv` for the other way of rebuilding). Each check of a pass and of the
final verification then has its premise.

Four of the properties name what they need of the image, and nothing in the code
promises it on the way in. `SectionsHoldAll`: sections start in the image and hold
all that is not zero; the rebuild is refused otherwise. `DirectoriesAreApart`:
neither the import cells nor a relocation stream lie over a directory, nor what is
cleared over a TLS directory or debug data. `SlotsAreApart`: no slot and no TLS
pointer is an import cell. These two are not looked for: the import cells are
written last, and what they hold is compared with the image that already has them.
TLC's instance has images on both sides of all three. `IsWellFormed` is the longest:
sections that hold all, import graphs that agree and lie in sections, directories whose
parts do, intact relocation streams that agree with each other and with TLS.

What the assumptions demand is what the code's types and the callers guarantee:
counts that are not negative, tables whose parts lie where they say; TLC
evaluates each of them on the runs.

Three forms in the models come from the proofs. Where two arms of a CASE could
both hold, the later one is guarded or an IF is used (TLA+ leaves the choice
open, the code does not); `StartupSelection` keeps the profiles left to try as
a set whose least element comes next, not as a sequence; and `NestedReplay` merges a
batch candidate by candidate, as the loops of `merge_nested_replay_batch` do, where a
fold would be a recursive definition.

Only model-checked:

* liveness, everywhere (`RouteImplementsDecision` and `ImplementsContract` beyond
  their safety parts, `SelectionEnds`, `SearchEnds`): the prover handles
  neither fairness nor ENABLED.

Every invariant of the passing runs is stated by a theorem.

## 6. Where the code and what it says differ

1. `README.md` promises an atomic write; `write_output` is `fs::write`, which
   truncates first (`output_is_atomic`).
2. `output_preserved` is always true and is printed as a fact, also when the
   output was truncated or replaced (`output_preserved_is_true`). TLC finds a
   failed write; a cancellation seen by the checkpoint after the write shows
   the same.
3. The alias check compares canonical paths, which two hard links to one file
   do not share (`input_is_never_overwritten`).

Observations that no run states: an observer that refuses a progress event
during input validation makes the run fail as invalid input (exit code 2); only
import discovery's own message reaches the classification by message, so an
ambiguity found by startup recovery or rebuild is reported as unsupported; an
ambiguous or missing block table in the evidence search is a plain error and
ends as an internal failure; a cancelled route does not record the controller
that was in flight, although `PayloadRouteError` speaks of a complete attempt
trace; a failed CLR preflight reports a stage that was never announced; when
the primary tier of the nested search runs out of work, the generations it had
already found are dropped with it; what that tier is charged is not what it does:
in the extended profile a charged key may be gone through four times; the retention error of a batch merge cannot
occur with the limits the code sets, because a batch keeps more outputs than the
result (proved in `NestedProofs`); of two chunks of a key search that fail, the earlier one is reported,
so a limit there can hide a cancellation seen by the later one.

About the rebuild: the sections keep every cell of a retained directory but not
the null that ends an import address table or an export name, so where such a
null lies behind the virtual size in a trimmed tail, the final scan no longer
finds the table inside a section and the image is refused (it fails closed;
`WellFormedIsRebuilt` asks that structures lie within the virtual size). The
import cells are filled in after directories and relocation targets were
validated, and the result is compared with the image so changed: an address
table laid over a retained directory or a relocated cell would go unnoticed. A
resource tree may reach into several sections, but a gap between them that the
span covers is refused when the file is laid out.

About startup and imports: the documentation of the selection says that a
semantic entry in the decrypted image is authoritative and sparse transforms are
a fallback (`startup/stage.rs:138`), but for AMD64 the sparse MSVC profiles are
tried before the raw import-handoff entry; such an entry found under a sparse key
without an exception directory is accepted without looking at unwind data. A
32-bit site that has both shapes and exactly one predecessor is dropped by both
profiles. A lookalike site without an owning runtime function ends the whole
AMD64 search. A library falls back to the ordinary directory after any error of
the encoded graph, ambiguity and an exhausted budget included
(`imports/mod.rs:360`). The scan parses a table again from each of its suffixes,
so the budgets are spent quadratically. A thunk array of exactly the maximal
length is refused before its null is read. Where the lookup table is the address
table, its name records are not among the metadata ranges.

About the controllers: three probes take a cancelled step for "not mine", and
only the second look at the token in `controller/mod.rs` saves the answer;
`codec_relocation` never answers "not applicable"; `codec_operation_dispatch`
compares zero ranges with destinations only at the end and its probe does not look at
the token; `codec_control_payload` reads no zero list and admits empty
destinations; `terminal_profile_dispatch` fills the managed section in an image
it then drops; unmanaged `codec_relocation` hands on an image whose header is the
form its checksum wants; `codec_relocation`'s metadata record stays decrypted
where the other controllers put it back; three controllers hand on the image they
worked in, with their own layers in the outer cells that no payload covers and zeros
where the others have the packed file. Nothing compares payload destinations
with the header and the directories that finalizers put back from the packed file: a
payload laid over one is lost without a word; the TLS directory of
`shell_directory_manifest` alone is looked at first, and its template is not.
The decoder table has only a weak
check of its own, so an altered one is first noticed by the payload replay.

## 7. Not modelled

* `decoder.rs`: its validation of a node table (stamps that wrap, a bounded
  stack); `CandidateReplay` takes a table as valid or not.
* `rebuild/clr.rs`, `managed.rs`, `pogo.rs`: what they recover is an input of
  `OutputRebuild`; the contents of unwind, resource, delay-import and export
  tables likewise.
* `evidence.rs`: the AES, decoder and byte-map searches; `PayloadRouter` has
  their result, `PayloadBlocks` and `CandidateReplay` the parts that decide.
* The controllers' work budgets, the overlap of stage sources and destinations,
  the variants of the state controller's rows beyond the metadata prefix, and what
  is in the TLS and managed-header fields a finalizer restores. Whether a security
  directory holds a certificate is an input.
* `progress.rs`, `cli/telemetry`, `cli/display`: the pipeline has one progress
  event for the milestones of a scan and an observer whose every call may fail.
* `src/pe`, `src/util`, `payload/bootstrap`: byte work without choices of its own.

## 8. Plan

The parts that decide what is accepted and what is left on disk are modelled, and their
safety properties are proved. What could follow, in this order: the decoder's
validation against a direct definition of a complete prefix code, the recovery behind
`clr.rs` and `pogo.rs`, and the event stream.
