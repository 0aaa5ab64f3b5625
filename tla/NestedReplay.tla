---------------------------- MODULE NestedReplay ----------------------------
(***************************************************************************)
(* The search for the key of one nested record:                            *)
(* `replay_nested_keys` in stages/payload/nested/mod.rs over                *)
(* `DecryptionNestedReplayer::replay` and `replay_nested_record` in        *)
(* stages/payload/decrypt/replay.rs.                                       *)
(*                                                                         *)
(* Every key is tried under every AES context.  A try that decodes yields  *)
(* an output; an output that starts with a decodable program is            *)
(* structured.  The keys of a large search are cut in chunks that rayon    *)
(* replays in parallel, each into a batch of bounded size; the batches are *)
(* merged in the order of the chunks.  The keys rooted in the record's own *)
(* metadata come first and are tried alone before the complete set, and    *)
(* either set is tried with the legacy byte maps before the extended ones. *)
(*                                                                         *)
(* Bytes are left out: an output is a model value, and which try yields    *)
(* which output is fixed by the image.                                     *)
(***************************************************************************)
EXTENDS Integers, Sequences, FiniteSets, SequencesExt

CONSTANTS
    Structured,       \* outputs that start with a decodable program
    Unstructured,     \* all other outputs
    MaxOutputs,       \* MAX_NESTED_REPLAY_OUTPUTS
    MaxLocalOutputs,  \* MAX_LOCAL_NESTED_OUTPUTS
    MinParallelKeys,  \* MIN_PARALLEL_NESTED_KEYS
    KeysPerWorker,    \* MIN_NESTED_KEYS_PER_WORKER
    MaxLanes,         \* bound: threads and memory allow at most this many lanes
    MaxTries,         \* bound: contexts times keys
    MaxHits           \* bound: tries that decode

\* A batch must be able to hold one output more than the result may have.
\* The code has 2 * 8 + 1 and 8.
ASSUME RetentionAssumption ==
    /\ MaxOutputs \in Nat \ {0} /\ MaxLocalOutputs \in Nat
    /\ MaxLocalOutputs > MaxOutputs
    /\ KeysPerWorker \in Nat \ {0} /\ MinParallelKeys \in Nat
    /\ MaxLanes \in Nat /\ MaxTries \in Nat

NoOutput == "rejected"

\* Whether an output is structured is a predicate of its bytes.
ASSUME OutputsAreApart ==
    /\ Structured \intersect Unstructured = {}
    /\ NoOutput \notin Structured \union Unstructured

VARIABLES
    space,      \* the search space: contexts, keys, and what each try yields
    step,       \* "start", "context", "replay", "structured", "unstructured", "merged", "done"
    search,     \* the set of keys, the byte maps and the AES context in turn
    chunks,     \* the chunks of the keys, each with its position and batch
    merged,     \* what the caller has merged from the batches
    cancelled,  \* the cancellation token
    at,         \* the candidate to merge next: [chunk, candidate]
    answer      \* what replay_nested_keys returned

replayVars == <<space, step, search, chunks, merged, at, cancelled, answer>>

Outputs == Structured \union Unstructured

Ceil(a, b) == (a + b - 1) \div b
Lesser(a, b) == IF a < b THEN a ELSE b

\* The search spaces of one record.  `lanes` is what threads and memory allow;
\* `extended` is the profile of the graph.  A try with the extended maps comes
\* on top of that with the legacy maps.
MapsUsed(extended) == IF extended THEN {"legacy", "extended"} ELSE {"legacy"}
Tries(n, k, e) == MapsUsed(e) \X (1 .. n) \X (1 .. k)

SearchSpace(n, k, e, d, l, y) == [contexts |-> n, keys |-> k, extended |-> e,
                            direct |-> d, lanes |-> l, yields |-> y]

-----------------------------------------------------------------------------
\* Batches.

Candidate(o, k) == [output |-> o, key |-> k]
Batch == [structured |-> <<>>, unstructured |-> <<>>,
          structuredTruncated |-> FALSE, unstructuredTruncated |-> FALSE]

Holds(cs, o) == \E i \in DOMAIN cs : cs[i].output = o

\* One output of a try enters the batch: once each, and no more than fit.
Consider(batch, o, k) ==
    LET structured == o \in Structured
        cs == IF structured THEN batch.structured ELSE batch.unstructured
        truncated == IF structured THEN batch.structuredTruncated
                                   ELSE batch.unstructuredTruncated
        full == Len(cs) >= MaxLocalOutputs
        kept == IF full THEN cs ELSE Append(cs, Candidate(o, k))
    IN  IF o = NoOutput \/ truncated \/ Holds(cs, o) THEN batch
        ELSE IF structured
             THEN [batch EXCEPT !.structured = kept, !.structuredTruncated = full]
             ELSE [batch EXCEPT !.unstructured = kept, !.unstructuredTruncated = full]

\* All tries of a key under the current context, in their order.
ConsiderKey(batch, k) ==
    LET legacy == Consider(batch, space.yields[<<"legacy", search.context, k>>], k)
    IN  IF search.maps = "legacy" THEN legacy
        ELSE Consider(legacy, space.yields[<<"extended", search.context, k>>], k)

-----------------------------------------------------------------------------
\* The caller's side of the reduction.

Nothing == [structured |-> <<>>, unstructured |-> <<>>, overflow |-> FALSE]
StartOf(n) == [chunk |-> n, candidate |-> 1]

Verdict(kind, output, key) == [kind |-> kind, output |-> output, key |-> key]
Plain(kind) == Verdict(kind, NoOutput, 0)
Undecided == Plain("none")

\* What the outputs found under all contexts say about the record.
Judge(m) ==
    IF Len(m.structured) = 1
    THEN Verdict("Unique", m.structured[1].output, m.structured[1].key)
    ELSE IF Len(m.structured) > 1 \/ m.overflow \/ Len(m.unstructured) > 1
    THEN Plain("Ambiguous")
    ELSE IF Len(m.unstructured) = 1
    THEN Verdict("Unique", m.unstructured[1].output, m.unstructured[1].key)
    ELSE Plain("NoMatch")

-----------------------------------------------------------------------------
\* The search.

Search(tier, first, last) == [tier |-> tier, first |-> first, last |-> last,
                              maps |-> "legacy", context |-> 1]
KeyCount == search.last - search.first + 1

WorkerCount(n) == IF n < MinParallelKeys THEN 1
                  ELSE Lesser(space.lanes, Ceil(n, KeysPerWorker))

\* Mutant: the remainder of the division gets no chunk.
ChunksOfFullSize ==
    LET workers == WorkerCount(KeyCount)
        size == KeyCount \div workers
    IN  [i \in 1 .. workers |->
            [next |-> search.first + (i - 1) * size,
             last |-> search.first + i * size - 1,
             batch |-> Batch, status |-> "replaying"]]

\* The keys in chunks of equal size, as long as keys remain.
Chunks == LET size == Ceil(KeyCount, WorkerCount(KeyCount))
          IN  [i \in 1 .. Ceil(KeyCount, size) |->
                  [next |-> search.first + (i - 1) * size,
                   last |-> Lesser(search.first + i * size - 1, search.last),
                   batch |-> Batch, status |-> "replaying"]]

ReplayInit ==
    /\ \E n \in 1 .. MaxTries, k \in 0 .. MaxTries, e \in BOOLEAN, l \in 1 .. MaxLanes :
        /\ n * k <= MaxTries
        /\ \E d \in 0 .. k, H \in SUBSET Tries(n, k, e) :
            /\ Cardinality(H) <= MaxHits
            /\ \E f \in [H -> Outputs] :
                space = SearchSpace(n, k, e, d, l, [t \in Tries(n, k, e) |->
                                   IF t \in H THEN f[t] ELSE NoOutput])
    /\ step = "start"
    /\ search = Search("direct", 1, space.direct)
    /\ chunks = <<>>
    /\ merged = Nothing
    /\ at = StartOf(1)
    /\ cancelled = FALSE
    /\ answer = Undecided

Answer(v) ==
    /\ answer' = v
    /\ step' = "done"
    /\ UNCHANGED <<space, search, chunks, merged, at, cancelled>>

\* A new set of keys, or new byte maps: nothing is merged yet.
Replay(s) ==
    /\ search' = s
    /\ merged' = Nothing
    /\ chunks' = <<>>
    /\ step' = "context"
    /\ UNCHANGED <<space, at, cancelled, answer>>

\* The keys from `first` to the last one, if there are any.
Fallback(first) ==
    IF first <= space.keys THEN Replay(Search("fallback", first, space.keys))
                           ELSE Answer(Plain("NoMatch"))

Start ==
    /\ step = "start"
    /\ IF space.direct # 0 THEN Replay(Search("direct", 1, space.direct))
                           ELSE Fallback(1)

\* The checkpoint before each context, then its keys are dealt to the lanes.
BeginContext ==
    /\ step = "context"
    /\ IF cancelled THEN Answer(Plain("Cancelled"))
       ELSE /\ chunks' = Chunks
            /\ step' = "replay"
            /\ UNCHANGED <<space, search, merged, at, cancelled, answer>>

\* A lane looks at the token, then replays the next key of its chunk.
ReplayKey(i) ==
    LET c == chunks[i]
        replayed == [next |-> c.next + 1, last |-> c.last,
                     batch |-> ConsiderKey(c.batch, c.next),
                     status |-> IF c.next = c.last THEN "done" ELSE c.status]
    IN  /\ step = "replay"
        /\ c.status = "replaying"
        /\ chunks' = [chunks EXCEPT ![i] =
               IF cancelled THEN [c EXCEPT !.status = "cancelled"] ELSE replayed]
        /\ UNCHANGED <<space, step, search, merged, at, cancelled, answer>>

\* What follows the verdict on one set of keys under one set of maps.  Keys
\* rooted in the metadata that match nothing are not replayed again; when they
\* leave the record ambiguous, an extended search replays the complete set.
AfterReplay(v) ==
    IF v.kind = "NoMatch" /\ space.extended /\ search.maps = "legacy"
    THEN Replay([search EXCEPT !.maps = "extended", !.context = 1])
    ELSE IF search.tier = "fallback" THEN Answer(v)
    ELSE IF v.kind = "NoMatch" THEN Fallback(space.direct + 1)
    ELSE IF ~space.extended \/ v.kind = "Unique" THEN Answer(v)
    ELSE Fallback(1)

\* When every lane has ended the batches are merged in the order of the chunks.
BeginMerge ==
    /\ step = "replay"
    /\ \A i \in DOMAIN chunks : chunks[i].status # "replaying"
    /\ at' = StartOf(1)
    /\ step' = "structured"
    /\ UNCHANGED <<space, search, chunks, merged, cancelled, answer>>

\* A lane that saw the token has no batch.
BatchIsMissing ==
    /\ step = "structured"
    /\ chunks[at.chunk].status = "cancelled"
    /\ Answer(Plain("Cancelled"))

\* The next candidate joins those held, unless its output is among them.
Advance(held) ==
    /\ merged' = held
    /\ at' = [at EXCEPT !.candidate = @ + 1]
    /\ UNCHANGED <<space, step, search, chunks, cancelled, answer>>

MergeStructured ==
    LET cs == chunks[at.chunk].batch.structured
        held == merged.structured
    IN  /\ step = "structured"
        /\ chunks[at.chunk].status = "done"
        /\ at.candidate <= Len(cs)
        /\ IF Holds(held, cs[at.candidate].output) THEN Advance(merged)
           ELSE IF Len(held) < MaxOutputs
           THEN Advance([merged EXCEPT !.structured = Append(@, cs[at.candidate])])
           ELSE Answer(Plain("TooMany"))

EndStructured ==
    LET batch == chunks[at.chunk].batch
    IN  /\ step = "structured"
        /\ chunks[at.chunk].status = "done"
        /\ at.candidate > Len(batch.structured)
        /\ IF batch.structuredTruncated THEN Answer(Plain("RetentionExceeded"))
           ELSE /\ at' = StartOf(at.chunk)
                /\ step' = "unstructured"
                /\ UNCHANGED <<space, search, chunks, merged, cancelled, answer>>

\* Mutant: the outputs that do not fit are dropped without a trace.
MergeSilently ==
    LET cs == chunks[at.chunk].batch.unstructured
        held == merged.unstructured
    IN  /\ step = "unstructured"
        /\ at.candidate <= Len(cs)
        /\ Advance(IF Holds(held, cs[at.candidate].output) \/ Len(held) >= MaxOutputs THEN merged
                   ELSE [merged EXCEPT !.unstructured = Append(@, cs[at.candidate])])

MergeUnstructured ==
    LET cs == chunks[at.chunk].batch.unstructured
        held == merged.unstructured
    IN  /\ step = "unstructured"
        /\ at.candidate <= Len(cs)
        /\ IF Holds(held, cs[at.candidate].output) THEN Advance(merged)
           ELSE IF Len(held) < MaxOutputs
           THEN Advance([merged EXCEPT !.unstructured = Append(@, cs[at.candidate])])
           ELSE Advance([merged EXCEPT !.overflow = TRUE])

EndBatch ==
    LET batch == chunks[at.chunk].batch
    IN  /\ step = "unstructured"
        /\ at.candidate > Len(batch.unstructured)
        /\ merged' = [merged EXCEPT !.overflow = @ \/ batch.unstructuredTruncated]
        /\ at' = StartOf(at.chunk + 1)
        /\ step' = IF at.chunk = Len(chunks) THEN "merged" ELSE "structured"
        /\ UNCHANGED <<space, search, chunks, cancelled, answer>>

\* The next context, or the verdict on the outputs of all of them.
EndContext ==
    /\ step = "merged"
    /\ IF search.context < space.contexts
       THEN /\ search' = [search EXCEPT !.context = @ + 1]
            /\ chunks' = <<>>
            /\ step' = "context"
            /\ UNCHANGED <<space, merged, at, cancelled, answer>>
       ELSE AfterReplay(Judge(merged))

Cancel ==
    /\ ~cancelled
    /\ step # "done"
    /\ cancelled' = TRUE
    /\ UNCHANGED <<space, step, search, chunks, merged, at, answer>>

ReplayStopped == step = "done" /\ UNCHANGED replayVars

ReplayNext ==
    \/ Start
    \/ BeginContext
    \/ \E i \in DOMAIN chunks : ReplayKey(i)
    \/ BeginMerge
    \/ BatchIsMissing
    \/ MergeStructured
    \/ EndStructured
    \/ MergeUnstructured
    \/ EndBatch
    \/ EndContext
    \/ Cancel
    \/ ReplayStopped

ReplaySpec == ReplayInit /\ [][ReplayNext]_replayVars

-----------------------------------------------------------------------------
\* What one thread that remembers every output would answer.

Hits(m, last) ==
    { t \in Tries(space.contexts, space.keys, m = "extended") :
        t[3] <= last /\ space.yields[t] # NoOutput }

\* The key of the first try that yields o.
FirstKey(H, o) ==
    LET T == { t \in H : space.yields[t] = o }
    IN  (CHOOSE t \in T : \A u \in T :
            t[2] < u[2] \/ (t[2] = u[2] /\ t[3] <= u[3]))[3]

OfHits(H) ==
    LET found == { space.yields[t] : t \in H }
        Only(S) == Verdict("Unique", CHOOSE o \in S : TRUE,
                           FirstKey(H, CHOOSE o \in S : TRUE))
        S == found \intersect Structured
        U == found \intersect Unstructured
    IN  IF Cardinality(S) > MaxOutputs THEN Plain("TooMany")
        ELSE IF Cardinality(S) = 1 THEN Only(S)
        ELSE IF Cardinality(S) > 1 \/ Cardinality(U) > 1 THEN Plain("Ambiguous")
        ELSE IF Cardinality(U) = 1 THEN Only(U)
        ELSE Plain("NoMatch")

\* The verdict on the keys up to `last`, with the extended maps as a last resort.
VerdictUpTo(last) ==
    LET Of(m) == OfHits(Hits(m, last))
    IN  IF space.extended /\ Of("legacy").kind = "NoMatch" THEN Of("extended")
                                                           ELSE Of("legacy")

\* A unique answer of the keys rooted in the metadata is final, and so is any
\* match outside the extended profile; else the complete set decides.
Expected ==
    LET direct == VerdictUpTo(space.direct)
    IN  IF \/ direct.kind \in {"Unique", "TooMany"}
           \/ direct.kind = "Ambiguous" /\ ~space.extended
        THEN direct ELSE VerdictUpTo(space.keys)

-----------------------------------------------------------------------------
Candidates(S) == [output : S, key : 1 .. MaxTries]

ReplayTypeOK ==
    /\ space \in [contexts : 1 .. MaxTries, keys : 0 .. MaxTries,
                  direct : 0 .. MaxTries, lanes : 1 .. MaxLanes,
                  extended : BOOLEAN,
                  yields : {space.yields}]
    /\ space.yields \in [Tries(space.contexts, space.keys, space.extended) ->
                            Outputs \union {NoOutput}]
    /\ step \in {"start", "context", "replay", "structured", "unstructured", "merged", "done"}
    /\ step \in {"structured", "unstructured"} => at.chunk \in DOMAIN chunks /\ at.candidate \in Nat \ {0}
    /\ search.tier \in {"direct", "fallback"}
    /\ search.maps \in {"legacy", "extended"}
    /\ search.context \in 1 .. space.contexts
    /\ step = "replay" => /\ chunks # <<>>
                        /\ Head(chunks).next >= search.first
                        /\ Last(chunks).last = search.last
    /\ merged.structured \in BoundedSeq(Candidates(Structured), MaxOutputs)
    /\ merged.unstructured \in BoundedSeq(Candidates(Unstructured), MaxOutputs)
    /\ merged.overflow \in BOOLEAN
    /\ cancelled \in BOOLEAN
    /\ answer.kind \in {"none", "NoMatch", "Unique", "Ambiguous", "TooMany",
                        "RetentionExceeded", "Cancelled"}

\* However many lanes there are, whatever the batches and the merge dropped and
\* whichever keys were not replayed again, a search that was not cancelled
\* answers what one thread with room for every output would: the same verdict,
\* with the same output and the same key.  It is about the bounded reduction
\* of `NestedReplayBatch::consider` and `merge_nested_replay_batch` and about
\* the prefix that `replay_nested_keys` skips.  It answers `Cancelled` only
\* when it was cancelled, and never fails because a batch kept too few outputs.
VerdictIsSequential ==
    /\ answer.kind \notin {"none", "Cancelled"} => answer = Expected
    /\ answer.kind = "Cancelled" => cancelled

=============================================================================
