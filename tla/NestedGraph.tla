----------------------------- MODULE NestedGraph -----------------------------
(***************************************************************************)
(* The search for the byte maps of the nested stages:                      *)
(* `discover_nested_byte_map_result` and what it calls in                  *)
(* stages/payload/nested/mod.rs.                                           *)
(*                                                                         *)
(* Three tiers try the same roots with more and more keys; only the first  *)
(* has a budget of work.  A root is a stage that may describe records.     *)
(* The records of a root form a graph: a record replayed with a unique key *)
(* becomes part of the image, its output may hold programs whose byte maps *)
(* replace those in use, and both may be what the next record needs.  The  *)
(* first root whose graph yields a generation of maps is the answer.       *)
(*                                                                         *)
(* What the replay of one record answers is NestedReplay's subject; here   *)
(* it is any answer.  Sizes stand for the sets of keys.                    *)
(***************************************************************************)
EXTENDS Integers, Sequences, FiniteSets, SequencesExt

CONSTANTS
    Maps,          \* the byte maps a nested program can define
    MaxRecords,    \* bound: records of one stage
    MaxRoots,      \* bound: roots of one kind
    KeyLimit,      \* MAX_PRIMARY_NESTED_KEY_WORK
    ByteLimit      \* MAX_PRIMARY_NESTED_BYTE_WORK

ASSUME BoundsAreNatural ==
    /\ MaxRecords \in Nat /\ MaxRoots \in Nat
    /\ KeyLimit \in Nat /\ ByteLimit \in Nat

VARIABLES
    image,        \* the roots there are: see Image
    pc,           \* "tier", "root", "profile", "round", "pass", "record", "replay", "done"
    tier,         \* 1 .. 3
    root,         \* the root being tried
    checksum,     \* which header checksum of the root
    extended,     \* the profile of the graph
    graph,        \* the records of the graph and how far its search is
    maps,         \* the byte maps in use
    generations,  \* the generations of maps this graph has yielded
    direct,       \* how many keys of the pass rest on the records' own words
    scan,         \* the keys a replay is going through, and in which form
    budget,       \* work the primary tier may still do
    work,         \* work the scans of the primary tier did in either profile
    result        \* what the search returned

vars == <<image, pc, tier, root, checksum, extended, graph, maps, generations,
          direct, scan, budget, work, result>>

Tiers == 1 .. 3
Records == 1 .. MaxRecords

\* `outer` are the maps found in the plain outer stage; `rooted` counts the
\* roots of the fixed layout of 32-bit images, `staged` the stages announced by
\* any descriptor, each tried under `checksums` header checksums.
Image == { i \in [outer : SUBSET Maps, contexts : {"bounded", "too many"},
                  rooted : 0 .. MaxRoots, staged : 0 .. MaxRoots,
                  checksums : 1 .. 2] :
               i.contexts = "too many" => i.outer = {} /\ i.rooted + i.staged = 0 }

Roots == image.rooted + image.staged
IsRooted(r) == r <= image.rooted

\* Length of the encoded record.
EncodedLength(r) == r

AtMost(a, b) == IF a < b THEN a ELSE b

NoGraph == [records |-> 0, processed |-> {}, outputs |-> 0, pass |-> 0, next |-> 1]

NoScan == [keys |-> "none", form |-> "legacy"]
NoWork == [e \in BOOLEAN |-> [keys |-> 0, bytes |-> 0]]
Found(S) == [kind |-> "maps", maps |-> S]
Failed(e) == [kind |-> e, maps |-> {}]
Pending == Failed("none")

Init ==
    /\ image \in Image
    /\ pc = "tier" /\ tier = 1
    /\ root = 0 /\ checksum = 0 /\ extended = FALSE
    /\ graph = NoGraph /\ direct = 0 /\ scan = NoScan
    /\ maps = {} /\ generations = <<>>
    /\ budget = [keys |-> KeyLimit, bytes |-> ByteLimit]
    /\ work = NoWork
    /\ result = Pending

-----------------------------------------------------------------------------
\* Tiers.

Return(r) ==
    /\ result' = r
    /\ pc' = "done"
    /\ UNCHANGED <<image, tier, root, checksum, extended, graph, maps,
                   generations, direct, scan, budget, work>>

\* A tier without maps hands over to the next one, which starts over with an
\* unlimited budget; what the last tier finds is the answer, even if nothing.
NextTier ==
    /\ tier' = tier + 1
    /\ pc' = "tier"
    /\ maps' = {} /\ generations' = <<>> /\ graph' = NoGraph
    /\ work' = NoWork
    /\ UNCHANGED <<image, root, checksum, extended, direct, scan, budget, result>>

EndTier(S) == IF S = {} /\ tier < 3 THEN NextTier ELSE Return(Found(S))

\* An error ends the search; only the exhausted budget of the primary tier is
\* a reason to go on.
Fail(e) == IF tier = 1 /\ e = "exhausted" THEN NextTier ELSE Return(Failed(e))

\* Tries the next header checksum of the same root, or the next root.
Try(r, c) ==
    /\ IF r > Roots THEN EndTier(maps)
       ELSE /\ root' = r /\ checksum' = c /\ extended' = FALSE
            /\ pc' = "profile"
            /\ generations' = <<>>
            /\ maps' = IF IsRooted(r) THEN maps ELSE {}
            /\ graph' = NoGraph
            /\ UNCHANGED <<image, tier, direct, scan, budget, work, result>>

\* The maps of the plain outer stage make every root unnecessary.
StartTier ==
    /\ pc = "tier"
    /\ IF image.contexts = "too many" THEN Fail("too many")
       ELSE IF image.outer # {} THEN EndTier(image.outer)
       ELSE Try(1, 1)

NextRoot == IF ~IsRooted(root) /\ checksum < image.checksums
            THEN Try(root, checksum + 1) ELSE Try(root + 1, 1)

-----------------------------------------------------------------------------
\* One graph.

\* `begin_graph` looks for the AES contexts and may fail or be cancelled; so
\* may the discovery of the records.  A stage may hold no records at all.
BeginProfile ==
    /\ pc = "profile"
    /\ \/ \E n \in 0 .. MaxRecords :
            /\ graph' = [NoGraph EXCEPT !.records = n]
            /\ pc' = "round"
            /\ UNCHANGED <<image, tier, root, checksum, extended, maps,
                           generations, direct, scan, budget, work, result>>
       \/ \E e \in {"cancelled", "too many"} : Fail(e)

\* A graph is complete when it yielded maps.  Otherwise the extended profile
\* gets its turn, from the maps the legacy one started with, then other roots.
EndGraph ==
    IF generations # <<>> THEN EndTier(maps)
    ELSE IF ~extended
    THEN /\ extended' = TRUE
         /\ pc' = "profile"
         /\ UNCHANGED <<image, tier, root, checksum, graph, maps, generations,
                        direct, scan, budget, work, result>>
    ELSE NextRoot

\* Another record is looked for as long as there are records.
BeginRound ==
    /\ pc = "round"
    /\ IF Cardinality(graph.processed) = graph.records THEN EndGraph
       ELSE /\ graph' = [graph EXCEPT !.pass = 0, !.next = 1]
            /\ pc' = "pass"
            /\ UNCHANGED <<image, tier, root, checksum, extended, maps,
                           generations, direct, scan, budget, work, result>>

\* The keys of a pass: header and span checksums (more in the extended profile,
\* and with length complements) combined with scalars (more when the words of
\* one output are admitted).
Bases == 1 + (IF extended THEN 1 ELSE 0) + (IF tier > 1 THEN 1 ELSE 0)
Scalars == 1 + (IF graph.pass > 0 THEN 1 ELSE 0)
Keys == Bases * Scalars

\* The first pass uses no output, the following ones one output each, the
\* latest first.  A round in which no record was selected is the last.  The keys
\* of direct scalars come first: all of the first pass are direct, later ones
\* also have the words that merely are in the output.
DirectScalars == IF graph.pass = 0 THEN {Scalars} ELSE 0 .. Scalars

BeginPass ==
    /\ pc = "pass"
    /\ IF graph.pass > graph.outputs THEN EndGraph
       ELSE \/ /\ \E s \in DirectScalars : direct' = Bases * s
               /\ pc' = "record"
               /\ UNCHANGED <<image, tier, root, checksum, extended, graph, maps,
                              generations, scan, budget, work, result>>
            \/ Fail("too many")

-----------------------------------------------------------------------------
\* One record: the budget is charged for its keys once, and the keys are gone
\* through in one scan or more.

\* Mutant: any work left is enough.
CanAffordSome == tier > 1 \/ (budget.keys > 0 /\ budget.bytes > 0)
CanAfford == tier > 1 \/ ( /\ budget.keys >= Keys
                           /\ budget.bytes >= Keys * EncodedLength(graph.next) )

\* Mutant: the bytes are compared but not deducted.
ChargedKeys == [budget EXCEPT !.keys = @ - Keys]
Charged == [keys |-> budget.keys - Keys,
            bytes |-> budget.bytes - Keys * EncodedLength(graph.next)]

\* Mutant: a direct prefix proven to fit nothing is gone through again.
ScanKeysAgain(s) == IF s.keys = "direct" THEN direct ELSE Keys
ScanKeys(s) == IF s.keys = "direct" THEN direct
               ELSE IF s.keys = "rest" THEN Keys - direct
               ELSE Keys

\* What the scans did once `s` has gone through its keys; a scan that ends at
\* an error or at a second output does less.  Only the primary tier's work is
\* of interest.
Scanned(s) ==
    IF tier > 1 THEN work
    ELSE [work EXCEPT ![extended] =
             [keys |-> work[extended].keys + ScanKeys(s),
              bytes |-> work[extended].bytes + ScanKeys(s) * EncodedLength(graph.next)]]

Scan(s) == scan' = s /\ work' = Scanned(s)

\* The next record that is still encoded is charged before it is replayed, with
\* the direct keys first if there are any.
ChargeRecord ==
    /\ pc = "record"
    /\ IF graph.next > graph.records
       THEN /\ graph' = [graph EXCEPT !.pass = @ + 1, !.next = 1]
            /\ pc' = "pass" /\ direct' = 0
            /\ UNCHANGED <<scan, budget, work, image, tier, root, checksum,
                           extended, maps, generations, result>>
       ELSE IF graph.next \in graph.processed
       THEN /\ graph' = [graph EXCEPT !.next = @ + 1]
            /\ UNCHANGED <<pc, direct, scan, budget, work, image, tier, root,
                           checksum, extended, maps, generations, result>>
       ELSE IF ~CanAfford THEN Fail("exhausted")
       ELSE /\ budget' = IF tier > 1 THEN budget ELSE Charged
            /\ pc' = "replay"
            /\ Scan([keys |-> IF direct > 0 THEN "direct" ELSE "all", form |-> "legacy"])
            /\ UNCHANGED <<image, tier, root, checksum, extended, graph, maps,
                           generations, direct, result>>

\* A further scan for the same record, which is not charged.
Rescan(s) ==
    /\ Scan(s)
    /\ UNCHANGED <<pc, image, tier, root, checksum, extended, graph, maps,
                   generations, direct, budget, result>>

\* No key fits: the extended profile goes through the same keys once more, with
\* its own maps and rotations.
WidenScan ==
    /\ pc = "replay" /\ extended /\ scan.form = "legacy"
    /\ Rescan([scan EXCEPT !.form = "extended"])

\* No key fits in any form of the profile.
Missed == extended => scan.form = "extended"

\* No direct key fits: the others are gone through.
ScanRest ==
    /\ pc = "replay" /\ Missed /\ scan.keys = "direct" /\ direct < Keys
    /\ Rescan([keys |-> "rest", form |-> "legacy"])

\* Direct keys that fit more than one output: the legacy profile gives up, the
\* extended one goes through all the keys.
ScanAll ==
    /\ pc = "replay" /\ extended /\ scan.keys = "direct"
    /\ Rescan([keys |-> "all", form |-> "legacy"])

\* No key, or more than one output: the record is left encoded for now.
LeaveRecord ==
    /\ pc = "replay"
    /\ \/ Missed /\ (scan.keys = "direct" => direct = Keys)
       \/ ~(extended /\ scan.keys = "direct")
    /\ graph' = [graph EXCEPT !.next = @ + 1]
    /\ pc' = "record" /\ scan' = NoScan
    /\ UNCHANGED <<image, tier, root, checksum, extended, maps, generations,
                   direct, budget, work, result>>

FailRecord ==
    /\ pc = "replay"
    /\ \E e \in {"cancelled", "too many"} : Fail(e)

RepeatsFrontier(S) == generations # <<>> /\ Last(generations) = S

IsFrontier(S) == Cardinality(S) > 1

\* Mutant: the new maps are added to those in use.
Accumulated(S) == maps \union S
Used(S) == IF S = {} THEN maps ELSE S

\* Mutant: the record is not marked.
ProcessedUnmarked(contexts) == [graph EXCEPT !.outputs = AtMost(@ + contexts, 2 * MaxRecords)]
Processed(contexts) == [graph EXCEPT !.processed = @ \union {graph.next},
                                     !.outputs = @ + contexts]

\* A unique output becomes part of the image and a context for later keys.
\* The maps of its programs, if any, replace those in use.  More maps than one,
\* or the same again, are the end of the graph.
SelectRecord ==
    /\ pc = "replay"
    /\ \E S \in SUBSET Maps, contexts \in 1 .. 2 :
        /\ generations' = IF S = {} THEN generations ELSE Append(generations, S)
        /\ maps' = Used(S)
        /\ graph' = Processed(contexts)
        /\ IF RepeatsFrontier(S) \/ IsFrontier(S)
           THEN pc' = "done" /\ result' = Found(Used(S))
           ELSE pc' = "round" /\ UNCHANGED result
        /\ scan' = NoScan /\ direct' = 0
        /\ UNCHANGED <<image, tier, root, checksum, extended, budget, work>>

Stopped == pc = "done" /\ UNCHANGED vars

Step ==
    \/ StartTier \/ BeginProfile \/ BeginRound \/ BeginPass \/ ChargeRecord
    \/ WidenScan \/ ScanRest \/ ScanAll \/ LeaveRecord \/ FailRecord \/ SelectRecord

Next == Step \/ Stopped

\* One thread, which waits for nothing.
Spec == Init /\ [][Next]_vars /\ WF_vars(Step)

-----------------------------------------------------------------------------
TypeOK ==
    /\ image \in Image
    /\ pc \in {"tier", "profile", "round", "pass", "record", "replay", "done"}
    /\ tier \in Tiers /\ root \in 0 .. Roots /\ checksum \in 0 .. 2
    /\ extended \in BOOLEAN
    /\ graph \in [records : 0 .. MaxRecords, processed : SUBSET Records,
                   outputs : 0 .. 2 * MaxRecords, pass : 0 .. 2 * MaxRecords + 1,
                   next : 1 .. MaxRecords + 1]
    /\ maps \subseteq Maps
    /\ generations \in BoundedSeq((SUBSET Maps) \ {{}}, MaxRecords)
    /\ budget \in [keys : 0 .. KeyLimit, bytes : 0 .. ByteLimit]
    /\ direct \in 0 .. 6
    /\ scan \in [keys : {"none", "direct", "rest", "all"}, form : {"legacy", "extended"}]
    /\ work \in [BOOLEAN -> [keys : Nat, bytes : Nat]]
    /\ result \in [kind : {"none", "maps", "too many", "cancelled"}, maps : SUBSET Maps]

\* The maps returned are those of the last generation of one graph, and of no
\* generation before it, no other root, checksum, profile or tier; unless the
\* outer stage held maps itself.  No maps are returned only when every root was
\* tried with the largest set of keys.
ResultIsLastGeneration ==
    result.kind = "maps" =>
        /\ result.maps =
              IF image.outer # {} THEN image.outer
              ELSE IF generations = <<>> THEN {} ELSE Last(generations)
        /\ result.maps = {} =>
              /\ tier = 3
              /\ root = Roots
              /\ Roots > 0 => /\ extended
                              /\ checksum = IF IsRooted(root) THEN 1
                                                              ELSE image.checksums

\* A record is charged once for scans of several kinds.  A key is gone through
\* once in the legacy profile; in the extended one a direct key in two forms,
\* and again in two forms when the direct keys fit more than one output.
MaxScans == 4

\* The work of the primary tier keeps to its budget, over all roots, checksums
\* and profiles together: one scan of every charged key in the legacy profile,
\* and MaxScans in the extended one, neither in keys nor in bytes more.
PrimaryWorkIsBounded ==
    tier = 1 =>
        /\ MaxScans * work[FALSE].keys + work[TRUE].keys <= MaxScans * KeyLimit
        /\ MaxScans * work[FALSE].bytes + work[TRUE].bytes <= MaxScans * ByteLimit

\* The search ends: every round selects another record or is the last, and
\* every tier tries every root at most once under each checksum and profile.
SearchEnds == <>(pc = "done")

=============================================================================
