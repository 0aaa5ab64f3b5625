-------------------------- MODULE ControllerReplay --------------------------
(***************************************************************************)
(* One controller at work on one image: probe, recover, the payload replay  *)
(* (another component, here external), finalize (controller/mod.rs).        *)
(*                                                                         *)
(* The image is a job: which regions were altered since the protector made  *)
(* it, whether its layout is another family's, and what its lists say.  A   *)
(* region is sealed, plain or noise; opening it with a wrong key makes      *)
(* noise.  A word of an altered region may or may not be the altered one;   *)
(* a checksum over an altered region is always wrong.                       *)
(***************************************************************************)
EXTENDS ControllerPrograms, FiniteSets

CONSTANTS
  Jobs,      \* the images
  Cells,     \* 0 .. n: the mapped image, cell 0 its header
  Outer,     \* the cells of the protector's own section
  Section    \* the cells of the section with the COM descriptor

Header == 0

ShellDirectoryManifest == 1
CodecRelocation == 2
CodecControlPayload == 3
StateAssetSelection == 4
CodecOperationDispatch == 5
TerminalProfileDispatch == 9

Steps(program) == {program[i] : i \in DOMAIN program}
Regions ==
    [c \in Controllers |->
        UNION {{s.at} \union s.words \union s.sums : s \in Steps(Probe[c]) \union Steps(Recover[c])}]

\* What the lists of an image may say: a length is not negative, and one of zero
\* ends the list of zero ranges.  A zero range outside the image is refused like any
\* malformed record (checked_range), and is left out.  A source inside the file may
\* meet its security directory, or a declared one that holds no certificate
\* ("internal").
Records ==
    {r \in [first : Nat, end : Nat, source : {"inside", "beyond", "security", "internal"}] :
        r.first <= r.end}
ZeroRanges == {z \in [first : Cells, end : Nat] : z.first < z.end}

\* Where the restored header puts the TLS directory and its template.  The packed file's
\* may not be `usable`; `blank` says that what the image holds at the directory is zero
\* bytes, whoever wrote them.
TlsDirectories ==
    [directory : SUBSET Nat, template : SUBSET Cells, usable : BOOLEAN, blank : BOOLEAN]

ASSUME JobsAreTyped ==
  /\ Cells \subseteq Nat /\ \A x \in Cells : 0 .. x \subseteq Cells
  /\ Jobs \subseteq
       [controller : Controllers, altered : SUBSET STRING, foreign : BOOLEAN,
        payloads : [records : Seq(Records), terminated : BOOLEAN],
        zeros : Seq(ZeroRanges), managed : BOOLEAN, nested : BOOLEAN,
        directories : SUBSET Cells, tls : TlsDirectories]
  /\ \A j \in Jobs : j.altered \subseteq Regions[j.controller]

VARIABLES
  job,        \* the image, and the controller at work on it
  phase,      \* "enter", "probe", "probed", "recover", "replay", "finalize", "done"
  pc,         \* the next step of the phase's program
  region,     \* the regions of the controller's image
  token,      \* is the cancellation token set?
  inner,      \* what the controller's own probe returned
  answer,     \* what the router is told
  cells,      \* the base image, then the recovered one
  swallowed   \* history: a step of this run failed because of the token

vars == <<job, phase, pc, region, token, inner, answer, cells, swallowed>>

Program == IF phase = "probe" THEN Probe[job.controller] ELSE Recover[job.controller]
step == Program[pc]

(***************************************************************************)
(* Keys                                                                    *)
(***************************************************************************)
WordsAreRight(s, luck) ==
    \A r \in s.words : region[r] = "plain" /\ (r \in job.altered => luck)
SumsAreRight(s) == \A r \in s.sums : region[r] = "plain" /\ r \notin job.altered
\* Mutant: the checksums are left out of the key.
ChecksumsAreLeftOut(s, luck) == WordsAreRight(s, luck)
KeyIsRight(s, luck) == WordsAreRight(s, luck) /\ SumsAreRight(s)

\* What a decryption leaves.  Over another family's layout the shell is noise.
Decrypted(s, luck) ==
    IF KeyIsRight(s, luck) /\ region[s.at] = "sealed" /\ ~(job.foreign /\ s.at = "shell")
    THEN "plain" ELSE "noise"
Shows(content, s, luck) == content = "plain" /\ (s.at \in job.altered => luck)

(***************************************************************************)
(* The record lists                                                        *)
(***************************************************************************)
Span(r) == {x \in Cells : r.first <= x /\ x < r.end}
Covered(ranges) == UNION {Span(ranges[i]) : i \in DOMAIN ranges}

\* Only state_asset_selection looks whether a security directory is one
\* (rooted_a_record_stream_range).
SourceIsAccepted(r) ==
    r.source = "inside" \/ (r.source = "internal" /\ job.controller = StateAssetSelection)

\* The payload record lists: all but codec_control_payload refuse an empty destination.
AcceptsPayloads ==
    /\ job.payloads.terminated
    /\ job.payloads.records # <<>>
    /\ \A i \in DOMAIN job.payloads.records :
          LET r == job.payloads.records[i] IN
          /\ SourceIsAccepted(r)
          /\ Span(r) # {} \/ job.controller = CodecControlPayload

AcceptsList(list) == list = "payloads" => AcceptsPayloads

\* ensure_terminal_zero_ranges_are_disjoint_from_payload_destinations
ZerosAreDisjoint ==
    \A i \in DOMAIN job.zeros, j \in DOMAIN job.payloads.records :
       LET zero == job.zeros[i]
           destination == job.payloads.records[j]
       IN destination.end > zero.first => zero.end <= destination.first

(***************************************************************************)
(* One step of a program.                                                  *)
(***************************************************************************)
Stoppable == {"checkpoint", "open", "unmask", "peek", "walk"}
Stopped(s) == token /\ s.do \in Stoppable

\* A place or a length read wrong may be refused before anything is decrypted.
Passes(s, luck, refused) ==
    CASE s.do = "checkpoint" -> TRUE
      [] s.do = "verify"     -> Shows(region[s.at], s, luck)
      [] s.do = "agree"      -> KeyIsRight(s, luck)
      [] s.do = "snapshot"   -> Shows(region[s.at], s, luck) \/ ~refused
      [] s.do \in {"open", "unmask"} -> KeyIsRight(s, luck) \/ ~refused
      [] s.do = "peek"       -> Shows(Decrypted(s, luck), s, luck)
      [] s.do = "walk"       -> Shows(Decrypted(s, luck), s, luck) /\ AcceptsList(s.at)
      [] s.do = "disjoint"   -> ZerosAreDisjoint

\* Mutant: the bytes are not put back.
PeekLeavesItsBytes(s, luck) ==
    IF s.do \in {"open", "unmask", "walk", "peek"}
    THEN [region EXCEPT ![s.at] = Decrypted(s, luck)]
    ELSE region
After(s, luck) ==
    IF s.do \in {"open", "unmask", "walk"}
    THEN [region EXCEPT ![s.at] = Decrypted(s, luck)]
    ELSE region

\* How the program ends when a step fails.
\* Mutant: the kind of the miss is passed on.
MissIsPassedOn(s, stopped) == s.miss
MissOf(s, stopped) ==
    CASE s.miss = "absent"  -> "none"
      [] s.miss = "settled" -> IF token THEN "cancelled" ELSE "none"
      [] s.miss = "raised"  -> IF stopped THEN "cancelled" ELSE "none"
      [] s.miss = "error"   -> IF stopped THEN "cancelled" ELSE "error"

TakeStep(luck, refused) ==
    /\ pc \in DOMAIN Program
    /\ ~Stopped(step)
    /\ Passes(step, luck, refused)
    /\ region' = After(step, luck)
    /\ pc' = pc + 1
    /\ UNCHANGED <<job, phase, token, inner, answer, cells, swallowed>>

\* The reason the running program gives up at this step, if it does.
FailStep(luck, refused) ==
    /\ pc \in DOMAIN Program
    /\ Stopped(step) \/ ~Passes(step, luck, refused)
    /\ swallowed' = (swallowed \/ Stopped(step))
    /\ IF phase = "probe"
       THEN /\ inner' = MissOf(step, Stopped(step))
            /\ phase' = "probed"
            /\ UNCHANGED answer
       ELSE /\ answer' = IF Stopped(step) THEN "Cancelled" ELSE "Rejected"
            /\ phase' = "done"
            /\ UNCHANGED inner
    /\ UNCHANGED <<job, pc, region, token, cells>>

(***************************************************************************)
(* controller/mod.rs                                                       *)
(***************************************************************************)
EnterProbe ==
    /\ phase = "enter"
    /\ IF token THEN phase' = "done" /\ answer' = "Cancelled"
                ELSE phase' = "probe" /\ UNCHANGED answer
    /\ UNCHANGED <<job, pc, region, token, inner, cells, swallowed>>

EndProbe ==
    /\ phase = "probe"
    /\ pc \notin DOMAIN Program
    /\ inner' = "found"
    /\ phase' = "probed"
    /\ UNCHANGED <<job, pc, region, token, answer, cells, swallowed>>

\* The token is looked at again before the answer is, so that a probe that
\* takes a stop for "not mine" cannot hide it.
\* Mutant: the answer of the controller's own probe is taken at its word.
TokenIsNotLookedAtAgain ==
    CASE inner = "none"      -> "NotApplicable"
      [] inner = "cancelled" -> "Cancelled"
      [] inner = "error"     -> "Rejected"
      [] inner = "found"     -> "Applicable"
ProbeOutcome ==
    IF token THEN "Cancelled"
    ELSE CASE inner = "none"      -> "NotApplicable"
           [] inner = "cancelled" -> "Cancelled"
           [] inner = "error"     -> "Rejected"
           [] inner = "found"     -> "Applicable"

JudgeProbe ==
    /\ phase = "probed"
    /\ IF ProbeOutcome = "Applicable"
       THEN phase' = "recover" /\ pc' = 1 /\ UNCHANGED answer
       ELSE phase' = "done" /\ answer' = ProbeOutcome /\ UNCHANGED pc
    /\ UNCHANGED <<job, region, token, inner, cells, swallowed>>

(***************************************************************************)
(* The image                                                               *)
(***************************************************************************)
Zeros == Covered(job.zeros)
Destinations == Covered(job.payloads.records)

\* materialize_payload_base, output_image, clean_mapped_outer_image: the mapped file,
\* with the protector's section as it was bound.
MappedImage ==
    [x \in Cells |-> IF x = Header THEN "header" ELSE IF x \in Outer THEN "outer" ELSE "file"]

\* materialize_konn_bootstrap, where the controller works: zeros, but for the header,
\* in the form its checksum wants, and the protector's section with its layers.
WorkingImage ==
    [x \in Cells |-> IF x = Header THEN "prepared" ELSE IF x \in Outer THEN "scratch" ELSE "zero"]

Filled(image, places, content) ==
    [x \in Cells |-> IF x \in places THEN content ELSE image[x]]

\* prefill_managed_section
Prefilled(image) == IF job.managed THEN Filled(image, Section, "file") ELSE image

\* The base image a proposal hands to the replay: of three controllers the image they
\* worked in.  Shell-directory-manifest fills its zero ranges here, the others after the
\* replay or never.
BaseImage ==
    CASE job.controller = ShellDirectoryManifest -> Filled(WorkingImage, Zeros, "zero")
      [] job.controller \in {CodecRelocation, StateAssetSelection} -> Prefilled(WorkingImage)
      [] OTHER -> MappedImage

EndRecover ==
    /\ phase = "recover"
    /\ pc \notin DOMAIN Program
    /\ cells' = BaseImage
    /\ phase' = "replay"
    /\ UNCHANGED <<job, pc, region, token, inner, answer, swallowed>>

(***************************************************************************)
(* The payload replay: CandidateReplay, seen from here.                     *)
(***************************************************************************)
PlanIsRight(luck) ==
    \A r \in {"contexts", "decoders", "payloads"} :
       region[r] = "plain" /\ (r \in job.altered => luck)

Replay(luck) ==
    /\ phase = "replay"
    /\ IF ~token /\ PlanIsRight(luck)
       THEN /\ cells' = Filled(cells, Destinations, "payload")
            /\ phase' = "finalize"
            /\ UNCHANGED answer
       ELSE /\ answer' = IF token THEN "Cancelled" ELSE "Rejected"
            /\ phase' = "done"
            /\ UNCHANGED cells
    /\ UNCHANGED <<job, pc, region, token, inner, swallowed>>

(***************************************************************************)
(* finalize                                                                *)
(***************************************************************************)
\* restore_pristine_konn_outer_gaps
\* Mutant: the whole outer is restored, payload or not.
WholeOuterIsRestored(image) == Filled(image, Outer, "outer")
WithPristineOuter(image) == Filled(image, Outer \ Destinations, "outer")

\* restore_common_mapped_header, restore_managed_header_state: the header, and with it
\* the export directory and the COM descriptor, taken from the packed file.
WithRestoredHeader(image) == Filled(image, {Header} \union job.directories, "restored")

\* restore_tls_from_stub: only a TLS directory that holds nothing is taken from the
\* packed file, and its template with it.
TlsIsEmpty(image) == job.tls.blank \/ \A x \in job.tls.directory : image[x] = "zero"
\* Mutant: whatever it holds.
TlsIsRestored(image) ==
    IF job.tls.directory # {} /\ job.tls.usable
    THEN Filled(image, job.tls.directory \union job.tls.template, "restored") ELSE image
WithRestoredTls(image) ==
    IF job.tls.directory # {} /\ job.tls.usable /\ TlsIsEmpty(image)
    THEN Filled(image, job.tls.directory \union job.tls.template, "restored") ELSE image

\* apply_standard_post_stage5_teardown
TornDown(image) ==
    LET zeroed == IF job.managed \/ job.controller = StateAssetSelection
                  THEN image ELSE Filled(image, Zeros, "zero")
    IN WithRestoredHeader(zeroed)

FinalImage ==
    CASE job.controller = ShellDirectoryManifest -> WithRestoredTls(WithRestoredHeader(cells))
      [] job.controller = CodecRelocation ->
            IF job.managed THEN TornDown(cells) ELSE WithPristineOuter(cells)
      [] job.controller = StateAssetSelection -> TornDown(cells)
      [] job.controller = TerminalProfileDispatch ->
            IF job.nested THEN cells ELSE TornDown(cells)
      [] OTHER -> cells

\* codec_operation_dispatch looks at its zero ranges only now, and
\* shell_directory_manifest at the place the restored header gives for TLS.
Finalizable ==
    /\ job.controller = CodecOperationDispatch => ZerosAreDisjoint
    /\ job.controller = ShellDirectoryManifest => job.tls.directory \subseteq Cells

Finalize ==
    /\ phase = "finalize"
    /\ phase' = "done"
    /\ IF Finalizable
       THEN answer' = "Recovered" /\ cells' = FinalImage
       ELSE answer' = "FinalizationFailed" /\ UNCHANGED cells
    /\ UNCHANGED <<job, pc, region, token, inner, swallowed>>

Cancel ==
    /\ ~token
    /\ phase # "done"
    /\ token' = TRUE
    /\ UNCHANGED <<job, phase, pc, region, inner, answer, cells, swallowed>>

Rest == phase = "done" /\ UNCHANGED vars

Init ==
    /\ job \in Jobs
    /\ phase = "enter"
    /\ pc = 1
    /\ region = [r \in Regions[job.controller] |-> IF r \in Raw THEN "plain" ELSE "sealed"]
    /\ token = FALSE
    /\ inner = "none"
    /\ answer = "pending"
    /\ cells = MappedImage
    /\ swallowed = FALSE

\* In an intact image nothing is left to chance.
Chances == IF job.altered = {} /\ ~job.foreign THEN {TRUE} ELSE BOOLEAN

RunProgram ==
    /\ phase \in {"probe", "recover"}
    /\ \E luck, refused \in Chances : TakeStep(luck, refused) \/ FailStep(luck, refused)

Next ==
    \/ EnterProbe
    \/ RunProgram
    \/ EndProbe
    \/ JudgeProbe
    \/ EndRecover
    \/ \E luck \in Chances : Replay(luck)
    \/ Finalize
    \/ Cancel
    \/ Rest

Spec == Init /\ [][Next]_vars

-----------------------------------------------------------------------------
Contents == {"header", "prepared", "restored", "file", "outer", "scratch", "zero", "payload"}

\* Every variable holds what its comment says it may.
TypeOK ==
    /\ job.controller \in Controllers /\ job.altered \subseteq Regions[job.controller]
    /\ phase \in {"enter", "probe", "probed", "recover", "replay", "finalize", "done"}
    /\ pc \in 1 .. Len(Probe[job.controller]) + Len(Recover[job.controller]) + 1
    /\ region \in [Regions[job.controller] -> {"sealed", "plain", "noise"}]
    /\ token \in BOOLEAN
    /\ inner \in {"none", "cancelled", "error", "found"}
    /\ answer \in {"pending", "NotApplicable", "Cancelled", "Rejected", "Recovered",
                   "FinalizationFailed"}
    /\ cells \in [Cells -> Contents]
    /\ swallowed \in BOOLEAN

HasPlan == phase \in {"replay", "finalize"} \/ answer \in {"Recovered", "FinalizationFailed"}
Summed == UNION {s.sums : s \in Steps(Recover[job.controller])}

\* No controller makes a plan of an image in which a byte under one of its
\* checksums was altered, or of another family's image.  Nothing compares those
\* checksums: they only go into keys, so this rests on the wrong key's noise
\* being met by a demanding check before the plan is complete.
TamperIsNoticed ==
    HasPlan => job.altered \intersect Summed = {} /\ ~job.foreign

\* What the protector promises of its lists, whatever the controller checks.
ListsAreSound ==
    /\ job.controller = ShellDirectoryManifest => job.tls.directory \subseteq Cells
    /\ job.payloads.terminated
    /\ job.payloads.records # <<>>
    /\ \A i \in DOMAIN job.payloads.records :
          /\ SourceIsAccepted(job.payloads.records[i])
          /\ Span(job.payloads.records[i]) # {}
    /\ Zeros \intersect Destinations = {}

\* A stop is told as a stop: no controller that gave up because of the token is
\* taken for one that does not apply or that found the image malformed, though
\* several probes make nothing of the reason a step failed.
StopIsTold == (swallowed => answer = "Cancelled") /\ (answer = "Cancelled" => token)

\* What the router is told is true.  An intact image of the family is recovered
\* unless the user stops the run: every key is made of layers that are open, in the
\* form that was summed, when the key is needed, and what is read in passing is put
\* back.  And a stop is told as a stop.
AnswerIsTrue ==
    phase = "done" =>
       /\ job.altered = {} /\ ~job.foreign /\ ListsAreSound => answer \in {"Recovered", "Cancelled"}
       /\ StopIsTold

\* What is taken from the packed file at the end, whatever was there.
PutBack ==
    IF \/ job.controller \in {ShellDirectoryManifest, StateAssetSelection}
       \/ job.controller = CodecRelocation /\ job.managed
       \/ job.controller = TerminalProfileDispatch /\ ~job.nested
    THEN {Header} \union job.directories ELSE {}

\* The controllers whose base image starts from zeros, and the cells they then take
\* from the packed file.
StartsFromZeros == job.controller \in {ShellDirectoryManifest, CodecRelocation, StateAssetSelection}
FromFile == IF job.controller # ShellDirectoryManifest /\ job.managed THEN Section ELSE {}

\* The TLS directory and its template are put back too, unless something lies at the
\* directory: a payload, what was put back, or the shell.
PutBackForTls ==
    IF /\ job.controller = ShellDirectoryManifest /\ job.tls.usable
       /\ \/ job.tls.blank
          \/ /\ job.tls.directory \intersect (PutBack \union Destinations) = {}
             /\ job.tls.directory \intersect Outer \subseteq Zeros
       /\ job.tls.directory # {}
    THEN job.tls.directory \union job.tls.template ELSE {}

\* What a cell may hold.
CellIsAccountedFor(x, content) ==
    /\ x \in Destinations \ (PutBack \union PutBackForTls) <=> content = "payload"
    /\ content = "zero" => x \in Zeros \/ (StartsFromZeros /\ x \notin Outer \union FromFile)
    /\ content = "file" /\ StartsFromZeros => x \in FromFile
    /\ content = "scratch" =>
          /\ x \in Outer
          /\ \/ job.controller \in {ShellDirectoryManifest, StateAssetSelection}
             \/ job.controller = CodecRelocation /\ job.managed
    /\ content = "prepared" =>
          x = Header /\ job.controller = CodecRelocation /\ ~job.managed

\* The recovered image: every payload byte outside what is put back survives the zero
\* fills and the restorations, in whichever order the controller does them; nothing
\* else is payload; a cell is zero when it is listed, or when a controller that starts
\* from zeros has nothing there; such a controller leaves none of the packed file but
\* the section of a managed image; what a controller wrote for its own use stays behind
\* in no cell but the outer ones of those three, and in codec_relocation's header.
FinalImageIsAccountedFor ==
    answer = "Recovered" => \A x \in Cells : CellIsAccountedFor(x, cells[x])
=============================================================================
