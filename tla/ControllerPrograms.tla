------------------------- MODULE ControllerPrograms -------------------------
(***************************************************************************)
(* The nine controllers (payload/decrypt/controller/*.rs) as programs.      *)
(*                                                                         *)
(* A controller repeats what the protector's start-up code would do: it     *)
(* opens layer after layer of the mapped image, each with a key made of     *)
(* words read from layers opened before and of checksums over regions of    *)
(* the image.  A program is the sequence of those steps; ControllerReplay   *)
(* runs it.  What a key is computed from matters here, not its value: a     *)
(* step names the regions whose words it reads and those it sums.           *)
(*                                                                         *)
(* Regions are named by what they hold and are disjoint.  "table" and       *)
(* "code" are plain in the packed file: the KONN table and the raw bytes    *)
(* under the other checksums.  Everything else is sealed, the header too:   *)
(* its checksum is over a form the controller has to write first.  The      *)
(* region "header" stands for the bytes that form keeps from the file.      *)
(***************************************************************************)
EXTENDS Integers, Sequences

Raw == {"table", "code"}

Step(do, at, words, sums) ==
    [do |-> do, at |-> at, words |-> words, sums |-> sums, miss |-> "error"]

\* Is the token set?
Checkpoint == Step("checkpoint", "table", {}, {})
\* Demands a shape that noise does not have: a marker, exact lengths, a
\* self-consistent table, a byte program that is a permutation.
Verify(at) == Step("verify", at, {}, {})
\* Demands that a stored word be the checksum of regions.
Agree(at, sums) == Step("agree", at, {at}, sums)
\* Reads a decoder table, with a check that noise may pass.
Snapshot(at) == Step("snapshot", at, {}, {})
\* Decrypts a region in place with a key.
Open(at, words, sums) == Step("open", at, words, sums)
\* Undoes in place a transform without a key, at a place that words give.
Unmask(at, words) == Step("unmask", at, words, {})
\* The same, and puts the bytes back when they have been read.
Peek(at, words) == Step("peek", at, words, {})
\* Unmasks a list of records one by one and checks each.
Walk(at, words) == Step("walk", at, words, {})
\* Demands that no zero range meets a payload destination.
Disjoint == Step("disjoint", "zeros", {"zeros", "payloads"}, {})

\* What a probe makes of a failing step: an error, or "not this controller".
Else(miss, program) == [i \in DOMAIN program |-> [program[i] EXCEPT !.miss = miss]]

(***************************************************************************)
(* shared.rs                                                               *)
(***************************************************************************)
KonnTable == <<Verify("table")>>
KonnBootstrap == <<Checkpoint, Open("shell", {"table"}, {})>>
CopyList(codec) == <<Unmask("copies", {codec})>>
Assets(codec) ==
    <<Unmask("decoders", {codec, "copies"}), Unmask("contexts", {codec, "copies"}),
      Snapshot("decoders"), Verify("contexts")>>
\* decrypt_stage: AES, the layer's decoder, an optional byte map, a keyed transform.
Layer(at, words, sums) ==
    <<Open(at, words \union {"contexts", "decoders"}, sums \union {"header"})>>
ByteProgram(at) == <<Verify(at)>>
Metadata == <<Peek("metadata", {"table"})>>
\* The header as the checksum wants it, and the bounded list of its checksums.
PrepareHeader == <<Unmask("header", {"shell"}), Verify("shell")>>

(***************************************************************************)
(* 1. shell_directory_manifest.rs                                          *)
(***************************************************************************)
\* No marker: another controller's image.  A marker over a wrong layout: an error.
MarkedShell == Else("absent", <<Verify("shell")>>) \o <<Verify("shell")>>

ShellDirectoryProbe ==
    <<Checkpoint>> \o Else("absent", KonnTable) \o KonnBootstrap \o MarkedShell

ShellDirectoryCodec ==
    <<Checkpoint>> \o PrepareHeader
    \o <<Open("controller", {"shell"}, {"header", "code"}),
         Open("codec", {"controller"}, {}), Verify("codec"), Unmask("copies", {"codec"})>>
    \o Assets("codec")

ShellDirectoryLayers ==
    Layer("mapped", {"controller"}, {"code"})
    \o Layer("transformed", {"controller", "mapped"}, {"mapped"})
    \o Layer("byteMap", {"controller", "transformed"}, {"transformed"})
    \o ByteProgram("byteMap")

ShellDirectoryTerminal ==
    Layer("manifest", {"controller", "byteMap"}, {"transformed", "byteMap"})

ManifestLayout == <<Verify("manifest")>>

ShellDirectoryLists ==
    <<Walk("fileChecksums", {"manifest"}), Walk("zeros", {"manifest"}),
      Walk("payloads", {"manifest"})>>

ShellDirectoryRecover ==
    ShellDirectoryCodec \o ShellDirectoryLayers \o ShellDirectoryTerminal
    \o ManifestLayout \o ByteProgram("manifest") \o Metadata \o ShellDirectoryLists
    \o <<Disjoint>>

(***************************************************************************)
(* 2. codec_relocation.rs, and the terminal four other controllers share   *)
(***************************************************************************)
\* The header and its checksum list, then the primary descriptor.
RootChecks == PrepareHeader \o <<Verify("shell")>>

CodecRelocationProbe == <<Checkpoint>> \o KonnTable \o KonnBootstrap \o RootChecks

RelocationActions == <<Verify("codec")>> \o CopyList("codec")

CodecRelocationCodec ==
    <<Checkpoint, Open("primary", {"shell"}, {"header", "code"}),
      Open("codec", {"primary"}, {})>>
    \o RelocationActions \o Assets("codec")

CodecRelocationLayers ==
    Layer("layer1", {"shell", "primary"}, {"code"})
    \o Layer("layer2", {"primary", "layer1"}, {"layer1"})
    \o Layer("layer3", {"primary", "layer2"}, {"code"})
    \o ByteProgram("layer3")

FinalController == Layer("final", {"primary", "layer3"}, {"code"}) \o ByteProgram("final")

MetadataRecords(terminal) == <<Walk("fileChecksums", {terminal})>>
PayloadAndZeroLists(terminal) == <<Walk("payloads", {terminal}), Walk("zeros", {terminal})>>

\* replay_exact_post_stage5
PostStage5(terminal) ==
    MetadataRecords(terminal) \o PayloadAndZeroLists(terminal) \o <<Disjoint>>

\* controller_metadata leaves the bytes as transformed.
ControllerMetadata == <<Unmask("metadata", {"table"}), Verify("metadata")>>

CodecRelocationRecover ==
    CodecRelocationCodec \o CodecRelocationLayers \o FinalController
    \o PostStage5("final") \o ControllerMetadata

(***************************************************************************)
(* The native AMD64 chain of controllers 3, 6, 7, 8 and 9: two keyed word   *)
(* layers, the codec, four stages under pairs of checksums and the list(s). *)
(***************************************************************************)
NativeStage1 == <<Open("stage1", {"shell"}, {"header", "code"})>>
NativeStage2 == <<Open("codec", {"stage1"}, {})>>
NativeStage3 == Layer("stage3", {"shell", "stage1"}, {"code"})
NativeStage3b == Layer("stage3b", {"stage1", "stage3"}, {"code"})
NativeStage4 == Layer("stage4", {"stage1", "stage3b"}, {"code"}) \o ByteProgram("stage4")
NativeStage5 == Layer("stage5", {"stage1", "stage4"}, {"code"})

(* 3. codec_control_payload.rs *)
NativeRoot == <<Verify("shell")>>
PayloadHeader == PrepareHeader
CodecControlPayloadProbe ==
    <<Checkpoint>> \o Else("absent", KonnTable \o KonnBootstrap \o NativeRoot \o PayloadHeader)
PayloadStage2 == <<Verify("stage1")>> \o NativeStage2
PayloadCodecControls == <<Verify("codec")>> \o CopyList("codec")
PayloadLists == <<Walk("payloads", {"stage5"})>>
CodecControlPayloadCodec ==
    NativeStage1 \o PayloadStage2 \o PayloadCodecControls \o Assets("codec")
CodecControlPayloadLayers ==
    NativeStage3 \o <<Verify("stage3")>> \o NativeStage3b \o NativeStage4
CodecControlPayloadRecover ==
    CodecControlPayloadCodec \o CodecControlPayloadLayers \o NativeStage5
    \o ByteProgram("stage5") \o PayloadLists

(* 6. image_base_metadata_binding.rs *)
BindingRoot == <<Verify("shell")>>
BindingHeader == PrepareHeader
DecodedStage1 == <<Verify("stage1")>>
ImageBaseMetadataProbe ==
    <<Checkpoint>> \o Else("absent", KonnTable \o KonnBootstrap \o BindingRoot)
    \o BindingHeader \o NativeStage1 \o DecodedStage1
BindingStage2 == <<Checkpoint, Verify("stage1")>> \o NativeStage2
BindingActions == <<Verify("codec")>> \o CopyList("codec")
BindingCodec == BindingActions \o Assets("codec")
BindingLayers == NativeStage3 \o NativeStage3b
BindingTerminal == NativeStage4 \o NativeStage5 \o ByteProgram("stage5")
TerminalProfile == <<Verify("stage5")>>
\* The record's layout is found by one reading, the record itself by another.
ImageBaseMetadata == <<Peek("metadata", {"table"}), Peek("metadata", {"table"})>>
ImageBaseMetadataRecover ==
    BindingStage2 \o BindingCodec \o BindingLayers \o BindingTerminal \o TerminalProfile
    \o PostStage5("stage5") \o ImageBaseMetadata

(* 7. codec_control_metadata.rs *)
MetadataRoot == <<Verify("shell")>>
MetadataHeader == PrepareHeader
\* not_applicable: no match, unless the token is set by then.
CodecControlMetadataProbe ==
    <<Checkpoint>> \o Else("settled", KonnTable \o KonnBootstrap \o MetadataRoot \o MetadataHeader)
MetadataStage1 == <<Checkpoint, Verify("shell")>> \o NativeStage1
MetadataStage2 == <<Verify("stage1")>> \o NativeStage2
FixedCodecTable == <<Verify("codec")>>
MetadataCodecControls == CopyList("codec") \o Assets("codec")
TerminalLiterals == <<Verify("stage3")>> \o NativeStage3b \o <<Verify("stage3b")>>
CodecControlMetadataRecover ==
    MetadataStage1 \o MetadataStage2 \o FixedCodecTable \o MetadataCodecControls
    \o NativeStage3 \o TerminalLiterals \o NativeStage4 \o NativeStage5
    \o ByteProgram("stage5") \o PostStage5("stage5")

(* 8. payload_checksum_manifest.rs *)
ManifestRoot == <<Verify("shell")>>
ManifestHeader == PrepareHeader
PayloadChecksumProbe ==
    <<Checkpoint>> \o Else("absent", KonnTable \o KonnBootstrap \o ManifestRoot \o ManifestHeader)
ManifestStage2 == <<Verify("stage1")>> \o NativeStage2 \o <<Verify("stage1")>>
ManifestCodec == <<Verify("codec")>> \o CopyList("codec")
ManifestLayers ==
    NativeStage3 \o <<Verify("stage3")>> \o NativeStage3b \o <<Verify("stage3b")>>
ManifestTerminal ==
    NativeStage4 \o <<Verify("stage4")>> \o NativeStage5 \o ByteProgram("stage5")
PayloadChecksumRecover ==
    <<Checkpoint>> \o NativeStage1 \o ManifestStage2 \o ManifestCodec \o Assets("codec")
    \o ManifestLayers \o ManifestTerminal \o PostStage5("stage5") \o Metadata

(* 9. terminal_profile_dispatch.rs *)
TerminalRoot == Else("absent", <<Verify("shell")>>) \o <<Verify("shell")>>
TerminalHeader == PrepareHeader
TerminalProfileProbe ==
    <<Checkpoint>> \o Else("absent", KonnTable) \o Else("raised", KonnBootstrap) \o TerminalRoot
    \o TerminalHeader
TerminalStage2 == <<Verify("stage1")>> \o NativeStage2 \o <<Verify("stage1")>>
TerminalCodecControls == <<Verify("codec")>> \o CopyList("codec")
\* At least three active records give the key of stage three its rounds.
SelectorRecords == <<Verify("stage1")>>
TerminalLayers ==
    SelectorRecords \o NativeStage3 \o <<Verify("stage3")>> \o NativeStage3b \o NativeStage4
\* Read record by record, and put back whatever comes of it.
TransientChecksumChain == <<Peek("fileChecksums", {"stage5"})>>
ReplayedMetadata == <<Peek("metadata", {"table"})>>
TerminalProfileRecover ==
    NativeStage1 \o TerminalStage2 \o TerminalCodecControls \o Assets("codec") \o TerminalLayers
    \o NativeStage5 \o TransientChecksumChain \o ByteProgram("stage5")
    \o PayloadAndZeroLists("stage5") \o <<Disjoint>> \o ReplayedMetadata

(***************************************************************************)
(* 4. state_asset_selection.rs                                             *)
(***************************************************************************)
StateHeader == PrepareHeader
StateAssetProbe ==
    <<Checkpoint>> \o Else("absent", KonnTable) \o KonnBootstrap \o StateHeader
DecodedPrimary == <<Verify("primary")>>
SelectorList == <<Verify("primary")>>
StateRows == <<Verify("state")>>
\* B0 unmasks the range the records lie in; B1 copies the assets into place.
BServices == <<Unmask("services", {"state"}), Unmask("copies", {"state"})>>
\* Only for a row with the flag 0x10; the prefix is put back on every path.
B890Metadata == <<Peek("prefix", {"services"})>>
RootedPayloadRecords == <<Walk("payloads", {"services"})>>
StateStages ==
    Layer("stage4", {"state", "primary"}, {"primary"})
    \o Layer("stage5", {"state", "stage4"}, {"stage4"})
    \o Layer("stage7", {"state", "stage5"}, {"stage5"})
    \o ByteProgram("stage7")
    \o Layer("stage12", {"state", "stage7"}, {"stage7", "stage5"})
    \o ByteProgram("stage12")
StateService ==
    <<Open("state", {"primary"}, {})>> \o StateRows \o BServices \o B890Metadata
    \o RootedPayloadRecords \o Assets("state") \o StateStages
StateAssetRecover ==
    <<Checkpoint, Agree("shell", {"header", "code"}),
      Open("primary", {"shell"}, {"header", "code"})>>
    \o DecodedPrimary \o SelectorList \o StateService \o Metadata

(***************************************************************************)
(* 5. codec_operation_dispatch.rs                                          *)
(***************************************************************************)
\* The root's marker, then its geometry.
OperationRoot == Else("absent", <<Verify("shell")>>) \o <<Verify("shell")>>
CodecOperationProbe == Else("absent", KonnTable) \o KonnBootstrap \o OperationRoot
OperationHeader == PrepareHeader
OperationCodec ==
    OperationHeader \o
    <<Open("controller", {"shell"}, {"header", "code"}), Verify("controller"),
      Open("codec", {"controller"}, {}), Verify("codec"), Unmask("copies", {"codec"})>>
    \o Assets("codec")
OperationLayers ==
    Layer("mapped", {"controller"}, {"code"})
    \o Layer("fifth", {"controller", "mapped"}, {"mapped"})
    \o Layer("seventh", {"controller", "fifth"}, {"fifth"})
    \o ByteProgram("seventh")
OperationTerminal ==
    Layer("eighth", {"controller", "seventh"}, {"fifth", "seventh"})
    \o ByteProgram("eighth")
OperationLists ==
    <<Walk("fileChecksums", {"eighth"}), Walk("zeros", {"eighth"}),
      Walk("payloads", {"eighth"})>>
CodecOperationRecover ==
    OperationCodec \o OperationLayers \o OperationTerminal \o Metadata \o OperationLists

(***************************************************************************)
(* The registry's order.                                                   *)
(***************************************************************************)
Probe ==
    <<ShellDirectoryProbe, CodecRelocationProbe, CodecControlPayloadProbe, StateAssetProbe,
      CodecOperationProbe, ImageBaseMetadataProbe, CodecControlMetadataProbe,
      PayloadChecksumProbe, TerminalProfileProbe>>

Recover ==
    <<ShellDirectoryRecover, CodecRelocationRecover, CodecControlPayloadRecover,
      StateAssetRecover, CodecOperationRecover, ImageBaseMetadataRecover,
      CodecControlMetadataRecover, PayloadChecksumRecover, TerminalProfileRecover>>

Controllers == DOMAIN Probe
=============================================================================
