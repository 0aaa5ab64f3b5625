------------------------ MODULE MCControllerReplay ------------------------
(* Instances of ControllerReplay.  One family of images varies what was altered, *)
(* the other, intact, what the lists and the layout say.                          *)
EXTENDS ControllerReplay

MCCells == 0 .. 5
MCSection == {1, 2}
MCOuter == 2 .. 4

Block(first, end, source) == [first |-> first, end |-> end, source |-> source]
Zero(first, end) == [first |-> first, end |-> end]
List(records, terminated) == [records |-> records, terminated |-> terminated]
Image(controller, altered, foreign, payloads, zeros, variant) ==
    [controller |-> controller, altered |-> altered, foreign |-> foreign,
     payloads |-> payloads, zeros |-> zeros,
     managed |-> variant[1], nested |-> variant[2], directories |-> variant[3],
     tls |-> variant[4]]

\* Is it managed, has it a nested terminal, which directories are put back, and where
\* is TLS?
Tls(directory, template, usable, blank) ==
    [directory |-> directory, template |-> template, usable |-> usable, blank |-> blank]
NoTls == Tls({}, {}, FALSE, FALSE)
Usual == <<FALSE, FALSE, {}, NoTls>>
PlainPayloads == List(<<Block(1, 2, "inside"), Block(3, 4, "inside")>>, TRUE)
AlteredImages ==
    UNION {{Image(c, {r, q}, FALSE, PlainPayloads, <<Zero(4, 6)>>, Usual) :
               r, q \in Regions[c]} : c \in Controllers}
    \union {Image(c, {}, TRUE, PlainPayloads, <<>>, Usual) : c \in Controllers}

Spans == {<<first, end>> \in (1 .. 5) \X (1 .. 6) : first <= end}
\* Two destinations in either order, apart, touching or overlapping; one range of
\* zeros or none.
MCPayloads ==
    {List(<<Block(s[1], s[2], "inside"), Block(t[1], t[2], "inside")>>, TRUE) :
        s \in Spans, t \in {<<3, 4>>, <<1, 3>>, <<4, 6>>}}
    \union {List(<<Block(2, 3, source)>>, terminated) :
              source \in {"inside", "beyond", "security", "internal"}, terminated \in BOOLEAN}
    \union {List(<<>>, TRUE), List(<<Block(0, 2, "inside")>>, TRUE)}
MCZeros == {<<>>} \union {<<Zero(z[1], z[2])>> : z \in {span \in Spans : span[1] < span[2]}}

Variants(c) ==
    CASE c \in {CodecRelocation, StateAssetSelection} ->
            BOOLEAN \X {FALSE} \X {{}, {3}} \X {NoTls}
      [] c = TerminalProfileDispatch -> BOOLEAN \X BOOLEAN \X {{3}} \X {NoTls}
      [] c = ShellDirectoryManifest ->
            {FALSE} \X {FALSE} \X {{}, {3, 4}} \X
               {NoTls, Tls({1}, {5}, TRUE, FALSE), Tls({3}, {1, 2}, TRUE, FALSE)}
            \union {FALSE} \X {FALSE} \X {{}} \X
               {Tls({3, 4}, {}, TRUE, TRUE), Tls({5}, {}, FALSE, FALSE), Tls({6}, {}, TRUE, FALSE)}
      [] OTHER -> {Usual}
\* state_asset_selection and codec_control_payload read no list of zeros.
ZerosOf(c) == IF c \in {StateAssetSelection, CodecControlPayload} THEN {<<>>} ELSE MCZeros
LayoutImages ==
    UNION {{Image(c, {}, FALSE, p, z, v) :
              p \in MCPayloads, z \in ZerosOf(c), v \in Variants(c)} : c \in Controllers}

MCJobs == AlteredImages \union LayoutImages
=============================================================================
