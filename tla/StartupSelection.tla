-------------------------- MODULE StartupSelection --------------------------
(* select_output_entry of src/pipeline/stages/startup/stage.rs: the choice of   *)
(* the entry of the decrypted image. Executable pages may still carry a sparse   *)
(* encoding, the exclusive or of one byte in each block with a key that some     *)
(* profile derives. A profile is tried by decoding the image in place, looking   *)
(* for an entry, and decoding it again; one that is alone in yielding an         *)
(* authentic entry is decoded a third time and stays so.                         *)
(*                                                                               *)
(* Two decodings by one key cancel, so the image in memory is the set of keys    *)
(* it was decoded with an odd number of times. What can be found in it is        *)
(* image.view, one set of sites for the raw image and one for each key.          *)
EXTENDS StartupEntry, Sequences

CONSTANTS Keys,            \* the different keys of the pages
          Profiles         \* the profiles, in the order they are tried: 1 .. n

Raw == "raw"

\* A key is none of the names for what is not one.
ASSUME KeysAreKeys ==
    /\ Profiles \in Nat
    /\ Keys \intersect {Raw, "Unchanged", "NotApplicable"} = {}

VARIABLES image,     \* what the file and its decrypted content are like
          decoded,   \* the keys the image in memory was decoded with, up to pairs
          phase,     \* the search under way: "select", "msvc", "native", "returned"
          step,      \* within a search: "raw", "list", "decode", "look", "restore"
          untried,   \* the profiles that are still to be tried
          answer,    \* what the look at the decoded image found
          successes, \* the profiles that yielded an authentic entry, with the entry
          profile    \* what was returned

startupVars == <<image, decoded, phase, step, untried, answer, successes, profile>>

NoProfile == [result |-> "none"]
Refused == [result |-> "refused"]
Selected(entry, transform) ==
    [result |-> "selected", entry |-> entry, transform |-> transform]

\* What a search sees: an image under two keys at once has no entry to find.
View(keys) ==
    CASE keys = {} -> image.view[Raw]
      [] Cardinality(keys) = 1 -> image.view[CHOOSE k \in keys : TRUE]
      [] OTHER -> {}

\* The image itself is given by the module that composes the stages.
StartupInit ==
    /\ decoded = {}
    /\ phase = "select" /\ step = "raw"
    /\ untried = {} /\ successes = <<>>
    /\ answer = None
    /\ profile = NoProfile

ReturnProfile(result) ==
    /\ phase' = "returned"
    /\ profile' = result

\* A library, or an image with a COM descriptor: one look at the raw image.
SelectLibraryOrManaged ==
    /\ phase = "select"
    /\ image.dll \/ image.com # "empty"
    /\ LET entry == DiscoverOutputEntry(image, View(decoded))
       IN  ReturnProfile(IF entry = Error THEN Refused ELSE Selected(entry, "NotApplicable"))
    /\ UNCHANGED <<image, decoded, step, untried, answer, successes>>

\* The MSVC profile comes first on AMD64, its sparse forms included.
SelectNative ==
    /\ phase = "select"
    /\ ~image.dll /\ image.com = "empty"
    /\ phase' = IF image.machine = "Amd64" THEN "msvc" ELSE "native"
    /\ UNCHANGED <<image, decoded, step, untried, answer, successes, profile>>

Discover(view) ==
    IF phase = "msvc" THEN DiscoverAmd64Msvc(image, view)
    ELSE DiscoverOutputEntry(image, view)

\* The raw image. An error of the MSVC profile ends the selection, one of the
\* general search does not.
LookAtRaw ==
    /\ phase \in {"msvc", "native"} /\ step = "raw"
    /\ LET entry == Discover(View(decoded))
       IN  CASE entry.found = "entry" ->
                  ReturnProfile(Selected(entry, "Unchanged")) /\ UNCHANGED step
             [] entry = Error /\ phase = "msvc" -> ReturnProfile(Refused) /\ UNCHANGED step
             [] OTHER -> step' = "list" /\ UNCHANGED <<phase, profile>>
    /\ UNCHANGED <<image, decoded, untried, answer, successes>>

\* unique_sparse_page_keys: of the profiles with the same keys on all pages the
\* first. Without exactly one page-aligned executable .text there is no list.
AllProfiles == 1 .. Profiles
UniqueProfiles ==
    {i \in AllProfiles : \A j \in 1 .. i - 1 : image.key[j] # image.key[i]}

ListSparseProfiles ==
    /\ step = "list" /\ phase \in {"msvc", "native"}
    /\ IF image.textIsSparse
       THEN /\ untried' = UniqueProfiles
            /\ step' = "decode"
            /\ UNCHANGED <<phase, profile>>
       ELSE ReturnProfile(Refused) /\ UNCHANGED <<step, untried>>
    /\ successes' = <<>>
    /\ UNCHANGED <<image, decoded, answer>>

\* decode_sparse_text_pages_in_place: the same operation decodes and restores.
Decode(key) == decoded \union {key}
Toggle(key) == (decoded \ {key}) \union ({key} \ decoded)

\* The profile whose turn it is: the first one left.
Trying == CHOOSE i \in untried : \A j \in untried : i <= j

DecodeProfile ==
    /\ step = "decode" /\ untried # {}
    /\ decoded' = Toggle(image.key[Trying])
    /\ step' = "look"
    /\ UNCHANGED <<image, phase, untried, answer, successes, profile>>

LookAtDecoded ==
    /\ step = "look"
    /\ LET entry == Discover(View(decoded))
       IN  answer' = IF entry.found = "entry" /\ ~SparseIsAuthentic(image, entry)
                     THEN Error ELSE entry
    /\ step' = "restore"
    /\ UNCHANGED <<image, decoded, phase, untried, successes, profile>>

RestoreImage ==
    /\ step = "restore"
    /\ decoded' = Toggle(image.key[Trying])
    /\ successes' = IF answer.found = "entry"
                    THEN Append(successes, [by |-> Trying, entry |-> answer])
                    ELSE successes
    /\ untried' = untried \ {Trying}
    /\ step' = "decode"
    /\ UNCHANGED <<image, phase, answer, profile>>

SomeSuccess == Len(successes) >= 1
OneSuccess == Len(successes) = 1

\* No success lets the MSVC search fall through to the general one.
ChooseProfile ==
    /\ step = "decode" /\ untried = {} /\ phase # "returned"
    /\ CASE OneSuccess ->
              /\ decoded' = Toggle(image.key[successes[1].by])
              /\ ReturnProfile(Selected(successes[1].entry, image.key[successes[1].by]))
              /\ UNCHANGED step
         [] Len(successes) = 0 /\ phase = "msvc" ->
              phase' = "native" /\ step' = "raw" /\ UNCHANGED <<decoded, profile>>
         [] OTHER -> ReturnProfile(Refused) /\ UNCHANGED <<decoded, step>>
    /\ UNCHANGED <<image, untried, answer, successes>>

StartupNext ==
    \/ SelectLibraryOrManaged \/ SelectNative \/ LookAtRaw \/ ListSparseProfiles
    \/ DecodeProfile \/ LookAtDecoded \/ RestoreImage \/ ChooseProfile

-----------------------------------------------------------------------------
SiteType(s) ==
    /\ s.family \in DOMAIN Demands
    /\ s.lacks \in {Nothing} \union DOMAIN Demands[s.family]
    /\ s.jumps \in 0 .. 2 /\ s.intact \in BOOLEAN

\* An image: its header, what is found in it under each key, the key of each profile.
StartupImage(i) ==
    /\ i.dll \in BOOLEAN /\ i.machine \in {"Amd64", "I386"}
    /\ i.com \in {"empty", "partial", "invalid", "managed"}
    /\ i.exception \in ExceptionStates
    /\ DOMAIN i.view = Keys \union {Raw}
    /\ \A k \in DOMAIN i.view : \A s \in i.view[k] : SiteType(s)
    /\ i.key \in [1 .. Profiles -> Keys]

StartupTypeOK ==
    /\ StartupImage(image)
    /\ decoded \subseteq Keys
    /\ phase \in {"select", "msvc", "native", "returned"}
    /\ step \in {"raw", "list", "decode", "look", "restore"}
    /\ untried \subseteq 1 .. Profiles
    /\ Len(successes) <= Profiles
    /\ profile.result \in {"none", "refused", "selected"}
    /\ (profile = NoProfile) = (phase # "returned")

(* What stays in memory is what the report says: the image was left decoded by  *)
(* the key of the profile selected and by no other, and a selection that fails   *)
(* or needs no key leaves it as it was found (decode, look, decode again in       *)
(* stage.rs). Rebuild and import recovery read that image.                        *)
ImageIsAsReported ==
    phase = "returned" =>
        decoded = IF profile.result = "selected" /\ profile.transform \in Keys
                  THEN {profile.transform} ELSE {}

\* What a key that the pages may have been encoded with would show.
SparseEntry(key, discover(_, _)) ==
    LET entry == discover(image, image.view[key])
    IN  IF entry.found = "entry" /\ SparseIsAuthentic(image, entry) THEN entry ELSE Error
PageKeys == {image.key[i] : i \in 1 .. Profiles}
Entries(discover(_, _)) ==
    {SparseEntry(k, discover) : k \in PageKeys} \ {Error}

(* The entry is the only one: it is found, and authentic, in the image that is   *)
(* left in memory, and no other key of the pages shows an authentic entry of the  *)
(* search that selected it, be it at the same place (stage.rs bails out on two).  *)
SelectedEntryIsAlone ==
    profile.result = "selected" /\ profile.transform \in Keys =>
        LET mine(i, view) == IF profile.entry.kind = "Amd64Msvc"
                             THEN DiscoverAmd64Msvc(i, view)
                             ELSE DiscoverOutputEntry(i, view)
        IN  /\ mine(image, View(decoded)) = profile.entry
            /\ \A k \in PageKeys \ {profile.transform} : SparseEntry(k, mine) = Error

(* Nothing that can be decided is refused: a native program whose raw image has   *)
(* no entry, whose pages can carry an encoding, and of whose keys exactly one     *)
(* shows an authentic entry, is recovered with that key, however many profiles    *)
(* derive the key (the removal of duplicates in sparse.rs; without it a key that   *)
(* two profiles derive would be an ambiguity).                                     *)
SparseImageIsRecovered ==
    LET shown == {k \in PageKeys : SparseEntry(k, DiscoverOutputEntry) # Error}
    IN  phase = "returned" /\ ~image.dll /\ image.com = "empty" /\ image.textIsSparse
        /\ DiscoverOutputEntry(image, image.view[Raw]) = Error
        /\ (image.machine = "Amd64" => DiscoverAmd64Msvc(image, image.view[Raw]) = None)
        /\ Cardinality(shown) = 1
        => profile.result = "selected" /\ profile.transform \in shown
=============================================================================
