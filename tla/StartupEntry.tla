---------------------------- MODULE StartupEntry ----------------------------
(* What startup recovery accepts as the entry of a decrypted image, from       *)
(* src/pipeline/stages/startup/mod.rs and startup/native. Each profile scans    *)
(* the executable sections for sites of a shape and demands evidence of every   *)
(* site. A table below lists what one profile demands, in the order of the      *)
(* code, and what a site that lacks it does to the search: the site is skipped, *)
(* or the whole search ends in an error. A site is then known by the first      *)
(* piece of evidence it lacks. Byte patterns stand behind the names. The budget *)
(* of candidate sites is left out: a profile that meets it has found several     *)
(* candidates, which is an error as well. "scannable" says that the executable   *)
(* sections are mapped and within the 512 MiB work cap.                          *)
EXTENDS Naturals, FiniteSets, TLC

CONSTANT MaxJumps   \* MAX_EXECUTABLE_JUMPS: matched jumps counted at most

Nothing == "nothing"

\* What the exception directory is like: its records are in order and executable.
ExceptionStates == {"absent", "invalid", "valid"}

\* A cookie initializer refers to one cell with the default cookie; to two is an error.
Amd64CookieEvidence == [cookie |-> "skip", oneCookie |-> "abort"]

\* The startup, or a function it calls, looks like that of the C runtime.
Amd64CrtEvidence == [crt |-> "skip"]

\* amd64_msvc_semantic_entries, over the runtime functions.
Amd64MsvcEvidence ==
    [fits |-> "skip", pattern |-> "skip", targets |-> "skip", cookieOwner |-> "skip",
     startupOwner |-> "skip"] @@ Amd64CookieEvidence @@ Amd64CrtEvidence

\* amd64_veneer_evidence; a startup no runtime function owns is an error.
Amd64OwnerEvidence == [owner |-> "abort"]
Amd64VeneerEvidence ==
    [importThunk |-> "skip", importCell |-> "skip", startup |-> "skip",
     helper |-> "skip"] @@ Amd64OwnerEvidence

\* discover_amd64_dll_entry; "owners" is the lack of one of three records when
\* there is an exception directory, "begins" a record that starts elsewhere.
Amd64DllEvidence ==
    [targets |-> "skip", owners |-> "abort", begins |-> "skip"] @@ Amd64CookieEvidence

\* discover_amd64_header_dispatch_dll_entry, for the address in the header only.
Amd64DispatchEvidence ==
    [thunk |-> "skip", selectors |-> "skip", dispatcher |-> "skip",
     resolver |-> "skip"]

\* The startup code of 32-bit programs, and the two helpers it calls.
I386StartupEvidence == [startup |-> "skip"]
I386CookieEvidence == [cookie |-> "skip"]
I386SehEvidence == [seh |-> "skip"]

\* semantic_veneers: the older profile of 32-bit images.
I386VeneerEvidence ==
    [callee |-> "skip", sameCalls |-> "skip"] @@ I386StartupEvidence

\* standalone_msvc_veneers: the entry of a plain MSVC program.
I386StandaloneEvidence ==
    [adjacent |-> "skip"] @@ I386CookieEvidence @@ I386StartupEvidence @@ I386SehEvidence

Demands == [msvc |-> Amd64MsvcEvidence, veneer |-> Amd64VeneerEvidence,
            dll |-> Amd64DllEvidence, dispatch |-> Amd64DispatchEvidence,
            legacy |-> I386VeneerEvidence, standalone |-> I386StandaloneEvidence]

(* A site: where it is, its family, the first evidence it lacks, how many      *)
(* executable jumps reach it, and whether the bodies behind it (the unwind      *)
(* prologue, or the cookie and SEH helpers) are intact.                         *)
Passes(site) == site.lacks = Nothing
Aborts(site) == site.lacks # Nothing /\ Demands[site.family][site.lacks] = "abort"
Family(view, family) == {s \in view : s.family = family}

None == [found |-> "none"]
Error == [found |-> "error"]
EntryAt(site, kind) == [found |-> "entry", kind |-> kind, site |-> site]

\* The end of every profile: no candidate, exactly one, or an error.
OnlyEntry(entries, otherwise) ==
    CASE entries = {} -> otherwise
      [] Cardinality(entries) = 1 -> CHOOSE e \in entries : TRUE
      [] OTHER -> Error

Jumps(sites) ==
    LET Reach(n) == {s \in sites : s.jumps >= n}
    IN  Cardinality(Reach(1)) + Cardinality(Reach(2))

\* Executable sections lie in the mapped image and hold at most 512 MiB.
Scannable(image) == image.scannable

DiscoverAmd64Msvc(image, view) ==
    LET sites == Family(view, "msvc")
    IN  IF      ~Scannable(image)                   THEN Error
        ELSE IF image.exception = "absent"          THEN None
        ELSE IF image.exception = "invalid"         THEN Error
        ELSE IF \E s \in sites : Aborts(s)          THEN Error
        ELSE OnlyEntry({EntryAt(s, "Amd64Msvc") : s \in {t \in sites : Passes(t)}}, None)

\* CALL and JMP side by side, as the instruction decoder sees them.
Amd64Veneers(view) == Family(view, "veneer")

\* A veneer that no jump reaches, or several, is passed over before it is looked at.
DiscoverAmd64(image, view) ==
    LET msvc == DiscoverAmd64Msvc(image, view)
        veneers == Amd64Veneers(view)
        reached == {s \in veneers : s.jumps = 1}
        owned(s) == s.lacks = "owner" /\ image.exception = "absent"
    IN  IF      msvc # None                                   THEN msvc
        ELSE IF Jumps(veneers) > MaxJumps                     THEN Error
        ELSE IF \E s \in reached : Aborts(s) /\ ~owned(s)      THEN Error
        ELSE OnlyEntry({EntryAt(s, "Amd64") : s \in {t \in reached : Passes(t) \/ owned(t)}},
                       Error)

\* Without an exception directory no wrapper has an owner, and each is skipped.
DiscoverAmd64Dll(image, view) ==
    LET sites == Family(view, "dll")
        dispatch == {s \in Family(view, "dispatch") : s.at = image.header /\ Passes(s)}
        wrapped == {s \in sites : Passes(s) /\ image.exception = "valid"}
        ownership(s) == s.lacks \in {Nothing, "owners", "begins"}
    IN  CASE ~Scannable(image) -> Error
          [] \E s \in sites : Aborts(s) /\ (s.lacks = "oneCookie" \/ image.exception # "absent")
               -> Error
          [] image.exception = "invalid" /\ \E s \in sites : ownership(s) -> Error
          [] OTHER -> OnlyEntry({EntryAt(s, "NativeDll") : s \in wrapped},
                        OnlyEntry({EntryAt(s, "NativeDll") : s \in dispatch}, Error))

\* A site with both shapes is left to the standalone profile, which wants no jump.
DiscoverI386(image, view) ==
    LET standalone == {s \in Family(view, "standalone") : Passes(s)}
        legacy == {s \in Family(view, "legacy") :
                     Passes(s) /\ \A t \in standalone : t.at # s.at}
        targets == standalone \union {s \in Family(view, "legacy") : Passes(s)}
        handoff == {s \in legacy : s.jumps = 1}
        header == {s \in legacy : s.jumps = 0 /\ s.at = image.header /\ s.intact}
        plain == {s \in standalone : s.jumps = 0}
        matched == {[at |-> s.at, jumps |-> s.jumps] : s \in targets}
    IN  CASE ~Scannable(image) -> Error
          [] Jumps(matched) > MaxJumps -> Error
          [] \E s \in legacy : s.jumps > 1 -> Error
          [] OTHER -> OnlyEntry({EntryAt(s, "I386") : s \in handoff}
                                \union {EntryAt(s, "I386MsvcStandalone") :
                                          s \in header \union plain}, Error)

\* discover_output_entry: what it is asked of the image as it is now.
DiscoverOutputEntry(image, view) ==
    CASE image.com = "partial" -> Error
      [] image.com = "invalid" -> Error
      [] image.com = "managed" ->
             [found |-> "entry", kind |-> IF image.dll THEN "ManagedDll" ELSE "ManagedExe"]
      [] OTHER ->
             IF image.dll
             THEN IF image.machine = "I386" THEN Error ELSE DiscoverAmd64Dll(image, view)
             ELSE IF image.machine = "I386" THEN DiscoverI386(image, view)
             ELSE DiscoverAmd64(image, view)

(* authenticate_sparse_output_entry: the bodies behind the entry must be intact, *)
(* for the profiles whose own evidence does not look at them: the prologues as    *)
(* the unwind programs of the exception directory have them (a function without    *)
(* one is not asked), or the cookie and SEH helpers of a 32-bit program.            *)
UnwindIsIntact(site) == site.intact
HelpersAreIntact(site) == site.intact

SparseIsAuthentic(image, entry) ==
    CASE entry.kind = "Amd64Msvc" -> UnwindIsIntact(entry.site)
      [] entry.kind = "Amd64" -> image.exception = "absent" \/ UnwindIsIntact(entry.site)
      [] entry.kind = "I386" -> HelpersAreIntact(entry.site)
      [] OTHER -> TRUE
=============================================================================
