------------------------- MODULE ImageRecoveryProofs -------------------------
(***************************************************************************)
(* Proofs about ImageRecovery, for every image, list of keys and set of      *)
(* budgets: the entry that startup selection returns is the only authentic   *)
(* one and the image is left as its profile says; the encoded import table    *)
(* that is returned contains every other one.                               *)
(***************************************************************************)
EXTENDS ImageRecovery, FiniteSetTheorems, FunctionTheorems, SequenceTheorems, WellFoundedInduction, TLAPS

-----------------------------------------------------------------------------
(***************************************************************************)
(* Natural numbers: a set of them has a least element.                      *)
(***************************************************************************)
LEMMA LeastElement ==
  ASSUME NEW T \in SUBSET Nat, T # {}
  PROVE  \E x \in T : \A y \in T : x <= y
<1>1. PICK x \in T : \A y \in T : <<y, x>> \notin OpToRel(<, Nat)
  BY NatLessThanWellFounded, WFMin
<1>2. \A y \in T : ~(y < x)
  BY <1>1 DEF OpToRel
<1>. QED
  BY <1>2

-----------------------------------------------------------------------------
(***************************************************************************)
(* The inductive invariant of startup selection.                            *)
(***************************************************************************)
Searching == phase \in {"msvc", "native"}
Trials == Searching /\ step \in {"decode", "look", "restore"}
Native == ~image.dll /\ image.com = "empty"

\* What a search finds, and authenticates, in an image under a key.
Authentic(i, entry) ==
    IF entry.found = "entry" /\ SparseIsAuthentic(i, entry) THEN entry ELSE Error
SparseMsvc(i, k) == Authentic(i, DiscoverAmd64Msvc(i, i.view[k]))
SparseOutput(i, k) == Authentic(i, DiscoverOutputEntry(i, i.view[k]))
Shown(k) == IF phase = "msvc" THEN SparseMsvc(image, k) ELSE SparseOutput(image, k)

\* The MSVC search comes first, and has found nothing where the general one runs.
PhaseInv ==
    /\ Searching => Native /\ (phase = "msvc" => image.machine = "Amd64")
    /\ phase = "native" /\ image.machine = "Amd64" =>
          \A k \in PageKeys : SparseMsvc(image, k) = Error
    /\ phase = "select" => step = "raw"
    /\ Trials => image.textIsSparse
    /\ step \in {"look", "restore"} => Searching /\ untried # {}
    /\ step = "decode" /\ untried # {} => Searching

\* Between two decodings the image is under the key that is being tried.
DecodedInv ==
    phase # "returned" =>
        decoded = IF step \in {"look", "restore"} THEN {image.key[Trying]} ELSE {}

Success ==
    [by : AllProfiles,
     entry : {SparseMsvc(image, k) : k \in PageKeys}
             \union {SparseOutput(image, k) : k \in PageKeys}]

\* The successes are the tried profiles under whose key there is an entry.
SuccessInv ==
    Trials =>
        /\ untried \subseteq UniqueProfiles
        /\ successes \in Seq(Success)
        /\ \A s \in 1 .. Len(successes) :
              /\ successes[s].by \in UniqueProfiles \ untried
              /\ successes[s].entry = Shown(image.key[successes[s].by])
              /\ successes[s].entry.found = "entry"
        /\ \A s, t \in 1 .. Len(successes) : s # t => successes[s].by # successes[t].by
        /\ \A i \in UniqueProfiles \ untried :
              Shown(image.key[i]).found = "entry" =>
                  \E s \in 1 .. Len(successes) : successes[s].by = i
        /\ Len(successes) + Cardinality(untried) <= Profiles

AnswerInv ==
    step = "restore" =>
        LET shown == Shown(image.key[Trying])
        IN  IF answer.found = "entry" THEN answer = shown ELSE shown.found # "entry"

StartupInv ==
    /\ StartupTypeOK /\ PhaseInv /\ DecodedInv /\ SuccessInv /\ AnswerInv
    /\ ImageIsAsReported /\ SelectedEntryIsAlone /\ SparseImageIsRecovered

-----------------------------------------------------------------------------
(***************************************************************************)
(* What a search returns.                                                   *)
(***************************************************************************)
LEMMA OnlyEntryIsOne ==
  ASSUME NEW E, NEW otherwise
  PROVE  OnlyEntry(E, otherwise) \in E \union {otherwise, Error}
<1>1. CASE E = {}
  <2>1. Cardinality(E) # 1
    BY <1>1, FS_EmptySet
  <2>. QED
    BY <1>1, <2>1 DEF OnlyEntry
<1>2. CASE E # {} /\ Cardinality(E) = 1
  BY <1>2 DEF OnlyEntry
<1>3. CASE E # {} /\ Cardinality(E) # 1
  BY <1>3 DEF OnlyEntry
<1>. QED
  BY <1>1, <1>2, <1>3

LEMMA MsvcEntries ==
  ASSUME NEW i, NEW v
  PROVE  LET entry == DiscoverAmd64Msvc(i, v)
         IN  entry \in {None, Error} \/ (entry.found = "entry" /\ entry.kind = "Amd64Msvc")
<1> DEFINE sites == Family(v, "msvc")
           E == {EntryAt(s, "Amd64Msvc") : s \in {t \in sites : Passes(t)}}
<1>1. OnlyEntry(E, None) \in E \union {None, Error}
  BY OnlyEntryIsOne
<1>2. \A e \in E : e.found = "entry" /\ e.kind = "Amd64Msvc"
  BY DEF EntryAt
<1>3. DiscoverAmd64Msvc(i, v) \in {None, Error, OnlyEntry(E, None)}
  BY DEF DiscoverAmd64Msvc
<1>. QED
  BY <1>1, <1>2, <1>3

\* On AMD64 an entry of the MSVC profile is that of the general search.
LEMMA Amd64Entries ==
  ASSUME NEW i, NEW v
  PROVE  LET entry == DiscoverAmd64(i, v)
             msvc == DiscoverAmd64Msvc(i, v)
         IN  IF msvc # None THEN entry = msvc
             ELSE entry = Error \/ (entry.found = "entry" /\ entry.kind = "Amd64")
<1> DEFINE reached == {s \in Amd64Veneers(v) : s.jumps = 1}
           owned(s) == s.lacks = "owner" /\ i.exception = "absent"
           E == {EntryAt(s, "Amd64") : s \in {t \in reached : Passes(t) \/ owned(t)}}
<1>1. OnlyEntry(E, Error) \in E \union {Error}
  BY OnlyEntryIsOne
<1>2. \A e \in E : e.found = "entry" /\ e.kind = "Amd64"
  BY DEF EntryAt
<1>3. DiscoverAmd64(i, v) = IF DiscoverAmd64Msvc(i, v) # None THEN DiscoverAmd64Msvc(i, v)
                            ELSE DiscoverAmd64(i, v)
  BY DEF DiscoverAmd64
<1>4. DiscoverAmd64Msvc(i, v) = None => DiscoverAmd64(i, v) \in {Error, OnlyEntry(E, Error)}
  BY DEF DiscoverAmd64
<1>. QED
  BY <1>1, <1>2, <1>3, <1>4

LEMMA I386Entries ==
  ASSUME NEW i, NEW v
  PROVE  LET entry == DiscoverI386(i, v)
         IN  entry = Error \/ (entry.found = "entry" /\ entry.kind # "Amd64Msvc")
<1> DEFINE standalone == {s \in Family(v, "standalone") : Passes(s)}
           legacy == {s \in Family(v, "legacy") :
                        Passes(s) /\ \A t \in standalone : t.at # s.at}
           handoff == {s \in legacy : s.jumps = 1}
           header == {s \in legacy : s.jumps = 0 /\ s.at = i.header /\ s.intact}
           plain == {s \in standalone : s.jumps = 0}
           E == {EntryAt(s, "I386") : s \in handoff}
                \union {EntryAt(s, "I386MsvcStandalone") : s \in header \union plain}
<1>1. OnlyEntry(E, Error) \in E \union {Error}
  BY OnlyEntryIsOne
<1>2. \A e \in E : e.found = "entry" /\ e.kind # "Amd64Msvc"
  BY DEF EntryAt
<1>3. DiscoverI386(i, v) \in {Error, OnlyEntry(E, Error)}
  BY DEF DiscoverI386
<1>. QED
  BY <1>1, <1>2, <1>3

\* The general search for the entry of a native program.
LEMMA NativeEntries ==
  ASSUME NEW i, NEW v, ~i.dll, i.com = "empty", i.machine \in {"Amd64", "I386"}
  PROVE  LET entry == DiscoverOutputEntry(i, v)
             msvc == DiscoverAmd64Msvc(i, v)
         IN  /\ entry = Error \/ entry.found = "entry"
             /\ i.machine = "Amd64" /\ msvc # None => entry = msvc
             /\ entry.found = "entry" /\ entry.kind = "Amd64Msvc" =>
                    i.machine = "Amd64" /\ msvc = entry
<1>1. CASE i.machine = "I386"
  <2>1. DiscoverOutputEntry(i, v) = DiscoverI386(i, v)
    BY <1>1 DEF DiscoverOutputEntry
  <2>. QED
    BY <1>1, <2>1, I386Entries DEF Error
<1>2. CASE i.machine = "Amd64"
  <2>1. DiscoverOutputEntry(i, v) = DiscoverAmd64(i, v)
    BY <1>2 DEF DiscoverOutputEntry
  <2>. QED
    BY <1>2, <2>1, Amd64Entries, MsvcEntries DEF Error, None
<1>. QED
  BY <1>1, <1>2

-----------------------------------------------------------------------------
(***************************************************************************)
(* What the searches find under a key, in the words of the properties.      *)
(***************************************************************************)
LEMMA SparseEntries ==
  ASSUME NEW k
  PROVE  /\ SparseEntry(k, DiscoverAmd64Msvc) = SparseMsvc(image, k)
         /\ SparseEntry(k, DiscoverOutputEntry) = SparseOutput(image, k)
BY DEF SparseEntry, SparseMsvc, SparseOutput, Authentic

LEMMA ErrorIsNoEntry == Error.found # "entry" /\ None.found # "entry" /\ None # Error
BY DEF Error, None

LEMMA AuthenticEntries ==
  ASSUME NEW i, NEW entry
  PROVE  /\ Authentic(i, entry) \in {entry, Error}
         /\ Authentic(i, entry).found = "entry" =>
                Authentic(i, entry) = entry /\ SparseIsAuthentic(i, entry)
         /\ Authentic(i, entry).found # "entry" => Authentic(i, entry) = Error
BY ErrorIsNoEntry DEF Authentic

\* What the MSVC search shows, the general one shows as well.
LEMMA MsvcIsShown ==
  ASSUME NEW i, NEW k, ~i.dll, i.com = "empty", i.machine = "Amd64"
  PROVE  /\ SparseMsvc(i, k) # Error => SparseOutput(i, k) = SparseMsvc(i, k)
         /\ SparseOutput(i, k) # Error /\ SparseOutput(i, k).kind = "Amd64Msvc" =>
                SparseMsvc(i, k) = SparseOutput(i, k)
<1> DEFINE msvc == DiscoverAmd64Msvc(i, i.view[k])
           output == DiscoverOutputEntry(i, i.view[k])
<1>1. /\ msvc # None => output = msvc
      /\ output.found = "entry" /\ output.kind = "Amd64Msvc" => msvc = output
  BY NativeEntries
<1>2. SparseMsvc(i, k) # Error => msvc.found = "entry" /\ SparseMsvc(i, k) = Authentic(i, msvc)
  BY DEF SparseMsvc, Authentic
<1>3. SparseOutput(i, k) # Error => /\ output.found = "entry"
                                   /\ SparseOutput(i, k) = output
                                   /\ SparseOutput(i, k) = Authentic(i, output)
  BY DEF SparseOutput, Authentic
<1>4. msvc = output => SparseMsvc(i, k) = SparseOutput(i, k)
  BY DEF SparseMsvc, SparseOutput
<1>5. msvc.found = "entry" => msvc # None
  BY ErrorIsNoEntry
<1>. QED
  BY <1>1, <1>2, <1>3, <1>4, <1>5

-----------------------------------------------------------------------------
(***************************************************************************)
(* Keys and the image under them.                                           *)
(***************************************************************************)
LEMMA UniqueKeys ==
  ASSUME StartupTypeOK
  PROVE  /\ UniqueProfiles \subseteq AllProfiles
         /\ \A i \in AllProfiles : image.key[i] \in Keys
         /\ \A i \in AllProfiles : image.key[i] \in PageKeys
         /\ \A k \in PageKeys : \E i \in UniqueProfiles : image.key[i] = k
         /\ \A i, j \in UniqueProfiles : image.key[i] = image.key[j] => i = j
<1>1. Profiles \in Nat /\ image.key \in [1 .. Profiles -> Keys]
  BY KeysAreKeys DEF StartupTypeOK, StartupImage
<1>2. ASSUME NEW k \in PageKeys
      PROVE  \E i \in UniqueProfiles : image.key[i] = k
  <2> DEFINE T == {i \in 1 .. Profiles : image.key[i] = k}
  <2>1. T # {} /\ T \in SUBSET Nat
    BY <1>1 DEF PageKeys
  <2>2. PICK i \in T : \A j \in T : i <= j
    BY <2>1, LeastElement
  <2>3. \A j \in 1 .. i - 1 : j \in 1 .. Profiles /\ ~(i <= j)
    BY <1>1, <2>2
  <2>4. \A j \in 1 .. i - 1 : image.key[j] # image.key[i]
    BY <2>2, <2>3
  <2>. QED
    BY <2>2, <2>4 DEF UniqueProfiles, AllProfiles
<1>3. ASSUME NEW i \in UniqueProfiles, NEW j \in UniqueProfiles, i # j
      PROVE  image.key[i] # image.key[j]
  <2>1. i \in 1 .. Profiles /\ j \in 1 .. Profiles
    BY DEF UniqueProfiles, AllProfiles
  <2>2. i \in 1 .. j - 1 \/ j \in 1 .. i - 1
    BY <1>1, <1>3, <2>1
  <2>. QED
    BY <2>2 DEF UniqueProfiles
<1>4. UniqueProfiles \subseteq AllProfiles
  BY DEF UniqueProfiles
<1>. QED
  BY <1>1, <1>2, <1>3, <1>4 DEF PageKeys, AllProfiles

LEMMA TryingIsUntried ==
  ASSUME StartupTypeOK, untried # {}
  PROVE  Trying \in untried /\ image.key[Trying] \in Keys
<1>1. untried \in SUBSET Nat
  BY KeysAreKeys DEF StartupTypeOK
<1>2. \E i \in untried : \A j \in untried : i <= j
  BY <1>1, LeastElement
<1>3. Trying \in untried
  BY <1>2 DEF Trying
<1>. QED
  BY <1>3 DEF StartupTypeOK, StartupImage

LEMMA ViewUnderKeys ==
  /\ View({}) = image.view[Raw]
  /\ \A k : View({k}) = image.view[k]
<1>1. View({}) = image.view[Raw]
  <2>1. Cardinality({}) # 1
    BY FS_EmptySet
  <2>. QED
    BY <2>1, Zenon DEF View
<1>2. ASSUME NEW k
      PROVE  View({k}) = image.view[k]
  <2>1. {k} # {} /\ Cardinality({k}) = 1 /\ (CHOOSE x \in {k} : TRUE) = k
    BY FS_Singleton
  <2>. QED
    BY <2>1, Zenon DEF View
<1>. QED
  BY <1>1, <1>2

LEMMA Toggling ==
  ASSUME NEW k
  PROVE  (decoded = {} => Toggle(k) = {k}) /\ (decoded = {k} => Toggle(k) = {})
BY DEF Toggle

LEMMA UniqueProfilesAreFew ==
  /\ IsFiniteSet(UniqueProfiles)
  /\ Cardinality(UniqueProfiles) <= Profiles
<1>1. IsFiniteSet(1 .. Profiles) /\ Cardinality(1 .. Profiles) = Profiles
  BY KeysAreKeys, FS_Interval
<1>2. UniqueProfiles \subseteq 1 .. Profiles
  BY DEF UniqueProfiles, AllProfiles
<1>. QED
  BY <1>1, <1>2, FS_Subset, KeysAreKeys

\* Of the keys that show an entry, one alone is the set of them.
LEMMA AloneIsShown ==
  ASSUME StartupTypeOK, NEW S \in SUBSET PageKeys, Cardinality(S) = 1
  PROVE  \E k \in PageKeys : S = {k}
<1>1. IsFiniteSet(1 .. Profiles)
  BY KeysAreKeys, FS_Interval
<1>2. IsFiniteSet(PageKeys)
  <2>1. image.key \in [1 .. Profiles -> PageKeys]
    BY DEF StartupTypeOK, StartupImage, PageKeys
  <2>2. \A k \in PageKeys : \E i \in 1 .. Profiles : image.key[i] = k
    BY DEF PageKeys
  <2>3. image.key \in Surjection(1 .. Profiles, PageKeys)
    BY <2>1, <2>2, Fun_IsSurj
  <2>. QED
    BY <1>1, <2>3, FS_Surjection
<1>3. IsFiniteSet(S)
  BY <1>2, FS_Subset
<1>. QED
  BY <1>3, FS_Singleton

-----------------------------------------------------------------------------
(***************************************************************************)
(* What the steps of the selection have in common.                          *)
(***************************************************************************)
LEMMA ImageStays ==
  ASSUME image' = image
  PROVE  /\ UniqueProfiles' = UniqueProfiles
         /\ PageKeys' = PageKeys
         /\ Success' = Success
         /\ Native' = Native
         /\ \A k : View({k})' = View({k})
BY DEF UniqueProfiles, PageKeys, Success, Native, View, SparseMsvc, SparseOutput

\* While a search goes on there is nothing to say about its result.
LEMMA SearchGoesOn ==
  ASSUME StartupTypeOK, profile' = profile, phase # "returned", phase' # "returned"
  PROVE  (ImageIsAsReported /\ SelectedEntryIsAlone /\ SparseImageIsRecovered)'
<1>1. profile'.result # "selected"
  BY DEF StartupTypeOK, NoProfile
<1>. QED
  BY <1>1 DEF ImageIsAsReported, SelectedEntryIsAlone, SparseImageIsRecovered

\* When it returns, only the result is left to speak of.
LEMMA SearchReturns ==
  ASSUME StartupTypeOK, image' = image, NEW r,
         r = Refused \/ (\E e, t : r = Selected(e, t)),
         ReturnProfile(r),
         step \notin {"look", "restore"}, step' = step, step = "decode" => untried' = {},
         decoded' \subseteq Keys, untried' \subseteq 1 .. Profiles,
         Len(successes') <= Profiles
  PROVE  (StartupTypeOK /\ PhaseInv /\ DecodedInv /\ SuccessInv /\ AnswerInv)'
<1>1. r.result \in {"refused", "selected"} /\ r # NoProfile
  BY DEF Refused, Selected, NoProfile
<1>2. phase' = "returned" /\ profile' = r
  BY DEF ReturnProfile
<1>3. StartupTypeOK'
  BY <1>1, <1>2 DEF StartupTypeOK
<1>4. step' \notin {"look", "restore"}
  OBVIOUS
<1>. QED
  BY <1>2, <1>3, <1>4 DEF PhaseInv, DecodedInv, SuccessInv, AnswerInv, Searching, Trials

-----------------------------------------------------------------------------
(***************************************************************************)
(* The steps, one by one.                                                   *)
(***************************************************************************)
LEMMA SelectLibraryOrManagedStep ==
  ASSUME StartupInv, SelectLibraryOrManaged
  PROVE  StartupInv'
<1> DEFINE entry == DiscoverOutputEntry(image, View(decoded))
           r == IF entry = Error THEN Refused ELSE Selected(entry, "NotApplicable")
<1>1. /\ phase = "select" /\ ~Native /\ ReturnProfile(r)
      /\ UNCHANGED <<image, decoded, step, untried, answer, successes>>
  BY DEF SelectLibraryOrManaged, Native
<1>2. r = Refused \/ r = Selected(entry, "NotApplicable")
  OBVIOUS
<1> HIDE DEF entry, r
<1>3. StartupTypeOK /\ step = "raw" /\ decoded = {}
  BY <1>1 DEF StartupInv, PhaseInv, DecodedInv
<1>4. (StartupTypeOK /\ PhaseInv /\ DecodedInv /\ SuccessInv /\ AnswerInv)'
  <2>1. decoded' \subseteq Keys /\ untried' \subseteq 1 .. Profiles /\ Len(successes') <= Profiles
    BY <1>1, <1>3 DEF StartupTypeOK
  <2>. QED
    BY <1>1, <1>2, <1>3, <2>1, SearchReturns
<1>5. profile' = r /\ phase' = "returned"
  BY <1>1 DEF ReturnProfile
<1>6. ~(profile'.result = "selected" /\ profile'.transform \in Keys)
  BY <1>2, <1>5, KeysAreKeys DEF Refused, Selected
<1>7. ImageIsAsReported'
  BY <1>1, <1>3, <1>6 DEF ImageIsAsReported
<1>8. SelectedEntryIsAlone'
  BY <1>6 DEF SelectedEntryIsAlone
<1>9. SparseImageIsRecovered'
  BY <1>1 DEF SparseImageIsRecovered, Native
<1>. QED
  BY <1>4, <1>7, <1>8, <1>9 DEF StartupInv

LEMMA SelectNativeStep ==
  ASSUME StartupInv, SelectNative
  PROVE  StartupInv'
<1>1. StartupTypeOK /\ PhaseInv /\ DecodedInv /\ AnswerInv
  BY DEF StartupInv
<1>2. /\ phase = "select" /\ Native
      /\ phase' = IF image.machine = "Amd64" THEN "msvc" ELSE "native"
      /\ UNCHANGED <<image, decoded, step, untried, answer, successes, profile>>
  BY DEF SelectNative, Native
<1>3. step = "raw" /\ phase' \in {"msvc", "native"}
  BY <1>1, <1>2 DEF PhaseInv
<1>4. (ImageIsAsReported /\ SelectedEntryIsAlone /\ SparseImageIsRecovered)'
  BY <1>1, <1>2, <1>3, SearchGoesOn
<1>5. StartupTypeOK'
  BY <1>1, <1>2, <1>3 DEF StartupTypeOK
<1>6. DecodedInv' /\ SuccessInv' /\ AnswerInv'
  BY <1>1, <1>2, <1>3 DEF DecodedInv, SuccessInv, AnswerInv, Trials
<1>7. PhaseInv'
  BY <1>1, <1>2, <1>3 DEF PhaseInv, Trials, Searching, Native
<1>. QED
  BY <1>4, <1>5, <1>6, <1>7 DEF StartupInv

\* A profile under trial decodes the image with its key, and looks at it.
LEMMA DecodeProfileStep ==
  ASSUME StartupInv, DecodeProfile
  PROVE  StartupInv'
<1>1. StartupTypeOK /\ PhaseInv /\ DecodedInv /\ SuccessInv
  BY DEF StartupInv
<1>2. /\ step = "decode" /\ untried # {} /\ step' = "look"
      /\ decoded' = Toggle(image.key[Trying])
      /\ UNCHANGED <<image, phase, untried, answer, successes, profile>>
  BY DEF DecodeProfile
<1>3. Searching /\ Trials /\ Trials' /\ Searching'
  BY <1>1, <1>2 DEF PhaseInv, Searching, Trials
<1>4. Trying \in untried /\ image.key[Trying] \in Keys /\ Trying' = Trying
  BY <1>1, <1>2, TryingIsUntried DEF Trying
<1>5. decoded' = {image.key[Trying]}
  BY <1>1, <1>2, <1>3, Toggling DEF DecodedInv, Searching
<1>6. (ImageIsAsReported /\ SelectedEntryIsAlone /\ SparseImageIsRecovered)'
  BY <1>1, <1>2, <1>3, SearchGoesOn DEF Searching
<1>7. StartupTypeOK'
  BY <1>1, <1>2, <1>4, <1>5 DEF StartupTypeOK
<1>8. DecodedInv' /\ AnswerInv'
  BY <1>2, <1>4, <1>5 DEF DecodedInv, AnswerInv
<1>9. PhaseInv'
  BY <1>1, <1>2, <1>3, ImageStays DEF PhaseInv, Native
<1>10. SuccessInv'
  BY <1>1, <1>2, <1>3, ImageStays DEF SuccessInv, Shown
<1>. QED
  BY <1>6, <1>7, <1>8, <1>9, <1>10 DEF StartupInv

LEMMA LookAtDecodedStep ==
  ASSUME StartupInv, LookAtDecoded
  PROVE  StartupInv'
<1> DEFINE entry == Discover(View(decoded))
           found == IF entry.found = "entry" /\ ~SparseIsAuthentic(image, entry)
                    THEN Error ELSE entry
<1>1. StartupTypeOK /\ PhaseInv /\ DecodedInv /\ SuccessInv
  BY DEF StartupInv
<1>2. /\ step = "look" /\ step' = "restore" /\ answer' = found
      /\ UNCHANGED <<image, decoded, phase, untried, successes, profile>>
  BY DEF LookAtDecoded
<1>3. Searching /\ Trials /\ Trials' /\ Searching'
  BY <1>1, <1>2 DEF PhaseInv, Searching, Trials
<1>4. Trying' = Trying
  BY <1>2 DEF Trying
<1>5. decoded = {image.key[Trying]} /\ decoded' = decoded
  BY <1>1, <1>2, <1>3 DEF DecodedInv, Searching
<1>6. (ImageIsAsReported /\ SelectedEntryIsAlone /\ SparseImageIsRecovered)'
  BY <1>1, <1>2, <1>3, SearchGoesOn DEF Searching
<1>7. StartupTypeOK'
  BY <1>1, <1>2 DEF StartupTypeOK
<1>8. DecodedInv'
  BY <1>2, <1>4, <1>5 DEF DecodedInv
<1>9. PhaseInv'
  BY <1>1, <1>2, <1>3, ImageStays DEF PhaseInv, Native
<1>10. SuccessInv'
  BY <1>1, <1>2, <1>3, ImageStays DEF SuccessInv, Shown
<1>11. AnswerInv'
  <2> DEFINE k == image.key[Trying]
  <2>1. entry = Discover(image.view[k])
    BY <1>5, ViewUnderKeys
  <2>2. Shown(k) = Authentic(image, entry)
    BY <2>1 DEF Shown, SparseMsvc, SparseOutput, Discover
  <2>3. IF found.found = "entry" THEN found = Shown(k) ELSE Shown(k).found # "entry"
    BY <2>2, ErrorIsNoEntry DEF Authentic
  <2>4. Shown(k)' = Shown(k) /\ k' = k
    BY <1>2, <1>4 DEF Shown
  <2>. QED
    BY <1>2, <2>3, <2>4 DEF AnswerInv
<1>. QED
  BY <1>6, <1>7, <1>8, <1>9, <1>10, <1>11 DEF StartupInv

LEMMA ListSparseProfilesStep ==
  ASSUME StartupInv, ListSparseProfiles
  PROVE  StartupInv'
<1>1. StartupTypeOK /\ PhaseInv /\ DecodedInv
  BY DEF StartupInv
<1>2. /\ step = "list" /\ Searching /\ successes' = <<>>
      /\ UNCHANGED <<image, decoded, answer>>
  BY DEF ListSparseProfiles, Searching
<1>3. decoded = {}
  BY <1>1, <1>2 DEF DecodedInv, Searching
<1>4. Len(successes') = 0 /\ Profiles \in Nat
  BY <1>2, KeysAreKeys
<1>5. CASE image.textIsSparse
  <2>1. untried' = UniqueProfiles /\ step' = "decode" /\ UNCHANGED <<phase, profile>>
    BY <1>5 DEF ListSparseProfiles
  <2>2. (ImageIsAsReported /\ SelectedEntryIsAlone /\ SparseImageIsRecovered)'
    BY <1>1, <1>2, <2>1, SearchGoesOn DEF Searching
  <2>3. StartupTypeOK'
    BY <1>1, <1>2, <1>4, <2>1, UniqueKeys DEF StartupTypeOK, AllProfiles
  <2>4. DecodedInv' /\ AnswerInv'
    BY <1>2, <1>3, <2>1 DEF DecodedInv, AnswerInv
  <2>5. PhaseInv'
    BY <1>1, <1>2, <1>5, <2>1, ImageStays DEF PhaseInv, Native, Searching, Trials
  <2>6. SuccessInv'
    <3>1. successes' \in Seq(Success)
      BY <1>2
    <3>2. Len(successes') + Cardinality(untried') <= Profiles
      BY <1>4, <2>1, UniqueProfilesAreFew, FS_CardinalityType
    <3>. QED
      BY <1>2, <1>4, <2>1, <3>1, <3>2, ImageStays DEF SuccessInv
  <2>. QED
    BY <2>2, <2>3, <2>4, <2>5, <2>6 DEF StartupInv
<1>6. CASE ~image.textIsSparse
  <2>1. ReturnProfile(Refused) /\ UNCHANGED <<step, untried>>
    BY <1>6 DEF ListSparseProfiles
  <2>2. phase' = "returned" /\ profile' = Refused
    BY <2>1 DEF ReturnProfile
  <2>3. (StartupTypeOK /\ PhaseInv /\ DecodedInv /\ SuccessInv /\ AnswerInv)'
    <3>1. decoded' \subseteq Keys /\ untried' \subseteq 1 .. Profiles
      BY <1>1, <1>2, <2>1 DEF StartupTypeOK
    <3>2. Len(successes') <= Profiles
      BY <1>4
    <3>. QED
      BY <1>1, <1>2, <2>1, <3>1, <3>2, SearchReturns
  <2>4. profile'.result # "selected"
    BY <2>2 DEF Refused
  <2>5. ImageIsAsReported' /\ SelectedEntryIsAlone' /\ SparseImageIsRecovered'
    BY <1>2, <1>3, <1>6, <2>4
       DEF ImageIsAsReported, SelectedEntryIsAlone, SparseImageIsRecovered
  <2>. QED
    BY <2>3, <2>5 DEF StartupInv
<1>. QED
  BY <1>5, <1>6

\* The second decoding takes the first one back, and the answer is kept.
LEMMA RestoreImageStep ==
  ASSUME StartupInv, RestoreImage
  PROVE  StartupInv'
<1> DEFINE t == Trying
           success == [by |-> t, entry |-> answer]
           n == Len(successes)
<1>1. StartupTypeOK /\ PhaseInv /\ DecodedInv /\ SuccessInv /\ AnswerInv
  BY DEF StartupInv
<1>2. /\ step = "restore" /\ step' = "decode"
      /\ decoded' = Toggle(image.key[t])
      /\ successes' = IF answer.found = "entry" THEN Append(successes, success) ELSE successes
      /\ untried' = untried \ {t}
      /\ UNCHANGED <<image, phase, answer, profile>>
  BY DEF RestoreImage
<1>3. Searching /\ Trials /\ Trials' /\ Searching' /\ untried # {}
  BY <1>1, <1>2 DEF PhaseInv, Searching, Trials
<1>4. t \in untried /\ image.key[t] \in Keys
  BY <1>1, <1>3, TryingIsUntried
<1>5. decoded' = {}
  BY <1>1, <1>2, <1>3, Toggling DEF DecodedInv, Searching
<1>6. /\ untried \subseteq UniqueProfiles
      /\ successes \in Seq(Success)
      /\ n + Cardinality(untried) <= Profiles
  BY <1>1, <1>3 DEF SuccessInv
<1>7. t \in AllProfiles /\ image.key[t] \in PageKeys
  BY <1>1, <1>4, <1>6, UniqueKeys
<1>8. IF answer.found = "entry" THEN answer = Shown(image.key[t])
                                ELSE Shown(image.key[t]).found # "entry"
  BY <1>1, <1>2 DEF AnswerInv
<1>9. \A k : Shown(k)' = Shown(k)
  BY <1>2 DEF Shown
<1>10. n \in Nat /\ Profiles \in Nat
  BY <1>6, KeysAreKeys
<1>11. Cardinality(untried') \in Nat /\ n + 1 + Cardinality(untried') <= Profiles
  <2>1. IsFiniteSet(untried)
    BY <1>6, UniqueProfilesAreFew, FS_Subset
  <2>2. /\ Cardinality(untried) \in Nat /\ Cardinality(untried') \in Nat
        /\ Cardinality(untried') = Cardinality(untried) - 1
    BY <1>2, <1>4, <2>1, FS_RemoveElement, FS_CardinalityType
  <2>. QED
    BY <1>6, <1>10, <2>2
<1>12. SuccessInv' /\ Len(successes') <= Profiles
  <2>1. CASE answer.found = "entry"
    <3>1. success \in Success
      BY <1>7, <1>8, <2>1 DEF Success, Shown
    <3>2. /\ successes' \in Seq(Success) /\ Len(successes') = n + 1
          /\ \A s \in 1 .. n : successes'[s] = successes[s]
          /\ successes'[n + 1] = success
      BY <1>2, <1>6, <2>1, <3>1
    <3>3. 1 .. Len(successes') = 1 .. n \union {n + 1} /\ n + 1 \notin 1 .. n
      BY <1>10, <3>2
    <3>4. \A s \in 1 .. n : /\ successes[s].by \in UniqueProfiles \ untried
                            /\ successes[s].entry = Shown(image.key[successes[s].by])
                            /\ successes[s].entry.found = "entry"
      BY <1>1, <1>3 DEF SuccessInv
    <3>5. \A s \in 1 .. Len(successes') :
             /\ successes'[s].by \in UniqueProfiles \ untried'
             /\ successes'[s].entry = Shown(image.key[successes'[s].by])
             /\ successes'[s].entry.found = "entry"
      <4>1. ASSUME NEW s \in 1 .. n
            PROVE  /\ successes'[s].by \in UniqueProfiles \ untried'
                   /\ successes'[s].entry = Shown(image.key[successes'[s].by])
                   /\ successes'[s].entry.found = "entry"
        BY <1>2, <3>2, <3>4
      <4>2. /\ success.by \in UniqueProfiles \ untried'
            /\ success.entry = Shown(image.key[success.by])
            /\ success.entry.found = "entry"
        BY <1>2, <1>4, <1>6, <1>8, <2>1
      <4>. QED
        BY <3>2, <3>3, <4>1, <4>2
    <3>6. \A s, u \in 1 .. Len(successes') : s # u => successes'[s].by # successes'[u].by
      <4>1. \A s, u \in 1 .. n : s # u => successes[s].by # successes[u].by
        BY <1>1, <1>3 DEF SuccessInv
      <4>2. \A s \in 1 .. n : successes[s].by # success.by
        BY <1>4, <3>4
      <4>. QED
        BY <3>2, <3>3, <4>1, <4>2
    <3>7. \A i \in UniqueProfiles \ untried' :
             Shown(image.key[i]).found = "entry" =>
                \E s \in 1 .. Len(successes') : successes'[s].by = i
      <4>1. ASSUME NEW i \in UniqueProfiles \ untried, Shown(image.key[i]).found = "entry"
            PROVE  \E s \in 1 .. Len(successes') : successes'[s].by = i
        <5>1. PICK s \in 1 .. n : successes[s].by = i
          BY <1>1, <1>3, <4>1 DEF SuccessInv
        <5>. QED
          BY <3>2, <3>3, <5>1
      <4>2. n + 1 \in 1 .. Len(successes') /\ successes'[n + 1].by = t
        BY <3>2, <3>3
      <4>. QED
        BY <1>2, <4>1, <4>2
    <3>8. Len(successes') + Cardinality(untried') <= Profiles /\ Len(successes') <= Profiles
      BY <1>10, <1>11, <3>2
    <3>9. Trials' /\ untried' \subseteq UniqueProfiles'
      BY <1>2, <1>3, <1>6, ImageStays
    <3>10. /\ UniqueProfiles' = UniqueProfiles /\ Success' = Success
           /\ \A i : Shown(image.key[i])' = Shown(image.key[i])
      BY <1>2, ImageStays DEF Shown
    <3>. QED
      BY <1>2, <3>2, <3>5, <3>6, <3>7, <3>8, <3>9, <3>10 DEF SuccessInv
  <2>2. CASE answer.found # "entry"
    <3>1. successes' = successes
      BY <1>2, <2>2
    <3>2. \A i \in UniqueProfiles \ untried' :
             Shown(image.key[i]).found = "entry" =>
                \E s \in 1 .. n : successes[s].by = i
      BY <1>1, <1>2, <1>3, <1>8, <2>2 DEF SuccessInv
    <3>3. n + Cardinality(untried') <= Profiles /\ n <= Profiles
      BY <1>10, <1>11
    <3>4. \A s \in 1 .. n : /\ successes[s].by \in UniqueProfiles \ untried'
                            /\ successes[s].entry = Shown(image.key[successes[s].by])
                            /\ successes[s].entry.found = "entry"
      BY <1>1, <1>2, <1>3 DEF SuccessInv
    <3>5. /\ \A s, u \in 1 .. n : s # u => successes[s].by # successes[u].by
          /\ successes' \in Seq(Success) /\ untried' \subseteq UniqueProfiles
      BY <1>1, <1>2, <1>3, <3>1 DEF SuccessInv
    <3>6. /\ UniqueProfiles' = UniqueProfiles /\ Success' = Success
          /\ \A i : Shown(image.key[i])' = Shown(image.key[i])
      BY <1>2, ImageStays DEF Shown
    <3>. QED
      BY <1>2, <3>1, <3>2, <3>3, <3>4, <3>5, <3>6 DEF SuccessInv
  <2>. QED
    BY <2>1, <2>2
<1>13. (ImageIsAsReported /\ SelectedEntryIsAlone /\ SparseImageIsRecovered)'
  BY <1>1, <1>2, <1>3, SearchGoesOn DEF Searching
<1>14. StartupTypeOK'
  BY <1>1, <1>2, <1>5, <1>12 DEF StartupTypeOK
<1>15. DecodedInv' /\ AnswerInv'
  BY <1>2, <1>5 DEF DecodedInv, AnswerInv
<1>16. PhaseInv'
  BY <1>1, <1>2, <1>3, ImageStays DEF PhaseInv, Native
<1>. QED
  BY <1>12, <1>13, <1>14, <1>15, <1>16 DEF StartupInv

\* The raw image: it has an entry, which ends the selection, or the search for a
\* sparse encoding begins.
LEMMA LookAtRawStep ==
  ASSUME StartupInv, LookAtRaw
  PROVE  StartupInv'
<1> DEFINE entry == Discover(View(decoded))
           keep == UNCHANGED step
<1>1. StartupTypeOK /\ PhaseInv /\ DecodedInv
  BY DEF StartupInv
<1>2. /\ Searching /\ step = "raw"
      /\ UNCHANGED <<image, decoded, untried, answer, successes>>
  BY DEF LookAtRaw, Searching
<1>3. \/ entry.found = "entry" /\ ReturnProfile(Selected(entry, "Unchanged")) /\ step' = step
      \/ entry = Error /\ phase = "msvc" /\ ReturnProfile(Refused) /\ step' = step
      \/ /\ entry.found # "entry" /\ ~(entry = Error /\ phase = "msvc")
         /\ step' = "list" /\ phase' = phase /\ profile' = profile
  BY Zenon DEF LookAtRaw
<1>4. decoded = {} /\ entry = Discover(image.view[Raw])
  BY <1>1, <1>2, ViewUnderKeys DEF DecodedInv, Searching
<1>5. CASE phase' = "returned"
  <2> DEFINE r == IF entry.found = "entry" THEN Selected(entry, "Unchanged") ELSE Refused
  <2>1. ReturnProfile(r) /\ step' = step
    BY <1>2, <1>3, <1>5, ErrorIsNoEntry DEF Searching
  <2>2. entry.found = "entry" \/ (entry = Error /\ phase = "msvc")
    BY <1>2, <1>3, <1>5 DEF Searching
  <2>3. r = Refused \/ r = Selected(entry, "Unchanged")
    OBVIOUS
  <2> HIDE DEF r
  <2>4. (StartupTypeOK /\ PhaseInv /\ DecodedInv /\ SuccessInv /\ AnswerInv)'
    <3>1. /\ decoded' \subseteq Keys /\ untried' \subseteq 1 .. Profiles
          /\ Len(successes') <= Profiles
      BY <1>1, <1>2 DEF StartupTypeOK
    <3>. QED
      BY <1>1, <1>2, <2>1, <2>3, <3>1, SearchReturns
  <2>5. ~(profile'.result = "selected" /\ profile'.transform \in Keys)
    BY <2>1, <2>3, KeysAreKeys DEF ReturnProfile, Refused, Selected
  <2>6. ImageIsAsReported'
    BY <1>2, <1>4, <2>5 DEF ImageIsAsReported
  <2>7. SelectedEntryIsAlone'
    BY <2>5 DEF SelectedEntryIsAlone
  <2>8. SparseImageIsRecovered'
    <3>1. /\ phase = "msvc" => /\ image.machine = "Amd64"
                              /\ entry = DiscoverAmd64Msvc(image, image.view[Raw])
          /\ phase # "msvc" => entry = DiscoverOutputEntry(image, image.view[Raw])
      BY <1>1, <1>2, <1>4 DEF PhaseInv, Discover
    <3>. QED
      BY <1>2, <2>2, <3>1, ErrorIsNoEntry DEF SparseImageIsRecovered
  <2>. QED
    BY <2>4, <2>6, <2>7, <2>8 DEF StartupInv
<1>6. CASE phase' # "returned"
  <2>1. step' = "list" /\ phase' = phase /\ profile' = profile
    BY <1>3, <1>6 DEF ReturnProfile
  <2>2. (ImageIsAsReported /\ SelectedEntryIsAlone /\ SparseImageIsRecovered)'
    BY <1>1, <1>2, <1>6, <2>1, SearchGoesOn DEF Searching
  <2>3. StartupTypeOK'
    BY <1>1, <1>2, <2>1 DEF StartupTypeOK
  <2>4. DecodedInv' /\ AnswerInv' /\ SuccessInv'
    BY <1>2, <1>4, <2>1 DEF DecodedInv, AnswerInv, SuccessInv, Trials
  <2>5. PhaseInv'
    BY <1>1, <1>2, <2>1, ImageStays DEF PhaseInv, Native, Searching, Trials
  <2>. QED
    BY <2>2, <2>3, <2>4, <2>5 DEF StartupInv
<1>. QED
  BY <1>5, <1>6

-----------------------------------------------------------------------------
(***************************************************************************)
(* The choice, once every profile has been tried: a key of the pages shows   *)
(* an entry exactly if it is the key of a success.                           *)
(***************************************************************************)
LEMMA EveryKeyIsTried ==
  ASSUME StartupInv, Trials, untried = {}
  PROVE  /\ Len(successes) \in Nat
         /\ \A s \in 1 .. Len(successes) :
               LET k == image.key[successes[s].by]
               IN  /\ k \in PageKeys /\ k \in Keys
                   /\ successes[s].entry = Shown(k) /\ Shown(k).found = "entry"
         /\ \A k \in PageKeys : Shown(k) # Error =>
               \E s \in 1 .. Len(successes) : image.key[successes[s].by] = k
         /\ \A s, u \in 1 .. Len(successes) :
               s # u => image.key[successes[s].by] # image.key[successes[u].by]
<1> DEFINE n == Len(successes)
<1>1. StartupTypeOK /\ SuccessInv
  BY DEF StartupInv
<1>2. /\ successes \in Seq(Success)
      /\ \A s \in 1 .. n : /\ successes[s].by \in UniqueProfiles
                           /\ successes[s].entry = Shown(image.key[successes[s].by])
                           /\ successes[s].entry.found = "entry"
      /\ \A s, u \in 1 .. n : s # u => successes[s].by # successes[u].by
      /\ \A i \in UniqueProfiles : Shown(image.key[i]).found = "entry" =>
            \E s \in 1 .. n : successes[s].by = i
  BY <1>1 DEF SuccessInv
<1>3. n \in Nat
  BY <1>2
<1>4. \A s \in 1 .. n :
         LET k == image.key[successes[s].by]
         IN  k \in PageKeys /\ k \in Keys /\ successes[s].entry = Shown(k) /\ Shown(k).found = "entry"
  BY <1>1, <1>2, UniqueKeys
<1>5. \A k \in PageKeys : Shown(k) # Error =>
         \E s \in 1 .. n : image.key[successes[s].by] = k
  <2> SUFFICES ASSUME NEW k \in PageKeys, Shown(k) # Error
               PROVE  \E s \in 1 .. n : image.key[successes[s].by] = k
    OBVIOUS
  <2>1. PICK i \in UniqueProfiles : image.key[i] = k
    BY <1>1, UniqueKeys
  <2>2. Shown(k).found = "entry"
    BY AuthenticEntries DEF Shown, SparseMsvc, SparseOutput
  <2>3. PICK s \in 1 .. n : successes[s].by = i
    BY <1>2, <2>1, <2>2
  <2>. QED
    BY <2>1, <2>3
<1>6. \A s, u \in 1 .. n : s # u => image.key[successes[s].by] # image.key[successes[u].by]
  BY <1>1, <1>2, UniqueKeys
<1>. QED
  BY <1>3, <1>4, <1>5, <1>6

\* The key that the search could decide is the key of the only success.
LEMMA DecidedByOneSuccess ==
  ASSUME StartupInv, Trials, untried = {},
         Cardinality({k \in PageKeys : SparseOutput(image, k) # Error}) = 1
  PROVE  /\ Len(successes) <= 1
         /\ phase = "native" => Len(successes) = 1
         /\ Len(successes) = 1 => SparseOutput(image, image.key[successes[1].by]) # Error
<1> DEFINE shown == {k \in PageKeys : SparseOutput(image, k) # Error}
           n == Len(successes)
<1>1. StartupTypeOK /\ PhaseInv
  BY DEF StartupInv
<1>2. PICK d \in PageKeys : shown = {d}
  BY <1>1, AloneIsShown
<1>3. \A k : Shown(k) # Error => SparseOutput(image, k) # Error
  <2>1. CASE phase = "msvc"
    BY <1>1, <2>1, MsvcIsShown DEF Shown, PhaseInv, Searching, Native
  <2>2. CASE phase # "msvc"
    BY <2>2 DEF Shown
  <2>. QED
    BY <2>1, <2>2
<1>4. \A s \in 1 .. n : image.key[successes[s].by] \in shown
  BY <1>3, EveryKeyIsTried, ErrorIsNoEntry
<1>5. n \in Nat
  BY EveryKeyIsTried
<1>6. n <= 1
  <2>1. ASSUME n > 1
        PROVE  FALSE
    <3>1. 1 \in 1 .. n /\ 2 \in 1 .. n
      BY <1>5, <2>1
    <3>. QED
      BY <1>2, <1>4, <3>1, EveryKeyIsTried
  <2>. QED
    BY <1>5, <2>1
<1>7. phase = "native" => n = 1
  <2>1. ASSUME phase = "native"
        PROVE  n >= 1
    <3>1. Shown(d) # Error
      BY <1>2, <2>1 DEF Shown
    <3>2. \E s \in 1 .. n : image.key[successes[s].by] = d
      BY <3>1, EveryKeyIsTried
    <3>. QED
      BY <1>5, <3>2
  <2>2. \A m \in Nat : m <= 1 /\ m >= 1 => m = 1
    OBVIOUS
  <2>. QED
    BY <1>5, <1>6, <2>1, <2>2
<1>8. n = 1 => 1 \in 1 .. n
  BY <1>5
<1>. QED
  BY <1>4, <1>6, <1>7, <1>8

LEMMA ChooseProfileStep ==
  ASSUME StartupInv, ChooseProfile
  PROVE  StartupInv'
<1> DEFINE n == Len(successes)
           by == image.key[successes[1].by]
           one == /\ decoded' = Toggle(by)
                  /\ ReturnProfile(Selected(successes[1].entry, by))
                  /\ step' = step
           fall == phase' = "native" /\ step' = "raw" /\ decoded' = decoded /\ profile' = profile
           none == ReturnProfile(Refused) /\ decoded' = decoded /\ step' = step
<1>1. StartupTypeOK /\ PhaseInv /\ DecodedInv
  BY DEF StartupInv
<1>2. /\ step = "decode" /\ untried = {} /\ phase # "returned"
      /\ UNCHANGED <<image, untried, answer, successes>>
  BY DEF ChooseProfile
<1>3. \/ n = 1 /\ one
      \/ n # 1 /\ n = 0 /\ phase = "msvc" /\ fall
      \/ n # 1 /\ ~(n = 0 /\ phase = "msvc") /\ none
  <2>1. ~(n = 1 /\ n = 0)
    OBVIOUS
  <2>. QED
    BY <2>1, Zenon DEF ChooseProfile, OneSuccess
<1>4. Searching /\ Trials
  BY <1>1, <1>2 DEF PhaseInv, StartupTypeOK, Searching, Trials
<1>5. decoded = {}
  BY <1>1, <1>2 DEF DecodedInv
<1>6. n \in Nat
  BY <1>2, <1>4, EveryKeyIsTried
<1>7. Native /\ image.textIsSparse
  BY <1>1, <1>4 DEF PhaseInv
<1>8. CASE n = 1 /\ one
  <2> DEFINE entry == successes[1].entry
  <2>0. 1 \in 1 .. n
    BY <1>8
  <2>1. by \in PageKeys /\ by \in Keys /\ entry = Shown(by) /\ Shown(by).found = "entry"
    BY <1>2, <1>4, <2>0, EveryKeyIsTried
  <2>2. \A k \in PageKeys : k # by => Shown(k) = Error
    <3>1. ASSUME NEW k \in PageKeys, Shown(k) # Error
          PROVE  k = by
      <4>1. PICK s \in 1 .. n : image.key[successes[s].by] = k
        BY <1>2, <1>4, <3>1, EveryKeyIsTried
      <4>2. s = 1
        BY <1>8, <4>1
      <4>. QED
        BY <4>1, <4>2
    <3>. QED
      BY <3>1
  <2>3. decoded' = {by}
    BY <1>5, <1>8, Toggling
  <2>4. profile' = Selected(entry, by) /\ phase' = "returned"
    BY <1>8 DEF ReturnProfile
  <2>5. profile'.result = "selected" /\ profile'.entry = entry /\ profile'.transform = by
    BY <2>4 DEF Selected
  <2>6. (StartupTypeOK /\ PhaseInv /\ DecodedInv /\ SuccessInv /\ AnswerInv)'
    <3>1. /\ decoded' \subseteq Keys /\ untried' \subseteq 1 .. Profiles
          /\ Len(successes') <= Profiles /\ untried' = {}
      BY <1>1, <1>2, <2>1, <2>3 DEF StartupTypeOK
    <3>2. ReturnProfile(Selected(entry, by)) /\ step' = step
      BY <1>8
    <3>. QED
      BY <1>1, <1>2, <3>1, <3>2, SearchReturns
  <2>7. ImageIsAsReported'
    BY <2>1, <2>3, <2>5 DEF ImageIsAsReported
  <2>8. SelectedEntryIsAlone'
    <3> DEFINE msvc(k) == DiscoverAmd64Msvc(image, image.view[k])
               output(k) == DiscoverOutputEntry(image, image.view[k])
    <3>1. IF phase = "msvc" THEN entry = msvc(by) /\ entry.kind = "Amd64Msvc"
                            ELSE entry = output(by) /\ entry.kind # "Amd64Msvc"
      <4>1. CASE phase = "msvc"
        <5>1. entry = msvc(by) /\ entry.found = "entry"
          BY <2>1, <4>1, AuthenticEntries DEF Shown, SparseMsvc
        <5>2. msvc(by) \in {None, Error} \/ msvc(by).kind = "Amd64Msvc"
          BY MsvcEntries
        <5>. QED
          BY <4>1, <5>1, <5>2, ErrorIsNoEntry
      <4>2. CASE phase # "msvc"
        <5>1. entry = SparseOutput(image, by) /\ entry # Error /\ entry.found = "entry"
          BY <2>1, <4>2, ErrorIsNoEntry DEF Shown
        <5>2. entry = output(by)
          BY <5>1, AuthenticEntries DEF SparseOutput
        <5>3. image.machine = "Amd64" => SparseMsvc(image, by) = Error
          BY <1>1, <1>4, <2>1, <4>2 DEF PhaseInv, Searching
        <5>4. image.machine \in {"Amd64", "I386"} /\ ~image.dll /\ image.com = "empty"
          BY <1>1, <1>7 DEF StartupTypeOK, StartupImage, Native
        <5>5. entry.kind = "Amd64Msvc" => image.machine = "Amd64"
          BY <5>1, <5>2, <5>4, NativeEntries
        <5>6. image.machine = "Amd64" /\ entry.kind = "Amd64Msvc" =>
                 SparseMsvc(image, by) = entry
          BY <5>1, <5>4, MsvcIsShown
        <5>. QED
          BY <4>2, <5>1, <5>2, <5>3, <5>5, <5>6
      <4>. QED
        BY <4>1, <4>2
    <3>2. View(decoded)' = image.view[by] /\ PageKeys' = PageKeys
      BY <1>2, <2>3, ImageStays, ViewUnderKeys
    <3>3. CASE phase = "msvc"
      <4>1. \A k \in PageKeys \ {by} : SparseEntry(k, DiscoverAmd64Msvc)' = Error
        BY <1>2, <2>2, <3>3, SparseEntries DEF Shown, SparseEntry
      <4>. QED
        BY <1>2, <2>5, <3>1, <3>2, <3>3, <4>1 DEF SelectedEntryIsAlone, SparseEntry
    <3>4. CASE phase # "msvc"
      <4>1. \A k \in PageKeys \ {by} : SparseEntry(k, DiscoverOutputEntry)' = Error
        BY <1>2, <2>2, <3>4, SparseEntries DEF Shown, SparseEntry
      <4>. QED
        BY <1>2, <2>5, <3>1, <3>2, <3>4, <4>1 DEF SelectedEntryIsAlone, SparseEntry
    <3>. QED
      BY <3>3, <3>4
  <2>9. SparseImageIsRecovered'
    <3>1. {k \in PageKeys : SparseEntry(k, DiscoverOutputEntry) # Error}
             = {k \in PageKeys : SparseOutput(image, k) # Error}
      BY SparseEntries
    <3>2. {k \in PageKeys : SparseEntry(k, DiscoverOutputEntry) # Error}'
             = {k \in PageKeys : SparseEntry(k, DiscoverOutputEntry) # Error}
      BY <1>2 DEF PageKeys, SparseEntry
    <3>3. Cardinality({k \in PageKeys : SparseOutput(image, k) # Error}) = 1
             => SparseOutput(image, by) # Error
      BY <1>2, <1>4, <1>8, DecidedByOneSuccess
    <3>. QED
      BY <2>1, <2>5, <3>1, <3>2, <3>3 DEF SparseImageIsRecovered
  <2>. QED
    BY <2>6, <2>7, <2>8, <2>9 DEF StartupInv
<1>9. CASE n # 1 /\ n = 0 /\ phase = "msvc" /\ fall
  <2>1. \A k \in PageKeys : SparseMsvc(image, k) = Error
    <3>1. \A k \in PageKeys : Shown(k) = Error
      BY <1>2, <1>4, <1>9, EveryKeyIsTried
    <3>. QED
      BY <1>9, <3>1 DEF Shown
  <2>2. (ImageIsAsReported /\ SelectedEntryIsAlone /\ SparseImageIsRecovered)'
    BY <1>1, <1>2, <1>9, SearchGoesOn
  <2>3. StartupTypeOK'
    BY <1>1, <1>2, <1>9 DEF StartupTypeOK
  <2>4. DecodedInv' /\ AnswerInv' /\ SuccessInv'
    BY <1>2, <1>5, <1>9 DEF DecodedInv, AnswerInv, SuccessInv, Trials
  <2>5. PhaseInv'
    BY <1>1, <1>2, <1>7, <1>9, <2>1, ImageStays DEF PhaseInv, Searching, Trials
  <2>. QED
    BY <2>2, <2>3, <2>4, <2>5 DEF StartupInv
<1>10. CASE n # 1 /\ ~(n = 0 /\ phase = "msvc") /\ none
  <2>1. (StartupTypeOK /\ PhaseInv /\ DecodedInv /\ SuccessInv /\ AnswerInv)'
    <3>1. /\ decoded' \subseteq Keys /\ untried' \subseteq 1 .. Profiles
          /\ Len(successes') <= Profiles /\ untried' = {}
      BY <1>1, <1>2, <1>10 DEF StartupTypeOK
    <3>. QED
      BY <1>1, <1>2, <1>10, <3>1, SearchReturns
  <2>2. profile'.result # "selected"
    BY <1>10 DEF ReturnProfile, Refused
  <2>3. ImageIsAsReported' /\ SelectedEntryIsAlone'
    BY <1>5, <1>10, <2>2 DEF ImageIsAsReported, SelectedEntryIsAlone
  <2>4. Cardinality({k \in PageKeys : SparseOutput(image, k) # Error}) # 1
    <3>1. ASSUME Cardinality({k \in PageKeys : SparseOutput(image, k) # Error}) = 1
          PROVE  FALSE
      <4>1. n <= 1 /\ (phase = "native" => n = 1)
        BY <1>2, <1>4, <3>1, DecidedByOneSuccess
      <4>2. \A m \in Nat : m <= 1 /\ m # 1 => m = 0
        OBVIOUS
      <4>3. n = 0
        BY <1>6, <1>10, <4>1, <4>2
      <4>. QED
        BY <1>4, <1>10, <4>1, <4>3 DEF Searching
    <3>. QED
      BY <3>1
  <2>5. SparseImageIsRecovered'
    <3>1. {k \in PageKeys : SparseEntry(k, DiscoverOutputEntry) # Error}
             = {k \in PageKeys : SparseOutput(image, k) # Error}
      BY SparseEntries
    <3>2. {k \in PageKeys : SparseEntry(k, DiscoverOutputEntry) # Error}'
             = {k \in PageKeys : SparseEntry(k, DiscoverOutputEntry) # Error}
      BY <1>2 DEF PageKeys, SparseEntry
    <3>. QED
      BY <2>4, <3>1, <3>2 DEF SparseImageIsRecovered
  <2>. QED
    BY <2>1, <2>3, <2>5 DEF StartupInv
<1>. QED
  BY <1>3, <1>8, <1>9, <1>10

-----------------------------------------------------------------------------
(***************************************************************************)
(* The encoded import table. A row of descriptors ends inside the image, so  *)
(* every place has a run length.                                            *)
(***************************************************************************)
LEMMA RunLengths ==
  ASSUME ImportTypeOK, NEW p \in Places
  PROVE  /\ RunLength(p) \in 0 .. Len(imports.cells)
         /\ \A i \in 0 .. RunLength(p) - 1 : Descriptor(Row(p, i)) = "module"
         /\ Descriptor(Row(p, RunLength(p))) # "module"
<1> DEFINE L == Len(imports.cells)
           T == {n \in Nat : Descriptor(Row(p, n)) # "module"}
<1>1. L \in Nat /\ Places = 1 .. L /\ Width \in Nat \ {0}
  BY ImportBoundsAreNatural DEF ImportTypeOK, ImportImage, Places
<1>2. Row(p, L) \notin Places
  <2>1. \A l, w, x \in Nat : w # 0 /\ x >= 1 => x + l * w > l
    <3>1. \A l, w \in Nat : w # 0 => l * w >= l
      OBVIOUS
    <3>. QED
      BY <3>1
  <2>. QED
    BY <1>1, <2>1 DEF Row
<1>3. Row(p, L) \in Span(Row(p, L))
  BY <1>1 DEF Span, Row
<1>4. L \in T
  BY <1>1, <1>2, <1>3 DEF Descriptor, InOneSection
<1>5. PICK n \in T : \A m \in T : n <= m
  <2>1. T \in SUBSET Nat /\ T # {}
    BY <1>4
  <2>. QED
    BY <2>1, LeastElement
<1>6. n \in 0 .. L
  BY <1>1, <1>4, <1>5
<1>7. \A i \in 0 .. n - 1 : Descriptor(Row(p, i)) = "module"
  <2>1. \A i \in 0 .. n - 1 : i \in Nat /\ ~(n <= i)
    BY <1>6
  <2>. QED
    BY <1>5, <2>1
<1>8. \E m \in 0 .. L : /\ \A i \in 0 .. m - 1 : Descriptor(Row(p, i)) = "module"
                        /\ Descriptor(Row(p, m)) # "module"
  BY <1>5, <1>6, <1>7
<1>. QED
  BY <1>8 DEF RunLength

LEMMA TablesBeginWithAModule ==
  ASSUME ImportTypeOK, NEW p \in Places, IsTable(p)
  PROVE  Descriptor(p) = "module" /\ RunLength(p) \in Nat \ {0}
<1>1. RunLength(p) \in Nat \ {0} /\ 0 \in 0 .. RunLength(p) - 1
  BY RunLengths DEF IsTable
<1>2. Row(p, 0) = p
  BY ImportBoundsAreNatural DEF Row, ImportTypeOK, ImportImage, Places
<1>. QED
  BY <1>1, <1>2, RunLengths

LEMMA ImportsStay ==
  ASSUME imports' = imports
  PROVE  /\ Places' = Places
         /\ \A p : IsStart(p)' = IsStart(p)
         /\ \A p : Descriptor(p)' = Descriptor(p)
         /\ \A p : RunLength(p)' = RunLength(p)
         /\ \A p : IsTable(p)' = IsTable(p)
         /\ \A p : TableAt(p)' = TableAt(p)
<1>1. Places' = Places
  BY DEF Places
<1>2. \A p : InOneSection(p)' = InOneSection(p)
  BY <1>1 DEF InOneSection, Span
<1>3. \A p : Descriptor(p)' = Descriptor(p)
  BY <1>2 DEF Descriptor, Decodes, Span
<1>4. \A p : RunLength(p)' = RunLength(p)
  BY <1>3 DEF RunLength, Row
<1>5. \A p : IsTable(p)' = IsTable(p)
  BY <1>3, <1>4 DEF IsTable, RunEnd, Row
<1>6. \A p : TableAt(p)' = TableAt(p)
  BY <1>4 DEF TableAt, Span, Row
<1>. QED
  BY <1>1, <1>2, <1>3, <1>4, <1>5, <1>6 DEF IsStart

\* Rows further down the same table, up to the same end, lie inside it.
LEMMA SuffixIsInside ==
  ASSUME ImportTypeOK, NEW w \in Places, NEW p \in Places,
         RunLength(p) <= RunLength(w), p = Row(w, RunLength(w) - RunLength(p))
  PROVE  /\ TableAt(p) \subseteq TableAt(w)
         /\ Row(p, RunLength(p)) = Row(w, RunLength(w))
<1> DEFINE m == RunLength(w)
           n == RunLength(p)
           d == m - n
<1>1. m \in Nat /\ n \in Nat /\ Width \in Nat /\ w \in Nat
  BY RunLengths, ImportBoundsAreNatural DEF ImportTypeOK, ImportImage, Places
<1> HIDE DEF m, n
<1>2. d \in Nat /\ p = w + d * Width
  BY <1>1 DEF Row, m, n
<1>3. \A a, b, e, f \in Nat : (a + e * b) + f * b = a + (e + f) * b
  OBVIOUS
<1>4. \A i \in 0 .. n : Row(p, i) = Row(w, d + i) /\ d + i \in 0 .. m
  BY <1>1, <1>2, <1>3 DEF Row
<1>5. TableAt(p) \subseteq TableAt(w)
  BY <1>4 DEF TableAt, m, n
<1>6. Row(p, n) = Row(w, m)
  <2>1. n \in 0 .. n /\ d + n = m
    BY <1>1
  <2>. QED
    BY <1>4, <2>1
<1>. QED
  BY <1>5, <1>6 DEF m, n

-----------------------------------------------------------------------------
(***************************************************************************)
(* The inductive invariant of the scan: the candidates are the tables that   *)
(* start at the places behind it.                                           *)
(***************************************************************************)
Candidate(p) == [at |-> p, modules |-> RunLength(p)]

CandidatesInv ==
    /\ IsFiniteSet(candidates)
    /\ doing = "idle" => place = 1 /\ candidates = {}
    /\ discovery.result = "found" => doing = "returned"
    /\ \A c \in candidates : /\ c.at \in Places /\ IsTable(c.at)
                             /\ c = Candidate(c.at)
    /\ doing \in {"scan", "choose"} =>
          \A p \in Places : p < place /\ IsStart(p) /\ IsTable(p) => Candidate(p) \in candidates
    /\ doing = "choose" => place > Len(imports.cells)

ImportInv == ImportTypeOK /\ CandidatesInv /\ EncodedTableIsDominant

LEMMA ImportBounds ==
  ASSUME ImportTypeOK
  PROVE  /\ Len(imports.cells) \in Nat /\ Places = 1 .. Len(imports.cells)
         /\ place \in Nat /\ starts \in Nat /\ parsed \in Nat
         /\ MaxStarts \in Nat /\ MaxDescriptors \in Nat /\ MaxCandidates \in Nat
BY ImportBoundsAreNatural DEF ImportTypeOK, ImportImage, Places

\* A step that finds no encoded table: what is left to show of it.
LEMMA NothingEncodedFound ==
  ASSUME discovery'.result = "found" => discovery'.profile # "EncodedLoader"
  PROVE  EncodedTableIsDominant'
BY DEF EncodedTableIsDominant

LEMMA StartImportsStep ==
  ASSUME ImportInv, NEW source_, source_ \in {"EncodedLoader", "Standard", "NativeDll"},
         StartImports(source_)
  PROVE  ImportInv'
<1>1. ImportTypeOK /\ CandidatesInv
  BY DEF ImportInv
<1>2. /\ doing = "idle" /\ source' = source_ /\ doing' \in {"directory", "scan"}
      /\ UNCHANGED <<imports, place, starts, parsed, candidates, discovery>>
  BY DEF StartImports
<1>3. ImportTypeOK'
  BY <1>1, <1>2, ImportsStay DEF ImportTypeOK
<1>4. discovery'.result # "found"
  BY <1>1, <1>2 DEF CandidatesInv
<1>5. \A p \in Places : ~(p < place)
  BY <1>1, <1>2, ImportBounds DEF CandidatesInv
<1>6. CandidatesInv'
  BY <1>1, <1>2, <1>4, <1>5, ImportsStay DEF CandidatesInv
<1>. QED
  BY <1>3, <1>4, <1>6, NothingEncodedFound DEF ImportInv

LEMMA SkipPlaceStep ==
  ASSUME ImportInv, SkipPlace
  PROVE  ImportInv'
<1>1. ImportTypeOK /\ CandidatesInv
  BY DEF ImportInv
<1>2. /\ doing = "scan" /\ place <= Len(imports.cells) /\ ~IsStart(place)
      /\ place' = place + 1
      /\ UNCHANGED <<imports, source, doing, starts, parsed, candidates, discovery>>
  BY DEF SkipPlace
<1>3. place' \in 1 .. Len(imports.cells) + 1
  BY <1>1, <1>2, ImportBounds DEF ImportTypeOK
<1>4. ImportTypeOK'
  BY <1>1, <1>2, <1>3, ImportsStay DEF ImportTypeOK
<1>5. discovery'.result # "found"
  BY <1>1, <1>2 DEF CandidatesInv
<1>6. \A p \in Places : p < place' => p < place \/ p = place
  BY <1>1, <1>2, ImportBounds
<1>7. CandidatesInv'
  BY <1>1, <1>2, <1>5, <1>6, ImportsStay DEF CandidatesInv, Candidate
<1>. QED
  BY <1>4, <1>5, <1>7, NothingEncodedFound DEF ImportInv

LEMMA ScanFailsStep ==
  ASSUME ImportInv, doing \in {"scan", "choose"},
         UNCHANGED <<imports, source, candidates>>, ScanFails
  PROVE  ImportInv'
<1>1. ImportTypeOK /\ CandidatesInv
  BY DEF ImportInv
<1>2. /\ doing' \in {"directory", "returned"} /\ discovery' \in {discovery, Failed}
      /\ place' = 1 /\ starts' = 0 /\ parsed' = 0
  BY DEF ScanFails
<1>3. discovery.result # "found"
  BY <1>1 DEF CandidatesInv
<1>4. discovery'.result \in {"none", "failed"}
  BY <1>1, <1>2, <1>3 DEF ImportTypeOK, Failed
<1>5. ImportTypeOK'
  <2>1. 1 \in 1 .. Len(imports.cells) + 1 /\ 0 \in 0 .. MaxStarts /\ 0 \in 0 .. MaxDescriptors
    BY <1>1, ImportBounds
  <2>. QED
    BY <1>1, <1>2, <1>4, <2>1, ImportsStay DEF ImportTypeOK
<1>6. CandidatesInv'
  BY <1>1, <1>2, <1>4, ImportsStay DEF CandidatesInv, Candidate
<1>. QED
  BY <1>4, <1>5, <1>6, NothingEncodedFound DEF ImportInv

LEMMA ScanPlaceStep ==
  ASSUME ImportInv, ScanPlace
  PROVE  ImportInv'
<1> DEFINE charge == IF Descriptor(place) = "null" THEN 0 ELSE Charge(place)
           finds == Descriptor(place) # "null" /\ IsTable(place)
<1>1. ImportTypeOK /\ CandidatesInv
  BY DEF ImportInv
<1>2. /\ doing = "scan" /\ place <= Len(imports.cells) /\ IsStart(place)
      /\ imports' = imports /\ source' = source
  BY DEF ScanPlace
<1>3. place \in Places
  BY <1>1, <1>2, ImportBounds DEF ImportTypeOK
<1>4. finds <=> IsTable(place)
  BY <1>1, <1>3, TablesBeginWithAModule
<1>5. charge \in Nat
  BY <1>1, <1>3, RunLengths DEF Charge
<1> HIDE DEF charge
<1>6. CASE OverBudget(charge, finds)
  <2>1. ScanFails /\ candidates' = candidates
    BY <1>6 DEF ScanPlace, charge
  <2>. QED
    BY <1>2, <2>1, ScanFailsStep
<1>7. CASE ~OverBudget(charge, finds)
  <2>1. /\ starts' = starts + 1 /\ parsed' = parsed + charge /\ place' = place + 1
        /\ candidates' = IF IsTable(place) THEN candidates \union {Candidate(place)}
                                           ELSE candidates
        /\ UNCHANGED <<doing, discovery>>
    BY <1>4, <1>7 DEF ScanPlace, charge, Candidate
  <2>2. ~(starts + 1 > MaxStarts) /\ ~(parsed + charge > MaxDescriptors)
    BY <1>7 DEF OverBudget, OverParsed
  <2>3. place' \in 1 .. Len(imports.cells) + 1
    BY <1>1, <1>2, <2>1, ImportBounds DEF ImportTypeOK
  <2>4. starts' \in 0 .. MaxStarts /\ parsed' \in 0 .. MaxDescriptors
    BY <1>1, <1>5, <2>1, <2>2, ImportBounds
  <2>5. IsFiniteSet(candidates') /\ Cardinality(candidates') <= MaxCandidates
    <3>1. IsFiniteSet(candidates) /\ Cardinality(candidates) \in Nat
      BY <1>1, FS_CardinalityType DEF CandidatesInv
    <3>2. Cardinality(candidates) <= MaxCandidates
      BY <1>1 DEF ImportTypeOK
    <3>3. IsTable(place) => ~(Cardinality(candidates) + 1 > MaxCandidates)
      BY <1>4, <1>7 DEF OverBudget, OverParsed
    <3>4. /\ IsFiniteSet(candidates \union {Candidate(place)})
          /\ Cardinality(candidates \union {Candidate(place)})
                \in {Cardinality(candidates), Cardinality(candidates) + 1}
      BY <3>1, FS_AddElement
    <3>. QED
      BY <1>1, <2>1, <3>1, <3>2, <3>3, <3>4, ImportBounds
  <2>6. discovery'.result # "found"
    BY <1>1, <1>2, <2>1 DEF CandidatesInv
  <2>7. \A c \in candidates' : /\ c.at \in Places /\ IsTable(c.at)
                               /\ c = Candidate(c.at) /\ c.modules \in Nat \ {0}
    <3>1. ASSUME NEW c \in candidates
          PROVE  /\ c.at \in Places /\ IsTable(c.at)
                 /\ c = Candidate(c.at) /\ c.modules \in Nat \ {0}
      BY <1>1 DEF CandidatesInv, ImportTypeOK
    <3>2. ASSUME IsTable(place)
          PROVE  LET c == Candidate(place)
                 IN  /\ c.at = place /\ c.modules \in Nat \ {0}
      BY <1>1, <1>3, <3>2, TablesBeginWithAModule DEF Candidate
    <3>. QED
      BY <1>3, <2>1, <3>1, <3>2
  <2>8. ImportTypeOK'
    BY <1>1, <1>2, <2>1, <2>3, <2>4, <2>5, <2>7, ImportsStay DEF ImportTypeOK
  <2>9. \A p \in Places : p < place' /\ IsStart(p) /\ IsTable(p) => Candidate(p) \in candidates'
    <3>1. \A p \in Places : p < place' => p < place \/ p = place
      BY <1>1, <2>1, ImportBounds
    <3>. QED
      BY <1>1, <1>2, <2>1, <3>1 DEF CandidatesInv
  <2>10. CandidatesInv'
    BY <1>2, <2>1, <2>5, <2>6, <2>7, <2>9, ImportsStay DEF CandidatesInv, Candidate
  <2>. QED
    BY <2>6, <2>8, <2>10, NothingEncodedFound DEF ImportInv
<1>. QED
  BY <1>6, <1>7

LEMMA EndScanStep ==
  ASSUME ImportInv, EndScan
  PROVE  ImportInv'
<1>1. ImportTypeOK /\ CandidatesInv
  BY DEF ImportInv
<1>2. /\ doing = "scan" /\ place > Len(imports.cells) /\ doing' = "choose"
      /\ UNCHANGED <<imports, source, place, starts, parsed, candidates, discovery>>
  BY DEF EndScan
<1>3. discovery'.result # "found"
  BY <1>1, <1>2 DEF CandidatesInv
<1>4. ImportTypeOK'
  BY <1>1, <1>2, ImportsStay DEF ImportTypeOK
<1>5. CandidatesInv'
  BY <1>1, <1>2, <1>3, ImportsStay DEF CandidatesInv, Candidate
<1>. QED
  BY <1>3, <1>4, <1>5, NothingEncodedFound DEF ImportInv

\* The one longest table, of which every other is a suffix.
LEMMA ChooseTableStep ==
  ASSUME ImportInv, ChooseTable
  PROVE  ImportInv'
<1> DEFINE decided == /\ Cardinality(Longest) = 1
                      /\ \A v \in Longest : \A c \in candidates : IsSuffixOf(c, v)
           w == CHOOSE c \in Longest : TRUE
<1>1. ImportTypeOK /\ CandidatesInv
  BY DEF ImportInv
<1>2. /\ doing = "choose" /\ UNCHANGED <<imports, source, candidates>>
  BY DEF ChooseTable
<1>3. CASE ~decided
  <2>1. ScanFails
    BY <1>3 DEF ChooseTable
  <2>. QED
    BY <1>2, <2>1, ScanFailsStep
<1>4. CASE decided
  <2>1. /\ doing' = "returned" /\ discovery' = Found("EncodedLoader", w.at, w.modules)
        /\ UNCHANGED <<place, starts, parsed>>
    BY <1>4 DEF ChooseTable
  <2>2. w \in Longest
    <3>1. Longest # {}
      BY <1>4, FS_EmptySet
    <3>. QED
      BY <3>1
  <2> HIDE DEF w
  <2>3. w \in candidates /\ w.at \in Places /\ IsTable(w.at) /\ w.modules = RunLength(w.at)
    BY <1>1, <2>2 DEF CandidatesInv, Candidate, Longest
  <2>4. discovery'.result = "found" /\ discovery'.at = w.at
    BY <2>1 DEF Found
  <2>5. ASSUME NEW p \in Places, IsStart(p), IsTable(p)
        PROVE  /\ TableAt(p) \subseteq TableAt(w.at)
               /\ Row(p, RunLength(p)) = Row(w.at, RunLength(w.at))
    <3>1. p < place
      BY <1>1, <1>2, ImportBounds DEF CandidatesInv
    <3>2. Candidate(p) \in candidates
      BY <1>1, <1>2, <2>5, <3>1 DEF CandidatesInv
    <3>3. IsSuffixOf(Candidate(p), w)
      BY <1>4, <2>2, <3>2
    <3>4. RunLength(p) <= RunLength(w.at) /\ p = Row(w.at, RunLength(w.at) - RunLength(p))
      BY <2>3, <3>3 DEF IsSuffixOf, IsShorter, Candidate
    <3>. QED
      BY <1>1, <2>3, <3>4, SuffixIsInside
  <2>6. EncodedTableIsDominant'
    BY <1>2, <2>3, <2>4, <2>5, ImportsStay DEF EncodedTableIsDominant, Row
  <2>7. ImportTypeOK'
    BY <1>1, <1>2, <2>1, <2>4, ImportsStay DEF ImportTypeOK
  <2>8. CandidatesInv'
    BY <1>1, <1>2, <2>1, <2>4, ImportsStay DEF CandidatesInv, Candidate
  <2>. QED
    BY <2>6, <2>7, <2>8 DEF ImportInv
<1>. QED
  BY <1>3, <1>4

LEMMA ReadDirectoryStep ==
  ASSUME ImportInv, ReadDirectory
  PROVE  ImportInv'
<1>1. ImportTypeOK /\ CandidatesInv
  BY DEF ImportInv
<1>2. doing = "directory" /\ UNCHANGED <<imports, source, starts, candidates>>
  BY DEF ReadDirectory
<1>3. discovery.result \in {"none", "failed"}
  BY <1>1, <1>2 DEF CandidatesInv, ImportTypeOK
<1>4. \/ doing' = "returned" /\ discovery' = Failed /\ UNCHANGED <<place, parsed>>
      \/ /\ ~(parsed + 1 > MaxDescriptors) /\ doing' = "returned"
         /\ \/ discovery' = Found("Standard", 1, place - 1)
            \/ discovery' = Failed
         /\ parsed' = parsed + 1 /\ place' = place
      \/ /\ ~(parsed + 1 > MaxDescriptors) /\ ~(place > Len(Directory.rows))
         /\ place' = place + 1 /\ parsed' = parsed + 1
         /\ UNCHANGED <<doing, discovery>>
  BY DEF ReadDirectory
<1>5. Len(Directory.rows) \in 0 .. Len(imports.cells)
  BY <1>1 DEF ImportTypeOK, ImportImage, Directory
<1>6. place' \in 1 .. Len(imports.cells) + 1 /\ parsed' \in 0 .. MaxDescriptors
  <2>1. parsed \in 0 .. MaxDescriptors /\ place \in 1 .. Len(imports.cells) + 1
    BY <1>1 DEF ImportTypeOK
  <2>2. ~(parsed + 1 > MaxDescriptors) => parsed + 1 \in 0 .. MaxDescriptors
    BY <1>1, ImportBounds
  <2>3. ~(place > Len(Directory.rows)) => place + 1 \in 1 .. Len(imports.cells) + 1
    BY <1>1, <1>5, ImportBounds
  <2>. QED
    BY <1>4, <2>1, <2>2, <2>3
<1>7. /\ doing' \in {"directory", "returned"}
      /\ discovery'.result \in {"none", "failed", "found"}
      /\ discovery'.result = "found" =>
            doing' = "returned" /\ discovery'.profile = "Standard"
  BY <1>2, <1>3, <1>4 DEF Failed, Found
<1>8. ImportTypeOK'
  BY <1>1, <1>2, <1>6, <1>7, ImportsStay DEF ImportTypeOK
<1>9. CandidatesInv'
  BY <1>1, <1>2, <1>7, ImportsStay DEF CandidatesInv, Candidate
<1>10. discovery'.result = "found" => discovery'.profile # "EncodedLoader"
  BY <1>7
<1>. QED
  BY <1>8, <1>9, <1>10, NothingEncodedFound DEF ImportInv

LEMMA ImportStepsKeep ==
  ASSUME ImportInv, ImportSteps
  PROVE  ImportInv'
BY SkipPlaceStep, ScanPlaceStep, EndScanStep, ChooseTableStep, ReadDirectoryStep
   DEF ImportSteps

LEMMA ImportStutter ==
  ASSUME ImportInv, UNCHANGED importVars
  PROVE  ImportInv'
<1>1. UNCHANGED <<imports, source, doing, place, starts, parsed, candidates, discovery>>
  BY DEF importVars
<1>2. ImportTypeOK'
  BY <1>1, ImportsStay DEF ImportInv, ImportTypeOK
<1>3. CandidatesInv'
  BY <1>1, ImportsStay DEF ImportInv, CandidatesInv, Candidate
<1>4. EncodedTableIsDominant'
  BY <1>1, ImportsStay DEF ImportInv, EncodedTableIsDominant, Row
<1>. QED
  BY <1>2, <1>3, <1>4 DEF ImportInv

-----------------------------------------------------------------------------
(***************************************************************************)
(* The two stages together.                                                 *)
(***************************************************************************)
-----------------------------------------------------------------------------
(***************************************************************************)
(* The ordinary directory. The scan counts what it has charged, so a budget  *)
(* it exceeds is one the whole image exceeds; and a table that holds all      *)
(* others is the one longest of which they are suffixes, so it is chosen.      *)
(***************************************************************************)
Behind == {p \in Places : p < place}
StartsBehind == {p \in Behind : IsStart(p)}
TablesBehind == {p \in Behind : IsStart(p) /\ IsTable(p)}

BudgetInv ==
    /\ doing = "idle" => starts = 0 /\ parsed = 0
    /\ doing \in {"idle", "scan"} =>
          /\ starts = Cardinality(StartsBehind)
          /\ parsed = Cardinality(Charged(Behind))
          /\ Cardinality(candidates) = Cardinality(TablesBehind)
          /\ \A c \in candidates : c.at < place

StandardIsDue ==
    \/ source = "Standard"
    \/ source = "NativeDll" /\ EncodedIsUndecided

SourceInv ==
    /\ doing # "idle" => /\ phase = "returned" /\ profile.result = "selected"
                         /\ source = ImportProfile
    /\ doing \in {"scan", "choose"} => source # "Standard"
    /\ doing = "directory" => StandardIsDue
    /\ discovery.result = "found" /\ discovery.profile = "Standard" => StandardIsDue

\* A set with one element more.
LEMMA OneMore ==
  ASSUME NEW S, IsFiniteSet(S), NEW x, x \notin S
  PROVE  /\ IsFiniteSet(S \union {x})
         /\ Cardinality(S \union {x}) = Cardinality(S) + 1
BY FS_AddElement, Zenon

\* The numbers up to n are n.
LEMMA NumbersUpTo ==
  ASSUME NEW n \in Nat
  PROVE  IsFiniteSet(1 .. n) /\ Cardinality(1 .. n) = n
<1>1. 1 \in Int /\ n \in Int
  OBVIOUS
<1>2. IsFiniteSet(1 .. n) /\ Cardinality(1 .. n) = IF 1 > n THEN 0 ELSE n - 1 + 1
  BY <1>1, FS_Interval, Zenon
<1>3. (IF 1 > n THEN 0 ELSE n - 1 + 1) = n
  OBVIOUS
<1>. QED
  BY <1>2, <1>3

\* The places and the descriptors charged are finite sets.
LEMMA ChargesAreFinite ==
  ASSUME ImportTypeOK, NEW S \in SUBSET Places
  PROVE  IsFiniteSet(S) /\ IsFiniteSet(Charged(S))
<1>1. IsFiniteSet(Places)
  BY ImportBounds, NumbersUpTo
<1>2. IsFiniteSet(S)
  BY <1>1, FS_Subset
<1>3. \A p \in Places : Charge(p) \in 0 .. Len(imports.cells) + 1
  BY RunLengths, ImportBounds DEF Charge
<1>4. Charged(S) \in SUBSET (Places \X (1 .. Len(imports.cells) + 1))
  BY <1>3, ImportBounds DEF Charged
<1>5. IsFiniteSet(Places \X (1 .. Len(imports.cells) + 1))
  <2>1. IsFiniteSet(1 .. Len(imports.cells) + 1)
    <3>1. Len(imports.cells) + 1 \in Nat
      BY ImportBounds
    <3>. QED
      BY <3>1, NumbersUpTo
  <2>. QED
    BY <1>1, <2>1, FS_Product
<1>6. IsFiniteSet(Charged(S))
  BY <1>4, <1>5, FS_Subset
<1>. QED
  BY <1>2, <1>6

\* One more place adds what it charges.
LEMMA ChargingOneMore ==
  ASSUME ImportTypeOK, NEW S \in SUBSET Places, NEW p \in Places, p \notin S,
         NEW n \in Nat, n = IF IsParsed(p) THEN Charge(p) ELSE 0
  PROVE  Cardinality(Charged(S \union {p})) = Cardinality(Charged(S)) + n
<1>1. Charged(S \union {p}) = Charged(S) \union ({p} \X (1 .. n))
  <2>1. CASE IsParsed(p)
    <3>1. {q \in S \union {p} : IsParsed(q)} = {q \in S : IsParsed(q)} \union {p}
      BY <2>1
    <3>. QED
      BY <2>1, <3>1, Zenon DEF Charged
  <2>2. CASE ~IsParsed(p)
    <3>1. {q \in S \union {p} : IsParsed(q)} = {q \in S : IsParsed(q)}
      BY <2>2
    <3>2. {p} \X (1 .. n) = {}
      BY <2>2
    <3>. QED
      BY <3>1, <3>2 DEF Charged
  <2>. QED
    BY <2>1, <2>2
<1>2. Charged(S) \intersect ({p} \X (1 .. n)) = {}
  BY DEF Charged
<1>3. IsFiniteSet({p} \X (1 .. n)) /\ Cardinality({p} \X (1 .. n)) = n
  <2>1. IsFiniteSet(1 .. n) /\ Cardinality(1 .. n) = n
    BY NumbersUpTo
  <2>2. IsFiniteSet({p}) /\ Cardinality({p}) = 1
    BY FS_Singleton
  <2>3. /\ IsFiniteSet({p} \X (1 .. n))
        /\ Cardinality({p} \X (1 .. n)) = Cardinality({p}) * Cardinality(1 .. n)
    BY <2>1, <2>2, FS_Product, Zenon
  <2>. QED
    BY <2>1, <2>2, <2>3
<1>4. IsFiniteSet(Charged(S)) /\ Cardinality(Charged(S)) \in Nat
  BY ChargesAreFinite, FS_CardinalityType
<1>5. Cardinality(Charged(S) \intersect ({p} \X (1 .. n))) = 0
  BY <1>2, FS_EmptySet
<1> DEFINE A == Charged(S)
           B == {p} \X (1 .. n)
<1>6. Cardinality(A \union B) = Cardinality(A) + Cardinality(B) - Cardinality(A \intersect B)
  BY <1>3, <1>4, FS_Union
<1> HIDE DEF A, B
<1>7. Cardinality(A \union B) = Cardinality(A) + n - 0
  BY <1>3, <1>5, <1>6 DEF A, B
<1>. QED
  BY <1>1, <1>4, <1>7 DEF A, B

\* Charging more places charges no less.
LEMMA ChargingIsMonotonic ==
  ASSUME ImportTypeOK, NEW S \in SUBSET Places
  PROVE  Cardinality(Charged(S)) <= Cardinality(Charged(Places))
<1>1. Charged(S) \in SUBSET Charged(Places)
  BY DEF Charged
<1>. QED
  BY <1>1, ChargesAreFinite, FS_Subset

\* The same image charges the same and leaves the same undecided.
LEMMA ChargesStay ==
  ASSUME imports' = imports
  PROVE  /\ \A p : IsParsed(p)' = IsParsed(p) /\ Charge(p)' = Charge(p)
         /\ \A S : Charged(S)' = Charged(S)
         /\ TableStarts' = TableStarts
         /\ EncodedIsUndecided' <=> EncodedIsUndecided
<1>1. \A p : IsParsed(p)' = IsParsed(p) /\ Charge(p)' = Charge(p)
  BY ImportsStay DEF IsParsed, Charge, RunEnd, Row
<1>2. \A S : Charged(S)' = Charged(S)
  BY <1>1 DEF Charged
<1>3. TableStarts' = TableStarts
  BY ImportsStay DEF TableStarts
<1>4. \A p \in Places : TableAt(p)' = TableAt(p)
  BY ImportsStay
<1>5. {p \in Places : IsStart(p)}' = {p \in Places : IsStart(p)}
  BY ImportsStay
<1>6. Charged(Places)' = Charged(Places)
  BY <1>1, ImportsStay DEF Charged
<1>7. (~\E p \in TableStarts : \A q \in TableStarts : TableAt(q) \subseteq TableAt(p))'
      <=> ~\E p \in TableStarts : \A q \in TableStarts : TableAt(q) \subseteq TableAt(p)
  BY <1>3, ImportsStay
<1>8. EncodedIsUndecided' <=> EncodedIsUndecided
  BY <1>3, <1>5, <1>6, <1>7 DEF EncodedIsUndecided
<1>. QED
  BY <1>1, <1>2, <1>3, <1>8

\* A table inside another has its last rows: only the null descriptors that end
\* them hold no module, so they are the same one.
LEMMA InsideIsSuffix ==
  ASSUME ImportTypeOK, NEW w \in Places, NEW p \in Places, IsTable(w), IsTable(p),
         TableAt(p) \subseteq TableAt(w)
  PROVE  /\ RunLength(p) <= RunLength(w)
         /\ p = Row(w, RunLength(w) - RunLength(p))
<1> DEFINE m == RunLength(w)
           n == RunLength(p)
           e == Row(w, m)
           f == Row(p, n)
           W == Width
<1>1. m \in Nat /\ n \in Nat /\ W \in Nat \ {0} /\ w \in Nat /\ p \in Nat
  BY RunLengths, ImportBounds, ImportBoundsAreNatural
<1>2. /\ Descriptor(e) = "null" /\ Descriptor(f) = "null"
      /\ \A i \in 0 .. m - 1 : Descriptor(Row(w, i)) = "module"
  BY RunLengths DEF IsTable, RunEnd
<1>3. TableAt(w) = UNION {Span(Row(w, i)) : i \in 0 .. m}
  BY DEF TableAt
<1>4. TableAt(p) = UNION {Span(Row(p, i)) : i \in 0 .. n}
  BY DEF TableAt
<1>5. e = w + m * W /\ f = p + n * W
  BY DEF Row
<1> HIDE DEF m, n, e, f, W
<1>6. \A x : Descriptor(x) = "null" => \A c \in Span(x) : imports.cells[c] = "zero"
  BY DEF Descriptor
<1>7. \A x : Descriptor(x) = "module" => \A c \in Span(x) : imports.cells[c] # "zero"
  BY DEF Descriptor
<1>8. \A c \in Span(f) : c \in Span(e)
  <2> SUFFICES ASSUME NEW c \in Span(f)
               PROVE  c \in Span(e)
    OBVIOUS
  <2>1. c \in TableAt(p)
    <3>1. n \in 0 .. n
      BY <1>1
    <3>. QED
      BY <1>4, <3>1 DEF f
  <2>2. PICK i \in 0 .. m : c \in Span(Row(w, i))
    BY <1>3, <2>1
  <2>3. imports.cells[c] = "zero"
    BY <1>2, <1>6
  <2>4. ~(i \in 0 .. m - 1)
    BY <1>2, <1>7, <2>2, <2>3
  <2>5. i = m
    BY <1>1, <2>4
  <2>. QED
    BY <2>2, <2>5 DEF e
<1>9. e \in Nat /\ f \in Nat
  <2>1. \A a, b, d \in Nat : a + b * d \in Nat
    OBVIOUS
  <2>. QED
    BY <1>1, <1>5, <2>1
<1>10. e = f
  <2>1. \A x \in Nat : Span(x) = x .. x + W - 1
    BY DEF Span, W
  <2>2. f \in Span(f) /\ f + W - 1 \in Span(f)
    BY <1>1, <1>9, <2>1
  <2>3. f \in Span(e) /\ f + W - 1 \in Span(e)
    BY <1>8, <2>2
  <2>4. f >= e /\ f + W - 1 <= e + W - 1
    BY <1>1, <1>9, <2>1, <2>3
  <2>. QED
    BY <1>1, <1>9, <2>4
<1>11. p >= w
  <2>1. \A x \in Nat : x \in Span(x)
    BY <1>1 DEF Span, W
  <2>2. Row(p, 0) = p /\ 0 \in 0 .. n
    BY <1>1 DEF Row, W
  <2>3. p \in TableAt(w)
    BY <1>1, <1>4, <2>1, <2>2
  <2>4. PICK i \in 0 .. m : p \in Span(Row(w, i))
    BY <1>3, <2>3
  <2>5. i \in Nat /\ \A a, b, d \in Nat : a + b * d \in Nat /\ a + b * d >= a
    BY <1>1
  <2>6. w + i * W \in Nat /\ w + i * W >= w
    BY <1>1, <2>5
  <2>7. \A x \in Nat : p \in Span(x) => p >= x
    BY <1>1 DEF Span, W
  <2>8. Row(w, i) = w + i * W
    BY DEF Row, W
  <2>9. p >= w + i * W
    BY <2>4, <2>6, <2>7, <2>8
  <2>. QED
    BY <1>1, <2>6, <2>9
<1>12. n <= m
  <2>1. SUFFICES ASSUME ~(n <= m)
                 PROVE  FALSE
    OBVIOUS
  <2>2. PICK d \in Nat \ {0} : n = m + d
    <3>1. n - m \in Nat \ {0} /\ n = m + (n - m)
      BY <1>1, <2>1
    <3>. QED
      BY <3>1
  <2>3. \A a, b \in Nat, k \in Nat \ {0} : (a + b) * k = a * k + b * k
    OBVIOUS
  <2>4. \A b, k \in Nat \ {0} : b * k >= 1
    OBVIOUS
  <2>5. n * W = m * W + d * W /\ d * W >= 1 /\ d * W \in Nat /\ m * W \in Nat
    BY <1>1, <2>2, <2>3, <2>4
  <2>6. p + (m * W + d * W) = w + m * W
    BY <1>5, <1>10, <2>5
  <2>7. \A x, y \in Nat : p + (x + y) = w + x /\ y >= 1 => p < w
    BY <1>1
  <2>8. p < w
    BY <2>5, <2>6, <2>7
  <2>. QED
    BY <1>1, <1>11, <2>8
<1>13. p = w + (m - n) * W
  <2>1. PICK d \in Nat : m = n + d /\ m - n = d
    <3>1. m - n \in Nat /\ m = n + (m - n)
      BY <1>1, <1>12
    <3>. QED
      BY <3>1
  <2>2. \A a, b \in Nat, k \in Nat \ {0} : (a + b) * k = a * k + b * k
    OBVIOUS
  <2>3. m * W = n * W + d * W /\ d * W \in Nat /\ n * W \in Nat
    BY <1>1, <2>1, <2>2
  <2>4. p + n * W = w + (n * W + d * W)
    BY <1>5, <1>10, <2>3
  <2>5. \A x, y \in Nat : p + x = w + (x + y) => p = w + y
    BY <1>1
  <2>6. p = w + d * W
    BY <2>3, <2>4, <2>5
  <2>. QED
    BY <2>1, <2>6
<1>. QED
  BY <1>12, <1>13 DEF m, n, W, Row

\* A budget that the scan exceeds at a place is exceeded by the whole image.
LEMMA OverBudgetIsUndecided ==
  ASSUME ImportInv, BudgetInv, doing = "scan", place \in Places, IsStart(place),
         NEW charge \in Nat,
         charge = IF Descriptor(place) = "null" THEN 0 ELSE Charge(place),
         OverBudget(charge, Descriptor(place) # "null" /\ IsTable(place))
  PROVE  EncodedIsUndecided
<1>1. ImportTypeOK /\ place \in Nat
  BY ImportBounds DEF ImportInv
<1>2. Behind \in SUBSET Places /\ place \notin Behind /\ IsFiniteSet(Places)
  BY <1>1, ChargesAreFinite DEF Behind
<1>3. CASE starts + 1 > MaxStarts
  <2> DEFINE all == {p \in Places : IsStart(p)}
  <2>1. IsFiniteSet(all) /\ StartsBehind \union {place} \in SUBSET all
    BY <1>2, FS_Subset DEF StartsBehind
  <2>2. IsFiniteSet(StartsBehind) /\ place \notin StartsBehind
    BY <1>2, FS_Subset DEF StartsBehind
  <2>3. Cardinality(StartsBehind \union {place}) = starts + 1
    <3>1. Cardinality(StartsBehind) = starts
      BY DEF BudgetInv
    <3>. QED
      BY <2>2, <3>1, OneMore, Zenon
  <2>4. Cardinality(StartsBehind \union {place}) <= Cardinality(all)
    BY <2>1, FS_Subset
  <2>5. Cardinality(all) \in Nat
    BY <2>1, FS_CardinalityType
  <2>6. Cardinality(all) > MaxStarts
    BY <1>1, <1>3, <2>3, <2>4, <2>5, ImportBounds
  <2>. QED
    BY <2>6 DEF EncodedIsUndecided
<1>4. CASE parsed + charge > MaxDescriptors
  <2>1. charge = IF IsParsed(place) THEN Charge(place) ELSE 0
    BY DEF IsParsed
  <2>2. Cardinality(Charged(Behind \union {place})) = parsed + charge
    BY <1>1, <1>2, <2>1, ChargingOneMore DEF BudgetInv
  <2>3. Behind \union {place} \in SUBSET Places
    BY <1>2
  <2>4. parsed + charge <= Cardinality(Charged(Places))
    BY <1>1, <2>2, <2>3, ChargingIsMonotonic
  <2>5. Cardinality(Charged(Places)) \in Nat
    BY <1>1, ChargesAreFinite, FS_CardinalityType
  <2>6. Cardinality(Charged(Places)) > MaxDescriptors
    BY <1>1, <1>4, <2>4, <2>5, ImportBounds
  <2>. QED
    BY <2>6 DEF EncodedIsUndecided
<1>5. CASE IsTable(place) /\ Cardinality(candidates) + 1 > MaxCandidates
  <2>1. IsFiniteSet(TableStarts) /\ TablesBehind \union {place} \in SUBSET TableStarts
    BY <1>2, <1>5, FS_Subset DEF TablesBehind, TableStarts
  <2>2. IsFiniteSet(TablesBehind) /\ place \notin TablesBehind
    BY <1>2, FS_Subset DEF TablesBehind
  <2>3. Cardinality(TablesBehind \union {place}) = Cardinality(candidates) + 1
    <3>1. Cardinality(TablesBehind) = Cardinality(candidates)
      BY DEF BudgetInv
    <3>. QED
      BY <2>2, <3>1, OneMore, Zenon
  <2>4. Cardinality(TablesBehind \union {place}) <= Cardinality(TableStarts)
    BY <2>1, FS_Subset
  <2>5. Cardinality(TableStarts) \in Nat /\ Cardinality(candidates) \in Nat
    BY <2>1, FS_CardinalityType DEF ImportInv, CandidatesInv
  <2>6. Cardinality(TableStarts) > MaxCandidates
    BY <1>1, <1>5, <2>3, <2>4, <2>5, ImportBounds
  <2>. QED
    BY <2>6 DEF EncodedIsUndecided
<1>. QED
  BY <1>3, <1>4, <1>5 DEF OverBudget, OverParsed

\* Where one table holds all others it is the one longest, and they its suffixes.
LEMMA DecidedIsChosen ==
  ASSUME ImportInv, doing = "choose", ~EncodedIsUndecided
  PROVE  /\ Cardinality(Longest) = 1
         /\ \A v \in Longest : \A c \in candidates : IsSuffixOf(c, v)
<1>1. ImportTypeOK /\ CandidatesInv
  BY DEF ImportInv
<1>2. PICK w \in TableStarts : \A q \in TableStarts : TableAt(q) \subseteq TableAt(w)
  BY DEF EncodedIsUndecided
<1>3. w \in Places /\ IsStart(w) /\ IsTable(w)
  BY DEF TableStarts
<1>4. Candidate(w) \in candidates
  BY <1>1, <1>3, ImportBounds DEF CandidatesInv
<1>5. ASSUME NEW c \in candidates
      PROVE  /\ c = Candidate(c.at) /\ c.at \in Places /\ c.modules = RunLength(c.at)
             /\ RunLength(c.at) <= RunLength(w)
             /\ c.at = Row(w, RunLength(w) - RunLength(c.at))
  <2>1. c = Candidate(c.at) /\ c.at \in Places /\ IsTable(c.at)
    BY <1>1 DEF CandidatesInv
  <2>2. IsStart(c.at)
    BY <1>1, <2>1, TablesBeginWithAModule DEF IsStart, Descriptor
  <2>3. TableAt(c.at) \subseteq TableAt(w)
    BY <1>2, <2>1, <2>2 DEF TableStarts
  <2>4. /\ RunLength(c.at) <= RunLength(w)
        /\ c.at = Row(w, RunLength(w) - RunLength(c.at))
    BY <1>1, <1>3, <2>1, <2>3, InsideIsSuffix
  <2>. QED
    BY <2>1, <2>4 DEF Candidate
<1>6. Candidate(w).at = w /\ Candidate(w).modules = RunLength(w)
  BY DEF Candidate
<1>7. \A c \in candidates : IsSuffixOf(c, Candidate(w))
  BY <1>5, <1>6 DEF IsSuffixOf, IsShorter
<1>8. Longest = {Candidate(w)}
  <2>1. Candidate(w) \in Longest
    BY <1>4, <1>5, <1>6 DEF Longest
  <2>2. ASSUME NEW c \in Longest
        PROVE  c = Candidate(w)
    <3>1. c \in candidates /\ RunLength(w) <= RunLength(c.at)
      BY <1>4, <1>5, <1>6 DEF Longest
    <3>2. RunLength(c.at) = RunLength(w)
      BY <1>1, <1>3, <1>5, <3>1, RunLengths, ImportBounds
    <3>3. c.at = w
      BY <1>1, <1>3, <1>5, <3>1, <3>2, RunLengths, ImportBounds, ImportBoundsAreNatural DEF Row
    <3>. QED
      BY <1>5, <3>1, <3>3
  <2>. QED
    BY <2>1, <2>2
<1>. QED
  BY <1>7, <1>8, FS_Singleton

\* The budgets through one step of the import stage.
LEMMA BudgetSteps ==
  ASSUME ImportInv, BudgetInv, ImportSteps
  PROVE  BudgetInv'
<1>1. ImportTypeOK /\ CandidatesInv /\ place \in Nat /\ imports' = imports
  BY ImportBounds
     DEF ImportInv, ImportSteps, SkipPlace, ScanPlace, EndScan, ChooseTable, ReadDirectory
<1>2. CASE doing' \notin {"idle", "scan"}
  BY <1>2 DEF BudgetInv
<1>3. ASSUME doing = "scan", place \in Places, doing' = "scan", place' = place + 1,
             NEW charge \in Nat,
             charge = IF IsParsed(place) THEN Charge(place) ELSE 0,
             parsed' = parsed + charge,
             starts' = starts + (IF IsStart(place) THEN 1 ELSE 0),
             candidates' = IF IsStart(place) /\ IsTable(place)
                           THEN candidates \union {Candidate(place)} ELSE candidates
      PROVE  BudgetInv'
  <2>1. Behind' = Behind \union {place}
    <3>1. \A p \in Places : p < place' <=> p < place \/ p = place
      BY <1>1, <1>3, ImportBounds
    <3>. QED
      BY <1>1, <1>3, <3>1, ImportsStay DEF Behind
  <2>2. Behind \in SUBSET Places /\ place \notin Behind /\ IsFiniteSet(Behind)
    BY <1>1, ChargesAreFinite DEF Behind
  <2>3. parsed' = Cardinality(Charged(Behind))'
    <3>1. Cardinality(Charged(Behind \union {place})) = parsed + charge
      BY <1>1, <1>3, <2>2, ChargingOneMore DEF BudgetInv
    <3>2. Charged(Behind)' = Charged(Behind \union {place})
      BY <1>1, <2>1, ChargesStay DEF Charged
    <3>. QED
      BY <1>3, <3>1, <3>2
  <2>4. starts' = Cardinality(StartsBehind)'
    <3>1. StartsBehind' = IF IsStart(place) THEN StartsBehind \union {place} ELSE StartsBehind
      BY <1>1, <2>1, ImportsStay DEF StartsBehind
    <3>2. IsFiniteSet(StartsBehind) /\ place \notin StartsBehind
      BY <2>2, FS_Subset DEF StartsBehind
    <3>3. starts = Cardinality(StartsBehind) /\ starts \in Nat
      BY <1>1, <1>3, ImportBounds DEF BudgetInv
    <3>4. Cardinality(StartsBehind \union {place}) = starts + 1
      BY <3>2, <3>3, OneMore, Zenon
    <3>. QED
      BY <1>3, <3>1, <3>3, <3>4
  <2>5. Cardinality(candidates)' = Cardinality(TablesBehind)'
    <3>1. TablesBehind' = IF IsStart(place) /\ IsTable(place)
                          THEN TablesBehind \union {place} ELSE TablesBehind
      BY <1>1, <2>1, ImportsStay DEF TablesBehind
    <3>2. IsFiniteSet(TablesBehind) /\ place \notin TablesBehind
      BY <2>2, FS_Subset DEF TablesBehind
    <3>3. IsFiniteSet(candidates) /\ Candidate(place) \notin candidates
      BY <1>1, <1>3 DEF CandidatesInv, BudgetInv, Candidate
    <3>4. /\ Cardinality(TablesBehind \union {place}) = Cardinality(TablesBehind) + 1
          /\ Cardinality(candidates \union {Candidate(place)}) = Cardinality(candidates) + 1
          /\ Cardinality(candidates) = Cardinality(TablesBehind)
      BY <1>3, <3>2, <3>3, OneMore DEF BudgetInv
    <3>. QED
      BY <1>3, <3>1, <3>4
  <2>6. \A c \in candidates' : c.at < place'
    <3>1. \A c \in candidates : c.at < place /\ c.at \in Places
      BY <1>1, <1>3 DEF BudgetInv, CandidatesInv
    <3>2. \A x \in Places : x < place => x < place'
      BY <1>1, <1>3, ImportBounds
    <3>3. Candidate(place).at < place'
      BY <1>1, <1>3 DEF Candidate
    <3>. QED
      BY <1>3, <3>1, <3>2, <3>3
  <2>. QED
    BY <1>3, <2>3, <2>4, <2>5, <2>6 DEF BudgetInv
<1>4. CASE SkipPlace
  <2>1. /\ doing = "scan" /\ doing' = "scan" /\ place \in Places /\ ~IsStart(place)
        /\ place' = place + 1 /\ UNCHANGED <<starts, parsed, candidates>>
    BY <1>1, <1>4, ImportBounds DEF SkipPlace, ImportTypeOK
  <2>2. ~IsParsed(place)
    BY <2>1 DEF IsParsed
  <2>3. parsed' = parsed + 0 /\ starts' = starts + 0 /\ 0 \in Nat
    BY <1>1, <2>1, ImportBounds
  <2>. QED
    BY <1>3, <2>1, <2>2, <2>3
<1>5. CASE ScanPlace
  <2> DEFINE charge == IF Descriptor(place) = "null" THEN 0 ELSE Charge(place)
             finds == Descriptor(place) # "null" /\ IsTable(place)
  <2>1. doing = "scan" /\ place \in Places /\ IsStart(place)
    BY <1>1, <1>5, ImportBounds DEF ScanPlace, ImportTypeOK
  <2>2. finds <=> IsTable(place)
    BY <1>1, <2>1, TablesBeginWithAModule
  <2>3. charge \in Nat /\ charge = IF IsParsed(place) THEN Charge(place) ELSE 0
    BY <1>1, <2>1, RunLengths DEF Charge, IsParsed
  <2>4. CASE OverBudget(charge, finds)
    <3>1. ScanFails
      BY <1>5, <2>4 DEF ScanPlace
    <3>. QED
      BY <1>2, <3>1 DEF ScanFails
  <2>5. CASE ~OverBudget(charge, finds)
    <3>1. /\ starts' = starts + 1 /\ parsed' = parsed + charge /\ place' = place + 1
          /\ candidates' = IF IsTable(place) THEN candidates \union {Candidate(place)}
                                             ELSE candidates
          /\ doing' = doing
      BY <1>5, <2>2, <2>5 DEF ScanPlace, Candidate
    <3> HIDE DEF charge, finds
    <3>. QED
      BY <1>3, <2>1, <2>3, <3>1
  <2>. QED
    BY <2>4, <2>5
<1>6. CASE EndScan \/ ChooseTable \/ ReadDirectory
  <2>1. doing' \notin {"idle", "scan"}
    BY <1>6 DEF EndScan, ChooseTable, ScanFails, ReadDirectory
  <2>. QED
    BY <1>2, <2>1
<1>. QED
  BY <1>4, <1>5, <1>6 DEF ImportSteps

LEMMA StartupStutter ==
  ASSUME StartupInv, UNCHANGED startupVars
  PROVE  StartupInv'
<1>1. UNCHANGED <<image, decoded, phase, step, untried, answer, successes, profile>>
  BY DEF startupVars
<1>2. StartupTypeOK' /\ ImageIsAsReported'
  BY <1>1 DEF StartupInv, StartupTypeOK, ImageIsAsReported
<1>3. PhaseInv'
  BY <1>1, ImageStays DEF StartupInv, PhaseInv, Searching, Trials
<1>4. DecodedInv'
  BY <1>1 DEF StartupInv, DecodedInv, Trying
<1>5. SuccessInv'
  BY <1>1, ImageStays DEF StartupInv, SuccessInv, Trials, Searching, Shown
<1>6. AnswerInv'
  BY <1>1 DEF StartupInv, AnswerInv, Trying, Shown
<1>7. SelectedEntryIsAlone'
  BY <1>1, ImageStays DEF StartupInv, SelectedEntryIsAlone, SparseEntry, View, PageKeys
<1>8. SparseImageIsRecovered'
  BY <1>1, ImageStays DEF StartupInv, SparseImageIsRecovered, SparseEntry, PageKeys
<1>. QED
  BY <1>2, <1>3, <1>4, <1>5, <1>6, <1>7, <1>8 DEF StartupInv

LEMMA StartupStepsKeep ==
  ASSUME StartupInv, StartupNext
  PROVE  StartupInv'
BY SelectLibraryOrManagedStep, SelectNativeStep, LookAtRawStep, ListSparseProfilesStep,
   DecodeProfileStep, LookAtDecodedStep, RestoreImageStep, ChooseProfileStep
   DEF StartupNext

\* What the directory is read for, through one step of the import stage.
LEMMA SourceSteps ==
  ASSUME ImportInv, BudgetInv, SourceInv, ImportSteps, UNCHANGED startupVars
  PROVE  SourceInv'
<1>1. ImportTypeOK /\ CandidatesInv /\ imports' = imports /\ source' = source /\ doing # "idle"
  BY DEF ImportInv, ImportSteps, SkipPlace, ScanPlace, EndScan, ChooseTable, ReadDirectory
<1>2. StandardIsDue' <=> StandardIsDue
  BY <1>1, ChargesStay DEF StandardIsDue
<1>3. phase' = "returned" /\ profile'.result = "selected" /\ source' = ImportProfile'
  BY <1>1 DEF SourceInv, startupVars, ImportProfile
<1>4. ASSUME doing \in {"scan", "choose"}, ScanFails, EncodedIsUndecided
      PROVE  SourceInv'
  <2>1. discovery.result # "found" /\ source # "Standard"
    BY <1>1, <1>4 DEF CandidatesInv, SourceInv
  <2>2. /\ doing' \in {"directory", "returned"} /\ discovery' \in {discovery, Failed}
        /\ doing' = "directory" => source = "NativeDll"
    BY <1>4 DEF ScanFails
  <2>3. discovery'.result # "found"
    BY <2>1, <2>2 DEF Failed
  <2>4. doing' = "directory" => StandardIsDue
    BY <1>4, <2>2 DEF StandardIsDue
  <2>. QED
    BY <1>2, <1>3, <2>2, <2>3, <2>4 DEF SourceInv
<1>5. ASSUME doing' \in {doing, "choose"}, doing = "scan", UNCHANGED discovery
      PROVE  SourceInv'
  BY <1>1, <1>2, <1>3, <1>5 DEF SourceInv
<1>6. CASE SkipPlace \/ EndScan
  BY <1>5, <1>6 DEF SkipPlace, EndScan
<1>7. CASE ScanPlace
  <2> DEFINE charge == IF Descriptor(place) = "null" THEN 0 ELSE Charge(place)
             finds == Descriptor(place) # "null" /\ IsTable(place)
  <2>1. doing = "scan" /\ place \in Places /\ IsStart(place)
    BY <1>1, <1>7, ImportBounds DEF ScanPlace, ImportTypeOK
  <2>2. charge \in Nat
    BY <1>1, <2>1, RunLengths DEF Charge
  <2>3. CASE OverBudget(charge, finds)
    <3>1. ScanFails
      BY <1>7, <2>3 DEF ScanPlace
    <3>2. EncodedIsUndecided
      BY <2>1, <2>2, <2>3, OverBudgetIsUndecided
    <3>. QED
      BY <1>4, <2>1, <3>1, <3>2
  <2>4. CASE ~OverBudget(charge, finds)
    <3>1. UNCHANGED <<doing, discovery>>
      BY <1>7, <2>4 DEF ScanPlace
    <3>. QED
      BY <1>5, <2>1, <3>1
  <2>. QED
    BY <2>3, <2>4
<1>8. CASE ChooseTable
  <2> DEFINE decided == /\ Cardinality(Longest) = 1
                        /\ \A v \in Longest : \A c \in candidates : IsSuffixOf(c, v)
             w == CHOOSE c \in Longest : TRUE
  <2>1. doing = "choose"
    BY <1>8 DEF ChooseTable
  <2>2. CASE ~decided
    <3>1. ScanFails
      BY <1>8, <2>2 DEF ChooseTable
    <3>2. EncodedIsUndecided
      BY <2>1, <2>2, DecidedIsChosen
    <3>. QED
      BY <1>4, <2>1, <3>1, <3>2
  <2>3. CASE decided
    <3>1. doing' = "returned" /\ discovery' = Found("EncodedLoader", w.at, w.modules)
      BY <1>8, <2>3 DEF ChooseTable
    <3> HIDE DEF w
    <3>2. discovery'.profile # "Standard"
      BY <3>1 DEF Found
    <3>. QED
      BY <1>3, <3>1, <3>2 DEF SourceInv
  <2>. QED
    BY <2>2, <2>3
<1>9. CASE ReadDirectory
  <2>1. StandardIsDue /\ doing' \in {"directory", "returned"}
    BY <1>9 DEF ReadDirectory, SourceInv
  <2>. QED
    BY <1>2, <1>3, <2>1 DEF SourceInv
<1>. QED
  BY <1>6, <1>7, <1>8, <1>9 DEF ImportSteps

\* Import recovery starts once, by the profile the entry asks for.
LEMMA DiscoverImportsKeeps ==
  ASSUME ImportInv, BudgetInv, DiscoverImports
  PROVE  BudgetInv' /\ SourceInv'
<1>1. /\ phase = "returned" /\ profile.result = "selected" /\ doing = "idle"
      /\ source' = ImportProfile
      /\ doing' = IF ImportProfile = "Standard" THEN "directory" ELSE "scan"
      /\ UNCHANGED <<imports, place, starts, parsed, candidates, discovery>>
      /\ UNCHANGED startupVars
  BY DEF DiscoverImports, StartImports
<1>2. discovery.result # "found"
  BY <1>1 DEF ImportInv, CandidatesInv
<1>3. Behind' = Behind
  BY <1>1, ImportsStay DEF Behind
<1>4. StartsBehind' = StartsBehind /\ TablesBehind' = TablesBehind
  BY <1>1, <1>3, ImportsStay DEF StartsBehind, TablesBehind
<1>5. Charged(Behind)' = Charged(Behind)
  BY <1>1, <1>3, ChargesStay DEF Charged
<1>6. BudgetInv'
  BY <1>1, <1>3, <1>4, <1>5 DEF BudgetInv
<1>7. ImportProfile' = ImportProfile
  BY <1>1 DEF ImportProfile, startupVars
<1>8. phase' = "returned" /\ profile'.result = "selected"
  BY <1>1 DEF startupVars
<1>9. SourceInv'
  BY <1>1, <1>2, <1>7, <1>8 DEF SourceInv, StandardIsDue
<1>. QED
  BY <1>6, <1>9

\* No step of startup selection follows its return, nor changes the imports.
LEMMA OtherStepsKeepTheSource ==
  ASSUME BudgetInv, SourceInv, UNCHANGED importVars,
         \/ PhaseInv /\ StartupNext
         \/ UNCHANGED startupVars
  PROVE  BudgetInv' /\ SourceInv'
<1>1. UNCHANGED <<imports, source, doing, place, starts, parsed, candidates, discovery>>
  BY DEF importVars
<1>2. Behind' = Behind
  BY <1>1, ImportsStay DEF Behind
<1>3. StartsBehind' = StartsBehind /\ TablesBehind' = TablesBehind
  BY <1>1, <1>2, ImportsStay DEF StartsBehind, TablesBehind
<1>4. Charged(Behind)' = Charged(Behind)
  BY <1>1, <1>2, ChargesStay DEF Charged
<1>5. BudgetInv'
  BY <1>1, <1>2, <1>3, <1>4 DEF BudgetInv
<1>6. StandardIsDue' <=> StandardIsDue
  BY <1>1, ChargesStay DEF StandardIsDue
<1>7. phase # "returned" \/ UNCHANGED startupVars
  BY DEF PhaseInv, Searching, StartupNext, SelectLibraryOrManaged, SelectNative, LookAtRaw,
         ListSparseProfiles, DecodeProfile, LookAtDecoded, RestoreImage, ChooseProfile
<1>8. doing # "idle" => UNCHANGED startupVars
  BY <1>7 DEF SourceInv
<1>9. doing # "idle" => /\ phase' = "returned" /\ profile'.result = "selected"
                        /\ source' = ImportProfile'
  BY <1>1, <1>8 DEF SourceInv, startupVars, ImportProfile
<1>10. SourceInv'
  BY <1>1, <1>6, <1>9 DEF SourceInv
<1>. QED
  BY <1>5, <1>10

IInv == StartupInv /\ ImportInv /\ BudgetInv /\ SourceInv

LEMMA InitEstablishes == RecoveryInit => IInv
<1> SUFFICES ASSUME RecoveryInit
             PROVE  IInv
  OBVIOUS
<1>1. StartupImage(image) /\ ImportImage(imports)
  BY InputsAreTyped DEF RecoveryInit
<1>2. /\ decoded = {} /\ phase = "select" /\ step = "raw" /\ untried = {}
      /\ successes = <<>> /\ profile = NoProfile
  BY DEF RecoveryInit, StartupInit
<1>3. Len(successes) = 0 /\ Profiles \in Nat /\ profile.result = "none"
  BY <1>2, KeysAreKeys DEF NoProfile
<1>4. StartupTypeOK
  BY <1>1, <1>2, <1>3 DEF StartupTypeOK
<1>5. PhaseInv /\ DecodedInv /\ SuccessInv /\ AnswerInv
  BY <1>2 DEF PhaseInv, DecodedInv, SuccessInv, AnswerInv, Trials, Searching
<1>6. ImageIsAsReported /\ SelectedEntryIsAlone /\ SparseImageIsRecovered
  BY <1>2, <1>3 DEF ImageIsAsReported, SelectedEntryIsAlone, SparseImageIsRecovered
<1>7. /\ source = "none" /\ doing = "idle" /\ place = 1 /\ starts = 0 /\ parsed = 0
      /\ candidates = {} /\ discovery.result = "none"
  BY DEF RecoveryInit, ImportInit
<1>8. ImportTypeOK
  <2>1. Len(imports.cells) \in Nat
    BY <1>1 DEF ImportImage
  <2>2. 1 \in 1 .. Len(imports.cells) + 1 /\ 0 \in 0 .. MaxStarts /\ 0 \in 0 .. MaxDescriptors
    BY <2>1, ImportBoundsAreNatural
  <2>3. Cardinality(candidates) <= MaxCandidates
    BY <1>7, FS_EmptySet, ImportBoundsAreNatural
  <2>. QED
    BY <1>1, <1>7, <2>2, <2>3 DEF ImportTypeOK
<1>9. CandidatesInv /\ EncodedTableIsDominant
  BY <1>7, FS_EmptySet DEF CandidatesInv, EncodedTableIsDominant
<1>10. BudgetInv /\ SourceInv
  <2>1. \A p \in Places : ~(p < place)
    BY <1>7, <1>8, ImportBounds
  <2>2. StartsBehind = {} /\ TablesBehind = {}
    BY <2>1 DEF Behind, StartsBehind, TablesBehind
  <2>3. Charged(Behind) = {}
    BY <2>1 DEF Behind, Charged
  <2>. QED
    BY <1>7, <2>2, <2>3, FS_EmptySet DEF BudgetInv, SourceInv
<1>. QED
  BY <1>4, <1>5, <1>6, <1>8, <1>9, <1>10 DEF IInv, StartupInv, ImportInv

LEMMA ImportProfiles == ImportProfile \in {"EncodedLoader", "Standard", "NativeDll"}
<1>1. CASE profile.entry.kind \in {"ManagedDll", "ManagedExe"}
  <2>1. profile.entry.kind # "NativeDll"
    BY <1>1
  <2>. QED
    BY <1>1, <2>1, Zenon DEF ImportProfile
<1>2. CASE profile.entry.kind \notin {"ManagedDll", "ManagedExe"}
  BY <1>2, Zenon DEF ImportProfile
<1>. QED
  BY <1>1, <1>2

LEMMA NextPreserves == IInv /\ [RecoveryNext]_recoveryVars => IInv'
<1> SUFFICES ASSUME IInv, [RecoveryNext]_recoveryVars
             PROVE  IInv'
  OBVIOUS
<1>1. StartupInv /\ ImportInv /\ BudgetInv /\ SourceInv /\ PhaseInv
  BY DEF IInv, StartupInv
<1>2. CASE StartupNext /\ UNCHANGED importVars
  BY <1>1, <1>2, StartupStepsKeep, ImportStutter, OtherStepsKeepTheSource DEF IInv
<1>3. CASE DiscoverImports
  <2>1. StartImports(ImportProfile) /\ UNCHANGED startupVars
    BY <1>3 DEF DiscoverImports
  <2>2. BudgetInv' /\ SourceInv'
    BY <1>1, <1>3, DiscoverImportsKeeps
  <2>. QED
    BY <1>1, <2>1, <2>2, ImportProfiles, StartImportsStep, StartupStutter DEF IInv
<1>4. CASE ImportSteps /\ UNCHANGED startupVars
  BY <1>1, <1>4, ImportStepsKeep, StartupStutter, BudgetSteps, SourceSteps DEF IInv
<1>5. CASE UNCHANGED recoveryVars
  <2>1. UNCHANGED startupVars /\ UNCHANGED importVars
    BY <1>5 DEF recoveryVars
  <2>. QED
    BY <1>1, <2>1, ImportStutter, StartupStutter, OtherStepsKeepTheSource DEF IInv
<1>. QED
  BY <1>2, <1>3, <1>4, <1>5 DEF RecoveryNext, Recovered

LEMMA RecoveryInvariant == RecoverySpec => []IInv
BY InitEstablishes, NextPreserves, PTL DEF RecoverySpec

(* Both stages keep their types, and import recovery keeps its four budgets:     *)
(* places, descriptors and candidates counted never exceed their limits, whatever *)
(* the image (loader.rs: each charge is checked as it is made).                    *)
THEOREM TypeCorrect == RecoverySpec => []TypeOK
<1>1. IInv => TypeOK
  BY DEF IInv, StartupInv, ImportInv, TypeOK
<1>. QED
  BY <1>1, RecoveryInvariant, PTL

(* What startup selection leaves in memory is what its report says, for every     *)
(* number of profiles and keys: trying a profile changes nothing unless it is the   *)
(* one selected (stage.rs decodes in place and takes each decoding back).           *)
THEOREM ReportedImageIsLeft == RecoverySpec => []ImageIsAsReported
<1>1. IInv => ImageIsAsReported
  BY DEF IInv, StartupInv
<1>. QED
  BY <1>1, RecoveryInvariant, PTL

(* The entry selected from a sparse image is shown by that image, and no other     *)
(* key of its pages shows an authentic one to the same search.                      *)
THEOREM SelectionIsUnambiguous == RecoverySpec => []SelectedEntryIsAlone
<1>1. IInv => SelectedEntryIsAlone
  BY DEF IInv, StartupInv
<1>. QED
  BY <1>1, RecoveryInvariant, PTL

(* A sparse image that one of its keys decides is recovered with that key, however *)
(* many profiles derive it and however late it is tried.                            *)
THEOREM DecidableImagesAreRecovered == RecoverySpec => []SparseImageIsRecovered
<1>1. IInv => SparseImageIsRecovered
  BY DEF IInv, StartupInv
<1>. QED
  BY <1>1, RecoveryInvariant, PTL

(* The encoded table that import recovery returns contains every other one of the  *)
(* image and ends where it ends, whatever the image, its sections and the budgets   *)
(* (loader.rs: every other valid graph makes discovery ambiguous).                   *)
THEOREM ImportTableIsDominant == RecoverySpec => []EncodedTableIsDominant
<1>1. IInv => EncodedTableIsDominant
  BY DEF IInv, ImportInv
<1>. QED
  BY <1>1, RecoveryInvariant, PTL

(* The import table belongs to the entry, and a native library gets the ordinary  *)
(* directory only where no encoded table holds all others or the whole image        *)
(* exceeds a budget: whatever the order of the places, the scan never gives up a      *)
(* table it could decide (imports/mod.rs, the fallback of the native library).        *)
THEOREM ImportTableFollowsTheEntry == RecoverySpec => []ImportsFollowTheEntry
<1>1. IInv => ImportsFollowTheEntry
  <2> SUFFICES ASSUME IInv, discovery.result = "found"
               PROVE  /\ profile.result = "selected"
                      /\ discovery.profile = "Standard" =>
                            \/ profile.entry.kind \in {"ManagedDll", "ManagedExe"}
                            \/ profile.entry.kind = "NativeDll" /\ EncodedIsUndecided
    BY DEF ImportsFollowTheEntry
  <2>1. doing = "returned" /\ SourceInv
    BY DEF IInv, ImportInv, CandidatesInv
  <2>2. profile.result = "selected" /\ source = ImportProfile
    BY <2>1 DEF SourceInv
  <2>3. source = "Standard" => profile.entry.kind \in {"ManagedDll", "ManagedExe"}
    BY <2>2, Zenon DEF ImportProfile
  <2>4. source = "NativeDll" => profile.entry.kind = "NativeDll"
    BY <2>2, Zenon DEF ImportProfile
  <2>. QED
    BY <2>1, <2>2, <2>3, <2>4 DEF SourceInv, StandardIsDue
<1>. QED
  BY <1>1, RecoveryInvariant, PTL
=============================================================================
