--------------------------- MODULE MCImageRecovery ---------------------------
(* Instances of ImageRecovery: either every small startup image with a plain    *)
(* import table, or three plain entries with every small import image.           *)
EXTENDS ImageRecovery

MCKeys == {"k1", "k2"}

Site(at, family, lacks, jumps, intact) ==
    [at |-> at, family |-> family, lacks |-> lacks, jumps |-> jumps, intact |-> intact]
Lacks(family) == {Nothing} \union DOMAIN Demands[family]

Veneers == {Site(1, "veneer", l, 1, TRUE) : l \in Lacks("veneer")}
           \union {Site(1, "veneer", Nothing, j, i) : j \in 0 .. 2, i \in BOOLEAN}
Msvcs == {Site(2, "msvc", l, 0, TRUE) : l \in Lacks("msvc")}
         \union {Site(2, "msvc", Nothing, 0, FALSE)}
AnotherVeneer == Site(3, "veneer", Nothing, 1, TRUE)
AnotherMsvc == Site(4, "msvc", Nothing, 0, TRUE)
Amd64Views == {{}} \union {{v} : v \in Veneers} \union {{m} : m \in Msvcs}
              \union {{v, AnotherVeneer} : v \in Veneers}
              \union {{m, AnotherMsvc} : m \in Msvcs}
              \union {{AnotherVeneer, m} : m \in Msvcs}
Amd64Few == {{}, {AnotherVeneer}, {AnotherMsvc}, {AnotherVeneer, AnotherMsvc},
             {Site(2, "msvc", Nothing, 0, FALSE)}, {Site(1, "veneer", Nothing, 1, FALSE)},
             {Site(2, "msvc", "oneCookie", 0, TRUE)}}

Legacies == {Site(1, "legacy", l, 1, TRUE) : l \in Lacks("legacy")}
            \union {Site(1, "legacy", Nothing, j, i) : j \in 0 .. 2, i \in BOOLEAN}
Standalones == {Site(a, "standalone", l, 0, TRUE) : a \in 1 .. 2, l \in Lacks("standalone")}
               \union {Site(a, "standalone", Nothing, j, TRUE) : a \in 1 .. 2, j \in 1 .. 2}
\* Two shapes at one place are reached by the same jumps.
I386Views == {{}} \union {{s} : s \in Legacies \union Standalones}
             \union {{l, s} : l \in Legacies, s \in {t \in Standalones : t.at = 2}}
             \union {{l, Site(1, "standalone", Nothing, l.jumps, TRUE)} : l \in Legacies}
I386Few == {{}, {Site(1, "legacy", Nothing, 1, TRUE)}, {Site(1, "legacy", Nothing, 1, FALSE)},
            {Site(2, "standalone", Nothing, 0, TRUE)}, {Site(1, "legacy", Nothing, 2, TRUE)}}

Dlls == {{}} \union {{Site(1, "dll", l, 0, TRUE)} : l \in Lacks("dll")}
        \union {{Site(1, "dll", l, 0, TRUE), Site(2, "dll", Nothing, 0, TRUE)} : l \in Lacks("dll")}
        \union {{Site(1, "dispatch", l, 0, TRUE)} : l \in Lacks("dispatch")}

Exceptions == {"absent", "invalid", "valid"}
Image(dll, com, machine, exception, header, scan, sparse, key, views) ==
    [dll |-> dll, com |-> com, machine |-> machine, exception |-> exception,
     header |-> header, scannable |-> scan, textIsSparse |-> sparse, key |-> key,
     view |-> views]
Views(r, a, b) == [x \in {Raw} \union MCKeys |-> IF x = Raw THEN r
                                               ELSE IF x = "k1" THEN a ELSE b]
\* The profiles derive two keys, or all the same one; the third repeats one.
KeyLists == {<<"k1", "k2", "k1">>, <<"k1", "k1", "k2">>, <<"k1", "k1", "k1">>}

StartupInstances ==
    {Image(FALSE, "empty", "Amd64", e, 1, TRUE, t, k, Views(r, a, b)) :
        e \in Exceptions, t \in BOOLEAN, k \in KeyLists,
        r \in Amd64Few, a \in Amd64Few, b \in Amd64Few \ {{AnotherVeneer, AnotherMsvc}}}
    \union {Image(FALSE, "empty", "Amd64", e, 1, s, TRUE, <<"k1", "k2", "k1">>,
                  Views({}, a, {})) : e \in Exceptions, s \in BOOLEAN, a \in Amd64Views}
    \union {Image(FALSE, "empty", "I386", "absent", h, s, TRUE, k, Views(r, a, b)) :
               h \in 1 .. 2, s \in BOOLEAN, k \in KeyLists,
               r \in I386Few, a \in I386Few, b \in I386Few}
    \union {Image(FALSE, "empty", "I386", "absent", h, TRUE, TRUE, <<"k1", "k2", "k1">>,
                  Views({}, a, {})) : h \in 1 .. 2, a \in I386Views}
    \union {Image(TRUE, "empty", m, e, h, s, TRUE, <<"k1", "k2", "k1">>, Views(r, {}, {})) :
               m \in {"Amd64", "I386"}, e \in Exceptions, h \in 1 .. 2, s \in BOOLEAN,
               r \in Dlls}
    \union {Image(d, c, "Amd64", "valid", 1, TRUE, TRUE, <<"k1", "k2", "k1">>,
                  Views({}, {}, {})) :
               d \in BOOLEAN, c \in {"partial", "invalid", "managed"}}

\* Cells of one or two sections; directories of up to three rows.
CellRows == [1 .. 8 -> {"zero", "good", "broken"}] \union [1 .. 10 -> {"zero", "good"}]
\* Two graphs of two modules each: four tables.
TwoGraphs == [i \in 1 .. 12 |-> IF i \in {5, 6, 11, 12} THEN "zero" ELSE "good"]
\* A table behind so many places that the scan runs out of them.
LateTable == [i \in 1 .. 12 |-> IF i \in {9, 10} THEN "good" ELSE "zero"]
Directories == [rows : UNION {[1 .. n -> {"null", "module", "broken"}] : n \in 0 .. 3},
                declared : 0 .. 3]
PlainDirectory == [rows |-> <<"module", "null">>, declared |-> 1]
PlainCells == <<"good", "good", "zero", "zero", "zero">>
ImportInstances ==
    {[cells |-> c, sections |-> s, directory |-> PlainDirectory] :
        c \in CellRows, s \in {{1 .. 12}, {1 .. 4, 5 .. 12}}}
    \union {[cells |-> c, sections |-> s, directory |-> PlainDirectory] :
               c \in {TwoGraphs, LateTable}, s \in {{1 .. 12}, {1 .. 6, 7 .. 12}}}
    \union [cells : {PlainCells, <<"zero", "good", "good", "zero", "zero">>},
            sections : {{1 .. 5}}, directory : Directories]
PlainImports == [cells |-> PlainCells, sections |-> {1 .. 5}, directory |-> PlainDirectory]

PlainEntries ==
    {Image(TRUE, "empty", "Amd64", "valid", 1, TRUE, TRUE, <<"k1", "k1", "k1">>,
           Views({Site(1, "dll", Nothing, 0, TRUE)}, {}, {})),
     Image(TRUE, "managed", "Amd64", "valid", 1, TRUE, TRUE, <<"k1", "k1", "k1">>,
           Views({}, {}, {})),
     Image(FALSE, "empty", "I386", "absent", 1, TRUE, TRUE, <<"k1", "k1", "k1">>,
           Views({Site(1, "legacy", Nothing, 1, TRUE)}, {}, {}))}

\* The scan is the same for a library and a program but for what a failure does.
MCInputs == (StartupInstances \X {PlainImports})
            \union ({e \in PlainEntries : e.com = "empty"} \X ImportInstances)
            \union (PlainEntries \X {i \in ImportInstances : Len(i.cells) = 5})
=============================================================================
