--------------------------- MODULE MCOutputRebuild ---------------------------
\* Small images of two sections: one page of four cells each.
EXTENDS OutputRebuild

Range1(a, n) == [from |-> a, to |-> a + n]
Section(at, v, r) == [start |-> at, virtual |-> v, raw |-> r]
Slots(r, e, a) == [range |-> r, effective |-> e, absolute |-> a]

Plain == [sections |-> <<Section(4, 4, 4), Section(8, 4, 4)>>,
          sizeOfHeaders |-> 2, sizeOfImage |-> 12,
          profile |-> "EncodedLoader", pogo |-> FALSE,
          modules |-> <<"a">>, iats |-> <<Range1(8, 2)>>, importData |-> NoRange,
          stale |-> {}, directories |-> {}, export |-> NoRange,
          declared |-> NoStream, producers |-> <<>>, destinations |-> {},
          tls |-> {}, dynamicBase |-> FALSE, hasRoom |-> TRUE]

\* The contents of an image, given where its data is.
Content(i, data, c) ==
    IF c < i.sizeOfHeaders THEN "header"
    ELSE IF \E g \in i.stale : c \in Cells(g.meta) THEN "stale"
    ELSE IF \/ c \in Cells(i.declared.range)
            \/ \E n \in DOMAIN i.producers : c \in Cells(i.producers[n].range) THEN "reloc"
    ELSE IF c \in Cells(i.export) THEN IF c = i.export.to - 1 THEN "zero" ELSE "export"
    ELSE IF \E d \in i.directories : c \in Cells(d.range)
    THEN    LET d == CHOOSE x \in i.directories : c \in Cells(x.range)
            IN  IF d.index = "debug" THEN IF c = d.range.to - 1 THEN "pointer" ELSE "debug"
                ELSE IF d.index = "exception"
                THEN IF c = d.range.to - 1 THEN "directory" ELSE "zero"
                ELSE IF c = d.range.to - 1 THEN "zero" ELSE "directory"
    ELSE IF i.pogo /\ \E n \in DOMAIN i.iats : c \in Cells(i.iats[n]) /\ c # i.iats[n].to - 1
    THEN "thunk"
    ELSE IF \/ c \in i.tls \union i.declared.effective
            \/ \E n \in DOMAIN i.producers : c \in i.producers[n].effective THEN "va"
    ELSE IF c \in data THEN "data" ELSE "zero"

Filled(i, data) ==
    i @@ [cells |-> [c \in 0 .. i.sizeOfImage - 1 |-> Content(i, data, c)]]

InImage(i, cells) ==
    \A c \in cells : \E n \in DOMAIN i.sections : c \in SectionCells(i.sections[n])

\* Every size of the first section, and directories of every kind.
Directory(x, r, p) == [index |-> x, range |-> r, payload |-> p]
Directories ==
    { Directory(x, Range1(a, n), NoRange) :
          x \in {"resource", "exception", "tls"}, a \in 4 .. 11, n \in 1 .. 3 }
    \union { Directory("debug", Range1(a, 2), Range1(b, n)) :
                 a \in 4 .. 10, b \in 4 .. 10, n \in {2} }
    \union { Directory("debug", Range1(a, 2), NoRange) : a \in {4, 8} }
First == { Section(4, v, r) : v \in 0 .. 4, r \in {0, 2, 4} } \ {Section(4, 0, 0)}
Second == {Section(8, 3, 4), Section(8, 4, 2)}
Apart(a, b) == Cells(a) \intersect Cells(b) = {}
Geometries ==
    { Filled([Plain EXCEPT !.sections = <<s, t>>, !.iats = <<i>>, !.directories = {d}], data) :
          s \in First, t \in Second, i \in {Range1(4, 2), Range1(10, 2)},
          d \in { x \in Directories : /\ x.range.to <= 12 /\ x.payload.to <= 12
                                      /\ Apart(x.range, x.payload) },
          data \in {{5}, {7, 9}} }

\* Exports that end with the section's data or behind its virtual size.
Exports ==
    { Filled([Plain EXCEPT !.sections = <<s, Section(8, 4, 4)>>, !.export = Range1(a, n)], {5}) :
          s \in First, a \in 4 .. 6, n \in 2 .. 3 }

\* One or two import graphs, where they may be scaffolding, clones or rivals.
Graph(m, i, ms) == [meta |-> m, iats |-> i, modules |-> ms]
SmallGraphs == { Graph(Range1(m, 1), i, ms) :
                m \in {4, 6}, i \in {<<Range1(8, 2)>>, <<Range1(10, 2)>>},
                ms \in {<<"a">>, <<"b">>} }
          \union { Graph(Range1(m, 1), <<Range1(8, 2), Range1(10, 2)>>, <<"a", "b">>) : m \in {4, 6} }
Imports ==
    { Filled([Plain EXCEPT !.stale = g, !.export = x,
                           !.directories = d, !.modules = <<"a">>, !.iats = <<Range1(8, 2)>>], {5, 8}) :
          g \in { h \in SUBSET SmallGraphs : Cardinality(h) \in 1 .. 2
                                        /\ \A p, q \in h : p # q => Apart(p.meta, q.meta) },
          x \in {NoRange, Range1(10, 2)},
          d \in {{}} \union { {Directory(k, Range1(a, 2), NoRange)} :
                               k \in {"resource", "exception", "debug", "tls"}, a \in {6, 7} } }
StandardImports ==
    { Filled([Plain EXCEPT !.profile = "Standard", !.stale = g \union {own}, !.modules = own.modules,
                           !.iats = own.iats, !.importData = own.meta], {5, 7, 8}) :
          g \in { h \in SUBSET SmallGraphs : Cardinality(h) <= 1 /\ \A p \in h : p.meta.from = 4 },
          own \in { p \in SmallGraphs : p.meta.from = 6 } }

\* Declared and produced relocation streams over three cells.
Targets == {12, 13, 14}
StreamsAt(at) == { Slots(Range1(at, 2), e, a) :
                     e \in { x \in SUBSET Targets : Cardinality(x) <= 2 }, a \in {{}, {12}} }
Relocated ==
    { [i EXCEPT !.cells[14] = v] :
        i \in { Filled([Plain EXCEPT !.sections = <<Section(4, 4, 4), Section(8, 4, 4), Section(12, 4, 4)>>,
                                    !.sizeOfImage = 16, !.iats = <<Range1(4, 2)>>,
                                    !.declared = d, !.producers = p, !.destinations = w,
                                    !.tls = t, !.dynamicBase = TRUE], {}) :
                   d \in {NoStream} \union StreamsAt(8),
                   p \in {<<>>} \union { <<q>> : q \in StreamsAt(10) }
                        \union { <<q, Slots(Range1(r, 2), {13}, {})>> :
                                 q \in { x \in StreamsAt(6) : x.absolute = {} }, r \in {7, 10} },
                   w \in {{}, {8, 9}, {12, 14}, {8, 9, 12}}, t \in {{}, {12}, {12, 13}} },
        v \in {"va", "zero"} }

\* Layouts taken from linker metadata.
Linked ==
    { Filled([Plain EXCEPT !.sections = <<s, Section(8, 4, 4)>>, !.pogo = TRUE,
                           !.importData = Range1(9, 1), !.iats = <<Range1(10, 2)>>,
                           !.stale = {Graph(Range1(9, 1), <<Range1(10, 2)>>, <<"a">>)},
                           !.directories = {Directory("import", Range1(9, 1), NoRange),
                                             Directory("iat", Range1(10, 2), NoRange), d}], data) :
          s \in First, data \in {{5}, {7}},
          d \in { x \in Directories : x.range.to <= 9 /\ x.payload.to <= 9 /\ Apart(x.range, x.payload) } }

\* Headers without room for a section, data between sections, empty sections at the end
\* of the image and behind it, and slots among the import cells.
Unusual ==
    { Filled([Plain EXCEPT !.hasRoom = FALSE, !.pogo = p, !.importData = m,
                           !.stale = IF p THEN {Graph(m, <<Range1(8, 2)>>, <<"a">>)} ELSE {}], {5}) :
          p \in BOOLEAN, m \in {Range1(6, 1)} }
    \union { Filled([Plain EXCEPT !.sections = <<Section(4, v, 2), Section(8, 4, 4)>>], {7}) : v \in 2 .. 4 }
    \union { Filled([Plain EXCEPT !.sections = @ \o <<Section(at, 0, 0)>>], {5}) : at \in {12, 16} }
    \union { Filled([Plain EXCEPT !.iats = <<Range1(a, 2)>>, !.dynamicBase = TRUE, !.tls = t,
                                  !.declared = Slots(Range1(4, 2), {9, 10}, {}),
                                  !.destinations = {4, 5}], {}) : a \in {8, 10}, t \in {{}, {9}} }

MCImages ==
    Geometries \union Exports \union Imports \union StandardImports \union Linked
    \union Relocated \union Unusual

=============================================================================
