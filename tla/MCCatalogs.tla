----------------------------- MODULE MCCatalogs -----------------------------
(***************************************************************************)
(* What happens to catalogs outside the engine: catalogs are composed and  *)
(* enriched, benchmark evidence is monitored, imported and put into        *)
(* portfolios, offerings are discovered, sources are read over HTTPS and   *)
(* decoded, historical runs are priced, private files are written, and     *)
(* commands are run.                                                       *)
(* These components share no state: a behaviour is one of one of them,     *)
(* `part' says of which, and the variables of the others stay idle.        *)
(***************************************************************************)
EXTENDS Naturals, Sequences, TLC

CONSTANTS
    Missing, NoSource, None, Idle,
    Signals, Paths, Within, Reserved,           \* of rows of catalogs
    q, x, leaf, inner, w1, w2, o1, o2, o3, k1, k2,
    Names, Offerings, MaxOfferings, CatalogSets,        \* composition
    Enrichments, a, b,                          \* enrichment
    Rows, Captures, Reviews, NoEntry, Invalid, r1, r2,      \* import
    Components, Candidates, MaxAge, Required, Minimum, Skew, Times, Estimates,
    FirstFrontiers, MaxEvaluations, c1, c2,     \* portfolio
    Contents, PinnedContent, MaxRevision, MaxTime,                  \* monitor
    Catalog, Feeds, Responses, MaxSources, MaxModels, Matching, TextOf, Benchmarks, Malformed,
    m1, m2, f1, f2,                             \* discovery
    Writers, Overwrite, Files, Links, Folders, Absent,              \* private output
    Requests, Answers, Timeout, ByteLimit, TotalLimit,          \* reading over HTTPS
    Documents, Readers, MaxDepth, MaxTokens, MaxEvents, MaxNodes, MaxText, MaxDigits,
    Recursion, LongInteger,                     \* decoding
    Boards, PriceLists, Acquisitions, Bindings, MaxHour, MaxProjections,    \* prices of runs
    Sessions, Places, Before                    \* commands

NameSymmetry == Permutations(Names)
PathsWithin == {<<leaf, inner>>}

VARIABLE part

----------------------------------------------------------------------------
VARIABLES inputs, rest, rows, status
compositionVars == <<inputs, rest, rows, status>>
Composition == INSTANCE CatalogComposition

VARIABLES base, policy, supplied, mappings, signals, audits, enrichment
enrichmentVars == <<base, policy, supplied, mappings, signals, audits, enrichment>>
Enrichment == INSTANCE CatalogEnrichment WITH rest <- mappings, status <- enrichment

VARIABLES pinned, entries, current, report, catalog
importVars == <<pinned, entries, current, report, catalog>>
Import == INSTANCE QualityImport

VARIABLES clock, frontiers, signalled, portfolio
portfolioVars == <<clock, frontiers, signalled, portfolio>>
Portfolio == INSTANCE QualityPortfolio WITH now <- clock, base <- signalled

VARIABLES now, history, pin, feed, pc, timestamp, first, revision, content, change
monitorVars == <<now, history, pin, feed, pc, timestamp, first, revision, content, change>>
Monitor == INSTANCE FeedMonitor

VARIABLES todo, admission, offerings, served, phase, artifact, provisional
discoveryVars == <<todo, admission, offerings, served, phase, artifact, provisional>>
Discovery == INSTANCE Discovery WITH policy <- admission, pc <- phase

VARIABLES parent, target, staged, written, calls, seen, result, disturbed
privateVars == <<parent, target, staged, written, calls, seen, result, disturbed>>
Private == INSTANCE PrivateOutput WITH pc <- calls

VARIABLES request, progress, elapsed, waited, patience, response, received, bodies, stamp
remoteVars == <<request, progress, elapsed, waited, patience, response, received, bodies, stamp>>
Remote == INSTANCE RemoteRead WITH
    phase <- progress, now <- elapsed, Responses <- Answers

VARIABLES reader, document, stage, scan, built
documentVars == <<reader, document, stage, scan, built>>
Document == INSTANCE BoundedDocument

VARIABLES hour, loaded, made, outcome
priceVars == <<hour, loaded, made, outcome>>
Price == INSTANCE PriceProjection

VARIABLES session, files, at, opened, exit, failed
commandVars == <<session, files, at, opened, exit, failed>>
Command == INSTANCE CommandLine

----------------------------------------------------------------------------
\* What the values of the constants are built with.
Merging == INSTANCE CatalogRows
Programs == INSTANCE CommandLine WITH Sessions <- {}
Finding == INSTANCE Discovery WITH policy <- admission, pc <- phase, Benchmarks <- {}

\* Catalogs of one or two offerings to compose, one set of which varies sources and
\* values, the others metadata; one with another source of the same id, and one of
\* another workload.
Source(id, text) == [id |-> id, text |-> text]
S1 == Source(1, 1)
S2 == Source(1, 2)
S3 == Source(2, 1)
Observed(num, source) == [num |-> num, spelling |-> 0, source |-> source]
Leaf(num, spelling) == [num |-> num, spelling |-> spelling]
CatalogRow(key, given, metadata, default) ==
    [key |-> key, signals |-> given, metadata |-> metadata, default |-> default]
NoSignals == [s \in Signals |-> Missing]
NoMetadata == [p \in Paths |-> Missing]

ComposedRows ==
    LET observations == {Observed(n, NoSource) : n \in {1, 2}} \cup {Observed(1, s) : s \in {S1, S3}}
    IN  {r \in {CatalogRow(k1, f, NoMetadata, d) :
                   f \in [Signals -> {Missing} \cup observations], d \in {NoSource, S1, S2, S3}} :
            /\ r.signals[x] \in {Missing, Observed(1, NoSource)}
            /\ Merging!Consistent(Merging!SourcesOf(r))}
MetadataRows ==
    {CatalogRow(k, NoSignals, f, NoSource) :
        k \in {k1, k2},
        f \in {g \in [Paths -> {Missing, Leaf(1, 0), Leaf(1, 1), Leaf(2, 0)}] :
                  g[leaf] = Missing \/ g[inner] = Missing}}
OtherCatalog ==
    [workload |-> w1,
     rows |-> [o \in {o1, o2} |->
        CatalogRow(k1, [NoSignals EXCEPT ![q] = Observed(1, NoSource)], NoMetadata, S2)]]
MCCatalogSets ==
    {[workload : {w1}, rows : c] \cup {OtherCatalog, [OtherCatalog EXCEPT !.workload = w2]} :
        c \in {[{o1} -> ComposedRows], [{o1} -> MetadataRows], [{o3} -> MetadataRows]}}

\* Enrichments of a base catalog from two catalogs: rows, sources and mappings vary,
\* or what is bound before the rows.
EnrichedRow(f, default, reserved) == CatalogRow(k1, f, [p \in Paths |-> reserved], default)
OfSources(A) == [Signals -> {Missing} \cup {Observed(1, s) : s \in A}]
IsValid(r) == Merging!Consistent(Merging!SourcesOf(r))
BaseRows ==
    {r \in {EnrichedRow(f, d, Missing) : f \in OfSources({NoSource, S2}),
                                         d \in {NoSource, S1, S2, S3}} :
        r.signals[x] = Missing /\ IsValid(r)}
SourceRows ==
    {r \in {EnrichedRow(f, d, Missing) : f \in OfSources({NoSource, S1}), d \in {NoSource, S1, S2}} :
        IsValid(r)}

Mapping(o, k, p) ==
    [source |-> [id |-> o1, key |-> k1], target |-> [id |-> o, key |-> k], signals |-> p]
MappingSets ==
    {{Mapping(o1, k1, p)} : p \in {{q}, {x}, {q, x}}}
        \cup {{Mapping(o1, k1, {q}), Mapping(o1, k1, {x})},
              {Mapping(o1, k1, {q}), Mapping(o2, k1, {q})},
              {Mapping(o1, k2, {x})}}
EnrichmentPolicy(one, two) ==
    [base |-> 0, workload |-> w1,
     projections |-> [n \in {a, b} |-> [workload |-> w2, mappings |-> IF n = a THEN one ELSE two]]]
Projecting(hash, workload, given) == [hash |-> hash, workload |-> workload, rows |-> given]
Task(of, by, from) == [base |-> of, policy |-> by, supplied |-> from]

MCEnrichments ==
    LET bases == {Projecting(0, w1, (o1 :> r) @@ (o2 :> EnrichedRow(NoSignals, NoSource, Missing))) :
                     r \in BaseRows}
        policies == {EnrichmentPolicy(m, n) : m, n \in MappingSets}
        sources == {[n \in {a, b} |-> Projecting(n, w2, o1 :> (IF n = a THEN r
                         ELSE EnrichedRow([s \in Signals |-> t], NoSource, Missing)))] :
                       r \in SourceRows, t \in {Observed(1, s) : s \in {S1, S2, NoSource}}}
        others == {Projecting(h, w, [o \in O |-> EnrichedRow(NoSignals, S1, m)]) :
                      h \in {0, 1}, w \in {w1, w2}, m \in {Missing, Observed(1, S1)},
                      O \in {{}, {o1}, {o1, o2}}}
        bound == {[EnrichmentPolicy({Mapping(o1, k1, {q})}, {Mapping(o1, k1, {x})})
                      EXCEPT !.projections[b].workload = v] : v \in {w1, w2}}
        partial == {[n \in N |-> Projecting(n, w,
                        [o \in O |-> EnrichedRow([s \in Signals |-> Observed(1, S1)], NoSource, Missing)])] :
                      N \in SUBSET {a, b}, w \in {w1, w2}, O \in {{}, {o1}}}
    IN  {Task(c, p, s) : c \in bases, p \in policies, s \in sources}
            \cup {Task(c, p, s) : c \in others, p \in bound, s \in partial}

\* Captures of a benchmark with two rows, of which either may be missing.
Subject(text, kind, route) == [text |-> text, kind |-> kind, route |-> route]
Scores(quality) == [role \in {"quality", "cost"} |-> IF role = "quality" THEN quality ELSE 7]
Row(subject, scores) == [subject |-> subject, result |-> scores]

Plain == Subject(1, "single", "exact")

FirstRows ==
    {Row(Plain, Scores(1)), Row(Plain, Scores(2)), Row(Plain, Invalid),
     Row(Subject(2, "single", "exact"), Scores(1)),
     Row(Subject(1, "single", "unknown"), Scores(1)),
     Row(Subject(1, "single", "alias"), Scores(1)),
     Row(Subject(1, "composite", "exact"), Scores(1))}

RowFunctions ==
    {f \in UNION {[N -> FirstRows] : N \in SUBSET Rows} :
        r2 \in DOMAIN f => f[r2] = Row(Plain, Scores(1))}

Capture(source, rights, bytes, f) ==
    [source |-> source, rights |-> rights, bytes |-> bytes, rows |-> f]

\* Of other rights, bytes and sources are captures with both rows.
WholeRows == {f \in RowFunctions : DOMAIN f = Rows /\ f[r1].subject.kind = "single"}

MCCaptures ==
    {Capture(1, "derived_only", 1, f) : f \in RowFunctions}
        \cup {Capture(1, g, 1, f) : g \in {"prohibited", "unrestricted"}, f \in WholeRows}
        \cup {Capture(n, "derived_only", 3 - n, f) : n \in {1, 2}, f \in WholeRows}

\* An entry is made from what the reviewer has before them.
Entry(e, r, relationship, offering, raw) ==
    [source |-> e.source, subject |-> e.rows[r].subject, raw |-> raw,
     relationship |-> relationship, offering |-> offering]

EntriesOf(e, r) ==
    IF r = r1
    THEN {Entry(e, r, rel, [id |-> o1, key |-> k1], raw) :
             rel \in {"exact", "projection"}, raw \in {NoEntry, e}}
    ELSE {Entry(e, r, "exact", [id |-> o, key |-> k], NoEntry) : o \in {o1, o2}, k \in {k1}}
             \cup {Entry(e, r, "exact", [id |-> o1, key |-> k2], NoEntry)}

ReviewsOf(e) ==
    UNION {{f \in [N -> UNION {EntriesOf(e, r) : r \in N}] : \A r \in N : f[r] \in EntriesOf(e, r)} :
              N \in SUBSET DOMAIN e.rows}

MCReviews ==
    UNION {{e} \X ReviewsOf(e) : e \in {Capture(1, "derived_only", 1, f) : f \in RowFunctions}}

\* Evidence of two components of different age limits, and of two candidates, the
\* second of which has one kind of it or none.
MCMaxAge == [c \in Components |-> IF c = c1 THEN 3 ELSE 2]

Estimate(v, observed, retrieved, complete) ==
    [value |-> v, observed |-> observed, retrieved |-> retrieved, complete |-> complete]

MCEstimates ==
    {None, Estimate(1, 0, 0, TRUE), Estimate(2, 2, 2, TRUE),
     Estimate(1, 0, 3, TRUE), Estimate(1, None, 0, TRUE), Estimate(1, 0, 0, FALSE)}

MCFirstFrontiers ==
    {f \in [Components -> [at : {0}, rows : [Candidates -> MCEstimates \cup {Estimate(1, 1, 1, TRUE)}]]] :
        /\ f[c1].rows[o2] = Estimate(1, 1, 1, TRUE)
        /\ f[c2].rows[o2] \in {None, Estimate(1, 1, 1, TRUE)}
        /\ f[c2].rows[o1] \in {None} \cup {Estimate(1, n, n, TRUE) : n \in {0, 1}}
                              \cup {Estimate(2, 2, 2, TRUE)}}

\* Two models, with prices under either name, a third that the pattern does not
\* match, and an item without an id in an answer that is too long.
Item(m, facts) == [model |-> m, facts |-> facts]
MCMatching == {m1, m2}

MCResponses ==
    {<< >>,
     <<Item(m1, "prompt" :> 1), Item("unmatched", "prompt" :> 1)>>,
     <<Item(m1, "prompt" :> Malformed @@ "input" :> 2 @@ "output" :> 5)>>,
     <<Item(m1, "prompt" :> 1 @@ "input" :> 2), Item(m2, "completion" :> Malformed)>>,
     <<Item(m1, "input" :> 3), Item(m2, << >>), Item(m1, "completion" :> 4)>>,
     <<Item(None, << >>), Item(m1, << >>), Item(m1, << >>), Item(m1, << >>), Item(m2, << >>)>>}

\* The address of f1 is a prefix of that of f2: m2 after the one reads as m1 after the
\* other.
MCTextOf ==
    [p \in Feeds \X {m1, m2, "unmatched"} |-> IF p = <<f1, m2>> THEN <<f2, m1>> ELSE p]

Bench(url, m, name, score) ==
    [offering |-> Finding!Id(url, m), benchmark |-> name, score |-> score]

MCBenchmarks ==
    {{}, {Bench(Catalog, m1, "input_cost", 9)},
     {Bench(f1, m2, "a", 9), Bench(f1, m2, "b", 8)},
     {Bench(f1, m1, "a", 9), Bench(f1, m1, "a", 8)},
     {Bench(f1, m1, "a", 7), Bench(Catalog, m2, "a", 6)}}

----------------------------------------------------------------------------
\* Calls of every kind; a server that is another revision, encodes, declares or not,
\* sends too much or stops early.
Address(plain, host, exact) == [plain |-> plain, host |-> host, exact |-> exact]
PinnedAddress == Address(TRUE, "official", TRUE)
Request(kind, address, digest, given, transport, asserted) ==
    [kind |-> kind, address |-> address, digest |-> digest, supplied |-> given,
     transport |-> transport, asserted |-> asserted]
MCRequests ==
    {Request(k, PinnedAddress, None, s, "own", FALSE) :
        k \in {"arc", "swe", "aider", "prices", "monitor", "discovery"}, s \in BOOLEAN}
    \cup {Request("mark", PinnedAddress, None, FALSE, "own", FALSE)}
    \cup {Request(k, l, d, FALSE, "own", FALSE) :
            k \in {"swe", "mark"}, d \in {None, "pinned"},
            l \in {Address(p, h, FALSE) : p \in BOOLEAN, h \in {"official", "allowed"}}}
    \cup {Request(k, PinnedAddress, "other", FALSE, "own", FALSE) : k \in {"swe", "aider"}}
    \cup {Request("discovery", Address(FALSE, "other", FALSE), None, FALSE, "own", FALSE)}
    \cup {Request("prices", Address(TRUE, "official", e), None, FALSE, t, v) :
            e \in BOOLEAN, t \in {"own", "injected"}, v \in BOOLEAN}

Answer(encoded, commit, declared, size, what) ==
    [ok |-> TRUE, encoded |-> encoded, commit |-> commit, declared |-> declared,
     size |-> size, content |-> what]
Faultless == Answer(FALSE, "pinned", None, 2, "pinned")
MCAnswers ==
    {Faultless, [Faultless EXCEPT !.ok = FALSE], [Faultless EXCEPT !.declared = 2],
     [Faultless EXCEPT !.declared = 9], [Faultless EXCEPT !.size = 3],
     [Faultless EXCEPT !.encoded = TRUE],
     [Faultless EXCEPT !.content = "other", !.commit = "other"], [Faultless EXCEPT !.size = 1]}

\* Texts of a string: with quotes, brackets and separators of its own, and one
\* that says the same as another.
Text(characters) == << "quote" >> \o characters \o << "quote" >>
Texts == {Text(s) : s \in {<< >>, << "letter" >>, << "slash" >>, << "escape", "slash" >>,
                           << "escape", "quote", "[" >>, << "]", "{" >>, << "escape", "escape" >>,
                           << ",", ":", "," >>, << "escape", "letter" >>}}
Numbers == {<< "digit" >>, << "digit", "digit", "digit" >>,
            << "digit", "digit", "digit", "digit" >>, << "nan" >>}
InList(d) == << "[" >> \o d \o << "]" >>
InMap(key, d) == << "{" >> \o key \o << ":" >> \o d \o << "}" >>
Pair(d, e) == d \o << "," >> \o e
Member(key, d) == key \o << ":" >> \o d
Leaves == Texts \cup Numbers
Empty == {<< "[", "]" >>, << "{", "}" >>}
MCDocuments ==
    LET small == Leaves \cup Empty
        some == Empty \cup {Text(<< "letter" >>), << "digit" >>}
        lists == {InList(d) : d \in small} \cup {InMap(Text(<< "letter" >>), d) : d \in small}
        pairs == {InList(Pair(d, e)) : d \in small, e \in some}
        maps == {<< "{" >> \o Pair(Member(k, << "digit" >>), Member(t, d)) \o << "}" >> :
                    k \in {Text(<< "slash" >>)}, t \in Texts, d \in some}
        whole == small \cup lists \cup pairs \cup maps
    IN  whole
        \cup {InList(d) : d \in lists \cup pairs \cup maps}
        \cup {InList(InList(d)) : d \in lists}
        \cup {InMap(Text(<< "letter" >>), InList(d)) : d \in lists}
        \cup {SubSeq(d, 1, Len(d) - 1) : d \in lists \cup pairs} \cup {Tail(d) : d \in lists}
        \cup {Append(d, k) : d \in lists, k \in {"]", "quote", ","}}
        \cup {InList(Pair(Pair(d, e), f)) : d, e, f \in some}
        \cup {<< "{" >> \o Pair(Member(Text(<< "slash" >>), << "digit" >>),
                 Pair(Member(Text(<< "letter" >>), << "digit" >>), Member(k, << "digit" >>)))
               \o << "}" >> : k \in Texts}
        \cup {<< "digit", "quote", "quote" >>, << "[", "digit", "digit", "]" >>,
              << "[", "[", "]", "[", "[", "[", "[" >>, << "]", "[", "[", "[", "[" >>}

\* Two runs, one of which is captured again with another command or without
\* counts, or is of another source; a route whose used or unused rates change, that
\* is deprecated, tiered or misnamed, and a route nobody mapped.
RunRow(source, command, effort, prompt, solved, compound) ==
    [source |-> source, model |-> "model", effort |-> effort, command |-> command,
     prompt |-> prompt, completion |-> 1, attempted |-> 2, solved |-> solved, rate |-> 5,
     compound |-> compound]
Board(version, first_row, second_row) ==
    [version |-> version, configured |-> version,
     rows |-> [run \in {"first", "second"} |->
                                      IF run = "first" THEN first_row ELSE second_row]]
UsualRow(source) == RunRow(source, "c", "high", 1, 0, FALSE)
MCBoards ==
    {Board(1, RunRow(1, "c", "high", 2, 1, FALSE), UsualRow(1)),
     Board(2, RunRow(2, "c", "high", 3, 1, FALSE), RunRow(2, "c", "high", 1, 0, TRUE)),
     Board(3, RunRow(3, "d", "high", 2, 1, FALSE), RunRow(3, "c", "high", 1, None, FALSE)),
     Board(4, UsualRow(4), RunRow(4, "c", None, 1, 0, FALSE)),
     Board(5, [UsualRow(5) EXCEPT !.rate = None], UsualRow(5)),
     Board(6, UsualRow(6), UsualRow(1)),
     [Board(7, UsualRow(7), Missing) EXCEPT !.configured = 6]}
PriceRecord(input, cache, shape, state) ==
    [input |-> input, output |-> 2, cache |-> cache, shape |-> shape, status |-> state,
     efforts |-> {"high"}]
PriceList(alpha, beta) == [route \in {"alpha", "beta"} |-> IF route = "alpha" THEN alpha ELSE beta]
FlatRecord == PriceRecord(1, 1, "flat", None)
MCPriceLists ==
    {PriceList(FlatRecord, FlatRecord), PriceList(PriceRecord(1, 2, "flat", None), FlatRecord),
     PriceList([FlatRecord EXCEPT !.output = 3], Missing),
     PriceList(PriceRecord(1, 1, "flat", "deprecated"), FlatRecord),
     PriceList(PriceRecord(1, 1, "tiered", None), FlatRecord),
     PriceList(FlatRecord, PriceRecord(1, 1, "misnamed", None))}
\* Fetched, by a transport of the caller or not, or from a file of an earlier time.
Acquired(remote, own, asserted, expected, claimed) ==
    [remote |-> remote, own |-> own, asserted |-> asserted, expected |-> expected,
     claimed |-> claimed]
MCAcquisitions ==
    {Acquired(TRUE, TRUE, FALSE, None, None), Acquired(TRUE, FALSE, FALSE, None, None),
     Acquired(FALSE, FALSE, TRUE, PriceList(FlatRecord, FlatRecord), 0),
     Acquired(FALSE, FALSE, FALSE, None, 0), Acquired(FALSE, FALSE, TRUE, None, 0),
     Acquired(TRUE, TRUE, FALSE, None, 0), Acquired(FALSE, FALSE, FALSE, None, None)}
Bound(run, route, effort, old) ==
    [run |-> run, model |-> "model", effort |-> effort, command |-> "c", route |-> route,
     old |-> old]
FirstOn(route, old) == Bound("first", route, "high", old)
MCBindings ==
    {[entries |-> << FirstOn("alpha", FALSE) >>, maxAge |-> 0],
     [entries |-> << FirstOn("alpha", TRUE), Bound("second", "beta", "high", FALSE) >>, maxAge |-> 1],
     [entries |-> << FirstOn("beta", TRUE), Bound("second", "beta", "high", FALSE) >>, maxAge |-> 1],
     [entries |-> << FirstOn("alpha", TRUE), Bound("second", "alpha", None, FALSE) >>, maxAge |-> 1]}

\* Every command, with outputs of their own, over its inputs or printed, with and
\* without the options that are inputs; and runs that share files.
AllCommands == Programs!Commands
Roles ==
    {"derivation_output"}
    \cup {step.role : step \in UNION {{AllCommands[n][i] : i \in DOMAIN AllCommands[n]} :
                                        n \in DOMAIN AllCommands}}
Arguments(main, second, optional) ==
    [role \in Roles |->
        IF role \in {"output", "catalog_output", "output_directory", "schema"} THEN main
        ELSE IF role \in {"review_queue", "derivation_output", "other_schema",
                          "provisional_catalog_output"} THEN second
        ELSE IF role \in {"frontier_policy_file", "balanced_policy", "previous",
                          "provisional_benchmarks"} THEN optional
        ELSE "in"]
RunOf(name, over, given) == [command |-> name, overwrite |-> over, given |-> given]
AllPrinted == Arguments(None, None, None)
Printing ==
    {n \in DOMAIN AllCommands :
        \A i \in DOMAIN AllCommands[n] :
            AllCommands[n][i].role \notin
                {"catalog_output", "output_directory", "schema"}}
Pairing(name, main, second, other, over) ==
    [run \in {"one", "two"} |->
        IF run = "one" THEN RunOf(name, TRUE, Arguments(main, second, "in"))
        ELSE RunOf(other, over, Arguments("out", "lock", "out"))]
MCSessions ==
    {[run \in {"one"} |->
        RunOf(n, over, Arguments(main, "lock", IF over THEN "in" ELSE None))] :
        n \in DOMAIN AllCommands, over \in BOOLEAN, main \in {"in", "out"}}
    \cup {[run \in {"one"} |-> RunOf(n, FALSE, AllPrinted)] : n \in Printing}
    \cup {[run \in {"one"} |-> RunOf("portfolio", TRUE, Arguments("out", "out", None))],
          [run \in {"one"} |-> RunOf("discover", TRUE, Arguments(None, None, "in"))]}
    \cup {Pairing("evaluate", "out", "lock", "evaluate", FALSE),
          Pairing("evaluate", "in", "lock", "compose", TRUE),
          Pairing("evaluate", "out", "lock", "compose", TRUE),
          Pairing("portfolio", "in", "out", "compose", FALSE),
          Pairing("portfolio", "in", "out", "evaluate", FALSE)}

\* What the proofs take of the constants.
ASSUME InodesDiffer == Private!InodesAreDistinct
ASSUME PolicyPossible == Portfolio!PolicyIsPossible
ASSUME CallsPossible == Remote!CallsArePossible
ASSUME PricesPossible == Price!PricesArePossible
ASSUME ReviewsPossible == Import!ReviewsArePossible
ASSUME CatalogsPossible == Composition!CatalogsArePossible
ASSUME EnrichmentsPossible == Enrichment!EnrichmentsArePossible
ASSUME ResponsesPossible == Discovery!ResponsesArePossible
ASSUME SessionsPossible == Command!SessionsArePossible

CompositionIdle == inputs = Idle /\ rest = {} /\ rows = << >> /\ status = Idle
EnrichmentIdle ==
    /\ base = Idle /\ policy = Idle /\ supplied = Idle /\ mappings = {} /\ signals = Idle
    /\ audits = Idle /\ enrichment = Idle
ImportIdle == pinned = Idle /\ entries = Idle /\ current = Idle /\ report = Idle /\ catalog = Idle
PortfolioIdle == clock = 0 /\ frontiers = Idle /\ signalled = Idle /\ portfolio = Idle
MonitorIdle ==
    /\ now = 0 /\ history = << >> /\ pin = Idle /\ feed = Idle /\ pc = Idle /\ timestamp = Idle
    /\ first = Idle /\ revision = Idle /\ content = Idle /\ change = Idle
DiscoveryIdle ==
    /\ todo = << >> /\ admission = Idle /\ offerings = Idle /\ served = Idle /\ phase = Idle
    /\ artifact = Idle /\ provisional = Idle
PrivateIdle ==
    /\ parent = Idle /\ target = Idle /\ staged = {} /\ written = {} /\ seen = Idle
    /\ calls = [w \in Writers |-> Idle] /\ result = [w \in Writers |-> Idle] /\ disturbed = FALSE
RemoteIdle ==
    /\ request = Idle
    /\ progress = Idle
    /\ elapsed = 0
    /\ waited = 0
    /\ patience = 0
    /\ response = Idle
    /\ received = 0
    /\ bodies = << >>
    /\ stamp = Idle
DocumentIdle ==
    /\ reader = Idle
    /\ document = << >>
    /\ stage = Idle
    /\ scan = Idle
    /\ built = Idle
PriceIdle ==
    /\ hour = 0
    /\ loaded = Idle
    /\ made = << >>
    /\ outcome = Idle
CommandIdle ==
    /\ session = Idle /\ files = Idle /\ at = Idle /\ opened = Idle /\ exit = Idle
    /\ failed = Idle

Init ==
    /\ part \in {"composition", "enrichment", "import", "portfolio", "monitor", "discovery",
                 "private", "remote", "document", "price", "command"}
    /\ IF part = "composition" THEN Composition!Init ELSE CompositionIdle
    /\ IF part = "enrichment" THEN Enrichment!Init ELSE EnrichmentIdle
    /\ IF part = "import" THEN Import!Init ELSE ImportIdle
    /\ IF part = "portfolio" THEN Portfolio!Init ELSE PortfolioIdle
    /\ IF part = "monitor" THEN Monitor!Init ELSE MonitorIdle
    /\ IF part = "discovery" THEN Discovery!Init ELSE DiscoveryIdle
    /\ IF part = "private" THEN Private!Init ELSE PrivateIdle
    /\ IF part = "remote" THEN Remote!Init ELSE RemoteIdle
    /\ IF part = "document" THEN Document!Init ELSE DocumentIdle
    /\ IF part = "price" THEN Price!Init ELSE PriceIdle
    /\ IF part = "command" THEN Command!Init ELSE CommandIdle

Others ==
    /\ part' = part
    /\ IF part = "composition" THEN TRUE ELSE UNCHANGED compositionVars
    /\ IF part = "enrichment" THEN TRUE ELSE UNCHANGED enrichmentVars
    /\ IF part = "import" THEN TRUE ELSE UNCHANGED importVars
    /\ IF part = "portfolio" THEN TRUE ELSE UNCHANGED portfolioVars
    /\ IF part = "monitor" THEN TRUE ELSE UNCHANGED monitorVars
    /\ IF part = "discovery" THEN TRUE ELSE UNCHANGED discoveryVars
    /\ IF part = "private" THEN TRUE ELSE UNCHANGED privateVars
    /\ IF part = "remote" THEN TRUE ELSE UNCHANGED remoteVars
    /\ IF part = "document" THEN TRUE ELSE UNCHANGED documentVars
    /\ IF part = "price" THEN TRUE ELSE UNCHANGED priceVars
    /\ IF part = "command" THEN TRUE ELSE UNCHANGED commandVars

Compose == part = "composition" /\ Composition!Next /\ Others
Enrich == part = "enrichment" /\ Enrichment!Next /\ Others
ImportEvidence == part = "import" /\ Import!Next /\ Others
BuildPortfolio == part = "portfolio" /\ Portfolio!Next /\ Others
MonitorFeed == part = "monitor" /\ Monitor!Next /\ Others
Discover == part = "discovery" /\ Discovery!Next /\ Others
WritePrivately == part = "private" /\ Private!Next /\ Others
ReadRemotely == part = "remote" /\ Remote!Next /\ Others
Decode == part = "document" /\ Document!Next /\ Others
ProjectPrices == part = "price" /\ Price!Next /\ Others
RunCommands == part = "command" /\ Command!Next /\ Others

Next ==
    \/ Compose \/ Enrich \/ ImportEvidence \/ BuildPortfolio \/ MonitorFeed
    \/ Discover \/ WritePrivately \/ ReadRemotely \/ Decode \/ ProjectPrices
    \/ RunCommands

vars ==
    <<part, compositionVars, enrichmentVars, importVars, portfolioVars,
      monitorVars, discoveryVars, privateVars, remoteVars, documentVars,
      priceVars, commandVars>>

Spec == Init /\ [][Next]_vars

----------------------------------------------------------------------------
\* Properties, each of several components; their modules say more.

(***************************************************************************)
(* Whether catalogs compose and whether a policy can be applied, and what  *)
(* comes of it, does not depend on the order of catalogs and mappings,     *)
(* although each is joined to or projected on the result of those before   *)
(* it.                                                                     *)
(***************************************************************************)
ResultsAreOrderFree ==
    /\ part = "composition" => Composition!OutcomeIsOrderFree
    /\ part = "enrichment" => Enrichment!EnrichmentIsOrderFree

(***************************************************************************)
(* A catalog made of others has exactly the signals of those, each with    *)
(* the source it had, whatever was joined, projected or discovered in      *)
(* between, and of what is read over HTTPS no part passes for the whole    *)
(* and nothing in it says two things or is refused for the look of its     *)
(* strings; its audit accounts for each signal that was added; and its     *)
(* version changes exactly with what it was made of.  A command that is    *)
(* refused has changed no file, one that exits as it should has written    *)
(* all it was asked to, and no output is there without what locks it.      *)
(***************************************************************************)
NothingIsAddedOrLost ==
    /\ part = "composition" => Composition!ComposedIsUnion
    /\ part = "enrichment" => Enrichment!AuditAccounts
    /\ part = "discovery" =>
          /\ Discovery!LatestOfEverySource
          /\ Discovery!EvidenceStaysApart
    /\ part = "remote" => Remote!BodyIsWhole
    /\ part = "price" =>
          /\ Price!VersionIdentifiesEvidence
          /\ Price!UnusedPricesKeepVersion
    /\ part = "document" =>
          /\ Document!BuildingIsBounded
          /\ Document!AcceptedSaysOneThing
          /\ Document!RefusedForCause
    /\ part = "command" =>
          /\ Command!RefusedChangesNothing
          /\ Command!ReportedIsWritten
          /\ Command!LockIsNeverLost

(***************************************************************************)
(* Evidence of others counts only as far as it was reviewed: by a policy,  *)
(* for the subject, the offering and the scope the review names; after a   *)
(* refresh the change that is reported says what to review again; and      *)
(* nothing that was only discovered enters a frontier unmarked.            *)
(***************************************************************************)
OnlyReviewedEvidence ==
    /\ part = "enrichment" => Enrichment!OnlyReviewedSignals
    /\ part = "import" =>
          /\ Import!MappedAsReviewed
          /\ Import!ChangeTellsWhatToReview
          /\ Import!WiderScopeMapsLess
    /\ part = "discovery" => Discovery!NeverUnmarked
    /\ part = "remote" => Remote!LabelIsEarned
    /\ part = "price" => Price!PricedAsReviewed

(***************************************************************************)
(* What verifies rests on fresh evidence, until it expires and no longer,  *)
(* by any clock that is off by no more than the skew; and what a monitor   *)
(* reports was so at one moment of its call, although it takes several     *)
(* fetches, and what is read over HTTPS was so during a call that ends in  *)
(* time.                                                                   *)
(***************************************************************************)
OnlyCurrentEvidence ==
    /\ part = "portfolio" =>
          /\ Portfolio!VerifiedIsFresh
          /\ Portfolio!ValidWhileTrue
          /\ Portfolio!VerifiesUntilExpiry
    /\ part = "monitor" => Monitor!StatusIsOfOneMoment /\ Monitor!NoneMeansPinned
    /\ part = "remote" => Remote!StampIsOfCall /\ Remote!CallEndsInTime
    /\ part = "price" => Price!StalePricesExpire

(***************************************************************************)
(* A reader of a private file never sees a part of it; a call that         *)
(* returns leaves no other file behind, and its text is there until an     *)
(* overwriting call replaces it.                                           *)
(***************************************************************************)
PrivateFilesAreWhole ==
    part = "private" =>
          /\ Private!TargetIsComplete
          /\ Private!ReturnLeavesNoLitter
          /\ Private!ReturnedTextIsThere

(***************************************************************************)
(* Without overwrite=True nothing at the target of a private file is ever  *)
(* replaced, however late it came there, and no call, failed or not,       *)
(* touches what others put there.                                          *)
(***************************************************************************)
NothingIsClobbered ==
    /\ Private!NoClobber
    /\ Private!CallsInstallOnlyTheirOwn

(***************************************************************************)
(* A catalog is projected from the capture and the reviews at hand,        *)
(* whenever its report was made.                                           *)
(***************************************************************************)
CatalogIsOfCurrent == Import!CatalogIsOfCurrent
=============================================================================
