--------------------------- MODULE MCObservations ---------------------------
(***************************************************************************)
(* What becomes of evidence before it is in a catalog and of what is in    *)
(* one: measurements of local systems and how they are captured, traces of *)
(* requests and the usage agents report, leaderboards and benchmarks, the  *)
(* files all of these are read from, and the estimates made of an axis.    *)
(* As in MCCatalogs, a behaviour is one of one component, `part' says of   *)
(* which, and the variables of the others stay idle.                       *)
(***************************************************************************)
EXTENDS Integers, FiniteSets, Sequences, TLC

CONSTANTS
    None,
    Records, MaxRecords, s1, s2,                \* local measurements
    Precision, Samples, MaxSamples,             \* local observation
    Absent, Null, Drafts,                       \* rows of traces
    Workload, Trusted, Rows, MaxRows, p1, p2,   \* aggregation of traces
    Chunks, Limit, MaxChanges, MaxTime,         \* reading of files
    NoEntry, Invalid, Ids, Systems, Scores, Boards, Versions, Claims, Retrieved,
    MaxBoardRows, MaxBoardChanges,              \* leaderboards
    Service, Worker, Foreign, Setups, MaxCaptureSamples, MaxEvents, MaxMemory,\* memory captures
    Plans, Header, Floor, MaxNoise,             \* matrices of requests
    Route, Other, Calls, Usages, MaxCalls,      \* usage of agents
    Tasks, TotalBasis, MaxClock,                \* estimates of axes
    Leaderboards, TaskSet, Quantum, MaxForgotten \* scores of benchmarks

VARIABLE part

----------------------------------------------------------------------------
VARIABLE records
Local == INSTANCE LocalMeasurements

VARIABLE series
Observed == INSTANCE LocalObservation

VARIABLE row
TraceRow == INSTANCE TraceRows

VARIABLE trace
Trace == INSTANCE TraceAggregation

VARIABLES files, path, time, changes, blurred, reader, moments
readVars == <<files, path, time, changes, blurred, reader, moments>>
Reading == INSTANCE StableRead

VARIABLES board, reviewed, boardChanges
boardVars == <<board, reviewed, boardChanges>>
Harbor == INSTANCE HarborImport WITH
    MaxRows <- MaxBoardRows, MaxChanges <- MaxBoardChanges, changes <- boardChanges

VARIABLES setup, procs, asked, events, call, high, alone
captureVars == <<setup, procs, asked, events, call, high, alone>>
Capture == INSTANCE MemoryCapture WITH
    MaxSamples <- MaxCaptureSamples

VARIABLES plan, server, request, sampler, rows, output, noise
matrixVars == <<plan, server, request, sampler, rows, output, noise>>
Matrix == INSTANCE MatrixCapture

VARIABLES source, upstream, usageReader
usageVars == <<source, upstream, usageReader>>
Telemetry == INSTANCE UsageTelemetry WITH
    reader <- usageReader

VARIABLES task, clock, snapshot
metricVars == <<task, clock, snapshot>>
Metric == INSTANCE MetricEvaluation

VARIABLES leaderboard, forgotten
benchVars == <<leaderboard, forgotten>>
Bench == INSTANCE BenchmarkEvidence WITH
    board <- leaderboard

----------------------------------------------------------------------------
\* What the proofs about the components take of their constants.
ASSUME RecordsPossible == Local!RecordsArePossible
ASSUME DraftsPossible == TraceRow!DraftsArePossible
ASSUME BoardsPossible == Harbor!BoardsArePossible
ASSUME CapturePossible == Capture!CaptureIsPossible
ASSUME MatrixPossible == Matrix!MatrixIsPossible
ASSUME LeaderboardsPossible == Bench!LeaderboardsArePossible

----------------------------------------------------------------------------
\* Up to three records of two systems: positions of two sizes, and every way to
\* be cached, checked and sampled.
Check(passed) == [passed |-> passed, total |-> 2]

Record(system, kind, cache, hits, tokens, check, footprint, memory, at, exposed) ==
    [system |-> system, capabilities |-> {"long-context"}, notes |-> exposed,
     kind |-> kind, asked |-> 1, cache |-> cache, hits |-> hits,
     capacity |-> 2, tokens |-> tokens, check |-> check, footprint |-> footprint,
     memory |-> memory, at |-> at, exposed |-> exposed]

MCRecords ==
    {Record(s, "retrieval", "disabled", None, t, Check(p), 5, None, at, 1) :
        s \in {s1, s2}, t \in {1, 2}, p \in {1, 2}, at \in {1, 2}}
    \cup {Record(s, "retrieval", c, h, 2, Check(2), 5, m, 1, 2) :
        s \in {s1, s2}, c \in {"miss", "warm"}, h \in {None, 0, 1, 3}, m \in {None, 7}}
    \cup {Record(s1, "retrieval", "disabled", None, 2, Check(2), None, None, 1, 1),
          Record(s1, "retrieval", "disabled", None, None, Check(1), None, None, 1, 1),
          Record(s1, "decode", "disabled", None, 2, None, None, None, 1, 1),
          Record(s2, "decode", "disabled", None, 1, None, None, None, 1, 2),
          [Record(s2, "retrieval", "disabled", None, 1, Check(2), 5, None, 1, 1)
            EXCEPT !.asked = 2]}

\* Samples with more digits than the context keeps; only changes of swap are
\* negative.
MCSamples == {-15, 0, 4, 5, 14, 15, 16, 25, 27}

\* Rows of which every part may be unknown: of input, of output, of scope, of
\* provenance, and of the first schema, in which what is not there is zero.
Columns ==
    {"uncached", "read", "write", "write5m", "write1h", "total", "output", "reasoning",
     "outputTotal", "adapter", "upstream", "commit", "collector", "collectorVersion",
     "unit", "requests", "attempts", "timing"}

Draft(schema, given) ==
    [schema |-> schema, at |-> given @@ [f \in Columns |-> Absent]]

Choices(S, V) == [S -> V]

MCDrafts ==
    {Draft(3, ("unit" :> "model_call" @@ "total" :> n) @@ f) :
        n \in 1 .. 3, f \in Choices({"uncached", "read", "write", "write5m", "write1h"}, {Absent, 0, 1})}
    \cup {Draft(3, "outputTotal" :> n @@ f) :
        n \in 0 .. 2, f \in Choices({"output", "reasoning"}, {Absent, 0, 1})}
    \cup {Draft(s, "unit" :> u @@ "requests" :> n @@ "attempts" :> m @@ "read" :> k @@ "timing" :> t) :
        s \in {2, 3}, u \in {"request", "model_call", "attempt", "work_unit", Null, Absent},
        n \in {Absent, 0, 1, 2}, m \in {Absent, 0, 1}, k \in {Absent, 0, 1}, t \in {Absent, 1}}
    \cup {Draft(3, f) :
        f \in Choices({"adapter", "upstream", "commit", "collector", "collectorVersion"}, {Absent, "given"})}
    \cup {Draft(1, "requests" :> n @@ "uncached" :> k @@ "read" :> r @@ "timing" :> t) :
        n \in {Absent, 1}, k \in {Absent, Null, 1}, r \in {Absent, 1}, t \in {Absent, Null, 1}}

\* Rows of units of two offerings, at every granularity: with all meters, with
\* cache writes by retention, with some, with none and with zeros.
Metered(given) ==
    given @@ [f \in {"uncached", "read", "write", "write5m", "write1h", "total"} |-> Null]

Full == Metered("uncached" :> 1 @@ "read" :> 1 @@ "write" :> 0 @@ "total" :> 2)
Tiered == Metered("uncached" :> 2 @@ "read" :> 1 @@ "write5m" :> 1 @@ "write1h" :> 1 @@ "total" :> 5)
Partial == Metered("read" :> 1 @@ "total" :> 3)
Zeros == Metered("uncached" :> 0 @@ "read" :> 0 @@ "write" :> 0 @@ "total" :> 0)

Usage(unit, offering, attempt, success, meters) ==
    [unit |-> unit, offering |-> offering, attempt |-> attempt, success |-> success,
     at |-> meters, scope |-> "request", requests |-> Null, attempts |-> Null,
     producer |-> Null, workload |-> Workload]

MCRows ==
    {Usage(1, 1, 1, 2, Full), Usage(1, 1, 2, 2, Tiered), Usage(1, 1, 1, 0, Full),
     Usage(2, 1, 3, 0, Tiered), Usage(2, 1, 3, 0, Metered(<< >>)), Usage(2, 1, 3, 1, Partial),
     [Usage(3, 1, 1, 1, Full) EXCEPT !.scope = "work_unit", !.attempts = 2],
     [Usage(3, 1, 1, 0, Tiered) EXCEPT !.scope = "work_unit", !.requests = 2],
     [Usage(3, 1, 1, 2, Zeros) EXCEPT !.scope = "work_unit", !.attempts = 1],
     [Usage(2, 1, 3, 0, Partial) EXCEPT !.scope = "attempt", !.requests = 3],
     [Usage(1, 1, 1, 2, Full) EXCEPT !.scope = "model_call"],
     Usage(4, 2, 4, 2, Full), Usage(1, 2, 1, 2, Full),
     [Usage(4, 2, 4, 2, Full) EXCEPT !.producer = p1],
     [Usage(5, 2, 4, 0, Full) EXCEPT !.producer = p1],
     [Usage(5, 2, 4, 0, Full) EXCEPT !.producer = p2],
     [Usage(1, 1, 1, 2, Full) EXCEPT !.producer = "unreviewed"],
     [Usage(1, 1, 1, 2, Full) EXCEPT !.workload = Null]}

\* Scores of rows: of one and of two trials of three, hidden, with passes at two
\* and three tries, with an accuracy that is not that of the counts, with passes
\* that fall, and of tomorrow.
Scored(status, successes, accuracy, half, passes, updated) ==
    [status |-> status, trials |-> 3, shown |-> 3, successes |-> successes,
     accuracy |-> accuracy, half |-> half, passes |-> passes, cost |-> 5,
     created |-> 1, updated |-> updated]

MCScores ==
    {Scored("display", 1, 3333, 400, << >>, 1),
     Scored("display", 2, 6667, 4000, "pass2" :> 7000 @@ "pass3" :> 7000, 2),
     Scored("hide", 2, 6667, 4000, << >>, 2),
     Scored("display", 1, 3300, 0, << >>, 1),
     Scored("display", 2, 6667, 0, "pass2" :> 7000 @@ "pass3" :> 6800, 1),
     Scored("display", 2, 6667, 0, << >>, 3)}

\* Boards with one row and with two.
Schema(required, fields, maximum) ==
    [required |-> required, properties |-> [f \in fields |-> [minimum |-> 0, maximum |-> maximum]]]

Board(d, list) == [dataset |-> d, schema |-> Schema({}, {"pass2", "pass3"}, 10000), rows |-> list]

MCBoards ==
    LET Row(id, system) ==
            [id |-> id, system |-> system, score |-> Scored("display", 1, 3333, 400, << >>, 1)]
    IN  {Board(1, <<Row(1, s1)>>), Board(1, <<Row(1, s1), Row(2, s2)>>)}

\* Another dataset, one field more, another bound, a field that is required, and
\* one less that is read.
MCVersions ==
    {<<2, Schema({}, {"pass2", "pass3"}, 10000)>>,
     <<1, Schema({}, {"pass2", "pass3", "pass4"}, 10000)>>,
     <<1, Schema({}, {"pass2", "pass3"}, 6000)>>,
     <<1, Schema({"pass2"}, {"pass2", "pass3"}, 10000)>>,
     <<1, Schema({}, {"pass2"}, 10000)>>}

MCClaims == {<<"projection", 1>>, <<"projection", 2>>, <<"exact", 1>>}

\* Captures by both versions, launched and attached.
MCSetups ==
    {[version |-> v, architecture |-> "linux_split_cuda", launched |-> TRUE, matches |-> {}] :
        v \in 1 .. 2}
    \cup {[version |-> 2, architecture |-> a, launched |-> FALSE, matches |-> {Worker}] :
        a \in {"linux_split_cuda", "apple_unified"}}
    \cup {[version |-> 1, architecture |-> "apple_unified", launched |-> FALSE, matches |-> {}]}

\* Two tool calls, with and without a prefix cache, and one to a server without
\* statistics; prompts for two tokenizers.
MCPlan(mode, repetitions, cache, statistics, rate, target) ==
    [mode |-> mode, repetitions |-> repetitions, cache |-> cache, statistics |-> statistics,
     rate |-> rate, target |-> target]

MCPlans ==
    {MCPlan("tool", 2, cache, TRUE, 1, 1) : cache \in BOOLEAN}
    \cup {MCPlan("tool", 1, TRUE, FALSE, 1, 1)}
    \cup {MCPlan("retrieval", 1, FALSE, TRUE, rate, target) : rate \in {1, 3}, target \in {1, 4, 7}}

\* What Codex reports, with and without writes to the cache; and calls in the
\* ledger of Hermes, by a second model and beside the main loop among them.
MCUsages ==
    [total : {1, 2}, read : 0 .. 1, write : {0, 1, None}, output : {1}, reasoning : {0, 2}]

Call(auxiliary, route, status, from, estimated, actual) ==
    [auxiliary |-> auxiliary, route |-> route, tokens |-> 1,
     cost |-> [status |-> status, from |-> from, estimated |-> estimated, actual |-> actual]]

MCCalls ==
    {Call(FALSE, r, "actual", "provider", None, 2) : r \in {Route, Other}}
    \cup {Call(FALSE, Route, "estimated", "docs", 1, 0), Call(TRUE, Route, "included", "none", 0, 0),
          Call(TRUE, Route, None, None, 1, None)}

\* One offering with signals that are the total of a bill, a component of it and
\* none of it: measured, reported or estimated, old, undated or of the future; its
\* first axis read from a signal, by a formula or from an oracle.
Descriptor(id, version) == [id |-> id, version |-> version]
MCTotalBasis == [total |-> "total", part |-> "component", speed |-> None]

AnyTier == {"measured", "reported", "estimated"}
Loose == [age |-> None, samples |-> None, bounds |-> FALSE, source |-> FALSE, tiers |-> AnyTier]
Recent == [Loose EXCEPT !.age = 1]
Sampled == [Loose EXCEPT !.samples = 2, !.source = TRUE]

ReadPath(root, name) == [op |-> "path", root |-> root, name |-> name]
Signal(s) == ReadPath("signals", s)
Constant(n) == [op |-> "number", value |-> n]
Operation(op, arguments) == [op |-> op, arguments |-> arguments]

SignalMetric(s, required) ==
    [kind |-> "signal", signal |-> s, unit |-> "u", required |-> required]
FormulaMetric(formula, basis, required) ==
    [kind |-> "formula", formula |-> formula, basis |-> basis, required |-> required]
OracleMetric(answer) ==
    [kind |-> "oracle", oracle |-> "oracle", answer |-> answer, unit |-> "u",
     required |-> Recent]

IfFast(then, else) ==
    Operation("if", <<Operation("less", <<Signal("speed"), Constant(2)>>), then, else>>)
Formulas ==
    {<<Operation(op, <<Signal("total"), Signal("speed")>>), "total">> :
        op \in {"coalesce", "add", "max"}}
    \cup {<<Operation("add", <<Signal("total"), Signal("part")>>), "total">>,
          <<IfFast(Signal("total"), Signal("part")), "total">>,
          <<IfFast(Constant(3), Signal("part")), "component">>,
          <<Operation("div", <<ReadPath("workload", "size"), Signal("speed")>>), None>>,
          <<Operation("add", <<Signal("speed"), ReadPath("metadata", "size")>>), None>>}

Observation(value, tier, at, samples, bounded, from) ==
    [value |-> value, tier |-> tier, at |-> at, samples |-> samples, bounded |-> bounded,
     source |-> from, unit |-> "u"]
Answers ==
    {None, Observation(1, "measured", 0, None, TRUE, Descriptor("t", 1)),
     Observation(1, "measured", 3, 1, TRUE, Descriptor("s", 2))}
Totals ==
    {Observation(1, "measured", 1, 2, TRUE, None),
     Observation(2, "reported", 0, None, FALSE, Descriptor("s", 1)),
     Observation(1, "estimated", 3, 1, TRUE, Descriptor("t", 1)),
     Observation(2, "measured", None, 2, TRUE, Descriptor("t", 1)),
     Observation(1, "measured", 0, 3, FALSE, Descriptor("s", 2))}
Speeds ==
    {Observation(1, "measured", 1, 2, TRUE, None),
     Observation(0, "measured", 0, 1, TRUE, Descriptor("t", 1)),
     Observation(2, "reported", None, None, FALSE, Descriptor("s", 1))}
Component == Observation(2, "measured", 1, 1, TRUE, None)

Offerings ==
    [signals : [total : Totals, part : {Component}, speed : Speeds]
                 \cup [part : {Component}, speed : Speeds]
                 \cup [total : Totals, part : {Component}],
     source : {None, Descriptor("s", 1)}, metadata : {[size |-> 1]}, provider : {"p"},
     capabilities : {{}}, public : {TRUE}, billing : {None}]

FirstMetrics ==
    {SignalMetric("total", r) : r \in {Loose, Recent, Sampled}}
    \cup {FormulaMetric(f[1], f[2], r) : f \in Formulas, r \in {Loose, Recent}}
    \cup {OracleMetric(a) : a \in Answers}

Policy(metric, gated, robust, unknownAge, limits, sources) ==
    [axes |-> <<metric, SignalMetric("part", Loose)>>,
     gates |-> IF gated THEN {[metric |-> SignalMetric("speed", Loose), minimum |-> 1, maximum |-> 2]} ELSE {},
     values |-> [minimum |-> 0, maximum |-> 3],
     robust |-> robust, unknownAge |-> unknownAge, limits |-> limits,
     workload |-> [size |-> 2], sources |-> sources, providers |-> {}, capabilities |-> {}]
Policies ==
    {Policy(m, FALSE, FALSE, u, l, {Descriptor("t", 1)}) :
        m \in FirstMetrics, u \in BOOLEAN, l \in {<< >>, [t |-> 1]}}
    \cup {Policy(m, FALSE, TRUE, TRUE, << >>, {Descriptor("t", 1)}) : m \in FirstMetrics}
    \cup {Policy(m, TRUE, r, TRUE, << >>, {Descriptor("s", 2)}) : r \in BOOLEAN, m \in FirstMetrics}
MCTasks == {[policy |-> p, catalog |-> <<o>>] : p \in Policies, o \in Offerings}

\* Leaderboards of two tasks or two sections; accounting that agrees or does not.
TaskOf(score, cost, attempts) ==
    [score |-> score, cost |-> cost, attempts |-> attempts, tokens |-> 1]
Solved(tasks) == [t \in tasks |-> TaskOf(1, 1, 1)]
HalfSolved == [t \in {1, 2} |-> TaskOf(t - 1, t - 1, 1)]
TaskRecords ==
    {Solved({1, 2}), Solved({1, 3}), Solved({1}), Solved({0, 1}), HalfSolved,
     [t \in {1, 2} |-> TaskOf(IF t = 1 THEN None ELSE 1, 1, 1)]}
SweRow(id, tasks, score, cost) ==
    [id |-> id, cohort |-> "ours", drifted |-> FALSE, dated |-> TRUE, models |-> {1}, tags |-> 1,
     tasks |-> tasks, claims |-> [score |-> score, cost |-> cost, perTask |-> cost, attempts |-> 2]]
PlainRow == SweRow(1, Solved({1, 2}), 2, 2)
FirstRows ==
    {SweRow(1, k, s, c) : k \in TaskRecords, s \in {1, 2}, c \in {1, 2}}
        \cup {[PlainRow EXCEPT !.drifted = TRUE], [PlainRow EXCEPT !.dated = FALSE],
              [PlainRow EXCEPT !.tags = 2], [PlainRow EXCEPT !.cohort = "other"]}
SecondRows ==
    {SweRow(2, k, 2, 2) : k \in TaskRecords} \cup {PlainRow, [PlainRow EXCEPT !.cohort = "other"]}
SweBoards ==
    {[kind |-> "swe", rows |-> ranks] :
        ranks \in {<<f>> : f \in FirstRows} \cup {<<f, s>> : f \in FirstRows, s \in SecondRows}}

ArcFile(first, second, claims, drifted) ==
    [drifted |-> drifted, tasks |-> [t \in {1, 2} |-> IF t = 1 THEN first ELSE second],
     claims |-> claims]
ArcClaims ==
    {c \in [score : {1, 2}, tasks : {2}, attempts : {1, 2}, cost : 0 .. 2, perTask : 0 .. 2,
             perAttempt : {None, 0, 1}, tokens : {1, 2}] :
        /\ c.perTask \in {c.cost, 1}
        /\ c.perAttempt = None \/ 2 * c.perAttempt = c.perTask}
ArcTasks == {TaskOf(1, c, a) : c \in 0 .. 1, a \in 0 .. 1}
ArcFiles ==
    {ArcFile(f, s, c, FALSE) : f \in ArcTasks, s \in ArcTasks, c \in ArcClaims}
        \cup {ArcFile(f, TaskOf(None, 1, 1), c, d) :
                 f \in ArcTasks, c \in {k \in ArcClaims : k.attempts = 2}, d \in BOOLEAN}
ArcBoard(known, paths, found) ==
    [kind |-> "arc", revision |-> [reviewed |-> known, paths |-> paths], paths |-> {1},
     files |-> found]
ArcBoards ==
    {ArcBoard(TRUE, {1}, [p \in {1} |-> f]) : f \in ArcFiles}
        \cup {ArcBoard(TRUE, {1}, << >>), ArcBoard(FALSE, {1}, << >>), ArcBoard(TRUE, {1, 2}, << >>)}

MarkRow(tasks, pass, runs, in, out) ==
    [model |-> "m", scoresOnly |-> FALSE, tasks |-> tasks, pass |-> pass, runs |-> runs,
     input |-> runs * in, output |-> runs * out, both |-> runs * (in + out),
     runInput |-> in, runOutput |-> out, average |-> (runs * in * 10) \div tasks]
ScoreRow(tasks, pass) ==
    [MarkRow(tasks, pass, 1, 0, 0) EXCEPT !.scoresOnly = TRUE, !.input = None, !.output = None]
Summary(overall, first, second) == [overall |-> overall, first |-> first, second |-> second]
OneSystem(one) == [a \in {"a"} |-> one]
TwoSystems(one, other) == [a \in {"a", "b"} |-> IF a = "a" THEN one ELSE other]
Passes == {0, 2, 3, 5, 7, 8, 10}
MarkBoards ==
    {[kind |-> "mcpmark",
      summary |-> Summary(OneSystem(MarkRow(4, o, runs, 2 * u, 2 * v)),
                          OneSystem(MarkRow(2, p, runs, u, v)),
                          OneSystem(MarkRow(2, q, runs, u, v)))] :
        o \in Passes, p \in Passes, q \in Passes, runs \in {1, 2}, u \in {0, 1}, v \in {0, 1}}
    \cup {[kind |-> "mcpmark",
           summary |-> Summary(TwoSystems(MarkRow(4, 5, 1, 2, 2), x),
                               TwoSystems(MarkRow(2, 5, 1, 1, 1), y),
                               TwoSystems(MarkRow(t, 5, 1, 1, 1), z))] :
        x \in {ScoreRow(4, 5), MarkRow(4, 5, 1, 2, 2)},
        y \in {ScoreRow(2, 5), MarkRow(2, 5, 1, 1, 1)},
        z \in {ScoreRow(2, 5), MarkRow(2, 5, 1, 1, 1)}, t \in {1, 2}}

AiderRow(id, first, second, rate, cost, dirty) ==
    [id |-> id, cases |-> 2, first |-> first, second |-> second, firstRate |-> 5 * first,
     secondRate |-> rate, cost |-> cost, dirty |-> dirty]
AiderRows ==
    {AiderRow(1, f, s, r, c, d) :
        f \in 0 .. 1, s \in 0 .. 2, r \in {0, 5, 7, 10}, c \in 0 .. 1, d \in BOOLEAN}
AiderBoards ==
    {[kind |-> "aider", includeDirty |-> FALSE, rows |-> ranks] :
        ranks \in {<<r>> : r \in AiderRows}
                   \cup {<<r, AiderRow(i, 1, 1, 5, 1, d)>> : r \in AiderRows, i \in {1, 2}, d \in BOOLEAN}}

\* Runs of a component, of one worker and of a router with a worker, over two cases or
\* two repetitions of one.
Spent(calls, cost) == [calls |-> calls, cost |-> cost]
CaseResult(id, repetition, used, calls, cost, heavy, success, stages, tool) ==
    [id |-> id, repetition |-> repetition, digest |-> id, correct |-> success,
     success |-> success, valid |-> TRUE, abstained |-> ~ success, unsafe |-> FALSE,
     usage |-> used, calls |-> calls, heavy |-> heavy, cost |-> cost, primary |-> stages[1],
     router |-> stages[2], routerAbstained |-> IF stages[2] = None THEN None ELSE FALSE,
     tool |-> tool]
Routed(id, worker, success, stages, tool) ==
    CaseResult(id, 1, [c \in {"router", "worker"} |-> IF c = "router" THEN Spent(1, 1) ELSE worker],
               1 + worker.calls, 1 + worker.cost, worker.calls, success, stages, tool)
Alone(c, repetition, success, primary) ==
    CaseResult(1, repetition, [d \in {c} |-> Spent(1, 2)], 1, 2, IF c = "worker" THEN 1 ELSE 0,
               success, <<primary, None>>, None)
PartOf(role) == [role |-> role, heavy |-> role = "worker"]
DecisionRun(type, roles, ids, repetitions, results) ==
    [kind |-> "decisions",
     run |-> [kind |-> type, system |-> [c \in roles |-> PartOf(c)], harness |-> TRUE,
              capabilities |-> {"structured-decisions", "compound-system"}, sourced |-> TRUE,
              retrieved |-> 0, observed |-> 1, basis |-> "billed", repetitions |-> repetitions,
              count |-> Cardinality(ids), manifest |-> {<<id, id>> : id \in ids},
              results |-> results]]
Stages == {None, TRUE, FALSE} \X {None, TRUE, FALSE}
CompoundRun(f, s) == DecisionRun("compound", {"router", "worker"}, {1, 2}, 1, <<f, s>>)
FirstResults ==
    {Routed(1, Spent(n, n), s, k, t) : n \in {0, 2}, s \in BOOLEAN, k \in Stages, t \in {None, FALSE}}
SecondResults == {Routed(2, Spent(1, 1), s, k, None) : s \in BOOLEAN, k \in Stages}
UsualResult == Routed(1, Spent(1, 1), TRUE, <<TRUE, TRUE>>, TRUE)
OtherResult == Routed(2, Spent(1, 1), TRUE, <<TRUE, TRUE>>, TRUE)
UsualRun == CompoundRun(UsualResult, OtherResult)
DecisionBoards ==
    {CompoundRun(f, s) : f \in FirstResults, s \in SecondResults}
    \cup {CompoundRun(f, OtherResult) :
            f \in {[UsualResult EXCEPT !.id = 3], [UsualResult EXCEPT !.id = 2],
                   [UsualResult EXCEPT !.digest = 2], [UsualResult EXCEPT !.repetition = 2],
                   [UsualResult EXCEPT !.calls = 3], [UsualResult EXCEPT !.heavy = 2],
                   [UsualResult EXCEPT !.cost = 1], [UsualResult EXCEPT !.unsafe = TRUE],
                   [UsualResult EXCEPT !.valid = FALSE], [UsualResult EXCEPT !.cost = None]}}
    \cup {[UsualRun EXCEPT !.run.basis = "unavailable"], [UsualRun EXCEPT !.run.sourced = FALSE],
          [UsualRun EXCEPT !.run.retrieved = 2], [UsualRun EXCEPT !.run.harness = FALSE]}
    \cup {DecisionRun(k, {c}, {1}, 2, <<Alone(c, 1, f, p), Alone(c, 2, s, None)>>) :
            k \in {"component", "single"}, c \in {"decision", "worker"},
            f, s \in BOOLEAN, p \in {None, TRUE}}

\* Analyses of two items, as they are and with a part that disagrees with the others.
WattBoard(binding, items, change) ==
    [kind |-> "watt", binding |-> binding, items |-> items, change |-> change]
ExactBinding ==
    [model |-> "m", basis |-> "soc", reviewed |-> TRUE, local |-> TRUE, apple |-> TRUE,
     observed |-> 0, retrieved |-> 1]
Asked(outcome, energy) == [outcome |-> outcome, energy |-> energy, power |-> 2]
Answered == {Asked(k, e) : k \in {"correct", "wrong"}, e \in {None, 1, 3}}
UsualItems == <<Asked("correct", 1), Asked("wrong", 3)>>
StatsFrom(least, total, most) == [count |-> 2, least |-> least, total |-> total, most |-> most]
WattBoards ==
    {WattBoard(ExactBinding, <<i, j>>, << >>) :
        i \in Answered, j \in Answered \cup {Asked(k, None) : k \in {"unevaluated", "failed", "empty"}}}
    \cup {WattBoard(c, UsualItems, << >>) :
            c \in {[ExactBinding EXCEPT !.reviewed = FALSE], [ExactBinding EXCEPT !.local = FALSE],
                   [ExactBinding EXCEPT !.model = "n"], [ExactBinding EXCEPT !.basis = "gpu"],
                   [ExactBinding EXCEPT !.observed = 2]}}
    \cup {WattBoard(ExactBinding, UsualItems, change) :
            change \in {"accuracy" :> <<1, 1>>, "covered" :> <<1, 1>>, "derived" :> 1, "records" :> 1,
                        "truncated" :> 1, "energy" :> StatsFrom(3, 4, 3), "joules" :> 3,
                        "power" :> StatsFrom(2, 4, 1), "perJoule" :> None, "perWatt" :> <<1, 2>>}}

MCLeaderboards ==
    SweBoards \cup ArcBoards \cup MarkBoards \cup AiderBoards \cup DecisionBoards
        \cup WattBoards

----------------------------------------------------------------------------
LocalIdle == records = << >>
ObservedIdle == series = <<0>>
TraceIdle == trace = << >>
ReadIdle ==
    /\ files = << >> /\ path = 0 /\ time = 0 /\ changes = 0 /\ blurred = FALSE
    /\ reader = [pc |-> "idle"] /\ moments = {}
HarborIdle ==
    /\ board = Board(0, << >>)
    /\ reviewed = << >> /\ boardChanges = 0
TraceRowIdle == row = Draft(3, << >>)
CaptureIdle ==
    /\ setup = [version |-> 1] /\ procs = << >> /\ asked = [stop |-> FALSE]
    /\ events = 0 /\ call = [pc |-> "start"] /\ high = << >> /\ alone = TRUE
MatrixIdle ==
    /\ plan = [mode |-> "tool"] /\ server = << >> /\ request = [pc |-> "ready"]
    /\ sampler = << >> /\ rows = << >> /\ output = [written |-> {}, pc |-> "none"] /\ noise = 0
TelemetryIdle ==
    /\ source = "none" /\ upstream = << >> /\ usageReader = [pc |-> "idle"]
MetricIdle ==
    /\ task = None
    /\ clock = 0
    /\ snapshot = None
BenchIdle ==
    /\ leaderboard = [kind |-> "none"]
    /\ forgotten = 0

Init ==
    /\ part \in {"local", "observed", "row", "trace", "read", "harbor", "capture", "matrix",
                 "usage", "metric", "bench"}
    /\ IF part = "local" THEN Local!Init ELSE LocalIdle
    /\ IF part = "observed" THEN Observed!Init ELSE ObservedIdle
    /\ IF part = "row" THEN TraceRow!Init ELSE TraceRowIdle
    /\ IF part = "trace" THEN Trace!Init ELSE TraceIdle
    /\ IF part = "read" THEN Reading!Init ELSE ReadIdle
    /\ IF part = "harbor" THEN Harbor!Init ELSE HarborIdle
    /\ IF part = "capture" THEN Capture!Init ELSE CaptureIdle
    /\ IF part = "matrix" THEN Matrix!Init ELSE MatrixIdle
    /\ IF part = "usage" THEN Telemetry!Init ELSE TelemetryIdle
    /\ IF part = "metric" THEN Metric!Init ELSE MetricIdle
    /\ IF part = "bench" THEN Bench!Init ELSE BenchIdle

Others ==
    /\ part' = part
    /\ IF part = "local" THEN TRUE ELSE UNCHANGED records
    /\ IF part = "observed" THEN TRUE ELSE UNCHANGED series
    /\ IF part = "row" THEN TRUE ELSE UNCHANGED row
    /\ IF part = "trace" THEN TRUE ELSE UNCHANGED trace
    /\ IF part = "read" THEN TRUE ELSE UNCHANGED readVars
    /\ IF part = "harbor" THEN TRUE ELSE UNCHANGED boardVars
    /\ IF part = "capture" THEN TRUE ELSE UNCHANGED captureVars
    /\ IF part = "matrix" THEN TRUE ELSE UNCHANGED matrixVars
    /\ IF part = "usage" THEN TRUE ELSE UNCHANGED usageVars
    /\ IF part = "metric" THEN TRUE ELSE UNCHANGED metricVars
    /\ IF part = "bench" THEN TRUE ELSE UNCHANGED benchVars

MeasureLocally == part = "local" /\ Local!Next /\ Others
Observe == part = "observed" /\ Observed!Next /\ Others

WriteRow == part = "row" /\ TraceRow!Next /\ Others
WriteTrace == part = "trace" /\ Trace!Next /\ Others
ReadFile == part = "read" /\ Reading!Next /\ Others
ImportBoard == part = "harbor" /\ Harbor!Next /\ Others
CaptureMemory == part = "capture" /\ Capture!Next /\ Others
MeasureMatrix == part = "matrix" /\ Matrix!Next /\ Others
ReadUsage == part = "usage" /\ Telemetry!Next /\ Others
EstimateAxes == part = "metric" /\ Metric!Next /\ Others
ImportScores == part = "bench" /\ Bench!Next /\ Others

Next ==
    \/ MeasureLocally \/ Observe \/ WriteRow \/ WriteTrace \/ ReadFile
    \/ ImportBoard \/ CaptureMemory \/ MeasureMatrix \/ ReadUsage
    \/ EstimateAxes \/ ImportScores

vars ==
    <<part, records, series, row, trace, readVars, boardVars, captureVars,
      matrixVars, usageVars, metricVars, benchVars>>

Spec == Init /\ [][Next]_vars

----------------------------------------------------------------------------
\* Properties, each of several components; their modules say more.

(***************************************************************************)
(* Evidence is of what it says it is of: it does not depend on the order   *)
(* in which records were captured; what is read of a file or a database    *)
(* was there at one moment, although others write it; rows are accepted as *)
(* one contract has it; a result is of the row that was reviewed, a call   *)
(* of the unit it was signed for; and of several systems that run at one   *)
(* time none counts for another.                                           *)
(***************************************************************************)
EvidenceIsConsistent ==
    /\ part = "local" => Local!OrderIsFree /\ Local!UncachedIsCold
    /\ part = "read" => Reading!ReadIsOfOneMoment
    /\ part = "row" => TraceRow!ChecksAgree /\ TraceRow!SchemaIsOfSameContract
    /\ part = "harbor" => Harbor!ImportedAsReviewed /\ Harbor!ScoreIsOfCounts
    /\ part = "capture" => Capture!DeviceWasNotShared
    /\ part = "matrix" =>
          /\ Matrix!PromptIsShortest /\ Matrix!WrittenIsOwn /\ Matrix!PeakIsOfRequest
    /\ part = "usage" => Telemetry!NamesTellCallsApart /\ Telemetry!SnapshotIsOfOneMoment

(***************************************************************************)
(* What failed stays visible and counts: no summary is made of what        *)
(* passed alone, and no command that failed runs on.                       *)
(***************************************************************************)
FailuresStay ==
    /\ part = "local" => Local!FailuresStay
    /\ part = "trace" => Trace!FailuresCount
    /\ part = "harbor" => Harbor!AllOrNothing
    /\ part = "capture" => Capture!CommandDoesNotOutlive
    /\ part = "matrix" => Matrix!EveryRepetitionCounts
    /\ part = "bench" => Bench!EveryRowCounts

(***************************************************************************)
(* What is counted in several ways, by meters, calls, stages or axes, adds *)
(* up, and what was not measured is not made up: a total, a cost, a score  *)
(* or a peak is known only if everything it is made of was.                *)
(***************************************************************************)
EvidenceAddsUp ==
    /\ part = "trace" => Trace!TotalsAreExactOrAbsent /\ Trace!CacheHitsAreShare
    /\ part = "observed" => Observed!ValueIsWithin
    /\ part = "capture" => Capture!PeakIsOfWholeTree
    /\ part = "usage" => Telemetry!UsageIsWholeAndOwn /\ Telemetry!PartsMakeUpTotal
    /\ part = "metric" =>
          /\ Metric!EstimateRestsOnItsPaths
          /\ Metric!CostsAreOfOneBill
          /\ Metric!OnlyOraclesSurprise
          /\ Metric!IdIsOfOneSnapshot
          /\ Metric!MissingIsNotZero
          /\ Metric!AskingMoreAdmitsLess
    /\ part = "bench" =>
          /\ Bench!ScoresCompare
          /\ Bench!SuccessesAddUp
          /\ Bench!RescuesAccount
          /\ Bench!CostIsOfAttempts

(***************************************************************************)
(* One more record, or one meter less, changes what it should and in the   *)
(* direction it should: what is known of less is not better, and no score  *)
(* changes for want of accounting; and a file that was replaced meanwhile  *)
(* is not read.                                                            *)
(***************************************************************************)
MoreEvidenceOnlyRefines ==
    /\ Local!CapacityOnlyGrows
    /\ Observed!MovesTowardsSample
    /\ TraceRow!KnowingLessIsFine
    /\ Trace!FailureNeverHelps
    /\ Reading!ReadIsNotReplaced
    /\ Harbor!ScoresChangeNoMapping
    /\ Telemetry!ResultIsNeverExtended
    /\ Telemetry!KnowingLessIsFine
    /\ Telemetry!CostOnlyLessCertain
    /\ Metric!TimeOnlyTakesAway
    /\ Bench!ScoresNeedNoAccounting
=============================================================================
