-------------------------- MODULE BenchmarkEvidence --------------------------
(***************************************************************************)
(* Benchmarks as evidence: the SWE-bench website, the files of ARC-AGI,    *)
(* the summary of MCPMark, the table of Aider, runs of structured          *)
(* decisions and analyses of intelligence per watt.  Each reports a score  *)
(* next to what it is the score of, tasks, sections or cases, and          *)
(* accounting that may be missing or wrong; an adapter recomputes the      *)
(* score, keeps what agrees, and refuses a row or the whole source.        *)
(*                                                                         *)
(* A mean over the tasks of a benchmark is written as the sum it is the    *)
(* mean of, and a tolerance far below the unit as equality; the rounding   *)
(* of MCPMark's and Aider's numbers is kept, a number counting Quantum to  *)
(* the unit.                                                               *)
(***************************************************************************)
EXTENDS Integers, FiniteSets, SequencesExt

CONSTANTS
    None,
    Leaderboards,   \* what the leaderboards may hold
    TaskSet,        \* the tasks of the benchmark; 0 is no name of a task
    Quantum,        \* a reported score is rounded to a multiple of 1 / Quantum
    MaxForgotten    \* how often accounting is lost

VARIABLES
    board,          \* [kind, ...]: what is imported
    forgotten

benchmarkVars == <<board, forgotten>>

Refused == << >>
InvalidRow == [valid |-> FALSE]
Valid(score, accounting) == [valid |-> TRUE, score |-> score, accounting |-> accounting]

SumOf(f) == FoldFunction(LAMBDA a, b : a + b, 0, f)
Counted(tasks, field) == [t \in DOMAIN tasks |-> tasks[t][field]]

\* The sum of a field over all tasks; unknown if it is of any.
KnownOnly(tasks, field) ==
    SumOf([t \in {u \in DOMAIN tasks : tasks[u][field] # None} |-> tasks[t][field]])
Total(tasks, field) ==
    IF \E t \in DOMAIN tasks : tasks[t][field] = None THEN None
    ELSE SumOf(Counted(tasks, field))

----------------------------------------------------------------------------
\* SWE-bench: rows of one board, of several agents and versions of them.
Selected(rows) == SelectSeq(rows, LAMBDA row : row.cohort = "ours")

Complete(row) == Cardinality(DOMAIN row.tasks) = Cardinality(TaskSet)
WellNamed(row) == \A t \in DOMAIN row.tasks : t > 0

AnyTaskSets(rows) == {TaskSet}
TaskSets(rows) ==
    {DOMAIN rows[i].tasks : i \in {j \in DOMAIN rows : Complete(rows[j]) /\ WellNamed(rows[j])}}

\* All of the accounting or none of it.
SweAccounting(row) ==
    LET cost == Total(row.tasks, "cost")
        calls == Total(row.tasks, "attempts")
    IN  IF /\ cost # None /\ calls # None
           /\ row.claims.cost = cost /\ row.claims.perTask = cost
           /\ row.claims.attempts = calls
        THEN [cost |-> cost, attempts |-> calls] ELSE << >>

SweResult(row) ==
    IF /\ Complete(row) /\ WellNamed(row)
       /\ Total(row.tasks, "score") # None
       /\ row.claims.score = Total(row.tasks, "score")
       /\ row.dated
    THEN Valid(row.claims.score, SweAccounting(row)) ELSE InvalidRow

\* A row names its system: no model is claimed twice.
SubjectIsSound(row) == ~ row.drifted /\ Cardinality(row.models) = row.tags
Repeats(rows) == \E i, j \in DOMAIN rows : i # j /\ rows[i].id = rows[j].id

OneResultEach(rows) == [i \in DOMAIN rows |-> SweResult(rows[i])]
ValidResults(rows) == [i \in {j \in DOMAIN rows : SweResult(rows[j]).valid} |-> SweResult(rows[i])]
Results(rows) == OneResultEach(rows)

\* normalize_swe_bench_bytes
SweOf(rows) ==
    IF \/ rows = << >>
       \/ \E i \in DOMAIN rows : ~ SubjectIsSound(rows[i])
       \/ Cardinality(TaskSets(rows)) # 1
       \/ Repeats(rows)
    THEN Refused ELSE Results(rows)
Swe(rows) == SweOf(Selected(rows))

----------------------------------------------------------------------------
\* ARC-AGI: a file for each system.
AttemptsAgree(file) ==
    /\ Total(file.tasks, "attempts") # None
    /\ file.claims.attempts = Total(file.tasks, "attempts")

FreeIsKnown(file, cost, attempts) ==
    file.claims.cost = cost /\ file.claims.perTask = cost
CostAgrees(file, cost, attempts) ==
    /\ attempts > 0 /\ cost > 0
    /\ file.claims.cost = cost /\ file.claims.perTask = cost
    /\ file.claims.perAttempt # None /\ file.claims.perAttempt * attempts = cost

\* Each dimension for itself; a cost only with the attempts it was spent on.
Dimensions(file) ==
    (IF AttemptsAgree(file) THEN {"attempts"} ELSE {})
    \cup (IF /\ AttemptsAgree(file) /\ Total(file.tasks, "cost") # None
             /\ CostAgrees(file, Total(file.tasks, "cost"), Total(file.tasks, "attempts"))
          THEN {"cost"} ELSE {})
    \cup (IF /\ Total(file.tasks, "tokens") # None
             /\ file.claims.tokens = Total(file.tasks, "tokens")
          THEN {"tokens"} ELSE {})

ArcResult(file) ==
    IF \/ file.drifted
       \/ DOMAIN file.tasks # TaskSet
       \/ file.claims.tasks # Cardinality(DOMAIN file.tasks)
       \/ Total(file.tasks, "score") = None
       \/ file.claims.score # Total(file.tasks, "score")
    THEN InvalidRow
    ELSE Valid(file.claims.score,
               [d \in Dimensions(file) |-> Total(file.tasks, d)])

\* The revision says that it is the reviewed one, public, of the known license and
\* of the known paths.
RevisionIsReviewed(revision, paths) == revision.reviewed /\ revision.paths = paths

\* _normalize_arc_agi_public_eval_bytes
Arc(b) ==
    IF RevisionIsReviewed(b.revision, b.paths) /\ DOMAIN b.files = b.paths
    THEN [p \in b.paths |-> ArcResult(b.files[p])] ELSE Refused

----------------------------------------------------------------------------
\* MCPMark: a summary of sections, each with a row for every system.
Services(summary) == DOMAIN summary \ {"overall"}

Near(difference, tolerance) == difference <= tolerance /\ 0 - difference <= tolerance

\* An average is rounded to half a quantum, so the total is within that of each task.
Averaged(row) == Near(2 * (row.average * row.tasks - row.input * Quantum), row.tasks)

RowIsSound(row) ==
    /\ row.tasks > 0 /\ row.pass \in 0 .. Quantum
    /\ IF row.scoresOnly
       THEN row.input = None /\ row.output = None
       ELSE /\ row.input # None /\ row.output # None
            /\ row.both = row.input + row.output
            /\ Averaged(row)
            /\ row.runInput <= row.input /\ row.runOutput <= row.output

Identity(row) == <<row.model, row.scoresOnly>>

OneQuantumEach(overall, components) == 4 * overall
ScoreTolerance(overall, components) == overall + components

Roster(summary) ==
    \A s \in DOMAIN summary : DOMAIN summary[s] = DOMAIN summary["overall"]
TasksOf(summary, s) == {summary[s][a].tasks : a \in DOMAIN summary[s]}
OneTaskCount(summary) == \A s \in DOMAIN summary : Cardinality(TasksOf(summary, s)) = 1
TasksAddUp(summary, a) ==
    summary["overall"][a].tasks = SumOf([s \in Services(summary) |-> summary[s][a].tasks])
SystemAgrees(summary, a) ==
    /\ \A s \in Services(summary) : Identity(summary[s][a]) = Identity(summary["overall"][a])
    /\ TasksAddUp(summary, a)
    /\ Near(2 * (summary["overall"][a].pass * summary["overall"][a].tasks
                   - SumOf([s \in Services(summary) |-> summary[s][a].pass * summary[s][a].tasks])),
            ScoreTolerance(summary["overall"][a].tasks,
                           SumOf([s \in Services(summary) |-> summary[s][a].tasks])))
    /\ ~ summary["overall"][a].scoresOnly =>
          /\ summary["overall"][a].input
                = SumOf([s \in Services(summary) |-> summary[s][a].input])
          /\ summary["overall"][a].output
                = SumOf([s \in Services(summary) |-> summary[s][a].output])

CohortIsSound(summary) ==
    /\ \A s \in DOMAIN summary :
          summary[s] # << >> /\ \A a \in DOMAIN summary[s] : RowIsSound(summary[s][a])
    /\ Roster(summary)
    /\ OneTaskCount(summary)
    /\ \A a \in DOMAIN summary["overall"] : SystemAgrees(summary, a)

\* One run, if both totals are those of a run.
InputIsOfRun(row) == row.input = row.runInput
SingleRun(row) == row.input = row.runInput /\ row.output = row.runOutput

\* The number of successes, if only one rounds to the reported score.
Candidates(row) ==
    {n \in 0 .. row.tasks : Near(2 * (n * Quantum - row.pass * row.tasks), row.tasks)}
Successes(row) ==
    IF SingleRun(row) /\ Cardinality(Candidates(row)) = 1
    THEN CHOOSE n \in Candidates(row) : TRUE ELSE None

\* _catalogs_from_summary
McpMark(summary) ==
    IF ~ CohortIsSound(summary) THEN Refused
    ELSE [s \in DOMAIN summary |->
             [a \in {b \in DOMAIN summary[s] : ~ summary[s][b].scoresOnly} |->
                 Successes(summary[s][a])]]

----------------------------------------------------------------------------
\* Aider: rows of a table, each accepted or rejected for itself.
RateAgrees(rate, passed, cases) == Near(2 * (rate * cases - passed * Quantum), cases)

AnyCheckout(row, includeDirty) == TRUE
CheckoutIsClean(row, includeDirty) == row.dirty => includeDirty

Eligible(row, includeDirty) ==
    /\ row.cases = Cardinality(TaskSet)
    /\ 0 <= row.first /\ row.first <= row.second /\ row.second <= row.cases
    /\ row.second > 0
    /\ RateAgrees(row.firstRate, row.first, row.cases)
    /\ RateAgrees(row.secondRate, row.second, row.cases)
    /\ row.cost > 0
    /\ CheckoutIsClean(row, includeDirty)

\* normalize_aider_polyglot
Accepted(rows, includeDirty) == {i \in DOMAIN rows : Eligible(rows[i], includeDirty)}
AiderOf(rows, accepted) ==
    IF \/ accepted = {}
       \/ \E i, j \in accepted : i # j /\ rows[i].id = rows[j].id
    THEN Refused
    ELSE [accepted |-> accepted, rejected |-> DOMAIN rows \ accepted]
Aider(rows, includeDirty) == AiderOf(rows, Accepted(rows, includeDirty))

\* The cost of one solved task in halves of the last digit reported: at least, at
\* most, each times the tasks solved.
CostBounds(row) == [least |-> Max({0, 2 * row.cost - 1}), most |-> 2 * row.cost + 1]

----------------------------------------------------------------------------
\* Structured decisions: a run of a component, of one model or of several, with a
\* result for each repetition of each case.  One check of tools stands for the five;
\* latencies, probabilities and their scores are left out.
RolesOf(system) == {system[c].role : c \in DOMAIN system}
SystemIsSound(kind, system) ==
    CASE kind = "component" -> Cardinality(DOMAIN system) = 1 /\ RolesOf(system) = {"decision"}
      [] kind = "single" -> Cardinality(DOMAIN system) = 1 /\ RolesOf(system) = {"worker"}
      [] OTHER -> /\ Cardinality(DOMAIN system) >= 2
                  /\ RolesOf(system) \cap {"worker", "fallback"} # {}
                  /\ RolesOf(system) \cap {"router", "decision", "guardrail"} # {}

\* Only what is valid, safe and passes the checks of tools succeeds.
ResultIsCoherent(result) ==
    /\ result.heavy <= result.calls
    /\ SumOf(Counted(result.usage, "calls")) = result.calls
    /\ result.success => result.valid /\ ~ result.unsafe /\ result.tool # FALSE
    /\ result.correct => result.valid
    /\ (result.router = None) <=> (result.routerAbstained = None)

KindFits(run, result) ==
    CASE run.kind = "component" ->
            /\ "structured-decisions" \in run.capabilities
            /\ result.success = result.correct
            /\ result.router = None
      [] run.kind = "compound" -> "compound-system" \in run.capabilities /\ run.harness
      [] OTHER -> result.primary = None

\* Every case of the manifest and no other, and each in every repetition.
OfCase(run, id) == {i \in DOMAIN run.results : run.results[i].id = id}
CaseIds(run) == {run.results[i].id : i \in DOMAIN run.results}
AnyRepetitions(run) == TRUE
EveryRepetition(run) ==
    \A id \in CaseIds(run) :
        /\ Cardinality(OfCase(run, id)) = run.repetitions
        /\ {run.results[i].repetition : i \in OfCase(run, id)} = 1 .. run.repetitions
CasesArePinned(run) ==
    /\ \A i, j \in DOMAIN run.results :
          run.results[i].id = run.results[j].id => run.results[i].digest = run.results[j].digest
    /\ Cardinality(CaseIds(run)) = run.count
    /\ {<<run.results[i].id, run.results[i].digest>> : i \in DOMAIN run.results} = run.manifest

\* Calls and cost of a result are those of its components.
Heavy(system) == {c \in DOMAIN system : system[c].heavy}
UsageIsAttributed(run, result) ==
    /\ DOMAIN result.usage = DOMAIN run.system
    /\ result.heavy = SumOf(Restrict(Counted(result.usage, "calls"), Heavy(run.system)))
CostIsDeclared(run, result) ==
    LET costs == {result.cost} \cup {result.usage[c].cost : c \in DOMAIN result.usage}
    IN  IF run.basis = "unavailable" THEN costs = {None} ELSE None \notin costs
CostIsAttributed(run, result) ==
    /\ CostIsDeclared(run, result)
    /\ run.basis # "unavailable" => result.cost = SumOf(Counted(result.usage, "cost"))

RunIsSound(run) ==
    /\ SystemIsSound(run.kind, run.system)
    /\ run.sourced /\ run.retrieved <= run.observed
    /\ run.results # << >>
    /\ EveryRepetition(run)
    /\ CasesArePinned(run)
    /\ \A i \in DOMAIN run.results :
          /\ ResultIsCoherent(run.results[i])
          /\ UsageIsAttributed(run, run.results[i])
          /\ CostIsAttributed(run, run.results[i])
          /\ KindFits(run, run.results[i])

\* Each signal is a share or a mean of the results it is of, and none if it is of none.
Share(hits, of) == [sum |-> Cardinality(hits), of |-> Cardinality(of)]
Where(results, field, value) == {i \in DOMAIN results : results[i][field] = value}
EveryResult(results, field) == DOMAIN results
Reporting(results, field) == DOMAIN results \ Where(results, field, None)
Right(results, field) == Share(Where(results, field, TRUE), Reporting(results, field))

\* What the system made of the errors and of the successes of its first stage.
Rescued(results, first) ==
    Share({i \in Where(results, first, FALSE) : results[i].success}, Where(results, first, FALSE))
Harmed(results, first) ==
    Share({i \in Where(results, first, TRUE) : ~ results[i].success}, Where(results, first, TRUE))

CostPer(results, total, of) == [sum |-> total, of |-> IF total = None THEN 0 ELSE of]
SignalsOf(results) ==
    [accuracy |-> Right(results, "correct"), success |-> Right(results, "success"),
     schema |-> Right(results, "valid"), unsafe |-> Right(results, "unsafe"),
     coverage |-> Share(Where(results, "abstained", FALSE), DOMAIN results),
     autonomous |-> Share({i \in Where(results, "abstained", FALSE) : results[i].success},
                          Where(results, "abstained", FALSE)),
     calls |-> [sum |-> Total(results, "calls"), of |-> Len(results)],
     heavy |-> [sum |-> Total(results, "heavy"), of |-> Len(results)],
     cost |-> CostPer(results, Total(results, "cost"), Len(results)),
     costPerSuccess |-> CostPer(results, Total(results, "cost"),
                                Cardinality(Where(results, "success", TRUE))),
     primary |-> Right(results, "primary"), primaryRescue |-> Rescued(results, "primary"),
     primaryHarm |-> Harmed(results, "primary"),
     router |-> Right(results, "router"), routerRescue |-> Rescued(results, "router"),
     routerHarm |-> Harmed(results, "router"),
     routerCoverage |-> Share(Where(results, "routerAbstained", FALSE),
                              Reporting(results, "router")),
     tool |-> Right(results, "tool")]
Known(signals) == Restrict(signals, {s \in DOMAIN signals : signals[s].of > 0})

\* normalize_structured_decision_bytes
Decisions(run) == IF RunIsSound(run) THEN Known(SignalsOf(run.results)) ELSE Refused

----------------------------------------------------------------------------
\* Intelligence per watt: the analysis of the answers and of the telemetry of one
\* system.  A ratio is a pair; what is reported as average is here the total.
BindingIsExact(binding) ==
    /\ binding.reviewed /\ binding.local /\ binding.observed <= binding.retrieved
    /\ binding.apple => binding.basis = "soc"

SameRatio(r, s) == r[1] * s[2] = s[1] * r[2]
Replays(reported, r) == IF reported = None THEN r[1] = 0 ELSE SameRatio(reported, r)

StatsCover(stats, scored) ==
    /\ stats.count = scored
    /\ 0 < stats.least
    /\ scored * stats.least <= stats.total /\ stats.total <= scored * stats.most

NothingUnevaluated(analysis) == analysis.excluded["unevaluated"] = 0
NothingExcluded(analysis) ==
    \A reason \in {"unevaluated", "failed", "empty"} : analysis.excluded[reason] = 0
CountsCover(analysis) ==
    /\ analysis.scored > 0 /\ analysis.scored = analysis.correct + analysis.incorrect
    /\ NothingExcluded(analysis)
    /\ SameRatio(analysis.accuracy, <<analysis.correct, analysis.scored>>)
    /\ analysis.records = analysis.scored

AnyTelemetry(analysis) ==
    StatsCover(analysis.energy, analysis.scored) /\ StatsCover(analysis.power, analysis.scored)
IsMeasured(analysis) ==
    /\ analysis.truncated = 0 /\ analysis.imputed = 0
    /\ StatsCover(analysis.energy, analysis.scored)
    /\ StatsCover(analysis.power, analysis.scored)
    /\ analysis.joules = analysis.energy.total
    /\ analysis.derived + analysis.metered = analysis.scored
    /\ SameRatio(analysis.covered, <<analysis.correct, analysis.scored>>)

Per(correct, stats, scored) ==
    [value |-> <<correct, stats.total>>, least |-> <<correct, scored * stats.most>>,
     most |-> <<correct, scored * stats.least>>]

\* normalize_intelligence_per_watt_accuracy_bytes
Watt(binding, analysis) ==
    IF /\ BindingIsExact(binding)
       /\ analysis.model = binding.model /\ analysis.basis = binding.basis
       /\ CountsCover(analysis)
       /\ IsMeasured(analysis)
       /\ Replays(analysis.perJoule, <<analysis.correct, analysis.energy.total>>)
       /\ Replays(analysis.perWatt, <<analysis.correct, analysis.power.total>>)
    THEN [of |-> analysis.scored, accuracy |-> <<analysis.correct, analysis.scored>>,
          perJoule |-> Per(analysis.correct, analysis.energy, analysis.scored),
          perWatt |-> Per(analysis.correct, analysis.power, analysis.scored)]
    ELSE Refused

\* The analysis upstream makes of what was asked: it scores what was answered, and an
\* energy that was not measured is imputed.  A part of it may be wrong.
Measured(items, field) ==
    [i \in DOMAIN items |-> IF items[i][field] = None THEN 1 ELSE items[i][field]]
StatsOf(f) ==
    [count |-> Cardinality(DOMAIN f), total |-> SumOf(f),
     least |-> Min({f[i] : i \in DOMAIN f}), most |-> Max({f[i] : i \in DOMAIN f})]
With(items, outcome) == {i \in DOMAIN items : items[i].outcome = outcome}
Scored(items) == Restrict(items, With(items, "correct") \cup With(items, "wrong"))
AnalysisOf(items, correct, energy, power) ==
    [model |-> "m", basis |-> "soc", correct |-> correct, scored |-> energy.count,
     incorrect |-> Cardinality(With(items, "wrong")),
     excluded |-> [r \in {"unevaluated", "failed", "empty"} |-> Cardinality(With(items, r))],
     accuracy |-> <<correct, energy.count>>, covered |-> <<correct, energy.count>>,
     derived |-> 0, metered |-> power.count, records |-> energy.count, truncated |-> 0,
     imputed |-> Cardinality({i \in DOMAIN Scored(items) : items[i].energy = None}),
     energy |-> energy, power |-> power, joules |-> energy.total,
     perJoule |-> IF correct = 0 THEN None ELSE <<correct, energy.total>>,
     perWatt |-> IF correct = 0 THEN None ELSE <<correct, power.total>>]
Analysis(items) ==
    AnalysisOf(items, Cardinality(With(items, "correct")),
               StatsOf(Measured(Scored(items), "energy")),
               StatsOf(Measured(Scored(items), "power")))
Altered(analysis, change) ==
    [f \in DOMAIN analysis |-> IF f \in DOMAIN change THEN change[f] ELSE analysis[f]]
WattOf(b) == Watt(b.binding, Altered(Analysis(b.items), b.change))

----------------------------------------------------------------------------
\* What upstream may do: report less accounting; and the operator: admit dirty rows.
Fields == {"cost", "attempts", "tokens"}
ForgetField ==
    \/ /\ board.kind = "swe"
       /\ \E i \in DOMAIN board.rows, f \in Fields \ {"tokens"} :
             \E t \in DOMAIN board.rows[i].tasks :
                board' = [board EXCEPT !.rows[i].tasks[t][f] = None]
    \/ /\ board.kind = "arc"
       /\ \E p \in DOMAIN board.files, f \in Fields :
             \E t \in DOMAIN board.files[p].tasks :
                board' = [board EXCEPT !.files[p].tasks[t][f] = None]
    \/ /\ board.kind = "decisions"
       /\ \E i \in DOMAIN board.run.results :
             \E c \in DOMAIN board.run.results[i].usage :
                board' = [board EXCEPT !.run.results[i].usage[c].cost = None]
    \/ /\ board.kind = "watt"
       /\ \E i \in DOMAIN Scored(board.items) :
             board' = [board EXCEPT !.items[i].energy = None]

\* A run is written without one of its results.
LeaveOut ==
    /\ board.kind = "decisions"
    /\ forgotten < MaxForgotten
    /\ forgotten' = forgotten + 1
    /\ \E i \in DOMAIN board.run.results :
          board' = [board EXCEPT !.run.results = RemoveAt(@, i)]

Forget ==
    /\ forgotten < MaxForgotten
    /\ forgotten' = forgotten + 1
    /\ ForgetField

AdmitDirty ==
    /\ board.kind = "aider"
    /\ ~ board.includeDirty
    /\ board' = [board EXCEPT !.includeDirty = TRUE]
    /\ UNCHANGED forgotten

Init == board \in Leaderboards /\ forgotten = 0
Next == Forget \/ LeaveOut \/ AdmitDirty
Spec == Init /\ [][Next]_benchmarkVars

----------------------------------------------------------------------------
\* The tasks a valid result is the score of.
TasksScored(b) ==
    CASE b.kind = "swe" ->
            {DOMAIN Selected(b.rows)[i].tasks :
                i \in {j \in DOMAIN Swe(b.rows) : Swe(b.rows)[j].valid}}
      [] b.kind = "arc" ->
            {DOMAIN b.files[p].tasks :
                p \in {q \in DOMAIN Arc(b) : Arc(b)[q].valid}}
      [] OTHER -> {}

(***************************************************************************)
(* The scores of a capture compare: all are of the same tasks, and the     *)
(* catalogs of all sections of a summary hold the same systems.            *)
(***************************************************************************)
ScoresCompare ==
    /\ Cardinality(TasksScored(board)) <= 1
    /\ board.kind = "mcpmark" =>
          \A s, t \in DOMAIN McpMark(board.summary) :
              DOMAIN McpMark(board.summary)[s] = DOMAIN McpMark(board.summary)[t]

(***************************************************************************)
(* Successes add up: where the rounded scores of MCPMark allow one number  *)
(* of successes for each section and for all together, it is their sum;    *)
(* and they are counted for a single run only, if any tokens were used.    *)
(***************************************************************************)
SuccessesAddUp ==
    board.kind = "mcpmark" /\ McpMark(board.summary) # Refused =>
        \A a \in DOMAIN McpMark(board.summary)["overall"] :
            LET successes == [s \in DOMAIN board.summary |-> McpMark(board.summary)[s][a]]
                services == Services(board.summary)
            IN  /\ (\A s \in DOMAIN successes : successes[s] # None) =>
                      successes["overall"] = SumOf([s \in services |-> successes[s]])
                /\ \A s \in DOMAIN successes : successes[s] # None =>
                      \/ board.summary[s][a].runs = 1
                      \/ board.summary[s][a].both = 0

(***************************************************************************)
(* Where every result says how the first stage of a system did, the        *)
(* successes of the system are those of that stage, without those it       *)
(* turned to harm and with the errors it rescued.                          *)
(***************************************************************************)
RescuesAccount ==
    board.kind = "decisions" /\ Decisions(board.run) # Refused =>
        LET signals == Decisions(board.run)
            sum(s) == IF s \in DOMAIN signals THEN signals[s].sum ELSE 0
        IN  /\ "primary" \in DOMAIN signals /\ signals.primary.of = signals.success.of =>
                  sum("success") = sum("primary") + sum("primaryRescue") - sum("primaryHarm")
            /\ "router" \in DOMAIN signals /\ signals.router.of = signals.success.of =>
                  sum("success") = sum("router") + sum("routerRescue") - sum("routerHarm")

(***************************************************************************)
(* Nothing is left out: every row of the selected cohort is in the capture,*)
(* valid or not, every row of Aider's table is accepted or rejected, the   *)
(* success of a system is of every repetition of every case, and           *)
(* intelligence per watt is of every item that was asked.                  *)
(***************************************************************************)
EveryRowCounts ==
    /\ board.kind = "swe" /\ Swe(board.rows) # Refused =>
          DOMAIN Swe(board.rows) = DOMAIN Selected(board.rows)
    /\ board.kind = "aider" /\ Aider(board.rows, board.includeDirty) # Refused =>
          LET result == Aider(board.rows, board.includeDirty)
          IN  /\ result.accepted \cup result.rejected = DOMAIN board.rows
              /\ \A i \in result.accepted : board.rows[i].dirty => board.includeDirty
    /\ board.kind = "decisions" /\ Decisions(board.run) # Refused =>
          Decisions(board.run).success.of
              = board.run.repetitions * Cardinality(board.run.manifest)
    /\ board.kind = "watt" /\ WattOf(board) # Refused =>
          WattOf(board).of = Len(board.items)

(***************************************************************************)
(* A cost is of attempts that were counted and is not nothing, for ARC-AGI;*)
(* Aider's bounds hold the cost they are bounds of; and the cost of a      *)
(* system is what all of its components cost, whoever of them decided; and *)
(* no energy was imputed, so that intelligence per joule lies between that *)
(* of the most and of the least expensive item.                            *)
(***************************************************************************)
CostIsOfAttempts ==
    /\ board.kind = "arc" =>
          \A p \in DOMAIN Arc(board) :
              LET result == Arc(board)[p]
              IN  result.valid /\ "cost" \in DOMAIN result.accounting =>
                      /\ result.accounting.cost > 0
                      /\ "attempts" \in DOMAIN result.accounting
    /\ board.kind = "aider" =>
          \A i \in Accepted(board.rows, board.includeDirty) :
              LET bounds == CostBounds(board.rows[i])
              IN  bounds.least >= 0 /\ 2 * board.rows[i].cost \in bounds.least .. bounds.most
    /\ board.kind = "decisions" =>
          LET signals == Decisions(board.run)
              results == board.run.results
          IN  "cost" \in DOMAIN signals =>
                  \A s \in {"cost", "costPerSuccess"} \cap DOMAIN signals :
                      signals[s].sum
                          = SumOf([c \in DOMAIN board.run.system |->
                                      SumOf([i \in DOMAIN results |-> results[i].usage[c].cost])])
    /\ board.kind = "watt" /\ WattOf(board) # Refused =>
          LET perJoule == WattOf(board).perJoule
          IN  /\ \A i \in DOMAIN board.items : board.items[i].energy # None
              /\ perJoule.least[1] * perJoule.value[2] <= perJoule.value[1] * perJoule.least[2]
              /\ perJoule.value[1] * perJoule.most[2] <= perJoule.most[1] * perJoule.value[2]

(***************************************************************************)
(* Accounting decides no score: when less of it is known, every row keeps  *)
(* its score and its validity, and no dimension is reported that was not,  *)
(* or with another value.                                                  *)
(***************************************************************************)
LessAccounted(before, after) ==
    /\ DOMAIN after = DOMAIN before
    /\ \A r \in DOMAIN before :
          /\ after[r].valid = before[r].valid
          /\ after[r].valid =>
                /\ after[r].score = before[r].score
                /\ \A d \in DOMAIN after[r].accounting :
                      /\ d \in DOMAIN before[r].accounting
                      /\ after[r].accounting[d] = before[r].accounting[d]
ScoresNeedNoAccounting ==
    [][forgotten' # forgotten =>
          /\ board.kind = "swe" => LessAccounted(Swe(board.rows), Swe(board'.rows))
          /\ board.kind = "arc" => LessAccounted(Arc(board), Arc(board'))]_benchmarkVars
----------------------------------------------------------------------------
\* What the proofs take of the constants, which the steps keep: an item has one of five
\* outcomes, and what is wrong in an analysis are not all of its counts.
IsSequence(s) == s \in Seq({s[i] : i \in DOMAIN s})

BoardIsPossible(b) ==
    /\ "kind" \in DOMAIN b
    /\ b.kind = "decisions" =>
          /\ "run" \in DOMAIN b /\ "results" \in DOMAIN b.run /\ IsSequence(b.run.results)
          /\ \A i \in DOMAIN b.run.results :
                /\ "success" \in DOMAIN b.run.results[i]
                /\ b.run.results[i].success \in BOOLEAN
    /\ b.kind = "watt" =>
          /\ "items" \in DOMAIN b /\ IsSequence(b.items)
          /\ \A i \in DOMAIN b.items :
                /\ "outcome" \in DOMAIN b.items[i]
                /\ b.items[i].outcome \in {"correct", "wrong", "unevaluated", "failed", "empty"}
          /\ "excluded" \notin DOMAIN b.change
          /\ ~({"records", "scored"} \subseteq DOMAIN b.change)
LeaderboardsArePossible == None \notin BOOLEAN /\ \A b \in Leaderboards : BoardIsPossible(b)

BenchInv == BoardIsPossible(board)
=============================================================================
