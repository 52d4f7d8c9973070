-------------------------- MODULE MetricEvaluation --------------------------
(***************************************************************************)
(* What the engine does before it compares offerings: it estimates every   *)
(* axis and gate of a frontier for every offering of a catalog, from one   *)
(* signal, from a formula over signals, workload and metadata, or by asking*)
(* an oracle, and assembles the snapshot that names the evidence used.     *)
(*                                                                         *)
(* A formula is evaluated by its tree, a branch only when it is taken; the *)
(* paths it reads are what an estimate depends on.  Values are integers: a *)
(* quotient is cut to the unit where the code rounds it to 34 digits.      *)
(***************************************************************************)
EXTENDS Integers, FiniteSets, Sequences, SequencesExt

CONSTANTS
    None,
    Tasks,          \* policies and catalogs to calculate
    TotalBasis,     \* the bill a signal is the total of, or None
    MaxClock

VARIABLES
    task,           \* [policy, catalog]
    clock,          \* generated_at of the last calculation
    snapshot        \* its result, or None

metricVars == <<task, clock, snapshot>>

Skew == 1           \* max_future_skew_minutes
Least(S) == IF S = {} THEN None ELSE Min(S)

----------------------------------------------------------------------------
\* Formulas: numbers, paths and applications of an operator to arguments.
Number(n) == [op |-> "number", value |-> n]
Path(root, name) == [op |-> "path", root |-> root, name |-> name]
Apply(op, arguments) == [op |-> op, arguments |-> arguments]

Outcome(kind, value, paths) == [kind |-> kind, value |-> value, paths |-> paths]
Failure == Outcome("failure", 0, {})
Prefix(outcomes, n) == UNION {outcomes[i].paths : i \in 1 .. n}

Compute(op, v, paths) ==
    CASE op = "add" -> Outcome("number", v[1] + v[2], paths)
      [] op = "div" -> IF v[2] = 0 THEN Failure ELSE Outcome("number", v[1] \div v[2], paths)
      [] op = "less" -> Outcome("truth", IF v[1] < v[2] THEN 1 ELSE 0, paths)
      [] op = "max" -> Outcome("number", Max({v[i] : i \in DOMAIN v}), paths)
Arithmetic(op, values) ==
    Compute(op, [i \in DOMAIN values |-> values[i].value], Prefix(values, Len(values)))

MissingAsZero(op, values) ==
    IF \A i \in DOMAIN values : values[i].kind \in {"number", "missing"}
    THEN Arithmetic(op, values) ELSE Failure
Strictly(op, values) ==
    IF \A i \in DOMAIN values : values[i].kind = "number"
    THEN Arithmetic(op, values) ELSE Failure

\* coalesce(): the first argument that is not missing; what follows is unread.
UpTo(values, i) ==
    IF i = None THEN Outcome("missing", 0, Prefix(values, Len(values)))
    ELSE IF values[i].kind = "number" THEN Outcome("number", values[i].value, Prefix(values, i))
    ELSE Failure
FirstKnown(values) ==
    UpTo(values, Least({i \in DOMAIN values : values[i].kind # "missing"}))

ReadBranchOnly(condition, then, else) == IF condition.value = 1 THEN then ELSE else
Conditionally(condition, then, else) ==
    IF condition.kind # "truth" THEN Failure
    ELSE IF condition.value = 1 THEN [then EXCEPT !.paths = @ \cup condition.paths]
    ELSE [else EXCEPT !.paths = @ \cup condition.paths]

Numeric(context, path) ==
    IF path.name \in DOMAIN context[path.root]
    THEN Outcome("number", context[path.root][path.name], {path})
    ELSE Outcome("missing", 0, {path})

Applied(op, values) ==
    CASE op = "if" -> Conditionally(values[1], values[2], values[3])
      [] op = "coalesce" -> FirstKnown(values)
      [] OTHER -> Strictly(op, values)

\* A formula is a tree; a part of it is named by the arguments that lead to it.
Part(formula, at) == FoldLeft(LAMBDA f, i : f.arguments[i], formula, at)

Evaluate(formula, context) ==
    LET value[at \in Seq(Nat)] ==
            LET f == Part(formula, at)
            IN  CASE f.op = "number" -> Outcome("number", f.value, {})
                  [] f.op = "path" -> Numeric(context, f)
                  [] OTHER -> Applied(f.op, [i \in DOMAIN f.arguments |-> value[Append(at, i)]])
    IN  value[<< >>]

\* Every path of the formula, those of branches not taken included.
Syntactic(formula) ==
    LET paths[at \in Seq(Nat)] ==
            LET f == Part(formula, at)
            IN  CASE f.op = "number" -> {}
                  [] f.op = "path" -> {f}
                  [] OTHER -> UNION {paths[Append(at, i)] : i \in DOMAIN f.arguments}
    IN  paths[<< >>]

SignalsIn(paths) == {p.name : p \in {q \in paths : q.root = "signals"}}

\* Every signal of the model that TotalBasis names is one in USD; a component
\* is one whose basis is "component".
BasisIsNamed(basis, signals) ==
    \E s \in signals : TotalBasis[s] = basis
TotalIsSole(basis, signals) ==
    \A s \in signals : TotalBasis[s] \in {None, "component", basis}
BasisIsSole(basis, signals) ==
    CASE basis = None -> \A s \in signals : TotalBasis[s] = None
      [] basis = "component" -> \A s \in signals : TotalBasis[s] \in {None, "component"}
      [] OTHER ->
            /\ BasisIsNamed(basis, signals)
            /\ \A s \in signals : TotalBasis[s] \in {None, basis}

----------------------------------------------------------------------------
\* Observations of an offering, and what a metric requires of them.
SourceOf(offering, observation) ==
    IF observation.source # None THEN observation.source ELSE offering.source

SourceLimit(policy, source) ==
    IF source # None /\ source.id \in DOMAIN policy.limits
    THEN {policy.limits[source.id]} ELSE {}

LimitOfSource(policy, required, source) ==
    IF SourceLimit(policy, source) # {} THEN SourceLimit(policy, source)
    ELSE IF required.age = None THEN {} ELSE {required.age}
AgeLimits(policy, required, source) ==
    SourceLimit(policy, source) \cup (IF required.age = None THEN {} ELSE {required.age})

Acceptable(observation, required, source, policy, now) ==
    /\ observation.tier \in required.tiers
    /\ required.source => source # None
    /\ IF observation.at = None THEN policy.unknownAge
       ELSE /\ observation.at - now <= Skew
            /\ \A limit \in AgeLimits(policy, required, source) : now - observation.at <= limit
    /\ required.samples # None =>
          observation.samples # None /\ observation.samples >= required.samples
    /\ required.bounds => observation.bounded

OfObservation(observation, source, path) ==
    [value |-> observation.value, tiers |-> {observation.tier}, bounded |-> observation.bounded,
     paths |-> {path}, sources |-> {source} \ {None}, oldest |-> observation.at,
     samples |-> observation.samples]

Validated(observation, metric, source, policy, now, path) ==
    IF /\ observation.unit = metric.unit
       /\ Acceptable(observation, metric.required, source, policy, now)
    THEN OfObservation(observation, source, path) ELSE None

SignalEstimate(offering, metric, policy, now) ==
    IF metric.signal \notin DOMAIN offering.signals THEN None
    ELSE LET observation == offering.signals[metric.signal]
         IN  Validated(observation, metric, SourceOf(offering, observation), policy, now,
                       Path("signals", metric.signal))

OracleEstimate(metric, policy, now) ==
    IF metric.answer = None THEN None
    ELSE Validated(metric.answer, metric, metric.answer.source, policy, now,
                   Path("oracle", metric.oracle))

Context(offering, policy) ==
    [signals |-> [s \in DOMAIN offering.signals |-> offering.signals[s].value],
     workload |-> policy.workload, metadata |-> offering.metadata]

SourcesOfSignals(offering, policy, paths) ==
    {SourceOf(offering, offering.signals[s]) :
        s \in SignalsIn(paths) \cap DOMAIN offering.signals} \ {None}
SourcesOf(offering, policy, paths) ==
    (SourcesOfSignals(offering, policy, paths)
        \cup (IF \E p \in paths : p.root = "workload" THEN policy.sources ELSE {})
        \cup (IF \E p \in paths : p.root = "metadata" THEN {offering.source} ELSE {}))
        \ {None}

\* What is known of all of them only when it is known of each.
LeastOfEach(values, now) == IF values = {} \/ None \in values THEN None ELSE Min(values)
UndatedIsNow(values, now) ==
    IF values = {} \/ None \in values THEN now ELSE Min(values)
OldestOf(values, now) == LeastOfEach(values, now)

OfOutcome(outcome, used, sources, now) ==
    [value |-> outcome.value,
     tiers |-> IF used = {} THEN {"measured"} ELSE {o.tier : o \in used},
     bounded |-> FALSE, paths |-> outcome.paths, sources |-> sources,
     oldest |-> OldestOf({o.at : o \in used}, now),
     samples |-> LeastOfEach({o.samples : o \in used}, now)]

Checked(outcome, used, offering, metric, policy, now) ==
    IF /\ outcome.kind = "number"
       /\ \A o \in used :
             /\ Acceptable(o, metric.required, SourceOf(offering, o), policy, now)
             /\ o.tier # "estimated"
       /\ ~ policy.robust
    THEN OfOutcome(outcome, used, SourcesOf(offering, policy, outcome.paths), now)
    ELSE None

UsedBy(outcome, offering) ==
    {offering.signals[s] : s \in SignalsIn(outcome.paths) \cap DOMAIN offering.signals}
OutcomeFor(outcome, offering, metric, policy, now) ==
    Checked(outcome, UsedBy(outcome, offering), offering, metric, policy, now)
FormulaEstimate(offering, metric, policy, now) ==
    OutcomeFor(Evaluate(metric.formula, Context(offering, policy)),
               offering, metric, policy, now)

Estimate(offering, metric, policy, now) ==
    CASE metric.kind = "signal" -> SignalEstimate(offering, metric, policy, now)
      [] metric.kind = "formula" -> FormulaEstimate(offering, metric, policy, now)
      [] OTHER -> OracleEstimate(metric, policy, now)

\* Robust comparisons need the bounds of every estimate.
Comparable(estimate, policy) ==
    IF estimate # None /\ policy.robust /\ ~ estimate.bounded THEN None ELSE estimate
Usable(offering, metric, policy, now) ==
    Comparable(Estimate(offering, metric, policy, now), policy)

----------------------------------------------------------------------------
\* One offering: every axis is tried, so that the inventory holds what there
\* is; gates are tried when all axes have an estimate.
Eligible(offering, policy) ==
    /\ policy.providers # {} => offering.provider \in policy.providers
    /\ policy.capabilities \subseteq offering.capabilities

Known(estimates) == [i \in {j \in DOMAIN estimates : estimates[j] # None} |-> estimates[i]]
AxesOf(offering, policy, now) ==
    IF ~ Eligible(offering, policy) THEN << >>
    ELSE Known([i \in DOMAIN policy.axes |-> Usable(offering, policy.axes[i], policy, now)])

\* The bounds of a bounded estimate are a unit away from its value.
Margin(policy) == IF policy.robust THEN 1 ELSE 0
Passes(estimate, gate, policy) ==
    /\ estimate # None
    /\ estimate.value - Margin(policy) >= gate.minimum
    /\ estimate.value + Margin(policy) <= gate.maximum
PassesGates(offering, policy, now) ==
    \A gate \in policy.gates :
        Passes(Usable(offering, gate.metric, policy, now), gate, policy)

Judged(axes, offering, policy, now) ==
    [axes |-> axes,
     accepted |-> /\ DOMAIN axes = DOMAIN policy.axes
                  /\ \A m \in DOMAIN axes :
                        axes[m].value \in policy.values.minimum .. policy.values.maximum
                  /\ PassesGates(offering, policy, now)]
Assessed(offering, policy, now) ==
    Judged(AxesOf(offering, policy, now), offering, policy, now)

----------------------------------------------------------------------------
\* A source id stands for one descriptor.
Unambiguous(sources) ==
    \A s, r \in sources : s.id = r.id => s = r

SourcesOfOffering(offering) ==
    ({offering.source} \cup {offering.signals[s].source : s \in DOMAIN offering.signals})
        \ {None}
SourcesOfCatalog(catalog) == UNION {SourcesOfOffering(catalog[i]) : i \in DOMAIN catalog}

DescriptorsOfCatalog(policy, catalog) == SourcesOfCatalog(catalog)
Descriptors(policy, catalog) == policy.sources \cup SourcesOfCatalog(catalog)

MetricsOf(policy) ==
    {policy.axes[i] : i \in DOMAIN policy.axes} \cup {gate.metric : gate \in policy.gates}

FormulasAreSound(policy) ==
    \A metric \in MetricsOf(policy) :
        metric.kind = "formula" =>
            BasisIsSole(metric.basis, SignalsIn(Syntactic(metric.formula)))

SourceContract(policy, catalog) ==
    /\ Unambiguous(Descriptors(policy, catalog))
    /\ DOMAIN policy.limits \subseteq {s.id : s \in Descriptors(policy, catalog)}

Watermark(catalog, id) ==
    LET dated == {o \in UNION {{[at |-> catalog[i].signals[s].at,
                                 source |-> SourceOf(catalog[i], catalog[i].signals[s])] :
                                    s \in DOMAIN catalog[i].signals} : i \in DOMAIN catalog} :
                     o.at # None /\ o.source # None /\ o.source.id = id}
    IN  IF dated = {} THEN None ELSE Max({o.at : o \in dated})

SourcesOfAxes(candidates) ==
    UNION {UNION {candidates[i].axes[m].sources : m \in DOMAIN candidates[i].axes} :
              i \in DOMAIN candidates}

Snapshot(candidates, sources, catalog, now) ==
    [at |-> now, candidates |-> candidates, sources |-> sources,
     marks |-> [id \in {s.id : s \in sources} |-> Watermark(catalog, id)],
     inventory |-> TRUE,
     blocked |-> \E i \in DOMAIN catalog : ~ catalog[i].public,
     billing |-> [i \in DOMAIN catalog |-> catalog[i].billing],
     status |-> IF Unambiguous(sources) THEN "built" ELSE "raised"]
SnapshotOf(candidates, policy, catalog, now) ==
    Snapshot(candidates, Descriptors(policy, catalog) \cup SourcesOfAxes(candidates),
             catalog, now)
Assemble(policy, catalog, now) ==
    SnapshotOf([i \in DOMAIN catalog |-> Assessed(catalog[i], policy, now)],
               policy, catalog, now)

Refused(now) == [at |-> now, status |-> "refused"]

\* FrontierEngine.calculate, before the offerings are compared.
Calculate ==
    /\ clock < MaxClock
    /\ clock' = clock + 1
    /\ snapshot' = IF FormulasAreSound(task.policy) /\ SourceContract(task.policy, task.catalog)
                   THEN Assemble(task.policy, task.catalog, clock')
                   ELSE Refused(clock')
    /\ UNCHANGED task

Init ==
    /\ task \in Tasks
    /\ clock = 0
    /\ snapshot = None

Next == Calculate

Spec == Init /\ [][Next]_metricVars

----------------------------------------------------------------------------
\* What is hashed into a snapshot's id, today and by earlier releases: a value
\* that is the default of a field added later is left out.
TiersAlways(dropped, value, default) == IF dropped THEN {} ELSE {value}
LeftOut(dropped, value, default) == IF dropped /\ value = default THEN {} ELSE {value}

Encoding(s, tiers, billing, top) ==
    [rest |-> [at |-> s.at, sources |-> s.sources, marks |-> s.marks],
     items |-> [i \in DOMAIN s.candidates |->
                   [billing |-> LeftOut(billing, s.billing[i], None),
                    axes |-> [m \in DOMAIN s.candidates[i].axes |->
                                 LET e == s.candidates[i].axes[m]
                                 IN  [tiers |-> LeftOut(tiers, e.tiers, {"measured"}),
                                      rest |-> [e EXCEPT !.tiers = {}]]]]],
     inventory |-> LeftOut(top, s.inventory, FALSE),
     blocked |-> LeftOut(top, s.blocked, FALSE)]

FrontierHash(s) == Encoding(s, TRUE, TRUE, TRUE)
AcceptedHashes(s) ==
    {FrontierHash(s), Encoding(s, TRUE, FALSE, TRUE), Encoding(s, FALSE, FALSE, FALSE),
     Encoding(s, FALSE, FALSE, TRUE)}

----------------------------------------------------------------------------
Built == snapshot # None /\ snapshot.status = "built"
Candidates == {c \in (DOMAIN task.catalog) \X (DOMAIN task.policy.axes) :
                  c[2] \in DOMAIN snapshot.candidates[c[1]].axes}

Without(offering, s) ==
    [offering EXCEPT !.signals = [r \in DOMAIN @ \ {s} |-> @[r]]]
With(offering, s, value) ==
    [offering EXCEPT !.signals[s].value = value, !.signals[s].source = None]

(***************************************************************************)
(* An estimate rests on what it names: a signal that is not among the      *)
(* paths of an estimate may have any value, any source or none at all, and *)
(* the estimate is the same; a signal that is among them has its source    *)
(* among the sources; and so have workload and metadata.                   *)
(***************************************************************************)
EstimateRestsOnItsPaths ==
    Built => \A c \in Candidates :
        LET offering == task.catalog[c[1]]
            metric == task.policy.axes[c[2]]
            e == snapshot.candidates[c[1]].axes[c[2]]
            Again(o) == Usable(o, metric, task.policy, clock)
        IN  /\ \A s \in DOMAIN offering.signals \ SignalsIn(e.paths) :
                  \A other \in {Without(offering, s), With(offering, s, 9)} : Again(other) = e
            /\ metric.kind # "oracle" =>
                  \A s \in SignalsIn(e.paths) \cap DOMAIN offering.signals :
                      {SourceOf(offering, offering.signals[s])} \ {None} \subseteq e.sources
            /\ \A p \in e.paths :
                  /\ p.root = "workload" => task.policy.sources \subseteq e.sources
                  /\ p.root = "metadata" => {offering.source} \ {None} \subseteq e.sources

(***************************************************************************)
(* A cost is of one bill: whatever branches a formula takes, it never adds *)
(* the components of a bill to its total, nor one total to another.        *)
(***************************************************************************)
CostsAreOfOneBill ==
    Built => \A c \in Candidates :
        LET used == SignalsIn(snapshot.candidates[c[1]].axes[c[2]].paths)
        IN  Cardinality({TotalBasis[s] : s \in used} \ {None}) <= 1

(***************************************************************************)
(* The contract on sources that is checked before anything is evaluated    *)
(* finds every ambiguity but one: only what an oracle answers can make the *)
(* snapshot fail afterwards.                                               *)
(***************************************************************************)
OnlyOraclesSurprise ==
    snapshot # None /\ snapshot.status = "raised" =>
        \E metric \in MetricsOf(task.policy) : metric.kind = "oracle"

(***************************************************************************)
(* An id is of one snapshot: the encodings of earlier releases that are    *)
(* still accepted never let an id pass for a snapshot with another billing *)
(* mode, other tiers, an inventory more or less, or another release block. *)
(***************************************************************************)
Variants(s) ==
    {[s EXCEPT !.blocked = ~ @], [s EXCEPT !.inventory = ~ @]}
        \cup {[s EXCEPT !.billing[i] = b] : i \in DOMAIN s.billing, b \in {None, "metered"}}
        \cup {[s EXCEPT !.candidates[c[1]].axes[c[2]].tiers = t] :
                 c \in Candidates, t \in {{"measured"}, {"reported"}}}
IdIsOfOneSnapshot ==
    Built => \A s \in Variants(snapshot) :
        s # snapshot => AcceptedHashes(s) \cap AcceptedHashes(snapshot) = {}

(***************************************************************************)
(* What is missing is not zero: if an estimate that rests on a signal can  *)
(* still be made without it, the formula says what to take instead.        *)
(***************************************************************************)
MissingIsNotZero ==
    Built => \A c \in Candidates :
        LET offering == task.catalog[c[1]]
            metric == task.policy.axes[c[2]]
            used == SignalsIn(snapshot.candidates[c[1]].axes[c[2]].paths)
        IN  \A s \in used \cap DOMAIN offering.signals :
                Usable(Without(offering, s), metric, task.policy, clock) # None =>
                    metric.kind = "formula" /\ metric.formula.op = "coalesce"

(***************************************************************************)
(* Asking more admits less: with a limit more on the age of a source, with *)
(* bounds, sources or samples required, or compared robustly, an offering  *)
(* keeps the estimate it had or loses it, and none is accepted that was    *)
(* not.                                                                    *)
(***************************************************************************)
Stricter(metric) ==
    {[metric EXCEPT !.required.bounds = TRUE], [metric EXCEPT !.required.source = TRUE],
     [metric EXCEPT !.required.samples = 2], [metric EXCEPT !.required.tiers = {"measured"}]}
StricterPolicies(policy) ==
    {[policy EXCEPT !.robust = TRUE], [policy EXCEPT !.unknownAge = FALSE],
     [policy EXCEPT !.limits = [id \in {s.id : s \in snapshot.sources} |-> 2]]}
AskingMoreAdmitsLess ==
    Built => \A i \in DOMAIN task.catalog, m \in DOMAIN task.policy.axes :
        LET o == task.catalog[i]
            metric == task.policy.axes[m]
            e == IF m \in DOMAIN snapshot.candidates[i].axes
                 THEN snapshot.candidates[i].axes[m] ELSE None
        IN  /\ \A n \in Stricter(metric) :
                  n.required.tiers \subseteq metric.required.tiers
                  /\ (metric.required.samples # None => metric.required.samples <= 2) =>
                      Usable(o, n, task.policy, clock) \in {e, None}
            /\ \A p \in StricterPolicies(task.policy) :
                  (\A id \in DOMAIN task.policy.limits : task.policy.limits[id] >= p.limits[id]) =>
                      /\ Usable(o, metric, p, clock) \in {e, None}
                      /\ Assessed(o, p, clock).accepted => snapshot.candidates[i].accepted

(***************************************************************************)
(* Time only takes away: calculated again later from the same catalog, an  *)
(* estimate is what it was or has gone, unless an observation was from the *)
(* future when it was refused.                                             *)
(***************************************************************************)
FromTheFuture(offering, metric) ==
    \/ \E s \in DOMAIN offering.signals :
          offering.signals[s].at # None /\ offering.signals[s].at - clock > Skew
    \/ metric.kind = "oracle" /\ metric.answer # None /\ metric.answer.at # None
       /\ metric.answer.at - clock > Skew
TimeOnlyTakesAway ==
    [][Built /\ snapshot'.status = "built" =>
          \A i \in DOMAIN task.catalog :
              LET before == snapshot.candidates[i].axes
                  after == snapshot'.candidates[i].axes
              IN  \A m \in DOMAIN after :
                      \/ m \in DOMAIN before /\ after[m] = before[m]
                      \/ FromTheFuture(task.catalog[i], task.policy.axes[m])]_metricVars
=============================================================================
