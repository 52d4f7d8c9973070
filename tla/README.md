# A verification development for ModelSkyline

ModelSkyline ranks model offerings on a two-objective frontier and publishes
the result as a tree of content-addressed JSON files. Runtimes follow one alias
of that tree and pin a selection per work unit. What is ranked are observations
of many origins: benchmarks on the web, traces of requests, usage that agents
report, and measurements of local servers. This directory holds TLA+ models of
the parts of it that decide something over time or over many cases, the TLC
runs that check them on small instances, and TLAPS proofs of what matters most
for every value of the constants. All paths below are relative to
`src/src/model_skyline/` unless they say otherwise. `PROJECT.json` gives for
every definition the lines of source it stands for.

## 1. The system

    web, files, servers                                  published root (files)
        │                                                        ▲      │
        ▼                                                        │      │ HTTP / file
    readers ─> adapters, traces, ─> catalogs ─> engine ─> publisher     ▼
    (bounded)  measurements        (compose,  (estimate,  publisher.py  resolver ─> runtime
                                    enrich)    frontier,                resolver.py
                                               select)

| Component | State it keeps | Operations | What is hard about it |
|---|---|---|---|
| publisher (`publisher.py`) | the publication root: immutable snapshots, derived files (histories, tables, feeds), manifests, mutable aliases, root `latest.json`, a lock file | `publish_project` | evaluation happens before the lock; dozens of file operations, each a crash point; private and public publications alternate; limits that only a reader enforces; durability of directory entries |
| artifacts (`models.py`, `canonical.py`, `io.py`) | none | validation, content identities | identities decide what may be overwritten and what is a repeat |
| resolver (`resolver.py`) | cached snapshot, etag, time of the last attempt, a lock | `resolve` | the lock is held across a network load; two clocks, one of which can be set back; sources that roll back or equivocate; stale-if-error |
| frontier engine (`engine.py`, `oracles.py`, `formula.py`) | none | estimate, `calculate`, `dominates` | what an estimate rests on must carry into age, provenance and cost; tolerances and confidence bounds make dominance intransitive |
| selection (`selection.py`) | none | `select_models` | count, limit per provider and strictness interact |
| proximity (`proximity.py`) | none | the distance of an offering from the frontier | dominance comes and goes as the tolerance grows; comparisons round, so a search starts from a guess that may be off |
| bundle publication (`adapters/_publication.py`) | output directory, stage, backup | `publish_text_bundle` | no lock; two renames with a gap; restore of a backup that itself can fail; an owner who edits the directory |
| private output (`private_output.py`) | one file and its stage | `write_private_text` | check and install of a path that others can change |
| catalog composition (`catalog_composition.py`) | none | compose, enrich across workloads | order independence, conflicts, values that are equal and written differently |
| quality evidence (`quality_evidence.py`, `quality_catalog.py`) | reviewed entries, reports | reconcile, report, project | what was reviewed, and what it is applied to, change independently |
| quality portfolio (`quality_portfolio.py`) | portfolios with an expiry | build, verify | several ages, several clocks |
| feed monitors (`feed_monitor.py`, `arc_feed_monitor.py`) | a pinned baseline | classify an upstream change | several fetches while the upstream moves |
| discovery (`discovery.py`) | none | fetch, merge, admit | addresses given twice, a model found in several places, ids that two feeds share |
| benchmark and catalog adapters (`adapters/`) | captures, bundles | retrieve, check, project, price | totals that must agree with their parts, rows that vanish or change hands, prices that age |
| local evidence (`traces.py`, `structured_decisions.py` and others) | none | validate, aggregate, import | unknown is not zero; two ways in with one contract; files that change while they are read |
| runtime adapters (`adapters/hermes.py`, `codex.py`, `claude.py`, `openclaw.py`) | none | usage rows from what an agent leaves | a database that is read while it is written; calls of other models; usage that was lost |
| local measurements (`local_measurements.py`) | none | two catalogs of measured systems | comparability, the ladder of capacities, decimal arithmetic |
| measurement scripts (`src/examples/`) | processes and output files | sample memory, run a matrix of requests | processes come and go while they are sampled; a thread samples while a response is streamed |
| command line (`cli.py`) | the files it reads and writes | one function per command: options, reads, fetches, computation, outputs | a refusal after the first output; outputs that are inputs; several commands on one file |
| views (`renderers.py`, `model_views.py`) | none | rendering | data, not control |

How they interact: the command line evaluates the engine and the selection
inside `publish_project`, before the writer lock. The publisher and the
resolver share nothing but the files of the root. Adapters hand catalogs to
composition and to the engine as files, and put their bundles in place with
`publish_text_bundle`. Everything that comes from outside goes through a
bounded reader: `StableRead` for files, `RemoteRead` for HTTPS,
`BoundedDocument` for what they held. There are no callbacks except the
resolver's loader and clock, and no messages except HTTP.

What makes the components correct:

* publisher: a stored manifest never names what is missing; a crash anywhere
  leaves a root in which the same call succeeds; the history is exactly what
  was published; nothing that is not redistributable is exposed by a public
  publication; a coherent reader sees a register that only moves forward.
* resolver: pins never go back, are never used beyond their stale window, and
  a conflict is raised rather than hidden; every caller gets an answer.
* engine and selection: an estimate rests on exactly the evidence it is said to
  rest on; no empty frontier while something is accepted; the robust mode is
  more cautious than the point mode; the greedy selection is the best permitted
  one; a distance is the smallest tolerance at which nothing dominates.
* bundle publication and private output: readers see whole outputs, an output
  survives every failure, and what others put there is not touched (section 6
  names the one window of Ctrl-C in which neither is so).
* catalogs: the result does not depend on the order of the inputs, nothing is
  added, lost or attributed to a source that did not say it, only what was
  reviewed counts, and only while it is fresh.
* command line: a command that is refused has changed nothing, one that exits
  as it should has written all it was asked to, and nothing is written before
  what locks it.
* evidence: what failed stays and counts, what was not measured is not made
  up, and what is read is of one moment.

## 2. The modules

### Publication, resolution, ranking

| Module | Models | State and actions |
|---|---|---|
| `PublicationData` | artifacts and the checks of `publish_project` that read them | operators only. A manifest is the chain of bodies its `publication_id` commits to (a hash of the body and of the previous id), a file is its content |
| `Publication` | what a reader that starts at root `latest.json` is promised | `committed`, one action `Publish`: the register is left alone or extended by one admissible body |
| `Publisher` | `publish_project` file by file | `tree` (the root), `holder` (the `flock`), per writer `pc`, `req`, `final`. One action per file written or replaced, plus `Evaluate`, `AcquireLock`, `LockIsHeld`, `Accept`, `Reject`, `Commit`, and `Fail`, which may happen anywhere |
| `MCPublisher` | instance for TLC | bounds the number of failed calls |
| `PublisherDurability` | the same writes on a disk that loses power | `disk`, `pending` directory entries; `Replace`, `Sync`, `Skip` (the early return), `Return`, `Kill`, `PowerLoss`. History: `promised`, the last version that must survive, and `orphaned`, whether a dead call left entries that nobody has synced. `OrderedMetadata` selects a journalling file system or what POSIX promises |
| `MCPublisherDurability` | instance for TLC | bounds the kills between two power losses |
| `Resolver` | `DynamicResolver.resolve` | `now`, `elapsed` (wall and monotonic clock), `cached`, `etag`, `served` (what the source holds), `holder`, per thread `phase` and `pinned`. The critical section is split where time can pass: before the load, after it, and before the recovery reads the clock again |
| `MetricEvaluation` | the estimates of axes and gates, requirements on evidence, the snapshot and its id | `task` (policy and catalog), `clock`, `snapshot`; `Calculate` at one instant after the other |
| `Frontier` | acceptance, dominance, membership | operators only |
| `Selection` | `select_models`: order, limits and failure of a selection, and what the best selection would be | `members`, `definition`, `left` (not looked at yet), `chosen`, `outcome`. The loop of `_diverse` is one step per member: `Continue` passes one of an exhausted provider over, `Take` chooses it; `Conclude` returns or raises |
| `Proximity` | the chain of intervals of tolerances | `cursor`, `rest`, `status`; `Follow` an interval that connects, `Stop` |
| `GridSearch` | `_first_grid_transition` | `low`, `high`, `step`; `Begin` at a guess, `GallopDown`, `GallopUp`, `Bisect` |
| `MCEvaluation` | `Frontier`, `Selection`, `Proximity` and `GridSearch` over bounded inputs | an input is chosen initially and evaluated, scanned or searched |
| `BundlePublication` | `publish_text_bundle` | `target`, per importer `stage`, `backup`, `pc`; one action per look, write, rename and removal; `Kill`, `Interrupt` (Ctrl-C, at any step) and the owner's `AddNotes`. History: `interrupted`, whether Ctrl-C ever came between two renames |
| `PublicationProofs`, `PublisherProofs`, `PublisherDurabilityProofs`, `ResolverProofs`, `EvaluationProofs`, `BundlePublicationProofs`, `CatalogsProofs`, `ObservationsProofs` | proofs; the last two are about the components of the next two tables | section 5 |

### Catalogs (`MCCatalogs`)

| Module | Models | State and actions |
|---|---|---|
| `CatalogRows` | rows, equality against spelling, `_merge_offering_rows` | operators only |
| `CatalogComposition` | `compose_catalogs` | `Join` one catalog after the other in any order, `Refuse`, `Finish` |
| `CatalogEnrichment` | `enrich_catalog_across_workloads` | `Apply` one mapping after the other in any order, `Refuse`, `Finish` |
| `QualityImport` | reviews of benchmark evidence, reconciled after a refresh, projected | `pinned`, `entries`, `current`, `report`, `catalog`; `Refresh`, `Import`, `Project` |
| `QualityPortfolio` | `build_portfolio`, `verify_portfolio` | `clock`, `frontiers`, `portfolio`; `Tick`, `EvaluateFrontier`, `ReplaceBase`, `Build` |
| `FeedMonitor` | both monitors while the upstream moves | `history`, `pc`, what was fetched; `Push`, `Tick`, one action per fetch, `Fail` |
| `Discovery` | `discover_offerings`, admission, the provisional catalog | `todo`, `offerings` by `Id`, `served`; `Fetch` takes of an answer what `Taken` lets through; `Fail`, `Finish`, `Provide` |
| `RemoteRead` | every HTTPS reader, with its limits of bytes and time and its labels | `request`, `progress`, `elapsed`, `received`; one action per operation of the client, `Pass` of time |
| `BoundedDocument` | every decoder of a document someone else wrote | `scan`, `built`; `Preflight`, `Parse` one character at a time, `CheckShape` |
| `PriceProjection` | Aider runs priced by models.dev through a reviewed mapping | `hour`, `loaded`, `made`, `outcome`; `Load`, `RefuseLoad`, `Project`, `Refuse`, `Pass` |
| `PrivateOutput` | `write_private_text` | `parent`, `target`, `staged`, per writer a call; `TakeParent` and `ChangeTarget` are somebody else's |
| `CommandLine` | every command of `cli.py` as the order of what it does | `session` (the calls), `files`, and per run `at`, `opened`, `exit`, `failed`; `Proceed`, `CheckTogether`, `ReadInput`, `PrintResult`, `Truncate` and `Fill` (a plain output), `Install` (a private one or a bundle), `Report`, `Finish`, `Error`, `Kill` |

### Observations (`MCObservations`)

| Module | Models | State and actions |
|---|---|---|
| `LocalMeasurements` | both catalogs of `local_measurements.py` | `records`; `Capture` adds one |
| `LocalObservation` | a series of samples and its decimal mean | `series`; `Measure` |
| `TraceRows` | one row on its two ways in (validators, SQL) | `row`; `LeaveOut` a meter |
| `TraceAggregation` | totals, coverage, success, cost by work unit | `trace`; `Write`, `Replay` |
| `StableRead` | every reader of a local file | `files`, `path`, `time`, `reader`; `Look`, `Open`, `Read`, `Compare`, `Return`; writers `Overwrite`, `Extend`, `Truncate`, `Replace` |
| `HarborImport` | the Terminal-Bench leaderboard, reviewed and imported again | `board`, `reviewed`; `Review`, `AddRow`, `Withdraw`, `Score`, `HandOver`, `Redefine` |
| `BenchmarkEvidence` | ARC-AGI, SWE-bench, MCPMark, Aider, structured decisions, intelligence per watt | `leaderboard`; `Forget` an account, `LeaveOut` a result, `AdmitDirty` |
| `UsageTelemetry` | rows of usage of Codex, Claude, OpenClaw and Hermes | `upstream` and, for the database of Hermes, `usageReader`; what agents do, and `Open` .. `Import` |
| `MemoryCapture` | `capture_service_memory.py` and `_v2.py` of `src/examples` | `procs`, `call`; `Start`, then `Install` of the handlers, one action per reading, `Terminate`, `Return`; what processes and controllers do, and signals: `Interrupt` where a handler takes them, `Abandon` where none does |
| `MatrixCapture` | `openai_matrix.py` and `normalize_openai_matrix.py` of `src/examples` | `server`, `request`, `sampler`, `rows`, `output`; calibration, streaming, the sampler thread, normalization; queries of `ps` and of the server's statistics may fail |

`MCCatalogs` and `MCObservations` are instances for TLC of components that
share no state: `part` says of which component a behaviour is, the variables of
the others stay idle, and each property is a conjunction of what the
components' modules state, by theme. Nothing is claimed there about the
interaction of two components; that is what the composed modules (`Publisher`
with `Publication`, `QualityImport`, `PriceProjection`, `MetricEvaluation`) are
for.

Abstractions that hold everywhere: names, hashes, URLs and payloads are model
values; two files have the same path exactly when they have the same content;
Pydantic validation is one outcome (an artifact loads or does not); logging and
wording are left out.

`Publisher` joins files that are written together and named by the same
manifest entry: the history, the tables and the feed of a frontier are one
derived file, with its entries as content. What it keeps is the order that the
code relies on: snapshots, derived files, the manifest, the aliases in path
order (frontiers before selections), root `latest.json`. A file that already
has the wanted content is not written again, as in `_write_immutable` and
`_replace_mutable`. Temporary files are not part of the tree: `_write_temp` makes
them beside the root, so those of a dead writer are never seen again.

In `Resolver`, everything between two points at which a clock is read or the
loader called is one step. A load may end with a payload that validates, with
not-modified, or in failure, whatever the source holds: timeouts, size limits,
refused redirects and invalid artifacts are all `Failure`.

In `Frontier` decimals are integers and a relative tolerance is a fraction of
`Scale`; `MCEvaluation` evaluates with `Scale = 2`, so with a relative tolerance
of one half. In `MetricEvaluation` values are integers and a quotient is cut to
the unit where the code rounds to 34 digits.

In `BundlePublication` a directory is the bundle in it, whether all its files
are written, and whether the owner put something beside them.
`_remove_owned_tree` takes several steps, so a kill can leave half a backup
(`RemovePart`).

In `StableRead` two changes of a file may carry the same time, as the clock of a
file system allows; `blurred` remembers that it happened, and the promise of one
moment is made only without it.

In `BoundedDocument` the preflight loops of the repository are modelled token by
token; `json.loads` is external, a push-down automaton with Python's limits.
Numbers are integers, `NaN` is one token, and there is no white space.

In `CommandLine` a command is a sequence of steps, `Commands`, and a step that
raises is the end of it. What a step computes is of the other modules; here it
counts which files a step reads, and which it has written when a later one
raises. A plain output is emptied when it is opened and filled later, so that two
runs may mix in it; a private one, or a directory, takes its name at once.

In `Discovery` a hash is what is hashed. The id of an offering of a feed hashes
its address and model written one after the other; the constant `TextOf` says
which of these texts are equal, so that two feeds can share an id, as in the
code. That two texts share the 24 digits that are kept is left out.

In `MatrixCapture` the server is given with `--process-match`. Its memory is
what a sample finds, or 0 if `ps` fails or finds no process; its counter of
requests never goes back, and what a query of it that fails returns is `None`.

In `RemoteRead` the HTTP client is external: each of its operations waits at
most its timeout. A chunk is one byte, an encoded byte decodes to two.

In `BenchmarkEvidence` a mean over tasks is the sum it is the mean of, and a
tolerance far below the unit is equality; the rounding of MCPMark's and Aider's
numbers is kept, with `Quantum` to the unit.

## 3. The runs

Every run is a question. Those that "pass" check all reachable states; those
that find a "violation" show a statement of the documentation, a comment or a
test that the code does not keep (section 6).

| Run | Question | Bounds, and why they are enough |
|---|---|---|
| `publisher` | Wherever writers die or fail: is nothing stored that dangles, do aliases name stored files, is the same call accepted again, is the history the chain, does a public call expose only what it may, and does the root implement the register? | one frontier and one selection that ranks it, two versions of the evidence (one redistributable), one rule, two instants, a chain and history limit of 2, two writers, one failed call. Every request is tried by one writer; the other has one request, stale and private. One failure is enough to leave any prefix of the writes behind; the second writer then meets it. The limit of 2 is reached, and passed by one |
| `publisher_rerun` | Is a call that returned idempotent whatever the chain? | as above, one writer; violated |
| `publisher_rollback` | Does an alias never go back? | as above, one writer; violated |
| `durability` | Does `latest.json` survive a power loss only with what it names? Does a call that returned survive? | three versions, two kills between two power losses, any number of power losses; metadata in order, as journalling file systems keep it. Two kills leave a call dead before a sync and its retry too; a retry that syncs nothing is there, and excepted (section 6) |
| `durability_posix` | The same with what POSIX promises | violated |
| `resolver` | Do pins never regress, are they usable when returned, are conflicts raised, does the lock come free? | two threads, two versions of each of four generations (so rollback, equivocation and repeat all occur), a clock of four instants that can be set to any of them, lifetime, refresh interval and stale window of 1. Two threads suffice for one lock: a third could only wait |
| `resolver_clock` | Is a conflict never hidden, whatever the clock does? | violated |
| `evaluation` | Is a frontier what it should be, a selection the best there is, a distance the smallest that suffices, and a found transition the first? | catalogs of an unordered pair of ordinary offerings and one that may be incomplete, unbounded or ineligible; values of both signs and intervals that overlap; both goals, tolerances of both kinds, both modes, ranges and a gate. Up to four members, two providers, all counts up to 3 and limits up to 2 or none (of four members the first is of the one provider, and one order of the axes is enough: what is left out is the same with the names exchanged). Proximity: a target and two others, so that intervals overlap, touch and leave gaps. The search: every transition, and every guess, of a grid on which it gallops and bisects several times |
| `bundle` | Do readers see whole bundles, does a bundle survive, does the owner's file? | three importers, two of them overwriting, an owner; any rename may fail, any process may be killed, and Ctrl-C come, at any step |
| `bundle_race` | Is a target that changed rejected? | two importers; violated |
| `catalogs` | What happens to catalogs outside the engine (table below) | per component |
| `observations` | What becomes of evidence before it is in a catalog, and of what is in one (table below) | per component |

The components of `catalogs`:

| Component | Question | Bounds |
|---|---|---|
| composition, enrichment | Is the result, or the refusal, the same in every order of catalogs and mappings? Is it exactly the union, and does the audit account for every addition? | three catalogs of up to two offerings, rows that are equal and spelled differently, default and per-signal sources; policies of two mappings onto one base |
| import | Is a row mapped only as the reviewer saw it? Does the reported change say what to review again? | two rows and offerings, two sources, all ways a reference may be stale |
| portfolio | Does whatever verifies rest on fresh evidence, by any clock off by the skew, until it expires and no longer? | two components of different ages, two candidates, four instants, skew 1 |
| monitor | Is what is reported of one moment? | three revisions of three contents pushed between any two fetches |
| discovery | Is nothing lost or mixed up between addresses, and nothing admitted unmarked? | a catalog and two feeds, up to three fetches, addresses given twice and answering differently, two feeds of which one model each has the same id, answers that pass the limit by one, with unusable ids, with a model that the pattern leaves out |
| remote | Is what is accepted whole, labelled as it was earned, stamped within the call, and does the call end in time? | limits of 2 bytes and 2 instants per operation; servers that send less or more, stall, encode, or are of another revision |
| document | Does the scan bound what the parser builds? Does what is accepted say one thing, and is what is refused refused for cause? | several hundred documents with every limit met and passed by one, by each of nine readers |
| price | Is a run priced only as it was reviewed? Does the version of a projection change exactly with the evidence used? Do stale prices expire? | two runs, seven states of the board, six price lists with every shape of a record, seven ways to acquire them, four reviewed mappings, two projections |
| private | Is a private file whole, never clobbered, and nothing left behind? | three writers, one overwriting, and somebody who puts files, links and directories at the target and replaces the parent |
| command | Has a command that is refused changed no file? Has one that exits as it should written all of every file? Is no catalog there without the derivation that locks it? | every command, its outputs of their own, over its inputs, or printed, with and without `--overwrite`; and pairs of runs that interleave on one file |

The components of `observations`:

| Component | Question | Bounds |
|---|---|---|
| local, observed | Do catalogs not depend on the order of records, do failures stay, does capacity only grow? Is a value within its bounds, whatever the rounding? | up to three records of two systems; up to four samples of more digits than the context keeps |
| row, trace | Do both checks accept the same rows? Is a total exact or absent, and does a failure never help? | every combination of unknown meters; up to three rows of several granularities, replays included |
| read | Is what a reader returns of one moment, and never of a file that was replaced? | two changes by a writer, two instants, files of up to three chunks |
| harbor | Is all of a board imported or nothing, as it was reviewed? | two rows, two changes after the review |
| bench | Do scores compare, do parts add up, is a cost that of all attempts, and does no score depend on accounting? | boards of one or two rows, two tasks, sections or cases, with each claim right and wrong |
| usage | Is usage whole and of the offering it is filed under? Is the copy of a database of one moment? | two model calls, every status of cost, an importer between any two steps of an agent |
| capture | Is a peak of the whole tree at one moment? Does the command not outlive the capture? | three processes, three samples, two events among them, signals in and between the handlers included |
| matrix | Is a peak of its request, does every repetition count, are written files its own? | one position, one or two repetitions, two disturbances of one repetition or one of two: a query that fails, usage that is missing, another client, memory that moves |
| metric | Does an estimate rest on exactly the paths it names? Is missing never zero, and does asking more admit less? | one offering, a signal in up to five forms, formulas with lazy branches, four instants |

`PROJECT.json` names for each property of a passing run plausible bugs in the
code, as changed definitions, under which the run finds that property violated:
for a theme, one for each component that takes part in it. The changed
definitions are in the modules, marked `Mutant:`.

Deadlock is checked where the system cannot stop. It is switched off in the
`bundle`, `evaluation`, `catalogs` and `observations` runs: every call ends, and
nothing follows.

## 4. Fairness

`LockIsReleased`: a thread that holds the resolver's lock gives it back. It
assumes weak fairness of what the holder does (`Proceed`), for each thread, and
of nothing else. The code justifies it: the built-in loader runs under a
timeout and stops after `max_bytes`, and what follows the load are a few local
checks. (The timeout is per operation of the transport, so a source that
trickles bytes is bounded by the byte limit and not by the timeout: the load
ends, possibly late.) A custom loader that never returns holds the lock for
ever; that is outside the model. No fairness is assumed of callers, of the
source, of the clock, or of writers: a publication may stop at any point.

`SearchEnds`: a search on the grid finds its transition. It runs in one call
without waiting for anything, which is weak fairness of its steps.

`RemoteRead` needs no fairness: that a call ends in time is an invariant over
its clock (`CallEndsInTime`), because time does not pass beyond what the client
waits.

## 5. What is proved

`tlapm` checks the theorems below for every value of the constants that the
`ASSUME`s of the modules allow: any number of writers, threads, ids, versions
and publications. The assumptions only keep distinguished values apart, make
durations and bounds natural numbers, and say that selections rank frontiers.

* `PublicationProofs`. The register. The invariants speak about all pairs of
  entries of the chain, and are inductive entry by entry: `IInv` says of every
  entry that it stands in the right relation to all earlier ones (time and ids
  grow, the history is exactly what the prefix published, a public entry has
  redistributable evidence before it). Appending an admissible body does not
  touch earlier entries, and the checks of `publish_project` give the new one.
  From it: `HistoryIsChainHolds`, `PublicChainIsLicensedHolds`,
  `ChainIsMonotone`.
* `PublisherProofs`. The files. `IInv` adds to the types that only the holder
  of the lock is between its checks and its commit (`LockProtects`), that such
  a writer's manifest is what its request makes of the committed one and is
  admissible (`CallsAreReady`), that the committed chain is stored
  (`RootIsStored`) and that whatever is stored loads (`StoredManifestsLoad`).
  The lock is what makes it inductive: no other writer can change
  `latest.json` between the checks and the commit. From it: `TypeCorrect`,
  `NothingDangles`, `AliasesAreStored`, and `PublisherImplementsPublication`:
  with `committed <- tree.latest` every step of the writers, failures included,
  is a step of `Publication` or leaves it alone. So what is proved of the
  register holds of the files: `CommittedHistoryIsChain` and
  `CommittedChainIsLicensed` carry the two invariants over, through an instance
  of `PublicationProofs` whose `committed` is `tree.latest`.
  A second invariant, `AcceptanceLasts`, says that what a writer was accepted
  for stays true until it commits: the writer adds files and replaces aliases,
  but only by what its candidate names. From it: `RetryIsAccepted`,
  `PublicCommitIsClean` and `CommitIsCoherent`; and `RerunIsSettled`, where the
  data contribute that a request is recognized by the manifest it made
  (`RequestIsSettled`), and the additive ids that an alias outside the request
  cannot exist. So the limit on the chain, in which `publisher_rerun` finds its
  bug, is all that can refuse a rerun. With these every property of the run
  `publisher` is proved.
* `ResolverProofs`. `IInv` says that only the holder of the lock is in a load,
  that the etag is that of the cached snapshot, that the cached snapshot is not
  further in the future than the skew allows unless the clock was set back, and
  that a thread does not recover from an answer that conflicts unless it was.
  The last two carry `ConflictIsRaised`: a payload that conflicts can only pass
  for "generated in the future" if it is later than the clock, and then it is
  later than what is cached, so it conflicts with nothing. From it:
  `TypeCorrect`, `EtagsNameCached`, `PinsNeverRegressHolds`,
  `PinsAreUsableHolds`, `ConflictIsRaisedHolds`.
* `PublisherDurabilityProofs`. Power losses, for chains of any length and any
  number of kills. A power loss keeps a prefix of the pending changes of
  directory entries, so the invariant speaks of all of them: `AlwaysComplete`,
  after every prefix the root loads, names what it aliases and is no older than
  what a call has promised. A replaced entry extends the list by one prefix, and
  the order of the writes makes that one complete too (`CallIsCurrent`: what the
  call has done so far is in memory). A sync empties the list to its last
  prefix. Only a call that was killed between a write and its sync leaves
  entries that it will not sync, until anybody syncs (`OnlyKilledLeavePending`);
  every call that returns otherwise has everything it found or wrote on the
  disk, retries after kills included. From it: `LatestNeverDangles`,
  `CommitMarkerIsLast`, `ReturnedCallSurvives`. All have the hypothesis
  `OrderedMetadata`, that entries reach the disk in the order of the calls; it
  is about the environment, and `durability_posix` shows that it is needed.
* `EvaluationProofs`. What the run `evaluation` checks, for every catalog,
  policy and grid. "Better" is the negation of "no worse" seen from the other
  side, and how far one cost is behind another is monotone in both as long as
  the relative tolerance is at most 1 (`BehindIsMonotone`); from these
  `DominanceIsAsymmetric` and `RobustFrontierIsConservative`. Asymmetry alone
  does not give a frontier, since tolerances make dominance intransitive. What
  does is that a frontier has two axes (`FrontierIsNotEmpty`): take the
  offerings that are ahead on the second axis of whatever is ahead of them on
  the first. The cheapest on the first axis is one, and the one of them that is
  cheapest on the second is dominated by nothing (`UnbeatenExists`). That holds
  for point and robust comparisons and for tolerances of both kinds. Without
  tolerances dominance is transitive and the frontier covers the catalog
  (`ExactFrontierCoversCatalog`). Extremes of finite sets come from the least
  number up to which an enumeration has none, which stands in for an induction.
  For the proximity, what dominates a target does so in an interval of the grid
  (`DominanceIsInterval`). `ProximityInv` says that at every tolerance below the
  cursor somebody dominates the target, that the intervals followed end by the
  cursor, and that the last of them ends at it; so where no interval connects is
  the smallest tolerance that suffices (`ProximityIsExact`). For the search,
  `SearchInv` adds to the types the bracket: whichever way the search gallops,
  what it has found too low is below the transition and what it has found high
  enough is not, and the middle of two indices that are not adjacent is strictly
  between them (`MiddleIsInside`); so what it returns is the first index at
  which the comparison has flipped (`SearchIsCorrect`). For the selection, that
  the scan has chosen as many as any permitted selection has of what it has
  looked at does not carry over a step: passing over a member of an exhausted
  provider lets another selection catch up. `SelectionInv` says it of every set
  of providers at once (`IsGreedy`); without the exhausted provider nothing has
  changed, and of that provider no permitted selection has more than the limit.
  Together with the order in which the members come, this makes the k-th choice
  no worse than the k-th of any permitted selection (`SelectionIsBestHolds`).
  Assumed: a frontier has two axes (`AxesArePair`), catalogs are finite and of
  offerings (`CatalogsArePossible`), tolerances are natural numbers
  (`PoliciesArePossible`), members are finitely many with numbers for ids and
  costs, and counts and limits are positive (`SelectionsArePossible`), inputs of
  the proximity have been accepted (`ProximityInputsAreEvaluated`), and the
  kinds of input differ.
* `BundlePublicationProofs`. Bundles for any number of importers. `IInv` says
  that what is served is whole (`OutputIsComplete`), that a call that may
  install has a whole bundle of its own (`StagesAreReady`), and that a backup is
  whole until its removal begins and has been found free of the owner's files by
  then (`BackupsAreChecked`). None of this says that a bundle survives: the
  bundle that a call has installed can be moved aside by the next one at once.
  What does is `InstalledIsKept`: once a call has installed, some bundle is
  among the directories that nobody is about to remove, `Kept`, which are the
  target, the backups of calls that may still put them back, and what was left
  behind. From it: `OutputIsAlwaysComplete`, `SomeBundleSurvivesHolds`,
  `UnmanagedSurvivesHolds`. The last two except Ctrl-C where the code gives up
  the backup, and there only.
* `CatalogsProofs`. What the run `catalogs` checks, for every catalog, mapping,
  review, feed and number of calls. A behaviour is one of one component, and no
  other changes its variables; `PartsAreSound` joins the invariants, which stand
  in the components' modules:
  - composition (`CompositionInv`): the rows joined so far are, by value, what
    the catalogs joined so far say together (`Represents`), which does not
    mention an order. That two rows can be joined, and what they are then,
    depends on their values only, although the joined row keeps one spelling of
    each and may move a default source to its signals; so whether all can be
    joined, and what they make, is a property of the set of catalogs
    (`OutcomeIsOrderFree`, `ComposedIsUnion`).
  - enrichment (`EnrichmentInv`): the same for mappings applied one at a time to
    what the earlier ones made, with an audit that has an entry for each added
    signal and none else (`EnrichmentIsOrderFree`, `AuditAccounts`,
    `OnlyReviewedSignals`).
  - import (`ImportInv`): a report is that of the reviews it was made with, so
    a row is mapped only as the reviewer saw it, whatever was refreshed since
    (`MappedAsReviewed`, `ChangeTellsWhatToReview`, `WiderScopeMapsLess`), and a
    catalog is of the current one (`CatalogIsOfCurrent`).
  - portfolio (`PortfolioInv`): a portfolio is what `Portfolio` makes of inputs
    that were possible and not refused at its time. Its expiry is the earliest at
    which one of them would be too old, which is what gives `VerifiedIsFresh`,
    `ValidWhileTrue` and `VerifiesUntilExpiry` for every clock within the skew.
  - monitor (`MonitorInv`): the revision a call works on was not pushed before
    the one that was newest when it asked, and the content it fetched is that of
    this revision (`StatusIsOfOneMoment`, `NoneMeansPinned`).
  - discovery (`DiscoveryInv`): under each id is what was told of it last, which
    a fetch keeps by merging its own last items over what there was
    (`MergedIsLatest`); the artifact is of these, and its marks are of their
    admissions (`LatestOfEverySource`, `NeverUnmarked`, `EvidenceStaysApart`).
  - remote (`RemoteInv`): labels are kept on the way; the clock of a call never
    passes what its phases may wait; what was received is a prefix of the body,
    and all of it where its end was seen (`LabelIsEarned`, `StampIsOfCall`,
    `CallEndsInTime`, `BodyIsWhole`).
  - command (`CommandInv`): what a run has changed is the output of a step that
    it is at or past, and alone it finds its text in every output of a step that
    it is past (`AuthorsWrote`, `PastIsWritten`), the lock of a portfolio first
    (`PortfolioInOrder`). That no step that can refuse follows one that writes,
    but in `discover`, is read off the commands (`ProgramsAreOrdered`). From
    these: `RefusedChangesNothing`, `ReportedIsWritten`, `LockIsNeverLost`.
  - price (`PriceInv`): a projection is what `Projection` makes of a capture, the
    loaded prices and a review that it could be made of (`PricedAsReviewed`,
    `VersionIdentifiesEvidence`, `UnusedPricesKeepVersion`, `StalePricesExpire`).
  - private output (`PrivateInv`): what a call has earned by the phase it is in:
    its text is written before it looks again, its directory is one before it
    stages, its staging name is gone when it is installed. A lemma,
    `CallsTouchOnlyTheirOwn`, bounds what one step of a call can do to the
    directory (`PrivateFilesAreWhole`, `NothingIsClobbered`).

  Assumed, as `ASSUME`s that the run evaluates on its instance: catalogs are
  finite and their rows are rows (`CatalogsPossible`), policies name signals and
  targets that are what they say (`EnrichmentsPossible`), reviews are made from a
  capture (`ReviewsPossible`), a portfolio's policy is one the schema accepts
  (`PolicyPossible`), limits of calls are natural numbers (`CallsPossible`), the
  version of a leaderboard determines it (`PricesPossible`), a staging file
  is an inode of its own (`InodesDiffer`), responses are sequences
  (`ResponsesPossible`), and calls name commands and give paths to their outputs
  (`SessionsPossible`).

* `ObservationsProofs`. What the run `observations` checks and what follows from
  its steps, for every constant; the same construction, with the invariants in
  the components' modules:
  - local (`LocalInv`): records carry the number they were captured with, so
    the latest is one record, and neither catalog depends on the order in which
    they are looked at (`OrderIsFree`); a position that failed keeps its size
    out of the capacity, and one more record lowers no capacity.
  - read (`ReadInv`): what has been read is a prefix of the file that was opened,
    and a file whose time is that of a status has not changed since, unless two
    changes shared a tick. A change between two looks therefore shows
    (`ReadIsOfOneMoment`, `ReadIsNotReplaced`).
  - row, trace: a row is one the schemas can make (`RowIsPossible`), and on those
    the validators and the SQL agree (`ChecksAgree`). That a
    failed attempt stays in the denominator is a fact about one aggregation.
  - harbor (`HarborInv`): a review is of a row and never of its score, so what is
    imported is mapped as it was reviewed (`ImportedAsReviewed`), and one more
    score leaves the other mappings alone (`ScoresChangeNoMapping`).
  - capture (`CaptureInv`): the child that was launched is among the processes
    until it is reaped, whoever else comes and goes (`ChildIsWatched`); a
    capture ends only by a reason that was observed, and leaves the command
    running only to a signal without a handler (`EndIsExplained`); and a sample
    was taken when nobody else counted on the device (`SampledAlone`).
  - matrix (`MatrixInv`): the bounds of the calibration close in on the shortest
    prompt that is long enough (`Calibration`); what the sampler has seen lies
    between the extremes of the memory since the request began (`Requested`), so
    a row has the peak of its own request, or 0 if every query failed
    (`RowsAreOwn`); where the server gave statistics of each request of a group,
    its counter says whose they were; and files are written of a complete series
    only (`WrittenIsOfRows`).
  - bench (`BenchInv`): a leaderboard stays one that can be loaded when accounts
    are forgotten, and each of its rows, cases or items is accounted for
    (`EveryRowCounts`).
  - usage (`TelemetryInv`): the reader of Hermes opens the first database, and
    what it reads of that is no older than it was then, so a session that ends
    well is a committed state (`HermesInv`); envelopes are of signed calls,
    which their names tell apart (`OpenClawInv`); and one basis more can only
    make a cost less certain.

  Assumed, again as `ASSUME`s that the run evaluates: records have their fields
  and capacities are natural numbers (`RecordsPossible`), drafts are what a
  parser makes (`DraftsPossible`), boards are sequences of rows whose scores are
  natural numbers (`BoardsPossible`), the processes of a capture are distinct
  and no pattern matches a foreign one (`CapturePossible`), targets are natural
  numbers and a prompt without filler is not empty (`MatrixPossible`), and
  leaderboards have the shape that their parser accepts
  (`LeaderboardsPossible`).

With these, every property of the runs `publisher`, `durability` and `bundle` is
proved, and all but those named here of `resolver`, `evaluation`, `catalogs` and
`observations`.

Only model-checked:

* liveness, `LockIsReleased` and `SearchEnds`: neither fairness nor `ENABLED` is
  in the prover's reach;
* of `NothingIsAddedOrLost`, the scan and parser of documents, which are folds
  over characters; `NothingIsAddedOrLostHolds` proves it of every other
  component;
* of `observations`, `EvidenceAddsUp`, and of `MoreEvidenceOnlyRefines` the parts
  `MovesTowardsSample`, `FailureNeverHelps`, `ResultIsNeverExtended`,
  `TimeOnlyTakesAway` and `ScoresNeedNoAccounting`. They speak of sums, sorted
  samples, folds over streams and values of formulas, which are computed by
  recursion over rows, samples and trees. The other six parts are
  `RecordsOnlyRefine`, which is proved.

## 6. What the code does and the documents do not say

1. `publisher_rerun` (a bug). The limit on the chain of manifests is enforced
   when a chain is loaded (`publisher.py:562`) and not when one is made. A
   publication can make the chain one longer than the next call accepts; then
   the same call, and every other, is refused. Changed selection rules at one
   timestamp lengthen the chain without lengthening any history, whose limit
   is checked.
2. `publisher_rollback`. "Timestamp rollback [...] fail[s] closed"
   (`docs/architecture.md:301`). After a newer publication died between its
   aliases and `latest.json`, an older one is accepted and takes the aliases
   back.
3. `durability_posix`. "Immutable data becomes durable first"
   (`docs/architecture.md:299`). New directories are not synced in their
   parents, so on a file system that promises no more than POSIX `latest.json`
   can survive without the directories it names. On a file system that orders
   metadata it holds (`durability`).
4. `resolver_clock`. "Never hide it behind LKG" (`resolver.py:443`). After the
   wall clock was set back, a snapshot that equivocates looks as if it came from
   the future; that error is recoverable, and the last known good snapshot is
   returned.
5. `bundle_race`. "A changed target is rejected instead of followed or merged"
   (`adapters/_publication.py:268`). The directory that is moved aside is
   looked at again as if `overwrite=True`; an importer without it can delete
   the bundle that another has just installed.

What else the models show and no document contradicts; where a property would
not hold for it, the property says so:

* `publish_project`: a call that is killed after its last write and before the
  sync of that directory leaves a retry nothing to write. The retry returns
  early from every write (`publisher.py:713`, `753`), syncs nothing, and can be
  lost in a power loss although it returned. `ReturnedCallSurvives` excepts this
  case (`orphaned`) and no other: the next sync by anybody ends it.
* `publish_text_bundle`: `KeyboardInterrupt` after the output directory was
  moved aside (`adapters/_publication.py:280`) goes past every `except` to the
  `finally` clause (334-338), which removes the staging directory and the
  backup. Between the two renames that leaves no bundle (`SomeBundleSurvives`
  excepts it, `interrupted`), and before the backup is looked at it deletes a
  file that the owner put there, against the docstring ("without deleting
  unrelated user data", 217-219). `UnmanagedSurvives` excepts exactly that
  (`DiesBeforeCheck`).
* Discovery: the id of an offering of a feed hashes address and model without a
  separator (`discovery.py:410`), so offerings of two feeds can share an id, and
  the later replaces the earlier (541). A feed is read up to `MAX_MODELS` items
  and the rest dropped without a word (421), items with no id, or one of more
  than 512 characters, are passed over (406), models that the pattern does not
  match are left out (373). `LatestOfEverySource` is of what is taken, and by
  id.
* Engine: a relative tolerance above 1, which the schema accepts, can make four
  offerings dominate each other in a circle (`FrontierIsNeverEmpty` excludes it).
* Private output: a call that raises after its link or rename has published its
  file (`ReturnedTextIsThere` speaks of calls that return).
* Composition joins rows that are equal and written differently; which spelling
  survives depends on the order (`OutcomeIsOrderFree` compares values).
* The ARC-AGI monitor refuses a revision that is pushed during its call.
* Readers: two changes within one tick of the file system's clock can be
  missed (`blurred` in `StableRead`); the reader of models.dev opens without
  `O_NONBLOCK`, so it waits at a named pipe.
* Scans: the feed scan checks its count at separators only, so what is built may
  pass its limit by the depth of the nesting; discovery has no scan and does
  not catch the parser's `RecursionError`.
* HTTPS: a body that is cut short without a declared length and without a
  digest is not detected by the client and is accepted if it parses.
* `openai_matrix.py`: a sample is 0 when `ps` fails or finds no process (392),
  so the peak of a request of which every sample failed is 0, and the
  measurement is accepted with it; `PeakIsOfRequest` bounds a peak from below
  only if a sample succeeded.
* `normalize_openai_matrix.py`: where the statistics of the server are missing
  after one request of a group the measurement is written without a ratio and
  without the check that nobody else used the server (228); statistics that are
  missing before a request count as 0 requests (235), which is right only for a
  server that was just started. `WrittenIsOwn` is of ratios that are written.
  Files written before a later position fails stay.
* Memory capture: the first version leaves its command running when an error
  ends the sampling. The second ends it, but for a signal in one of two windows:
  after the launch in a session of its own (`capture_service_memory_v2.py:258`)
  and before the handlers are there (272), or after they are gone (322) and
  before the command is ended (324, which may wait fifteen seconds).
  `CommandDoesNotOutlive` excepts these two. Children of the command outlive it
  if it ends by itself, or if they ignore SIGTERM.
* Prices: a `source_version` that the operator supplies names rows only as well
  as the operator does.

## 7. What is not modelled, and why

* In `publisher.py`: symbolic links, unmanaged files, portable ids and base
  URLs, damaged or edited files, the limits on files and bytes, Windows locking.
  They are checks of one state that end in `Reject` without a write.
* In `resolver.py`: source policy and redirects (one outcome of a load), custom
  loaders and clocks that raise, defensive copies.
* In `engine.py` and `formula.py`: 34-digit rounding, statistics beyond bounds
  and confidence, operators of formulas other than `add`, `div`, `less`, `max`,
  `coalesce` and `if`, parsing of formulas and the limits on their size, the
  wording of reasons. Bounds are one unit away from a value, the skew is 1, and
  regions behave like providers.
* In `adapters/_publication.py`: links, file modes, rendering.
* `quality_estimation.py`: statistics over reals.
* In `BenchmarkEvidence`: confidence intervals, latencies, probabilities and the
  Brier score; one check of tools stands for five; accuracy per watt is a pair
  of integers and averages are totals.
* In `UsageTelemetry`: what a caller attests is true, a database is replaced at
  most once and never by an older one, the HMAC of names is injective, and the
  cost in the usage report of Hermes is left out.
* In `MatrixCapture`: the samplers of the physical footprint, of the runner's
  state and of runtime memory, the binding to a capture of service memory, and
  statistics of a shape that is refused. A program without `--process-match`
  samples nothing.
* In `MemoryCapture`: a command that cannot be launched, and one that SIGKILL
  does not end within five seconds.
* In `Discovery`: providers, names and links; a response is taken as parsed; of
  the signals of the provisional catalog, context length, prices of the cache
  and telemetry, and the limits on scores.
* In `LocalMeasurements`: medians and percents, output tokens, lengths of series,
  repetitions, and two of the three checks of capabilities (tools and structured
  output).
* In `RemoteRead`: the monitors and discovery have no deadline for a whole call,
  only for each operation, and are asked to end within three operations.
* In `BoundedDocument`: floating-point numbers, white space, the schema and item
  limits of the feeds, and YAML that is not also JSON.
* In `PriceProjection`: prices are per token and one flat pair; the version of a
  leaderboard determines its rows; where prices were acquired is not part of
  the evidence that a version identifies, as in the code.
* In `CommandLine`: the texts of options, of messages and of results; a command
  over schemas writes two of them; a directory of several files is one file.
* `local_agent_benchmark.py`, `renderers.py`, `model_views.py` and the
  configurations rendered for runtimes: conversions without control of their own.

## 8. Plan

In the order of what matters most to a user of the published root:

1. `PublishResolve`: `Publisher` and `Resolver` composed over the selection
   alias. New selection rules at an old timestamp publish a second selection
   snapshot of one generation (`publisher.py:1042` compares frontiers only);
   the resolver must refuse it. Question: which sequences of legal
   publications leave every resolver with an error?
2. Composition of the bounded readers with what uses them: `StableRead` under
   `TraceAggregation`, `RemoteRead` under `FeedMonitor`.

Later modules follow the conventions of these: constants with named
assumptions, one action per operation, properties as conjunctions of named
parts, and no `RECURSIVE` operator in a module that proofs use.
