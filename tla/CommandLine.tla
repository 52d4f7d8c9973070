---------------------------- MODULE CommandLine ----------------------------
(***************************************************************************)
(* src/src/model_skyline/cli.py.  A command is what its function does, in  *)
(* the order of the function: it looks at options, reads files, fetches,   *)
(* computes, and writes or prints; whatever raises ends it with exit code  *)
(* 2.  What is computed is of other modules; here are the order and the    *)
(* files.  Runs of commands interleave, and may write where others read or *)
(* write.                                                                  *)
(*   A text is written plainly (_emit: the file is emptied when it is      *)
(* opened and filled later, the old inode is kept) or privately            *)
(* (_emit_private: a new inode takes the name at once).  Directories of    *)
(* several files (BundlePublication, Publisher) count as one file here.    *)
(***************************************************************************)
EXTENDS Naturals, Sequences, FiniteSets

CONSTANTS
    Sessions,       \* functions of runs to calls of commands
    Places,         \* resolved paths
    None, Absent,
    Before          \* the author of what was there before

VARIABLES
    session,        \* the calls
    files,          \* Absent, or the inode, whose text is in it, and who changed it last
    at,             \* the step each run is at
    opened,         \* the inode a run has opened to fill it, or None
    exit,           \* "ok" (0), "error" (2), "changed" (3), "killed"; None while it runs
    failed          \* what it was doing when it raised, or None

vars == <<session, files, at, opened, exit, failed>>

Runs == DOMAIN session

----------------------------------------------------------------------------
Step(does, role) == [does |-> does, role |-> role]

Options == Step("options", None)    \* options, assignments and timestamps are parsed
Assignments == Options
Read(role) == Step("read", role)
Fetch == Step("fetch", None)
Compute == Step("compute", None)
Echo == Step("echo", None)
Plain(role) == Step("plain", role)
Private(role) == Step("private", role)
Bundle == Step("bundle", "output_directory")
ExitIfChanged == Step("status", None)
\* An option that is only allowed together with another one.
Needs == Step("needs", "provisional_benchmarks")
\* Two outputs that must not be one file.
Distinct == Step("distinct", "catalog_output")

----------------------------------------------------------------------------
\* The commands.
Validate == <<Read("config"), Read("catalog"), Compute, Echo>>
ValidateLocalMeasurement == <<Read("measurement"), Compute, Echo>>
BuildLocalCatalog == <<Options, Read("measurements"), Compute, Plain("output")>>
ImportIntelligencePerWatt ==
    <<Options, Read("binding"), Read("accuracy_artifact"), Compute, Plain("output")>>
BuildLocalCapacityCatalog == <<Options, Read("measurements"), Compute, Plain("output")>>
ComposeCatalogs == <<Read("catalogs"), Compute, Private("output")>>
EnrichCatalog ==
    <<Read("policy"), Read("base_catalog"), Read("projection_catalogs"), Compute,
      Private("output")>>
ValidateEnrichmentPolicy == <<Read("policy"), Compute, Echo>>
Discover ==
    <<Needs, Read("frontier_policy_file"), Fetch, Plain("output"), Plain("review_queue"),
      Read("provisional_benchmarks"), Compute, Plain("provisional_catalog_output")>>

\* Mutant: the output is opened before the earlier snapshot is read.
EvaluateIntoPrevious ==
    <<Read("config"), Read("catalog"), Options, Compute, Plain("output"), Read("previous")>>
Evaluate ==
    <<Read("config"), Read("catalog"), Options, Compute, Read("previous"), Plain("output")>>
ModelFrontierView == <<Read("snapshot"), Read("balanced_policy"), Compute, Plain("output")>>
Select ==
    <<Read("config"), Read("catalog"), Options, Options, Compute, Plain("output")>>
PublishProject ==
    <<Options, Read("config"), Read("catalogs"), Options, Bundle, Echo>>
AggregateTraces == <<Read("catalog"), Read("traces"), Compute, Plain("output")>>
ImportCodexExec == <<Options, Read("source"), Compute, Private("output")>>
ImportHermesSession ==
    <<Read("mapping_file"), Options, Read("state_database"), Compute, Private("output")>>
ImportAiderPolyglot == <<Options, Fetch, Compute, Bundle, Echo>>
ProjectAiderModelsDev ==
    <<Options, Fetch, Options, Fetch, Read("mapping"), Compute, Bundle, Echo>>
ImportMcpmarkVerified == <<Options, Fetch, Compute, Bundle, Echo>>
CaptureSweBench == <<Options, Fetch, Compute, Bundle, Echo>>
CaptureArcAgi == <<Options, Fetch, Compute, Bundle, Echo>>

\* Mutant: the exit code is raised before the status is written.
CheckBeforeWriting == <<Options, Fetch, ExitIfChanged, Plain("output")>>
CheckSweBenchFeed == <<Options, Fetch, Plain("output"), ExitIfChanged>>
CheckArcAgiFeed == <<Fetch, Plain("output"), ExitIfChanged>>
InspectHarbor ==
    <<Options, Read("snapshot"), Read("import_config"), Compute, Private("output")>>
NormalizeLocalAgent == <<Options, Read("summary"), Compute, Private("output")>>
NormalizeStructured == <<Options, Read("run"), Compute, Plain("output")>>
Reconcile == <<Read("evidence"), Read("reconciliation"), Compute, Private("output")>>
ValidatePairedEstimate == <<Read("estimate"), Compute, Echo>>
ApplyPairedEstimate == <<Read("catalog"), Read("estimate"), Compute, Private("output")>>
ProjectQualityCatalog ==
    <<Read("evidence"), Compute, Read("reconciliation"), Read("report"), Compute,
      Private("output")>>

\* Mutant: the catalog is written before what it was derived by.
CatalogFirst ==
    <<Distinct, Assignments, Read("component_frontiers"), Read("policy"), Read("base_catalog"),
      Options, Compute, Private("catalog_output"), Private("derivation_output"), Echo>>
BuildQualityPortfolio ==
    <<Distinct, Assignments, Read("component_frontiers"), Read("policy"), Read("base_catalog"),
      Options, Compute, Private("derivation_output"), Private("catalog_output"), Echo>>
VerifyQualityPortfolio ==
    <<Assignments, Read("component_frontiers"), Read("derivation"), Read("policy"),
      Read("base_catalog"), Options, Compute, Echo>>
ImportHarbor == <<Options, Read("snapshot"), Read("import_config"), Compute, Bundle, Echo>>
\* Of the schemas, two.
ExportSchemas == <<Plain("schema"), Echo, Plain("other_schema"), Echo>>
RegenerateSchemas == <<Plain("schema"), Echo, Plain("other_schema"), Echo>>

Commands ==
    [validate |-> Validate, validate_local |-> ValidateLocalMeasurement,
     build_local |-> BuildLocalCatalog, ipw |-> ImportIntelligencePerWatt,
     capacity |-> BuildLocalCapacityCatalog, compose |-> ComposeCatalogs,
     enrich |-> EnrichCatalog, validate_policy |-> ValidateEnrichmentPolicy,
     discover |-> Discover, evaluate |-> Evaluate, view |-> ModelFrontierView,
     select |-> Select, publish |-> PublishProject, aggregate |-> AggregateTraces,
     codex |-> ImportCodexExec, hermes |-> ImportHermesSession,
     aider |-> ImportAiderPolyglot, aider_prices |-> ProjectAiderModelsDev,
     mcpmark |-> ImportMcpmarkVerified, capture_swe |-> CaptureSweBench,
     capture_arc |-> CaptureArcAgi, check_swe |-> CheckSweBenchFeed,
     check_arc |-> CheckArcAgiFeed, inspect |-> InspectHarbor,
     local_agent |-> NormalizeLocalAgent, structured |-> NormalizeStructured,
     reconcile |-> Reconcile, validate_paired |-> ValidatePairedEstimate,
     apply_paired |-> ApplyPairedEstimate, quality |-> ProjectQualityCatalog,
     portfolio |-> BuildQualityPortfolio, verify |-> VerifyQualityPortfolio,
     harbor |-> ImportHarbor, export |-> ExportSchemas, regenerate |-> RegenerateSchemas]

\* Commands without --overwrite: they never replace a private file.
NeverOverwrite == {"codex", "hermes"}

----------------------------------------------------------------------------
Program(r) == Commands[session[r].command]
Given(r, role) == session[r].given[role]
Overwrites(r) == session[r].overwrite /\ session[r].command \notin NeverOverwrite

\* The run is at a step of one of the kinds, which is about the role.
AtStep(r, kinds) ==
    LET program == Program(r)
    IN  exit[r] = None /\ at[r] <= Len(program) /\ program[at[r]].does \in kinds
Role(r) == Program(r)[at[r]].role
Place(r) == Given(r, Role(r))

Advance(r) ==
    /\ at' = [at EXCEPT ![r] = @ + 1]
    /\ UNCHANGED <<session, exit, failed>>

File(inode, texts, r) == [inode |-> inode, texts |-> texts, last |-> r]

Init ==
    /\ session \in Sessions
    /\ files \in [Places -> {Absent} \cup {File(Before, {Before}, Before)}]
    /\ at = [r \in Runs |-> 1]
    /\ opened = [r \in Runs |-> None]
    /\ exit = [r \in Runs |-> None]
    /\ failed = [r \in Runs |-> None]

\* What touches no file.
Proceed(r) ==
    /\ AtStep(r, {"options", "fetch", "compute", "echo"})
    /\ Advance(r)
    /\ UNCHANGED <<files, opened>>

\* Mutant: the outputs of a portfolio may be one file.
AllowSame(r) ==
    /\ AtStep(r, {"needs", "distinct"})
    /\ Advance(r)
    /\ UNCHANGED <<files, opened>>

CheckTogether(r) ==
    /\ \/ /\ AtStep(r, {"needs"})
          /\ Given(r, "provisional_benchmarks") # None =>
                Given(r, "provisional_catalog_output") # None
       \/ /\ AtStep(r, {"distinct"})
          /\ Given(r, "catalog_output") # Given(r, "derivation_output")
    /\ Advance(r)
    /\ UNCHANGED <<files, opened>>

\* An input that was given must be there, and an empty file is none.
ReadInput(r) ==
    /\ AtStep(r, {"read"})
    /\ Place(r) # None => files[Place(r)] # Absent /\ files[Place(r)].texts # {}
    /\ Advance(r)
    /\ UNCHANGED <<files, opened>>

\* Without a file the text is printed.
PrintResult(r) ==
    /\ AtStep(r, {"plain", "private"})
    /\ Place(r) = None
    /\ Advance(r)
    /\ UNCHANGED <<files, opened>>

\* Path.write_text, its opening.
Truncate(r) ==
    /\ AtStep(r, {"plain"}) /\ Place(r) # None /\ opened[r] = None
    /\ LET old == files[Place(r)]
           inode == IF old = Absent THEN <<r, at[r]>> ELSE old.inode
       IN  /\ files' = [files EXCEPT ![Place(r)] = File(inode, {}, r)]
           /\ opened' = [opened EXCEPT ![r] = inode]
    /\ UNCHANGED <<session, at, exit, failed>>

\* Its writing: over the text of another run that opened the file too, of which the
\* end remains if it is longer, or into an inode that has lost its name.
Fill(r) ==
    /\ AtStep(r, {"plain"}) /\ opened[r] # None
    /\ \/ /\ files[Place(r)].inode = opened[r]
          /\ \E rest \in SUBSET files[Place(r)].texts :
                files' = [files EXCEPT ![Place(r)] = File(opened[r], {r} \cup rest, r)]
       \/ /\ files[Place(r)].inode # opened[r]
          /\ UNCHANGED files
    /\ opened' = [opened EXCEPT ![r] = None]
    /\ Advance(r)

\* write_private_text and the writers of bundles: all or nothing, and over a file
\* only with --overwrite.
Install(r) ==
    /\ AtStep(r, {"private", "bundle"})
    /\ Place(r) # None
    /\ files[Place(r)] # Absent =>
          Overwrites(r) \/ session[r].command = "publish"
    /\ files' = [files EXCEPT ![Place(r)] = File(<<r, at[r]>>, {r}, r)]
    /\ Advance(r)
    /\ UNCHANGED opened

Exit(r, code) ==
    /\ exit' = [exit EXCEPT ![r] = code]
    /\ UNCHANGED <<session, files, at, opened>>

\* The feed differs from what was reviewed, or does not, or only a report is asked for.
Report(r) ==
    /\ AtStep(r, {"status"})
    /\ \/ Exit(r, "changed") /\ UNCHANGED failed
       \/ Advance(r) /\ UNCHANGED <<files, opened>>

Finish(r) ==
    /\ exit[r] = None /\ at[r] > Len(Program(r))
    /\ Exit(r, "ok")
    /\ UNCHANGED failed

\* Whatever raises is reported, and is the end.
Error(r) ==
    /\ exit[r] = None /\ at[r] <= Len(Program(r))
    /\ failed' = [failed EXCEPT ![r] = Program(r)[at[r]].does]
    /\ Exit(r, "error")

Kill(r) == exit[r] = None /\ Exit(r, "killed") /\ UNCHANGED failed

Next ==
    \E r \in Runs :
        \/ Proceed(r) \/ CheckTogether(r) \/ ReadInput(r) \/ PrintResult(r) \/ Truncate(r) \/ Fill(r)
        \/ Install(r) \/ Report(r) \/ Finish(r) \/ Error(r) \/ Kill(r)

Spec == Init /\ [][Next]_vars

----------------------------------------------------------------------------
Writing == {"plain", "private", "bundle"}
Target(r, n) == Given(r, Program(r)[n].role)
WritesAt(r, n) == n \in DOMAIN Program(r) /\ Program(r)[n].does \in Writing

Writes(r) == {Target(r, n) : n \in {m \in DOMAIN Program(r) : WritesAt(r, m)}} \ {None}

Alone(r) == \A s \in Runs \ {r} : Writes(r) \cap Writes(s) = {}

(***************************************************************************)
(* A command that is refused, for its options, its inputs, what it fetched *)
(* or what it computed, has changed no file, although its outputs may be   *)
(* its inputs; but for discover, which reads a file after it has written.  *)
(***************************************************************************)
RefusedChangesNothing ==
    \A r \in Runs :
        /\ failed[r] \in {"options", "needs", "distinct", "read", "fetch", "compute"}
        /\ session[r].command # "discover"
        => \A p \in Places : files[p] # Absent => files[p].last # r

(***************************************************************************)
(* A command that exits with 0, or with 3 because of what it reports, has  *)
(* left its whole text and nothing else in every file it was given,        *)
(* unless other runs write there.                                          *)
(***************************************************************************)
ReportedIsWritten ==
    \A r \in Runs :
        exit[r] \in {"ok", "changed"} /\ Alone(r)
        => \A p \in Writes(r) : files[p] # Absent /\ files[p].texts = {r}

(***************************************************************************)
(* The catalog of a portfolio is never there without the derivation that   *)
(* locks it ("Write the compact derivation first so a later catalog-output *)
(* failure never loses its lock", cli.py:1803), wherever the command ends. *)
(***************************************************************************)
LockIsNeverLost ==
    \A r \in Runs :
        session[r].command = "portfolio" /\ Alone(r) =>
            LET made == files[Given(r, "catalog_output")]
                lock == files[Given(r, "derivation_output")]
            IN  made # Absent /\ r \in made.texts =>
                    /\ made.texts = {r} /\ lock # Absent /\ lock.texts = {r}
                    /\ made.inode # lock.inode

----------------------------------------------------------------------------
\* What the proofs take of the constants.
Authors == {Before} \cup UNION {DOMAIN s : s \in Sessions}
Longest == 10                               \* steps of a command
Inodes == {Before} \cup (Authors \X (1 .. Longest))
TextFiles == [inode : Inodes, texts : SUBSET Authors, last : Authors]

Refusing == {"options", "needs", "distinct", "read", "fetch", "compute"}

SessionsArePossible ==
    /\ Absent \notin TextFiles /\ Before \notin UNION {DOMAIN s : s \in Sessions}
    /\ None \notin Inodes \cup Places \cup Refusing \cup {"ok", "error", "changed", "killed"}
    /\ \A s \in Sessions : \A r \in DOMAIN s :
          LET call == s[r]
              program == Commands[call.command]
          IN  /\ call.command \in DOMAIN Commands
              /\ \A n \in 1 .. Len(program) : program[n].does \in Writing =>
                    call.given[program[n].role] \in Places \cup {None}
              /\ call.command = "portfolio" =>
                    {call.given["catalog_output"], call.given["derivation_output"]} \subseteq Places

\* An inductive invariant.  What a run has written it has written at a step it is
\* past, or at.
IsFilling(r, p) == opened[r] # None /\ Place(r) = p

CommandTypeOK ==
    /\ session \in Sessions
    /\ files \in [Places -> {Absent} \cup TextFiles]
    /\ at \in [Runs -> Nat \ {0}]
    /\ opened \in [Runs -> {None} \cup Inodes]
    /\ DOMAIN exit = Runs /\ DOMAIN failed = Runs

EndsAreExplained ==
    \A r \in Runs :
        /\ failed[r] # None => at[r] \in DOMAIN Program(r) /\ failed[r] = Program(r)[at[r]].does
        /\ failed[r] # None => exit[r] # None
        /\ exit[r] = "ok" => at[r] > Len(Program(r))
        /\ exit[r] = "changed" => at[r] \in DOMAIN Program(r) /\ Program(r)[at[r]].does = "status"

OpenedAtPlain ==
    \A r \in Runs : opened[r] # None =>
        /\ at[r] \in DOMAIN Program(r) /\ Program(r)[at[r]].does = "plain"
        /\ Place(r) \in Places /\ files[Place(r)] # Absent

AuthorsWrote ==
    \A p \in Places : files[p] # Absent => \A r \in Runs :
        /\ files[p].last = r => \E n \in 1 .. at[r] : WritesAt(r, n) /\ Target(r, n) = p
        /\ r \in files[p].texts => \E n \in 1 .. at[r] - 1 : WritesAt(r, n) /\ Target(r, n) = p

PastIsWritten ==
    \A r \in Runs : Alone(r) =>
        /\ opened[r] # None => files[Place(r)].inode = opened[r] /\ files[Place(r)].texts = {}
        /\ \A n \in 1 .. at[r] - 1 : WritesAt(r, n) /\ Target(r, n) # None =>
              /\ files[Target(r, n)] # Absent
              /\ files[Target(r, n)].texts = {r} \/ IsFilling(r, Target(r, n))

\* A portfolio has two outputs, of which the derivation is the first.
PortfolioInOrder ==
    \A r \in Runs : session[r].command = "portfolio" =>
        /\ at[r] > 1 => Given(r, "catalog_output") # Given(r, "derivation_output")
        /\ Alone(r) /\ at[r] > 8 => files[Given(r, "derivation_output")].inode = <<r, 8>>
        /\ Alone(r) /\ at[r] > 9 => files[Given(r, "catalog_output")].inode = <<r, 9>>

CommandInv ==
    /\ CommandTypeOK /\ EndsAreExplained /\ OpenedAtPlain /\ AuthorsWrote
    /\ PastIsWritten /\ PortfolioInOrder
=============================================================================
