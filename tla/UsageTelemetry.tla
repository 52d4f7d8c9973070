--------------------------- MODULE UsageTelemetry ---------------------------
(***************************************************************************)
(* Rows of usage from what agents leave behind: codex.py, claude.py,       *)
(* openclaw.py and hermes.py of adapters.                                  *)
(*                                                                         *)
(* A behaviour is of one source.  `upstream' is what the agent did and     *)
(* what it left of it, step by step; for all but the database of Hermes,   *)
(* which is read while it is written, the row is a function of it.  What a *)
(* caller attests is true.                                                 *)
(***************************************************************************)
EXTENDS Integers, Sequences, FiniteSets, FiniteSetsExt, SequencesExt, TLC

CONSTANTS
    None, Route, Other,     \* the reviewed offering, and another
    Calls,                  \* bound: calls in the ledger of Hermes
    Usages,                 \* bound: usage that Codex reports
    MaxCalls                \* bound: calls of a model, events of a stream

VARIABLES source, upstream, reader

vars == <<source, upstream, reader>>

Sources == {"codex", "claude", "openclaw", "report", "hermes"}

Refused == << >>

Meters == {"uncached", "read", "write", "total", "output", "reasoning", "outputTotal", "cost"}

Unknown == [m \in Meters |-> None]

Total(f) == MapThenSumSet(LAMBDA x : f[x], DOMAIN f)

\* reasoning is a part of output
Visible(output, reasoning) ==
    IF output = None \/ reasoning = None THEN None ELSE output - reasoning

----------------------------------------------------------------------------
(***************************************************************************)
(* codex exec --json: the events of one turn, which may be read at any     *)
(* time.                                                                   *)
(***************************************************************************)
Types == {"thread.started", "turn.started", "item", "error", "turn.failed", "turn.completed"}

\* From a state, by a type, to a state; all else is refused.
Transitions ==
    {<<"initial", "thread.started", "thread">>, <<"thread", "item", "thread">>,
     <<"thread", "error", "failed">>, <<"thread", "turn.started", "turn">>,
     <<"turn", "item", "turn">>, <<"turn", "error", "turn_error">>,
     <<"turn", "turn.failed", "failed">>, <<"turn_error", "turn.failed", "failed">>,
     <<"turn", "turn.completed", "complete">>}

Follow(state, type, otherwise) ==
    LET to == {t[3] : t \in {u \in Transitions : u[1] = state /\ u[2] = type}}
    IN  IF to = {} THEN otherwise ELSE CHOOSE s \in to : TRUE

\* Mutant: what follows the end of a turn is not looked at.
StepToEnd(state, type) ==
    Follow(state, type, IF state \in {"failed", "complete"} THEN state ELSE "refused")

\* One event of _terminal_usage
Step(state, type) == Follow(state, type, "refused")

Terminal(stream) == FoldLeft(Step, "initial", stream)

Written(u) == IF u.write = None THEN 0 ELSE u.write

\* Mutant: writes that are not reported are none.
UncachedFromZero(u) == u.total - u.read - Written(u)

\* Before 0.151.0 writes to the cache are not reported.
Uncached(u) == IF u.write = None THEN None ELSE u.total - u.read - u.write

CodexMeters(u) ==
    IF u.reasoning > u.output \/ u.read + Written(u) > u.total THEN Refused
    ELSE [m \in Meters |->
            CASE m = "uncached" -> Uncached(u)
              [] m = "output" -> Visible(u.output, u.reasoning)
              [] m = "outputTotal" -> u.output
              [] m = "cost" -> None
              [] OTHER -> u[m]]

Codex(u) ==
    LET state == Terminal(u.stream)
    IN  IF u.routes # {Route} \/ state \notin {"failed", "complete"} THEN Refused
        ELSE IF state = "failed" THEN Unknown
        ELSE CodexMeters(u.usage)

Emit ==
    /\ source = "codex" /\ Len(upstream.stream) < MaxCalls + 2
    /\ Terminal(upstream.stream) # "refused"
    /\ \E type \in Types : upstream' = [upstream EXCEPT !.stream = Append(@, type)]
    /\ UNCHANGED <<source, reader>>

----------------------------------------------------------------------------
(***************************************************************************)
(* The result of the Claude Agent SDK: usage of a segment by model, and    *)
(* its cost.  Usage of a call may be missing there, its cost is not, and   *)
(* each token costs one.                                                   *)
(***************************************************************************)
\* Usage of each model that has some.
ByModel(calls) ==
    [r \in {calls[i].route : i \in {j \in DOMAIN calls : calls[j].kept}} |->
        LET of == {i \in DOMAIN calls : calls[i].route = r /\ calls[i].kept}
        IN  [tokens |-> MapThenSumSet(LAMBDA i : calls[i].tokens, of), cost |-> MapThenSumSet(LAMBDA i : calls[i].tokens, of)]]

\* Mutant: what other models did is left out.
HasRoute(usage) == Route \in DOMAIN usage

\* _single_model_usage_entry
SingleModel(usage) == DOMAIN usage = {Route}

\* Mutant: the cost of the model is taken as it is.
AnyCost(usage, cost) == TRUE

CostsAgree(usage, cost) == usage[Route].cost = cost

Claude(u) ==
    LET usage == u.usage
    IN  IF ~u.ended \/ (u.subtype # "success" /\ ~u.error) THEN Refused
        ELSE IF u.subtype = "error_during_execution"
        THEN IF DOMAIN usage = {} \/ SingleModel(usage) THEN Unknown ELSE Refused
        ELSE IF ~SingleModel(usage) THEN Refused
        ELSE IF ~CostsAgree(usage, u.cost) THEN Refused
        ELSE [Unknown EXCEPT !["uncached"] = usage[Route].tokens, !["cost"] = usage[Route].cost]

CallModel ==
    /\ source = "claude" /\ ~upstream.ended /\ Len(upstream.calls) < MaxCalls
    /\ \E route \in {Route, Other}, tokens \in 0 .. 1, kept \in BOOLEAN :
          upstream' = [upstream EXCEPT
             !.calls = Append(@, [route |-> route, tokens |-> tokens, kept |-> kept]),
             !.cost = @ + tokens]
    /\ UNCHANGED <<source, reader>>

\* A crash may leave nothing, or zeros.
EndSegment ==
    /\ source = "claude" /\ ~upstream.ended
    /\ \E subtype \in {"success", "error_max_turns", "error_during_execution"}, error \in BOOLEAN :
       LET usage == ByModel(upstream.calls)
           zeros == [r \in DOMAIN usage |-> [tokens |-> 0, cost |-> 0]]
       IN  \E left \in {usage} \cup (IF subtype = "error_during_execution"
                                     THEN {zeros, << >>} ELSE {}) :
              upstream' = [upstream EXCEPT !.ended = TRUE, !.subtype = subtype,
                                           !.error = error, !.usage = left]
    /\ UNCHANGED <<source, reader>>

----------------------------------------------------------------------------
(***************************************************************************)
(* Events of OpenClaw, which a projector signs.  Names of runs come again  *)
(* in other units, names of calls in other attempts.                       *)
(***************************************************************************)
\* Mutant: only the event is signed.
EventOnly(e) == [f \in {"run", "call", "route", "tokens"} |-> e[f]]

\* All but the signature
Material(e) == [f \in {"unit", "run", "attempt", "call", "route", "tokens"} |-> e[f]]

\* Mutant: attempts of one run are not told apart.
CallIdOfRun(e) == <<e.unit, e.run, e.call>>

\* _pseudonymous_identifier: of every part, with its length
CallId(e) == <<e.unit, e.run, e.attempt, e.call>>
AttemptId(e) == <<e.unit, e.run, e.attempt>>

Accepted(e) == e.signature = Material(e) /\ e.route = Route

\* Usage that is not complete is not in the event.
OpenClaw(e) ==
    IF ~Accepted(e) THEN Refused
    ELSE [call |-> CallId(e), attempt |-> AttemptId(e),
          meters |-> [Unknown EXCEPT !["outputTotal"] = e.tokens]]

Project ==
    /\ source = "openclaw" /\ Cardinality(upstream.calls) < MaxCalls
    /\ \E unit, attempt, call \in 1 .. 2, route \in {Route, Other}, tokens \in {None, 1} :
       LET made == [unit |-> unit, run |-> 1, attempt |-> attempt, call |-> call,
                    route |-> route, tokens |-> tokens]
           signed == [unit |-> unit, run |-> 1, attempt |-> attempt, call |-> call,
                      route |-> route, tokens |-> tokens, signature |-> Material(made)]
       IN  /\ \A c \in upstream.calls : <<c.unit, c.attempt, c.call>> # <<unit, attempt, call>>
           /\ upstream' = [upstream EXCEPT !.calls = @ \cup {made}, !.envelopes = @ \cup {signed}]
    /\ UNCHANGED <<source, reader>>

\* An envelope is filed under another unit, or as another attempt.
Relabel ==
    /\ source = "openclaw" /\ ~upstream.relabelled
    /\ \E e \in upstream.envelopes, f \in {"unit", "attempt"} :
          upstream' = [upstream EXCEPT !.relabelled = TRUE,
                         !.envelopes = (@ \ {e}) \cup {[e EXCEPT ![f] = 3 - @]}]
    /\ UNCHANGED <<source, reader>>

----------------------------------------------------------------------------
(***************************************************************************)
(* Costs of Hermes: what it is known from, and how much.                   *)
(***************************************************************************)
InvalidCost == [basis |-> "invalid", amount |-> None]
NoCost == [basis |-> "unknown", amount |-> None]

Zero(amount) == amount \in {None, 0}

\* _cost_meters
CostOf(c, auxiliary) ==
    CASE c.status \in {None, "unknown"} ->
           IF c.status = None /\ c.from = None /\ auxiliary /\ ~Zero(c.estimated) /\ Zero(c.actual)
           THEN [basis |-> "estimated", amount |-> c.estimated]
           ELSE IF c.from \in {None, "none"} /\ Zero(c.estimated) /\ Zero(c.actual)
           THEN NoCost ELSE InvalidCost
      [] c.status = "actual" ->
           IF c.from = "provider" /\ c.actual # None
           THEN [basis |-> "provider_reported", amount |-> c.actual] ELSE InvalidCost
      [] c.status = "estimated" ->
           IF c.from = "docs" /\ c.estimated # None /\ Zero(c.actual)
           THEN [basis |-> "estimated", amount |-> c.estimated] ELSE InvalidCost
      [] OTHER ->
           IF c.from = "none" /\ Zero(c.estimated) /\ Zero(c.actual)
           THEN [basis |-> "included", amount |-> 0] ELSE InvalidCost

\* Mutant: a total is as certain as its best part.
BestBasis(bases) ==
    IF "provider_reported" \in bases THEN "provider_reported" ELSE "estimated"

\* A total with an estimate in it is one.
Basis(bases) ==
    IF Cardinality(bases) = 1 THEN CHOOSE b \in bases : TRUE
    ELSE IF bases \subseteq {"provider_reported", "estimated"} THEN "estimated" ELSE "unknown"

\* _combine_cost_meters
Combined(costs) ==
    LET bases == {costs[i].basis : i \in DOMAIN costs}
    IN  IF bases = {} \/ "unknown" \in bases \/ Basis(bases) = "unknown" THEN NoCost
        ELSE [basis |-> Basis(bases), amount |-> Total([i \in DOMAIN costs |-> costs[i].amount])]

(***************************************************************************)
(* The usage report of one run of Hermes, but for its cost.                *)
(***************************************************************************)
Buckets == {"uncached", "read", "write", "outputTotal"}

\* Mutant: a total that lacks a part is compared with the rest.
AgreesWithKnown(r) ==
    r["total"] = None \/ r["total"] = Total([b \in {k \in Buckets : r[k] # None} |-> r[b]])

TotalAgrees(r) ==
    (\A b \in Buckets \cup {"total"} : r[b] # None) => r["total"] = Total([b \in Buckets |-> r[b]])

Report(u) ==
    LET r == u.report
    IN  IF u.routes # {Route} \/ ~TotalAgrees(r) THEN Refused
        ELSE IF r["reasoning"] # None /\ r["outputTotal"] # None /\ r["reasoning"] > r["outputTotal"]
        THEN Refused
        ELSE [m \in Meters |-> CASE m = "output" -> Visible(r["outputTotal"], r["reasoning"])
                                 [] m \in {"total", "cost"} -> None
                                 [] OTHER -> r[m]]

Forget ==
    /\ source = "report"
    /\ \E f \in DOMAIN upstream.report :
          /\ upstream.report[f] # None
          /\ upstream' = [upstream EXCEPT !.report[f] = None]
    /\ UNCHANGED <<source, reader>>

----------------------------------------------------------------------------
(***************************************************************************)
(* The database of Hermes: a ledger of calls, with auxiliary ones, and a   *)
(* summary of the others, which may hold what no row does.  What was       *)
(* committed is in the log of the database first, and in its file after a  *)
(* checkpoint; a file may be put in its place.                             *)
(***************************************************************************)
Empty == [rows |-> << >>, residual |-> FALSE, ended |-> FALSE, spent |-> 0]

\* How many commits made it: a file is never older than it was.
Age(c) == Len(c.rows) + (IF c.ended THEN 1 ELSE 0)

Cost(row) == CostOf(row.cost, row.auxiliary)

CostsOf(rows) == [i \in DOMAIN rows |-> Cost(rows[i])]

\* Mutant: calls beside the main loop are not counted.
MainRows(c) == {i \in DOMAIN c.rows : ~c.rows[i].auxiliary}

CountedRows(c) == DOMAIN c.rows

\* Mutant: some row is of the offering.
SomeRouteFits(c) == \E i \in DOMAIN c.rows : c.rows[i].route = Route

\* _validate_ledger_route
RouteFits(c) == {c.rows[i].route : i \in DOMAIN c.rows} = {Route}

\* _import_hermes_session_snapshot
Session(c) ==
    IF ~c.ended \/ ~RouteFits(c) \/ c.residual \/ InvalidCost \in {Cost(c.rows[i]) : i \in DOMAIN c.rows}
    THEN Refused
    ELSE [Unknown EXCEPT
            !["uncached"] = MapThenSumSet(LAMBDA i : c.rows[i].tokens, CountedRows(c)),
            !["cost"] = Combined([i \in CountedRows(c) |-> Cost(c.rows[i])])]

\* What happens afterwards does not matter.
Ended == reader.pc \in {"done", "refused"}

Commit(content) ==
    /\ source = "hermes" /\ upstream.file = 1 /\ ~Ended
    /\ upstream' = [upstream EXCEPT !.committed = content]
    /\ UNCHANGED <<source, reader>>

Record ==
    /\ source = "hermes" /\ Len(upstream.committed.rows) < MaxCalls
    /\ \E call \in Calls :
          Commit([upstream.committed EXCEPT !.spent = @ + call.tokens, !.rows = Append(@, call)])

EndSession ==
    /\ source = "hermes" /\ ~upstream.committed.ended
    /\ \E residual \in BOOLEAN :
          Commit([upstream.committed EXCEPT !.ended = TRUE, !.residual = residual])

Checkpoint ==
    /\ source = "hermes" /\ upstream.main # upstream.committed /\ ~Ended
    /\ upstream' = [upstream EXCEPT !.main = upstream.committed]
    /\ UNCHANGED <<source, reader>>

\* Once, by a file that nobody writes, and never by the one that was there.
Replace ==
    /\ source = "hermes" /\ upstream.file = 1 /\ reader.pc # "idle" /\ ~Ended
    /\ upstream' = [upstream EXCEPT !.file = 2, !.old = upstream.committed,
                     !.committed = [Empty EXCEPT !.ended = TRUE], !.main = Empty]
    /\ reader' = [reader EXCEPT !.replaced = reader.pc # "closed"]
    /\ UNCHANGED source

----------------------------------------------------------------------------
(***************************************************************************)
(* import_hermes_session: the file is pinned, a transaction makes what is  *)
(* read one state, and the path is looked at three times.                  *)
(***************************************************************************)
Read(from, to) ==
    /\ source = "hermes" /\ reader.pc = from /\ to # from
    /\ UNCHANGED <<source, upstream>>

Open ==
    /\ Read("idle", "opened")
    /\ reader' = [reader EXCEPT !.pc = "opened", !.file = upstream.file,
                                 !.since = Age(upstream.committed)]

\* Mutant: the path is not looked at again.
AnyFile == TRUE

\* _validate_sqlite_source_family
SameFile == upstream.file = reader.file

Looks == {<<"opened", "pinned">>, <<"begun", "copying">>, <<"copied", "closed">>}

Look ==
    \E step \in Looks :
       /\ Read(step[1], step[2])
       /\ reader' = [reader EXCEPT !.pc = IF SameFile THEN step[2] ELSE "refused"]

Connect ==
    /\ Read("pinned", "connected")
    /\ reader' = [reader EXCEPT !.pc = "connected", !.connection = upstream.file]

\* Mutant: the bytes of the file are copied.
CopyOfBytes == IF reader.connection = upstream.file THEN upstream.main ELSE upstream.old

\* A transaction sees what is committed in the log too.
Transaction == IF reader.connection = upstream.file THEN upstream.committed ELSE upstream.old

Begin ==
    /\ Read("connected", "begun")
    /\ reader' = [reader EXCEPT !.pc = "begun", !.snapshot = Transaction]

\* It may be too large, or take too long.
Backup ==
    /\ Read("copying", "copied")
    /\ \E pc \in {"copied", "refused"} : reader' = [reader EXCEPT !.pc = pc]

Import ==
    /\ Read("closed", "done")
    /\ reader' = [reader EXCEPT !.pc = "done", !.row = Session(reader.snapshot)]

----------------------------------------------------------------------------
Idle == [pc |-> "idle", file |-> 0, connection |-> 0, snapshot |-> Empty, row |-> Refused,
         since |-> 0, replaced |-> FALSE]

Init ==
    /\ source \in Sources /\ reader = Idle
    /\ upstream \in
         CASE source = "codex" ->
                [routes : {{Route}, {Route, Other}}, stream : {<< >>}, usage : Usages]
           [] source = "claude" ->
                {[calls |-> << >>, cost |-> 0, ended |-> FALSE, subtype |-> None, error |-> FALSE, usage |-> << >>]}
           [] source = "openclaw" -> {[calls |-> {}, envelopes |-> {}, relabelled |-> FALSE]}
           [] source = "report" ->
                [routes : {{Route}, {Route, Other}},
                 report : [Buckets \cup {"total", "reasoning"} -> {0, 1, 2}]]
           [] OTHER -> {[file |-> 1, main |-> Empty, committed |-> Empty, old |-> Empty]}

Next ==
    \/ Emit \/ CallModel \/ EndSegment \/ Project \/ Relabel \/ Forget
    \/ Record \/ EndSession \/ Checkpoint \/ Replace
    \/ Open \/ Look \/ Connect \/ Begin \/ Backup \/ Import

Spec == Init /\ [][Next]_vars

----------------------------------------------------------------------------
(***************************************************************************)
(* Usage is of the offering it is filed under: no other model had a part   *)
(* in it, and none of what the offering did is left out of it, neither     *)
(* auxiliary calls nor such whose usage the source lost.                   *)
(***************************************************************************)
UsageIsWholeAndOwn ==
    /\ source = "codex" /\ Codex(upstream) # Refused => upstream.routes = {Route}
    /\ source = "claude" /\ Claude(upstream) \notin {Refused, Unknown} =>
          /\ \A i \in DOMAIN upstream.calls :
                upstream.calls[i].kept \/ upstream.calls[i].tokens > 0 => upstream.calls[i].route = Route
          /\ Claude(upstream)["uncached"] =
               MapThenSumSet(LAMBDA i : upstream.calls[i].tokens, DOMAIN upstream.calls)
    /\ source = "hermes" /\ reader.row # Refused =>
          /\ reader.row["uncached"] = reader.snapshot.spent
          /\ \A i \in DOMAIN reader.snapshot.rows : reader.snapshot.rows[i].route = Route

(***************************************************************************)
(* What is known of input is all of it, and what failed or crashed has a   *)
(* row of which nothing is known.                                          *)
(***************************************************************************)
PartsMakeUpTotal ==
    /\ source = "codex" /\ Codex(upstream) # Refused =>
          LET row == Codex(upstream)
          IN  /\ row["uncached"] # None =>
                   /\ row["write"] # None
                   /\ row["total"] = row["uncached"] + row["read"] + row["write"]
              /\ Last(upstream.stream) # "turn.completed" => row = Unknown
    /\ source = "claude" /\ upstream.ended /\ upstream.subtype = "error_during_execution" =>
          Claude(upstream) \in {Refused, Unknown}

(***************************************************************************)
(* A stream that is still written is not taken for a result: what can be   *)
(* read cannot be continued.                                               *)
(***************************************************************************)
ResultIsNeverExtended ==
    [][source = "codex" /\ Codex(upstream) # Refused => Codex(upstream') = Refused]_vars

(***************************************************************************)
(* Rows have one name for one call and one for its attempt, whatever names *)
(* come again, and none is of an envelope that was filed elsewhere.        *)
(***************************************************************************)
NamesTellCallsApart ==
    source = "openclaw" =>
        /\ \A e, f \in {k \in upstream.envelopes : Accepted(k)} :
              /\ OpenClaw(e).call = OpenClaw(f).call => e = f
              /\ (OpenClaw(e).attempt = OpenClaw(f).attempt) =
                   (<<e.unit, e.run, e.attempt>> = <<f.unit, f.run, f.attempt>>)
        /\ \A e \in {k \in upstream.envelopes : Accepted(k)} : Material(e) \in upstream.calls

(***************************************************************************)
(* Knowing less loses what is made of it and nothing else.                 *)
(***************************************************************************)
KnowingLessIsFine ==
    [][source = "report" /\ Report(upstream) # Refused =>
        /\ Report(upstream') # Refused
        /\ \A m \in Meters : Report(upstream')[m] \in {Report(upstream)[m], None}]_vars

(***************************************************************************)
(* One more call never makes the total cost more certain than it was.      *)
(***************************************************************************)
Certainty(basis) ==
    CASE basis \in {"provider_reported", "included"} -> 2 [] basis = "estimated" -> 1 [] OTHER -> 0

CostOnlyLessCertain ==
    [][source = "hermes" /\ upstream'.file = upstream.file /\ upstream.committed.rows # << >> =>
        LET before == CostsOf(upstream.committed.rows)
            after == CostsOf(upstream'.committed.rows)
        IN  InvalidCost \notin Range(after) =>
              /\ Certainty(Combined(after).basis) <= Certainty(Combined(before).basis)
              /\ Certainty(Combined(after).basis) = Certainty(Combined(before).basis) =>
                    Combined(after).basis = Combined(before).basis]_vars

(***************************************************************************)
(* What is imported of a database was committed in it while it was read,   *)
(* and the file was not replaced meanwhile.                                *)
(***************************************************************************)
SnapshotIsOfOneMoment ==
    reader.pc \in {"closed", "done"} => ~reader.replaced /\ reader.since <= Age(reader.snapshot)
----------------------------------------------------------------------------
\* What makes the properties inductive.
IsContent(c) ==
    DOMAIN c = DOMAIN Empty /\ c.rows \in Seq(Calls) /\ c.ended \in BOOLEAN

\* The reader opens the first file; what it reads of that is not older than it
\* was then, and what it reads of another goes no further.
HermesInv ==
    /\ DOMAIN upstream = {"file", "main", "committed", "old"}
    /\ upstream.file \in {1, 2} /\ IsContent(upstream.committed) /\ IsContent(upstream.old)
    /\ DOMAIN reader = DOMAIN Idle
    /\ reader.pc \in {"idle", "opened", "pinned", "connected", "begun", "copying", "copied",
                      "closed", "done", "refused"}
    /\ reader.pc = "idle" => upstream.file = 1 /\ ~reader.replaced
    /\ reader.pc # "idle" =>
          /\ reader.file = 1 /\ reader.since \in Nat
          /\ reader.since <= Age(IF upstream.file = 1 THEN upstream.committed ELSE upstream.old)
    /\ upstream.file = 1 \/ reader.pc \in {"closed", "done"} => ~reader.replaced
    /\ reader.pc \in {"connected", "begun", "copying", "copied", "closed", "done"} =>
          reader.connection \in 1 .. upstream.file
    /\ reader.pc \in {"copying", "copied", "closed", "done"} => reader.connection = 1
    /\ reader.pc \in {"begun", "copying", "copied", "closed", "done"} =>
          /\ IsContent(reader.snapshot)
          /\ reader.connection = 1 => reader.since <= Age(reader.snapshot)

\* Envelopes are of calls, which their names tell apart.
OpenClawInv ==
    /\ DOMAIN upstream = {"calls", "envelopes", "relabelled"}
    /\ \A c, d \in upstream.calls :
          <<c.unit, c.attempt, c.call>> = <<d.unit, d.attempt, d.call>> => c = d
    /\ \A e \in upstream.envelopes :
          /\ e = [f \in {"unit", "run", "attempt", "call", "route", "tokens", "signature"} |-> e[f]]
          /\ e.signature \in upstream.calls

TelemetryInv ==
    /\ source \in Sources
    /\ source # "hermes" => reader = Idle
    /\ source = "hermes" => HermesInv
    /\ source = "openclaw" => OpenClawInv
    /\ source = "report" =>
          /\ DOMAIN upstream = {"routes", "report"}
          /\ DOMAIN upstream.report = Buckets \cup {"total", "reasoning"}
=============================================================================
