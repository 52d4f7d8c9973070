---------------------------- MODULE HarborImport ----------------------------
(***************************************************************************)
(* The Terminal-Bench leaderboard of Harbor, imported again and again      *)
(* while it changes: src/src/model_skyline/adapters/harbor.py.             *)
(*                                                                         *)
(* An operator reviews which row stands for which offering.  Later the     *)
(* upstream scores a row again, hides it, hands its id to another system,  *)
(* adds a row, or changes the schema or the datasets of the board.         *)
(* Percentages are in hundredths, shares in ten-thousandths.  Of the       *)
(* schemas of a board the fields for pass@k are kept.                      *)
(***************************************************************************)
EXTENDS Integers, Sequences, SequencesExt, TLC

CONSTANTS
    NoEntry, Invalid,
    Ids, Systems, Scores,   \* bound: row ids, who is behind them, their results
    Boards,                 \* bound: boards to begin with
    Versions,               \* bound: other datasets and schemas of a board
    Claims,                 \* bound: relationships and offerings of a review
    Retrieved,              \* the time of the capture
    MaxRows,                \* bound: rows of the board
    MaxChanges              \* bound: changes of the board

VARIABLES
    board,      \* the upstream: dataset, schema and rows
    reviewed,   \* entries of the reconciliation, by row id
    changes     \* how often the upstream changed

vars == <<board, reviewed, changes>>

Quality == INSTANCE QualityImport WITH
    Rows <- Ids, Captures <- {}, Reviews <- {},
    pinned <- board, entries <- reviewed, current <- board, report <- NoEntry, catalog <- NoEntry

Refused == << >>

\* _PARSED_METRIC_FIELDS that a row may lack.
Parsed == {"pass2", "pass3"}

Abs(n) == IF n < 0 THEN -n ELSE n
Larger(a, b) == IF a > b THEN a ELSE b
Smaller(a, b) == IF a < b THEN a ELSE b

----------------------------------------------------------------------------
\* Mutant: to whole percents.
CoherentToThePercent(r) == Abs(r.accuracy * r.trials - 10000 * r.successes) <= 50 * r.trials

\* The accuracy that is shown is the rate of successes, rounded.
CoherentWithCounts(r) == 2 * Abs(r.accuracy * r.trials - 10000 * r.successes) <= r.trials

\* pass@k only grows with k, from the accuracy.
PassesGrow(r) ==
    LET At(k) == r.passes["pass" \o ToString(k)]
        ks == {k \in 2 .. 3 : "pass" \o ToString(k) \in DOMAIN r.passes}
    IN  /\ \A k \in ks : r.accuracy <= At(k) /\ At(k) <= 10000
        /\ \A j, k \in ks : j < k => At(j) <= At(k)

\* The subset of JSON Schema that is supported: closed objects of required and
\* other properties, which are numbers between bounds.
SchemaSupported(schema) ==
    /\ schema.required \subseteq DOMAIN schema.properties
    /\ Parsed \subseteq DOMAIN schema.properties
    /\ \A f \in DOMAIN schema.properties : schema.properties[f].minimum <= schema.properties[f].maximum

\* _validate_closed_row_object
FitsSchema(metrics, schema) ==
    /\ schema.required \subseteq DOMAIN metrics
    /\ DOMAIN metrics \subseteq DOMAIN schema.properties
    /\ \A f \in DOMAIN metrics :
          schema.properties[f].minimum <= metrics[f] /\ metrics[f] <= schema.properties[f].maximum

\* _validate_row: a row that is none refuses the board.
WellFormed(r, schema) ==
    /\ FitsSchema(r.passes, schema)
    /\ r.shown = r.trials /\ r.trials > 0 /\ r.successes <= r.trials
    /\ r.accuracy <= 10000 /\ r.half <= 10000
    /\ CoherentWithCounts(r) /\ PassesGrow(r)
    /\ r.created <= r.updated /\ r.updated <= Retrieved

\* The system is a compound of agent and model; its route is not disclosed.
Subject(row) == [kind |-> "single", route |-> "unknown", system |-> row.system]

\* Mutant: a hidden row has a result too.
ResultOfAny(r) ==
    [quality |-> [accuracy |-> r.accuracy, samples |-> r.trials, passes |-> r.passes,
                  lower |-> Larger(0, r.accuracy - r.half),
                  upper |-> Smaller(10000, r.accuracy + r.half)],
     cost |-> [total |-> r.cost, trials |-> r.trials]]

\* Measurements by role.
Result(r) ==
    IF r.status # "display" THEN Invalid
    ELSE [quality |-> [accuracy |-> r.accuracy, samples |-> r.trials, passes |-> r.passes,
                       lower |-> Larger(0, r.accuracy - r.half),
                       upper |-> Smaller(10000, r.accuracy + r.half)],
          cost |-> [total |-> r.cost, trials |-> r.trials]]

\* Mutant: the schema is no part of the identity.
SourceOfDataset(b) == <<b.dataset>>

\* What the benchmark is: its datasets and what its fields mean.
Source(b) == <<b.dataset, b.schema>>

Readable(b) ==
    /\ SchemaSupported(b.schema)
    /\ \A i, j \in DOMAIN b.rows : b.rows[i].id = b.rows[j].id => i = j
    /\ \A i \in DOMAIN b.rows : WellFormed(b.rows[i].score, b.schema)

RowOf(b, id) == b.rows[CHOOSE i \in DOMAIN b.rows : b.rows[i].id = id]

\* normalize_harbor_terminal_bench_bytes
Evidence(b) ==
    [source |-> Source(b), rights |-> "derived_only",
     rows |-> [id \in {b.rows[i].id : i \in DOMAIN b.rows} |->
                 [subject |-> Subject(RowOf(b, id)), result |-> Result(RowOf(b, id).score)]]]

\* Mutant: what failed is left out.
FailedOf(report, es) == {}

Failed(report, es) == {id \in DOMAIN es : report.records[id] # "mapped"}

\* import_harbor_terminal_bench_bytes
Import(b, es, some) ==
    IF ~Readable(b) \/ (es = << >> /\ ~some) THEN Refused
    ELSE LET report == Quality!Reconcile(Evidence(b), es, "internal")
         IN  IF Failed(report, es) # {} /\ ~some THEN Refused
             ELSE [mapped |-> report.mapped]

----------------------------------------------------------------------------
\* What the proofs take of the constants, and what makes the properties inductive.
Row == [id : Ids, system : Systems, score : Scores]

BoardsArePossible ==
    /\ \A s \in Scores : \A f \in {"trials", "successes", "accuracy", "half"} : s[f] \in Nat
    /\ \A b \in Boards : DOMAIN b = {"dataset", "schema", "rows"} /\ b.rows \in Seq(Row)

HarborInv ==
    /\ DOMAIN board = {"dataset", "schema", "rows"} /\ board.rows \in Seq(Row)
    /\ \A id \in DOMAIN reviewed : reviewed[id].raw = NoEntry

Init == board \in Boards /\ reviewed = << >> /\ changes = 0

\* inspect_harbor_terminal_bench_snapshot and the operator's entry.
Review(id, relationship, target) ==
    /\ Readable(board)
    /\ id \in DOMAIN Evidence(board).rows
    /\ reviewed' = [k \in DOMAIN reviewed \cup {id} |->
          IF k # id THEN reviewed[k]
          ELSE [source |-> Source(board), subject |-> Evidence(board).rows[id].subject,
                raw |-> NoEntry, relationship |-> relationship, offering |-> [id |-> target]]]
    /\ UNCHANGED <<board, changes>>

Upstream == changes < MaxChanges /\ changes' = changes + 1 /\ UNCHANGED reviewed

AddRow(id, system, score) ==
    /\ Len(board.rows) < MaxRows
    /\ board' = [board EXCEPT !.rows = Append(@, [id |-> id, system |-> system, score |-> score])]
    /\ Upstream

Score(i, score) == board' = [board EXCEPT !.rows[i].score = score] /\ Upstream

HandOver(i, system) == board' = [board EXCEPT !.rows[i].system = system] /\ Upstream

Withdraw(i) == board' = [board EXCEPT !.rows = RemoveAt(@, i)] /\ Upstream

Redefine(version) ==
    board' = [board EXCEPT !.dataset = version[1], !.schema = version[2]] /\ Upstream

Next ==
    \/ \E id \in Ids, c \in Claims : Review(id, c[1], c[2])
    \/ \E id \in Ids, system \in Systems, score \in Scores : AddRow(id, system, score)
    \/ \E i \in DOMAIN board.rows :
          \/ Withdraw(i)
          \/ \E score \in Scores : Score(i, score)
          \/ \E system \in Systems : HandOver(i, system)
    \/ \E version \in Versions : Redefine(version)

Spec == Init /\ [][Next]_vars

----------------------------------------------------------------------------
Imported(some) == Import(board, reviewed, some)

(***************************************************************************)
(* An import without allow_partial has every row that was reviewed, or it  *)
(* is refused: nothing is missing because it was hidden, withdrawn, handed *)
(* to another system or claimed twice.                                     *)
(***************************************************************************)
AllOrNothing ==
    \A some \in BOOLEAN :
        LET imported == Imported(some)
        IN  imported # Refused =>
                /\ some \/ DOMAIN imported.mapped = DOMAIN reviewed
                /\ \A id \in DOMAIN imported.mapped : RowOf(board, id).score.status = "display"

(***************************************************************************)
(* What is imported is of the system and the benchmark that were reviewed, *)
(* whatever became of the row and the board since; without the cost of     *)
(* that system, whose route nobody disclosed.                              *)
(***************************************************************************)
ImportedAsReviewed ==
    LET imported == Imported(TRUE)
    IN  imported # Refused =>
            \A id \in DOMAIN imported.mapped :
                /\ reviewed[id].source = <<board.dataset, board.schema>>
                /\ reviewed[id].subject.system = RowOf(board, id).system
                /\ DOMAIN imported.mapped[id].result = {"quality"}

(***************************************************************************)
(* An accuracy is that of the counts it comes with, to half a hundredth of *)
(* a percent; it is within its interval, and that within 0 and 100 percent.*)
(***************************************************************************)
IsOfCounts(q, score) ==
    /\ 0 <= q.lower /\ q.lower <= q.accuracy
    /\ q.accuracy <= q.upper /\ q.upper <= 10000
    /\ 20000 * score.successes <= (2 * q.accuracy + 1) * q.samples
    /\ (2 * q.accuracy - 1) * q.samples <= 20000 * score.successes

ScoreIsOfCounts ==
    LET imported == Imported(TRUE)
    IN  imported # Refused =>
            \A id \in DOMAIN imported.mapped :
                IsOfCounts(imported.mapped[id].result["quality"], RowOf(board, id).score)

(***************************************************************************)
(* One more result changes no mapping: only the reviewed row that was      *)
(* scored has other signals, and reviews stay what they were.              *)
(***************************************************************************)
ScoresChangeNoMapping ==
    [][LET old == Imported(TRUE)
           new == Import(board', reviewed', TRUE)
           Rest(b, id) == [b EXCEPT !.rows = [i \in DOMAIN b.rows |->
                              IF b.rows[i].id = id THEN [b.rows[i] EXCEPT !.score = 0]
                              ELSE b.rows[i]]]
       IN  reviewed' = reviewed =>
           \A id \in Ids :
              /\ Rest(board', id) = Rest(board, id)
              /\ old # Refused /\ new # Refused
              => \A other \in (DOMAIN old.mapped \cup DOMAIN new.mapped) \ {id} :
                    /\ other \in DOMAIN old.mapped /\ other \in DOMAIN new.mapped
                    /\ new.mapped[other] = old.mapped[other]]_vars
=============================================================================
