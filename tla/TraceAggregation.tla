-------------------------- MODULE TraceAggregation --------------------------
(***************************************************************************)
(* What a trace is aggregated to, as rows are appended to it: the queries  *)
(* of _query_trace_snapshot and aggregate_traces in                        *)
(* src/src/model_skyline/traces.py.                                        *)
(*                                                                         *)
(* A row is of a work unit of an offering; a unit has one row of its own   *)
(* or rows of its attempts, model calls or requests.  A meter that a row   *)
(* does not have is Null.  A rate is a pair of integers.                   *)
(***************************************************************************)
EXTENDS Integers, Sequences, FiniteSetsExt, TLC

CONSTANTS
    Null,
    Workload,       \* the expected workload
    Trusted,        \* TRUSTED_TRACE_PRODUCERS
    Rows,           \* bound: rows that are appended, valid ones
    MaxRows         \* bound: rows in a trace

VARIABLE trace

\* One meter for those that are summed, and those that are added up.
Meters == {"uncached", "read", "write", "write5m", "write1h", "total"}

\* No summary: one that is made has an offering.
Refused == << >>

----------------------------------------------------------------------------
Of(s, o) == {i \in DOMAIN s : s[i].offering = o}
UnitsOf(s, o) == {s[i].unit : i \in Of(s, o)}
In(s, u) == {i \in DOMAIN s : s[i].unit = u}

SumOver(S, values) == MapThenSumSet(LAMBDA x : values[x], S)

\* Mutant: a total of what is known.
TotalOfKnown(values) == SumOver({x \in DOMAIN values : values[x] # Null}, values)

\* CASE WHEN count(value) = count(*) THEN sum(value) END
Total(values) ==
    IF \A x \in DOMAIN values : values[x] # Null THEN SumOver(DOMAIN values, values) ELSE Null

\* Totals of units, and the total of those.
TotalOf(s, units, values) ==
    Total([u \in units |-> Total([i \in In(s, u) |-> values[i]])])

CompleteWrite(row) ==
    LET generic == row.at["write"]
        short == row.at["write5m"]
        long == row.at["write1h"]
    IN  CASE generic # Null /\ short = Null /\ long = Null -> generic
          [] generic = Null /\ short # Null /\ long # Null -> short + long
          [] OTHER -> Null

Requests(row) == IF row.scope = "request" THEN 1 ELSE row.requests

Attempts(s, u) ==
    IF \E i \in In(s, u) : s[i].scope = "work_unit"
    THEN s[CHOOSE i \in In(s, u) : TRUE].attempts
    ELSE Cardinality({s[i].attempt : i \in In(s, u)})

SuccessWeight(s, u) == Max({s[i].success : i \in In(s, u)})

----------------------------------------------------------------------------
\* Mutant: only attempts are looked at.
RepeatsOfAttempts(s) ==
    \E i, j \in DOMAIN s :
        /\ i # j /\ s[i].unit = s[j].unit /\ s[i].attempt = s[j].attempt
        /\ s[i].scope = "attempt" /\ s[j].scope = "attempt"

\* DUPLICATE_REQUESTS_SQL, DUPLICATE_ATTEMPT_AGGREGATES_SQL
Repeats(s) ==
    \E i, j \in DOMAIN s :
        /\ i # j
        /\ \/ s[i].offering = s[j].offering /\ s[i].request = s[j].request
           \/ /\ s[i].unit = s[j].unit /\ s[i].attempt = s[j].attempt
              /\ s[i].scope = "attempt" /\ s[j].scope = "attempt"

\* MULTI_OFFERING_WORK_UNITS_SQL, INCONSISTENT_SCOPES_SQL, INCONSISTENT_OUTCOMES_SQL
UnitsDisagree(s) ==
    \E i, j \in DOMAIN s :
        /\ s[i].unit = s[j].unit /\ i # j
        /\ \/ s[i].offering # s[j].offering
           \/ s[i].scope # s[j].scope \/ s[i].scope = "work_unit"
           \/ s[i].success # s[j].success

\* INCONSISTENT_PROVENANCE_COVERAGE_SQL, INCONSISTENT_OFFERING_PROVENANCE_SQL and
\* the registry of reviewed producers.
ProducersDisagree(s) ==
    \/ \E i, j \in DOMAIN s :
          \/ (s[i].producer = Null) # (s[j].producer = Null)
          \/ s[i].offering = s[j].offering /\ s[i].producer # s[j].producer
    \/ \E i \in DOMAIN s : s[i].producer \notin Trusted \cup {Null}

Unfit(s) ==
    \/ s = << >>
    \/ Repeats(s) \/ UnitsDisagree(s) \/ ProducersDisagree(s)
    \/ \E i \in DOMAIN s : s[i].workload # Workload

----------------------------------------------------------------------------
Rate(n, d) == [of |-> n, in |-> d]

\* Mutant: units that failed are no part of the sample.
CountedSuccesses(s, o) == {u \in UnitsOf(s, o) : SuccessWeight(s, u) > 0}

Counted(s, o) == UnitsOf(s, o)

\* AGGREGATION_SQL for one offering.
Summary(s, o) ==
    LET units == Counted(s, o)
        successes == SumOver(units, [u \in units |-> SuccessWeight(s, u)])
        totals == [q \in Meters \cup {"requests", "attempts"} |->
                    CASE q = "requests" -> TotalOf(s, units, [i \in DOMAIN s |-> Requests(s[i])])
                      [] q = "attempts" -> Total([u \in units |-> Attempts(s, u)])
                      [] OTHER -> TotalOf(s, units, [i \in DOMAIN s |-> s[i].at[q]])]
        written == TotalOf(s, units, [i \in DOMAIN s |-> CompleteWrite(s[i])])
        known == {q \in DOMAIN totals : totals[q] # Null}
        cache == IF totals["uncached"] = Null \/ totals["read"] = Null \/ written = Null THEN 0
                 ELSE totals["uncached"] + totals["read"] + written
    IN  [units |-> Cardinality(units),
         success |-> Rate(successes, Cardinality(units)),
         totals |-> totals,
         perSuccess |-> [q \in {k \in known : successes # 0} |-> Rate(totals[q], successes)],
         cacheHits |-> IF cache = 0 THEN Null ELSE Rate(totals["read"], cache)]

\* aggregate_traces
Aggregate(s) ==
    IF Unfit(s) THEN Refused
    ELSE [o \in {s[i].offering : i \in DOMAIN s} |-> Summary(s, o)]

----------------------------------------------------------------------------
Init == trace = << >>

\* A row of another request is written, ...
Write(row) ==
    /\ Len(trace) < MaxRows
    /\ trace' = Append(trace, row @@ [request |-> Len(trace) + 1])

\* ... or the writer retries one that was written already.
Replay(i) ==
    /\ Len(trace) < MaxRows
    /\ trace' = Append(trace, trace[i])

Next ==
    \/ \E row \in Rows : Write(row)
    \/ \E i \in DOMAIN trace : Replay(i)

Spec == Init /\ [][Next]_trace

----------------------------------------------------------------------------
(***************************************************************************)
(* A total is that of every row of the offering, or it is not there: it is *)
(* never the total of the rows, or the units, that happened to have it.    *)
(***************************************************************************)
TotalsAreExactOrAbsent ==
    LET summary == Aggregate(trace)
    IN  summary # Refused =>
          \A o \in DOMAIN summary : \A q \in Meters :
              summary[o].totals[q] =
                  IF \E i \in Of(trace, o) : trace[i].at[q] = Null THEN Null
                  ELSE SumOver(Of(trace, o), [i \in DOMAIN trace |-> trace[i].at[q]])

(***************************************************************************)
(* Cache hits are a share of the input: of all of it, where the total is   *)
(* known, however its parts were reported.                                 *)
(***************************************************************************)
CacheHitsAreShare ==
    LET summary == Aggregate(trace)
    IN  summary # Refused =>
          \A o \in DOMAIN summary :
              LET hits == summary[o].cacheHits
                  total == summary[o].totals["total"]
              IN  hits # Null =>
                    /\ hits.of <= hits.in
                    /\ total # Null => hits.in = total

(***************************************************************************)
(* A unit that failed is in the sample, and what it used is in the totals. *)
(* Each row is in the sample once: nothing that was written twice counts.  *)
(***************************************************************************)
FailuresCount ==
    LET summary == Aggregate(trace)
    IN  summary # Refused =>
          /\ \A i \in DOMAIN trace : \A j \in DOMAIN trace : i # j => trace[i] # trace[j]
          /\ \A o \in DOMAIN summary :
                summary[o].units = Cardinality({trace[i].unit : i \in Of(trace, o)})

Exceeds(r, than) == r.of * than.in > than.of * r.in

(***************************************************************************)
(* A trace that was refused stays refused as it grows; a row changes the   *)
(* summary of its offering only; and one more unit that failed raises no   *)
(* success rate and lowers nothing that is used per success.               *)
(***************************************************************************)
FailureNeverHelps ==
    [][LET old == Aggregate(trace)
           new == Aggregate(trace')
           row == trace'[Len(trace')]
           o == row.offering
       IN  /\ old = Refused /\ trace # << >> => new = Refused
           /\ old # Refused /\ new # Refused =>
                /\ \A other \in DOMAIN old \ {o} : new[other] = old[other]
                /\ o \in DOMAIN old /\ row.success = 0 =>
                      /\ ~Exceeds(new[o].success, old[o].success)
                      /\ \A q \in DOMAIN new[o].perSuccess :
                            ~Exceeds(old[o].perSuccess[q], new[o].perSuccess[q])]_trace
=============================================================================
