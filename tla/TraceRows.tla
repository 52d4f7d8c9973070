----------------------------- MODULE TraceRows -----------------------------
(***************************************************************************)
(* One usage row of a trace, as it is checked on its two ways into the     *)
(* aggregator of src/src/model_skyline/traces.py: a JSON row by the        *)
(* validators of RequestTrace, a Parquet row by TRACE_VALIDATION_SQL, in   *)
(* which a comparison with an unknown value is not true.                   *)
(*                                                                         *)
(* The counts and flags of a row and its meters are one function from      *)
(* fields to values.  A field that is not there is Absent, one that is     *)
(* there without a value is Null.                                          *)
(***************************************************************************)
EXTENDS Integers, FiniteSets

CONSTANTS
    Absent, Null,
    Drafts          \* bound: the rows that an adapter starts from

VARIABLE row

Legacy == 1     \* v1alpha1 rows do not name a schema; 2 and 3 do

CacheWrites == {"write", "write5m", "write1h"}
InputParts == {"uncached", "read"} \cup CacheWrites
OutputParts == {"output", "reasoning"}
TokenMeters == InputParts \cup OutputParts \cup {"total", "outputTotal"}
Producer == {"adapter", "upstream", "commit"}
Collector == {"collector", "collectorVersion"}

\* TRACE_COLUMNS, without identities and what is only summed.
Fields == TokenMeters \cup Producer \cup Collector \cup {"unit", "requests", "attempts", "timing"}

\* LEGACY_DEFAULT_ZERO_COLUMNS and LEGACY_TRACE_COLUMNS
LegacyMeters == {"uncached", "read", "write5m", "write1h", "output", "reasoning"}
LegacyColumns == LegacyMeters \cup {"timing"}

Known(r, f) == r.at[f] \notin {Absent, Null}

\* Unknown meters count for nothing in a sum of what is known: coalesce(f, 0).
KnownOf(r, S, f) == IF f \in S /\ Known(r, f) THEN r.at[f] ELSE 0

SumOfKnown(r, S) ==
    KnownOf(r, S, "uncached") + KnownOf(r, S, "read") + KnownOf(r, S, "write")
        + KnownOf(r, S, "write5m") + KnownOf(r, S, "write1h")
        + KnownOf(r, S, "output") + KnownOf(r, S, "reasoning")

\* coalesce(f, 0) > 0, and value is not None and value != 0
Nonzero(r, f) == Known(r, f) /\ r.at[f] > 0

----------------------------------------------------------------------------
(***************************************************************************)
(* _validate_json_lines and _canonical_parquet_relation: what is refused   *)
(* before a row is checked, ...                                            *)
(***************************************************************************)
Readable(r) ==
    IF r.schema = Legacy
    THEN /\ \A f \in Fields \ LegacyColumns : r.at[f] = Absent
         /\ \A f \in LegacyMeters : r.at[f] # Null
    ELSE r.at["unit"] # Null

\* Mutant: what is not there is zero, whatever the schema.
CanonicalOfZeros(r) ==
    [schema |-> IF r.schema = Legacy THEN 2 ELSE r.schema,
     at |-> [f \in Fields |->
        IF r.at[f] # Absent THEN r.at[f]
        ELSE IF f = "unit" THEN "request"
        ELSE IF f \in LegacyMeters THEN 0
        ELSE Null]]

\* ... and as which row it is checked.
Canonical(r) ==
    [schema |-> IF r.schema = Legacy THEN 2 ELSE r.schema,
     at |-> [f \in Fields |->
        IF r.at[f] # Absent THEN r.at[f]
        ELSE IF f = "unit" THEN "request"
        ELSE IF r.schema = Legacy /\ f \in LegacyMeters THEN 0
        ELSE Null]]

----------------------------------------------------------------------------
(***************************************************************************)
(* RequestTrace.request_scope_is_coherent                                  *)
(***************************************************************************)
ScopeIsCoherent(r) ==
    LET unit == r.at["unit"]
    IN  /\ r.schema = 2 => unit # "model_call"
        /\ unit = "request" => r.at["requests"] \in {Null, 1}
        /\ unit # "work_unit" => ~Known(r, "attempts")
        /\ unit # "request" => ~Known(r, "timing")
        /\ r.at["requests"] = 0 => \A f \in TokenMeters : ~Nonzero(r, f)
        /\ r.at["attempts"] = 0 =>
              ~Nonzero(r, "requests") /\ \A f \in TokenMeters : ~Nonzero(r, f)

ProducerIsComplete(r) ==
    /\ (\E f \in Producer : Known(r, f)) => \A f \in Producer : Known(r, f)
    /\ Known(r, "collector") = Known(r, "collectorVersion")
    /\ Known(r, "collector") => Known(r, "adapter")

InputIsCoherent(r) ==
    LET tiers == Known(r, "write5m") /\ Known(r, "write1h")
    IN  /\ Known(r, "write") => ~Known(r, "write5m") /\ ~Known(r, "write1h")
        /\ Known(r, "total") => r.at["total"] >= SumOfKnown(r, InputParts)
        /\ /\ Known(r, "total") /\ Known(r, "uncached") /\ Known(r, "read")
           /\ Known(r, "write") \/ tiers
           => r.at["total"] = SumOfKnown(r, InputParts)

OutputIsCoherent(r) ==
    /\ Known(r, "outputTotal") => r.at["outputTotal"] >= SumOfKnown(r, OutputParts)
    /\ Known(r, "outputTotal") /\ (\A f \in OutputParts : Known(r, f))
          => r.at["outputTotal"] = SumOfKnown(r, OutputParts)

Coherent(r) ==
    ScopeIsCoherent(r) /\ ProducerIsComplete(r) /\ InputIsCoherent(r) /\ OutputIsCoherent(r)

----------------------------------------------------------------------------
(***************************************************************************)
(* TRACE_VALIDATION_SQL selects the rows that are refused.  A comparison,  *)
(* or a sum, with NULL in it is NULL, and WHERE only selects what is true. *)
(***************************************************************************)
Sum(r, S) == IF \A f \in S : Known(r, f) THEN SumOfKnown(r, S) ELSE Null
Less(a, b) == a # Null /\ b # Null /\ a < b
Differs(a, b) == a # Null /\ b # Null /\ a # b

ScopeIsInvalid(r) ==
    LET unit == r.at["unit"]
    IN  \/ r.schema = 2 /\ unit = "model_call"
        \/ unit = "request" /\ Differs(r.at["requests"], 1)
        \/ unit # "work_unit" /\ r.at["attempts"] # Null
        \/ unit # "request" /\ r.at["timing"] # Null
        \/ r.at["requests"] = 0 /\ \E f \in TokenMeters : Nonzero(r, f)
        \/ r.at["attempts"] = 0 /\ \E f \in TokenMeters \cup {"requests"} : Nonzero(r, f)

ProducerIsInvalid(r) ==
    \/ Cardinality({f \in Producer : r.at[f] = Null}) \notin {0, Cardinality(Producer)}
    \/ (r.at["collector"] = Null) # (r.at["collectorVersion"] = Null)
    \/ r.at["collector"] # Null /\ r.at["adapter"] = Null

\* Mutant: without coalesce a sum with an unknown part is unknown.
InputIsInvalidIfKnown(r) ==
    \/ r.at["write"] # Null /\ (r.at["write5m"] # Null \/ r.at["write1h"] # Null)
    \/ Less(r.at["total"], Sum(r, InputParts))
    \/ Differs(r.at["total"], Sum(r, {"uncached", "read", "write"}))
    \/ r.at["write"] = Null /\ Differs(r.at["total"], Sum(r, InputParts \ {"write"}))

InputIsInvalid(r) ==
    \/ r.at["write"] # Null /\ (r.at["write5m"] # Null \/ r.at["write1h"] # Null)
    \/ Less(r.at["total"], SumOfKnown(r, InputParts))
    \/ Differs(r.at["total"], Sum(r, {"uncached", "read", "write"}))
    \/ r.at["write"] = Null /\ Differs(r.at["total"], Sum(r, InputParts \ {"write"}))

OutputIsInvalid(r) ==
    \/ Less(r.at["outputTotal"], SumOfKnown(r, OutputParts))
    \/ Differs(r.at["outputTotal"], Sum(r, OutputParts))

Refused(r) ==
    ScopeIsInvalid(r) \/ ProducerIsInvalid(r) \/ InputIsInvalid(r) \/ OutputIsInvalid(r)

AcceptedAsJson(r) == Readable(r) /\ Coherent(Canonical(r))
AcceptedAsParquet(r) == Readable(r) /\ ~Refused(Canonical(r))

----------------------------------------------------------------------------
(***************************************************************************)
(* The conditions of the published JSON schema, with which a producer may  *)
(* check its rows: _request_trace_conditionals of io.py.  A schema cannot  *)
(* add, so totals are not compared.                                        *)
(***************************************************************************)
\* Mutant: a row without a unit is not taken for a request.
ImplicitUnitOfSchema(r) == r.at["unit"]

UnitOfSchema(r) == IF r.at["unit"] = Absent THEN "request" ELSE r.at["unit"]

ScopeFitsSchema(r) ==
    LET unit == UnitOfSchema(r)
    IN  /\ unit \in {"request", "attempt", "work_unit"} \/ (r.schema = 3 /\ unit = "model_call")
        /\ unit = "request" => ~Known(r, "attempts") /\ r.at["requests"] \in {Absent, Null, 1}
        /\ unit \in {"attempt", "model_call"} => ~Known(r, "attempts")
        /\ unit \in {"attempt", "model_call", "work_unit"} => ~Known(r, "timing")
        /\ r.at["requests"] = 0 => \A f \in TokenMeters : ~Nonzero(r, f)
        /\ r.at["attempts"] = 0 => \A f \in TokenMeters \cup {"requests"} : ~Nonzero(r, f)

SchemaAccepts(r) ==
    /\ ScopeFitsSchema(r)
    /\ Known(r, "write") => ~Known(r, "write5m") /\ ~Known(r, "write1h")
    /\ (\E f \in Producer : Known(r, f)) => \A f \in Producer : Known(r, f)
    /\ (\E f \in Collector : Known(r, f)) => \A f \in Collector \cup Producer : Known(r, f)

----------------------------------------------------------------------------
\* What the proofs take of the constants: any row with counts that are natural
\* numbers and a unit that is known, if they are.
Units == {"request", "attempt", "model_call", "work_unit"}
Counts == TokenMeters \cup {"requests", "attempts"}

RowIsPossible(r) ==
    /\ DOMAIN r = {"schema", "at"} /\ r.schema \in 1 .. 3 /\ Fields = DOMAIN r.at
    /\ r.at["unit"] \in Units \cup {Absent, Null}
    /\ \A f \in Counts : r.at[f] \in Nat \cup {Absent, Null}

DraftsArePossible ==
    /\ Absent # Null /\ Absent \notin Nat \cup Units /\ Null \notin Nat \cup Units
    /\ \A r \in Drafts : RowIsPossible(r)

Init == row \in Drafts

\* An adapter leaves out a meter that it does not know.
LeaveOut(f) ==
    /\ row.at[f] # Absent
    /\ row' = [row EXCEPT !.at[f] = Absent]

Next == \E f \in TokenMeters \cup {"requests", "attempts", "timing"} : LeaveOut(f)

Spec == Init /\ [][Next]_row

----------------------------------------------------------------------------
(***************************************************************************)
(* The two checks are of one contract: a row is accepted as JSON exactly   *)
(* if it is accepted as Parquet, whatever of it is unknown.                *)
(***************************************************************************)
ChecksAgree == AcceptedAsJson(row) = AcceptedAsParquet(row)

(***************************************************************************)
(* A producer that checks its rows by the published schema is refused only *)
(* for its totals, and a row that would be accepted never fails it.        *)
(***************************************************************************)
SchemaIsOfSameContract ==
    row.schema # Legacy =>
        /\ AcceptedAsJson(row) => SchemaAccepts(row)
        /\ /\ SchemaAccepts(row)
           /\ ~Known(row, "total") /\ ~Known(row, "outputTotal")
           => AcceptedAsJson(row)

(***************************************************************************)
(* Knowing less is never an error: an accepted row stays accepted when a   *)
(* meter is left out of it, so no adapter has to make one up.              *)
(***************************************************************************)
KnowingLessIsFine == [][AcceptedAsJson(row) => AcceptedAsJson(row')]_row
=============================================================================
