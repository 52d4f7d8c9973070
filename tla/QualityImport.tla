--------------------------- MODULE QualityImport ---------------------------
(***************************************************************************)
(* How benchmark evidence becomes observations of offerings, over time:    *)
(* an operator reviews which row of a capture stands for which offering;   *)
(* the upstream changes; the monitor classifies the change; the new        *)
(* capture is reconciled with the old reviews and projected to a catalog.  *)
(* reconcile_quality_evidence of src/src/model_skyline/quality_evidence.py,*)
(* project_quality_import_report of quality_catalog.py and                 *)
(* classify_swe_bench_change of feed_monitor.py.                           *)
(*                                                                         *)
(* A digest is the content it is taken of.  The raw audit of a capture is  *)
(* the whole capture.                                                      *)
(***************************************************************************)
EXTENDS FiniteSets, Naturals

CONSTANTS
    Rows,       \* row ids
    Captures,   \* bound: captures that the upstream may publish
    Reviews,    \* bound: a first capture and the entries its reviewer made
    NoEntry,    \* no raw audit in an entry, no report, no catalog
    Invalid     \* a result that the adapter quarantined

VARIABLES
    pinned,     \* the capture that was reviewed
    entries,    \* the reconciliation: reviewed entries by row id
    current,    \* the capture at hand
    report,     \* the latest report, or NoEntry
    catalog     \* the latest catalog: signals by offering, or NoEntry

vars == <<pinned, entries, current, report, catalog>>

----------------------------------------------------------------------------
\* Mutant: full permission is not taken to include derived results.
PermitsExactly(rights, scope) ==
    \/ scope = "internal"
    \/ scope = "derived" /\ rights = "derived_only"
    \/ scope = "full" /\ rights = "unrestricted"

\* Rights: which scopes a permission covers.
Permits(rights, scope) ==
    \/ scope = "internal"
    \/ scope = "derived" /\ rights \in {"unrestricted", "derived_only"}
    \/ scope = "full" /\ rights = "unrestricted"

\* quality_projection: what is not quality stays with the benchmark.
QualityOnly(result) == [role \in DOMAIN result \cap {"quality"} |-> result[role]]

\* Rows whose offering another entry claims too.
DuplicateTargets(es) ==
    {r \in DOMAIN es : \E q \in DOMAIN es \ {r} : es[q].offering.id = es[r].offering.id}

\* Mutant: a change of the subject is not noticed.
DriftedSource(e, entry, row) ==
    entry.source # e.source \/ (entry.raw # NoEntry /\ entry.raw # e)

Drifted(e, entry, row) ==
    \/ entry.source # e.source
    \/ entry.subject # row.subject
    \/ entry.raw # NoEntry /\ entry.raw # e

\* The outcome of a row, in the order of the checks.
Outcome(e, es, scope, r) ==
    IF r \notin DOMAIN e.rows THEN "missing_required_row"
    ELSE IF r \in DOMAIN es /\ Drifted(e, es[r], e.rows[r]) THEN "identity_drift"
    ELSE IF e.rows[r].result = Invalid THEN "invalid_result"
    ELSE IF e.rows[r].subject.kind # "single" THEN "research_only_composite"
    ELSE IF e.rows[r].subject.route = "alias" THEN "mutable_alias"
    ELSE IF /\ e.rows[r].subject.route = "unknown"
            /\ r \in DOMAIN es => es[r].relationship # "projection" THEN "unknown_route"
    ELSE IF r \notin DOMAIN es THEN "unmapped"
    ELSE IF r \in DuplicateTargets(es) THEN "duplicate_target"
    ELSE IF ~Permits(e.rights, scope) THEN "license_blocked"
    ELSE "mapped"

MappedRow(e, es, r) ==
    [offering |-> es[r].offering, relationship |-> es[r].relationship,
     subject |-> e.rows[r].subject,
     result |-> IF es[r].relationship = "exact" THEN e.rows[r].result
                ELSE QualityOnly(e.rows[r].result),
     evidence |-> e.rows[r].result]

\* reconcile_quality_evidence.
Reconcile(e, es, scope) ==
    LET ids == DOMAIN e.rows \cup DOMAIN es
        outcome == [r \in ids |-> Outcome(e, es, scope, r)]
    IN  [raw |-> e, reconciliation |-> es, scope |-> scope, records |-> outcome,
         mapped |-> [r \in {q \in ids : outcome[q] = "mapped"} |-> MappedRow(e, es, r)]]

----------------------------------------------------------------------------
(***************************************************************************)
(* classify_swe_bench_change.                                              *)
(***************************************************************************)
Subjects(e) == [r \in DOMAIN e.rows |-> e.rows[r].subject]
Results(e) == [r \in DOMAIN e.rows |-> e.rows[r].result]

\* Mutant: the results are not compared.
ChangeOfSubjects(old, new) ==
    IF old = new THEN "none"
    ELSE IF old.source # new.source THEN "source_identity_changed"
    ELSE IF DOMAIN old.rows # DOMAIN new.rows THEN "subject_set_changed"
    ELSE IF Subjects(old) # Subjects(new) THEN "subject_identity_changed"
    ELSE "raw_only"

Change(old, new) ==
    IF old = new THEN "none"
    ELSE IF old.source # new.source THEN "source_identity_changed"
    ELSE IF DOMAIN old.rows # DOMAIN new.rows THEN "subject_set_changed"
    ELSE IF Subjects(old) # Subjects(new) THEN "subject_identity_changed"
    ELSE IF Results(old) # Results(new) THEN "result_changed"
    ELSE "raw_only"

----------------------------------------------------------------------------
Init ==
    /\ \E review \in Reviews : pinned = review[1] /\ entries = review[2]
    /\ current = pinned /\ report = NoEntry /\ catalog = NoEntry

\* The upstream publishes another capture.
Refresh(e) ==
    /\ current = pinned /\ current' = e
    /\ UNCHANGED <<pinned, entries, report, catalog>>

Import(scope) ==
    /\ report' = Reconcile(current, entries, scope)
    /\ UNCHANGED <<pinned, entries, current, catalog>>

\* Mutant: only the reconciliation of the report is compared.
SameReconciliation == report # NoEntry /\ report.reconciliation = entries

\* The checks of _validated_projection_inputs: the report is what replaying
\* the reconciliation gives.
Replays == report # NoEntry /\ report = Reconcile(current, entries, report.scope)

\* project_quality_import_report.
Project ==
    /\ Replays
    /\ DOMAIN report.mapped # {}
    /\ catalog' = [o \in {report.mapped[r].offering : r \in DOMAIN report.mapped} |->
          LET r == CHOOSE q \in DOMAIN report.mapped : report.mapped[q].offering = o
          IN  report.mapped[r].result]
    /\ UNCHANGED <<pinned, entries, current, report>>

Next ==
    \/ \E e \in Captures : Refresh(e)
    \/ \E scope \in {"internal", "derived", "full"} : Import(scope)
    \/ Project

Spec == Init /\ [][Next]_vars

----------------------------------------------------------------------------
(***************************************************************************)
(* A row is only mapped as the reviewer saw it: same benchmark, same       *)
(* subject, one model behind a route that was disclosed or reviewed, for   *)
(* an offering that no other row claims, and within the rights.            *)
(***************************************************************************)
MappedAsReviewed ==
    report # NoEntry =>
        \A r \in DOMAIN report.mapped :
            /\ r \in DOMAIN pinned.rows
            /\ pinned.source = report.raw.source
            /\ pinned.rows[r].subject = report.raw.rows[r].subject
            /\ report.mapped[r].subject.kind = "single"
            /\ \/ report.mapped[r].subject.route = "exact"
               \/ /\ report.mapped[r].subject.route = "unknown"
                  /\ "cost" \notin DOMAIN report.mapped[r].result
            /\ \A q \in DOMAIN report.mapped \ {r} :
                  report.mapped[q].offering.id # report.mapped[r].offering.id
            /\ Permits(report.raw.rights, report.scope)

(***************************************************************************)
(* What the monitor says of a change is what it means for the reviews: if  *)
(* nothing or only the bytes changed every row that no entry pins to the   *)
(* bytes is mapped as before; if results changed no row drifts; if the     *)
(* benchmark is another one nothing stays mapped.                          *)
(***************************************************************************)
ChangeTellsWhatToReview ==
    \A scope \in {"internal", "derived", "full"} :
        LET change == Change(pinned, current)
            old == Reconcile(pinned, entries, scope)
            new == Reconcile(current, entries, scope)
            unpinned == {r \in DOMAIN entries : entries[r].raw = NoEntry}
        IN  /\ change \in {"none", "raw_only"} /\ pinned.rights = current.rights =>
                   \A r \in DOMAIN old.records :
                      r \in unpinned \/ r \notin DOMAIN entries =>
                        /\ old.records[r] = new.records[r]
                        /\ r \in DOMAIN old.mapped => old.mapped[r] = new.mapped[r]
            /\ change = "result_changed" =>
                   \A r \in unpinned : new.records[r] = "identity_drift" =>
                                          old.records[r] = "identity_drift"
            /\ change = "source_identity_changed" => DOMAIN new.mapped = {}

(***************************************************************************)
(* Rows are only lost as the scope of publication grows.                   *)
(***************************************************************************)
WiderScopeMapsLess ==
    LET Mapped(scope) == DOMAIN Reconcile(current, entries, scope).mapped
    IN  Mapped("full") \subseteq Mapped("derived") /\ Mapped("derived") \subseteq Mapped("internal")

(***************************************************************************)
(* A catalog is made of the capture and the reviews at hand, whenever its  *)
(* report was made: each row of it is a row of the capture, without cost   *)
(* unless the route is that of the subject.                                *)
(***************************************************************************)
CatalogIsOfCurrent ==
    [][catalog' # catalog =>
          \A o \in DOMAIN catalog' : \E r \in DOMAIN current.rows :
              /\ r \in DOMAIN entries /\ entries[r].offering = o
              /\ current.rows[r].subject = entries[r].subject
              /\ current.rows[r].result # Invalid
              /\ catalog'[o] = IF entries[r].relationship = "exact"
                               THEN current.rows[r].result
                               ELSE QualityOnly(current.rows[r].result)]_vars
----------------------------------------------------------------------------
\* What the proofs take of the constants: a route is one of three, and an entry is
\* made from what the reviewer has before them.  What makes the properties inductive.
KnownRoutes(e) ==
    \A r \in DOMAIN e.rows : e.rows[r].subject.route \in {"exact", "alias", "unknown"}

MadeFrom(es, e) ==
    \A r \in DOMAIN es :
        /\ r \in DOMAIN e.rows
        /\ es[r].source = e.source /\ es[r].subject = e.rows[r].subject

ReviewsArePossible ==
    /\ \A e \in Captures : KnownRoutes(e)
    /\ \A review \in Reviews : KnownRoutes(review[1]) /\ MadeFrom(review[2], review[1])

ImportInv ==
    /\ MadeFrom(entries, pinned)
    /\ KnownRoutes(pinned) /\ KnownRoutes(current)
    /\ report # NoEntry =>
          /\ KnownRoutes(report.raw)
          /\ report = Reconcile(report.raw, entries, report.scope)
=============================================================================
