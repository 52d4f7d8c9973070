------------------------- MODULE CatalogEnrichment -------------------------
(***************************************************************************)
(* enrich_catalog_across_workloads of                                      *)
(* src/src/model_skyline/catalog_composition.py: a reviewed policy names   *)
(* which signals of which offerings of other workloads are added to the    *)
(* offerings of a base catalog.  The code applies the mappings in the      *)
(* order of their canonical bytes, which is any order here.                *)
(***************************************************************************)
EXTENDS CatalogRows

CONSTANTS
    Reserved,       \* the path cross_workload_enrichment of the metadata
    Enrichments     \* bound: base catalogs with policies and catalogs for them

VARIABLES
    base,       \* the base catalog: its hash, workload and rows by offering id
    policy,     \* the hash and workload of the base, and per catalog a projection
    supplied,   \* the catalogs given, by hash
    rest,       \* the mappings that are not applied yet, each with its catalog
    signals,    \* the signals so far, by offering id
    audits,     \* the mappings recorded so far, by offering id
    status      \* "enriching", "done" or "error"

vars == <<base, policy, supplied, rest, signals, audits, status>>

Mappings == UNION {{<<n, m>> : m \in policy.projections[n].mappings} :
                      n \in DOMAIN policy.projections}

Init ==
    /\ \E e \in Enrichments : base = e.base /\ policy = e.policy /\ supplied = e.supplied
    /\ rest = Mappings
    /\ signals = [o \in DOMAIN base.rows |-> base.rows[o].signals]
    /\ audits = [o \in DOMAIN base.rows |-> {}]
    /\ status = "enriching"

\* Mutant: two mappings may project the same signal.
WorkloadsDiffer ==
    \A n \in DOMAIN policy.projections :
        policy.projections[n].workload # policy.workload

\* The validators of CatalogEnrichmentPolicy.
ValidPolicy ==
    /\ \A e, f \in Mappings :
          e # f /\ e[2].target = f[2].target => e[2].signals \cap f[2].signals = {}
    /\ \A n \in DOMAIN policy.projections :
          policy.projections[n].workload # policy.workload

\* What is checked before any mapping is looked at.
Bound ==
    /\ ValidPolicy
    /\ base.hash = policy.base
    /\ base.workload = policy.workload
    /\ DOMAIN base.rows # {}
    /\ DOMAIN supplied = DOMAIN policy.projections
    /\ \A o \in DOMAIN base.rows : base.rows[o].metadata[Reserved] = Missing

Has(rows, offering) == offering.id \in DOMAIN rows /\ rows[offering.id].key = offering.key

\* Offerings are matched by their complete keys, never by an id alone.
Matched(n, m) ==
    /\ supplied[n].workload = policy.projections[n].workload
    /\ Has(base.rows, m.target)
    /\ Has(supplied[n].rows, m.source)

Projected(n, m) == Effective(supplied[n].rows[m.source.id])

Applicable(n, m) ==
    /\ Matched(n, m)
    /\ \A s \in m.signals :
          /\ Projected(n, m)[s] # Missing
          /\ Projected(n, m)[s].source # NoSource
          /\ signals[m.target.id][s] = Missing

\* Mutant: the observation as it stands in the source row.
ApplyRaw(n, m) ==
    /\ status = "enriching" /\ Bound /\ <<n, m>> \in rest /\ Applicable(n, m)
    /\ rest' = rest \ {<<n, m>>}
    /\ signals' = [signals EXCEPT ![m.target.id] =
           [s \in Signals |-> IF s \in m.signals
                              THEN supplied[n].rows[m.source.id].signals[s] ELSE @[s]]]
    /\ audits' = [audits EXCEPT ![m.target.id] = @ \cup {<<n, m>>}]
    /\ UNCHANGED <<base, policy, supplied, status>>

\* Mutant: only the latest mapping is recorded.
ApplyLatestAudit(n, m) ==
    /\ status = "enriching" /\ Bound /\ <<n, m>> \in rest /\ Applicable(n, m)
    /\ rest' = rest \ {<<n, m>>}
    /\ signals' = [signals EXCEPT ![m.target.id] =
           [s \in Signals |-> IF s \in m.signals THEN Projected(n, m)[s] ELSE @[s]]]
    /\ audits' = [audits EXCEPT ![m.target.id] = {<<n, m>>}]
    /\ UNCHANGED <<base, policy, supplied, status>>

Apply(n, m) ==
    /\ status = "enriching" /\ Bound /\ <<n, m>> \in rest /\ Applicable(n, m)
    /\ rest' = rest \ {<<n, m>>}
    /\ signals' = [signals EXCEPT ![m.target.id] =
           [s \in Signals |-> IF s \in m.signals THEN Projected(n, m)[s] ELSE @[s]]]
    /\ audits' = [audits EXCEPT ![m.target.id] = @ \cup {<<n, m>>}]
    /\ UNCHANGED <<base, policy, supplied, status>>

Refuse ==
    /\ status = "enriching"
    /\ Bound => \E e \in rest : ~Applicable(e[1], e[2])
    /\ status' = "error"
    /\ UNCHANGED <<base, policy, supplied, rest, signals, audits>>

\* The rows of the result: those of the base, with the signals added.
EnrichedRow(o) == [base.rows[o] EXCEPT !.signals = signals[o]]
EnrichedRows == [o \in DOMAIN base.rows |-> EnrichedRow(o)]

Finish ==
    /\ status = "enriching" /\ Bound /\ rest = {}
    /\ status' = IF Consistent(CatalogSources(EnrichedRows)) THEN "done" ELSE "error"
    /\ UNCHANGED <<base, policy, supplied, rest, signals, audits>>

Next == (\E e \in rest : Apply(e[1], e[2])) \/ Refuse \/ Finish

Spec == Init /\ [][Next]_vars

----------------------------------------------------------------------------
ProjectedSources(n, m) == {Projected(n, m)[s].source : s \in m.signals}

Enrichable ==
    /\ Bound
    /\ \A e \in Mappings :
          /\ Matched(e[1], e[2])
          /\ \A s \in e[2].signals :
                /\ Projected(e[1], e[2])[s] # Missing
                /\ Projected(e[1], e[2])[s].source # NoSource
                /\ base.rows[e[2].target.id].signals[s] = Missing
    /\ Consistent(CatalogSources(base.rows)
                     \cup UNION {ProjectedSources(e[1], e[2]) : e \in Mappings})

(***************************************************************************)
(* Whether a policy can be applied does not depend on the order of its     *)
(* projections and mappings.                                               *)
(***************************************************************************)
EnrichmentIsOrderFree ==
    /\ status = "done" => Enrichable
    /\ status = "error" => ~Enrichable

(***************************************************************************)
(* The result has the signals of the base, with the sources they had, and  *)
(* of the others exactly those that the policy names: each with the value  *)
(* and the source it has in the catalog it was projected from.             *)
(***************************************************************************)
OnlyReviewedSignals ==
    status = "done" =>
        \A o \in DOMAIN base.rows : \A s \in Signals :
            LET value == Effective(EnrichedRow(o))[s]
                reviewed == {e \in Mappings : e[2].target.id = o /\ s \in e[2].signals}
            IN  IF base.rows[o].signals[s] # Missing
                THEN value = Effective(base.rows[o])[s]
                ELSE IF reviewed = {} THEN value = Missing
                ELSE \A e \in reviewed : value = Projected(e[1], e[2])[s]

(***************************************************************************)
(* The audit of a row accounts for every signal that the base did not      *)
(* have, once, and for no other.                                           *)
(***************************************************************************)
AuditAccounts ==
    status # "error" =>
        \A o \in DOMAIN base.rows : \A s \in Signals :
            Cardinality({e \in audits[o] : s \in e[2].signals}) =
                IF signals[o][s] # Missing /\ base.rows[o].signals[s] = Missing
                THEN 1 ELSE 0

----------------------------------------------------------------------------
\* What the proofs take of the constants: rows, and targets of mappings, have the
\* fields that are read of them.
EnrichmentsArePossible ==
    \A t \in Enrichments :
        /\ \A o \in DOMAIN t.base.rows : {"signals", "default"} \subseteq DOMAIN t.base.rows[o]
        /\ \A n \in DOMAIN t.policy.projections :
              \A m \in t.policy.projections[n].mappings :
                 /\ m.signals \subseteq Signals
                 /\ m.target = [id |-> m.target.id, key |-> m.target.key]

Applied == Mappings \ rest

\* A mapping that is applied could be, and its signals are as in the row it names.
IsApplied(n, m) ==
    /\ Matched(n, m)
    /\ \A s \in m.signals :
          /\ Projected(n, m)[s] # Missing
          /\ Projected(n, m)[s].source # NoSource
          /\ base.rows[m.target.id].signals[s] = Missing
          /\ signals[m.target.id][s] = Projected(n, m)[s]

\* An inductive invariant: every signal is of the base or of a mapping that is applied.
EnrichmentInv ==
    /\ \A o \in DOMAIN base.rows : {"signals", "default"} \subseteq DOMAIN base.rows[o]
    /\ \A e \in Mappings :
          /\ e[2].signals \subseteq Signals
          /\ e[2].target = [id |-> e[2].target.id, key |-> e[2].target.key]
    /\ rest \subseteq Mappings
    /\ DOMAIN signals = DOMAIN base.rows
    /\ DOMAIN audits = DOMAIN base.rows
    /\ rest # Mappings => Bound
    /\ status = "done" => Bound /\ rest = {}
    /\ \A e \in Applied : IsApplied(e[1], e[2])
    /\ \A o \in DOMAIN base.rows, s \in Signals :
          (\A e \in Applied : e[2].target.id = o => s \notin e[2].signals)
             => signals[o][s] = base.rows[o].signals[s]
    /\ \A o \in DOMAIN base.rows : audits[o] = {e \in Applied : e[2].target.id = o}
    /\ EnrichmentIsOrderFree
=============================================================================
