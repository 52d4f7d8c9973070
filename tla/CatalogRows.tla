---------------------------- MODULE CatalogRows ----------------------------
(***************************************************************************)
(* Rows of observation catalogs and how two rows of one offering are       *)
(* merged: _merge_offering_rows of                                         *)
(* src/src/model_skyline/catalog_composition.py and the validation of      *)
(* sources in models.py.                                                   *)
(*                                                                         *)
(* Values that Python compares as equal need not have the same bytes: one  *)
(* instant in two time zones, 1 and true.  A value is a number, by which   *)
(* it is compared, and a spelling, by which it is written.                 *)
(***************************************************************************)
EXTENDS FiniteSets, Naturals

CONSTANTS
    Signals,        \* signal ids
    Paths,          \* paths of metadata leaves
    Within,         \* the pairs <<p, q>> of paths with p a proper prefix of q
    Missing,        \* no signal, no leaf
    NoSource        \* no source

\* Equality of Python values, and of observations, which have a source as well.
Same(v, w) ==
    \/ v = Missing /\ w = Missing
    \/ v # Missing /\ w # Missing /\ v.num = w.num

SameObservation(o, p) == Same(o, p) /\ (o # Missing => o.source = p.source)

SameSignals(f, g) == \A s \in Signals : SameObservation(f[s], g[s])
SameMetadata(f, g) == \A p \in Paths : Same(f[p], g[p])

\* A row is a key, its signals, the leaves of its metadata, and default_source.
SameRow(r, q) ==
    /\ r.key = q.key /\ r.default = q.default
    /\ SameSignals(r.signals, q.signals) /\ SameMetadata(r.metadata, q.metadata)

\* _effective_signals: an observation without a source has the row's default.
Effective(row) ==
    [s \in Signals |->
        IF row.signals[s] # Missing /\ row.signals[s].source = NoSource
        THEN [row.signals[s] EXCEPT !.source = row.default]
        ELSE row.signals[s]]

\* _merge_metadata: leaves are identical or disjoint, no leaf lies in a mapping's place.
MetadataConflict(f, g) ==
    \/ \E p \in Paths : f[p] # Missing /\ g[p] # Missing /\ ~Same(f[p], g[p])
    \/ \E e \in Within : \/ f[e[1]] # Missing /\ g[e[2]] # Missing
                         \/ f[e[2]] # Missing /\ g[e[1]] # Missing

SignalConflict(f, g) ==
    \E s \in Signals : f[s] # Missing /\ g[s] # Missing /\ ~SameObservation(f[s], g[s])

RowConflict(left, right) ==
    /\ ~SameRow(left, right)
    /\ \/ left.key # right.key
       \/ SignalConflict(Effective(left), Effective(right))
       \/ MetadataConflict(left.metadata, right.metadata)

\* Mutant: the default source of the left row stays, for signals of both.
MergedWithDefault(left, right) ==
    IF SameRow(left, right) THEN left
    ELSE [left EXCEPT !.signals = [s \in Signals |->
              IF right.signals[s] # Missing THEN right.signals[s] ELSE left.signals[s]]]

\* Mutant: metadata of the right row is dropped.
MergedLeftMetadata(left, right) ==
    [key |-> left.key,
     signals |-> [s \in Signals |->
         IF right.signals[s] # Missing THEN Effective(right)[s] ELSE Effective(left)[s]],
     metadata |-> left.metadata,
     default |-> IF SameRow(left, right) THEN left.default ELSE NoSource]

\* _merge_offering_rows: of equal values the signal of the right is kept, and
\* the leaf of the left.
MergedRow(left, right) ==
    IF SameRow(left, right) THEN left
    ELSE [key |-> left.key,
          signals |-> [s \in Signals |->
              IF right.signals[s] # Missing THEN Effective(right)[s]
              ELSE Effective(left)[s]],
          metadata |-> [p \in Paths |->
              IF left.metadata[p] # Missing THEN left.metadata[p]
              ELSE right.metadata[p]],
          default |-> NoSource]

\* _ensure_consistent_source_ids, for a row and for a catalog.
SourcesOfSignals(given) == {given[s].source : s \in {t \in Signals : given[t] # Missing}}
SourcesOf(row) == ({row.default} \cup SourcesOfSignals(row.signals)) \ {NoSource}

Consistent(sources) == \A a, b \in sources : a.id = b.id => a = b

CatalogSources(rows) == UNION {SourcesOf(rows[o]) : o \in DOMAIN rows}
=============================================================================
