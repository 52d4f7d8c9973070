------------------------- MODULE CatalogComposition -------------------------
(***************************************************************************)
(* compose_catalogs of src/src/model_skyline/catalog_composition.py: the   *)
(* rows of several catalogs of one workload are joined, one catalog after  *)
(* the other in any order, and every conflict makes the composition fail.  *)
(***************************************************************************)
EXTENDS CatalogRows

CONSTANTS
    Names,          \* the catalogs to compose
    Offerings,      \* offering ids
    MaxOfferings,   \* MAX_SELECTION_CANDIDATES
    CatalogSets     \* bound: sets of catalogs that may be composed

----------------------------------------------------------------------------
VARIABLES
    inputs,     \* the catalogs: a workload and rows by offering id
    rest,       \* those that are not joined yet
    rows,       \* the rows composed so far, by offering id
    status      \* "composing", "done" or "error"

vars == <<inputs, rest, rows, status>>

NoRows == [o \in {} |-> Missing]

Init ==
    /\ \E catalogs \in CatalogSets : inputs \in [Names -> catalogs]
    /\ rest = Names
    /\ rows = NoRows
    /\ status = "composing"

\* The row of an offering once a catalog is joined.
Joined(o, added) ==
    IF o \notin DOMAIN rows THEN added[o]
    ELSE IF o \notin DOMAIN added THEN rows[o]
    ELSE MergedRow(rows[o], added[o])

\* A catalog that cannot be joined to what is composed.
Conflicts(n) ==
    \/ \E o \in DOMAIN rows \cap DOMAIN inputs[n].rows :
          \/ RowConflict(rows[o], inputs[n].rows[o])
          \/ ~Consistent(SourcesOf(Joined(o, inputs[n].rows)))
    \/ Cardinality(DOMAIN rows \cup DOMAIN inputs[n].rows) > MaxOfferings

OneWorkload == \A n, k \in Names : inputs[n].workload = inputs[k].workload

Join(n) ==
    /\ status = "composing" /\ n \in rest /\ OneWorkload /\ ~Conflicts(n)
    /\ rows' = [o \in DOMAIN rows \cup DOMAIN inputs[n].rows |->
                   Joined(o, inputs[n].rows)]
    /\ rest' = rest \ {n}
    /\ UNCHANGED <<inputs, status>>

Refuse ==
    /\ status = "composing"
    /\ ~OneWorkload \/ \E n \in rest : Conflicts(n)
    /\ status' = "error"
    /\ UNCHANGED <<inputs, rest, rows>>

Finish ==
    /\ status = "composing" /\ rest = {} /\ OneWorkload
    /\ status' = IF Consistent(CatalogSources(rows)) THEN "done" ELSE "error"
    /\ UNCHANGED <<inputs, rest, rows>>

Next == (\E n \in Names : Join(n)) \/ Refuse \/ Finish

Spec == Init /\ [][Next]_vars

----------------------------------------------------------------------------
\* What the composition must be, from the set of its inputs alone.
RowsFor(o) == {inputs[n].rows[o] : n \in {k \in Names : o \in DOMAIN inputs[k].rows}}

AllOfferings == UNION {DOMAIN inputs[n].rows : n \in Names}

AllSame(parts) == \A r, t \in parts : SameRow(r, t)

\* The sources that the row composed of some rows mentions.
ExpectedSources(parts) ==
    ((UNION {SourcesOfSignals(Effective(r)) : r \in parts})
        \cup (IF AllSame(parts) THEN {r.default : r \in parts} ELSE {}))
    \ {NoSource}

Composable ==
    /\ OneWorkload
    /\ Cardinality(AllOfferings) <= MaxOfferings
    /\ \A o \in AllOfferings : \A r, q \in RowsFor(o) : ~RowConflict(r, q)
    /\ Consistent(UNION {ExpectedSources(RowsFor(o)) : o \in AllOfferings})

(***************************************************************************)
(* Whether catalogs compose does not depend on their order: they compose   *)
(* exactly if no two rows conflict and every source id has one meaning.    *)
(***************************************************************************)
OutcomeIsOrderFree ==
    /\ status = "done" => Composable
    /\ status = "error" => ~Composable

(***************************************************************************)
(* Nothing is lost, nothing is invented and nothing changes its source: at *)
(* any point a composed row has, up to spelling, exactly the signals and   *)
(* the metadata of the rows it was made of, with the sources they had.     *)
(***************************************************************************)
ComposedIsUnion ==
    status # "error" =>
        \A o \in DOMAIN rows :
            LET parts == {inputs[n].rows[o] :
                             n \in {k \in Names \ rest : o \in DOMAIN inputs[k].rows}}
                Any(f(_), x) == {v \in {f(p)[x] : p \in parts} : v # Missing}
            IN  /\ \A s \in Signals :
                      LET values == Any(Effective, s)
                          value == Effective(rows[o])[s]
                      IN  IF values = {} THEN value = Missing
                          ELSE \A v \in values : SameObservation(v, value)
                /\ \A p \in Paths :
                      LET values == Any(LAMBDA r : r.metadata, p)
                          value == rows[o].metadata[p]
                      IN  IF values = {} THEN value = Missing
                          ELSE \A v \in values : Same(v, value)

----------------------------------------------------------------------------
\* What the proofs take of the constants: signals are observations, which stay there
\* when they are given a source, no leaf lies within another of its row, and a source
\* id has one meaning in a row.
Observes(r) ==
    \A s \in Signals : r.signals[s] # Missing =>
        LET o == r.signals[s]
        IN  /\ o = [num |-> o.num, spelling |-> o.spelling, source |-> o.source]
            /\ Effective(r)[s] # Missing

IsRow(r) ==
    /\ Observes(r)
    /\ \A e \in Within : r.metadata[e[1]] = Missing \/ r.metadata[e[2]] = Missing
    /\ Consistent(SourcesOf(r))

CatalogsArePossible ==
    /\ IsFiniteSet(Offerings) /\ MaxOfferings \in Nat /\ Within \subseteq Paths \X Paths
    /\ \A catalogs \in CatalogSets : \A c \in catalogs :
          DOMAIN c.rows \subseteq Offerings /\ \A o \in DOMAIN c.rows : IsRow(c.rows[o])

\* The rows of an offering in the catalogs that are joined, and a row that says what
\* all of some rows say.
Parts(o) == {inputs[n].rows[o] : n \in {k \in Names \ rest : o \in DOMAIN inputs[k].rows}}

Represents(row, parts) ==
    /\ Observes(row)
    /\ \A p \in parts : row.key = p.key
    /\ \A s \in Signals :
          /\ Effective(row)[s] = Missing \/ \E p \in parts : Effective(row)[s] = Effective(p)[s]
          /\ \A p \in parts : Effective(p)[s] # Missing =>
                SameObservation(Effective(p)[s], Effective(row)[s])
    /\ \A k \in Paths :
          /\ row.metadata[k] = Missing \/ \E p \in parts : row.metadata[k] = p.metadata[k]
          /\ \A p \in parts : p.metadata[k] # Missing => Same(p.metadata[k], row.metadata[k])
    /\ IF AllSame(parts) THEN row \in parts ELSE row.default = NoSource

\* An inductive invariant.
CompositionInv ==
    /\ \A n \in Names :
          /\ DOMAIN inputs[n].rows \subseteq Offerings
          /\ \A o \in DOMAIN inputs[n].rows : IsRow(inputs[n].rows[o])
    /\ rest \subseteq Names
    /\ DOMAIN rows = UNION {DOMAIN inputs[n].rows : n \in Names \ rest}
    /\ Cardinality(DOMAIN rows) <= MaxOfferings
    /\ \A o \in DOMAIN rows :
          /\ Represents(rows[o], Parts(o))
          /\ \A r, t \in Parts(o) : ~RowConflict(r, t)
    /\ OutcomeIsOrderFree
=============================================================================
