----------------------------- MODULE Selection -----------------------------
(***************************************************************************)
(* The agent policy of src/src/model_skyline/selection.py: from the        *)
(* members of a frontier snapshot an ordered list of choices, cheapest     *)
(* first on one axis, then on the other, with a limit per provider.  The   *)
(* scan of _diverse is one action per member it looks at.                  *)
(***************************************************************************)
EXTENDS Integers, Sequences, FiniteSets

CONSTANTS
    SelectionInputs,    \* of select_models: members and definition
    NoLimit             \* max_per_provider is None

ASSUME NoLimitIsNoCount == NoLimit \notin Nat

VARIABLES
    members,        \* for each offering id, its provider and its costs (Frontier!Cost)
    definition,     \* which axis to order by, how many choices, how many of a provider
    left,           \* the members that were not looked at
    chosen,         \* the choices so far
    outcome         \* "none" before it returns them, or raises

selectionVars == <<members, definition, left, chosen, outcome>>

\* A selection definition; order is the axis it orders by, the other is 3 - order.
Definitions(counts, limits) ==
    [order : {1, 2}, count : counts, limit : limits, strict : BOOLEAN]

\* The key of _sort_members; ids are ordered.
Precedes(m, n) ==
    LET c == members[m].cost[definition.order]
        e == members[n].cost[definition.order]
        next == members[m].cost[3 - definition.order]
        other == members[n].cost[3 - definition.order]
    IN  c < e \/ (c = e /\ (next < other \/ (next = other /\ m < n)))

\* The next one in the order.
IsNext(m) == m \in left /\ \A n \in left \ {m} : Precedes(m, n)

Provider(m) == members[m].provider
OfProvider(S, p) == {m \in S : Provider(m) = p}

Chosen == {chosen[i] : i \in DOMAIN chosen}
IsExhausted(p) ==
    definition.limit # NoLimit /\ Cardinality(OfProvider(Chosen, p)) >= definition.limit

\* Mutant: the list is cut before the limit per provider is applied.
CutFirst == left = {} \/ Cardinality(DOMAIN members \ left) = definition.count

ScanIsOver == left = {} \/ Len(chosen) = definition.count

SelectionInit ==
    /\ \E i \in SelectionInputs : members = i.members /\ definition = i.definition
    /\ left = DOMAIN members
    /\ chosen = << >>
    /\ outcome = "none"

\* The provider has as many as it may.
Continue(m) ==
    /\ outcome = "none" /\ ~ScanIsOver
    /\ IsNext(m) /\ IsExhausted(Provider(m))
    /\ left' = left \ {m}
    /\ UNCHANGED <<members, definition, chosen, outcome>>

Take(m) ==
    /\ outcome = "none" /\ ~ScanIsOver
    /\ IsNext(m) /\ ~IsExhausted(Provider(m))
    /\ left' = left \ {m}
    /\ chosen' = Append(chosen, m)
    /\ UNCHANGED <<members, definition, outcome>>

\* Mutant: too few choices are returned to a caller that asked not to.
ConcludeWithFewer ==
    /\ outcome = "none" /\ ScanIsOver
    /\ outcome' = IF chosen = << >> THEN "error" ELSE "selected"
    /\ UNCHANGED <<members, definition, left, chosen>>

\* The choices, the default first, or an error.
Conclude ==
    /\ outcome = "none" /\ ScanIsOver
    /\ outcome' = IF chosen = << >> \/ (definition.strict /\ Len(chosen) < definition.count)
                  THEN "error"
                  ELSE "selected"
    /\ UNCHANGED <<members, definition, left, chosen>>

SelectionNext == Conclude \/ \E m \in left : Continue(m) \/ Take(m)

----------------------------------------------------------------------------
(***************************************************************************)
(* What a selection should be, said without the loop that computes it.     *)
(***************************************************************************)
IsPermitted(S) ==
    /\ S \subseteq DOMAIN members
    /\ Cardinality(S) <= definition.count
    /\ definition.limit # NoLimit =>
          \A m \in S : Cardinality(OfProvider(S, Provider(m))) <= definition.limit

\* The members of S up to m in the order.
UpTo(S, m) == {n \in S : n = m \/ Precedes(n, m)}

\* For each k the k-th choice is at least as good as the k-th best of S: however far
\* one looks, there are as many choices as members of S.
NoWorseThan(S) == \A m \in DOMAIN members : Cardinality(UpTo(S, m)) <= Cardinality(UpTo(Chosen, m))

\* The least number of choices that is no error.
Needed == IF definition.strict THEN definition.count ELSE 1
=============================================================================
