---------------------------- MODULE MCEvaluation ----------------------------
(***************************************************************************)
(* The engine over bounded inputs: each behaviour takes one catalog and    *)
(* policy and evaluates it, selects from the members of a frontier,        *)
(* calculates the proximity of an offering, or searches the grid for a     *)
(* transition.  `kind' says which.                                         *)
(***************************************************************************)
EXTENDS Proximity, Selection, GridSearch, TLC

CONSTANTS
    FrontierInput,                  \* what is evaluated
    SelectionInput, ProximityInput, SearchInput,    \* or calculated in steps
    Catalogs, FrontierPolicies,     \* of FrontierInput
    p1, p2, t, c1, c2, Reach        \* providers, offerings, and how far values reach

ASSUME KindsDiffer ==
    /\ FrontierInput \notin {SelectionInput, ProximityInput, SearchInput}
    /\ SelectionInput \notin {ProximityInput, SearchInput}
    /\ ProximityInput # SearchInput

\* The definition of a frontier has an x and a y metric.
ASSUME AxesArePair == \E x, y \in Axes : Axes = {x, y}

ASSUME CatalogsArePossible ==
    \A catalog \in Catalogs :
        /\ IsFiniteSet(DOMAIN catalog)
        /\ \A id \in DOMAIN catalog : catalog[id] \in Offerings

ASSUME PoliciesArePossible == FrontierPolicies \subseteq Policies

\* The schema asks for a positive count and limit, and ids differ.
ASSUME SelectionsArePossible ==
    \A i \in SelectionInputs :
        /\ IsFiniteSet(DOMAIN i.members) /\ DOMAIN i.members \subseteq Int
        /\ \A m \in DOMAIN i.members, axis \in {1, 2} : i.members[m].cost[axis] \in Int
        /\ i.definition \in Definitions(Nat \ {0}, (Nat \ {0}) \cup {NoLimit})

VARIABLES kind, input, result

evaluationVars == <<input, result>>

Exact(v) == [lower |-> v, value |-> v, upper |-> v, bounded |-> TRUE]
Interval(l, v, u) == [lower |-> l, value |-> v, upper |-> u, bounded |-> TRUE]
Unbounded(v) == [lower |-> v, value |-> v, upper |-> v, bounded |-> FALSE]

AxisEstimates == {Exact(-1), Exact(1), Exact(2), Interval(0, 1, 3)}
OddEstimates == AxisEstimates \cup {Unbounded(1), Missing}
GateEstimates == {Interval(1, 1, 2), Interval(0, 1, 2), Interval(1, 2, 3), Exact(0), Missing}

Plain ==
    [eligible : {TRUE}, axes : [Axes -> AxisEstimates], gate : {Exact(1)}]
Odd ==
    [eligible : {TRUE}, axes : [Axes -> OddEstimates], gate : {Exact(1)}]
        \cup [eligible : {TRUE}, axes : [Axes -> {Exact(-1), Exact(2)}],
              gate : GateEstimates]
        \cup [eligible : {FALSE}, axes : [Axes -> {Exact(-1), Exact(2)}],
              gate : {Exact(1)}]

Anything == [minimum |-> -9, maximum |-> 9]
Narrow == [minimum |-> 0, maximum |-> 1]

Exactly(p) == \A a \in Axes : p.absolute[a] = 0 /\ p.relative[a] = 0

MCPolicies ==
    {p \in [goal : [Axes -> Goals], absolute : [Axes -> {0, 1}],
            relative : [Axes -> {0, 1}], mode : Modes,
            axisRange : [Axes -> {Anything, Narrow}],
            gateRange : {[minimum |-> 1, maximum |-> 2]}] :
        /\ p.goal[1] = "minimize"
        /\ p.absolute[1] = p.absolute[2]
        /\ p.relative[1] # p.relative[2] => p.absolute[1] = 0
        /\ p.axisRange[1] = Anything
        /\ p.axisRange[2] # Anything => Exactly(p)}

\* An order of the ordinary offerings, to take each pair of them once: the
\* frontier is a set, and does not depend on which of the two has which id.
Weight(e) == 4 * e.value + e.upper
Rank(o) == 20 * Weight(o.axes[1]) + Weight(o.axes[2])

\* Two ordinary offerings and one that may be incomplete or ineligible.
Pairs == {q \in Plain \X Plain : Rank(q[1]) <= Rank(q[2])}
MCCatalogs ==
    {(1 :> q[1]) @@ (2 :> q[2]) @@ (3 :> c) : q \in Pairs, c \in Odd}

\* Of four members the first is of the one provider, and which axis comes first does
\* not matter either.
SelectionMembers(n) == [1 .. n -> [provider : {p1, p2}, cost : [Axes -> {0, 1}]]]
MCSelectionInputs ==
    [members : UNION {SelectionMembers(n) : n \in 0 .. 3},
     definition : Definitions({1, 2, 3}, {1, 2, NoLimit})]
    \cup [members : {f \in SelectionMembers(4) : f[1].provider = p1},
          definition : {d \in Definitions({1, 2, 3}, {1, 2, NoLimit}) : d.order = 1}]

\* One of three offerings, with points of both signs and, in robust mode, with
\* bounds.  The other two are alike: one order of them is enough.
Around(v, width) == Interval(v - width, v, v + width)

Point(v, w, width) ==
    [eligible |-> TRUE, axes |-> (1 :> Around(v, width)) @@ (2 :> Around(w, width)),
     gate |-> Exact(0)]

Points(values, width) == {Point(v, w, width) : v \in values, w \in values}

Triples(points) ==
    {o \in [{t, c1, c2} -> points] :
        o[c1].axes[1].value * (2 * Reach + 1) + o[c1].axes[2].value
            <= o[c2].axes[1].value * (2 * Reach + 1) + o[c2].axes[2].value}

Wide == [minimum |-> -99, maximum |-> 99]

ProximityPolicy(goal, absolute, relative, mode) ==
    [goal |-> (1 :> "minimize") @@ (2 :> goal),
     absolute |-> (1 :> 0) @@ (2 :> absolute),
     relative |-> [axis \in Axes |-> relative], mode |-> mode,
     axisRange |-> [axis \in Axes |-> Wide], gateRange |-> Wide]

Targeted(points, policies) ==
    [evaluated : Triples(points), policy : policies, target : {t}]

\* Points of both signs are as good for one goal as for the other.
MCProximityInputs ==
    Targeted(Points(-Reach .. Reach, 0),
             {ProximityPolicy("maximize", e, 0, "point") : e \in {0, 1}})
    \cup Targeted(Points({-1, 2}, 0),
                  {ProximityPolicy("maximize", e, 1, "point") : e \in {0, 1}})
    \cup Targeted(Points({-1, 1, 3}, 1),
                  {ProximityPolicy(g, e, 0, "robust") : e \in {0, 1}, g \in Goals})

EvaluationInit ==
    /\ result = NoResult
    /\ kind = FrontierInput
    /\ input \in [catalog : Catalogs, policy : FrontierPolicies]

\* What is not of the behaviour's kind stays as it is.
EvaluationIdle == input = NoResult /\ result = NoResult
SelectionIdle ==
    /\ members = << >> /\ definition = NoResult /\ left = {} /\ chosen = << >>
    /\ outcome = "none"
ProximityIdle ==
    /\ evaluated = << >> /\ policy = NoResult /\ target = NoResult /\ rest = {}
    /\ cursor = 0 /\ blockers = {} /\ status = "idle"
SearchIdle ==
    /\ threshold = 0 /\ start = 0 /\ pc = "idle" /\ low = 0 /\ high = 0 /\ step = 1
    /\ found = NoResult

Init ==
    \/ EvaluationInit /\ SelectionIdle /\ ProximityIdle /\ SearchIdle
    \/ kind = SelectionInput /\ EvaluationIdle /\ SelectionInit /\ ProximityIdle /\ SearchIdle
    \/ kind = ProximityInput /\ EvaluationIdle /\ SelectionIdle /\ ProximityInit /\ SearchIdle
    \/ kind = SearchInput /\ EvaluationIdle /\ SelectionIdle /\ ProximityIdle /\ SearchInit

CalculateFrontier ==
    /\ kind = FrontierInput /\ result = NoResult
    /\ result' = Members(input.catalog, input.policy)
    /\ UNCHANGED <<kind, input, selectionVars, proximityVars, searchVars>>

SelectModels ==
    /\ kind = SelectionInput
    /\ SelectionNext
    /\ UNCHANGED <<kind, evaluationVars, proximityVars, searchVars>>

CalculateProximity ==
    /\ kind = ProximityInput
    /\ ProximityNext
    /\ UNCHANGED <<kind, evaluationVars, selectionVars, searchVars>>

Search ==
    /\ kind = SearchInput
    /\ SearchNext
    /\ UNCHANGED <<kind, evaluationVars, selectionVars, proximityVars>>

Next == CalculateFrontier \/ SelectModels \/ CalculateProximity \/ Search

vars == <<kind, evaluationVars, selectionVars, proximityVars, searchVars>>

Spec == Init /\ [][Next]_vars /\ WF_vars(Search)

----------------------------------------------------------------------------
\* No relative tolerance exceeds 1.
Moderate(p) == \A a \in Axes : p.relative[a] <= Scale

FrontierDone == kind = FrontierInput /\ result # NoResult
SelectionDone == kind = SelectionInput /\ outcome # "none"

(***************************************************************************)
(* Tolerances make dominance intransitive, but it never goes in a circle:  *)
(* if anything is accepted there is a frontier to select from.  (A relative*)
(* tolerance above 1 is accepted by the code and excluded here: with values*)
(* of both signs it lets four offerings dominate each other in a circle.)  *)
(***************************************************************************)
FrontierIsNeverEmpty ==
    FrontierDone /\ Moderate(input.policy) =>
        (Accepted(input.catalog, input.policy) # {} => result # {})

(***************************************************************************)
(* Without tolerances every accepted offering that is not a member is      *)
(* dominated by a member, and no member by an accepted offering.           *)
(***************************************************************************)
ExactFrontierCovers ==
    FrontierDone /\ Exactly(input.policy) =>
        \A id \in Accepted(input.catalog, input.policy) :
            id \notin result <=>
                \E m \in result :
                    Dominates(input.catalog[m], input.catalog[id], input.policy)

(***************************************************************************)
(* Asking for robust comparisons never admits an offering that a point     *)
(* comparison refuses, and never drops from the frontier one of those it   *)
(* still admits: evidence is only ever weighed more cautiously.  (A        *)
(* relative tolerance above 1 is excluded here as well: it grows faster    *)
(* than what it is the tolerance of.)                                      *)
(***************************************************************************)
RobustIsConservative ==
    FrontierDone /\ Moderate(input.policy) /\ input.policy.mode = "robust" =>
        LET point == [input.policy EXCEPT !.mode = "point"]
            robust == Accepted(input.catalog, input.policy)
        IN  /\ robust \subseteq Accepted(input.catalog, point)
            /\ \A id \in robust :
                  id \in Members(input.catalog, point) => id \in result

(***************************************************************************)
(* The greedy scan finds the best choices there are: as many as the count  *)
(* and the providers allow, and each at least as good as the one in its    *)
(* place in any other permitted selection; it raises exactly when no       *)
(* permitted selection is large enough for the definition.                 *)
(***************************************************************************)
SelectionIsBest ==
    SelectionDone =>
        /\ outcome = "selected" =>
              /\ \A i, j \in DOMAIN chosen : i < j => Precedes(chosen[i], chosen[j])
              /\ IsPermitted(Chosen)
              /\ \A S \in SUBSET DOMAIN members : IsPermitted(S) => NoWorseThan(S)
        /\ outcome = "error" <=>
              \A S \in SUBSET DOMAIN members : IsPermitted(S) => Cardinality(S) < Needed

(***************************************************************************)
(* minimal_relative_epsilon is the smallest tolerance of the grid at which *)
(* nothing dominates the target, although dominance comes and goes; it is  *)
(* zero for members of a frontier without tolerances, and for no others;   *)
(* and the errors that proximity.py treats as impossible are.              *)
(***************************************************************************)
ProximityIsExact ==
    kind = ProximityInput =>
        /\ DistanceIsFirstUndominated
        /\ NeverRaises
        /\ MembersAreAtZero

(***************************************************************************)
(* The search ends: one call of it waits for nothing.                      *)
(***************************************************************************)
SearchEnds == kind = SearchInput => Terminates
=============================================================================
