------------------------------ MODULE Frontier ------------------------------
(***************************************************************************)
(* The two-objective frontier of src/src/model_skyline/engine.py: which    *)
(* offerings of a catalog are accepted (FrontierEngine.calculate), which   *)
(* of them dominate which (dominates, dominance_axis_relation), and which  *)
(* none dominates.  Decimals are integers here: the comparisons are exact, *)
(* the rounding of the 34-digit context is not modelled.                   *)
(***************************************************************************)
EXTENDS Integers

CONSTANTS
    Axes,     \* the two metrics of the frontier
    Scale,    \* a relative tolerance of e is e / Scale
    Missing   \* an estimate that the evaluation could not produce

ASSUME ScaleIsPositive == Scale \in Nat \ {0}

(***************************************************************************)
(* An AxisEstimate: a point and its confidence bounds, if it is bounded.   *)
(***************************************************************************)
Estimates ==
    {e \in [lower : Int, value : Int, upper : Int, bounded : BOOLEAN] :
        e.bounded => e.lower <= e.value /\ e.value <= e.upper}

ASSUME MissingIsNoEstimate == Missing \notin Estimates

Goals == {"minimize", "maximize"}
Modes == {"point", "robust"}

\* The eligible minimum and maximum of a metric; one that the definition leaves
\* out is a limit that no value reaches.
Ranges == [minimum : Int, maximum : Int]

\* A FrontierDefinition: goal, tolerances and eligible values of the axes, the
\* uncertainty mode, and the eligible values of a gate on a third metric.
Policies ==
    [goal : [Axes -> Goals], absolute : [Axes -> Nat], relative : [Axes -> Nat],
     mode : Modes, axisRange : [Axes -> Ranges], gateRange : Ranges]

\* An OfferingObservation, reduced to what the policy's metrics evaluate to.
\* eligible: no provider, region or capability rule excludes it.
Offerings ==
    [eligible : BOOLEAN, axes : [Axes -> Estimates \cup {Missing}],
     gate : Estimates \cup {Missing}]

----------------------------------------------------------------------------
(***************************************************************************)
(* Maximizing a value is minimizing its opposite: everything is compared   *)
(* as a cost.  In robust mode a candidate counts with its worst bound and  *)
(* the other with its best.                                                *)
(***************************************************************************)
Cost(e, goal) == IF goal = "minimize" THEN e.value ELSE -e.value
WorstCost(e, goal) == IF goal = "minimize" THEN e.upper ELSE -e.lower
BestCost(e, goal) == IF goal = "minimize" THEN e.lower ELSE -e.upper

\* Mutant: the candidate is taken at its best in robust mode.
OptimisticCost(o, axis, p) ==
    IF p.mode = "robust"
    THEN BestCost(o.axes[axis], p.goal[axis])
    ELSE Cost(o.axes[axis], p.goal[axis])

CandidateCost(o, axis, p) ==
    IF p.mode = "robust"
    THEN WorstCost(o.axes[axis], p.goal[axis])
    ELSE Cost(o.axes[axis], p.goal[axis])

OtherCost(o, axis, p) ==
    IF p.mode = "robust"
    THEN BestCost(o.axes[axis], p.goal[axis])
    ELSE Cost(o.axes[axis], p.goal[axis])

Abs(x) == IF x < 0 THEN -x ELSE x
Larger(x, y) == IF x < y THEN y ELSE x

\* All of it multiplied by Scale.
Tolerance(axis, p, x, y) ==
    Scale * p.absolute[axis] + p.relative[axis] * Larger(Abs(x), Abs(y))

\* dominance_axis_relation, first component.
NoWorse(c, o, axis, p) ==
    LET left == CandidateCost(c, axis, p)
        right == OtherCost(o, axis, p)
    IN  Scale * left <= Scale * right + Tolerance(axis, p, left, right)

\* Mutant: an advantage needs not exceed the tolerance.
AnyAdvantage(c, o, axis, p) == CandidateCost(c, axis, p) < OtherCost(o, axis, p)

\* dominance_axis_relation, second component.
Better(c, o, axis, p) ==
    LET left == CandidateCost(c, axis, p)
        right == OtherCost(o, axis, p)
    IN  Scale * left < Scale * right - Tolerance(axis, p, left, right)

\* Mutant: an advantage on one axis makes up for the other.
DominatesOnOne(c, o, p) == \E axis \in Axes : Better(c, o, axis, p)

Dominates(c, o, p) ==
    /\ \A axis \in Axes : NoWorse(c, o, axis, p)
    /\ \E axis \in Axes : Better(c, o, axis, p)

----------------------------------------------------------------------------
Usable(e, p) == e # Missing /\ (p.mode = "robust" => e.bounded)

\* An axis is held to its range by its point, in robust mode too.
AxisInRange(e, range) == e.value \in range.minimum .. range.maximum

\* A gate is held to its range by its point, in robust mode by both bounds.
GateInRange(e, range, mode) ==
    IF mode = "robust"
    THEN e.lower >= range.minimum /\ e.upper <= range.maximum
    ELSE e.value \in range.minimum .. range.maximum

Accepts(o, p) ==
    /\ o.eligible
    /\ \A axis \in Axes :
          Usable(o.axes[axis], p) /\ AxisInRange(o.axes[axis], p.axisRange[axis])
    /\ Usable(o.gate, p) /\ GateInRange(o.gate, p.gateRange, p.mode)

\* A catalog is a function on offering ids.
Accepted(catalog, p) == {id \in DOMAIN catalog : Accepts(catalog[id], p)}

\* dominated_by of an accepted offering.
DominatedBy(catalog, p, id) ==
    {c \in Accepted(catalog, p) \ {id} : Dominates(catalog[c], catalog[id], p)}

Members(catalog, p) ==
    {id \in Accepted(catalog, p) : DominatedBy(catalog, p, id) = {}}
=============================================================================
