----------------------------- MODULE Proximity -----------------------------
(***************************************************************************)
(* src/src/model_skyline/proximity.py: how large a relative tolerance must *)
(* be for an offering to be on the frontier.  Each other offering          *)
(* dominates the target over one interval of tolerances; the intervals     *)
(* that connect to zero are followed to their end.                         *)
(*                                                                         *)
(* A tolerance is an index of the epsilon grid: i stands for i / Scale,    *)
(* and the grid ends at 2.  GridSearch is how an index is found.           *)
(***************************************************************************)
EXTENDS Frontier, FiniteSets, FiniteSetsExt

CONSTANT
    ProximityInputs  \* of calculate_frontier_proximity: estimates, policy and target

ASSUME ProximityInputsAreEvaluated ==
    \A i \in ProximityInputs :
        /\ i.policy \in Policies
        /\ i.target \in DOMAIN i.evaluated
        /\ \A id \in DOMAIN i.evaluated :
              i.evaluated[id] \in Offerings /\ Accepts(i.evaluated[id], i.policy)

Grid == 0 .. 2 * Scale

VARIABLES
    evaluated,  \* the estimates of the evaluated offerings, by id
    policy,     \* the definition of the frontier
    target,     \* the offering whose proximity is calculated
    rest,       \* the offerings whose intervals are not followed yet
    cursor,     \* up to where the target is known to be dominated
    blockers,   \* the offerings whose intervals connect to zero
    status      \* "following", "done" or "error"

proximityVars == <<evaluated, policy, target, rest, cursor, blockers, status>>

\* dominance_axis_relation with epsilon_relative, and dominates.
At(i) == [policy EXCEPT !.relative = [axis \in Axes |-> i]]

Dominated(i) ==
    \E c \in DOMAIN evaluated \ {target} :
        Dominates(evaluated[c], evaluated[target], At(i))

\* _first_grid_transition; None is beyond the grid.
FirstOf(S) == IF S = {} THEN 2 * Scale + 1 ELSE Min(S)

\* Mutant: being better is not given up at the boundary itself.
LateAxisExit(c, axis) ==
    FirstOf({i \in Grid : ~Better(evaluated[c], evaluated[target], axis, At(i))}) + 1

\* From here on the candidate is no worse on an axis, and no longer better.
AxisEntry(c, axis) ==
    FirstOf({i \in Grid : NoWorse(evaluated[c], evaluated[target], axis, At(i))})
AxisExit(c, axis) ==
    FirstOf({i \in Grid : ~Better(evaluated[c], evaluated[target], axis, At(i))})

\* Mutant: being no worse on one axis is enough.
EarliestEntry(c) == Min({AxisEntry(c, axis) : axis \in Axes})

\* _dominance_interval.
Enters(c) == Max({AxisEntry(c, axis) : axis \in Axes})
Exits(c) == Max({AxisExit(c, axis) : axis \in Axes})

\* Dominance that lasts to the end of the grid: "proximity dominance persists".
Raises == \E c \in rest : Enters(c) \in Grid /\ Exits(c) \notin Grid

Intervals == {c \in rest : Enters(c) \in Grid /\ Enters(c) < Exits(c)}

\* The order in which _candidate_proximity sorts them, up to the key.
Before(c, d) ==
    Enters(c) < Enters(d) \/ (Enters(c) = Enters(d) /\ Exits(c) <= Exits(d))

AxisSlack(axis) == Max({0} \cup {AxisExit(c, axis) : c \in blockers})

ProximityInit ==
    /\ \E i \in ProximityInputs :
          evaluated = i.evaluated /\ policy = i.policy /\ target = i.target
    /\ rest = DOMAIN evaluated \ {target}
    /\ cursor = 0 /\ blockers = {} /\ status = "following"

\* Mutant: the cursor moves to the end of the latest interval.
FollowLatest(c) ==
    /\ status = "following" /\ ~Raises /\ c \in Intervals
    /\ \A d \in Intervals : Before(c, d)
    /\ Enters(c) <= cursor
    /\ cursor' = Exits(c)
    /\ blockers' = blockers \cup {c} /\ rest' = rest \ {c}
    /\ UNCHANGED <<evaluated, policy, target, status>>

Follow(c) ==
    /\ status = "following" /\ ~Raises /\ c \in Intervals
    /\ \A d \in Intervals : Before(c, d)
    /\ Enters(c) <= cursor
    /\ cursor' = Larger(cursor, Exits(c))
    /\ blockers' = blockers \cup {c} /\ rest' = rest \ {c}
    /\ UNCHANGED <<evaluated, policy, target, status>>

\* The next interval leaves a gap, or there is none: the proximity is found.
Stop ==
    /\ status = "following"
    /\ Raises \/ \A c \in Intervals : Enters(c) > cursor
    /\ status' = IF ~Raises /\ Max({AxisSlack(axis) : axis \in Axes}) = cursor
                 THEN "done" ELSE "error"
    /\ UNCHANGED <<evaluated, policy, target, rest, cursor, blockers>>

ProximityNext == (\E c \in rest : Follow(c)) \/ Stop

----------------------------------------------------------------------------
(***************************************************************************)
(* minimal_relative_epsilon is the smallest tolerance of the grid at which *)
(* nothing dominates the target, although dominance comes and goes as the  *)
(* tolerance grows.                                                        *)
(***************************************************************************)
DistanceIsFirstUndominated ==
    status = "done" =>
        /\ cursor \in Grid /\ ~Dominated(cursor)
        /\ \A i \in 0 .. cursor - 1 : Dominated(i)

(***************************************************************************)
(* The two errors that the code treats as impossible are: dominance never  *)
(* lasts to the end of the grid, and the distance is the slack of an axis. *)
(***************************************************************************)
NeverRaises == status # "error"

(***************************************************************************)
(* Without a tolerance of its own a frontier has exactly the offerings at  *)
(* distance zero.                                                          *)
(***************************************************************************)
MembersAreAtZero ==
    status = "done" /\ (\A axis \in Axes : policy.relative[axis] = 0) =>
        (cursor = 0) = (target \in Members(evaluated, policy))
=============================================================================
