----------------------------- MODULE GridSearch -----------------------------
(***************************************************************************)
(* _first_grid_transition of src/src/model_skyline/proximity.py: the first *)
(* index of the epsilon grid at which a comparison has flipped.  The       *)
(* search starts at a guess from exact algebra, gallops away from it and   *)
(* bisects.  The comparison rounds, so the guess may be off: here it is    *)
(* any index.                                                              *)
(***************************************************************************)
EXTENDS Integers

CONSTANTS
    MaxIndex,   \* MAX_EPSILON_GRID_INDEX
    NoResult    \* None

ASSUME MaxIsPositive == MaxIndex \in Nat \ {0}
ASSUME NoResultIsNoIndex == NoResult \notin Nat

VARIABLES
    threshold,  \* the first index at which the comparison has flipped, if up to MaxIndex
    start,      \* the index of the guess
    pc,
    low, high, step,
    found

searchVars == <<threshold, start, pc, low, high, step, found>>

Reached(i) == threshold <= i

AtLeast0(i) == IF i < 0 THEN 0 ELSE i
AtMostMax(i) == IF i > MaxIndex THEN MaxIndex ELSE i

SearchInit ==
    /\ threshold \in 0 .. MaxIndex + 1
    /\ start \in 0 .. MaxIndex
    /\ pc = "begin" /\ low = 0 /\ high = 0 /\ step = 1 /\ found = NoResult

Return(value) == pc' = "done" /\ found' = value /\ UNCHANGED <<low, high, step>>

\* Mutant: zero is not tried first.
BeginAtGuess ==
    /\ pc = "begin"
    /\ IF Reached(start)
       THEN pc' = "down" /\ high' = start /\ low' = AtLeast0(start - 1)
       ELSE pc' = "up" /\ low' = start /\ high' = AtMostMax(start + 1)
    /\ UNCHANGED <<step, found, threshold, start>>

Begin ==
    /\ pc = "begin"
    /\ IF Reached(0) THEN Return(0)
       ELSE /\ IF Reached(start)
               THEN pc' = "down" /\ high' = start /\ low' = AtLeast0(start - 1)
               ELSE pc' = "up" /\ low' = start /\ high' = AtMostMax(start + 1)
            /\ UNCHANGED <<step, found>>
    /\ UNCHANGED <<threshold, start>>

\* Down from the guess as long as the comparison has flipped.
GallopDown ==
    /\ pc = "down"
    /\ IF low > 0 /\ Reached(low)
       THEN /\ high' = low /\ step' = 2 * step /\ low' = AtLeast0(low - 2 * step)
            /\ UNCHANGED pc
       ELSE pc' = "bisect" /\ UNCHANGED <<low, high, step>>
    /\ UNCHANGED <<found, threshold, start>>

\* Up from the guess until it has; None if it never does.
GallopUp ==
    /\ pc = "up"
    /\ IF high < MaxIndex /\ ~Reached(high)
       THEN /\ low' = high /\ step' = 2 * step /\ high' = AtMostMax(high + 2 * step)
            /\ UNCHANGED <<pc, found>>
       ELSE IF Reached(high)
       THEN pc' = "bisect" /\ UNCHANGED <<low, high, step, found>>
       ELSE Return(NoResult)
    /\ UNCHANGED <<threshold, start>>

\* Mutant: a bracket of one index is halved again.
BisectTooFar ==
    /\ pc = "bisect"
    /\ IF high - low > 0
       THEN /\ IF Reached((low + high) \div 2)
               THEN high' = (low + high) \div 2 /\ UNCHANGED low
               ELSE low' = (low + high) \div 2 /\ UNCHANGED high
            /\ UNCHANGED <<pc, step, found>>
       ELSE Return(high)
    /\ UNCHANGED <<threshold, start>>

Bisect ==
    /\ pc = "bisect"
    /\ IF high - low > 1
       THEN /\ IF Reached((low + high) \div 2)
               THEN high' = (low + high) \div 2 /\ UNCHANGED low
               ELSE low' = (low + high) \div 2 /\ UNCHANGED high
            /\ UNCHANGED <<pc, step, found>>
       ELSE Return(high)
    /\ UNCHANGED <<threshold, start>>

SearchNext == Begin \/ GallopDown \/ GallopUp \/ Bisect

\* The search runs in one call without waiting for anything.
SearchSpec == SearchInit /\ [][SearchNext]_searchVars /\ WF_searchVars(SearchNext)

----------------------------------------------------------------------------
SearchTypeOK ==
    /\ threshold \in 0 .. MaxIndex + 1 /\ start \in 0 .. MaxIndex
    /\ pc \in {"begin", "down", "up", "bisect", "done"}
    /\ low \in 0 .. MaxIndex /\ high \in 0 .. MaxIndex /\ step \in Nat \ {0}
    /\ found \in (0 .. MaxIndex) \cup {NoResult}

\* Whatever the direction, the bracket holds the transition.
Bracket ==
    /\ pc # "begin" /\ pc # "done" => threshold > 0
    /\ pc = "down" => Reached(high) /\ low < high
    /\ pc = "up" => ~Reached(low) /\ low <= high /\ (low = high => low = MaxIndex)
    /\ pc = "bisect" => ~Reached(low) /\ Reached(high) /\ low < high

(***************************************************************************)
(* The result is the first index at which the comparison has flipped, and  *)
(* None exactly if there is none: the guess makes no difference.           *)
(***************************************************************************)
ResultIsTransition ==
    pc = "done" => found = IF threshold <= MaxIndex THEN threshold ELSE NoResult

(***************************************************************************)
(* The search ends.                                                        *)
(***************************************************************************)
Terminates == <>(pc = "done")

=============================================================================
