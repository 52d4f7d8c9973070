-------------------------- MODULE LocalObservation --------------------------
(***************************************************************************)
(* What a series of samples becomes: _observation of                       *)
(* src/src/model_skyline/local_measurements.py.  Decimal arithmetic has a  *)
(* fixed precision, and samples may have more digits than that.            *)
(*                                                                         *)
(* Numbers are counted in tenths, so that the half of a sample is whole.   *)
(***************************************************************************)
EXTENDS Integers, SequencesExt

CONSTANTS
    Precision,      \* significant digits of POLICY_DECIMAL_CONTEXT
    Samples,        \* bound: the samples
    MaxSamples      \* bound: samples in a series

VARIABLE series

----------------------------------------------------------------------------
Digits(n) == CHOOSE d \in 0 .. 9 : n < 10 ^ d /\ (d = 0 \/ n >= 10 ^ (d - 1))

\* n to a multiple of unit, half to even.
ToUnit(n, unit) ==
    LET low == n \div unit
        rest == 2 * (n % unit)
    IN  unit * (IF rest < unit \/ (rest = unit /\ low % 2 = 0) THEN low ELSE low + 1)

\* The result of an operation in the decimal context.
Rounded(n) ==
    LET size == IF n < 0 THEN -n ELSE n
        kept == IF Digits(size) <= Precision THEN size
                ELSE ToUnit(size, 10 ^ (Digits(size) - Precision))
    IN  IF n < 0 THEN -kept ELSE kept

\* Mutant: the sum is taken as it is rounded.
MiddleRounded(low, high) == Rounded(low + Rounded(Rounded(high - low) \div 2))

\* The middle of two samples, kept between them.
Middle(low, high) ==
    LET value == Rounded(low + Rounded(Rounded(high - low) \div 2))
        least == IF value < low THEN low ELSE value
    IN  IF least > high THEN high ELSE least

\* _observation: the median, the ends and the number of samples.
Observation(s) ==
    LET ordered == SortSeq(s, <)
        n == Len(s)
        m == n \div 2
    IN  [value |-> IF n % 2 = 1 THEN 10 * ordered[m + 1]
                   ELSE Middle(10 * ordered[m], 10 * ordered[m + 1]),
         lower |-> 10 * ordered[1], upper |-> 10 * ordered[n], count |-> n]

----------------------------------------------------------------------------
Init == series \in {<<x>> : x \in Samples}

Measure(x) == Len(series) < MaxSamples /\ series' = Append(series, x)

Next == \E x \in Samples : Measure(x)

Spec == Init /\ [][Next]_series

----------------------------------------------------------------------------
(***************************************************************************)
(* The value is between the ends, as every observation must be, although   *)
(* the ends are not rounded and the value is.                              *)
(***************************************************************************)
ValueIsWithin ==
    LET o == Observation(series) IN o.lower <= o.value /\ o.value <= o.upper

(***************************************************************************)
(* One more sample moves the value towards it or leaves it.                *)
(***************************************************************************)
MovesTowardsSample ==
    [][LET old == Observation(series).value
           new == Observation(series').value
           sample == 10 * series'[Len(series')]
       IN  /\ sample >= old => new >= old
           /\ sample <= old => new <= old]_series
=============================================================================
