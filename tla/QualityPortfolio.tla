-------------------------- MODULE QualityPortfolio --------------------------
(***************************************************************************)
(* Portfolios of benchmark evidence, built and verified while time passes  *)
(* and frontiers are evaluated again: build_portfolio and verify_portfolio *)
(* of src/src/model_skyline/quality_portfolio.py.                          *)
(*                                                                         *)
(* A hash stands for what it is taken of: a snapshot carries its inputs.   *)
(* Output signals are named by their component, and what a policy must     *)
(* satisfy by itself is an assumption.                                     *)
(***************************************************************************)
EXTENDS Integers, FiniteSets, FiniteSetsExt

CONSTANTS
    Components,     \* of the policy
    Candidates,     \* offering keys
    MaxAge,         \* how old evidence of each component may be
    Required,       \* components every eligible candidate has
    Minimum,        \* how many components it has
    Skew,           \* max_clock_skew
    None,           \* no estimate, no time, no portfolio
    Times,          \* bound: readings of the clocks
    Estimates,      \* bound: the estimates of frontiers
    FirstFrontiers, \* bound: the frontiers at the start
    MaxEvaluations  \* bound: how often frontiers are evaluated again

VARIABLES
    now,
    frontiers,      \* by component: when it was evaluated, estimates by candidate
    base,           \* the base catalog: signals by candidate
    portfolio       \* the latest build, or None

vars == <<now, frontiers, base, portfolio>>

----------------------------------------------------------------------------
\* What is wrong with the sources of an estimate, if anything.
SourceFails(estimate, t) ==
    \/ ~estimate.complete
    \/ estimate.retrieved = None
    \/ estimate.retrieved > t + Skew

Deadline(c, estimate) == estimate.observed + MaxAge[c]

\* Mutant: evidence counts on the last moment of its age.
EvaluateLate(c, estimate, t) ==
    IF estimate = None THEN "missing"
    ELSE IF SourceFails(estimate, t) THEN "source"
    ELSE IF estimate.observed = None THEN "observed_at_missing"
    ELSE IF estimate.observed > t + Skew THEN "observed_at_future"
    ELSE IF t > Deadline(c, estimate) THEN "evidence_stale"
    ELSE "measured"

\* _evaluate.
Evaluate(c, estimate, t) ==
    IF estimate = None THEN "missing"
    ELSE IF SourceFails(estimate, t) THEN "source"
    ELSE IF estimate.observed = None THEN "observed_at_missing"
    ELSE IF estimate.observed > t + Skew THEN "observed_at_future"
    ELSE IF t >= Deadline(c, estimate) THEN "evidence_stale"
    ELSE "measured"

Results(inputs, t) ==
    [o \in DOMAIN inputs.base |->
        [c \in Components |-> Evaluate(c, inputs.frontiers[c].rows[o], t)]]

Measured(results, o) == {c \in Components : results[o][c] = "measured"}

Eligible(results) ==
    {o \in DOMAIN results :
        Required \subseteq Measured(results, o) /\ Cardinality(Measured(results, o)) >= Minimum}

\* Mutant: the deadlines of the required components only.
ValidUntilRequired(inputs, results) ==
    Min({Deadline(p[2], inputs.frontiers[p[2]].rows[p[1]]) : p \in Eligible(results) \X Required})

ValidUntil(inputs, results) ==
    Min({Deadline(p[2], inputs.frontiers[p[2]].rows[p[1]]) :
            p \in {q \in Eligible(results) \X Components : q[2] \in Measured(results, q[1])}})

\* _catalog: the signals added to each candidate.
CatalogSignals(inputs, results) ==
    [o \in DOMAIN inputs.base |->
        [c \in IF o \in Eligible(results) THEN Measured(results, o) ELSE {} |->
            inputs.frontiers[c].rows[o].value]]

\* What the builder refuses.
Refuses(inputs, t) ==
    \/ DOMAIN inputs.base = {}
    \/ \E c \in Components : inputs.frontiers[c].at > t
    \/ \E o \in DOMAIN inputs.base : inputs.base[o] \cap Components # {}
    \/ Eligible(Results(inputs, t)) = {}

\* build_portfolio.
Portfolio(inputs, t) ==
    LET results == Results(inputs, t)
    IN  [inputs |-> inputs, generated |-> t, valid |-> ValidUntil(inputs, results),
         failures |-> results, catalog |-> CatalogSignals(inputs, results)]

Inputs == [frontiers |-> frontiers, base |-> base]

\* Mutant: the derivation is not rebuilt.
VerifiesClock(p, inputs, clock) == p.generated <= clock + Skew /\ clock < p.valid

\* verify_portfolio: within its time, and what its inputs give.
Verifies(p, inputs, clock) ==
    /\ p.generated <= clock + Skew
    /\ clock < p.valid
    /\ ~Refuses(inputs, p.generated) /\ p = Portfolio(inputs, p.generated)

----------------------------------------------------------------------------
Init ==
    /\ now = 0
    /\ frontiers \in FirstFrontiers
    /\ base = [o \in Candidates |-> {}]
    /\ portfolio = None

Tick ==
    /\ now + 1 \in Times /\ now' = now + 1
    /\ UNCHANGED <<frontiers, base, portfolio>>

\* A frontier is evaluated again, with new evidence for one candidate or none.
EvaluateFrontier(c, o, e) ==
    /\ Cardinality({d \in Components : frontiers[d].at > 0}) < MaxEvaluations
    /\ now > frontiers[c].at
    /\ frontiers' = [frontiers EXCEPT ![c].at = now, ![c].rows[o] = e]
    /\ UNCHANGED <<now, base, portfolio>>

\* The base catalog is replaced; it may have been a portfolio itself.
ReplaceBase(b) ==
    /\ base' = b /\ UNCHANGED <<now, frontiers, portfolio>>

Build(clock) ==
    /\ ~Refuses(Inputs, clock)
    /\ portfolio' = Portfolio(Inputs, clock)
    /\ UNCHANGED <<now, frontiers, base>>

\* Clocks of builders and verifiers are off by the skew at most.
Clocks == {t \in Times : t >= now - Skew /\ t <= now + Skew}

\* The base is as at the start, empty, or the base is itself a portfolio.
Bases == {[o \in C |-> {}] : C \in {{}, Candidates}} \cup {[o \in Candidates |-> Required]}

Next ==
    \/ Tick
    \/ \E c \in Components, o \in Candidates, e \in Estimates : EvaluateFrontier(c, o, e)
    \/ \E b \in Bases : ReplaceBase(b)
    \/ \E clock \in Clocks : Build(clock)

Spec == Init /\ [][Next]_vars

----------------------------------------------------------------------------
\* The signals a portfolio gives a candidate, by a clock and the current frontiers.
IsFresh(o, clock) ==
    LET signals == portfolio.catalog[o]
    IN  /\ \A c \in DOMAIN signals :
              LET e == frontiers[c].rows[o]
              IN  /\ e # None /\ e.complete
                  /\ signals[c] = e.value
                  /\ clock - e.observed < MaxAge[c]
        /\ DOMAIN signals # {} => Required \subseteq DOMAIN signals
        /\ o \in DOMAIN base

(***************************************************************************)
(* What verifies is fresh: whoever verifies a portfolio, by any clock that *)
(* is off by no more than the skew, every value in its catalog is that of  *)
(* the current frontier, younger than its component allows by that clock,  *)
(* and every candidate with a value has all required ones.                 *)
(***************************************************************************)
VerifiedIsFresh ==
    portfolio # None =>
        \A clock \in Clocks : Verifies(portfolio, Inputs, clock) =>
            \A o \in DOMAIN portfolio.catalog : IsFresh(o, clock)

\* Every signal of a catalog is in another one, with its value.
IsKept(signals, again) ==
    \A o \in DOMAIN signals : \A c \in DOMAIN signals[o] :
        c \in DOMAIN again[o] /\ again[o][c] = signals[o][c]

(***************************************************************************)
(* A portfolio is valid for as long as it is true, and no longer: until it *)
(* expires building it again would keep every value of its catalog, and    *)
(* from then on one of them would be gone.                                 *)
(***************************************************************************)
ValidWhileTrue ==
    portfolio # None =>
        \A t \in {u \in Times : u >= portfolio.generated} :
            t < portfolio.valid <=>
                IsKept(portfolio.catalog,
                       CatalogSignals(portfolio.inputs, Results(portfolio.inputs, t)))

(***************************************************************************)
(* A portfolio is never born expired, and while its inputs stay it         *)
(* verifies at every moment until it expires.                              *)
(***************************************************************************)
VerifiesUntilExpiry ==
    portfolio # None /\ portfolio.inputs = Inputs =>
        /\ portfolio.generated < portfolio.valid
        /\ \A clock \in Clocks :
              portfolio.generated - Skew <= clock /\ clock < portfolio.valid
                  => Verifies(portfolio, Inputs, clock)
----------------------------------------------------------------------------
\* What the proofs take of the constants, and what makes the properties inductive.
EstimateRecords ==
    {None} \cup [value : Nat, observed : Nat \cup {None}, retrieved : Nat \cup {None},
                complete : BOOLEAN]
Snapshots == [Components -> [at : Nat, rows : [Candidates -> EstimateRecords]]]

PolicyIsPossible ==
    /\ IsFiniteSet(Components) /\ IsFiniteSet(Candidates)
    /\ MaxAge \in [Components -> Nat]
    /\ Required \subseteq Components
    /\ Minimum \in Nat /\ Minimum >= 1
    /\ Skew \in Nat /\ \A t \in Times : t \in Nat
    /\ FirstFrontiers \subseteq Snapshots /\ Estimates \subseteq EstimateRecords
    /\ None \notin Nat

IsPossible(inputs) ==
    inputs.frontiers \in Snapshots /\ DOMAIN inputs.base \subseteq Candidates

PortfolioInv ==
    /\ now \in Nat /\ IsPossible(Inputs)
    /\ portfolio # None =>
          /\ portfolio.generated \in Nat
          /\ IsPossible(portfolio.inputs)
          /\ ~Refuses(portfolio.inputs, portfolio.generated)
          /\ portfolio = Portfolio(portfolio.inputs, portfolio.generated)
=============================================================================
