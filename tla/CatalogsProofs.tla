--------------------------- MODULE CatalogsProofs ---------------------------
(***************************************************************************)
(* Proofs about the parts of MCCatalogs, for any values of their constants *)
(* that meet its assumptions.  Each part has an inductive invariant, which *)
(* its module defines; a behaviour is one of one part, so that together    *)
(* they are an inductive invariant of Spec, from which the theorems at the *)
(* end follow.                                                             *)
(***************************************************************************)
EXTENDS MCCatalogs, FiniteSetTheorems, FunctionTheorems, SequenceTheorems,
        WellFoundedInduction, TLAPS

(***************************************************************************)
(* A behaviour is one of one part, whose own steps are all that change it. *)
(***************************************************************************)
LEMMA PartsMoveAlone ==
    ASSUME [Next]_vars
    PROVE  /\ part' = part
           /\ part # "private" => UNCHANGED privateVars
           /\ part # "import" => UNCHANGED importVars
           /\ part = "composition" => [Composition!Next]_compositionVars
           /\ part = "enrichment" => [Enrichment!Next]_enrichmentVars
           /\ part = "import" => [Import!Next]_importVars
           /\ part = "portfolio" => [Portfolio!Next]_portfolioVars
           /\ part = "monitor" => [Monitor!Next]_monitorVars
           /\ part = "discovery" => [Discovery!Next]_discoveryVars
           /\ part = "private" => [Private!Next]_privateVars
           /\ part = "remote" => [Remote!Next]_remoteVars
           /\ part = "price" => [Price!Next]_priceVars
           /\ part = "command" => [Command!Next]_commandVars
BY DEF Next, vars, Others, Compose, Enrich, ImportEvidence, BuildPortfolio, MonitorFeed,
   Discover, WritePrivately, ReadRemotely, Decode, ProjectPrices, RunCommands

----------------------------------------------------------------------------
\* Private files.

LEMMA InitIsPrivateInv == Private!Init => Private!PrivateInv
BY InodesDiffer DEF Private!InodesAreDistinct, Private!Init, Private!PrivateInv,
   Private!PrivateTypeOK, Private!Phases, Private!PhasesAreEarned,
   Private!TargetIsComplete, Private!ReturnLeavesNoLitter, Private!ReturnedTextIsThere,
   Private!Inodes, Private!Foreign

\* The one step that a call takes moves no other call.
LEMMA CallsMoveAlone ==
    ASSUME Private!PrivateTypeOK, NEW w \in Writers, Private!Call(w), NEW v \in Writers, v # w
    PROVE  calls'[v] = calls[v] /\ result'[v] = result[v]
BY DEF Private!PrivateTypeOK, Private!Call, Private!LookAtParent, Private!MakeParent,
   Private!OpenParent, Private!LookAtTarget, Private!CreateTemporary, Private!WriteText,
   Private!Recheck, Private!Replace, Private!Link, Private!UnlinkTemporary,
   Private!CheckInstalled, Private!OSErrorRaised, Private!Kill, Private!Go,
   Private!Raise, Private!RaiseAndClean

(***************************************************************************)
(* What any step of a call does to the directory: it installs its own file *)
(* over what it may replace, or leaves the target alone; it never takes    *)
(* the directory away.                                                     *)
(***************************************************************************)
LEMMA CallsTouchOnlyTheirOwn ==
    ASSUME Private!PrivateInv, NEW w \in Writers, Private!Call(w)
    PROVE  /\ target' # target =>
                 /\ target' = w /\ w \in written
                 /\ parent \in Folders /\ target \notin Folders
                 /\ w \in Overwrite \/ target = Absent
                 /\ calls'[w] \in {"linked", "installed"}
           /\ parent \in Folders => parent' = parent
           /\ written \subseteq written' /\ written' \subseteq written \cup {w}
           /\ staged' \subseteq staged \cup {w}
           /\ disturbed' = disturbed
<1> USE DEF Private!PrivateInv, Private!PrivateTypeOK, Private!PhasesAreEarned
<1>1. CASE Private!Replace(w)
  BY <1>1 DEF Private!Replace, Private!RaiseAndClean, Private!Raise, Private!Go
<1>2. CASE Private!Link(w)
  BY <1>2, InodesDiffer DEF Private!Link, Private!RaiseAndClean, Private!Raise,
     Private!Go, Private!InodesAreDistinct, Private!Inodes, Private!Foreign
<1>3. CASE \/ Private!LookAtParent(w) \/ Private!MakeParent(w)
           \/ Private!OpenParent(w) \/ Private!LookAtTarget(w)
  BY <1>3, InodesDiffer DEF Private!LookAtParent, Private!MakeParent,
     Private!OpenParent, Private!LookAtTarget, Private!Raise, Private!RaiseAndClean,
     Private!Go, Private!InodesAreDistinct, Private!Inodes, Private!Foreign
<1>4. CASE \/ Private!CreateTemporary(w) \/ Private!WriteText(w)
           \/ Private!Recheck(w) \/ Private!UnlinkTemporary(w)
           \/ Private!CheckInstalled(w) \/ Private!OSErrorRaised(w) \/ Private!Kill(w)
  BY <1>4 DEF Private!CreateTemporary, Private!WriteText, Private!Recheck,
     Private!UnlinkTemporary, Private!CheckInstalled, Private!OSErrorRaised,
     Private!Kill, Private!Raise, Private!RaiseAndClean, Private!Go
<1> QED BY <1>1, <1>2, <1>3, <1>4 DEF Private!Call

\* A call earns each of its phases.
LEMMA CallKeepsPhases ==
    ASSUME Private!PrivateInv, NEW w \in Writers, Private!Call(w)
    PROVE  Private!PrivateTypeOK' /\ Private!PhasesAreEarned' /\ Private!ReturnLeavesNoLitter'
<1> USE DEF Private!PrivateInv, Private!PrivateTypeOK
<1>1. Private!PrivateTypeOK'
  <2>1. CASE \/ Private!LookAtParent(w) \/ Private!MakeParent(w)
             \/ Private!OpenParent(w) \/ Private!LookAtTarget(w)
             \/ Private!CreateTemporary(w) \/ Private!WriteText(w) \/ Private!Recheck(w)
    BY <2>1 DEF Private!LookAtParent, Private!MakeParent, Private!OpenParent,
       Private!LookAtTarget, Private!CreateTemporary, Private!WriteText,
       Private!Recheck, Private!Raise, Private!RaiseAndClean, Private!Go, Private!Phases
  <2>2. CASE \/ Private!Replace(w) \/ Private!Link(w)
             \/ Private!UnlinkTemporary(w) \/ Private!CheckInstalled(w)
             \/ Private!OSErrorRaised(w) \/ Private!Kill(w)
    BY <2>2 DEF Private!Replace, Private!Link, Private!UnlinkTemporary,
       Private!CheckInstalled, Private!OSErrorRaised, Private!Kill, Private!Raise,
       Private!RaiseAndClean, Private!Go, Private!Phases
  <2> QED BY <2>1, <2>2 DEF Private!Call
<1>2. /\ calls'[w] \in {"written", "rechecked", "linked", "installed"} => w \in written'
      /\ calls'[w] \in {"open", "looked", "created", "written", "rechecked", "linked",
                     "installed"} => parent' \in Folders
      /\ calls'[w] = "installed" => w \notin staged'
      /\ result'[w] = "ok" => calls'[w] = "done" /\ w \in written' /\ w \notin staged'
  <2>1. CASE Private!LookAtParent(w) \/ Private!MakeParent(w) \/ Private!OpenParent(w)
    BY <2>1 DEF Private!PhasesAreEarned, Private!LookAtParent, Private!MakeParent,
       Private!OpenParent, Private!Raise, Private!RaiseAndClean, Private!Go
  <2>2. CASE \/ Private!LookAtTarget(w) \/ Private!CreateTemporary(w)
             \/ Private!WriteText(w) \/ Private!Recheck(w)
    BY <2>2 DEF Private!PhasesAreEarned, Private!LookAtTarget, Private!CreateTemporary,
       Private!WriteText, Private!Recheck, Private!Raise, Private!RaiseAndClean,
       Private!Go
  <2>3. CASE Private!Replace(w) \/ Private!Link(w) \/ Private!UnlinkTemporary(w)
    BY <2>3 DEF Private!PhasesAreEarned, Private!Replace, Private!Link,
       Private!UnlinkTemporary, Private!Raise, Private!RaiseAndClean, Private!Go
  <2>4. CASE Private!CheckInstalled(w) \/ Private!OSErrorRaised(w) \/ Private!Kill(w)
    BY <2>4 DEF Private!PhasesAreEarned, Private!CheckInstalled, Private!OSErrorRaised,
       Private!Kill, Private!Raise, Private!RaiseAndClean, Private!Go
  <2> QED BY <2>1, <2>2, <2>3, <2>4 DEF Private!Call
<1>3. Private!PhasesAreEarned' /\ Private!ReturnLeavesNoLitter'
  BY <1>2, CallsMoveAlone, CallsTouchOnlyTheirOwn DEF Private!PhasesAreEarned,
     Private!ReturnLeavesNoLitter
<1> QED BY <1>1, <1>3

LEMMA StepKeepsPrivateInv ==
    Private!PrivateInv /\ [Private!Next]_privateVars => Private!PrivateInv'
<1> SUFFICES ASSUME Private!PrivateInv, [Private!Next]_privateVars PROVE Private!PrivateInv'
  OBVIOUS
<1>1. ASSUME NEW w \in Writers, Private!Call(w) PROVE Private!PrivateInv'
  <2>1. Private!PrivateTypeOK' /\ Private!PhasesAreEarned' /\ Private!ReturnLeavesNoLitter'
    BY <1>1, CallKeepsPhases
  <2>2. Private!TargetIsComplete'
    BY <1>1, CallsTouchOnlyTheirOwn DEF Private!PrivateInv, Private!TargetIsComplete
  <2>3. Private!ReturnedTextIsThere'
    <3> SUFFICES ASSUME ~disturbed', NEW v \in Writers, result'[v] = "ok"
                 PROVE  target' \in {v} \cup (Overwrite \cap written')
      BY DEF Private!ReturnedTextIsThere
    <3>1. CASE result[v] = "ok"
      <4>1. target \in {v} \cup (Overwrite \cap written)
        BY <1>1, <3>1, CallsTouchOnlyTheirOwn DEF Private!PrivateInv,
           Private!ReturnedTextIsThere
      <4>2. target # Absent
        BY <4>1, InodesDiffer DEF Private!InodesAreDistinct, Private!Inodes,
           Private!PrivateInv, Private!PrivateTypeOK
      <4> QED BY <1>1, <4>1, <4>2, CallsTouchOnlyTheirOwn
    <3>2. CASE result[v] # "ok"
      <4>1. v = w
        BY <1>1, <3>2, CallsMoveAlone DEF Private!PrivateInv
      <4>2. target' = w
        BY <1>1, <3>2, <4>1 DEF Private!PrivateInv, Private!PrivateTypeOK, Private!Call,
           Private!LookAtParent, Private!MakeParent, Private!OpenParent,
           Private!LookAtTarget, Private!CreateTemporary, Private!WriteText,
           Private!Recheck, Private!Replace, Private!Link, Private!UnlinkTemporary,
           Private!CheckInstalled, Private!OSErrorRaised, Private!Kill, Private!Go,
           Private!Raise, Private!RaiseAndClean
      <4> QED BY <4>1, <4>2
    <3> QED BY <3>1, <3>2
  <2> QED BY <2>1, <2>2, <2>3 DEF Private!PrivateInv
<1>2. CASE Private!TakeParent
  <2>1. parent \notin Folders
    BY <1>2, InodesDiffer DEF Private!TakeParent, Private!InodesAreDistinct,
       Private!Inodes, Private!Foreign
  <2> QED BY <1>2, <2>1 DEF Private!TakeParent, Private!PrivateInv,
             Private!PrivateTypeOK, Private!PhasesAreEarned, Private!TargetIsComplete,
             Private!ReturnLeavesNoLitter, Private!ReturnedTextIsThere
<1>3. CASE Private!ChangeTarget
  <2>1. target' \notin Writers
    BY <1>3, InodesDiffer DEF Private!ChangeTarget, Private!InodesAreDistinct,
       Private!Inodes
  <2> QED BY <1>3, <2>1 DEF Private!ChangeTarget, Private!PrivateInv,
             Private!PrivateTypeOK, Private!PhasesAreEarned, Private!TargetIsComplete,
             Private!ReturnLeavesNoLitter, Private!ReturnedTextIsThere
<1>4. CASE UNCHANGED privateVars
  BY <1>4 DEF privateVars, Private!PrivateInv, Private!PrivateTypeOK,
     Private!PhasesAreEarned, Private!TargetIsComplete, Private!ReturnLeavesNoLitter,
     Private!ReturnedTextIsThere
<1> QED BY <1>1, <1>2, <1>3, <1>4 DEF Private!Next

----------------------------------------------------------------------------
\* Monitors.

LEMMA InitIsMonitorInv == Monitor!Init => Monitor!MonitorInv
<1> SUFFICES ASSUME Monitor!Init PROVE Monitor!MonitorInv
  OBVIOUS
<1>1. PICK c \in Contents : history = <<[holds |-> c, at |-> 0]>>
  BY DEF Monitor!Init
<1>2. history \in Seq([holds : Contents, at : Nat]) /\ history # << >>
  BY <1>1
<1> QED BY <1>2 DEF Monitor!Init, Monitor!MonitorInv, Monitor!NoneMeansPinned

LEMMA StepKeepsMonitorInv ==
    Monitor!MonitorInv /\ [Monitor!Next]_monitorVars => Monitor!MonitorInv'
<1> SUFFICES ASSUME Monitor!MonitorInv, [Monitor!Next]_monitorVars PROVE Monitor!MonitorInv'
  OBVIOUS
<1> USE DEF Monitor!MonitorInv, Monitor!NoneMeansPinned, Monitor!upstream
<1>1. CASE Monitor!Tick
  BY <1>1 DEF Monitor!Tick
<1>2. ASSUME NEW c \in Contents, Monitor!Push(c) PROVE Monitor!MonitorInv'
  <2>1. /\ history' \in Seq([holds : Contents, at : Nat]) /\ history' # << >>
        /\ Len(history') = Len(history) + 1
        /\ \A i \in 1 .. Len(history) : history'[i] = history[i]
    BY <1>2 DEF Monitor!Push
  <2> QED BY <1>2, <2>1 DEF Monitor!Push
<1>3. CASE Monitor!Call \/ Monitor!Fail \/ Monitor!AskRevision
  BY <1>3 DEF Monitor!Call, Monitor!Fail, Monitor!AskRevision
<1>4. CASE Monitor!FetchFile
  BY <1>4 DEF Monitor!FetchFile
<1>5. CASE Monitor!FetchPinned
  BY <1>5 DEF Monitor!FetchPinned
<1>6. CASE Monitor!FetchMetadata
  BY <1>6 DEF Monitor!FetchMetadata
<1>7. CASE UNCHANGED monitorVars
  BY <1>7 DEF monitorVars
<1> QED BY <1>1, <1>2, <1>3, <1>4, <1>5, <1>6, <1>7 DEF Monitor!Next
----------------------------------------------------------------------------
\* Portfolios.

\* An instance's names of the operators of FiniteSets.
LEMMA PortfolioSets ==
    ASSUME NEW S
    PROVE  /\ Portfolio!Cardinality(S) = Cardinality(S)
           /\ Portfolio!IsFiniteSet(S) = IsFiniteSet(S)
BY DEF Portfolio!Cardinality, Cardinality, Portfolio!IsFiniteSet, IsFiniteSet

(***************************************************************************)
(* What is measured at one time is until its deadline, and not after.      *)
(***************************************************************************)
LEMMA MeasuredUntilDeadline ==
    ASSUME NEW c \in Components, NEW e \in Portfolio!EstimateRecords, NEW t \in Nat,
           Portfolio!Evaluate(c, e, t) = "measured"
    PROVE  /\ e # None /\ e.complete /\ e.observed \in Nat
           /\ Portfolio!Deadline(c, e) \in Nat
           /\ Portfolio!Deadline(c, e) = e.observed + MaxAge[c]
           /\ t < Portfolio!Deadline(c, e)
           /\ \A u \in Nat : u >= t =>
                 (u < Portfolio!Deadline(c, e) <=> Portfolio!Evaluate(c, e, u) = "measured")
<1> USE PolicyPossible DEF Portfolio!PolicyIsPossible
<1>1. /\ e # None /\ ~Portfolio!SourceFails(e, t) /\ e.observed # None
      /\ ~(e.observed > t + Skew) /\ ~(t >= Portfolio!Deadline(c, e))
  BY DEF Portfolio!Evaluate
<1>2. e \in [value : Nat, observed : Nat \cup {None}, retrieved : Nat \cup {None},
             complete : BOOLEAN]
  BY <1>1 DEF Portfolio!EstimateRecords
<1>3. /\ e.observed \in Nat /\ MaxAge[c] \in Nat
      /\ Portfolio!Deadline(c, e) = e.observed + MaxAge[c]
  BY <1>1, <1>2 DEF Portfolio!Deadline
<1>4. e.complete /\ e.retrieved \in Nat /\ e.retrieved <= t + Skew
  BY <1>1, <1>2 DEF Portfolio!SourceFails
<1>5. ASSUME NEW u \in Nat, u >= t
      PROVE  u < Portfolio!Deadline(c, e) <=> Portfolio!Evaluate(c, e, u) = "measured"
  <2>1. ~Portfolio!SourceFails(e, u) /\ ~(e.observed > u + Skew)
    BY <1>1, <1>3, <1>4, <1>5 DEF Portfolio!SourceFails
  <2> QED BY <1>1, <1>3, <1>5, <2>1 DEF Portfolio!Evaluate
<1> QED BY <1>1, <1>3, <1>4, <1>5

(***************************************************************************)
(* An eligible candidate has every required component measured, and at     *)
(* least one; it stays eligible while those it has are measured.           *)
(***************************************************************************)
LEMMA EligibleHasMeasured ==
    ASSUME NEW given, NEW t, Portfolio!IsPossible(given),
           NEW o \in Portfolio!Eligible(Portfolio!Results(given, t))
    PROVE  LET results == Portfolio!Results(given, t)
           IN  /\ o \in DOMAIN given.base /\ o \in Candidates
               /\ Required \subseteq Portfolio!Measured(results, o)
               /\ Portfolio!Measured(results, o) # {}
               /\ \A u : Portfolio!Measured(results, o)
                            \subseteq Portfolio!Measured(Portfolio!Results(given, u), o)
                      => o \in Portfolio!Eligible(Portfolio!Results(given, u))
<1> DEFINE M(u) == Portfolio!Measured(Portfolio!Results(given, u), o)
<1>0. \A u : DOMAIN Portfolio!Results(given, u) = DOMAIN given.base
  BY DEF Portfolio!Results
<1>1. /\ o \in DOMAIN given.base /\ Required \subseteq M(t) /\ Cardinality(M(t)) >= Minimum
      /\ o \in Candidates
  BY <1>0, PortfolioSets DEF Portfolio!Eligible, Portfolio!IsPossible
<1>2. \A u : M(u) \in SUBSET Components
  BY DEF Portfolio!Measured
<1>5. \A u : o \in Portfolio!Eligible(Portfolio!Results(given, u)) <=>
                Required \subseteq M(u) /\ Cardinality(M(u)) >= Minimum
  BY <1>0, <1>1, PortfolioSets DEF Portfolio!Eligible
<1> HIDE DEF M
<1>3. M(t) # {}
  BY <1>1, FS_EmptySet, PolicyPossible DEF Portfolio!PolicyIsPossible
<1>4. ASSUME NEW u, M(t) \subseteq M(u)
      PROVE  o \in Portfolio!Eligible(Portfolio!Results(given, u))
  <2>1. IsFiniteSet(M(u)) /\ IsFiniteSet(M(t))
    BY <1>2, FS_Subset, PortfolioSets, PolicyPossible DEF Portfolio!PolicyIsPossible
  <2>2. Cardinality(M(t)) <= Cardinality(M(u))
    BY <1>4, <2>1, FS_Subset
  <2>3. Cardinality(M(t)) \in Nat /\ Cardinality(M(u)) \in Nat /\ Minimum \in Nat
    BY <2>1, FS_CardinalityType, PolicyPossible DEF Portfolio!PolicyIsPossible
  <2> QED BY <1>1, <1>4, <1>5, <2>2, <2>3
<1> QED BY <1>1, <1>3, <1>4 DEF M

(***************************************************************************)
(* A portfolio is valid until the first deadline of what was measured of   *)
(* its eligible candidates.                                                *)
(***************************************************************************)
LEMMA ValidUntilFirstDeadline ==
    ASSUME NEW given, NEW t \in Nat, Portfolio!IsPossible(given), ~Portfolio!Refuses(given, t)
    PROVE  LET results == Portfolio!Results(given, t)
               valid == Portfolio!ValidUntil(given, results)
               Until(o, c) == Portfolio!Deadline(c, given.frontiers[c].rows[o])
           IN  /\ valid \in Nat
               /\ \A o \in Portfolio!Eligible(results) : \A c \in Portfolio!Measured(results, o) :
                     valid <= Until(o, c)
               /\ \E o \in Portfolio!Eligible(results) :
                     \E c \in Portfolio!Measured(results, o) : valid = Until(o, c)
<1> DEFINE results == Portfolio!Results(given, t)
           Until(o, c) == Portfolio!Deadline(c, given.frontiers[c].rows[o])
           M(o) == Portfolio!Measured(results, o)
           E == Portfolio!Eligible(results)
           pairs == {p \in E \X Components : p[2] \in M(p[1])}
           D == {Until(p[1], p[2]) : p \in pairs}
<1>1. \A o \in E : \A c \in M(o) : c \in Components /\ Until(o, c) \in Nat
  <2> SUFFICES ASSUME NEW o \in E, NEW c \in M(o)
               PROVE  c \in Components /\ Until(o, c) \in Nat
    OBVIOUS
  <2>1. c \in Components /\ results[o][c] = "measured"
    BY DEF Portfolio!Measured
  <2>2. o \in DOMAIN given.base /\ o \in Candidates
    BY EligibleHasMeasured
  <2>3. Portfolio!Evaluate(c, given.frontiers[c].rows[o], t) = "measured"
    BY <2>1, <2>2 DEF Portfolio!Results
  <2>4. given.frontiers[c].rows[o] \in Portfolio!EstimateRecords
    BY <2>1, <2>2 DEF Portfolio!IsPossible, Portfolio!Snapshots
  <2> QED BY <2>1, <2>3, <2>4, MeasuredUntilDeadline
<1>2. E # {} /\ \A o \in E : M(o) # {}
  BY EligibleHasMeasured DEF Portfolio!Refuses
<1>3. Portfolio!ValidUntil(given, results) = Portfolio!Min(D)
  BY DEF Portfolio!ValidUntil
<1> HIDE DEF results, Until, M, E
<1>7. \A o \in E : \A c \in M(o) : Until(o, c) \in D
  <2> SUFFICES ASSUME NEW o \in E, NEW c \in M(o) PROVE Until(o, c) \in D
    OBVIOUS
  <2> DEFINE r == <<o, c>>
  <2>1. r \in pairs /\ r[1] = o /\ r[2] = c
    BY <1>1
  <2>2. Until(r[1], r[2]) = Until(o, c)
    BY <2>1
  <2> QED BY <2>1, <2>2
<1>4. D \subseteq Nat /\ D # {}
  <2>1. \A p \in pairs : Until(p[1], p[2]) \in Nat
    BY <1>1
  <2>2. PICK o \in E : M(o) # {}
    BY <1>2
  <2>3. PICK c \in M(o) : TRUE
    BY <2>2
  <2> QED BY <1>7, <2>1, <2>3
<1>5. \E y \in D : \A z \in D : y <= z
  <2> HIDE DEF D
  <2>1. PICK y \in D : \A z \in D : ~(<<z, y>> \in OpToRel(<, Nat))
    BY <1>4, NatLessThanWellFounded, WFMin
  <2>2. ASSUME NEW z \in D PROVE y <= z
    <3>1. y \in Nat /\ z \in Nat
      BY <1>4, <2>1, <2>2
    <3>2. ~(z < y)
      BY <2>1, <2>2, <3>1 DEF OpToRel
    <3> QED BY <3>1, <3>2
  <2> QED BY <2>2
<1>6. Portfolio!Min(D) \in D /\ \A y \in D : Portfolio!Min(D) <= y
  BY <1>5 DEF Portfolio!Min
<1>8. \E o \in E : \E c \in M(o) : Portfolio!Min(D) = Until(o, c)
  BY <1>6
<1> HIDE DEF D
<1> QED BY <1>3, <1>4, <1>6, <1>7, <1>8 DEF results, Until, M, E

\* What the catalog of a portfolio holds.
LEMMA CatalogHoldsMeasured ==
    ASSUME NEW given, NEW t \in Nat, Portfolio!IsPossible(given),
           NEW o \in DOMAIN Portfolio!CatalogSignals(given, Portfolio!Results(given, t))
    PROVE  LET results == Portfolio!Results(given, t)
               added == Portfolio!CatalogSignals(given, results)[o]
           IN  /\ o \in DOMAIN given.base
               /\ DOMAIN added = IF o \in Portfolio!Eligible(results)
                                   THEN Portfolio!Measured(results, o) ELSE {}
               /\ \A c \in DOMAIN added :
                     /\ c \in Components
                     /\ added[c] = given.frontiers[c].rows[o].value
                     /\ given.frontiers[c].rows[o] \in Portfolio!EstimateRecords
                     /\ Portfolio!Evaluate(c, given.frontiers[c].rows[o], t) = "measured"
<1> DEFINE results == Portfolio!Results(given, t)
           added == Portfolio!CatalogSignals(given, results)[o]
<1>1. /\ o \in DOMAIN given.base
      /\ DOMAIN added = IF o \in Portfolio!Eligible(results)
                          THEN Portfolio!Measured(results, o) ELSE {}
      /\ \A c \in DOMAIN added : added[c] = given.frontiers[c].rows[o].value
  BY DEF Portfolio!CatalogSignals
<1>2. ASSUME NEW c \in DOMAIN added
      PROVE  /\ c \in Components
             /\ given.frontiers[c].rows[o] \in Portfolio!EstimateRecords
             /\ Portfolio!Evaluate(c, given.frontiers[c].rows[o], t) = "measured"
  <2>1. c \in Components /\ results[o][c] = "measured"
    <3>1. c \in Portfolio!Measured(results, o)
      BY <1>1, <1>2
    <3> QED BY <3>1 DEF Portfolio!Measured
  <2>2. Portfolio!Evaluate(c, given.frontiers[c].rows[o], t) = "measured"
    BY <1>1, <2>1 DEF Portfolio!Results
  <2>3. o \in Candidates
    BY <1>1 DEF Portfolio!IsPossible
  <2> QED BY <2>1, <2>2, <2>3 DEF Portfolio!IsPossible, Portfolio!Snapshots
<1> QED BY <1>1, <1>2

LEMMA PortfolioInvIsFresh == Portfolio!PortfolioInv => Portfolio!VerifiedIsFresh
<1> SUFFICES ASSUME Portfolio!PortfolioInv, portfolio # None,
                    NEW time \in Portfolio!Clocks,
                    Portfolio!Verifies(portfolio, Portfolio!Inputs, time),
                    NEW o \in DOMAIN portfolio.catalog
             PROVE  Portfolio!IsFresh(o, time)
  BY DEF Portfolio!VerifiedIsFresh
<1> DEFINE given == Portfolio!Inputs
           t == portfolio.generated
           results == Portfolio!Results(given, t)
           added == Portfolio!CatalogSignals(given, results)[o]
<1>1. /\ portfolio = Portfolio!Portfolio(given, t) /\ ~Portfolio!Refuses(given, t)
      /\ time < portfolio.valid /\ time \in Nat
  BY PolicyPossible DEF Portfolio!Verifies, Portfolio!Clocks, Portfolio!PolicyIsPossible
<1>2. /\ portfolio.catalog = Portfolio!CatalogSignals(given, results)
      /\ portfolio.valid = Portfolio!ValidUntil(given, results)
  BY <1>1 DEF Portfolio!Portfolio
<1>3. /\ t \in Nat /\ Portfolio!IsPossible(given)
      /\ given.frontiers = frontiers /\ given.base = signalled
  <2>1. t \in Nat /\ Portfolio!IsPossible(given)
    BY DEF Portfolio!PortfolioInv
  <2>2. given.frontiers = frontiers /\ given.base = signalled
    BY DEF Portfolio!Inputs
  <2> QED BY <2>1, <2>2
<1> HIDE DEF given, t
<1>4. /\ o \in DOMAIN signalled
      /\ DOMAIN added = IF o \in Portfolio!Eligible(results)
                          THEN Portfolio!Measured(results, o) ELSE {}
      /\ \A c \in DOMAIN added :
            /\ c \in Components
            /\ added[c] = frontiers[c].rows[o].value
            /\ frontiers[c].rows[o] \in Portfolio!EstimateRecords
            /\ Portfolio!Evaluate(c, frontiers[c].rows[o], t) = "measured"
  BY <1>2, <1>3, CatalogHoldsMeasured
<1>5. ASSUME NEW c \in DOMAIN added
      PROVE  LET e == frontiers[c].rows[o]
             IN  /\ e # None /\ e.complete /\ added[c] = e.value
                 /\ time - e.observed < MaxAge[c]
  <2> DEFINE e == frontiers[c].rows[o]
  <2>1. /\ e # None /\ e.complete /\ e.observed \in Nat
        /\ Portfolio!Deadline(c, e) \in Nat
        /\ Portfolio!Deadline(c, e) = e.observed + MaxAge[c]
    BY <1>3, <1>4, <1>5, MeasuredUntilDeadline
  <2>2. o \in Portfolio!Eligible(results) /\ c \in Portfolio!Measured(results, o)
    BY <1>4, <1>5
  <2>3. portfolio.valid <= Portfolio!Deadline(c, e) /\ portfolio.valid \in Nat
    BY <1>1, <1>2, <1>3, <2>2, ValidUntilFirstDeadline
  <2>4. MaxAge[c] \in Nat
    BY <1>4, <1>5, PolicyPossible DEF Portfolio!PolicyIsPossible
  <2> QED BY <1>1, <1>4, <1>5, <2>1, <2>3, <2>4
<1>6. DOMAIN added # {} => Required \subseteq DOMAIN added
  BY <1>3, <1>4, EligibleHasMeasured
<1> QED BY <1>2, <1>4, <1>5, <1>6 DEF Portfolio!IsFresh

(***************************************************************************)
(* At a later time the catalog would be the same exactly until the first   *)
(* deadline.                                                               *)
(***************************************************************************)
LEMMA KeptUntilValid ==
    ASSUME NEW given, NEW t \in Nat, NEW u \in Nat, u >= t,
           Portfolio!IsPossible(given), ~Portfolio!Refuses(given, t)
    PROVE  u < Portfolio!ValidUntil(given, Portfolio!Results(given, t)) <=>
           Portfolio!IsKept(Portfolio!CatalogSignals(given, Portfolio!Results(given, t)),
                            Portfolio!CatalogSignals(given, Portfolio!Results(given, u)))
<1> DEFINE before == Portfolio!Results(given, t)
           after == Portfolio!Results(given, u)
           old == Portfolio!CatalogSignals(given, before)
           new == Portfolio!CatalogSignals(given, after)
           valid == Portfolio!ValidUntil(given, before)
           E(o, c) == given.frontiers[c].rows[o]
<1>1. valid \in Nat
  BY ValidUntilFirstDeadline
<1>2. DOMAIN old = DOMAIN given.base /\ DOMAIN new = DOMAIN given.base
  BY DEF Portfolio!CatalogSignals
<1>3. ASSUME NEW o \in Portfolio!Eligible(before), NEW c \in Portfolio!Measured(before, o)
      PROVE  /\ o \in DOMAIN old /\ c \in DOMAIN old[o] /\ c \in Components
             /\ Portfolio!Deadline(c, E(o, c)) \in Nat
             /\ u < Portfolio!Deadline(c, E(o, c)) <=>
                    c \in Portfolio!Measured(after, o)
  <2>1. o \in DOMAIN given.base /\ o \in Candidates
    BY EligibleHasMeasured
  <2>2. DOMAIN old[o] = Portfolio!Measured(before, o)
    BY <1>2, <2>1, CatalogHoldsMeasured
  <2>3. c \in Components /\ E(o, c) \in Portfolio!EstimateRecords
        /\ Portfolio!Evaluate(c, E(o, c), t) = "measured"
    BY <1>2, <2>1, <2>2, CatalogHoldsMeasured
  <2>4. after[o][c] = Portfolio!Evaluate(c, E(o, c), u)
    BY <2>1, <2>3 DEF Portfolio!Results
  <2>5. /\ Portfolio!Deadline(c, E(o, c)) \in Nat
        /\ u < Portfolio!Deadline(c, E(o, c)) <=> Portfolio!Evaluate(c, E(o, c), u) = "measured"
    BY <2>3, MeasuredUntilDeadline
  <2> QED BY <1>2, <2>1, <2>2, <2>3, <2>4, <2>5 DEF Portfolio!Measured
<1>4. ASSUME u < valid PROVE Portfolio!IsKept(old, new)
  <2> SUFFICES ASSUME NEW o \in DOMAIN old, NEW c \in DOMAIN old[o]
               PROVE  c \in DOMAIN new[o] /\ new[o][c] = old[o][c]
    BY DEF Portfolio!IsKept
  <2>1. /\ o \in Portfolio!Eligible(before) /\ c \in Portfolio!Measured(before, o)
        /\ old[o][c] = E(o, c).value
    BY CatalogHoldsMeasured
  <2>2. \A d \in Portfolio!Measured(before, o) :
            u < Portfolio!Deadline(d, E(o, d)) /\ d \in Portfolio!Measured(after, o)
    <3> SUFFICES ASSUME NEW d \in Portfolio!Measured(before, o)
                 PROVE  u < Portfolio!Deadline(d, E(o, d)) /\ d \in Portfolio!Measured(after, o)
      OBVIOUS
    <3>1. valid <= Portfolio!Deadline(d, E(o, d))
      BY <2>1, ValidUntilFirstDeadline
    <3>2. Portfolio!Deadline(d, E(o, d)) \in Nat
      BY <1>3, <2>1
    <3>3. u < Portfolio!Deadline(d, E(o, d))
      BY <1>1, <1>4, <3>1, <3>2
    <3> QED BY <1>3, <2>1, <3>3
  <2>3. o \in Portfolio!Eligible(after)
    BY <2>1, <2>2, EligibleHasMeasured
  <2>4. DOMAIN new[o] = Portfolio!Measured(after, o)
    BY <1>2, <2>3, CatalogHoldsMeasured
  <2>5. new[o][c] = E(o, c).value
    BY <1>2, <2>1, <2>2, <2>4, CatalogHoldsMeasured
  <2> QED BY <2>1, <2>2, <2>4, <2>5
<1>5. ASSUME Portfolio!IsKept(old, new) PROVE u < valid
  <2>1. PICK o \in Portfolio!Eligible(before), d \in Components :
            d \in Portfolio!Measured(before, o) /\ valid = Portfolio!Deadline(d, E(o, d))
    <3>1. PICK o \in Portfolio!Eligible(before) : \E c \in Portfolio!Measured(before, o) :
                valid = Portfolio!Deadline(c, E(o, c))
      BY ValidUntilFirstDeadline
    <3> QED BY <1>3, <3>1
  <2>2. o \in DOMAIN old /\ d \in DOMAIN old[o] /\ d \in DOMAIN new[o]
    BY <1>3, <1>5, <2>1 DEF Portfolio!IsKept
  <2>3. d \in Portfolio!Measured(after, o)
    BY <1>2, <2>2, CatalogHoldsMeasured
  <2> QED BY <1>3, <2>1, <2>3
<1> QED BY <1>4, <1>5

LEMMA PortfolioInvIsTrue ==
    Portfolio!PortfolioInv => Portfolio!ValidWhileTrue /\ Portfolio!VerifiesUntilExpiry
<1> SUFFICES ASSUME Portfolio!PortfolioInv, portfolio # None
             PROVE  Portfolio!ValidWhileTrue /\ Portfolio!VerifiesUntilExpiry
  BY DEF Portfolio!ValidWhileTrue, Portfolio!VerifiesUntilExpiry
<1> DEFINE given == portfolio.inputs
           t == portfolio.generated
<1>1. /\ t \in Nat /\ Portfolio!IsPossible(given) /\ ~Portfolio!Refuses(given, t)
      /\ portfolio = Portfolio!Portfolio(given, t)
  BY DEF Portfolio!PortfolioInv
<1>2. /\ portfolio.valid = Portfolio!ValidUntil(given, Portfolio!Results(given, t))
      /\ portfolio.catalog = Portfolio!CatalogSignals(given, Portfolio!Results(given, t))
  <2> HIDE DEF given, t
  <2> QED BY <1>1 DEF Portfolio!Portfolio
<1> HIDE DEF given, t
<1>3. ASSUME NEW u \in Times, u >= t
      PROVE  u < portfolio.valid <=>
             Portfolio!IsKept(portfolio.catalog,
                     Portfolio!CatalogSignals(given, Portfolio!Results(given, u)))
  <2>1. u \in Nat
    BY PolicyPossible DEF Portfolio!PolicyIsPossible
  <2> QED BY <1>1, <1>2, <1>3, <2>1, KeptUntilValid
<1>4. Portfolio!ValidWhileTrue
  BY <1>3 DEF Portfolio!ValidWhileTrue, given, t
<1>5. t < portfolio.valid
  <2>1. Portfolio!IsKept(portfolio.catalog, portfolio.catalog)
    BY DEF Portfolio!IsKept
  <2> QED BY <1>1, <1>2, <2>1, KeptUntilValid
<1>6. ASSUME given = Portfolio!Inputs, NEW time \in Portfolio!Clocks,
             t - Skew <= time, time < portfolio.valid
      PROVE  Portfolio!Verifies(portfolio, Portfolio!Inputs, time)
  <2>1. t <= time + Skew
    BY <1>1, <1>6, PolicyPossible DEF Portfolio!PolicyIsPossible, Portfolio!Clocks
  <2> QED BY <1>1, <1>6, <2>1 DEF Portfolio!Verifies, t
<1>7. Portfolio!VerifiesUntilExpiry
  BY <1>5, <1>6 DEF Portfolio!VerifiesUntilExpiry, given, t
<1> QED BY <1>4, <1>7

LEMMA InitIsPortfolioInv == Portfolio!Init => Portfolio!PortfolioInv
<1> SUFFICES ASSUME Portfolio!Init PROVE Portfolio!PortfolioInv
  OBVIOUS
<1>1. clock = 0 /\ portfolio = None /\ DOMAIN signalled = Candidates /\ frontiers \in FirstFrontiers
  BY DEF Portfolio!Init
<1>2. Portfolio!IsPossible(Portfolio!Inputs)
  BY <1>1, PolicyPossible DEF Portfolio!IsPossible, Portfolio!Inputs,
     Portfolio!PolicyIsPossible
<1> QED BY <1>1, <1>2 DEF Portfolio!PortfolioInv

LEMMA StepKeepsPortfolioInv ==
    Portfolio!PortfolioInv /\ [Portfolio!Next]_portfolioVars => Portfolio!PortfolioInv'
<1> SUFFICES ASSUME Portfolio!PortfolioInv, [Portfolio!Next]_portfolioVars
             PROVE  Portfolio!PortfolioInv'
  OBVIOUS
<1> USE DEF Portfolio!PortfolioInv
<1>0. Portfolio!IsPossible(Portfolio!Inputs)' <=>
         frontiers' \in Portfolio!Snapshots /\ DOMAIN signalled' \subseteq Candidates
  BY DEF Portfolio!IsPossible, Portfolio!Inputs
<1>9. frontiers \in Portfolio!Snapshots /\ DOMAIN signalled \subseteq Candidates
  BY DEF Portfolio!IsPossible, Portfolio!Inputs
<1>1. CASE Portfolio!Tick
  BY <1>0, <1>1, <1>9 DEF Portfolio!Tick
<1>2. ASSUME NEW c \in Components, NEW o \in Candidates, NEW e \in Estimates,
             Portfolio!EvaluateFrontier(c, o, e)
      PROVE  Portfolio!PortfolioInv'
  <2>1. e \in Portfolio!EstimateRecords
    BY PolicyPossible DEF Portfolio!PolicyIsPossible
  <2>2. frontiers' = [frontiers EXCEPT ![c].at = clock, ![c].rows[o] = e]
    BY <1>2 DEF Portfolio!EvaluateFrontier
  <2>3. frontiers' \in Portfolio!Snapshots
    BY <1>9, <2>1, <2>2 DEF Portfolio!Snapshots
  <2> QED BY <1>0, <1>2, <1>9, <2>3 DEF Portfolio!EvaluateFrontier
<1>3. ASSUME NEW bases \in Portfolio!Bases, Portfolio!ReplaceBase(bases)
      PROVE  Portfolio!PortfolioInv'
  <2>1. DOMAIN bases \subseteq Candidates
    BY DEF Portfolio!Bases
  <2> QED BY <1>0, <1>3, <1>9, <2>1 DEF Portfolio!ReplaceBase
<1>4. ASSUME NEW time \in Portfolio!Clocks, Portfolio!Build(time)
      PROVE  Portfolio!PortfolioInv'
  <2>1. /\ ~Portfolio!Refuses(Portfolio!Inputs, time)
        /\ portfolio' = Portfolio!Portfolio(Portfolio!Inputs, time)
        /\ UNCHANGED <<clock, frontiers, signalled>>
    BY <1>4 DEF Portfolio!Build
  <2>2. time \in Nat
    BY PolicyPossible DEF Portfolio!PolicyIsPossible, Portfolio!Clocks
  <2>3. portfolio'.inputs = Portfolio!Inputs /\ portfolio'.generated = time
    BY <2>1 DEF Portfolio!Portfolio
  <2> QED BY <1>0, <1>9, <2>1, <2>2, <2>3
<1>5. CASE UNCHANGED portfolioVars
  BY <1>0, <1>5, <1>9 DEF portfolioVars
<1> QED BY <1>1, <1>2, <1>3, <1>4, <1>5 DEF Portfolio!Next

----------------------------------------------------------------------------
\* Reading over HTTPS.

LEMMA Products ==
    ASSUME NEW m \in Nat, NEW n \in Nat
    PROVE  /\ m * n \in Nat
           /\ (m + 1) * n = m * n + n
           /\ \A l \in Nat : m <= l => m * n <= l * n
<1>1. \A i \in Nat : i * n \in Nat
  BY SMT
<1>2. ASSUME NEW l \in Nat, m <= l PROVE m * n <= l * n
  <2>1. PICK d \in Nat : l = m + d
    BY <1>2
  <2>2. l * n = m * n + d * n
    BY <2>1
  <2> QED BY <1>1, <2>2
<1> QED BY <1>1, <1>2

LEMMA InitIsRemoteInv == Remote!Init => Remote!RemoteInv
<1> SUFFICES ASSUME Remote!Init PROVE Remote!RemoteInv
  OBVIOUS
<1>1. bodies \in Seq(Remote!BodyRecords) /\ Len(bodies) = 0
  BY DEF Remote!Init
<1>2. Remote!RemoteTypeOK
  BY <1>1 DEF Remote!Init, Remote!RemoteTypeOK, Remote!Asks
<1>3. Remote!StampedWhileAsking /\ Remote!StampIsOfCall /\ Remote!RevisionWhileAsking
  BY <1>1 DEF Remote!Init, Remote!StampedWhileAsking, Remote!StampIsOfCall,
     Remote!RevisionWhileAsking, Remote!Asks
<1>4. Remote!InTimeWhileAsking
  BY DEF Remote!Init, Remote!InTimeWhileAsking, Remote!Asks
<1>5. Remote!WholeWhileReading /\ Remote!BodyIsWhole
  BY <1>1 DEF Remote!Init, Remote!WholeWhileReading, Remote!BodyIsWhole
<1>6. Remote!CallEndsInTime
  <2>1. 3 * Timeout \in Nat /\ 2 * Timeout \in Nat
    BY CallsPossible DEF Remote!CallsArePossible
  <2>2. ASSUME request.kind # "arc", request.kind \notin Remote!Lenient
        PROVE  Remote!Bodies[request.kind] * (ByteLimit + 3) * Timeout \in Nat
    <3>1. Remote!Bodies[request.kind] \in Nat
      BY CallsPossible DEF Remote!CallsArePossible, Remote!Init, Remote!Bodies
    <3> HIDE DEF Remote!Bodies
    <3>2. Remote!Bodies[request.kind] * (ByteLimit + 3) \in Nat /\ Timeout \in Nat
      BY <3>1, Products, CallsPossible DEF Remote!CallsArePossible
    <3> QED BY <3>2, Products
  <2> QED BY <2>1, <2>2 DEF Remote!Init, Remote!CallEndsInTime
<1> QED BY <1>2, <1>3, <1>4, <1>5, <1>6 DEF Remote!RemoteInv

\* A body that was read is a record of one.
LEMMA BodyIsRecord ==
    ASSUME Remote!RemoteTypeOK, progress = "body"
    PROVE  /\ Remote!Body \in Remote!BodyRecords
           /\ Remote!Body.at = elapsed /\ Remote!Body.commit = response.commit
           /\ Append(bodies, Remote!Body) \in Seq(Remote!BodyRecords)
           /\ Len(Append(bodies, Remote!Body)) = Len(bodies) + 1
           /\ \A i \in DOMAIN Append(bodies, Remote!Body) :
                 Append(bodies, Remote!Body)[i] =
                     IF i = Len(bodies) + 1 THEN Remote!Body ELSE bodies[i]
           /\ Append(bodies, Remote!Body)[1] = IF bodies = << >> THEN Remote!Body ELSE bodies[1]
<1>1. Remote!Decoded(request.kind, response, received) \in Nat
  BY DEF Remote!Decoded, Remote!RemoteTypeOK
<1>2. Remote!Body \in Remote!BodyRecords
  BY <1>1 DEF Remote!Body, Remote!BodyRecords, Remote!Content, Remote!RemoteTypeOK
<1>3. Remote!Body.at = elapsed /\ Remote!Body.commit = response.commit
  BY DEF Remote!Body
<1>4. bodies \in Seq(Remote!BodyRecords)
  BY DEF Remote!RemoteTypeOK
<1> HIDE DEF Remote!Body, Remote!BodyRecords
<1> QED BY <1>2, <1>3, <1>4

LEMMA StepKeepsRemoteType ==
    ASSUME Remote!RemoteTypeOK, Remote!Next
    PROVE  Remote!RemoteTypeOK'
<1> USE DEF Remote!RemoteTypeOK, Remote!Asks
<1>0. Timeout \in Nat /\ request.kind \in DOMAIN Remote!Bodies
  BY CallsPossible DEF Remote!CallsArePossible
<1>1. CASE Remote!Begin
  <2>1. Remote!Patience(request.kind, elapsed) \in Nat
    BY <1>0, <1>1 DEF Remote!Begin, Remote!Patience
  <2>2. Len(bodies) = 0 /\ 1 <= Remote!Bodies[request.kind]
    BY <1>0, <1>1 DEF Remote!Begin, Remote!Bodies
  <2> QED BY <1>1, <2>1, <2>2 DEF Remote!Begin, Remote!Asking
<1>2. ASSUME Remote!Refuse PROVE Remote!RemoteTypeOK'
  BY <1>2 DEF Remote!Refuse
<1>3. CASE Remote!Pass
  BY <1>3 DEF Remote!Pass
<1>4. CASE Remote!Connected
  BY <1>4 DEF Remote!Connected
<1>5. CASE Remote!Headers
  BY <1>5 DEF Remote!Headers
<1>6. CASE Remote!Chunk
  BY <1>6 DEF Remote!Chunk
<1>7. CASE Remote!NextBody
  <2>1. Remote!Patience(request.kind, elapsed) \in Nat
    BY <1>0, <1>7 DEF Remote!NextBody, Remote!Patience, Remote!Late
  <2>2. bodies' = Append(bodies, Remote!Body) /\ bodies' \in Seq(Remote!BodyRecords)
        /\ Len(bodies') = Len(bodies) + 1
    BY <1>7, BodyIsRecord DEF Remote!NextBody
  <2>3. Len(bodies') + 1 <= Remote!Bodies[request.kind]
    BY <1>0, <1>7, <2>2 DEF Remote!NextBody, Remote!Nth, Remote!Bodies
  <2> QED BY <1>7, <2>1, <2>2, <2>3 DEF Remote!NextBody, Remote!Asking
<1>8. CASE Remote!Accept
  <2>1. bodies' \in Seq(Remote!BodyRecords) /\ bodies' # << >>
    BY <1>8, BodyIsRecord DEF Remote!Accept
  <2> QED BY <1>8, <2>1 DEF Remote!Accept
<1> QED BY <1>1, <1>2, <1>3, <1>4, <1>5, <1>6, <1>7, <1>8 DEF Remote!Next,
           Remote!RefuseCall, Remote!GiveUp, Remote!RefuseHeaders, Remote!RefuseChunk,
           Remote!RefuseBody

LEMMA StepKeepsStamp ==
    ASSUME Remote!RemoteTypeOK, Remote!StampedWhileAsking, Remote!StampIsOfCall, Remote!Next
    PROVE  Remote!StampedWhileAsking' /\ Remote!StampIsOfCall'
<1> USE DEF Remote!StampedWhileAsking, Remote!StampIsOfCall, Remote!Asks
<1>0. elapsed \in Nat /\ bodies \in Seq(Remote!BodyRecords)
  BY DEF Remote!RemoteTypeOK
<1>1. CASE Remote!Begin
  BY <1>1 DEF Remote!Begin, Remote!Asking, Remote!RemoteTypeOK
<1>2. ASSUME Remote!Refuse PROVE Remote!StampedWhileAsking' /\ Remote!StampIsOfCall'
  BY <1>2 DEF Remote!Refuse
<1>3. CASE Remote!Pass
  BY <1>0, <1>3 DEF Remote!Pass
<1>4. CASE Remote!Connected \/ Remote!Headers \/ Remote!Chunk
  BY <1>4 DEF Remote!Connected, Remote!Headers, Remote!Chunk
<1>5. ASSUME bodies' = Append(bodies, Remote!Body), progress = "body",
             request.kind \in Remote!StampedFirst
      PROVE  \A i \in DOMAIN bodies' : stamp <= bodies'[i].at
  <2>1. DOMAIN bodies = 1 .. Len(bodies) /\ DOMAIN bodies' = 1 .. Len(bodies')
        /\ Len(bodies') = Len(bodies) + 1 /\ Len(bodies) \in Nat
    BY <1>0, <1>5, BodyIsRecord
  <2> SUFFICES ASSUME NEW i \in DOMAIN bodies' PROVE stamp <= bodies'[i].at
    OBVIOUS
  <2>2. bodies'[i] = IF i = Len(bodies) + 1 THEN Remote!Body ELSE bodies[i]
    BY <1>5, BodyIsRecord
  <2>3. CASE i = Len(bodies) + 1
    BY <1>5, <2>2, <2>3, BodyIsRecord
  <2>4. CASE i # Len(bodies) + 1
    BY <1>5, <2>1, <2>2, <2>4
  <2> QED BY <2>3, <2>4
<1>6. CASE Remote!NextBody
  BY <1>5, <1>6 DEF Remote!NextBody, Remote!Asking
<1>7. CASE Remote!Accept
  <2>1. request' = request /\ elapsed' = elapsed /\ progress' = "accepted"
        /\ bodies' = Append(bodies, Remote!Body) /\ progress = "body"
        /\ stamp' = IF request.supplied THEN "supplied" ELSE IF stamp = None THEN elapsed ELSE stamp
    BY <1>7 DEF Remote!Accept
  <2>2. request.supplied => request.kind \notin Remote!StampsItself
    BY <2>1 DEF Remote!RemoteTypeOK, Remote!Admissible
  <2>3. ~request.supplied => stamp' \in 0 .. elapsed
    BY <1>0, <2>1, CallsPossible DEF Remote!CallsArePossible
  <2>4. request.kind \in Remote!StampedFirst /\ ~request.supplied => stamp' = stamp
    BY <2>1, CallsPossible DEF Remote!CallsArePossible
  <2> QED BY <1>5, <2>1, <2>2, <2>3, <2>4 DEF Remote!StampedFirst
<1> QED BY <1>1, <1>2, <1>3, <1>4, <1>6, <1>7 DEF Remote!Next, Remote!RefuseCall,
           Remote!GiveUp, Remote!RefuseHeaders, Remote!RefuseChunk, Remote!RefuseBody

LEMMA StepKeepsRevision ==
    ASSUME Remote!RemoteTypeOK, Remote!RevisionWhileAsking, Remote!Next
    PROVE  Remote!RevisionWhileAsking'
<1> USE DEF Remote!RevisionWhileAsking
<1>0. bodies \in Seq(Remote!BodyRecords)
  BY DEF Remote!RemoteTypeOK
<1>1. CASE Remote!Begin
  BY <1>1 DEF Remote!Begin, Remote!Asking
<1>2. ASSUME Remote!Refuse PROVE Remote!RevisionWhileAsking'
  BY <1>2 DEF Remote!Refuse
<1>3. CASE Remote!Pass \/ Remote!Connected \/ Remote!Chunk
  BY <1>3 DEF Remote!Pass, Remote!Connected, Remote!Chunk
<1>4. CASE Remote!Headers
  <2>1. request' = request /\ bodies' = bodies /\ Remote!Acceptable(request.kind, Remote!Nth, response')
    BY <1>4 DEF Remote!Headers
  <2>2. bodies # << >> => Remote!Nth > 1
    BY <1>0 DEF Remote!Nth
  <2> QED BY <2>1, <2>2 DEF Remote!Acceptable, Remote!OfPinnedCommit
<1>5. ASSUME bodies' = Append(bodies, Remote!Body), progress = "body", request' = request,
             progress' # "body", Remote!Continues(request.kind, Append(bodies, Remote!Body))
      PROVE  Remote!RevisionWhileAsking'
  <2> SUFFICES ASSUME request.kind = "arc", NEW i \in DOMAIN bodies'
               PROVE  IF i = 1 THEN bodies'[i].content = "pinned" ELSE bodies'[i].commit = "pinned"
    BY <1>5
  <2>1. bodies'[1].content = "pinned"
    BY <1>5 DEF Remote!Continues
  <2>2. bodies'[i] = IF i = Len(bodies) + 1 THEN Remote!Body ELSE bodies[i]
    BY <1>5, BodyIsRecord
  <2>3. i \in 1 .. Len(bodies) + 1 /\ Len(bodies) \in Nat /\ DOMAIN bodies = 1 .. Len(bodies)
    BY <1>0, <1>5, BodyIsRecord
  <2>4. CASE i = Len(bodies) + 1 /\ i # 1
    <3>1. bodies # << >>
      BY <1>0, <2>4
    <3> QED BY <1>5, <2>2, <2>4, <3>1, BodyIsRecord
  <2>5. CASE i # Len(bodies) + 1 /\ i # 1
    BY <2>2, <2>3, <2>5
  <2> QED BY <2>1, <2>4, <2>5
<1>6. CASE Remote!NextBody
  BY <1>5, <1>6 DEF Remote!NextBody, Remote!Asking, Remote!Keeps
<1>7. CASE Remote!Accept
  BY <1>5, <1>7 DEF Remote!Accept, Remote!Keeps
<1> QED BY <1>1, <1>2, <1>3, <1>4, <1>6, <1>7 DEF Remote!Next, Remote!RefuseCall,
           Remote!GiveUp, Remote!RefuseHeaders, Remote!RefuseChunk, Remote!RefuseBody

\* How long each kind of call waits for.
LEMMA PatienceIsLimited ==
    ASSUME Remote!RemoteTypeOK
    PROVE  /\ request.kind = "arc" => Remote!Patience(request.kind, elapsed) = Timeout - elapsed
           /\ request.kind # "arc" => Remote!Patience(request.kind, elapsed) = Timeout
           /\ Remote!Late(request.kind, elapsed) <=> request.kind = "arc" /\ elapsed >= Timeout
           /\ request.kind \in Remote!Lenient /\ elapsed > Timeout =>
                 Remote!LateAtChunk(request.kind, elapsed)
           /\ request.kind \in Remote!Lenient => Remote!Bodies[request.kind] = 1
           /\ "arc" \notin Remote!Lenient
           /\ Remote!Bodies[request.kind] \in Nat
           /\ Timeout \in Nat /\ ByteLimit \in Nat
           /\ elapsed \in Nat /\ waited \in Nat /\ patience \in Nat /\ received \in Nat
           /\ Len(bodies) \in Nat /\ waited <= patience /\ waited <= elapsed
BY CallsPossible DEF Remote!CallsArePossible, Remote!Patience, Remote!Strict,
   Remote!Late, Remote!LateAtChunk, Remote!Lenient, Remote!Bodies, Remote!RemoteTypeOK

LEMMA ArcIsInTime ==
    ASSUME Remote!RemoteTypeOK, Remote!InTimeWhileAsking, Remote!CallEndsInTime, Remote!Next,
           request.kind = "arc"
    PROVE  Remote!InTimeWhileAsking' /\ Remote!CallEndsInTime'
<1> USE PatienceIsLimited DEF Remote!Asks, Remote!Started
<1>0. /\ request' = request
      /\ Remote!InTimeWhileAsking' <=>
            /\ Remote!Asks' => patience' <= Timeout
            /\ progress' = "connect" => Remote!Started' + patience' <= Timeout
            /\ progress' = "headers" => Remote!Started' <= Timeout
            /\ progress' = "body" => Remote!Started' < Timeout
      /\ Remote!CallEndsInTime' <=>
            elapsed' <= 2 * Timeout /\ (progress' = "accepted" => elapsed' < Timeout)
  <2>1. request' = request
    BY DEF Remote!Next, Remote!Begin, Remote!RefuseCall, Remote!Pass, Remote!GiveUp,
       Remote!Connected, Remote!Headers, Remote!RefuseHeaders, Remote!Chunk,
       Remote!RefuseChunk, Remote!NextBody, Remote!Accept, Remote!RefuseBody,
       Remote!Refuse
  <2> QED BY <2>1 DEF Remote!InTimeWhileAsking, Remote!CallEndsInTime
<1>1. /\ Remote!Asks => patience <= Timeout
      /\ progress = "connect" => Remote!Started + patience <= Timeout
      /\ progress = "headers" => Remote!Started <= Timeout
      /\ progress = "body" => Remote!Started < Timeout
      /\ elapsed <= 2 * Timeout
      /\ progress = "begin" => elapsed = 0
  BY DEF Remote!InTimeWhileAsking, Remote!CallEndsInTime, Remote!RemoteTypeOK
<1>2. CASE Remote!Begin \/ Remote!NextBody
  BY <1>0, <1>1, <1>2 DEF Remote!Begin, Remote!NextBody, Remote!Asking, Remote!Keeps
<1>3. ASSUME Remote!Refuse PROVE Remote!InTimeWhileAsking' /\ Remote!CallEndsInTime'
  BY <1>0, <1>1, <1>3 DEF Remote!Refuse
<1>4. CASE Remote!Pass
  BY <1>0, <1>1, <1>4 DEF Remote!Pass
<1>5. CASE Remote!Connected \/ Remote!Headers
  BY <1>0, <1>1, <1>5 DEF Remote!Connected, Remote!Headers
<1>6. CASE Remote!Chunk
  BY <1>0, <1>1, <1>6 DEF Remote!Chunk, Remote!LateAtChunk
<1>7. CASE Remote!Accept
  BY <1>0, <1>1, <1>7 DEF Remote!Accept, Remote!Keeps
<1> QED BY <1>2, <1>3, <1>4, <1>5, <1>6, <1>7 DEF Remote!Next, Remote!RefuseCall,
           Remote!GiveUp, Remote!RefuseHeaders, Remote!RefuseChunk, Remote!RefuseBody

LEMMA LenientIsInTime ==
    ASSUME Remote!RemoteTypeOK, Remote!InTimeWhileAsking, Remote!CallEndsInTime, Remote!Next,
           request.kind \in Remote!Lenient
    PROVE  Remote!InTimeWhileAsking' /\ Remote!CallEndsInTime'
<1> USE PatienceIsLimited DEF Remote!Asks, Remote!Started
<1>0. /\ request' = request
      /\ Remote!InTimeWhileAsking' <=>
            /\ Remote!Asks' => patience' = Timeout
            /\ progress' = "connect" => Remote!Started' = 0
            /\ progress' = "headers" => Remote!Started' <= Timeout
            /\ progress' = "body" => Remote!Started' <= 2 * Timeout
      /\ Remote!CallEndsInTime' <=> elapsed' <= 3 * Timeout
  <2>1. request' = request
    BY DEF Remote!Next, Remote!Begin, Remote!RefuseCall, Remote!Pass, Remote!GiveUp,
       Remote!Connected, Remote!Headers, Remote!RefuseHeaders, Remote!Chunk,
       Remote!RefuseChunk, Remote!NextBody, Remote!Accept, Remote!RefuseBody,
       Remote!Refuse
  <2> QED BY <2>1 DEF Remote!InTimeWhileAsking, Remote!CallEndsInTime
<1>1. /\ Remote!Asks => patience = Timeout
      /\ progress = "connect" => Remote!Started = 0
      /\ progress = "headers" => Remote!Started <= Timeout
      /\ progress = "body" => Remote!Started <= 2 * Timeout
      /\ elapsed <= 3 * Timeout
      /\ progress = "begin" => elapsed = 0
  BY DEF Remote!InTimeWhileAsking, Remote!CallEndsInTime, Remote!RemoteTypeOK
<1>2. CASE Remote!Begin
  BY <1>0, <1>1, <1>2 DEF Remote!Begin, Remote!Asking
<1>3. ASSUME Remote!Refuse PROVE Remote!InTimeWhileAsking' /\ Remote!CallEndsInTime'
  BY <1>0, <1>1, <1>3 DEF Remote!Refuse
<1>4. CASE Remote!Pass
  BY <1>0, <1>1, <1>4 DEF Remote!Pass
<1>5. CASE Remote!Connected \/ Remote!Headers
  BY <1>0, <1>1, <1>5 DEF Remote!Connected, Remote!Headers
<1>6. CASE Remote!Chunk
  BY <1>0, <1>1, <1>6 DEF Remote!Chunk
<1>7. CASE Remote!Accept
  BY <1>0, <1>1, <1>7 DEF Remote!Accept
<1>8. ~Remote!NextBody
  BY DEF Remote!NextBody, Remote!Nth
<1> QED BY <1>2, <1>3, <1>4, <1>5, <1>6, <1>7, <1>8 DEF Remote!Next, Remote!RefuseCall,
           Remote!GiveUp, Remote!RefuseHeaders, Remote!RefuseChunk, Remote!RefuseBody

\* A call without a deadline waits once for a connection, once for the headers, and
\* once for each byte and the end of a body.
LEMMA OtherIsInTime ==
    ASSUME Remote!RemoteTypeOK, Remote!InTimeWhileAsking, Remote!CallEndsInTime, Remote!Next,
           request.kind # "arc", request.kind \notin Remote!Lenient
    PROVE  Remote!InTimeWhileAsking' /\ Remote!CallEndsInTime'
<1> DEFINE n == Len(bodies)
           m == Remote!Bodies[request.kind]
           Bytes == (received + 2) * Timeout
<1>0. /\ request' = request
      /\ Remote!InTimeWhileAsking' <=>
            /\ Remote!Asks' => patience' = Timeout
            /\ progress' = "connect" => elapsed' - waited' <= Len(bodies') * Remote!PerBody
            /\ progress' = "headers" => elapsed' - waited' <= Len(bodies') * Remote!PerBody + Timeout
            /\ progress' = "body" =>
                  /\ received' <= ByteLimit
                  /\ elapsed' - waited' <= Len(bodies') * Remote!PerBody + (received' + 2) * Timeout
      /\ Remote!CallEndsInTime' <=> elapsed' <= m * (ByteLimit + 3) * Timeout
  <2>1. request' = request
    BY DEF Remote!Next, Remote!Begin, Remote!RefuseCall, Remote!Pass, Remote!GiveUp,
       Remote!Connected, Remote!Headers, Remote!RefuseHeaders, Remote!Chunk,
       Remote!RefuseChunk, Remote!NextBody, Remote!Accept, Remote!RefuseBody,
       Remote!Refuse
  <2>2. Remote!InTimeWhileAsking' <=>
            /\ Remote!Asks' => patience' = Timeout
            /\ progress' = "connect" => elapsed' - waited' <= Len(bodies') * Remote!PerBody
            /\ progress' = "headers" => elapsed' - waited' <= Len(bodies') * Remote!PerBody + Timeout
            /\ progress' = "body" =>
                  /\ received' <= ByteLimit
                  /\ elapsed' - waited' <= Len(bodies') * Remote!PerBody + (received' + 2) * Timeout
    BY <2>1 DEF Remote!InTimeWhileAsking, Remote!Started, Remote!PerBody
  <2>3. Remote!CallEndsInTime' <=> elapsed' <= m * (ByteLimit + 3) * Timeout
    BY <2>1 DEF Remote!CallEndsInTime
  <2> QED BY <2>1, <2>2, <2>3
<1>1. /\ Remote!Asks => patience = Timeout
      /\ progress = "connect" => elapsed - waited <= n * Remote!PerBody
      /\ progress = "headers" => elapsed - waited <= n * Remote!PerBody + Timeout
      /\ progress = "body" =>
            /\ received <= ByteLimit
            /\ elapsed - waited <= n * Remote!PerBody + Bytes
      /\ elapsed <= m * (ByteLimit + 3) * Timeout
      /\ progress = "begin" => elapsed = 0
      /\ Remote!Asks => n + 1 <= m
  BY DEF Remote!InTimeWhileAsking, Remote!CallEndsInTime, Remote!RemoteTypeOK,
     Remote!Started
<1>2. /\ Timeout \in Nat /\ ByteLimit \in Nat /\ m \in Nat /\ n \in Nat
      /\ elapsed \in Nat /\ waited \in Nat /\ patience \in Nat /\ received \in Nat
      /\ waited <= patience /\ waited <= elapsed
  BY PatienceIsLimited
<1>3. /\ Remote!PerBody \in Nat /\ n * Remote!PerBody \in Nat /\ m * Remote!PerBody \in Nat
      /\ (n + 1) * Remote!PerBody = n * Remote!PerBody + Remote!PerBody
      /\ Remote!Asks => (n + 1) * Remote!PerBody <= m * Remote!PerBody
  <2>1. Remote!PerBody \in Nat
    BY <1>2, Products DEF Remote!PerBody
  <2>2. /\ n * Remote!PerBody \in Nat
        /\ (n + 1) * Remote!PerBody = n * Remote!PerBody + Remote!PerBody
    BY <1>2, <2>1, Products
  <2>3. m * Remote!PerBody \in Nat
    BY <1>2, <2>1, Products
  <2>4. n + 1 <= m => (n + 1) * Remote!PerBody <= m * Remote!PerBody
    <3>1. n + 1 \in Nat
      BY <1>2
    <3> QED BY <1>2, <2>1, <3>1, Products
  <2> QED BY <1>1, <2>1, <2>2, <2>3, <2>4
<1>4. m * (ByteLimit + 3) * Timeout = m * Remote!PerBody
  BY <1>2 DEF Remote!PerBody
<1>5. /\ Bytes \in Nat
      /\ (received + 1 + 2) * Timeout = Bytes + Timeout
      /\ received <= ByteLimit => Bytes + Timeout <= Remote!PerBody
      /\ Bytes >= 2 * Timeout
      /\ 2 * Timeout <= Remote!PerBody
  <2>1. received + 2 \in Nat /\ received + 3 \in Nat /\ ByteLimit + 3 \in Nat
    BY <1>2
  <2>2. (received + 2) * Timeout \in Nat
        /\ (received + 3) * Timeout = (received + 2) * Timeout + Timeout
    BY <1>2, <2>1, Products
  <2>3. received <= ByteLimit => (received + 3) * Timeout <= (ByteLimit + 3) * Timeout
    BY <1>2, <2>1, Products
  <2>4. 2 * Timeout <= (received + 2) * Timeout /\ 2 * Timeout <= (ByteLimit + 3) * Timeout
    BY <1>2, <2>1, Products
  <2> QED BY <1>2, <2>2, <2>3, <2>4 DEF Remote!PerBody
<1>6. Remote!Asks =>
         /\ waited <= Timeout
         /\ elapsed <= n * Remote!PerBody + Remote!PerBody
  <2> HIDE DEF n, m, Bytes
  <2> QED BY <1>1, <1>2, <1>3, <1>5 DEF Remote!Asks
<1>7. CASE Remote!Begin
  <2>1. bodies' = bodies /\ elapsed' = 0 /\ waited' = 0 /\ patience' = Timeout
        /\ progress' = "connect"
    BY <1>1, <1>7, PatienceIsLimited DEF Remote!Begin, Remote!Asking
  <2> QED BY <1>0, <1>2, <1>3, <1>4, <2>1
<1>8. ASSUME Remote!Refuse PROVE Remote!InTimeWhileAsking' /\ Remote!CallEndsInTime'
  BY <1>0, <1>1, <1>8 DEF Remote!Refuse, Remote!Asks
<1>9. CASE Remote!Pass
  <2>1. /\ UNCHANGED <<progress, patience, bodies, received>> /\ Remote!Asks /\ Remote!Asks'
        /\ elapsed' = elapsed + 1 /\ waited' = waited + 1 /\ waited < patience
    BY <1>9 DEF Remote!Pass, Remote!Asks
  <2>2. elapsed' - waited' = elapsed - waited
    BY <1>2, <2>1
  <2>3. Remote!InTimeWhileAsking'
    BY <1>0, <1>1, <2>1, <2>2
  <2>4. elapsed' <= m * Remote!PerBody
    <3> HIDE DEF n, m, Bytes
    <3> QED BY <1>1, <1>2, <1>3, <1>5, <2>1 DEF Remote!Asks
  <2> QED BY <1>0, <1>4, <2>3, <2>4
<1>10. CASE Remote!Connected \/ Remote!Headers
  <2>1. /\ UNCHANGED <<elapsed, patience, bodies, received>> /\ Remote!Asks /\ waited' = 0
        /\ \/ progress = "connect" /\ progress' = "headers"
           \/ progress = "headers" /\ progress' = "body"
    BY <1>10 DEF Remote!Connected, Remote!Headers, Remote!Asks
  <2>2. /\ progress = "connect" => elapsed <= n * Remote!PerBody + Timeout
        /\ progress = "headers" => elapsed <= n * Remote!PerBody + Bytes
        /\ received <= ByteLimit
    <3>1. received = 0
      BY <2>1 DEF Remote!RemoteTypeOK
    <3> HIDE DEF n, m, Bytes
    <3> QED BY <1>1, <1>2, <1>3, <1>5, <1>6, <2>1, <3>1
  <2> QED BY <1>0, <1>1, <1>2, <2>1, <2>2 DEF Remote!Asks
<1>11. CASE Remote!Chunk
  <2>1. /\ UNCHANGED <<elapsed, patience, bodies, progress>> /\ Remote!Asks /\ waited' = 0
        /\ progress = "body" /\ received' = received + 1 /\ received + 1 <= ByteLimit
    BY <1>2, <1>11 DEF Remote!Chunk, Remote!Asks, Remote!Consumed, Remote!Decoded
  <2>2. elapsed <= n * Remote!PerBody + (Bytes + Timeout)
    <3> HIDE DEF n, m, Bytes
    <3> QED BY <1>1, <1>2, <1>3, <1>5, <1>6, <2>1
  <2> QED BY <1>0, <1>1, <1>2, <1>5, <2>1, <2>2 DEF Remote!Asks
<1>12. CASE Remote!NextBody
  <2>1. /\ UNCHANGED elapsed /\ Remote!Asks /\ waited' = 0 /\ progress' = "connect"
        /\ Len(bodies') = n + 1 /\ patience' = Timeout
    BY <1>12, BodyIsRecord, PatienceIsLimited DEF Remote!NextBody, Remote!Asking,
       Remote!Asks
  <2> QED BY <1>0, <1>1, <1>2, <1>3, <1>6, <2>1
<1>13. CASE Remote!Accept
  BY <1>0, <1>1, <1>13 DEF Remote!Accept, Remote!Asks
<1> QED BY <1>7, <1>8, <1>9, <1>10, <1>11, <1>12, <1>13 DEF Remote!Next,
           Remote!RefuseCall, Remote!GiveUp, Remote!RefuseHeaders, Remote!RefuseChunk,
           Remote!RefuseBody

\* A body that ends as it should is whole if it passes for that, and within its limit.
LEMMA BodyIsBounded ==
    ASSUME Remote!RemoteTypeOK, Remote!WholeWhileReading, progress = "body",
           response.declared \in {None, received}
    PROVE  /\ Remote!Body.told \/ Remote!Body.content # "part" => Remote!Body.whole
           /\ Remote!Body.size <= ByteLimit
<1>1. /\ received \in Nat /\ response \in Answers /\ received <= response.size
      /\ Remote!Decoded(request.kind, response, received) <= ByteLimit
  BY DEF Remote!RemoteTypeOK, Remote!WholeWhileReading, Remote!Consumed
<1>2. /\ response.size \in Nat
      /\ response.declared # None => response.declared \in Nat /\ response.size <= response.declared
  BY <1>1, CallsPossible DEF Remote!CallsArePossible
<1>3. response.declared # None => received = response.size
  BY <1>1, <1>2
<1>4. Remote!Content(response, received) # "part" => received = response.size
  BY DEF Remote!Content
<1> QED BY <1>1, <1>3, <1>4 DEF Remote!Body

\* What is read of a body, and of all of them together, stays within the limits.
LEMMA StepKeepsWhole ==
    ASSUME Remote!RemoteTypeOK, Remote!WholeWhileReading, Remote!BodyIsWhole, Remote!Next
    PROVE  Remote!WholeWhileReading' /\ Remote!BodyIsWhole'
<1> USE DEF Remote!WholeWhileReading, Remote!BodyIsWhole
<1>0. bodies \in Seq(Remote!BodyRecords) /\ ByteLimit \in Nat
  BY CallsPossible DEF Remote!RemoteTypeOK, Remote!CallsArePossible
<1>1. CASE Remote!Begin
  <2>1. bodies = << >> /\ bodies' = bodies /\ progress' = "connect" /\ request' = request
    BY <1>1 DEF Remote!Begin, Remote!Asking, Remote!RemoteTypeOK
  <2> QED BY <2>1
<1>2. ASSUME Remote!Refuse PROVE Remote!WholeWhileReading' /\ Remote!BodyIsWhole'
  BY <1>2 DEF Remote!Refuse
<1>3. CASE Remote!Pass \/ Remote!Connected
  BY <1>3 DEF Remote!Pass, Remote!Connected
<1>4. CASE Remote!Headers
  <2>1. /\ request' = request /\ bodies' = bodies /\ progress' = "body" /\ received' = 0
        /\ response' \in Answers
    BY <1>4 DEF Remote!Headers, Remote!RemoteTypeOK
  <2>2. response'.size \in Nat
    BY <2>1, CallsPossible DEF Remote!CallsArePossible
  <2>3. Remote!Consumed(request'.kind, response', received') = 0
    BY <2>1 DEF Remote!Consumed, Remote!Decoded
  <2> QED BY <1>0, <2>1, <2>2, <2>3
<1>5. CASE Remote!Chunk
  <2>1. /\ request' = request /\ bodies' = bodies /\ progress' = progress /\ response' = response
        /\ received' = received + 1 /\ received < response.size /\ progress = "body"
        /\ Remote!Consumed(request.kind, response, received + 1) <= ByteLimit
    BY <1>5 DEF Remote!Chunk
  <2>2. received \in Nat /\ response.size \in Nat
    BY <2>1, CallsPossible DEF Remote!CallsArePossible, Remote!RemoteTypeOK
  <2>3. received' <= response'.size
    BY <2>1, <2>2
  <2> QED BY <2>1, <2>3
<1>6. ASSUME progress = "body", Remote!Keeps(Append(bodies, Remote!Body)), request' = request,
             bodies' = Append(bodies, Remote!Body)
      PROVE  /\ \A i \in DOMAIN bodies' :
                   /\ bodies'[i].told \/ bodies'[i].content # "part" => bodies'[i].whole
                   /\ bodies'[i].size <= ByteLimit
             /\ request'.kind = "arc" => Remote!TotalOf(Tail(bodies')) <= TotalLimit
  <2>1. response.declared \in {None, received} /\ Remote!Continues(request.kind, bodies')
    BY <1>6 DEF Remote!Keeps
  <2>2. ASSUME NEW i \in DOMAIN bodies'
        PROVE  /\ bodies'[i].told \/ bodies'[i].content # "part" => bodies'[i].whole
               /\ bodies'[i].size <= ByteLimit
    <3>1. bodies'[i] = IF i = Len(bodies) + 1 THEN Remote!Body ELSE bodies[i]
      BY <1>6, BodyIsRecord
    <3>2. i # Len(bodies) + 1 => i \in DOMAIN bodies
      BY <1>0, <1>6, BodyIsRecord
    <3> QED BY <1>6, <2>1, <3>1, <3>2, BodyIsBounded
  <2> QED BY <1>6, <2>1, <2>2 DEF Remote!Continues
<1>7. CASE Remote!NextBody
  <2>1. /\ progress = "body" /\ Remote!Keeps(Append(bodies, Remote!Body)) /\ request' = request
        /\ bodies' = Append(bodies, Remote!Body) /\ progress' = "connect"
    BY <1>7 DEF Remote!NextBody, Remote!Asking
  <2> QED BY <1>6, <2>1
<1>8. CASE Remote!Accept
  <2>1. /\ progress = "body" /\ Remote!Keeps(Append(bodies, Remote!Body)) /\ request' = request
        /\ bodies' = Append(bodies, Remote!Body) /\ progress' = "accepted"
        /\ Remote!DigestAgrees(request, bodies')
    BY <1>8 DEF Remote!Accept
  <2>2. Remote!Expected(request) # "part"
    BY CallsPossible DEF Remote!CallsArePossible, Remote!RemoteTypeOK, Remote!Expected
  <2>3. Remote!Expected(request) # None => \A i \in DOMAIN bodies' : bodies'[i].content # "part"
    BY <2>1, <2>2 DEF Remote!DigestAgrees
  <2>4. Remote!Expected(request)' = Remote!Expected(request)
    BY <2>1
  <2> QED BY <1>6, <2>1, <2>3, <2>4
<1> QED BY <1>1, <1>2, <1>3, <1>4, <1>5, <1>7, <1>8 DEF Remote!Next, Remote!RefuseCall,
           Remote!GiveUp, Remote!RefuseHeaders, Remote!RefuseChunk, Remote!RefuseBody

LEMMA StepKeepsRemoteInv ==
    Remote!RemoteInv /\ [Remote!Next]_remoteVars => Remote!RemoteInv'
<1>1. ASSUME Remote!RemoteInv, Remote!Next PROVE Remote!RemoteInv'
  <2>1. Remote!RemoteTypeOK' /\ Remote!RevisionWhileAsking'
        /\ Remote!StampedWhileAsking' /\ Remote!StampIsOfCall'
    BY <1>1, StepKeepsRemoteType, StepKeepsRevision, StepKeepsStamp DEF Remote!RemoteInv
  <2>2. Remote!InTimeWhileAsking' /\ Remote!CallEndsInTime'
    BY <1>1, ArcIsInTime, LenientIsInTime, OtherIsInTime DEF Remote!RemoteInv
  <2>3. Remote!WholeWhileReading' /\ Remote!BodyIsWhole'
    BY <1>1, StepKeepsWhole DEF Remote!RemoteInv
  <2> QED BY <2>1, <2>2, <2>3 DEF Remote!RemoteInv
<1>2. ASSUME Remote!RemoteInv, UNCHANGED remoteVars PROVE Remote!RemoteInv'
  BY <1>2 DEF remoteVars, Remote!RemoteInv, Remote!RemoteTypeOK, Remote!Asks,
     Remote!WholeWhileReading, Remote!BodyIsWhole,
     Remote!StampedWhileAsking, Remote!StampIsOfCall, Remote!RevisionWhileAsking,
     Remote!InTimeWhileAsking, Remote!Started, Remote!CallEndsInTime
<1> QED BY <1>1, <1>2 DEF Remote!remoteVars, remoteVars

\* Prices are taken from the official address only, whoever takes them.
LEMMA RemoteInvIsEarned == Remote!RemoteInv => Remote!LabelIsEarned
<1> SUFFICES ASSUME Remote!RemoteInv, progress = "accepted",
                    request.kind \in Remote!Capturing, Remote!Official(request, bodies)
             PROVE  Remote!LabelIsEarned
  BY DEF Remote!LabelIsEarned
<1>1. CASE request.kind = "arc"
  <2>1. bodies \in Seq(Remote!BodyRecords) /\ bodies # << >> /\ Remote!RevisionWhileAsking
    BY DEF Remote!RemoteInv, Remote!RemoteTypeOK
  <2>2. \A i \in 2 .. Len(bodies) : bodies[i].commit = "pinned"
    BY <1>1, <2>1 DEF Remote!RevisionWhileAsking
  <2> QED BY <1>1, <2>1, <2>2 DEF Remote!RevisionWhileAsking, Remote!LabelIsEarned
<1>2. CASE request.kind = "prices"
  BY <1>2 DEF Remote!RemoteInv, Remote!RemoteTypeOK, Remote!Asks, Remote!Admissible,
     Remote!Reachable, Remote!LabelIsEarned, Remote!Official
<1>3. CASE request.kind \notin {"arc", "prices"}
  BY <1>3 DEF Remote!LabelIsEarned, Remote!Official
<1> QED BY <1>1, <1>2, <1>3

----------------------------------------------------------------------------
\* Prices of runs.

\* As many values as entries, if no two entries have the same.
LEMMA OneValueAnEntry ==
    ASSUME NEW S, NEW list \in Seq(S), NEW f \in [DOMAIN list -> S],
           \A i, j \in DOMAIN list : f[i] = f[j] => i = j
    PROVE  Price!Cardinality({f[i] : i \in DOMAIN list}) = Len(list)
<1> DEFINE T == {f[i] : i \in DOMAIN list}
<1>1. Len(list) \in Nat /\ DOMAIN list = 1 .. Len(list)
  OBVIOUS
<1>2. f \in [1 .. Len(list) -> T]
  BY <1>1
<1>3. f \in Bijection(1 .. Len(list), T)
  <2>1. \A i, j \in 1 .. Len(list) : f[i] = f[j] => i = j
    BY <1>1
  <2>2. \A t \in T : \E i \in 1 .. Len(list) : f[i] = t
    BY <1>1
  <2> HIDE DEF T
  <2> QED BY <1>2, <2>1, <2>2, Fun_IsBij
<1>4. Cardinality(T) = Len(list)
  <2>1. ExistsBijection(1 .. Len(list), T)
    BY <1>3 DEF ExistsBijection
  <2> HIDE DEF T
  <2> QED BY <1>1, <2>1, FS_CountingElements
<1> QED BY <1>4 DEF Price!Cardinality, Cardinality

\* What was appended is one more projection.
LEMMA OneMoreIsMade ==
    ASSUME made \in Seq(Price!Made), NEW p, made' = Append(made, p)
    PROVE  made' \in Seq(Price!Made') /\ Price!Made' = Price!Made \cup {p}
<1> DEFINE S == Price!Made \cup {p}
<1>1. made \in Seq(S)
  BY SeqMonotonic
<1>2. /\ made' \in Seq(S) /\ DOMAIN made' = 1 .. Len(made) + 1
      /\ \A i \in 1 .. Len(made) : made'[i] = made[i]
      /\ made'[Len(made) + 1] = p
      /\ DOMAIN made = 1 .. Len(made) /\ Len(made) \in Nat
  <2>1. p \in S
    OBVIOUS
  <2> HIDE DEF S
  <2> QED BY <1>1, <2>1, AppendProperties
<1>3. Price!Made = {made[i] : i \in DOMAIN made} /\ Price!Made' = {made'[i] : i \in DOMAIN made'}
  BY DEF Price!Made, Price!ToSet
<1>4. Price!Made' = Price!Made \cup {p}
  <2>1. ASSUME NEW r \in Price!Made' PROVE r \in Price!Made \cup {p}
    <3>1. PICK i \in 1 .. Len(made) + 1 : r = made'[i]
      BY <1>2, <1>3
    <3>2. CASE i = Len(made) + 1
      BY <1>2, <3>1, <3>2
    <3>3. CASE i # Len(made) + 1
      BY <1>2, <1>3, <3>1, <3>3
    <3> QED BY <3>2, <3>3
  <2>2. ASSUME NEW r \in Price!Made PROVE r \in Price!Made'
    <3>1. PICK i \in 1 .. Len(made) : r = made[i]
      BY <1>2, <1>3
    <3>2. r = made'[i] /\ i \in DOMAIN made'
      BY <1>2, <3>1
    <3> QED BY <1>3, <3>2
  <2>3. p \in Price!Made'
    BY <1>2, <1>3
  <2> QED BY <2>1, <2>2, <2>3
<1> QED BY <1>2, <1>4

LEMMA InitIsPriceInv == Price!Init => Price!PriceInv
<1> SUFFICES ASSUME Price!Init PROVE Price!PriceInv
  OBVIOUS
<1>1. Price!Made = {}
  BY DEF Price!Made, Price!ToSet, Price!Init
<1> QED BY <1>1 DEF Price!Init, Price!PriceInv

LEMMA StepKeepsPriceInv ==
    Price!PriceInv /\ [Price!Next]_priceVars => Price!PriceInv'
<1> SUFFICES ASSUME Price!PriceInv, [Price!Next]_priceVars PROVE Price!PriceInv'
  OBVIOUS
<1>0. /\ hour \in Nat /\ made \in Seq(Price!Made) /\ \A p \in Price!Made : Price!MadeOf(p)
      /\ loaded # Missing => loaded.retrieved \in Nat
  BY DEF Price!PriceInv
<1>1. made' = made => Price!Made' = Price!Made
  BY DEF Price!Made
<1>2. CASE Price!Pass \/ UNCHANGED priceVars
  <2>1. made' = made /\ loaded' = loaded /\ hour' \in Nat
    BY <1>0, <1>2 DEF Price!Pass, priceVars
  <2> QED BY <1>0, <1>1, <2>1 DEF Price!PriceInv
<1>3. ASSUME NEW how \in Acquisitions, NEW prices \in PriceLists,
             Price!Load(how, prices) \/ Price!RefuseLoad(how, prices)
      PROVE  Price!PriceInv'
  <2>1. made' = made /\ hour' = hour
    BY <1>3 DEF Price!Load, Price!RefuseLoad
  <2>2. loaded' # Missing => loaded'.retrieved \in Nat
    <3>1. CASE Price!RefuseLoad(how, prices)
      BY <1>0, <3>1 DEF Price!RefuseLoad
    <3>2. CASE Price!Load(how, prices)
      <4>1. Price!CanLoad(how, prices) /\ loaded' = Price!LoadedPrices(how, prices, hour)
        BY <3>2 DEF Price!Load
      <4>2. ~how.remote => how.claimed \in Nat
        BY <4>1, PricesPossible DEF Price!PricesArePossible, Price!CanLoad
      <4>3. loaded'.retrieved = IF how.remote THEN hour ELSE how.claimed
        BY <4>1 DEF Price!LoadedPrices
      <4> QED BY <1>0, <4>2, <4>3
    <3> QED BY <1>3, <3>1, <3>2
  <2> QED BY <1>0, <1>1, <2>1, <2>2 DEF Price!PriceInv
<1>4. ASSUME NEW board \in Boards, NEW review \in Bindings, Price!Project(board, review)
      PROVE  Price!PriceInv'
  <2> DEFINE p == Price!Projection(board, loaded, review)
  <2>1. /\ loaded # Missing /\ Price!CanProject(board, loaded, review)
        /\ made' = Append(made, p) /\ loaded' = Missing /\ hour' = hour
    BY <1>4 DEF Price!Project
  <2>2. p.capture = board /\ p.load = loaded /\ p.review = review
    BY DEF Price!Projection
  <2>3. Price!MadeOf(p)
    BY <1>0, <2>1, <2>2 DEF Price!MadeOf
  <2>4. made' \in Seq(Price!Made') /\ Price!Made' = Price!Made \cup {p}
    <3> HIDE DEF p
    <3> QED BY <1>0, <2>1, OneMoreIsMade
  <2> HIDE DEF p
  <2>5. \A r \in Price!Made' : Price!MadeOf(r)
    BY <1>0, <2>3, <2>4
  <2> QED BY <1>0, <2>1, <2>4, <2>5 DEF Price!PriceInv
<1>5. ASSUME NEW board \in Boards, NEW review \in Bindings, Price!Refuse(board, review)
      PROVE  Price!PriceInv'
  <2>1. made' = made /\ loaded' = Missing /\ hour' = hour
    BY <1>5 DEF Price!Refuse
  <2> QED BY <1>0, <1>1, <2>1 DEF Price!PriceInv
<1> QED BY <1>2, <1>3, <1>4, <1>5 DEF Price!Next

LEMMA PriceInvExpires == Price!PriceInv => Price!StalePricesExpire
<1> SUFFICES ASSUME Price!PriceInv, NEW p \in Price!Made, NEW o \in p.offerings
             PROVE  /\ hour - p.load.retrieved > p.review.maxAge => ~Price!Eligible(p, o, hour)
                    /\ o.source.license = "MIT" => p.load.official
  BY DEF Price!StalePricesExpire
<1> DEFINE selected == Price!SelectedPrices(p.load.prices, p.review)
           source == Price!PricingSource(p.load, selected)
<1>1. p = Price!Projection(p.capture, p.load, p.review) /\ hour \in Nat /\ p.load.retrieved \in Nat
      /\ p.review.maxAge \in Nat
  BY PricesPossible DEF Price!PriceInv, Price!MadeOf, Price!PricesArePossible
<1>2. /\ p.limits = << source.id, p.review.maxAge >>
      /\ p.offerings = {Price!Offering(p.capture, p.load, p.review, e) : e \in Price!EntriesOf(p.review)}
  BY <1>1 DEF Price!Projection
<1>3. o.source = source /\ o.observed = p.load.retrieved
  BY <1>2 DEF Price!Offering, Price!PriceSignalSource
<1>4. source.license = IF p.load.official THEN "MIT" ELSE "NOASSERTION"
  BY DEF Price!PricingSource
<1> HIDE DEF source
<1> QED BY <1>1, <1>2, <1>3, <1>4 DEF Price!Eligible

LEMMA PriceInvIsReviewed == Price!PriceInv => Price!PricedAsReviewed
<1> SUFFICES ASSUME Price!PriceInv, NEW p \in Price!Made
             PROVE  /\ \A e \in Price!EntriesOf(p.review) :
                           LET row == p.capture.rows[e.run]
                           IN  /\ row # Missing
                               /\ row.model = e.model /\ row.effort = e.effort
                               /\ row.command = e.command
                               /\ p.load.prices[e.route].shape = "flat"
                    /\ Price!Cardinality(p.offerings) = Len(p.review.entries)
                    /\ Price!Cardinality({o.route : o \in p.offerings}) = Len(p.review.entries)
  BY DEF Price!PricedAsReviewed
<1> DEFINE list == p.review.entries
           O(e) == Price!Offering(p.capture, p.load, p.review, e)
<1>1. /\ p = Price!Projection(p.capture, p.load, p.review)
      /\ Price!CanProject(p.capture, p.load, p.review)
      /\ list \in Seq(Price!EntriesOf(p.review))
  BY PricesPossible DEF Price!PriceInv, Price!MadeOf, Price!PricesArePossible
<1>2. p.offerings = {O(e) : e \in Price!EntriesOf(p.review)}
  BY <1>1 DEF Price!Projection
<1>3. /\ \A e \in Price!EntriesOf(p.review) : Price!EntryHolds(p.capture.rows, p.load.prices, e)
      /\ \A i, j \in DOMAIN list : i # j =>
            /\ list[i].run # list[j].run
            /\ Price!RouteOf(list[i]) # Price!RouteOf(list[j])
  BY <1>1 DEF Price!CanProject, Price!MappingsAreUnique
<1>4. \A e : O(e).id = << e.run, e.route >> /\ O(e).route = Price!RouteOf(e)
  BY DEF Price!Offering
<1> HIDE DEF O
<1>5. Price!EntriesOf(p.review) = {list[i] : i \in DOMAIN list}
  BY DEF Price!EntriesOf, Price!ToSet
<1>6. Price!Cardinality(p.offerings) = Len(list)
  <2> DEFINE f == [i \in DOMAIN list |-> O(list[i])]
             S == p.offerings \cup Price!EntriesOf(p.review)
  <2>1. list \in Seq(S)
    BY <1>1, SeqMonotonic
  <2>2. f \in [DOMAIN list -> S]
    BY <1>2, <1>5
  <2>3. \A i, j \in DOMAIN list : f[i] = f[j] => i = j
    BY <1>3, <1>4
  <2>4. {f[i] : i \in DOMAIN list} = p.offerings
    BY <1>2, <1>5
  <2> HIDE DEF f, S
  <2> QED BY <2>1, <2>2, <2>3, <2>4, OneValueAnEntry
<1>7. Price!Cardinality({o.route : o \in p.offerings}) = Len(list)
  <2> DEFINE f == [i \in DOMAIN list |-> Price!RouteOf(list[i])]
             Routes == {o.route : o \in p.offerings}
             S == Routes \cup Price!EntriesOf(p.review)
  <2>1. \A i \in DOMAIN list : O(list[i]) \in p.offerings /\ O(list[i]).route = f[i]
    BY <1>2, <1>4, <1>5
  <2>2. f \in [DOMAIN list -> S]
    BY <2>1
  <2>3. \A i, j \in DOMAIN list : f[i] = f[j] => i = j
    BY <1>3
  <2>4. \A r \in Routes : \E i \in DOMAIN list : r = f[i]
    BY <1>2, <1>4, <1>5
  <2>5. \A i \in DOMAIN list : f[i] \in Routes
    BY <2>1
  <2>6. list \in Seq(S)
    BY <1>1, SeqMonotonic
  <2> HIDE DEF f, S, Routes
  <2>7. {f[i] : i \in DOMAIN list} = Routes
    BY <2>4, <2>5
  <2>8. Price!Cardinality(Routes) = Len(list)
    BY <2>2, <2>3, <2>6, <2>7, OneValueAnEntry
  <2> QED BY <2>8 DEF Routes
<1> QED BY <1>3, <1>6, <1>7 DEF Price!EntryHolds, Price!RunIsAsReviewed,
           Price!SelectPrice

(***************************************************************************)
(* A selection of prices says of each mapped route what its rates are.     *)
(***************************************************************************)
LEMMA SelectionSaysRates ==
    ASSUME NEW review, NEW one, NEW other, NEW e \in Price!EntriesOf(review),
           Price!SelectedPrices(one, review) = Price!SelectedPrices(other, review)
    PROVE  /\ Price!RatesOf(one[e.route]) = Price!RatesOf(other[e.route])
           /\ one[e.route].status = other[e.route].status
           /\ one[e.route].efforts = other[e.route].efforts
<1>1. PICK f \in Price!EntriesOf(review) :
          Price!SelectedRecord(e.route, one[e.route]) = Price!SelectedRecord(f.route, other[f.route])
  BY DEF Price!SelectedPrices
<1> QED BY <1>1 DEF Price!SelectedRecord, Price!RatesOf

LEMMA PriceInvIdentifies == Price!PriceInv => Price!VersionIdentifiesEvidence
<1> SUFFICES ASSUME Price!PriceInv, NEW p \in Price!Made, NEW r \in Price!Made,
                    p.version = r.version
             PROVE  Price!Evidence(p) = Price!Evidence(r)
  BY DEF Price!VersionIdentifiesEvidence
<1> DEFINE Chosen(v) == Price!SelectedPrices(v.load.prices, v.review)
           SourceAt(v) == Price!PricingSource(v.load, Chosen(v))
           O(v, e) == Price!Offering(v.capture, v.load, v.review, e)
           Seen(o) == [id |-> o.id, cost |-> Price!RunCost(o), rates |-> o.rates,
                       status |-> o.status,
                       perSolved |-> IF Price!HasCostPerSolved(o)
                                     THEN << Price!RunCost(o), o.solved >> ELSE None,
                       attempted |-> o.attempted, quality |-> o.quality, route |-> o.route,
                       source |-> Price!SemanticDigest(o.source)]
<1>1. ASSUME NEW v \in Price!Made
      PROVE  /\ v = Price!Projection(v.capture, v.load, v.review)
             /\ v.capture \in Boards
  BY DEF Price!PriceInv, Price!MadeOf
<1>2. ASSUME NEW v \in Price!Made
      PROVE  /\ v.version = << v.capture.version, Chosen(v), Price!SemanticDigest(SourceAt(v)), v.review >>
             /\ v.offerings = {O(v, e) : e \in Price!EntriesOf(v.review)}
  BY <1>1 DEF Price!Projection, Price!WorkloadVersion
<1>3. /\ p.capture = r.capture /\ p.review = r.review /\ Chosen(p) = Chosen(r)
      /\ Price!SemanticDigest(SourceAt(p)) = Price!SemanticDigest(SourceAt(r))
  BY <1>1, <1>2, PricesPossible DEF Price!PricesArePossible
<1>4. ASSUME NEW v \in Price!Made
      PROVE  Price!Evidence(v) = {Seen(O(v, e)) : e \in Price!EntriesOf(v.review)}
  <2>1. Price!Evidence(v) = {Seen(o) : o \in v.offerings}
    BY DEF Price!Evidence
  <2> HIDE DEF Seen, O
  <2> QED BY <1>2, <2>1
<1>5. ASSUME NEW e \in Price!EntriesOf(p.review) PROVE Seen(O(p, e)) = Seen(O(r, e))
  <2>1. /\ Price!RatesOf(p.load.prices[e.route]) = Price!RatesOf(r.load.prices[e.route])
        /\ p.load.prices[e.route].status = r.load.prices[e.route].status
    BY <1>3, SelectionSaysRates
  <2>2. /\ O(p, e).id = O(r, e).id /\ O(p, e).route = O(r, e).route
        /\ O(p, e).prompt = O(r, e).prompt /\ O(p, e).completion = O(r, e).completion
        /\ O(p, e).attempted = O(r, e).attempted /\ O(p, e).solved = O(r, e).solved
        /\ O(p, e).quality = O(r, e).quality
        /\ O(p, e).rates = O(r, e).rates /\ O(p, e).status = O(r, e).status
    BY <1>3, <2>1 DEF Price!Offering
  <2>3. O(p, e).source = SourceAt(p) /\ O(r, e).source = SourceAt(r)
    BY DEF Price!Offering, Price!PriceSignalSource
  <2> HIDE DEF O, SourceAt
  <2> QED BY <1>3, <2>2, <2>3 DEF Price!RunCost, Price!HasCostPerSolved
<1> HIDE DEF Seen, O, SourceAt, Chosen
<1> QED BY <1>3, <1>4, <1>5

LEMMA PriceInvKeepsVersion == Price!PriceInv => Price!UnusedPricesKeepVersion
<1> SUFFICES ASSUME Price!PriceInv, NEW p \in Price!Made, NEW r \in Price!Made,
                    p.capture = r.capture, p.review = r.review,
                    p.load.official = r.load.official, p.load.url = r.load.url,
                    \A e \in Price!EntriesOf(p.review) :
                       LET one == p.load.prices[e.route]  other == r.load.prices[e.route]
                       IN  /\ Price!RatesOf(one) = Price!RatesOf(other)
                           /\ one.status = other.status /\ one.efforts = other.efforts
             PROVE  p.version = r.version
  BY DEF Price!UnusedPricesKeepVersion
<1> DEFINE Chosen(v) == Price!SelectedPrices(v.load.prices, v.review)
           SourceAt(v) == Price!PricingSource(v.load, Chosen(v))
<1>1. ASSUME NEW v \in Price!Made
      PROVE  v.version = << v.capture.version, Chosen(v), Price!SemanticDigest(SourceAt(v)), v.review >>
  <2>1. v = Price!Projection(v.capture, v.load, v.review)
    BY DEF Price!PriceInv, Price!MadeOf
  <2> QED BY <2>1 DEF Price!Projection, Price!WorkloadVersion
<1>2. \A e \in Price!EntriesOf(p.review) :
          Price!SelectedRecord(e.route, p.load.prices[e.route]) =
              Price!SelectedRecord(e.route, r.load.prices[e.route])
  BY DEF Price!SelectedRecord, Price!RatesOf
<1>3. Chosen(p) = Chosen(r)
  BY <1>2 DEF Price!SelectedPrices
<1>4. Price!SemanticDigest(SourceAt(p)) = Price!SemanticDigest(SourceAt(r))
  BY <1>3 DEF Price!SemanticDigest, Price!PricingSource
<1> HIDE DEF Chosen, SourceAt
<1> QED BY <1>1, <1>3, <1>4

----------------------------------------------------------------------------
\* Imports of evidence.

\* What it takes for a row to be mapped.
LEMMA MappedRowIsReviewed ==
    ASSUME NEW e, NEW es, NEW scope,
           NEW r \in DOMAIN Import!Reconcile(e, es, scope).mapped
    PROVE  /\ r \in DOMAIN e.rows /\ r \in DOMAIN es
           /\ ~Import!Drifted(e, es[r], e.rows[r])
           /\ e.rows[r].result # Invalid
           /\ e.rows[r].subject.kind = "single"
           /\ e.rows[r].subject.route # "alias"
           /\ e.rows[r].subject.route = "unknown" => es[r].relationship = "projection"
           /\ r \notin Import!DuplicateTargets(es)
           /\ Import!Permits(e.rights, scope)
           /\ Import!Reconcile(e, es, scope).mapped[r] = Import!MappedRow(e, es, r)
<1> DEFINE ids == DOMAIN e.rows \cup DOMAIN es
           outcomes == [i \in ids |-> Import!Outcome(e, es, scope, i)]
           mapped == [i \in {j \in ids : outcomes[j] = "mapped"} |-> Import!MappedRow(e, es, i)]
<1>1. Import!Reconcile(e, es, scope).mapped = mapped
  BY DEF Import!Reconcile
<1>2. r \in ids /\ Import!Outcome(e, es, scope, r) = "mapped"
      /\ mapped[r] = Import!MappedRow(e, es, r)
  BY <1>1
<1> HIDE DEF mapped, outcomes, ids
<1>3. r \in DOMAIN e.rows
  BY <1>2 DEF Import!Outcome
<1>4. r \in DOMAIN es /\ ~Import!Drifted(e, es[r], e.rows[r])
  BY <1>2, <1>3 DEF Import!Outcome
<1>5. /\ e.rows[r].result # Invalid /\ e.rows[r].subject.kind = "single"
      /\ e.rows[r].subject.route # "alias"
      /\ e.rows[r].subject.route = "unknown" => es[r].relationship = "projection"
      /\ r \notin Import!DuplicateTargets(es) /\ Import!Permits(e.rights, scope)
  BY <1>2, <1>3, <1>4 DEF Import!Outcome
<1> QED BY <1>1, <1>2, <1>3, <1>4, <1>5

LEMMA RowIsOf ==
    ASSUME NEW e, NEW es, NEW r
    PROVE  /\ Import!MappedRow(e, es, r).offering = es[r].offering
           /\ Import!MappedRow(e, es, r).subject = e.rows[r].subject
           /\ Import!MappedRow(e, es, r).result =
                 IF es[r].relationship = "exact" THEN e.rows[r].result
                 ELSE Import!QualityOnly(e.rows[r].result)
BY DEF Import!MappedRow

LEMMA ReportIsOf ==
    ASSUME NEW e, NEW es, NEW scope
    PROVE  /\ Import!Reconcile(e, es, scope).raw = e
           /\ Import!Reconcile(e, es, scope).reconciliation = es
           /\ Import!Reconcile(e, es, scope).scope = scope
           /\ DOMAIN Import!Reconcile(e, es, scope).records = DOMAIN e.rows \cup DOMAIN es
           /\ \A r \in DOMAIN e.rows \cup DOMAIN es :
                 /\ Import!Reconcile(e, es, scope).records[r] = Import!Outcome(e, es, scope, r)
                 /\ r \in DOMAIN Import!Reconcile(e, es, scope).mapped <=>
                       Import!Outcome(e, es, scope, r) = "mapped"
                 /\ r \in DOMAIN Import!Reconcile(e, es, scope).mapped =>
                       Import!Reconcile(e, es, scope).mapped[r] = Import!MappedRow(e, es, r)
           /\ DOMAIN Import!Reconcile(e, es, scope).mapped \subseteq DOMAIN e.rows \cup DOMAIN es
BY DEF Import!Reconcile

LEMMA StepKeepsImportInv ==
    Import!ImportInv /\ [Import!Next]_importVars => Import!ImportInv'
<1> SUFFICES ASSUME Import!ImportInv, [Import!Next]_importVars PROVE Import!ImportInv'
  OBVIOUS
<1>0. /\ Import!MadeFrom(entries, pinned)
      /\ Import!KnownRoutes(pinned) /\ Import!KnownRoutes(current)
      /\ report # NoEntry =>
            /\ Import!KnownRoutes(report.raw)
            /\ report = Import!Reconcile(report.raw, entries, report.scope)
  BY DEF Import!ImportInv
<1>1. ASSUME NEW e \in Captures, Import!Refresh(e) PROVE Import!ImportInv'
  <2>1. current' = e /\ UNCHANGED <<pinned, entries, report, catalog>>
    BY <1>1 DEF Import!Refresh
  <2>2. Import!KnownRoutes(e)
    BY ReviewsPossible DEF Import!ReviewsArePossible
  <2> QED BY <1>0, <2>1, <2>2 DEF Import!ImportInv
<1>2. ASSUME NEW scope \in {"internal", "derived", "full"}, Import!Import(scope)
      PROVE  Import!ImportInv'
  <2>1. report' = Import!Reconcile(current, entries, scope)
        /\ UNCHANGED <<pinned, entries, current, catalog>>
    BY <1>2 DEF Import!Import
  <2>2. report'.raw = current /\ report'.scope = scope
    BY <2>1, ReportIsOf
  <2> QED BY <1>0, <2>1, <2>2 DEF Import!ImportInv
<1>3. CASE Import!Project \/ UNCHANGED importVars
  <2>1. UNCHANGED <<pinned, entries, current, report>>
    BY <1>3 DEF Import!Project, importVars
  <2> QED BY <1>0, <2>1 DEF Import!ImportInv
<1> QED BY <1>1, <1>2, <1>3 DEF Import!Next

LEMMA InitIsImportInv == Import!Init => Import!ImportInv
<1> SUFFICES ASSUME Import!Init PROVE Import!ImportInv
  OBVIOUS
<1>1. PICK review \in Reviews : pinned = review[1] /\ entries = review[2]
  BY DEF Import!Init
<1>2. current = pinned /\ report = NoEntry
  BY DEF Import!Init
<1>3. Import!KnownRoutes(review[1]) /\ Import!MadeFrom(review[2], review[1])
  BY ReviewsPossible DEF Import!ReviewsArePossible
<1> QED BY <1>1, <1>2, <1>3 DEF Import!ImportInv

LEMMA ImportInvIsReviewed == Import!ImportInv => Import!MappedAsReviewed
<1> SUFFICES ASSUME Import!ImportInv, report # NoEntry, NEW r \in DOMAIN report.mapped
             PROVE  /\ r \in DOMAIN pinned.rows
                    /\ pinned.source = report.raw.source
                    /\ pinned.rows[r].subject = report.raw.rows[r].subject
                    /\ report.mapped[r].subject.kind = "single"
                    /\ \/ report.mapped[r].subject.route = "exact"
                       \/ /\ report.mapped[r].subject.route = "unknown"
                          /\ "cost" \notin DOMAIN report.mapped[r].result
                    /\ \A s \in DOMAIN report.mapped \ {r} :
                          report.mapped[s].offering.id # report.mapped[r].offering.id
                    /\ Import!Permits(report.raw.rights, report.scope)
  BY DEF Import!MappedAsReviewed
<1> DEFINE e == report.raw
<1>1. /\ report = Import!Reconcile(e, entries, report.scope)
      /\ Import!KnownRoutes(e) /\ Import!MadeFrom(entries, pinned)
  BY DEF Import!ImportInv
<1> HIDE DEF e
<1>2. ASSUME NEW s \in DOMAIN report.mapped
      PROVE  /\ s \in DOMAIN e.rows /\ s \in DOMAIN entries
             /\ ~Import!Drifted(e, entries[s], e.rows[s])
             /\ e.rows[s].subject.kind = "single"
             /\ e.rows[s].subject.route # "alias"
             /\ e.rows[s].subject.route = "unknown" => entries[s].relationship = "projection"
             /\ s \notin Import!DuplicateTargets(entries)
             /\ Import!Permits(e.rights, report.scope)
             /\ report.mapped[s] = Import!MappedRow(e, entries, s)
  BY <1>1, MappedRowIsReviewed
<1>3. /\ r \in DOMAIN pinned.rows /\ pinned.source = e.source
      /\ pinned.rows[r].subject = e.rows[r].subject
  BY <1>1, <1>2 DEF Import!MadeFrom, Import!Drifted
<1>4. report.mapped[r].subject = e.rows[r].subject
  BY <1>2, RowIsOf
<1>5. e.rows[r].subject.route = "unknown" => "cost" \notin DOMAIN report.mapped[r].result
  <2>1. "cost" \notin DOMAIN Import!QualityOnly(e.rows[r].result)
    BY DEF Import!QualityOnly
  <2> QED BY <1>2, <2>1, RowIsOf
<1>6. ASSUME NEW s \in DOMAIN report.mapped \ {r}
      PROVE  report.mapped[s].offering.id # report.mapped[r].offering.id
  <2>1. \A i \in DOMAIN report.mapped : report.mapped[i].offering = entries[i].offering
    BY <1>2, RowIsOf
  <2>2. entries[s].offering.id # entries[r].offering.id
    BY <1>2 DEF Import!DuplicateTargets
  <2> QED BY <2>1, <2>2
<1> QED BY <1>1, <1>2, <1>3, <1>4, <1>5, <1>6 DEF Import!KnownRoutes, e

LEMMA ImportInvTellsChange == Import!ImportInv => Import!ChangeTellsWhatToReview
<1> SUFFICES ASSUME Import!ImportInv, NEW scope \in {"internal", "derived", "full"}
             PROVE  LET changed == Import!Change(pinned, current)
                        old == Import!Reconcile(pinned, entries, scope)
                        new == Import!Reconcile(current, entries, scope)
                        unpinned == {r \in DOMAIN entries : entries[r].raw = NoEntry}
                    IN  /\ changed \in {"none", "raw_only"} /\ pinned.rights = current.rights =>
                               \A r \in DOMAIN old.records :
                                  r \in unpinned \/ r \notin DOMAIN entries =>
                                    /\ old.records[r] = new.records[r]
                                    /\ r \in DOMAIN old.mapped => old.mapped[r] = new.mapped[r]
                        /\ changed = "result_changed" =>
                               \A r \in unpinned : new.records[r] = "identity_drift" =>
                                                      old.records[r] = "identity_drift"
                        /\ changed = "source_identity_changed" => DOMAIN new.mapped = {}
  BY DEF Import!ChangeTellsWhatToReview
<1> DEFINE changed == Import!Change(pinned, current)
           old == Import!Reconcile(pinned, entries, scope)
           new == Import!Reconcile(current, entries, scope)
           ids == DOMAIN pinned.rows \cup DOMAIN entries
<1>1. Import!MadeFrom(entries, pinned)
  BY DEF Import!ImportInv
<1>2. /\ DOMAIN old.records = ids
      /\ \A r \in ids :
            /\ old.records[r] = Import!Outcome(pinned, entries, scope, r)
            /\ r \in DOMAIN old.mapped <=> Import!Outcome(pinned, entries, scope, r) = "mapped"
            /\ r \in DOMAIN old.mapped => old.mapped[r] = Import!MappedRow(pinned, entries, r)
  BY ReportIsOf
<1>3. \A r \in DOMAIN current.rows \cup DOMAIN entries :
            /\ new.records[r] = Import!Outcome(current, entries, scope, r)
            /\ r \in DOMAIN new.mapped <=> Import!Outcome(current, entries, scope, r) = "mapped"
            /\ r \in DOMAIN new.mapped => new.mapped[r] = Import!MappedRow(current, entries, r)
  BY ReportIsOf
<1> HIDE DEF old, new
<1>4. /\ changed \in {"raw_only", "result_changed"} =>
            /\ pinned.source = current.source /\ DOMAIN pinned.rows = DOMAIN current.rows
            /\ Import!Subjects(pinned) = Import!Subjects(current)
      /\ changed = "raw_only" => Import!Results(pinned) = Import!Results(current)
      /\ changed = "none" => pinned = current
      /\ changed = "source_identity_changed" => pinned.source # current.source
  BY DEF Import!Change
<1>5. ASSUME changed \in {"raw_only", "result_changed"}
      PROVE  \A r \in DOMAIN pinned.rows : pinned.rows[r].subject = current.rows[r].subject
  <2> SUFFICES ASSUME NEW r \in DOMAIN pinned.rows
               PROVE  pinned.rows[r].subject = current.rows[r].subject
    OBVIOUS
  <2>1. Import!Subjects(pinned)[r] = Import!Subjects(current)[r] /\ r \in DOMAIN current.rows
    BY <1>4, <1>5
  <2> HIDE DEF changed
  <2> QED BY <2>1 DEF Import!Subjects
<1>6. ASSUME changed = "raw_only"
      PROVE  \A r \in DOMAIN pinned.rows : pinned.rows[r].result = current.rows[r].result
  <2> SUFFICES ASSUME NEW r \in DOMAIN pinned.rows
               PROVE  pinned.rows[r].result = current.rows[r].result
    OBVIOUS
  <2>1. Import!Results(pinned)[r] = Import!Results(current)[r] /\ r \in DOMAIN current.rows
    BY <1>4, <1>6
  <2> HIDE DEF changed
  <2> QED BY <2>1 DEF Import!Results
<1> HIDE DEF changed
<1>7. ASSUME changed \in {"none", "raw_only"}, pinned.rights = current.rights, NEW r \in ids,
             r \in DOMAIN entries => entries[r].raw = NoEntry
      PROVE  /\ old.records[r] = new.records[r]
             /\ r \in DOMAIN old.mapped => old.mapped[r] = new.mapped[r]
  <2>1. CASE changed = "none"
    <3>1. old = new
      BY <1>4, <2>1 DEF old, new
    <3> QED BY <3>1
  <2>2. CASE changed = "raw_only"
    <3>1. r \in DOMAIN pinned.rows <=> r \in DOMAIN current.rows
      BY <1>4, <2>2
    <3>2. r \in DOMAIN pinned.rows =>
             /\ pinned.rows[r].subject = current.rows[r].subject
             /\ pinned.rows[r].result = current.rows[r].result
      BY <1>5, <1>6, <2>2
    <3>3. r \in DOMAIN pinned.rows /\ r \in DOMAIN entries =>
             (Import!Drifted(pinned, entries[r], pinned.rows[r]) <=>
              Import!Drifted(current, entries[r], current.rows[r]))
      BY <1>4, <1>7, <2>2, <3>2 DEF Import!Drifted
    <3>4. Import!Outcome(pinned, entries, scope, r) = Import!Outcome(current, entries, scope, r)
      BY <1>7, <3>1, <3>2, <3>3 DEF Import!Outcome
    <3>5. r \in DOMAIN pinned.rows =>
             Import!MappedRow(pinned, entries, r) = Import!MappedRow(current, entries, r)
      BY <3>2 DEF Import!MappedRow
    <3>6. r \in DOMAIN old.mapped => r \in DOMAIN pinned.rows
      BY <1>2, <1>7 DEF Import!Outcome
    <3> QED BY <1>2, <1>3, <1>4, <1>7, <2>2, <3>1, <3>4, <3>5, <3>6
  <2> QED BY <1>7, <2>1, <2>2
<1>8. ASSUME changed = "result_changed", NEW r \in DOMAIN entries, entries[r].raw = NoEntry,
             new.records[r] = "identity_drift"
      PROVE  old.records[r] = "identity_drift"
  <2>1. Import!Outcome(current, entries, scope, r) = "identity_drift"
    BY <1>3, <1>8
  <2>2. r \in DOMAIN current.rows /\ Import!Drifted(current, entries[r], current.rows[r])
    BY <2>1 DEF Import!Outcome
  <2>3. r \in DOMAIN pinned.rows /\ Import!Drifted(pinned, entries[r], pinned.rows[r])
    BY <1>4, <1>5, <1>8, <2>2 DEF Import!Drifted
  <2> QED BY <1>2, <2>3 DEF Import!Outcome
<1>9. ASSUME changed = "source_identity_changed" PROVE DOMAIN new.mapped = {}
  <2> SUFFICES ASSUME NEW r \in DOMAIN new.mapped PROVE FALSE
    OBVIOUS
  <2>1. r \in DOMAIN entries /\ ~Import!Drifted(current, entries[r], current.rows[r])
    BY MappedRowIsReviewed DEF new
  <2> QED BY <1>1, <1>4, <1>9, <2>1 DEF Import!Drifted, Import!MadeFrom
<1> QED BY <1>2, <1>7, <1>8, <1>9 DEF changed, old, new

LEMMA WiderScopes == Import!WiderScopeMapsLess
<1>1. ASSUME NEW r, NEW wide, NEW narrow,
             Import!Permits(current.rights, wide) => Import!Permits(current.rights, narrow),
             r \in DOMAIN Import!Reconcile(current, entries, wide).mapped
      PROVE  r \in DOMAIN Import!Reconcile(current, entries, narrow).mapped
  <2>1. r \in DOMAIN current.rows \cup DOMAIN entries
        /\ Import!Outcome(current, entries, wide, r) = "mapped"
    BY <1>1, ReportIsOf
  <2>2. Import!Permits(current.rights, wide)
    BY <1>1, MappedRowIsReviewed
  <2>3. Import!Outcome(current, entries, narrow, r) = "mapped"
    BY <1>1, <2>1, <2>2 DEF Import!Outcome
  <2> QED BY <2>1, <2>3, ReportIsOf
<1>2. /\ Import!Permits(current.rights, "full") => Import!Permits(current.rights, "derived")
      /\ Import!Permits(current.rights, "derived") => Import!Permits(current.rights, "internal")
  BY DEF Import!Permits
<1> QED BY <1>1, <1>2 DEF Import!WiderScopeMapsLess

\* A catalog that changes is projected from the capture and the reviews at hand.
LEMMA ProjectionIsOfCurrent ==
    ASSUME [Import!Next]_importVars, catalog' # catalog, NEW o \in DOMAIN catalog'
    PROVE  \E r \in DOMAIN current.rows :
              /\ r \in DOMAIN entries /\ entries[r].offering = o
              /\ current.rows[r].subject = entries[r].subject
              /\ current.rows[r].result # Invalid
              /\ catalog'[o] = IF entries[r].relationship = "exact"
                               THEN current.rows[r].result
                               ELSE Import!QualityOnly(current.rows[r].result)
<1>1. Import!Project
  BY DEF Import!Next, importVars, Import!Refresh, Import!Import
<1>2. report = Import!Reconcile(current, entries, report.scope)
  BY <1>1 DEF Import!Project, Import!Replays
<1>3. PICK r \in DOMAIN report.mapped :
          report.mapped[r].offering = o /\ catalog'[o] = report.mapped[r].result
  <2> DEFINE r == CHOOSE i \in DOMAIN report.mapped : report.mapped[i].offering = o
  <2>1. /\ catalog'[o] = report.mapped[r].result
        /\ \E i \in DOMAIN report.mapped : report.mapped[i].offering = o
    BY <1>1 DEF Import!Project
  <2>2. r \in DOMAIN report.mapped /\ report.mapped[r].offering = o
    BY <2>1
  <2> HIDE DEF r
  <2> QED BY <2>1, <2>2
<1>4. /\ r \in DOMAIN current.rows /\ r \in DOMAIN entries
      /\ ~Import!Drifted(current, entries[r], current.rows[r])
      /\ current.rows[r].result # Invalid
      /\ report.mapped[r] = Import!MappedRow(current, entries, r)
  BY <1>2, MappedRowIsReviewed
<1>5. /\ entries[r].offering = o
      /\ catalog'[o] = IF entries[r].relationship = "exact" THEN current.rows[r].result
                       ELSE Import!QualityOnly(current.rows[r].result)
  BY <1>3, <1>4 DEF Import!MappedRow
<1> QED BY <1>4, <1>5 DEF Import!Drifted

----------------------------------------------------------------------------
\* Discovery.

\* Of some positions, one is the last.
LEMMA LastPosition ==
    ASSUME NEW n \in Nat, NEW S, S \subseteq 1 .. n, S # {}
    PROVE  \E m \in S : \A j \in S : j <= m
<1> DEFINE T == {n - j : j \in S}
<1>1. \A j \in S : j \in Nat /\ n - j \in Nat
  OBVIOUS
<1>2. T \subseteq Nat
  BY <1>1
<1>3. \A j \in S : n - j \in T
  OBVIOUS
<1>4. T # {}
  BY <1>3
<1>5. \A k \in T : \E m \in S : k = n - m
  OBVIOUS
<1> HIDE DEF T
<1>6. PICK k \in T : \A y \in T : ~(<<y, k>> \in OpToRel(<, Nat))
  BY <1>2, <1>4, NatLessThanWellFounded, WFMin
<1>7. \A y \in T : ~(y < k)
  BY <1>2, <1>6 DEF OpToRel
<1>8. PICK m \in S : k = n - m
  BY <1>5
<1>9. ASSUME NEW j \in S PROVE j <= m
  <2>1. ~(n - j < n - m)
    BY <1>3, <1>7, <1>8
  <2> QED BY <1>1, <2>1
<1> QED BY <1>9

\* What Discovery says of what was told, of any answers that were served.
TakenOf(answer) == Discovery!Taken(answer.url, answer.items)
ToldIn(said) == UNION {{<<i, j>> : j \in TakenOf(said[i])} : i \in DOMAIN said}
IdIn(said, t) == Discovery!Id(said[t[1]].url, said[t[1]].items[t[2]].model)
OfferingIn(said, t) ==
    Discovery!Offering(said[t[1]].url, said[t[1]].items[t[2]], admission)
LastIn(said, t) ==
    \A u \in ToldIn(said) :
        t[1] < u[1] \/ (t[1] = u[1] /\ t[2] < u[2]) => IdIn(said, u) # IdIn(said, t)
FoundIn(said, found) ==
    /\ DOMAIN found = {IdIn(said, t) : t \in ToldIn(said)}
    /\ \A t \in ToldIn(said) : LastIn(said, t) => found[IdIn(said, t)] = OfferingIn(said, t)
    /\ \A id \in DOMAIN found : found[id].id = id /\ found[id].quality \in {None, "reported"}

\* What a source tells joins what was told before.
Tells(said, more, url, items, n) ==
    /\ ToldIn(more) = ToldIn(said) \cup {<<n, j>> : j \in Discovery!Taken(url, items)}
    /\ \A t \in ToldIn(said) :
          /\ t[1] \in 1 .. n - 1
          /\ IdIn(more, t) = IdIn(said, t) /\ OfferingIn(more, t) = OfferingIn(said, t)
    /\ \A j \in Discovery!Taken(url, items) :
          /\ IdIn(more, <<n, j>>) = Discovery!Id(url, items[j].model)
          /\ OfferingIn(more, <<n, j>>) = Discovery!Offering(url, items[j], admission)

LEMMA FoundInSays == Discovery!FoundIsLatest <=> FoundIn(served, offerings)
BY DEF Discovery!FoundIsLatest, Discovery!Told, Discovery!IdTold, Discovery!ToldLast,
   Discovery!ToldLater, Discovery!OfferingTold, Discovery!ItemTold, FoundIn, LastIn, ToldIn,
   TakenOf, IdIn, OfferingIn

LEMMA FetchedIsTold ==
    ASSUME NEW said, NEW Sources, said \in Seq(Sources), NEW url, NEW items,
           [url |-> url, items |-> items] \in Sources
    PROVE  LET more == Append(said, [url |-> url, items |-> items])
               n == Len(said) + 1
           IN  n \in Nat /\ more \in Seq(Sources) /\ Tells(said, more, url, items, n)
<1> DEFINE told == [url |-> url, items |-> items]
           n == Len(said) + 1
           more == Append(said, told)
<1>1. told.url = url /\ told.items = items
  OBVIOUS
<1> HIDE DEF told
<1>2. /\ n \in Nat /\ n >= 1 /\ DOMAIN said = 1 .. n - 1 /\ DOMAIN more = 1 .. n
      /\ more[n] = told /\ \A i \in 1 .. n - 1 : more[i] = said[i]
      /\ more \in Seq(Sources)
  BY DEF told
<1> HIDE DEF n, more
<1>3. ToldIn(more) = ToldIn(said) \cup {<<n, j>> : j \in Discovery!Taken(url, items)}
  <2>1. ASSUME NEW t \in ToldIn(more)
        PROVE  t \in ToldIn(said) \cup {<<n, j>> : j \in Discovery!Taken(url, items)}
    <3>1. PICK i \in 1 .. n : \E j \in TakenOf(more[i]) : t = <<i, j>>
      BY <1>2, <2>1 DEF ToldIn
    <3>2. CASE i = n
      BY <1>1, <1>2, <3>1, <3>2 DEF TakenOf
    <3>3. CASE i \in 1 .. n - 1
      <4>1. \E j \in TakenOf(said[i]) : t = <<i, j>>
        BY <1>2, <3>1, <3>3
      <4> QED BY <1>2, <3>3, <4>1 DEF ToldIn
    <3> QED BY <1>2, <3>2, <3>3
  <2>2. ASSUME NEW t \in ToldIn(said) PROVE t \in ToldIn(more)
    <3>1. PICK i \in 1 .. n - 1 : \E j \in TakenOf(said[i]) : t = <<i, j>>
      BY <1>2, <2>2 DEF ToldIn
    <3>2. i \in 1 .. n /\ \E j \in TakenOf(more[i]) : t = <<i, j>>
      BY <1>2, <3>1
    <3> QED BY <1>2, <3>2 DEF ToldIn
  <2>3. ASSUME NEW j \in Discovery!Taken(url, items) PROVE <<n, j>> \in ToldIn(more)
    <3>1. TakenOf(more[n]) = Discovery!Taken(url, items) /\ n \in 1 .. n
      BY <1>1, <1>2 DEF TakenOf
    <3> QED BY <1>2, <2>3, <3>1 DEF ToldIn
  <2> QED BY <2>1, <2>2, <2>3
<1>4. ASSUME NEW t \in ToldIn(said)
      PROVE  /\ t[1] \in 1 .. n - 1
             /\ IdIn(more, t) = IdIn(said, t) /\ OfferingIn(more, t) = OfferingIn(said, t)
  <2>1. PICK i \in 1 .. n - 1 : \E j \in TakenOf(said[i]) : t = <<i, j>>
    BY <1>2, <1>4 DEF ToldIn
  <2>2. t[1] = i
    BY <2>1
  <2>3. t[1] \in 1 .. n - 1 /\ more[t[1]] = said[t[1]]
    BY <1>2, <2>2
  <2> QED BY <2>3 DEF IdIn, OfferingIn
<1>5. ASSUME NEW j \in Discovery!Taken(url, items)
      PROVE  /\ IdIn(more, <<n, j>>) = Discovery!Id(url, items[j].model)
             /\ OfferingIn(more, <<n, j>>) = Discovery!Offering(url, items[j], admission)
  <2>1. <<n, j>>[1] = n /\ <<n, j>>[2] = j
    OBVIOUS
  <2> QED BY <1>1, <1>2, <2>1 DEF IdIn, OfferingIn
<1> QED BY <1>2, <1>3, <1>4, <1>5 DEF Tells, n, more, told

\* So what is merged is what was told last.
LEMMA MergedIsLatest ==
    ASSUME NEW said, NEW found, FoundIn(said, found), NEW url, NEW items, NEW more, NEW n,
           n \in Nat, Len(items) \in Nat, DOMAIN items = 1 .. Len(items),
           Tells(said, more, url, items, n)
    PROVE  FoundIn(more, Discovery!Merge(found, url, items))
<1> DEFINE ids == Discovery!Ids(url, items)
           merged == Discovery!Merge(found, url, items)
<1>1. /\ ToldIn(more) = ToldIn(said) \cup {<<n, j>> : j \in Discovery!Taken(url, items)}
      /\ \A t \in ToldIn(said) :
            /\ t[1] \in 1 .. n - 1
            /\ IdIn(more, t) = IdIn(said, t) /\ OfferingIn(more, t) = OfferingIn(said, t)
      /\ \A j \in Discovery!Taken(url, items) :
            /\ IdIn(more, <<n, j>>) = Discovery!Id(url, items[j].model)
            /\ OfferingIn(more, <<n, j>>) = Discovery!Offering(url, items[j], admission)
  BY DEF Tells
<1>2. /\ DOMAIN found = {IdIn(said, t) : t \in ToldIn(said)}
      /\ \A t \in ToldIn(said) : LastIn(said, t) => found[IdIn(said, t)] = OfferingIn(said, t)
      /\ \A id \in DOMAIN found : found[id].id = id /\ found[id].quality \in {None, "reported"}
  BY DEF FoundIn
<1>0. Discovery!Taken(url, items) \subseteq 1 .. Len(items)
  BY DEF Discovery!Taken, Discovery!Named
<1>3. ids = {Discovery!Id(url, items[j].model) : j \in Discovery!Taken(url, items)}
  BY DEF Discovery!Ids
<1> HIDE DEF ids
<1>4. /\ DOMAIN merged = DOMAIN found \cup ids
      /\ \A id \in ids :
            merged[id] = Discovery!Offering(url, items[Discovery!Latest(id, url, items)], admission)
      /\ \A id \in DOMAIN found \ ids : merged[id] = found[id]
  BY DEF Discovery!Merge, ids
<1> HIDE DEF merged
<1>5. ASSUME NEW id \in ids
      PROVE  LET l == Discovery!Latest(id, url, items)
             IN  /\ l \in Discovery!Taken(url, items) /\ id = Discovery!Id(url, items[l].model)
                 /\ \A j \in Discovery!Taken(url, items) : Discovery!Id(url, items[j].model) = id => j <= l
  <2>1. PICK k \in Discovery!Taken(url, items) : id = Discovery!Id(url, items[k].model)
    BY <1>1, <1>3
  <2>2. Discovery!ItemsOf(id, url, items) = {j \in Discovery!Taken(url, items) : Discovery!Id(url, items[j].model) = id}
    BY DEF Discovery!ItemsOf
  <2>3. k \in Discovery!ItemsOf(id, url, items)
    BY <1>1, <2>1, <2>2
  <2>4. \E m \in Discovery!ItemsOf(id, url, items) : \A j \in Discovery!ItemsOf(id, url, items) : j <= m
    <3> DEFINE all == Discovery!ItemsOf(id, url, items)
    <3>1. all \subseteq 1 .. Len(items) /\ all # {}
      BY <1>0, <2>2, <2>3
    <3> HIDE DEF all
    <3> QED BY <3>1, LastPosition DEF all
  <2>5. /\ Discovery!Latest(id, url, items) \in Discovery!ItemsOf(id, url, items)
        /\ \A j \in Discovery!ItemsOf(id, url, items) : j <= Discovery!Latest(id, url, items)
    BY <1>1, <2>4 DEF Discovery!Latest
  <2> QED BY <1>1, <2>1, <2>2, <2>3, <2>5
<1>6. DOMAIN merged = {IdIn(more, t) : t \in ToldIn(more)}
  <2>1. ASSUME NEW t \in ToldIn(more) PROVE IdIn(more, t) \in DOMAIN found \cup ids
    <3>1. CASE t \in ToldIn(said)
      BY <1>1, <1>2, <3>1
    <3>2. CASE t \in {<<n, j>> : j \in Discovery!Taken(url, items)}
      BY <1>1, <1>3, <3>2
    <3> QED BY <1>1, <2>1, <3>1, <3>2
  <2>2. ASSUME NEW id \in DOMAIN found PROVE \E t \in ToldIn(more) : id = IdIn(more, t)
    <3>1. PICK t \in ToldIn(said) : id = IdIn(said, t)
      BY <1>1, <1>2, <2>2
    <3> QED BY <1>1, <3>1
  <2>3. ASSUME NEW id \in ids PROVE \E t \in ToldIn(more) : id = IdIn(more, t)
    <3>1. PICK j \in Discovery!Taken(url, items) : id = Discovery!Id(url, items[j].model)
      BY <1>1, <1>3, <2>3
    <3>2. <<n, j>> \in ToldIn(more)
      BY <1>1
    <3> QED BY <1>1, <3>1, <3>2
  <2> QED BY <1>1, <1>4, <2>1, <2>2, <2>3
<1>7. ASSUME NEW t \in ToldIn(more), LastIn(more, t)
      PROVE  merged[IdIn(more, t)] = OfferingIn(more, t)
  <2>1. \A u \in ToldIn(more) :
           t[1] < u[1] \/ (t[1] = u[1] /\ t[2] < u[2]) => IdIn(more, u) # IdIn(more, t)
    BY <1>1, <1>7 DEF LastIn
  <2>2. CASE t \in ToldIn(said)
    <3>0. t[1] \in 1 .. n - 1 /\ IdIn(more, t) = IdIn(said, t)
      BY <1>1, <2>2
    <3>1. LastIn(said, t)
      <4>1. ASSUME NEW u \in ToldIn(said), t[1] < u[1] \/ (t[1] = u[1] /\ t[2] < u[2])
            PROVE  IdIn(said, u) # IdIn(said, t)
        <5>1. u \in ToldIn(more) /\ IdIn(more, u) = IdIn(said, u)
          BY <1>1, <4>1
        <5> QED BY <1>1, <2>1, <3>0, <4>1, <5>1
      <4> QED BY <1>1, <4>1 DEF LastIn
    <3>2. ASSUME NEW j \in Discovery!Taken(url, items) PROVE Discovery!Id(url, items[j].model) # IdIn(said, t)
      <4>1. <<n, j>> \in ToldIn(more) /\ <<n, j>>[1] = n
        BY <1>1
      <4>2. t[1] < n
        BY <1>1, <3>0
      <4>3. IdIn(more, <<n, j>>) # IdIn(more, t)
        BY <1>1, <2>1, <4>1, <4>2
      <4> QED BY <1>1, <3>0, <4>3
    <3>3. IdIn(said, t) \in DOMAIN found \ ids
      BY <1>1, <1>2, <1>3, <2>2, <3>2
    <3>4. OfferingIn(more, t) = OfferingIn(said, t)
      BY <1>1, <2>2
    <3> QED BY <1>1, <1>2, <1>4, <2>2, <3>0, <3>1, <3>3, <3>4
  <2>3. CASE t \in {<<n, j>> : j \in Discovery!Taken(url, items)}
    <3>1. PICK j \in Discovery!Taken(url, items) : t = <<n, j>>
      BY <1>1, <2>3
    <3>2. PICK id : id = Discovery!Id(url, items[j].model)
      BY <1>1
    <3> DEFINE l == Discovery!Latest(id, url, items)
    <3>3. id \in ids
      BY <1>1, <1>3, <3>2
    <3> HIDE DEF l
    <3>4. l \in Discovery!Taken(url, items) /\ Discovery!Id(url, items[l].model) = id /\ j <= l
      BY <1>5, <3>2, <3>3 DEF l
    <3>5. /\ <<n, l>> \in ToldIn(more)
          /\ IdIn(more, <<n, l>>) = Discovery!Id(url, items[l].model)
          /\ IdIn(more, t) = Discovery!Id(url, items[j].model)
      BY <1>1, <3>1, <3>4
    <3>6. l = j
      <4>1. t[1] = n /\ t[2] = j /\ <<n, l>>[1] = n /\ <<n, l>>[2] = l
        BY <1>1, <3>1
      <4>2. IdIn(more, <<n, l>>) = IdIn(more, t)
        BY <3>2, <3>4, <3>5
      <4>3. ~(t[1] = <<n, l>>[1] /\ t[2] < <<n, l>>[2])
        BY <1>1, <2>1, <3>5, <4>2
      <4>4. ~(j < l)
        BY <1>1, <4>1, <4>3
      <4>5. j \in Nat /\ l \in Nat
        BY <1>0, <3>4
      <4> QED BY <1>1, <3>4, <4>4, <4>5
    <3>7. merged[id] = Discovery!Offering(url, items[j], admission)
      BY <1>1, <1>4, <3>3, <3>6 DEF l
    <3> QED BY <1>1, <3>1, <3>2, <3>5, <3>7
  <2> QED BY <1>1, <1>7, <2>2, <2>3
<1>8. ASSUME NEW id \in DOMAIN merged
      PROVE  merged[id].id = id /\ merged[id].quality \in {None, "reported"}
  <2>1. CASE id \in ids
    <3>1. \A item : /\ Discovery!Offering(url, item, admission).id = Discovery!Id(url, item.model)
                    /\ Discovery!Offering(url, item, admission).quality \in {None, "reported"}
      BY DEF Discovery!Offering
    <3>2. PICK l \in Discovery!Taken(url, items) : id = Discovery!Id(url, items[l].model) /\ l = Discovery!Latest(id, url, items)
      BY <1>1, <1>5, <2>1
    <3> QED BY <1>1, <1>4, <2>1, <3>1, <3>2
  <2>2. CASE id \notin ids
    BY <1>1, <1>2, <1>4, <1>8, <2>2
  <2> QED BY <1>1, <2>1, <2>2
<1> QED BY <1>6, <1>7, <1>8 DEF FoundIn, merged

LEMMA InitIsDiscoveryInv == Discovery!Init => Discovery!DiscoveryInv
<1> SUFFICES ASSUME Discovery!Init PROVE Discovery!DiscoveryInv
  OBVIOUS
<1> DEFINE Lists == UNION {[1 .. n -> Feeds] : n \in 0 .. MaxSources - 1}
           Addresses == {Catalog} \cup Feeds
<1>1. /\ offerings = << >> /\ served = << >> /\ phase = "fetching"
      /\ artifact = None /\ provisional = None
      /\ todo \in Lists \cup {<<Catalog>> \o s : s \in Lists}
  BY DEF Discovery!Init
<1>2. ASSUME NEW s \in Lists PROVE s \in Seq(Addresses)
  <2>1. PICK n \in 0 .. MaxSources - 1 : s \in [1 .. n -> Feeds]
    OBVIOUS
  <2>2. n \in Nat /\ s \in [1 .. n -> Addresses]
    BY <2>1
  <2> QED BY <2>2
<1>3. ASSUME NEW s \in Lists PROVE <<Catalog>> \o s \in Seq(Addresses)
  <2>1. s \in Seq(Addresses) /\ <<Catalog>> \in Seq(Addresses)
    BY <1>2
  <2> QED BY <2>1
<1>4. todo \in Seq(Addresses)
  BY <1>1, <1>2, <1>3
<1>5. served \in Seq([url : Addresses, items : Responses])
  BY <1>1
<1>6. Discovery!FoundIsLatest
  BY <1>1 DEF Discovery!FoundIsLatest, Discovery!Told
<1>7. Discovery!ArtifactIsOfFound
  BY <1>1 DEF Discovery!ArtifactIsOfFound
<1>8. Discovery!NeverUnmarked
  BY <1>1 DEF Discovery!NeverUnmarked
<1>9. Discovery!EvidenceStaysApart
  BY <1>1 DEF Discovery!EvidenceStaysApart
<1> QED BY <1>1, <1>4, <1>5, <1>6, <1>7, <1>8, <1>9 DEF Discovery!DiscoveryInv

\* Where one of a price's names has a number, one of these is the price.
LEMMA PricesAreGiven ==
    ASSUME NEW facts, NEW p \in {"input_cost", "output_cost"}, NEW names,
           names = IF p = "input_cost" THEN {"prompt", "input"} ELSE {"completion", "output"}
    PROVE  LET given == Discovery!Given(facts, names)
           IN  /\ <<"price", p>> \in DOMAIN Discovery!Prices(facts) <=> given # {}
               /\ given # {} => Discovery!Prices(facts)[<<"price", p>>] \in given
<1> DEFINE given == Discovery!Given(facts, names)
           usable == [name \in DOMAIN Discovery!PriceNames |->
                         {i \in 1 .. 2 : /\ Discovery!PriceNames[name][i] \in DOMAIN facts
                                         /\ facts[Discovery!PriceNames[name][i]] # Malformed}]
           named == {name \in DOMAIN Discovery!PriceNames : usable[name] # {}}
<1>1. PICK fst, snd : Discovery!PriceNames[p] = <<fst, snd>> /\ names = {fst, snd}
  BY DEF Discovery!PriceNames
<1>2. p \in DOMAIN Discovery!PriceNames
  BY DEF Discovery!PriceNames
<1>3. usable[p] = {i \in 1 .. 2 : <<fst, snd>>[i] \in DOMAIN facts /\ facts[<<fst, snd>>[i]] # Malformed}
  BY <1>1, <1>2
<1>4. Discovery!Prices(facts) = Discovery!Read(facts, usable)
  BY DEF Discovery!Prices
<1> HIDE DEF usable
<1>5. /\ 1 \in usable[p] <=> fst \in DOMAIN facts /\ facts[fst] # Malformed
      /\ 2 \in usable[p] <=> snd \in DOMAIN facts /\ facts[snd] # Malformed
      /\ usable[p] \subseteq {1, 2}
  BY <1>3
<1>6. given # {} <=> usable[p] # {}
  BY <1>1, <1>5 DEF Discovery!Given
<1>7. /\ DOMAIN Discovery!Prices(facts) = {<<"price", name>> : name \in named}
      /\ p \in named => Discovery!Prices(facts)[<<"price", p>>]
                          = facts[Discovery!PriceNames[p][IF 1 \in usable[p] THEN 1 ELSE 2]]
  BY <1>4 DEF Discovery!Read
<1>8. <<"price", p>> \in DOMAIN Discovery!Prices(facts) <=> p \in named
  BY <1>7
<1>9. p \in named <=> given # {}
  BY <1>2, <1>6
<1>10. ASSUME given # {} PROVE Discovery!Prices(facts)[<<"price", p>>] \in given
  <2>1. CASE 1 \in usable[p]
    BY <1>1, <1>5, <1>7, <1>9, <1>10, <2>1 DEF Discovery!Given
  <2>2. CASE 1 \notin usable[p]
    <3>1. 2 \in usable[p]
      BY <1>5, <1>6, <1>10, <2>2
    <3>2. Discovery!Prices(facts)[<<"price", p>>] = facts[snd]
      BY <1>1, <1>7, <1>9, <1>10, <2>2
    <3> QED BY <1>1, <1>5, <3>1, <3>2 DEF Discovery!Given
  <2> QED BY <2>1, <2>2
<1> QED BY <1>8, <1>9, <1>10

\* What a record has: each published score, and the prices.
LEMMA SignalsAreApart ==
    ASSUME NEW o, NEW published,
           \A d \in published, c \in published :
              d.offering = c.offering /\ d.benchmark = c.benchmark => d = c
    PROVE  LET record == Discovery!ProvisionalSignals(o, published)
               prices == Discovery!Prices(o.facts)
           IN  /\ \A d \in published : d.offering = o.id =>
                     /\ <<"benchmark", d.benchmark>> \in DOMAIN record
                     /\ record[<<"benchmark", d.benchmark>>] = d.score
               /\ \A p \in {"input_cost", "output_cost"} :
                     /\ <<"price", p>> \in DOMAIN record <=> <<"price", p>> \in DOMAIN prices
                     /\ <<"price", p>> \in DOMAIN prices =>
                           record[<<"price", p>>] = prices[<<"price", p>>]
<1> DEFINE prices == Discovery!Prices(o.facts)
           own == {d \in published : d.offering = o.id}
           scores == {<<"benchmark", d.benchmark>> : d \in own}
           record == Discovery!ProvisionalSignals(o, published)
<1>1. /\ DOMAIN record = DOMAIN prices \cup scores
      /\ \A s \in scores : record[s] = (CHOOSE d \in own : d.benchmark = s[2]).score
      /\ \A s \in DOMAIN prices \ scores : record[s] = prices[s]
  BY DEF Discovery!ProvisionalSignals
<1> HIDE DEF record, prices
<1>2. ASSUME NEW d \in published, d.offering = o.id
      PROVE  /\ <<"benchmark", d.benchmark>> \in DOMAIN record
             /\ record[<<"benchmark", d.benchmark>>] = d.score
  <2> DEFINE s == <<"benchmark", d.benchmark>>
             c == CHOOSE c \in own : c.benchmark = s[2]
  <2>1. d \in own /\ s \in scores /\ s[2] = d.benchmark
    BY <1>2
  <2>2. c \in own /\ c.benchmark = d.benchmark
    BY <2>1
  <2>3. c = d
    BY <1>2, <2>2
  <2> QED BY <1>1, <2>1, <2>3
<1>3. ASSUME NEW p \in {"input_cost", "output_cost"} PROVE <<"price", p>> \notin scores
  OBVIOUS
<1> QED BY <1>1, <1>2, <1>3 DEF record, prices

\* So the records are of what was published and of what was discovered.
LEMMA ProvidedIsApart ==
    ASSUME Discovery!DiscoveryInv, NEW published, Discovery!Provide(published)
    PROVE  Discovery!EvidenceStaysApart'
<1>1. CASE provisional' = provisional
  <2>1. artifact' = artifact
    BY DEF Discovery!Provide
  <2>2. Discovery!EvidenceStaysApart
    BY DEF Discovery!DiscoveryInv
  <2> QED BY <1>1, <2>1, <2>2 DEF Discovery!EvidenceStaysApart, Discovery!PricedBy
<1>2. CASE Discovery!Unambiguous(artifact, published)
  <2> DEFINE Record(id) == Discovery!ProvisionalSignals(artifact[id].offering, published)
             all == [id \in DOMAIN artifact |-> Record(id)]
             records == [id \in {i \in DOMAIN all : DOMAIN all[i] # {}} |-> all[id]]
  <2>1. /\ provisional' = [published |-> published, records |-> records]
        /\ artifact' = artifact /\ phase = "discovered"
    BY <1>2 DEF Discovery!Provide
  <2>2. /\ \A d \in published : d.offering \in DOMAIN artifact
        /\ \A d \in published, c \in published :
              d.offering = c.offering /\ d.benchmark = c.benchmark => d = c
    BY <1>2 DEF Discovery!Unambiguous
  <2>3. \A id \in DOMAIN artifact : artifact[id].offering.id = id
    BY <2>1 DEF Discovery!DiscoveryInv, Discovery!ArtifactIsOfFound, Discovery!FoundIsLatest
  <2>4. provisional'.published = published /\ provisional'.records = records
    BY <2>1
  <2> HIDE DEF Record
  <2>5. /\ DOMAIN records = {i \in DOMAIN artifact : DOMAIN Record(i) # {}}
        /\ \A id \in DOMAIN records : records[id] = Record(id)
    OBVIOUS
  <2> HIDE DEF all, records
  <2>6. ASSUME NEW d \in published
        PROVE  /\ d.offering \in DOMAIN records
               /\ records[d.offering][<<"benchmark", d.benchmark>>] = d.score
    <3>1. d.offering \in DOMAIN artifact /\ artifact[d.offering].offering.id = d.offering
      BY <2>2, <2>3
    <3>2. /\ <<"benchmark", d.benchmark>> \in DOMAIN Record(d.offering)
          /\ Record(d.offering)[<<"benchmark", d.benchmark>>] = d.score
      BY <2>2, <3>1, SignalsAreApart DEF Record
    <3> QED BY <2>5, <3>1, <3>2
  <2>7. ASSUME NEW id \in DOMAIN artifact, NEW p \in {"input_cost", "output_cost"}, NEW names,
               names = IF p = "input_cost" THEN {"prompt", "input"} ELSE {"completion", "output"}
        PROVE  LET facts == artifact[id].offering.facts
                   given == Discovery!Given(facts, names)
               IN  IF given = {}
                   THEN id \in DOMAIN records => <<"price", p>> \notin DOMAIN records[id]
                   ELSE records[id][<<"price", p>>] \in given
    <3> DEFINE facts == artifact[id].offering.facts
               prices == Discovery!Prices(facts)
               given == Discovery!Given(facts, names)
    <3>1. /\ <<"price", p>> \in DOMAIN Record(id) <=> <<"price", p>> \in DOMAIN prices
          /\ <<"price", p>> \in DOMAIN prices =>
                Record(id)[<<"price", p>>] = prices[<<"price", p>>]
      BY <2>2, SignalsAreApart DEF Record
    <3>2. /\ <<"price", p>> \in DOMAIN prices <=> given # {}
          /\ given # {} => prices[<<"price", p>>] \in given
      BY <2>7, PricesAreGiven
    <3> HIDE DEF facts, prices, given
    <3> QED BY <2>5, <3>1, <3>2 DEF facts, given
  <2>8. /\ \A d \in provisional'.published :
              /\ d.offering \in DOMAIN provisional'.records
              /\ provisional'.records[d.offering][<<"benchmark", d.benchmark>>] = d.score
        /\ artifact' = artifact
    BY <2>1, <2>4, <2>6
  <2>9. ASSUME NEW id \in DOMAIN artifact
        PROVE  /\ Discovery!PricedBy(id, "input_cost", {"prompt", "input"})'
               /\ Discovery!PricedBy(id, "output_cost", {"completion", "output"})'
    <3>1. LET given == Discovery!Given(artifact[id].offering.facts, {"prompt", "input"})
          IN  IF given = {}
              THEN id \in DOMAIN records => <<"price", "input_cost">> \notin DOMAIN records[id]
              ELSE records[id][<<"price", "input_cost">>] \in given
      BY <2>7
    <3>2. LET given == Discovery!Given(artifact[id].offering.facts, {"completion", "output"})
          IN  IF given = {}
              THEN id \in DOMAIN records => <<"price", "output_cost">> \notin DOMAIN records[id]
              ELSE records[id][<<"price", "output_cost">>] \in given
      BY <2>7
    <3> QED BY <2>4, <2>8, <3>1, <3>2 DEF Discovery!PricedBy
  <2> QED BY <2>8, <2>9 DEF Discovery!EvidenceStaysApart
<1> QED BY <1>1, <1>2 DEF Discovery!Provide

\* What is decided of what nobody evaluated is marked.
LEMMA DecidedIsMarked ==
    ASSUME NEW o, o.quality \in {None, "reported"}
    PROVE  Discovery!AllMarked([p \in Discovery!Policies |-> Discovery!Decide(o, p)])
BY DEF Discovery!AllMarked, Discovery!Decide, Discovery!Admit, Discovery!Exclude,
   Discovery!Policies

\* Where nothing is fetched, what was found stays the latest.
LEMMA FoundStaysLatest ==
    ASSUME admission' = admission, FoundIn(served', offerings')
    PROVE  Discovery!FoundIsLatest'
BY DEF Discovery!FoundIsLatest, Discovery!Told, Discovery!IdTold, Discovery!ToldLast,
   Discovery!ToldLater, Discovery!OfferingTold, Discovery!ItemTold, FoundIn, LastIn, ToldIn,
   TakenOf, IdIn, OfferingIn

LEMMA StepKeepsDiscoveryInv ==
    ASSUME Discovery!DiscoveryInv, [Discovery!Next]_discoveryVars
    PROVE  Discovery!DiscoveryInv'
<1> USE DEF Discovery!DiscoveryInv
<1>1. ASSUME admission' = admission, served' = served, offerings' = offerings
      PROVE  Discovery!FoundIsLatest'
  BY <1>1, FoundInSays, FoundStaysLatest
<1>2. ASSUME artifact' = artifact PROVE Discovery!NeverUnmarked'
  BY <1>2 DEF Discovery!NeverUnmarked
<1>3. ASSUME artifact' = artifact, provisional' = provisional
      PROVE  Discovery!EvidenceStaysApart'
  BY <1>3 DEF Discovery!EvidenceStaysApart, Discovery!PricedBy
<1>4. ASSUME artifact' = artifact, offerings' = offerings,
             phase' = phase \/ phase' = "error" \/ phase = "discovered"
      PROVE  Discovery!ArtifactIsOfFound'
  BY <1>4 DEF Discovery!ArtifactIsOfFound
<1>5. CASE UNCHANGED discoveryVars
  BY <1>1, <1>2, <1>3, <1>4, <1>5 DEF discoveryVars
<1>6. CASE Discovery!Fail
  BY <1>1, <1>2, <1>3, <1>4, <1>6 DEF Discovery!Fail
<1>7. ASSUME NEW items \in Responses, Discovery!Fetch(items) PROVE Discovery!DiscoveryInv'
  <2> DEFINE url == Head(todo)
             Served == [url : {Catalog} \cup Feeds, items : Responses]
  <2>1. /\ phase = "fetching" /\ phase' = phase /\ todo # << >> /\ todo' = Tail(todo)
        /\ artifact' = artifact /\ provisional' = provisional /\ admission' = admission
        /\ offerings' = Discovery!Merge(offerings, url, items)
        /\ served' = Append(served, [url |-> url, items |-> items])
    BY <1>7 DEF Discovery!Fetch
  <2>2. /\ todo \in Seq({Catalog} \cup Feeds) /\ served \in Seq(Served)
        /\ artifact = None /\ provisional = None
    BY <2>1
  <2>3. url \in {Catalog} \cup Feeds /\ todo' \in Seq({Catalog} \cup Feeds)
    BY <2>1, <2>2
  <2>4. [url |-> url, items |-> items] \in Served
    BY <2>3
  <2>5. Len(items) \in Nat /\ DOMAIN items = 1 .. Len(items)
    BY ResponsesPossible DEF Discovery!ResponsesArePossible
  <2>6. FoundIn(served, offerings)
    BY FoundInSays
  <2> HIDE DEF url, Served
  <2> DEFINE n == Len(served) + 1
  <2>7. n \in Nat /\ served' \in Seq(Served) /\ Tells(served, served', url, items, n)
    BY <2>1, <2>2, <2>4, FetchedIsTold
  <2> HIDE DEF n
  <2>8. FoundIn(served', offerings')
    BY <2>1, <2>5, <2>6, <2>7, MergedIsLatest
  <2>10. Discovery!FoundIsLatest'
    BY <2>1, <2>8, FoundStaysLatest
  <2>11. Discovery!ArtifactIsOfFound'
    BY <2>1, <2>2 DEF Discovery!ArtifactIsOfFound
  <2> QED BY <1>2, <1>3, <2>1, <2>2, <2>3, <2>7, <2>10, <2>11 DEF Served
<1>8. CASE Discovery!Finish
  <2>1. /\ phase = "fetching" /\ provisional = None /\ provisional' = None /\ artifact = None
        /\ todo' = todo /\ served' = served /\ offerings' = offerings /\ admission' = admission
        /\ phase' \in {"discovered", "error"}
    BY <1>8 DEF Discovery!Finish
  <2>2. CASE phase' = "error" /\ artifact' = artifact
    BY <1>1, <1>2, <1>3, <1>4, <2>1, <2>2
  <2>3. CASE artifact' = [id \in DOMAIN offerings |->
                  [offering |-> offerings[id],
                   admissions |-> [p \in Discovery!Policies |-> Discovery!Decide(offerings[id], p)],
                   uncertain |-> offerings[id].admission # "review"]]
    <3>1. Discovery!ArtifactIsOfFound'
      BY <2>1, <2>3 DEF Discovery!ArtifactIsOfFound
    <3>2. ASSUME NEW id \in DOMAIN offerings
          PROVE  /\ offerings[id].quality \in {None, "reported"}
                 /\ artifact'[id].admissions =
                       [p \in Discovery!Policies |-> Discovery!Decide(offerings[id], p)]
      BY <2>3 DEF Discovery!FoundIsLatest
    <3>3. DOMAIN artifact' = DOMAIN offerings
      BY <2>3
    <3>4. ASSUME NEW id \in DOMAIN offerings PROVE Discovery!AllMarked(artifact'[id].admissions)
      <4>1. Discovery!AllMarked([p \in Discovery!Policies |-> Discovery!Decide(offerings[id], p)])
        BY <3>2, DecidedIsMarked
      <4> QED BY <3>2, <4>1
    <3>5. Discovery!NeverUnmarked'
      BY <3>3, <3>4 DEF Discovery!NeverUnmarked
    <3>6. Discovery!EvidenceStaysApart'
      BY <2>1 DEF Discovery!EvidenceStaysApart
    <3> QED BY <1>1, <2>1, <3>1, <3>5, <3>6
  <2> QED BY <1>8, <2>2, <2>3 DEF Discovery!Finish
<1>9. ASSUME NEW published \in Benchmarks, Discovery!Provide(published)
      PROVE  Discovery!DiscoveryInv'
  <2>1. /\ phase = "discovered" /\ phase' # "fetching" /\ artifact' = artifact
        /\ offerings' = offerings /\ todo' = todo /\ served' = served /\ admission' = admission
    BY <1>9 DEF Discovery!Provide
  <2>2. Discovery!EvidenceStaysApart'
    BY <1>9, ProvidedIsApart
  <2> QED BY <1>1, <1>2, <1>4, <2>1, <2>2
<1> QED BY <1>5, <1>6, <1>7, <1>8, <1>9 DEF Discovery!Next

LEMMA DiscoveryInvSays ==
    Discovery!DiscoveryInv =>
        Discovery!LatestOfEverySource /\ Discovery!NeverUnmarked /\ Discovery!EvidenceStaysApart
<1>1. ASSUME NEW t \in Discovery!Told, Discovery!FoundIsLatest
      PROVE  Discovery!IdTold(t) \in DOMAIN offerings
  BY <1>1 DEF Discovery!FoundIsLatest
<1> QED BY <1>1 DEF Discovery!DiscoveryInv, Discovery!LatestOfEverySource,
           Discovery!ArtifactIsOfFound, Discovery!FoundIsLatest

----------------------------------------------------------------------------
\* Composition.

LEMMA SameRowIsEquivalence ==
    \A r, t, u :
        /\ Composition!SameRow(r, r)
        /\ Composition!SameRow(r, t) => Composition!SameRow(t, r)
        /\ Composition!SameRow(r, t) /\ Composition!SameRow(t, u) => Composition!SameRow(r, u)
BY DEF Composition!SameRow, Composition!SameSignals, Composition!SameMetadata,
   Composition!SameObservation, Composition!Same

LEMMA SameObservationIsEquivalence ==
    \A v, w, y :
        /\ Composition!SameObservation(v, v)
        /\ Composition!SameObservation(v, w) => Composition!SameObservation(w, v)
        /\ Composition!SameObservation(v, w) /\ Composition!SameObservation(w, y)
              => Composition!SameObservation(v, y)
        /\ Composition!Same(v, v)
        /\ Composition!Same(v, w) => Composition!Same(w, v)
        /\ Composition!Same(v, w) /\ Composition!Same(w, y) => Composition!Same(v, y)
BY DEF Composition!SameObservation, Composition!Same

\* The signals of a row with the sources they have by default.
LEMMA EffectiveOfRow ==
    ASSUME NEW r, Composition!Observes(r), NEW s \in Signals
    PROVE  LET v == r.signals[s]
               w == Composition!Effective(r)[s]
           IN  /\ v = Missing => w = Missing
               /\ v # Missing =>
                     /\ w # Missing /\ w.num = v.num
                     /\ w = [num |-> w.num, spelling |-> w.spelling, source |-> w.source]
                     /\ v.source # NoSource => w.source = v.source
                     /\ v.source = NoSource => w.source = r.default
<1> DEFINE v == r.signals[s]
<1>1. v # Missing => /\ v = [num |-> v.num, spelling |-> v.spelling, source |-> v.source]
                     /\ Composition!Effective(r)[s] # Missing
  BY DEF Composition!Observes
<1>2. Composition!Effective(r)[s] =
        IF v # Missing /\ v.source = NoSource THEN [v EXCEPT !.source = r.default] ELSE v
  BY DEF Composition!Effective
<1> HIDE DEF v
<1>3. CASE v = Missing
  BY <1>2, <1>3 DEF v
<1>4. CASE v # Missing /\ v.source # NoSource
  BY <1>1, <1>2, <1>4 DEF v
<1>5. CASE v # Missing /\ v.source = NoSource
  <2>1. [v EXCEPT !.source = r.default] =
           [num |-> v.num, spelling |-> v.spelling, source |-> r.default]
    BY <1>1, <1>5
  <2> QED BY <1>1, <1>2, <1>5, <2>1 DEF v
<1> QED BY <1>3, <1>4, <1>5

LEMMA SameRowsAreEffectivelySame ==
    ASSUME NEW r, NEW t, Composition!Observes(r), Composition!Observes(t),
           Composition!SameRow(r, t),
           NEW s \in Signals
    PROVE  Composition!SameObservation(Composition!Effective(r)[s], Composition!Effective(t)[s])
<1>1. /\ r.default = t.default
      /\ Composition!SameObservation(r.signals[s], t.signals[s])
  BY DEF Composition!SameRow, Composition!SameSignals
<1>2. /\ r.signals[s] = Missing <=> t.signals[s] = Missing
      /\ r.signals[s] # Missing =>
            r.signals[s].num = t.signals[s].num /\ r.signals[s].source = t.signals[s].source
  BY <1>1 DEF Composition!SameObservation, Composition!Same
<1> DEFINE v == Composition!Effective(r)[s]
           w == Composition!Effective(t)[s]
<1>3. /\ r.signals[s] = Missing => v = Missing
      /\ r.signals[s] # Missing =>
            /\ v # Missing /\ v.num = r.signals[s].num
            /\ r.signals[s].source # NoSource => v.source = r.signals[s].source
            /\ r.signals[s].source = NoSource => v.source = r.default
  BY EffectiveOfRow
<1>4. /\ t.signals[s] = Missing => w = Missing
      /\ t.signals[s] # Missing =>
            /\ w # Missing /\ w.num = t.signals[s].num
            /\ t.signals[s].source # NoSource => w.source = t.signals[s].source
            /\ t.signals[s].source = NoSource => w.source = t.default
  BY EffectiveOfRow
<1> HIDE DEF v, w
<1>5. Composition!SameObservation(v, w)
  BY <1>1, <1>2, <1>3, <1>4 DEF Composition!SameObservation, Composition!Same
<1> QED BY <1>5 DEF v, w

LEMMA SourcesOfRow ==
    ASSUME NEW r, Composition!Observes(r)
    PROVE  Composition!SourcesOf(r) =
              ({r.default} \cup Composition!SourcesOfSignals(Composition!Effective(r))) \ {NoSource}
<1> DEFINE E(s) == Composition!Effective(r)[s]
<1>1. ASSUME NEW s \in Signals
      PROVE  /\ r.signals[s] = Missing <=> E(s) = Missing
             /\ r.signals[s] # Missing =>
                   /\ r.signals[s].source # NoSource => E(s).source = r.signals[s].source
                   /\ r.signals[s].source = NoSource => E(s).source = r.default
  BY EffectiveOfRow
<1> HIDE DEF E
<1>2. ASSUME NEW c
      PROVE  c \in Composition!SourcesOf(r) <=>
                /\ c # NoSource
                /\ c = r.default \/ \E s \in Signals : E(s) # Missing /\ c = E(s).source
  BY <1>1 DEF Composition!SourcesOf, Composition!SourcesOfSignals
<1>3. Composition!SourcesOfSignals(Composition!Effective(r)) =
         {E(s).source : s \in {u \in Signals : E(u) # Missing}}
  BY DEF Composition!SourcesOfSignals, E
<1> QED BY <1>2, <1>3

LEMMA SymmetricConflict ==
    \A r, t : Composition!RowConflict(r, t) <=> Composition!RowConflict(t, r)
<1> SUFFICES ASSUME NEW r, NEW t, Composition!RowConflict(r, t)
             PROVE  Composition!RowConflict(t, r)
  OBVIOUS
<1>1. ~Composition!SameRow(t, r)
  BY SameRowIsEquivalence DEF Composition!RowConflict
<1>2. Composition!SignalConflict(Composition!Effective(r), Composition!Effective(t))
         => Composition!SignalConflict(Composition!Effective(t), Composition!Effective(r))
  BY SameObservationIsEquivalence DEF Composition!SignalConflict
<1>3. Composition!MetadataConflict(r.metadata, t.metadata)
         => Composition!MetadataConflict(t.metadata, r.metadata)
  BY SameObservationIsEquivalence DEF Composition!MetadataConflict
<1> QED BY <1>1, <1>2, <1>3 DEF Composition!RowConflict

\* Rows that say the same do not conflict, in any of the ways rows can.
LEMMA SameRowsAgree ==
    ASSUME NEW r, NEW t, Composition!Observes(r), Composition!IsRow(t), Composition!SameRow(r, t)
    PROVE  /\ r.key = t.key
           /\ ~Composition!SignalConflict(Composition!Effective(r), Composition!Effective(t))
           /\ ~Composition!MetadataConflict(r.metadata, t.metadata)
<1>1. ~Composition!SignalConflict(Composition!Effective(r), Composition!Effective(t))
  BY SameRowsAreEffectivelySame DEF Composition!IsRow, Composition!SignalConflict
<1>2. \A k \in Paths : Composition!Same(r.metadata[k], t.metadata[k])
  BY DEF Composition!SameRow, Composition!SameMetadata
<1>3. \A e \in Within : /\ e[1] \in Paths /\ e[2] \in Paths
                        /\ t.metadata[e[1]] = Missing \/ t.metadata[e[2]] = Missing
  BY CatalogsPossible DEF Composition!CatalogsArePossible, Composition!IsRow
<1>4. ~Composition!MetadataConflict(r.metadata, t.metadata)
  BY <1>2, <1>3 DEF Composition!MetadataConflict, Composition!Same
<1> QED BY <1>1, <1>4 DEF Composition!SameRow

\* What represents rows conflicts with another exactly if one of them does.
LEMMA RepresentedConflicts ==
    ASSUME NEW R, NEW P, P # {}, Composition!Represents(R, P),
           \A r \in P : Composition!IsRow(r), NEW t, Composition!IsRow(t)
    PROVE  Composition!RowConflict(R, t) <=> \E r \in P : Composition!RowConflict(r, t)
<1> DEFINE E(r) == Composition!Effective(r)
<1>1. Composition!Observes(R) /\ \A r \in P : Composition!Observes(r)
  BY DEF Composition!Represents, Composition!IsRow
<1>2. \A r : Composition!Observes(r) =>
         (Composition!RowConflict(r, t) <=>
             \/ r.key # t.key
             \/ Composition!SignalConflict(E(r), E(t))
             \/ Composition!MetadataConflict(r.metadata, t.metadata))
  BY SameRowsAgree DEF Composition!RowConflict
<1>3. \A r \in P : R.key = r.key
  BY DEF Composition!Represents
<1>4. ASSUME Composition!SignalConflict(E(R), E(t))
      PROVE  \E r \in P : Composition!SignalConflict(E(r), E(t))
  BY <1>4 DEF Composition!Represents, Composition!SignalConflict
<1>5. ASSUME NEW r \in P, Composition!SignalConflict(E(r), E(t))
      PROVE  Composition!SignalConflict(E(R), E(t))
  <2>1. PICK s \in Signals : /\ E(r)[s] # Missing /\ E(t)[s] # Missing
                             /\ ~Composition!SameObservation(E(r)[s], E(t)[s])
    BY <1>5 DEF Composition!SignalConflict
  <2>2. Composition!SameObservation(E(r)[s], E(R)[s])
    BY <2>1 DEF Composition!Represents
  <2>3. E(R)[s] # Missing
    BY <2>1, <2>2 DEF Composition!SameObservation, Composition!Same
  <2>4. ~Composition!SameObservation(E(R)[s], E(t)[s])
    BY <2>1, <2>2, SameObservationIsEquivalence
  <2> QED BY <2>1, <2>3, <2>4 DEF Composition!SignalConflict
<1>6. \A e \in Within : e[1] \in Paths /\ e[2] \in Paths
  BY CatalogsPossible DEF Composition!CatalogsArePossible
<1>7. /\ \A k \in Paths : R.metadata[k] # Missing =>
            \E r \in P : R.metadata[k] = r.metadata[k]
      /\ \A k \in Paths, r \in P : r.metadata[k] # Missing =>
            Composition!Same(r.metadata[k], R.metadata[k]) /\ R.metadata[k] # Missing
  BY DEF Composition!Represents, Composition!Same
<1>8. ASSUME Composition!MetadataConflict(R.metadata, t.metadata)
      PROVE  \E r \in P : Composition!MetadataConflict(r.metadata, t.metadata)
  BY <1>6, <1>7, <1>8 DEF Composition!MetadataConflict
<1>9. ASSUME NEW r \in P, Composition!MetadataConflict(r.metadata, t.metadata)
      PROVE  Composition!MetadataConflict(R.metadata, t.metadata)
  <2>1. \A k \in Paths : r.metadata[k] # Missing /\ ~Composition!Same(r.metadata[k], t.metadata[k])
           => R.metadata[k] # Missing /\ ~Composition!Same(R.metadata[k], t.metadata[k])
    BY <1>7, SameObservationIsEquivalence
  <2> QED BY <1>6, <1>7, <1>9, <2>1 DEF Composition!MetadataConflict
<1> HIDE DEF E
<1> QED BY <1>1, <1>2, <1>3, <1>4, <1>5, <1>8, <1>9

\* The sources of a row that represents others.
LEMMA RepresentedSources ==
    ASSUME NEW R, NEW P, P # {}, Composition!Represents(R, P)
    PROVE  Composition!SourcesOf(R) = Composition!ExpectedSources(P)
<1> DEFINE E(r) == Composition!Effective(r)
           S(r) == Composition!SourcesOfSignals(E(r))
<1>1. S(R) = UNION {S(r) : r \in P}
  <2>1. ASSUME NEW c \in S(R) PROVE \E r \in P : c \in S(r)
    BY <2>1 DEF Composition!SourcesOfSignals, Composition!Represents
  <2>2. ASSUME NEW r \in P, NEW c \in S(r) PROVE c \in S(R)
    <3>1. PICK s \in Signals : E(r)[s] # Missing /\ c = E(r)[s].source
      BY <2>2 DEF Composition!SourcesOfSignals
    <3>2. E(R)[s] # Missing /\ c = E(R)[s].source
      BY <3>1 DEF Composition!Represents, Composition!SameObservation, Composition!Same
    <3> QED BY <3>1, <3>2 DEF Composition!SourcesOfSignals
  <2> HIDE DEF S
  <2> QED BY <2>1, <2>2
<1>2. Composition!SourcesOf(R) = ({R.default} \cup S(R)) \ {NoSource}
  BY SourcesOfRow DEF Composition!Represents
<1>3. CASE Composition!AllSame(P)
  <2>1. {r.default : r \in P} = {R.default}
    BY <1>3 DEF Composition!Represents, Composition!AllSame, Composition!SameRow
  <2> QED BY <1>1, <1>2, <1>3, <2>1 DEF Composition!ExpectedSources
<1>4. CASE ~Composition!AllSame(P)
  <2>1. R.default = NoSource
    BY <1>4 DEF Composition!Represents
  <2> QED BY <1>1, <1>2, <1>4, <2>1 DEF Composition!ExpectedSources
<1> QED BY <1>3, <1>4

LEMMA MergedRepresents ==
    ASSUME NEW R, NEW P, P # {}, Composition!Represents(R, P),
           \A r \in P : Composition!IsRow(r),
           NEW t, Composition!IsRow(t), ~Composition!RowConflict(R, t)
    PROVE  Composition!Represents(Composition!MergedRow(R, t), P \cup {t})
<1> DEFINE E(r) == Composition!Effective(r)
           M == Composition!MergedRow(R, t)
           Q == P \cup {t}
<1>0. Composition!Observes(R) /\ Composition!Observes(t)
  BY DEF Composition!Represents, Composition!IsRow
<1>1. Composition!AllSame(Q) => R \in P /\ Composition!SameRow(R, t)
  BY DEF Composition!AllSame, Composition!Represents
<1>2. CASE Composition!SameRow(R, t)
  <2>1. M = R
    BY <1>2 DEF Composition!MergedRow
  <2>2. R.key = t.key
    BY <1>2 DEF Composition!SameRow
  <2>3. \A s \in Signals : Composition!SameObservation(E(t)[s], E(R)[s])
    BY <1>0, <1>2, SameRowsAreEffectivelySame, SameObservationIsEquivalence
  <2>4. \A k \in Paths : Composition!Same(t.metadata[k], R.metadata[k])
    BY <1>2, SameObservationIsEquivalence DEF Composition!SameRow,
       Composition!SameMetadata
  <2>5. ASSUME ~Composition!AllSame(Q) PROVE R.default = NoSource
    <3>1. ~Composition!AllSame(P)
      <4>1. SUFFICES ASSUME Composition!AllSame(P) PROVE FALSE
        OBVIOUS
      <4>2. R \in P
        BY <4>1 DEF Composition!Represents
      <4>3. \A r \in P : Composition!SameRow(r, t) /\ Composition!SameRow(t, r)
        BY <1>2, <4>1, <4>2, SameRowIsEquivalence DEF Composition!AllSame
      <4>4. Composition!AllSame(Q)
        BY <4>1, <4>3, SameRowIsEquivalence DEF Composition!AllSame
      <4> QED BY <2>5, <4>4
    <3> QED BY <3>1 DEF Composition!Represents
  <2> HIDE DEF E, M
  <2>6. Composition!Represents(R, Q)
    BY <1>1, <2>2, <2>3, <2>4, <2>5 DEF Composition!Represents, E
  <2> QED BY <2>1, <2>6 DEF M
<1>3. CASE ~Composition!SameRow(R, t)
  <2>1. /\ M.key = R.key /\ M.default = NoSource
        /\ \A s \in Signals : M.signals[s] = IF t.signals[s] # Missing THEN E(t)[s] ELSE E(R)[s]
        /\ \A k \in Paths : M.metadata[k] = IF R.metadata[k] # Missing THEN R.metadata[k]
                                             ELSE t.metadata[k]
    BY <1>3 DEF Composition!MergedRow
  <2>2. /\ R.key = t.key
        /\ ~Composition!SignalConflict(E(R), E(t))
        /\ ~Composition!MetadataConflict(R.metadata, t.metadata)
    BY <1>3 DEF Composition!RowConflict
  <2>3. ASSUME NEW s \in Signals
        PROVE  /\ E(M)[s] = M.signals[s]
               /\ E(M)[s] = IF E(t)[s] # Missing THEN E(t)[s] ELSE E(R)[s]
               /\ E(M)[s] # Missing => E(M)[s] = [num |-> E(M)[s].num,
                      spelling |-> E(M)[s].spelling, source |-> E(M)[s].source]
    <3>1. /\ t.signals[s] = Missing => E(t)[s] = Missing
          /\ t.signals[s] # Missing => /\ E(t)[s] # Missing
                                       /\ E(t)[s] = [num |-> E(t)[s].num,
                                             spelling |-> E(t)[s].spelling, source |-> E(t)[s].source]
      BY <1>0, EffectiveOfRow
    <3>2. E(R)[s] # Missing => E(R)[s] = [num |-> E(R)[s].num,
             spelling |-> E(R)[s].spelling, source |-> E(R)[s].source]
      BY <1>0, EffectiveOfRow
    <3> DEFINE v == M.signals[s]
    <3>3. v = IF E(t)[s] # Missing THEN E(t)[s] ELSE E(R)[s]
      BY <2>1, <3>1
    <3>4. v # Missing => v = [num |-> v.num, spelling |-> v.spelling, source |-> v.source]
      BY <3>1, <3>2, <3>3
    <3>5. E(M)[s] = IF v # Missing /\ v.source = NoSource THEN [v EXCEPT !.source = M.default]
                    ELSE v
      BY DEF Composition!Effective
    <3>6. M.default = NoSource
      BY <2>1
    <3> HIDE DEF v, M, E
    <3>7. v # Missing /\ v.source = NoSource => [v EXCEPT !.source = NoSource] = v
      BY <3>4
    <3>8. E(M)[s] = v
      BY <3>5, <3>6, <3>7
    <3> QED BY <3>3, <3>4, <3>8 DEF v
  <2>4. Composition!Observes(M)
    BY <2>3 DEF Composition!Observes
  <2>5. ASSUME NEW s \in Signals
        PROVE  /\ E(M)[s] = Missing \/ \E p \in Q : E(M)[s] = E(p)[s]
               /\ \A p \in Q : E(p)[s] # Missing => Composition!SameObservation(E(p)[s], E(M)[s])
    <3>1. E(R)[s] # Missing /\ E(t)[s] # Missing => Composition!SameObservation(E(R)[s], E(t)[s])
      BY <2>2 DEF Composition!SignalConflict
    <3>2. E(R)[s] = Missing \/ \E p \in P : E(R)[s] = E(p)[s]
      BY DEF Composition!Represents
    <3>3. \A p \in P : E(p)[s] # Missing =>
             E(R)[s] # Missing /\ Composition!SameObservation(E(p)[s], E(R)[s])
      BY DEF Composition!Represents, Composition!SameObservation, Composition!Same
    <3>4. E(M)[s] = IF E(t)[s] # Missing THEN E(t)[s] ELSE E(R)[s]
      BY <2>3
    <3> HIDE DEF E, M
    <3> QED BY <3>1, <3>2, <3>3, <3>4, SameObservationIsEquivalence
  <2>6. ASSUME NEW k \in Paths
        PROVE  /\ M.metadata[k] = Missing \/ \E p \in Q : M.metadata[k] = p.metadata[k]
               /\ \A p \in Q : p.metadata[k] # Missing =>
                     Composition!Same(p.metadata[k], M.metadata[k])
    <3>1. R.metadata[k] # Missing /\ t.metadata[k] # Missing =>
             Composition!Same(R.metadata[k], t.metadata[k])
      BY <2>2 DEF Composition!MetadataConflict
    <3>2. R.metadata[k] = Missing \/ \E p \in P : R.metadata[k] = p.metadata[k]
      BY DEF Composition!Represents
    <3>3. \A p \in P : p.metadata[k] # Missing =>
             R.metadata[k] # Missing /\ Composition!Same(p.metadata[k], R.metadata[k])
      BY DEF Composition!Represents, Composition!Same
    <3>4. M.metadata[k] = IF R.metadata[k] # Missing THEN R.metadata[k] ELSE t.metadata[k]
      BY <2>1
    <3> HIDE DEF M
    <3> QED BY <3>1, <3>2, <3>3, <3>4, SameObservationIsEquivalence
  <2>7. \A p \in Q : M.key = p.key
    BY <2>1, <2>2 DEF Composition!Represents
  <2>8. ~Composition!AllSame(Q)
    BY <1>1, <1>3
  <2>9. M.default = NoSource
    BY <2>1
  <2> HIDE DEF M, E, Q
  <2>10. Composition!Represents(M, Q)
    BY <2>4, <2>5, <2>6, <2>7, <2>8, <2>9 DEF Composition!Represents, E
  <2> QED BY <2>10 DEF M, Q
<1> QED BY <1>2, <1>3

LEMMA OneRowRepresentsItself ==
    ASSUME NEW t, Composition!IsRow(t) PROVE Composition!Represents(t, {t})
BY SameRowIsEquivalence, SameObservationIsEquivalence DEF Composition!Represents,
   Composition!AllSame, Composition!IsRow

LEMMA PartsAreRows ==
    ASSUME Composition!CompositionInv, NEW o
    PROVE  /\ \A r \in Composition!Parts(o) : Composition!IsRow(r)
           /\ Composition!Parts(o) \subseteq Composition!RowsFor(o)
           /\ o \in DOMAIN rows <=> Composition!Parts(o) # {}
           /\ \A n \in rest : o \in DOMAIN inputs[n].rows =>
                 Composition!IsRow(inputs[n].rows[o]) /\ inputs[n].rows[o] \in Composition!RowsFor(o)
<1>1. \A r \in Composition!Parts(o) : Composition!IsRow(r)
  BY DEF Composition!CompositionInv, Composition!Parts
<1>2. Composition!Parts(o) \subseteq Composition!RowsFor(o)
  BY DEF Composition!Parts, Composition!RowsFor
<1>3. o \in DOMAIN rows <=> \E n \in Names \ rest : o \in DOMAIN inputs[n].rows
  BY DEF Composition!CompositionInv
<1>4. Composition!Parts(o) # {} <=> \E n \in Names \ rest : o \in DOMAIN inputs[n].rows
  BY DEF Composition!Parts
<1>5. \A n \in rest : o \in DOMAIN inputs[n].rows =>
         Composition!IsRow(inputs[n].rows[o]) /\ inputs[n].rows[o] \in Composition!RowsFor(o)
  BY DEF Composition!CompositionInv, Composition!RowsFor
<1> QED BY <1>1, <1>2, <1>3, <1>4, <1>5

\* A row that is joined represents one part more.
Including(o, n) ==
    IF o \in DOMAIN inputs[n].rows THEN Composition!Parts(o) \cup {inputs[n].rows[o]}
    ELSE Composition!Parts(o)

LEMMA JoinedRepresents ==
    ASSUME Composition!CompositionInv, NEW n \in rest,
           NEW o \in DOMAIN rows \cup DOMAIN inputs[n].rows,
           o \in DOMAIN rows /\ o \in DOMAIN inputs[n].rows =>
              ~Composition!RowConflict(rows[o], inputs[n].rows[o])
    PROVE  Composition!Represents(Composition!Joined(o, inputs[n].rows), Including(o, n))
<1> DEFINE t == inputs[n].rows[o]
           P == Composition!Parts(o)
<1>1. o \in DOMAIN rows => Composition!Represents(rows[o], P)
  BY DEF Composition!CompositionInv
<1>2. /\ \A r \in P : Composition!IsRow(r)
      /\ o \in DOMAIN rows <=> P # {}
      /\ o \in DOMAIN inputs[n].rows => Composition!IsRow(t)
  BY PartsAreRows
<1> HIDE DEF P
<1>3. CASE o \notin DOMAIN rows
  <2>1. P = {} /\ o \in DOMAIN inputs[n].rows
    BY <1>2, <1>3
  <2>2. Including(o, n) = {t} /\ Composition!Joined(o, inputs[n].rows) = t
    BY <1>3, <2>1 DEF Including, Composition!Joined, P
  <2> QED BY <1>2, <2>1, <2>2, OneRowRepresentsItself
<1>4. CASE o \in DOMAIN rows /\ o \notin DOMAIN inputs[n].rows
  BY <1>1, <1>4 DEF Including, Composition!Joined, P
<1>5. CASE o \in DOMAIN rows /\ o \in DOMAIN inputs[n].rows
  <2>1. /\ Including(o, n) = P \cup {t}
        /\ Composition!Joined(o, inputs[n].rows) = Composition!MergedRow(rows[o], t)
    BY <1>5 DEF Including, Composition!Joined, P
  <2>2. ~Composition!RowConflict(rows[o], t)
    BY <1>5
  <2> HIDE DEF t
  <2>3. Composition!Represents(Composition!MergedRow(rows[o], t), P \cup {t})
    BY <1>1, <1>2, <1>5, <2>2, MergedRepresents DEF t
  <2> QED BY <2>1, <2>3 DEF t
<1> QED BY <1>3, <1>4, <1>5

LEMMA FewerSources ==
    ASSUME NEW P, NEW Q, P \subseteq Q, ~Composition!AllSame(P)
    PROVE  Composition!ExpectedSources(P) \subseteq Composition!ExpectedSources(Q)
BY DEF Composition!ExpectedSources

LEMMA FewerOfferings ==
    ASSUME Composition!CompositionInv, Composition!Cardinality(Composition!AllOfferings) <= MaxOfferings,
           NEW D \in SUBSET Composition!AllOfferings
    PROVE  Composition!Cardinality(D) <= MaxOfferings
<1>1. IsFiniteSet(Offerings) /\ MaxOfferings \in Nat
  BY CatalogsPossible DEF Composition!CatalogsArePossible, Composition!IsFiniteSet,
     IsFiniteSet
<1>2. Composition!AllOfferings \subseteq Offerings
  BY DEF Composition!CompositionInv, Composition!AllOfferings
<1>3. IsFiniteSet(Composition!AllOfferings)
  BY <1>1, <1>2, FS_Subset
<1>4. Cardinality(D) <= Cardinality(Composition!AllOfferings)
  BY <1>3, FS_Subset
<1>5. IsFiniteSet(D) /\ Cardinality(D) \in Nat /\ Cardinality(Composition!AllOfferings) \in Nat
  BY <1>3, FS_Subset, FS_CardinalityType
<1>6. \A A : Composition!Cardinality(A) = Cardinality(A)
  BY DEF Composition!Cardinality, Cardinality
<1> QED BY <1>1, <1>4, <1>5, <1>6

\* Catalogs that compose are never refused on the way.
LEMMA ComposableIsJoined ==
    ASSUME Composition!CompositionInv, Composition!Composable, NEW n \in rest
    PROVE  ~Composition!Conflicts(n)
<1>1. DOMAIN rows \cup DOMAIN inputs[n].rows \subseteq Composition!AllOfferings
  BY DEF Composition!CompositionInv, Composition!AllOfferings
<1>2. Composition!Cardinality(DOMAIN rows \cup DOMAIN inputs[n].rows) <= MaxOfferings
  BY <1>1, FewerOfferings DEF Composition!Composable
<1>3. MaxOfferings \in Nat
  BY CatalogsPossible DEF Composition!CatalogsArePossible
<1>4. ASSUME NEW o \in DOMAIN rows \cap DOMAIN inputs[n].rows
      PROVE  /\ ~Composition!RowConflict(rows[o], inputs[n].rows[o])
             /\ Composition!Consistent(
                   Composition!SourcesOf(Composition!Joined(o, inputs[n].rows)))
  <2> DEFINE P == Composition!Parts(o)
             t == inputs[n].rows[o]
             J == Composition!Joined(o, inputs[n].rows)
             Q == Including(o, n)
  <2>1. /\ \A r \in P : Composition!IsRow(r)
        /\ P # {} /\ P \subseteq Composition!RowsFor(o)
        /\ Composition!IsRow(t) /\ t \in Composition!RowsFor(o)
    BY <1>4, PartsAreRows
  <2>2. Composition!Represents(rows[o], P)
    BY <1>4 DEF Composition!CompositionInv
  <2>3. \A r \in Composition!RowsFor(o), u \in Composition!RowsFor(o) : ~Composition!RowConflict(r, u)
    BY <1>1, <1>4 DEF Composition!Composable
  <2>4. ~Composition!RowConflict(rows[o], t)
    <3> HIDE DEF P, t
    <3> QED BY <2>1, <2>2, <2>3, RepresentedConflicts
  <2>5. Composition!Represents(J, Q)
    BY <1>4, <2>4, JoinedRepresents
  <2>6. Q = P \cup {t}
    BY <1>4 DEF Including
  <2>7. Q # {} /\ Q \subseteq Composition!RowsFor(o) /\ \A r \in Q : Composition!IsRow(r)
    <3> HIDE DEF P, t, Q
    <3> QED BY <2>1, <2>6
  <2> HIDE DEF P, t, J, Q
  <2>8. Composition!Consistent(Composition!SourcesOf(J))
    <3>1. CASE Composition!AllSame(Q)
      <4>1. J \in Q
        BY <2>5, <3>1 DEF Composition!Represents
      <4> QED BY <2>7, <4>1 DEF Composition!IsRow
    <3>2. CASE ~Composition!AllSame(Q)
      <4>1. Composition!SourcesOf(J) = Composition!ExpectedSources(Q)
        BY <2>5, <2>7, RepresentedSources
      <4>2. Composition!ExpectedSources(Q) \subseteq
               Composition!ExpectedSources(Composition!RowsFor(o))
        BY <2>7, <3>2, FewerSources
      <4>3. o \in Composition!AllOfferings
        BY <1>1, <1>4
      <4>4. \A c \in Composition!SourcesOf(J), d \in Composition!SourcesOf(J) :
               c.id = d.id => c = d
        BY <4>1, <4>2, <4>3 DEF Composition!Composable, Composition!Consistent
      <4> QED BY <4>4 DEF Composition!Consistent
    <3> QED BY <3>1, <3>2
  <2> QED BY <2>4, <2>8 DEF t, J
<1>5. ~(Composition!Cardinality(DOMAIN rows \cup DOMAIN inputs[n].rows) > MaxOfferings)
  <2>1. /\ IsFiniteSet(Offerings)
        /\ DOMAIN rows \cup DOMAIN inputs[n].rows \subseteq Offerings
    BY <1>1, CatalogsPossible DEF Composition!CatalogsArePossible,
       Composition!IsFiniteSet, IsFiniteSet, Composition!CompositionInv,
       Composition!AllOfferings
  <2>2. Composition!Cardinality(DOMAIN rows \cup DOMAIN inputs[n].rows) \in Nat
    BY <2>1, FS_Subset, FS_CardinalityType DEF Composition!Cardinality, Cardinality
  <2> QED BY <1>2, <1>3, <2>2
<1> QED BY <1>4, <1>5 DEF Composition!Conflicts

LEMMA InitIsCompositionInv == Composition!Init => Composition!CompositionInv
<1> SUFFICES ASSUME Composition!Init PROVE Composition!CompositionInv
  OBVIOUS
<1>1. PICK catalogs \in CatalogSets : inputs \in [Names -> catalogs]
  BY DEF Composition!Init
<1>2. \A n \in Names : /\ DOMAIN inputs[n].rows \subseteq Offerings
                       /\ \A o \in DOMAIN inputs[n].rows : Composition!IsRow(inputs[n].rows[o])
  BY <1>1, CatalogsPossible DEF Composition!CatalogsArePossible
<1>3. rest = Names /\ status = "composing" /\ DOMAIN rows = {}
  BY DEF Composition!Init, Composition!NoRows
<1>4. Composition!Cardinality({}) = 0 /\ MaxOfferings \in Nat
  BY CatalogsPossible, FS_EmptySet DEF Composition!CatalogsArePossible,
     Composition!Cardinality, Cardinality
<1> QED BY <1>2, <1>3, <1>4 DEF Composition!CompositionInv,
           Composition!OutcomeIsOrderFree

LEMMA JoinKeepsCompositionInv ==
    ASSUME Composition!CompositionInv, NEW n \in Names, Composition!Join(n)
    PROVE  Composition!CompositionInv'
<1>1. /\ n \in rest /\ status = "composing" /\ ~Composition!Conflicts(n)
      /\ rows' = [o \in DOMAIN rows \cup DOMAIN inputs[n].rows |->
                     Composition!Joined(o, inputs[n].rows)]
      /\ rest' = rest \ {n} /\ inputs' = inputs /\ status' = status
  BY DEF Composition!Join
<1>2. Names \ rest' = (Names \ rest) \cup {n}
  BY <1>1
<1>3. DOMAIN rows' = UNION {DOMAIN inputs[k].rows : k \in Names \ rest'}
  BY <1>1, <1>2 DEF Composition!CompositionInv
<1>4. Composition!Cardinality(DOMAIN rows') <= MaxOfferings
  <2>1. /\ IsFiniteSet(Offerings) /\ MaxOfferings \in Nat /\ DOMAIN rows' \subseteq Offerings
    BY <1>1, <1>3, CatalogsPossible DEF Composition!CatalogsArePossible,
       Composition!IsFiniteSet, IsFiniteSet, Composition!CompositionInv
  <2>2. Composition!Cardinality(DOMAIN rows') \in Nat
    BY <2>1, FS_Subset, FS_CardinalityType DEF Composition!Cardinality, Cardinality
  <2>3. ~(Composition!Cardinality(DOMAIN rows') > MaxOfferings)
    BY <1>1 DEF Composition!Conflicts
  <2> QED BY <2>1, <2>2, <2>3
<1>5. ASSUME NEW o PROVE Composition!Parts(o)' = Including(o, n)
  BY <1>1, <1>2 DEF Composition!Parts, Including
<1>6. ASSUME NEW o \in DOMAIN rows'
      PROVE  /\ Composition!Represents(rows'[o], Composition!Parts(o)')
             /\ \A r, t \in Composition!Parts(o)' : ~Composition!RowConflict(r, t)
  <2>1. o \in DOMAIN rows \cup DOMAIN inputs[n].rows
    BY <1>1
  <2>2. o \in DOMAIN rows /\ o \in DOMAIN inputs[n].rows =>
           ~Composition!RowConflict(rows[o], inputs[n].rows[o])
    BY <1>1 DEF Composition!Conflicts
  <2>3. Composition!Represents(Composition!Joined(o, inputs[n].rows), Including(o, n))
    BY <1>1, <2>1, <2>2, JoinedRepresents
  <2> DEFINE P == Composition!Parts(o)
             u == inputs[n].rows[o]
  <2>4. \A r, t \in P : ~Composition!RowConflict(r, t)
    BY PartsAreRows DEF Composition!CompositionInv
  <2>5. /\ \A r \in P : Composition!IsRow(r)
        /\ o \in DOMAIN rows <=> P # {}
        /\ o \in DOMAIN inputs[n].rows => Composition!IsRow(u)
    BY <1>1, PartsAreRows
  <2>6. o \in DOMAIN rows => Composition!Represents(rows[o], P)
    BY DEF Composition!CompositionInv
  <2>7. \A r, t \in Including(o, n) : ~Composition!RowConflict(r, t)
    <3>1. CASE o \notin DOMAIN inputs[n].rows
      BY <2>4, <3>1 DEF Including
    <3>2. CASE o \in DOMAIN inputs[n].rows
      <4>1. Including(o, n) = P \cup {u}
        BY <3>2 DEF Including
      <4>2. ~Composition!RowConflict(u, u)
        BY SameRowIsEquivalence DEF Composition!RowConflict
      <4> HIDE DEF P, u
      <4>3. \A r \in P : ~Composition!RowConflict(r, u)
        BY <2>2, <2>5, <2>6, <3>2, RepresentedConflicts DEF u
      <4>4. \A r \in P : ~Composition!RowConflict(u, r)
        BY <4>3, SymmetricConflict
      <4> QED BY <2>4, <4>1, <4>2, <4>3, <4>4
    <3> QED BY <3>1, <3>2
  <2>8. rows'[o] = Composition!Joined(o, inputs[n].rows)
    BY <1>1, <2>1
  <2> QED BY <1>5, <2>3, <2>7, <2>8
<1>7. Composition!OutcomeIsOrderFree'
  BY <1>1 DEF Composition!OutcomeIsOrderFree
<1>8. \A r, t : Composition!RowConflict(r, t)' <=> Composition!RowConflict(r, t)
  OBVIOUS
<1> QED BY <1>1, <1>3, <1>4, <1>6, <1>7 DEF Composition!CompositionInv

\* What is composed at the end is what the inputs say, whatever the order was.
LEMMA ComposedAtTheEnd ==
    ASSUME Composition!CompositionInv, rest = {}, Composition!OneWorkload
    PROVE  Composition!Composable <=> Composition!Consistent(Composition!CatalogSources(rows))
<1>1. DOMAIN rows = Composition!AllOfferings
  BY DEF Composition!CompositionInv, Composition!AllOfferings
<1>2. \A o : Composition!Parts(o) = Composition!RowsFor(o)
  BY DEF Composition!Parts, Composition!RowsFor
<1>3. Composition!Cardinality(Composition!AllOfferings) <= MaxOfferings
  BY <1>1 DEF Composition!CompositionInv
<1>4. \A o \in Composition!AllOfferings : \A r, t \in Composition!RowsFor(o) :
         ~Composition!RowConflict(r, t)
  BY <1>1, <1>2 DEF Composition!CompositionInv
<1>5. \A o \in Composition!AllOfferings :
         Composition!SourcesOf(rows[o]) = Composition!ExpectedSources(Composition!RowsFor(o))
  BY <1>1, <1>2, PartsAreRows, RepresentedSources DEF Composition!CompositionInv
<1>6. Composition!CatalogSources(rows) =
         UNION {Composition!ExpectedSources(Composition!RowsFor(o)) : o \in Composition!AllOfferings}
  BY <1>1, <1>5 DEF Composition!CatalogSources
<1> QED BY <1>3, <1>4, <1>6 DEF Composition!Composable

LEMMA StepKeepsCompositionInv ==
    Composition!CompositionInv /\ [Composition!Next]_compositionVars
        => Composition!CompositionInv'
<1> SUFFICES ASSUME Composition!CompositionInv, [Composition!Next]_compositionVars
             PROVE  Composition!CompositionInv'
  OBVIOUS
<1>1. CASE \E n \in Names : Composition!Join(n)
  BY <1>1, JoinKeepsCompositionInv
<1>2. ASSUME UNCHANGED <<inputs, rest, rows>>,
             \/ status' = status
             \/ status' = "done" /\ Composition!Composable
             \/ status' = "error" /\ ~Composition!Composable
      PROVE  Composition!CompositionInv'
  <2>1. /\ Composition!OneWorkload' <=> Composition!OneWorkload
        /\ Composition!AllOfferings' = Composition!AllOfferings
        /\ \A o : Composition!RowsFor(o)' = Composition!RowsFor(o)
        /\ \A o : Composition!Parts(o)' = Composition!Parts(o)
    BY <1>2 DEF Composition!OneWorkload, Composition!AllOfferings, Composition!RowsFor,
       Composition!Parts
  <2>2. Composition!Composable' <=> Composition!Composable
    BY <2>1 DEF Composition!Composable
  <2>3. Composition!OutcomeIsOrderFree'
    BY <1>2, <2>2 DEF Composition!OutcomeIsOrderFree, Composition!CompositionInv
  <2> QED BY <1>2, <2>1, <2>3 DEF Composition!CompositionInv
<1>3. CASE Composition!Refuse
  <2>1. ~Composition!Composable
    BY <1>3, ComposableIsJoined DEF Composition!Refuse, Composition!Composable
  <2> QED BY <1>2, <1>3, <2>1 DEF Composition!Refuse
<1>4. CASE Composition!Finish
  <2>1. /\ UNCHANGED <<inputs, rest, rows>> /\ rest = {} /\ Composition!OneWorkload
        /\ status' = IF Composition!Consistent(Composition!CatalogSources(rows))
                     THEN "done" ELSE "error"
    BY <1>4 DEF Composition!Finish
  <2> QED BY <1>2, <2>1, ComposedAtTheEnd
<1>5. CASE UNCHANGED compositionVars
  BY <1>2, <1>5 DEF compositionVars
<1> QED BY <1>1, <1>3, <1>4, <1>5 DEF Composition!Next

LEMMA CompositionInvIsUnion == Composition!CompositionInv => Composition!ComposedIsUnion
<1> SUFFICES ASSUME Composition!CompositionInv, NEW o \in DOMAIN rows
             PROVE  LET parts == Composition!Parts(o)
                        V(s) == {v \in {Composition!Effective(p)[s] : p \in parts} : v # Missing}
                        L(k) == {v \in {p.metadata[k] : p \in parts} : v # Missing}
                    IN  /\ \A s \in Signals :
                             IF V(s) = {} THEN Composition!Effective(rows[o])[s] = Missing
                             ELSE \A v \in V(s) :
                                 Composition!SameObservation(v, Composition!Effective(rows[o])[s])
                        /\ \A k \in Paths :
                             IF L(k) = {} THEN rows[o].metadata[k] = Missing
                             ELSE \A v \in L(k) : Composition!Same(v, rows[o].metadata[k])
  BY DEF Composition!ComposedIsUnion, Composition!Parts
<1> QED BY DEF Composition!CompositionInv, Composition!Represents

----------------------------------------------------------------------------
\* Enrichment.

Target(e) == e[2].target.id

LEMMA MappingsArePairs ==
    \A e \in Enrichment!Mappings :
        /\ e = <<e[1], e[2]>> /\ e[1] \in DOMAIN policy.projections
        /\ e[2] \in policy.projections[e[1]].mappings
BY DEF Enrichment!Mappings

LEMMA InitIsEnrichmentInv == Enrichment!Init => Enrichment!EnrichmentInv
<1> SUFFICES ASSUME Enrichment!Init PROVE Enrichment!EnrichmentInv
  OBVIOUS
<1>1. PICK t \in Enrichments : base = t.base /\ policy = t.policy /\ supplied = t.supplied
  BY DEF Enrichment!Init
<1>2. \A o \in DOMAIN base.rows : {"signals", "default"} \subseteq DOMAIN base.rows[o]
  BY <1>1, EnrichmentsPossible DEF Enrichment!EnrichmentsArePossible
<1>3. \A e \in Enrichment!Mappings :
         /\ e[2].signals \subseteq Signals
         /\ e[2].target = [id |-> e[2].target.id, key |-> e[2].target.key]
  BY <1>1, MappingsArePairs, EnrichmentsPossible DEF Enrichment!EnrichmentsArePossible
<1>4. /\ mappings = Enrichment!Mappings /\ enrichment = "enriching"
      /\ signals = [o \in DOMAIN base.rows |-> base.rows[o].signals]
      /\ audits = [o \in DOMAIN base.rows |-> {}]
  BY DEF Enrichment!Init
<1>5. Enrichment!Applied = {}
  BY <1>4 DEF Enrichment!Applied
<1> QED
  BY <1>2, <1>3, <1>4, <1>5 DEF Enrichment!EnrichmentInv,
     Enrichment!EnrichmentIsOrderFree

\* One mapping for a signal of an offering, since keys of targets are those of the base.
LEMMA OneMappingASignal ==
    ASSUME Enrichment!EnrichmentInv, Enrichment!Bound,
           NEW e \in Enrichment!Mappings, NEW f \in Enrichment!Mappings,
           Enrichment!Matched(e[1], e[2]), Enrichment!Matched(f[1], f[2]),
           Target(e) = Target(f), NEW s \in e[2].signals, s \in f[2].signals
    PROVE  e = f
<1>1. e[2].target.key = f[2].target.key
  BY DEF Enrichment!Matched, Enrichment!Has, Target
<1>2. e[2].target = f[2].target
  BY <1>1 DEF Enrichment!EnrichmentInv, Target
<1> QED BY <1>2 DEF Enrichment!Bound, Enrichment!ValidPolicy

LEMMA ApplyKeepsEnrichmentInv ==
    ASSUME Enrichment!EnrichmentInv, NEW g \in mappings, Enrichment!Apply(g[1], g[2])
    PROVE  Enrichment!EnrichmentInv'
<1> USE DEF Enrichment!EnrichmentInv
<1>1. /\ g \in Enrichment!Mappings /\ g = <<g[1], g[2]>>
      /\ mappings' = mappings \ {g} /\ enrichment = "enriching" /\ Enrichment!Bound
      /\ signals' = [signals EXCEPT ![Target(g)] =
            [s \in Signals |-> IF s \in g[2].signals
                               THEN Enrichment!Projected(g[1], g[2])[s] ELSE @[s]]]
      /\ audits' = [audits EXCEPT ![Target(g)] = @ \cup {g}]
      /\ UNCHANGED <<base, policy, supplied, enrichment>>
  BY MappingsArePairs DEF Enrichment!Apply, Target
<1>2. Enrichment!Mappings' = Enrichment!Mappings /\ Enrichment!Bound'
  BY <1>1 DEF Enrichment!Mappings, Enrichment!Bound, Enrichment!ValidPolicy
<1>3. Enrichment!Applied' = Enrichment!Applied \cup {g} /\ g \notin Enrichment!Applied
  BY <1>1, <1>2 DEF Enrichment!Applied
<1>4. /\ \A n, m : Enrichment!Matched(n, m)' <=> Enrichment!Matched(n, m)
      /\ \A n, m : Enrichment!Projected(n, m)' = Enrichment!Projected(n, m)
  BY <1>1 DEF Enrichment!Matched, Enrichment!Has, Enrichment!Projected,
     Enrichment!Effective
<1>5. /\ Enrichment!Matched(g[1], g[2]) /\ Target(g) \in DOMAIN base.rows
      /\ \A s \in g[2].signals :
            /\ Enrichment!Projected(g[1], g[2])[s] # Missing
            /\ Enrichment!Projected(g[1], g[2])[s].source # NoSource
            /\ signals[Target(g)][s] = Missing
  BY DEF Enrichment!Apply, Enrichment!Applicable, Enrichment!Matched, Enrichment!Has,
     Target
<1>6. ASSUME NEW e \in Enrichment!Applied, Target(e) = Target(g)
      PROVE  e[2].signals \cap g[2].signals = {}
  BY <1>1, <1>3, <1>5, <1>6, OneMappingASignal DEF Enrichment!Applied,
     Enrichment!IsApplied
<1>7. ASSUME NEW s \in g[2].signals PROVE base.rows[Target(g)].signals[s] = Missing
  BY <1>1, <1>5, <1>6 DEF Target
<1>8. \A e \in Enrichment!Applied' : Enrichment!IsApplied(e[1], e[2])'
  <2>1. ASSUME NEW e \in Enrichment!Applied PROVE Enrichment!IsApplied(e[1], e[2])'
    <3>1. Enrichment!IsApplied(e[1], e[2]) /\ e \in Enrichment!Mappings
      BY DEF Enrichment!Applied
    <3>2. ASSUME NEW s \in e[2].signals
          PROVE  signals'[Target(e)][s] = signals[Target(e)][s]
      <4>1. s \in Signals
        BY <3>1
      <4>2. CASE Target(e) = Target(g)
        BY <1>1, <1>5, <1>6, <4>1, <4>2
      <4>3. CASE Target(e) # Target(g)
        BY <1>1, <4>3
      <4> QED BY <4>2, <4>3
    <3> QED BY <1>1, <1>4, <3>1, <3>2 DEF Enrichment!IsApplied, Target
  <2>2. Enrichment!IsApplied(g[1], g[2])'
    <3>1. ASSUME NEW s \in g[2].signals
          PROVE  signals'[Target(g)][s] = Enrichment!Projected(g[1], g[2])[s]
      BY <1>1, <1>5
    <3> QED BY <1>1, <1>4, <1>5, <1>7, <3>1 DEF Enrichment!IsApplied, Target
  <2> QED BY <1>3, <2>1, <2>2
<1>9. ASSUME NEW o \in DOMAIN base.rows, NEW s \in Signals,
             \A e \in Enrichment!Applied' : e[2].target.id = o => s \notin e[2].signals
      PROVE  signals'[o][s] = base.rows[o].signals[s]
  BY <1>1, <1>3, <1>9 DEF Target
<1>10. ASSUME NEW o \in DOMAIN base.rows
       PROVE  audits'[o] = {e \in Enrichment!Applied' : e[2].target.id = o}
  BY <1>1, <1>3 DEF Target
<1>11. Enrichment!EnrichmentIsOrderFree'
  BY <1>1 DEF Enrichment!EnrichmentIsOrderFree
<1> QED BY <1>1, <1>2, <1>8, <1>9, <1>10, <1>11

LEMMA RefusedIsNotEnrichable ==
    Enrichment!EnrichmentInv /\ Enrichment!Refuse => ~Enrichment!Enrichable
<1> SUFFICES ASSUME Enrichment!EnrichmentInv, Enrichment!Refuse, Enrichment!Enrichable
             PROVE  FALSE
  OBVIOUS
<1> USE DEF Enrichment!EnrichmentInv
<1>1. Enrichment!Bound
  BY DEF Enrichment!Enrichable
<1>2. PICK g \in mappings : ~Enrichment!Applicable(g[1], g[2])
  BY <1>1 DEF Enrichment!Refuse
<1>3. /\ g \in Enrichment!Mappings /\ Enrichment!Matched(g[1], g[2])
      /\ \A s \in g[2].signals :
            /\ Enrichment!Projected(g[1], g[2])[s] # Missing
            /\ Enrichment!Projected(g[1], g[2])[s].source # NoSource
            /\ base.rows[Target(g)].signals[s] = Missing
  BY DEF Enrichment!Enrichable, Target
<1>4. PICK s \in g[2].signals : signals[Target(g)][s] # Missing
  BY <1>2, <1>3 DEF Enrichment!Applicable, Target
<1>5. Target(g) \in DOMAIN base.rows /\ s \in Signals
  BY <1>3 DEF Enrichment!Matched, Enrichment!Has, Target
<1>6. PICK e \in Enrichment!Applied : Target(e) = Target(g) /\ s \in e[2].signals
  BY <1>3, <1>4, <1>5 DEF Target
<1>7. e \in Enrichment!Mappings /\ e \notin mappings /\ Enrichment!Matched(e[1], e[2])
  BY DEF Enrichment!Applied, Enrichment!IsApplied
<1> QED BY <1>1, <1>3, <1>6, <1>7, OneMappingASignal

LEMMA EnrichedSources ==
    ASSUME Enrichment!EnrichmentInv, mappings = {}
    PROVE  Enrichment!CatalogSources(Enrichment!EnrichedRows) =
              Enrichment!CatalogSources(base.rows)
                 \cup UNION {Enrichment!ProjectedSources(e[1], e[2]) : e \in Enrichment!Mappings}
<1> DEFINE Given(e) == Enrichment!ProjectedSources(e[1], e[2])
           Of(o) == Enrichment!SourcesOf(base.rows[o])
           Now(o) == Enrichment!SourcesOf(Enrichment!EnrichedRow(o))
<1> USE DEF Enrichment!EnrichmentInv
<1>1. Enrichment!Applied = Enrichment!Mappings
  BY DEF Enrichment!Applied
<1>2. ASSUME NEW o \in DOMAIN base.rows
      PROVE  /\ Enrichment!EnrichedRow(o).signals = signals[o]
             /\ Enrichment!EnrichedRow(o).default = base.rows[o].default
  BY DEF Enrichment!EnrichedRow
<1>3. ASSUME NEW o \in DOMAIN base.rows, NEW c \in Now(o)
      PROVE  c \in Of(o) \/ \E e \in Enrichment!Mappings : c \in Given(e)
  <2>1. c # NoSource /\ (c = base.rows[o].default
            \/ \E s \in Signals : signals[o][s] # Missing /\ c = signals[o][s].source)
    BY <1>2, <1>3 DEF Enrichment!SourcesOf, Enrichment!SourcesOfSignals
  <2>2. CASE c = base.rows[o].default
    BY <2>1, <2>2 DEF Enrichment!SourcesOf, Enrichment!SourcesOfSignals
  <2>3. ASSUME NEW s \in Signals, signals[o][s] # Missing, c = signals[o][s].source
        PROVE  c \in Of(o) \/ \E e \in Enrichment!Mappings : c \in Given(e)
    <3>1. CASE \A e \in Enrichment!Mappings : e[2].target.id = o => s \notin e[2].signals
      <4>1. signals[o][s] = base.rows[o].signals[s]
        BY <1>1, <3>1
      <4> QED BY <2>1, <2>3, <4>1 DEF Enrichment!SourcesOf, Enrichment!SourcesOfSignals
    <3>2. ASSUME NEW e \in Enrichment!Mappings, e[2].target.id = o, s \in e[2].signals
          PROVE  c \in Given(e)
      BY <1>1, <2>3, <3>2 DEF Enrichment!IsApplied, Enrichment!ProjectedSources
    <3> QED BY <3>1, <3>2
  <2> QED BY <2>1, <2>2, <2>3
<1>4. ASSUME NEW o \in DOMAIN base.rows, NEW c \in Of(o) PROVE c \in Now(o)
  <2>1. c # NoSource /\ (c = base.rows[o].default
            \/ \E s \in Signals : /\ base.rows[o].signals[s] # Missing
                                  /\ c = base.rows[o].signals[s].source)
    BY <1>4 DEF Enrichment!SourcesOf, Enrichment!SourcesOfSignals
  <2>2. CASE c = base.rows[o].default
    BY <1>2, <2>1, <2>2 DEF Enrichment!SourcesOf, Enrichment!SourcesOfSignals
  <2>3. ASSUME NEW s \in Signals, base.rows[o].signals[s] # Missing,
               c = base.rows[o].signals[s].source
        PROVE  c \in Now(o)
    <3>1. \A e \in Enrichment!Mappings : e[2].target.id = o => s \notin e[2].signals
      BY <1>1, <2>3 DEF Enrichment!IsApplied
    <3>2. signals[o][s] = base.rows[o].signals[s]
      BY <1>1, <3>1
    <3> QED BY <1>2, <2>1, <2>3, <3>2 DEF Enrichment!SourcesOf,
               Enrichment!SourcesOfSignals
  <2> QED BY <2>1, <2>2, <2>3
<1>5. ASSUME NEW e \in Enrichment!Mappings, NEW c \in Given(e)
      PROVE  Target(e) \in DOMAIN base.rows /\ c \in Now(Target(e))
  <2>1. Target(e) \in DOMAIN base.rows
    BY <1>1 DEF Enrichment!IsApplied, Enrichment!Matched, Enrichment!Has, Target
  <2>2. PICK s \in e[2].signals : c = Enrichment!Projected(e[1], e[2])[s].source
    BY <1>5 DEF Enrichment!ProjectedSources
  <2>3. Enrichment!IsApplied(e[1], e[2]) /\ s \in Signals
    BY <1>1, <2>2
  <2>4. signals[Target(e)][s] # Missing /\ c = signals[Target(e)][s].source /\ c # NoSource
    BY <2>2, <2>3 DEF Enrichment!IsApplied, Target
  <2> QED BY <1>2, <2>1, <2>3, <2>4 DEF Enrichment!SourcesOf,
             Enrichment!SourcesOfSignals
<1>6. Enrichment!CatalogSources(Enrichment!EnrichedRows) = UNION {Now(o) : o \in DOMAIN base.rows}
  <2>1. /\ DOMAIN Enrichment!EnrichedRows = DOMAIN base.rows
        /\ \A o \in DOMAIN base.rows : Enrichment!EnrichedRows[o] = Enrichment!EnrichedRow(o)
    BY DEF Enrichment!EnrichedRows
  <2> QED BY <2>1 DEF Enrichment!CatalogSources
<1>7. Enrichment!CatalogSources(base.rows) = UNION {Of(o) : o \in DOMAIN base.rows}
  BY DEF Enrichment!CatalogSources
<1> HIDE DEF Given, Of, Now
<1>8. UNION {Now(o) : o \in DOMAIN base.rows} =
      (UNION {Of(o) : o \in DOMAIN base.rows}) \cup UNION {Given(e) : e \in Enrichment!Mappings}
  BY <1>3, <1>4, <1>5
<1> QED BY <1>6, <1>7, <1>8 DEF Given

\* The invariant over a step that only ends the enrichment.
LEMMA EndKeepsEnrichmentInv ==
    ASSUME Enrichment!EnrichmentInv,
           UNCHANGED <<base, policy, supplied, mappings, signals, audits>>,
           \/ enrichment' = enrichment
           \/ enrichment' = "done" /\ Enrichment!Bound /\ mappings = {} /\ Enrichment!Enrichable
           \/ enrichment' = "error" /\ ~Enrichment!Enrichable
    PROVE  Enrichment!EnrichmentInv'
<1>1. /\ Enrichment!Mappings' = Enrichment!Mappings
      /\ Enrichment!Bound' <=> Enrichment!Bound
      /\ Enrichment!Applied' = Enrichment!Applied
  BY DEF Enrichment!Mappings, Enrichment!Applied, Enrichment!Bound,
     Enrichment!ValidPolicy
<1>2. /\ \A n, m : Enrichment!Matched(n, m)' <=> Enrichment!Matched(n, m)
      /\ \A n, m : Enrichment!Projected(n, m)' = Enrichment!Projected(n, m)
  BY DEF Enrichment!Matched, Enrichment!Has, Enrichment!Projected, Enrichment!Effective
<1>3. \A n, m : Enrichment!IsApplied(n, m)' <=> Enrichment!IsApplied(n, m)
  BY <1>2 DEF Enrichment!IsApplied
<1>4. Enrichment!Enrichable' <=> Enrichment!Enrichable
  <2>1. Enrichment!CatalogSources(base.rows)' = Enrichment!CatalogSources(base.rows)
    BY DEF Enrichment!CatalogSources, Enrichment!SourcesOf, Enrichment!SourcesOfSignals
  <2>2. \A n, m : Enrichment!ProjectedSources(n, m)' = Enrichment!ProjectedSources(n, m)
    BY <1>2 DEF Enrichment!ProjectedSources
  <2>3. (UNION {Enrichment!ProjectedSources(e[1], e[2]) : e \in Enrichment!Mappings})' =
           UNION {Enrichment!ProjectedSources(e[1], e[2]) : e \in Enrichment!Mappings}
    BY <1>1, <2>2
  <2>4. \A c : Enrichment!Consistent(c)' <=> Enrichment!Consistent(c)
    BY DEF Enrichment!Consistent
  <2> QED BY <1>1, <1>2, <2>1, <2>3, <2>4 DEF Enrichment!Enrichable
<1>5. Enrichment!EnrichmentIsOrderFree'
  BY <1>4 DEF Enrichment!EnrichmentIsOrderFree, Enrichment!EnrichmentInv
<1>6. UNCHANGED <<base, policy, supplied, mappings, signals, audits>>
  OBVIOUS
<1>7. enrichment' = "done" => Enrichment!Bound /\ mappings = {}
  BY DEF Enrichment!EnrichmentInv
<1> QED BY <1>1, <1>3, <1>5, <1>6, <1>7 DEF Enrichment!EnrichmentInv

LEMMA FinishKeepsEnrichmentInv ==
    Enrichment!EnrichmentInv /\ Enrichment!Finish => Enrichment!EnrichmentInv'
<1> SUFFICES ASSUME Enrichment!EnrichmentInv, Enrichment!Finish
             PROVE  Enrichment!EnrichmentInv'
  OBVIOUS
<1>1. /\ Enrichment!Bound /\ mappings = {}
      /\ enrichment' \in {"done", "error"}
      /\ enrichment' = "done" <=> Enrichment!Consistent(
            Enrichment!CatalogSources(base.rows)
                 \cup UNION {Enrichment!ProjectedSources(e[1], e[2]) : e \in Enrichment!Mappings})
      /\ UNCHANGED <<base, policy, supplied, mappings, signals, audits>>
  BY EnrichedSources DEF Enrichment!Finish
<1>2. \A e \in Enrichment!Mappings :
         /\ Enrichment!Matched(e[1], e[2])
         /\ \A s \in e[2].signals :
               /\ Enrichment!Projected(e[1], e[2])[s] # Missing
               /\ Enrichment!Projected(e[1], e[2])[s].source # NoSource
               /\ base.rows[e[2].target.id].signals[s] = Missing
  BY <1>1 DEF Enrichment!EnrichmentInv, Enrichment!Applied, Enrichment!IsApplied
<1>3. enrichment' = "done" <=> Enrichment!Enrichable
  BY <1>1, <1>2 DEF Enrichment!Enrichable
<1> QED BY <1>1, <1>3, EndKeepsEnrichmentInv

LEMMA StepKeepsEnrichmentInv ==
    Enrichment!EnrichmentInv /\ [Enrichment!Next]_enrichmentVars => Enrichment!EnrichmentInv'
<1> SUFFICES ASSUME Enrichment!EnrichmentInv, [Enrichment!Next]_enrichmentVars
             PROVE  Enrichment!EnrichmentInv'
  OBVIOUS
<1>1. CASE \E e \in mappings : Enrichment!Apply(e[1], e[2])
  BY <1>1, ApplyKeepsEnrichmentInv
<1>2. CASE Enrichment!Refuse
  BY <1>2, RefusedIsNotEnrichable, EndKeepsEnrichmentInv DEF Enrichment!Refuse
<1>3. CASE Enrichment!Finish
  BY <1>3, FinishKeepsEnrichmentInv
<1>4. CASE UNCHANGED enrichmentVars
  BY <1>4, EndKeepsEnrichmentInv DEF enrichmentVars
<1> QED BY <1>1, <1>2, <1>3, <1>4 DEF Enrichment!Next

LEMMA EnrichmentInvIsReviewed == Enrichment!EnrichmentInv => Enrichment!OnlyReviewedSignals
<1> SUFFICES ASSUME Enrichment!EnrichmentInv, enrichment = "done",
                    NEW o \in DOMAIN base.rows, NEW s \in Signals
             PROVE  LET value == Enrichment!Effective(Enrichment!EnrichedRow(o))[s]
                        reviewed == {e \in Enrichment!Mappings :
                                        e[2].target.id = o /\ s \in e[2].signals}
                    IN  IF base.rows[o].signals[s] # Missing
                        THEN value = Enrichment!Effective(base.rows[o])[s]
                        ELSE IF reviewed = {} THEN value = Missing
                        ELSE \A e \in reviewed : value = Enrichment!Projected(e[1], e[2])[s]
  BY DEF Enrichment!OnlyReviewedSignals
<1>1. Enrichment!Applied = Enrichment!Mappings
  BY DEF Enrichment!EnrichmentInv, Enrichment!Applied
<1>2. /\ Enrichment!EnrichedRow(o).signals = signals[o]
      /\ Enrichment!EnrichedRow(o).default = base.rows[o].default
  BY DEF Enrichment!EnrichedRow, Enrichment!EnrichmentInv
<1>3. ASSUME NEW e \in Enrichment!Mappings, e[2].target.id = o, s \in e[2].signals
      PROVE  /\ base.rows[o].signals[s] = Missing
             /\ Enrichment!Projected(e[1], e[2])[s] # Missing
             /\ Enrichment!Projected(e[1], e[2])[s].source # NoSource
             /\ signals[o][s] = Enrichment!Projected(e[1], e[2])[s]
  BY <1>1, <1>3 DEF Enrichment!EnrichmentInv, Enrichment!IsApplied
<1>4. (\A e \in Enrichment!Mappings : e[2].target.id = o => s \notin e[2].signals)
         => signals[o][s] = base.rows[o].signals[s]
  BY <1>1 DEF Enrichment!EnrichmentInv
<1> QED BY <1>2, <1>3, <1>4 DEF Enrichment!Effective

LEMMA EnrichmentInvAccounts == Enrichment!EnrichmentInv => Enrichment!AuditAccounts
<1> SUFFICES ASSUME Enrichment!EnrichmentInv, NEW o \in DOMAIN base.rows, NEW s \in Signals
             PROVE  Enrichment!Cardinality({e \in audits[o] : s \in e[2].signals}) =
                       IF signals[o][s] # Missing /\ base.rows[o].signals[s] = Missing
                       THEN 1 ELSE 0
  BY DEF Enrichment!AuditAccounts
<1> DEFINE M == {e \in audits[o] : s \in e[2].signals}
<1>1. /\ Enrichment!Cardinality({}) = 0
      /\ \A e : Enrichment!Cardinality({e}) = 1
  BY FS_EmptySet, FS_Singleton DEF Enrichment!Cardinality, Cardinality
<1>2. \A e : e \in M <=> e \in Enrichment!Applied /\ Target(e) = o /\ s \in e[2].signals
  BY DEF Enrichment!EnrichmentInv, Target
<1>3. CASE M = {}
  <2>1. signals[o][s] = base.rows[o].signals[s]
    BY <1>2, <1>3 DEF Enrichment!EnrichmentInv, Target
  <2> QED BY <1>1, <1>3, <2>1
<1>4. ASSUME NEW e \in M
      PROVE  /\ M = {e}
             /\ signals[o][s] # Missing /\ base.rows[o].signals[s] = Missing
  <2>1. e \in Enrichment!Applied /\ Target(e) = o /\ s \in e[2].signals
    BY <1>2
  <2>2. Enrichment!Bound /\ Enrichment!IsApplied(e[1], e[2])
    BY <2>1 DEF Enrichment!EnrichmentInv, Enrichment!Applied
  <2>3. ASSUME NEW f \in M PROVE f = e
    <3>1. f \in Enrichment!Applied /\ Target(f) = o /\ s \in f[2].signals
      BY <1>2
    <3>2. Enrichment!IsApplied(f[1], f[2])
      BY <3>1 DEF Enrichment!EnrichmentInv
    <3> QED BY <2>1, <2>2, <3>1, <3>2, OneMappingASignal DEF Enrichment!Applied,
               Enrichment!IsApplied
  <2> QED BY <2>1, <2>2, <2>3 DEF Enrichment!IsApplied, Target
<1> QED BY <1>1, <1>3, <1>4

----------------------------------------------------------------------------
\* Commands.

\* The order of a command's steps: what it may be refused for precedes what it
\* writes, and it is not over before it reports.
Short(program) ==
    /\ Len(program) \in 0 .. Command!Longest /\ DOMAIN program = 1 .. Len(program)
    /\ \A n \in 1 .. Len(program) : program[n].does = "status" => n = Len(program)
RefusedFirst(program) ==
    \E k \in 0 .. Len(program) :
        /\ \A n \in 1 .. k : program[n].does \notin Command!Writing
        /\ \A n \in k + 1 .. Len(program) : program[n].does \notin Command!Refusing

LEMMA ProgramsAreOrdered ==
    \A c \in DOMAIN Command!Commands :
        /\ Short(Command!Commands[c])
        /\ c # "discover" => RefusedFirst(Command!Commands[c])
<1> USE DEF Short, RefusedFirst, Command!Longest, Command!Writing, Command!Refusing,
            Command!Step, Command!Options, Command!Assignments, Command!Read,
            Command!Fetch, Command!Compute, Command!Echo, Command!Plain,
            Command!Private, Command!Bundle, Command!ExitIfChanged, Command!Needs,
            Command!Distinct
<1>1. Short(Command!Validate) /\ RefusedFirst(Command!Validate)
  BY DEF Command!Validate
<1>2. Short(Command!ValidateLocalMeasurement) /\ RefusedFirst(Command!ValidateLocalMeasurement)
  BY DEF Command!ValidateLocalMeasurement
<1>3. Short(Command!BuildLocalCatalog) /\ RefusedFirst(Command!BuildLocalCatalog)
  BY DEF Command!BuildLocalCatalog
<1>4. Short(Command!ImportIntelligencePerWatt) /\ RefusedFirst(Command!ImportIntelligencePerWatt)
  BY DEF Command!ImportIntelligencePerWatt
<1>5. Short(Command!BuildLocalCapacityCatalog) /\ RefusedFirst(Command!BuildLocalCapacityCatalog)
  BY DEF Command!BuildLocalCapacityCatalog
<1>6. Short(Command!ComposeCatalogs) /\ RefusedFirst(Command!ComposeCatalogs)
  BY DEF Command!ComposeCatalogs
<1>7. Short(Command!EnrichCatalog) /\ RefusedFirst(Command!EnrichCatalog)
  BY DEF Command!EnrichCatalog
<1>8. Short(Command!ValidateEnrichmentPolicy) /\ RefusedFirst(Command!ValidateEnrichmentPolicy)
  BY DEF Command!ValidateEnrichmentPolicy
<1>9. Short(Command!Discover)
  BY DEF Command!Discover
<1>10. Short(Command!Evaluate) /\ RefusedFirst(Command!Evaluate)
  BY DEF Command!Evaluate
<1>11. Short(Command!ModelFrontierView) /\ RefusedFirst(Command!ModelFrontierView)
  BY DEF Command!ModelFrontierView
<1>12. Short(Command!Select) /\ RefusedFirst(Command!Select)
  BY DEF Command!Select
<1>13. Short(Command!PublishProject) /\ RefusedFirst(Command!PublishProject)
  BY DEF Command!PublishProject
<1>14. Short(Command!AggregateTraces) /\ RefusedFirst(Command!AggregateTraces)
  BY DEF Command!AggregateTraces
<1>15. Short(Command!ImportCodexExec) /\ RefusedFirst(Command!ImportCodexExec)
  BY DEF Command!ImportCodexExec
<1>16. Short(Command!ImportHermesSession) /\ RefusedFirst(Command!ImportHermesSession)
  BY DEF Command!ImportHermesSession
<1>17. Short(Command!ImportAiderPolyglot) /\ RefusedFirst(Command!ImportAiderPolyglot)
  BY DEF Command!ImportAiderPolyglot
<1>18. Short(Command!ProjectAiderModelsDev) /\ RefusedFirst(Command!ProjectAiderModelsDev)
  BY DEF Command!ProjectAiderModelsDev
<1>19. Short(Command!ImportMcpmarkVerified) /\ RefusedFirst(Command!ImportMcpmarkVerified)
  BY DEF Command!ImportMcpmarkVerified
<1>20. Short(Command!CaptureSweBench) /\ RefusedFirst(Command!CaptureSweBench)
  BY DEF Command!CaptureSweBench
<1>21. Short(Command!CaptureArcAgi) /\ RefusedFirst(Command!CaptureArcAgi)
  BY DEF Command!CaptureArcAgi
<1>22. Short(Command!CheckSweBenchFeed) /\ RefusedFirst(Command!CheckSweBenchFeed)
  BY DEF Command!CheckSweBenchFeed
<1>23. Short(Command!CheckArcAgiFeed) /\ RefusedFirst(Command!CheckArcAgiFeed)
  BY DEF Command!CheckArcAgiFeed
<1>24. Short(Command!InspectHarbor) /\ RefusedFirst(Command!InspectHarbor)
  BY DEF Command!InspectHarbor
<1>25. Short(Command!NormalizeLocalAgent) /\ RefusedFirst(Command!NormalizeLocalAgent)
  BY DEF Command!NormalizeLocalAgent
<1>26. Short(Command!NormalizeStructured) /\ RefusedFirst(Command!NormalizeStructured)
  BY DEF Command!NormalizeStructured
<1>27. Short(Command!Reconcile) /\ RefusedFirst(Command!Reconcile)
  BY DEF Command!Reconcile
<1>28. Short(Command!ValidatePairedEstimate) /\ RefusedFirst(Command!ValidatePairedEstimate)
  BY DEF Command!ValidatePairedEstimate
<1>29. Short(Command!ApplyPairedEstimate) /\ RefusedFirst(Command!ApplyPairedEstimate)
  BY DEF Command!ApplyPairedEstimate
<1>30. Short(Command!ProjectQualityCatalog) /\ RefusedFirst(Command!ProjectQualityCatalog)
  BY DEF Command!ProjectQualityCatalog
<1>31. Short(Command!BuildQualityPortfolio) /\ RefusedFirst(Command!BuildQualityPortfolio)
  BY DEF Command!BuildQualityPortfolio
<1>32. Short(Command!VerifyQualityPortfolio) /\ RefusedFirst(Command!VerifyQualityPortfolio)
  BY DEF Command!VerifyQualityPortfolio
<1>33. Short(Command!ImportHarbor) /\ RefusedFirst(Command!ImportHarbor)
  BY DEF Command!ImportHarbor
<1>34. Short(Command!ExportSchemas) /\ RefusedFirst(Command!ExportSchemas)
  BY DEF Command!ExportSchemas
<1>35. Short(Command!RegenerateSchemas) /\ RefusedFirst(Command!RegenerateSchemas)
  BY DEF Command!RegenerateSchemas
<1> HIDE DEF Short, RefusedFirst
<1> QED
  BY <1>1, <1>2, <1>3, <1>4, <1>5, <1>6, <1>7, <1>8, <1>9, <1>10, <1>11, <1>12, <1>13,
     <1>14, <1>15, <1>16, <1>17, <1>18, <1>19, <1>20, <1>21, <1>22, <1>23, <1>24,
     <1>25, <1>26, <1>27, <1>28, <1>29, <1>30, <1>31, <1>32, <1>33, <1>34, <1>35 DEF Command!Commands

LEMMA PortfolioSteps ==
    LET program == Command!Commands["portfolio"]
    IN  /\ "portfolio" \in DOMAIN Command!Commands
        /\ Len(program) = 10 /\ DOMAIN program = 1 .. 10 /\ program[1].does = "distinct"
        /\ program[8].does = "private" /\ program[8].role = "derivation_output"
        /\ program[9].does = "private" /\ program[9].role = "catalog_output"
        /\ \A n \in 1 .. 10 : program[n].does \in Command!Writing => n \in {8, 9}
<1>1. Command!Commands["portfolio"] = Command!BuildQualityPortfolio
      /\ "portfolio" \in DOMAIN Command!Commands
  BY DEF Command!Commands
<1> QED BY <1>1 DEF Command!BuildQualityPortfolio, Command!Writing,
            Command!Step, Command!Options, Command!Assignments, Command!Read,
            Command!Compute, Command!Echo, Command!Private, Command!Distinct

\* What CommandInv says, of any calls and files, run by run.
ProgramOf(s, r) == Command!Commands[s[r].command]
TargetOf(s, r, n) == s[r].given[ProgramOf(s, r)[n].role]
WritesIn(s, r, n) ==
    n \in DOMAIN ProgramOf(s, r) /\ ProgramOf(s, r)[n].does \in Command!Writing
OutputsOf(s, r) ==
    {TargetOf(s, r, n) : n \in {m \in DOMAIN ProgramOf(s, r) : WritesIn(s, r, m)}} \ {None}
AloneIn(s, r) == \A t \in DOMAIN s \ {r} : OutputsOf(s, r) \cap OutputsOf(s, t) = {}

EndOf(s, r, k, ended, doing) ==
    /\ doing # None => /\ k \in DOMAIN ProgramOf(s, r) /\ doing = ProgramOf(s, r)[k].does
                       /\ ended # None
    /\ ended = "ok" => k > Len(ProgramOf(s, r))
    /\ ended = "changed" =>
          k \in DOMAIN ProgramOf(s, r) /\ ProgramOf(s, r)[k].does = "status"
OpenIn(s, fs, r, k, o) ==
    o # None =>
        /\ k \in DOMAIN ProgramOf(s, r) /\ ProgramOf(s, r)[k].does = "plain"
        /\ TargetOf(s, r, k) \in Places /\ fs[TargetOf(s, r, k)] # Absent
WroteIn(s, fs, r, k) ==
    \A p \in Places : fs[p] # Absent =>
        /\ fs[p].last = r => \E n \in 1 .. k : WritesIn(s, r, n) /\ TargetOf(s, r, n) = p
        /\ r \in fs[p].texts =>
              \E n \in 1 .. k - 1 : WritesIn(s, r, n) /\ TargetOf(s, r, n) = p
PastIn(s, fs, r, k, o) ==
    AloneIn(s, r) =>
        /\ o # None =>
              fs[TargetOf(s, r, k)].inode = o /\ fs[TargetOf(s, r, k)].texts = {}
        /\ \A n \in 1 .. k - 1 : WritesIn(s, r, n) /\ TargetOf(s, r, n) # None =>
              /\ fs[TargetOf(s, r, n)] # Absent
              /\ \/ fs[TargetOf(s, r, n)].texts = {r}
                 \/ o # None /\ TargetOf(s, r, k) = TargetOf(s, r, n)
OrderIn(s, fs, r, k) ==
    s[r].command = "portfolio" =>
        /\ k > 1 => s[r].given["catalog_output"] # s[r].given["derivation_output"]
        /\ AloneIn(s, r) /\ k > 8 => fs[s[r].given["derivation_output"]].inode = <<r, 8>>
        /\ AloneIn(s, r) /\ k > 9 => fs[s[r].given["catalog_output"]].inode = <<r, 9>>

RunIn(s, fs, r, k, o, ended, doing) ==
    /\ EndOf(s, r, k, ended, doing) /\ OpenIn(s, fs, r, k, o) /\ WroteIn(s, fs, r, k)
    /\ PastIn(s, fs, r, k, o) /\ OrderIn(s, fs, r, k)

TypeIn(s, fs, ks, os, ends, doings) ==
    /\ s \in Sessions
    /\ fs \in [Places -> {Absent} \cup Command!TextFiles]
    /\ ks \in [DOMAIN s -> Nat \ {0}]
    /\ os \in [DOMAIN s -> {None} \cup Command!Inodes]
    /\ DOMAIN ends = DOMAIN s /\ DOMAIN doings = DOMAIN s

RunsIn(s, fs, ks, os, ends, doings) ==
    /\ TypeIn(s, fs, ks, os, ends, doings)
    /\ \A r \in DOMAIN s : RunIn(s, fs, r, ks[r], os[r], ends[r], doings[r])

LEMMA RunsInSays ==
    /\ Command!CommandInv <=> RunsIn(session, files, at, opened, exit, failed)
    /\ Command!CommandInv' <=> RunsIn(session', files', at', opened', exit', failed')
<1> USE DEF Command!Runs, Command!Program, Command!Given, ProgramOf
<1>1. \A r : Command!Alone(r) <=> AloneIn(session, r)
  <2>1. \A r : Command!Writes(r) = OutputsOf(session, r)
    BY DEF Command!Writes, OutputsOf, Command!WritesAt, WritesIn, Command!Target, TargetOf
  <2> QED BY <2>1 DEF Command!Alone, AloneIn
<1>2. \A r : Command!Alone(r)' <=> AloneIn(session', r)
  <2>1. \A r : Command!Writes(r)' = OutputsOf(session', r)
    BY DEF Command!Writes, OutputsOf, Command!WritesAt, WritesIn, Command!Target, TargetOf
  <2> QED BY <2>1 DEF Command!Alone, AloneIn
<1>3. Command!CommandTypeOK <=> TypeIn(session, files, at, opened, exit, failed)
  BY DEF Command!CommandTypeOK, TypeIn
<1>4. Command!CommandTypeOK' <=> TypeIn(session', files', at', opened', exit', failed')
  BY DEF Command!CommandTypeOK, TypeIn
<1>5. Command!EndsAreExplained <=> (\A r \in DOMAIN session : EndOf(session, r, at[r], exit[r], failed[r]))
  BY DEF Command!EndsAreExplained, EndOf
<1>6. Command!EndsAreExplained' <=> (\A r \in DOMAIN session' : EndOf(session', r, at'[r], exit'[r], failed'[r]))
  BY DEF Command!EndsAreExplained, EndOf
<1>7. Command!OpenedAtPlain <=> (\A r \in DOMAIN session : OpenIn(session, files, r, at[r], opened[r]))
  BY DEF Command!OpenedAtPlain, OpenIn, Command!Place, Command!Role, TargetOf
<1>8. Command!OpenedAtPlain' <=> (\A r \in DOMAIN session' : OpenIn(session', files', r, at'[r], opened'[r]))
  BY DEF Command!OpenedAtPlain, OpenIn, Command!Place, Command!Role, TargetOf
<1>9. Command!AuthorsWrote <=> (\A r \in DOMAIN session : WroteIn(session, files, r, at[r]))
  BY DEF Command!AuthorsWrote, WroteIn,
     Command!Target, Command!WritesAt, TargetOf, WritesIn
<1>10. Command!AuthorsWrote' <=> (\A r \in DOMAIN session' : WroteIn(session', files', r, at'[r]))
  BY DEF Command!AuthorsWrote, WroteIn,
     Command!Target, Command!WritesAt, TargetOf, WritesIn
<1>11. Command!PastIsWritten <=> (\A r \in DOMAIN session : PastIn(session, files, r, at[r], opened[r]))
  BY <1>1 DEF Command!PastIsWritten, PastIn, Command!Place,
     Command!Role, Command!Target, Command!WritesAt, Command!IsFilling, TargetOf, WritesIn
<1>12. Command!PastIsWritten' <=> (\A r \in DOMAIN session' : PastIn(session', files', r, at'[r], opened'[r]))
  BY <1>2 DEF Command!PastIsWritten, PastIn, Command!Place,
     Command!Role, Command!Target, Command!WritesAt, Command!IsFilling, TargetOf, WritesIn
<1>13. Command!PortfolioInOrder <=> (\A r \in DOMAIN session : OrderIn(session, files, r, at[r]))
  BY <1>1 DEF Command!PortfolioInOrder, OrderIn
<1>14. Command!PortfolioInOrder' <=> (\A r \in DOMAIN session' : OrderIn(session', files', r, at'[r]))
  BY <1>2 DEF Command!PortfolioInOrder, OrderIn
<1> QED BY <1>3, <1>4, <1>5, <1>6, <1>7, <1>8, <1>9, <1>10, <1>11, <1>12, <1>13, <1>14
         DEF Command!CommandInv, RunsIn, RunIn

\* What is known of the calls.
LEMMA CallsAreKnown ==
    ASSUME NEW s \in Sessions, NEW r \in DOMAIN s
    PROVE  /\ Short(ProgramOf(s, r))
           /\ s[r].command # "discover" => RefusedFirst(ProgramOf(s, r))
           /\ \A n : WritesIn(s, r, n) => TargetOf(s, r, n) \in Places \cup {None}
           /\ r \in Command!Authors /\ r # Before
           /\ \A n \in DOMAIN ProgramOf(s, r) : <<r, n>> \in Command!Inodes
<1>1. /\ s[r].command \in DOMAIN Command!Commands
      /\ \A n \in 1 .. Len(ProgramOf(s, r)) : ProgramOf(s, r)[n].does \in Command!Writing =>
            TargetOf(s, r, n) \in Places \cup {None}
      /\ Before \notin UNION {DOMAIN u : u \in Sessions}
  BY SessionsPossible DEF Command!SessionsArePossible, ProgramOf, TargetOf
<1>2. Short(ProgramOf(s, r)) /\ (s[r].command # "discover" => RefusedFirst(ProgramOf(s, r)))
  BY <1>1, ProgramsAreOrdered DEF ProgramOf
<1>3. \A n : WritesIn(s, r, n) => TargetOf(s, r, n) \in Places \cup {None}
  BY <1>1, <1>2 DEF WritesIn, Short
<1>4. r \in Command!Authors /\ r # Before
  BY <1>1 DEF Command!Authors
<1>5. ASSUME NEW n \in DOMAIN ProgramOf(s, r) PROVE <<r, n>> \in Command!Inodes
  <2>1. DOMAIN ProgramOf(s, r) = 1 .. Len(ProgramOf(s, r)) /\ Len(ProgramOf(s, r)) \in 0 .. 10
    BY <1>2 DEF Short, Command!Longest
  <2>2. n \in 1 .. Command!Longest
    BY <2>1 DEF Command!Longest
  <2> QED BY <1>4, <2>2 DEF Command!Inodes
<1> QED BY <1>2, <1>3, <1>4, <1>5

LEMMA NamesDiffer ==
    /\ Absent \notin Command!TextFiles
    /\ None \notin Command!Inodes /\ None \notin Places /\ None \notin Command!Refusing
    /\ None \notin {"ok", "error", "changed", "killed"}
BY SessionsPossible DEF Command!SessionsArePossible

LEMMA PortfolioTargets ==
    ASSUME NEW s \in Sessions, NEW r \in DOMAIN s, s[r].command = "portfolio"
    PROVE  /\ WritesIn(s, r, 8) /\ TargetOf(s, r, 8) = s[r].given["derivation_output"]
           /\ WritesIn(s, r, 9) /\ TargetOf(s, r, 9) = s[r].given["catalog_output"]
           /\ s[r].given["derivation_output"] \in Places
           /\ s[r].given["catalog_output"] \in Places
           /\ \A n : WritesIn(s, r, n) => n \in {8, 9}
           /\ ProgramOf(s, r)[1].does = "distinct" /\ Len(ProgramOf(s, r)) = 10
           /\ ProgramOf(s, r)[8].does = "private" /\ ProgramOf(s, r)[9].does = "private"
<1>1. {s[r].given["catalog_output"], s[r].given["derivation_output"]} \subseteq Places
  BY SessionsPossible DEF Command!SessionsArePossible
<1> QED BY <1>1, PortfolioSteps DEF WritesIn, TargetOf, ProgramOf, Command!Writing

\* Where a run is alone, no other run writes what it writes.
LEMMA AloneIsApart ==
    ASSUME NEW s, NEW r, NEW t \in DOMAIN s \ {r}, AloneIn(s, r), NEW n, NEW m,
           WritesIn(s, r, n), WritesIn(s, t, m), TargetOf(s, r, n) # None
    PROVE  TargetOf(s, r, n) # TargetOf(s, t, m)
<1>1. n \in DOMAIN ProgramOf(s, r) /\ m \in DOMAIN ProgramOf(s, t)
  BY DEF WritesIn
<1>2. TargetOf(s, r, n) \in OutputsOf(s, r)
  BY <1>1 DEF OutputsOf
<1>3. TargetOf(s, t, m) # None => TargetOf(s, t, m) \in OutputsOf(s, t)
  BY <1>1 DEF OutputsOf
<1> QED BY <1>2, <1>3 DEF AloneIn

\* What a step of a run may do to the files: to write at its step, over what was there.
Writing(s, fs, new, t, k, file) ==
    /\ WritesIn(s, t, k) /\ TargetOf(s, t, k) \in Places /\ file \in Command!TextFiles
    /\ new = [fs EXCEPT ![TargetOf(s, t, k)] = file] /\ file.last = t
    /\ \A r : r \in file.texts =>
          r = t \/ (fs[TargetOf(s, t, k)] # Absent /\ r \in fs[TargetOf(s, t, k)].texts)

LEMMA WritingIsFile ==
    ASSUME NEW s, NEW fs \in [Places -> {Absent} \cup Command!TextFiles], NEW new, NEW t, NEW k,
           NEW file, Writing(s, fs, new, t, k, file)
    PROVE  /\ new \in [Places -> {Absent} \cup Command!TextFiles]
           /\ new[TargetOf(s, t, k)] = file /\ file # Absent
           /\ \A p \in Places : p # TargetOf(s, t, k) => new[p] = fs[p]
<1> DEFINE p == TargetOf(s, t, k)
<1>1. /\ p \in Places /\ file \in Command!TextFiles /\ new = [fs EXCEPT ![p] = file]
      /\ file # Absent
  BY NamesDiffer DEF Writing
<1> HIDE DEF p
<1> QED BY <1>1 DEF p

\* So what is known of another run stays known.
LEMMA OthersStay ==
    ASSUME NEW s \in Sessions, NEW fs \in [Places -> {Absent} \cup Command!TextFiles], NEW new,
           NEW t \in DOMAIN s, NEW k, NEW file, Writing(s, fs, new, t, k, file),
           NEW r \in DOMAIN s \ {t}, NEW n \in Nat \ {0}, NEW o, NEW ended, NEW doing,
           RunIn(s, fs, r, n, o, ended, doing)
    PROVE  RunIn(s, new, r, n, o, ended, doing)
<1> DEFINE p == TargetOf(s, t, k)
<1>0. new[p] = file /\ file # Absent /\ \A u \in Places : u # p => new[u] = fs[u]
  BY WritingIsFile
<1>1. /\ new[p] = file /\ file # Absent /\ \A u \in Places : u # p => new[u] = fs[u]
      /\ p \in Places /\ file.last = t /\ WritesIn(s, t, k)
      /\ \A u : u \in file.texts => u = t \/ (fs[p] # Absent /\ u \in fs[p].texts)
  BY <1>0 DEF Writing
<1>2. ASSUME AloneIn(s, r), NEW m, WritesIn(s, r, m), TargetOf(s, r, m) # None
      PROVE  /\ TargetOf(s, r, m) \in Places
             /\ TargetOf(s, r, m) # p /\ new[TargetOf(s, r, m)] = fs[TargetOf(s, r, m)]
  <2>1. TargetOf(s, r, m) # p
    BY <1>1, <1>2, AloneIsApart
  <2>2. TargetOf(s, r, m) \in Places
    BY <1>2, CallsAreKnown
  <2> QED BY <1>1, <2>1, <2>2
<1> HIDE DEF p
<1>3. EndOf(s, r, n, ended, doing)
  BY DEF RunIn
<1>4. OpenIn(s, new, r, n, o)
  BY <1>1 DEF RunIn, OpenIn
<1>5. WroteIn(s, new, r, n)
  <2>1. ASSUME NEW u \in Places, new[u] # Absent
        PROVE  /\ new[u].last = r =>
                     \E m \in 1 .. n : WritesIn(s, r, m) /\ TargetOf(s, r, m) = u
               /\ r \in new[u].texts =>
                     \E m \in 1 .. n - 1 : WritesIn(s, r, m) /\ TargetOf(s, r, m) = u
    <3>1. CASE u = p
      BY <1>1, <3>1 DEF RunIn, WroteIn
    <3>2. CASE u # p
      BY <1>1, <2>1, <3>2 DEF RunIn, WroteIn
    <3> QED BY <3>1, <3>2
  <2> QED BY <2>1 DEF WroteIn
<1>6. PastIn(s, new, r, n, o)
  <2>1. ASSUME AloneIn(s, r), o # None
        PROVE  new[TargetOf(s, r, n)] = fs[TargetOf(s, r, n)]
    <3>1. WritesIn(s, r, n) /\ TargetOf(s, r, n) \in Places
      BY <2>1 DEF RunIn, OpenIn, WritesIn, Command!Writing
    <3> QED BY <1>2, <2>1, <3>1, NamesDiffer
  <2>2. ASSUME AloneIn(s, r), NEW m \in 1 .. n - 1, WritesIn(s, r, m), TargetOf(s, r, m) # None
        PROVE  new[TargetOf(s, r, m)] = fs[TargetOf(s, r, m)]
    BY <1>2, <2>2
  <2> QED BY <2>1, <2>2 DEF RunIn, PastIn
<1>7. OrderIn(s, new, r, n)
  <2>1. ASSUME s[r].command = "portfolio", AloneIn(s, r)
        PROVE  /\ new[s[r].given["derivation_output"]] = fs[s[r].given["derivation_output"]]
               /\ new[s[r].given["catalog_output"]] = fs[s[r].given["catalog_output"]]
    BY <1>2, <2>1, PortfolioTargets, NamesDiffer
  <2> QED BY <2>1 DEF RunIn, OrderIn
<1> QED BY <1>3, <1>4, <1>5, <1>6, <1>7 DEF RunIn

\* A run that goes on, and has written nothing at its step.
LEMMA QuietStep ==
    ASSUME NEW s \in Sessions, NEW fs, NEW r \in DOMAIN s, NEW k \in Nat \ {0}, NEW o, NEW doing,
           RunIn(s, fs, r, k, o, None, doing), k \in DOMAIN ProgramOf(s, r),
           WritesIn(s, r, k) => TargetOf(s, r, k) = None,
           s[r].command = "portfolio" /\ k = 1 =>
              s[r].given["catalog_output"] # s[r].given["derivation_output"]
    PROVE  RunIn(s, fs, r, k + 1, o, None, doing)
<1>1. o = None
  BY NamesDiffer DEF RunIn, OpenIn, WritesIn, Command!Writing
<1>2. EndOf(s, r, k + 1, None, doing)
  BY NamesDiffer DEF RunIn, EndOf
<1>3. OpenIn(s, fs, r, k + 1, o)
  BY <1>1 DEF OpenIn
<1>4. WroteIn(s, fs, r, k + 1)
  <2>1. \A n \in 1 .. k : n \in 1 .. k + 1
    OBVIOUS
  <2>2. \A n \in 1 .. k - 1 : n \in 1 .. (k + 1) - 1
    OBVIOUS
  <2> QED BY <2>1, <2>2 DEF RunIn, WroteIn
<1>5. PastIn(s, fs, r, k + 1, o)
  <2>1. \A n \in 1 .. (k + 1) - 1 : n = k \/ n \in 1 .. k - 1
    OBVIOUS
  <2> QED BY <1>1, <2>1 DEF RunIn, PastIn
<1>6. OrderIn(s, fs, r, k + 1)
  <2>1. s[r].command = "portfolio" => k \notin {8, 9}
    BY PortfolioTargets, NamesDiffer
  <2> QED BY <2>1 DEF RunIn, OrderIn
<1> QED BY <1>2, <1>3, <1>4, <1>5, <1>6 DEF RunIn

\* A run that opens a file.
LEMMA TruncateStep ==
    ASSUME NEW s \in Sessions, NEW fs \in [Places -> {Absent} \cup Command!TextFiles], NEW new,
           NEW r \in DOMAIN s, NEW k \in Nat \ {0}, NEW doing, NEW file,
           RunIn(s, fs, r, k, None, None, doing), k \in DOMAIN ProgramOf(s, r),
           ProgramOf(s, r)[k].does = "plain", Writing(s, fs, new, r, k, file),
           file.texts = {}
    PROVE  RunIn(s, new, r, k, file.inode, None, doing)
<1> DEFINE p == TargetOf(s, r, k)
<1>1. new[p] = file /\ file # Absent /\ \A u \in Places : u # p => new[u] = fs[u]
  BY WritingIsFile
<1>2. p \in Places /\ file.last = r /\ WritesIn(s, r, k)
  BY DEF Writing
<1>3. EndOf(s, r, k, None, doing)
  BY DEF RunIn
<1>4. OpenIn(s, new, r, k, file.inode)
  BY <1>1, <1>2 DEF OpenIn
<1> HIDE DEF p
<1>5. WroteIn(s, new, r, k)
  <2>1. ASSUME NEW u \in Places, new[u] # Absent
        PROVE  /\ new[u].last = r =>
                     \E m \in 1 .. k : WritesIn(s, r, m) /\ TargetOf(s, r, m) = u
               /\ r \in new[u].texts =>
                     \E m \in 1 .. k - 1 : WritesIn(s, r, m) /\ TargetOf(s, r, m) = u
    <3>1. CASE u = p
      <4>1. k \in 1 .. k /\ r \notin new[u].texts
        BY <1>1, <3>1
      <4> QED BY <1>2, <3>1, <4>1 DEF p
    <3>2. CASE u # p
      BY <1>1, <2>1, <3>2 DEF RunIn, WroteIn
    <3> QED BY <3>1, <3>2
  <2> QED BY <2>1 DEF WroteIn
<1>6. PastIn(s, new, r, k, file.inode)
  <2>1. ASSUME NEW n \in 1 .. k - 1, WritesIn(s, r, n), TargetOf(s, r, n) # None, AloneIn(s, r),
               TargetOf(s, r, n) # p
        PROVE  new[TargetOf(s, r, n)] # Absent /\ new[TargetOf(s, r, n)].texts = {r}
    <3>1. new[TargetOf(s, r, n)] = fs[TargetOf(s, r, n)]
      BY <1>1, <2>1, CallsAreKnown
    <3> QED BY <2>1, <3>1 DEF RunIn, PastIn
  <2>2. file.inode # None
    BY NamesDiffer DEF Writing, Command!TextFiles
  <2> QED BY <1>1, <2>1, <2>2 DEF PastIn, p
<1>7. OrderIn(s, new, r, k)
  BY <1>2, PortfolioTargets DEF OrderIn
<1> QED BY <1>3, <1>4, <1>5, <1>6, <1>7 DEF RunIn

\* A run that has written its text at its step, and goes on.
LEMMA WrittenStep ==
    ASSUME NEW s \in Sessions, NEW fs \in [Places -> {Absent} \cup Command!TextFiles], NEW new,
           NEW r \in DOMAIN s, NEW k \in Nat \ {0}, NEW o, NEW doing, NEW file,
           RunIn(s, fs, r, k, o, None, doing), k \in DOMAIN ProgramOf(s, r),
           Writing(s, fs, new, r, k, file), AloneIn(s, r) => file.texts = {r},
           s[r].command = "portfolio" => file.inode = <<r, k>>
    PROVE  RunIn(s, new, r, k + 1, None, None, doing)
<1> DEFINE p == TargetOf(s, r, k)
<1>1. new[p] = file /\ file # Absent /\ \A u \in Places : u # p => new[u] = fs[u]
  BY WritingIsFile
<1>2. p \in Places /\ file.last = r /\ WritesIn(s, r, k)
  BY DEF Writing
<1>3. EndOf(s, r, k + 1, None, doing)
  BY NamesDiffer DEF RunIn, EndOf
<1>4. OpenIn(s, new, r, k + 1, None)
  BY DEF OpenIn
<1> HIDE DEF p
<1>5. WroteIn(s, new, r, k + 1)
  <2>1. ASSUME NEW u \in Places, new[u] # Absent
        PROVE  /\ new[u].last = r =>
                     \E m \in 1 .. k + 1 : WritesIn(s, r, m) /\ TargetOf(s, r, m) = u
               /\ r \in new[u].texts =>
                     \E m \in 1 .. (k + 1) - 1 : WritesIn(s, r, m) /\ TargetOf(s, r, m) = u
    <3>1. CASE u = p
      <4>1. k \in 1 .. k + 1 /\ k \in 1 .. (k + 1) - 1
        OBVIOUS
      <4> QED BY <1>2, <3>1, <4>1 DEF p
    <3>2. CASE u # p
      <4>1. \A n \in 1 .. k : n \in 1 .. k + 1
        OBVIOUS
      <4>2. \A n \in 1 .. k - 1 : n \in 1 .. (k + 1) - 1
        OBVIOUS
      <4> QED BY <1>1, <2>1, <3>2, <4>1, <4>2 DEF RunIn, WroteIn
    <3> QED BY <3>1, <3>2
  <2> QED BY <2>1 DEF WroteIn
<1>6. PastIn(s, new, r, k + 1, None)
  <2>1. ASSUME AloneIn(s, r), NEW n \in 1 .. (k + 1) - 1, WritesIn(s, r, n),
               TargetOf(s, r, n) # None
        PROVE  new[TargetOf(s, r, n)] # Absent /\ new[TargetOf(s, r, n)].texts = {r}
    <3>1. CASE TargetOf(s, r, n) = p
      BY <1>1, <2>1, <3>1
    <3>2. CASE TargetOf(s, r, n) # p
      <4>1. n \in 1 .. k - 1
        BY <3>2 DEF p
      <4>2. new[TargetOf(s, r, n)] = fs[TargetOf(s, r, n)]
        BY <1>1, <2>1, <3>2, CallsAreKnown
      <4>3. TargetOf(s, r, k) # TargetOf(s, r, n)
        BY <3>2 DEF p
      <4> QED BY <2>1, <4>1, <4>2, <4>3 DEF RunIn, PastIn
    <3> QED BY <3>1, <3>2
  <2> QED BY <2>1 DEF PastIn
<1>7. OrderIn(s, new, r, k + 1)
  <2>1. SUFFICES ASSUME s[r].command = "portfolio" PROVE OrderIn(s, new, r, k + 1)
    BY DEF OrderIn
  <2> DEFINE lock == s[r].given["derivation_output"]
             catalogue == s[r].given["catalog_output"]
  <2>2. /\ TargetOf(s, r, 8) = lock /\ TargetOf(s, r, 9) = catalogue /\ lock \in Places
        /\ catalogue \in Places /\ k \in {8, 9}
    BY <1>2, <2>1, PortfolioTargets
  <2>3. catalogue # lock
    BY <2>1, <2>2 DEF RunIn, OrderIn
  <2>4. AloneIn(s, r) /\ k > 8 => fs[lock].inode = <<r, 8>>
    BY <2>1 DEF RunIn, OrderIn
  <2> HIDE DEF lock, catalogue
  <2>5. CASE k = 8
    <3>1. new[lock].inode = <<r, 8>>
      BY <1>1, <2>1, <2>2, <2>5 DEF p
    <3> QED BY <2>3, <2>5, <3>1 DEF OrderIn, lock, catalogue
  <2>6. CASE k = 9
    <3>1. new[catalogue].inode = <<r, 9>> /\ new[lock] = fs[lock]
      BY <1>1, <2>1, <2>2, <2>3, <2>6 DEF p
    <3>2. AloneIn(s, r) => fs[lock].inode = <<r, 8>>
      BY <2>4, <2>6
    <3> QED BY <2>3, <2>6, <3>1, <3>2 DEF OrderIn, lock, catalogue
  <2> QED BY <2>2, <2>5, <2>6
<1> QED BY <1>3, <1>4, <1>5, <1>6, <1>7 DEF RunIn

\* A run whose inode has lost its name: its text is nowhere.
LEMMA LostStep ==
    ASSUME NEW s \in Sessions, NEW fs, NEW r \in DOMAIN s, NEW k \in Nat \ {0}, NEW o, NEW doing,
           RunIn(s, fs, r, k, o, None, doing), o # None, fs[TargetOf(s, r, k)].inode # o
    PROVE  RunIn(s, fs, r, k + 1, None, None, doing)
<1>1. /\ ~AloneIn(s, r) /\ k \in DOMAIN ProgramOf(s, r)
      /\ ProgramOf(s, r)[k].does = "plain"
  BY DEF RunIn, PastIn, OpenIn
<1>2. EndOf(s, r, k + 1, None, doing)
  BY NamesDiffer DEF RunIn, EndOf
<1>3. OpenIn(s, fs, r, k + 1, None)
  BY DEF OpenIn
<1>4. WroteIn(s, fs, r, k + 1)
  <2>1. \A n \in 1 .. k : n \in 1 .. k + 1
    OBVIOUS
  <2>2. \A n \in 1 .. k - 1 : n \in 1 .. (k + 1) - 1
    OBVIOUS
  <2> QED BY <2>1, <2>2 DEF RunIn, WroteIn
<1>5. PastIn(s, fs, r, k + 1, None)
  BY <1>1 DEF PastIn
<1>6. OrderIn(s, fs, r, k + 1)
  <2>1. s[r].command = "portfolio" => k > 1
    BY <1>1, PortfolioTargets
  <2> QED BY <1>1, <2>1 DEF RunIn, OrderIn
<1> QED BY <1>2, <1>3, <1>4, <1>5, <1>6 DEF RunIn

\* One run moves, and writes at most at its step.
Moves(old, new, t, value) ==
    /\ DOMAIN new = DOMAIN old /\ new[t] = value
    /\ \A r \in DOMAIN old \ {t} : new[r] = old[r]

LEMMA OneMoves ==
    ASSUME NEW s, NEW fs, NEW ks, NEW os, NEW ends, NEW doings,
           RunsIn(s, fs, ks, os, ends, doings), NEW t \in DOMAIN s,
           NEW new, new = fs \/ \E file : Writing(s, fs, new, t, ks[t], file),
           NEW ks2 \in [DOMAIN s -> Nat \ {0}], NEW os2 \in [DOMAIN s -> {None} \cup Command!Inodes],
           NEW ends2, NEW doings2, NEW ended, NEW doing,
           Moves(ks, ks2, t, ks2[t]), Moves(os, os2, t, os2[t]),
           Moves(ends, ends2, t, ended), Moves(doings, doings2, t, doing),
           RunIn(s, new, t, ks2[t], os2[t], ended, doing)
    PROVE  RunsIn(s, new, ks2, os2, ends2, doings2)
<1>1. TypeIn(s, fs, ks, os, ends, doings)
  BY DEF RunsIn
<1>2. new \in [Places -> {Absent} \cup Command!TextFiles]
  <2>1. fs \in [Places -> {Absent} \cup Command!TextFiles]
    BY <1>1 DEF TypeIn
  <2> QED BY <2>1, WritingIsFile
<1>3. TypeIn(s, new, ks2, os2, ends2, doings2)
  BY <1>1, <1>2 DEF TypeIn, Moves
<1>4. ASSUME NEW r \in DOMAIN s
      PROVE  RunIn(s, new, r, ks2[r], os2[r], ends2[r], doings2[r])
  <2>1. CASE r = t
    BY <2>1 DEF Moves
  <2>2. CASE r # t
    <3>1. /\ ks2[r] = ks[r] /\ os2[r] = os[r] /\ ends2[r] = ends[r] /\ doings2[r] = doings[r]
          /\ s \in Sessions /\ fs \in [Places -> {Absent} \cup Command!TextFiles]
          /\ ks[r] \in Nat \ {0} /\ RunIn(s, fs, r, ks[r], os[r], ends[r], doings[r])
      BY <1>1, <2>2 DEF TypeIn, Moves, RunsIn
    <3>2. RunIn(s, new, r, ks[r], os[r], ends[r], doings[r])
      BY <2>2, <3>1, OthersStay
    <3> QED BY <3>1, <3>2
  <2> QED BY <2>1, <2>2
<1> QED BY <1>3, <1>4 DEF RunsIn

\* The steps of runs.
LEMMA RunIsKnown ==
    ASSUME Command!CommandInv, NEW r \in DOMAIN session
    PROVE  /\ RunsIn(session, files, at, opened, exit, failed)
           /\ session \in Sessions /\ files \in [Places -> {Absent} \cup Command!TextFiles]
           /\ at \in [DOMAIN session -> Nat \ {0}] /\ at[r] \in Nat \ {0}
           /\ opened \in [DOMAIN session -> {None} \cup Command!Inodes]
           /\ DOMAIN exit = DOMAIN session /\ DOMAIN failed = DOMAIN session
           /\ RunIn(session, files, r, at[r], opened[r], exit[r], failed[r])
           /\ at[r] <= Len(ProgramOf(session, r)) => at[r] \in DOMAIN ProgramOf(session, r)
           /\ Command!Program(r) = ProgramOf(session, r)
           /\ Command!Place(r) = TargetOf(session, r, at[r])
<1>1. RunsIn(session, files, at, opened, exit, failed)
  BY RunsInSays
<1>2. /\ session \in Sessions /\ files \in [Places -> {Absent} \cup Command!TextFiles]
      /\ at \in [DOMAIN session -> Nat \ {0}] /\ at[r] \in Nat \ {0}
      /\ opened \in [DOMAIN session -> {None} \cup Command!Inodes]
      /\ DOMAIN exit = DOMAIN session /\ DOMAIN failed = DOMAIN session
      /\ RunIn(session, files, r, at[r], opened[r], exit[r], failed[r])
  BY <1>1 DEF RunsIn, TypeIn
<1>3. Short(ProgramOf(session, r))
  BY <1>2, CallsAreKnown
<1>4. at[r] <= Len(ProgramOf(session, r)) => at[r] \in DOMAIN ProgramOf(session, r)
  <2>1. /\ DOMAIN ProgramOf(session, r) = 1 .. Len(ProgramOf(session, r))
        /\ Len(ProgramOf(session, r)) \in 0 .. 10
    BY <1>3 DEF Short, Command!Longest
  <2> QED BY <1>2, <2>1
<1> QED BY <1>1, <1>2, <1>4 DEF Command!Program, Command!Place, Command!Role, Command!Given,
           ProgramOf, TargetOf

LEMMA AdvanceMoves ==
    ASSUME Command!CommandInv, NEW r \in DOMAIN session, Command!Advance(r)
    PROVE  /\ at' \in [DOMAIN session -> Nat \ {0}] /\ at'[r] = at[r] + 1
           /\ Moves(at, at', r, at'[r]) /\ session' = session
           /\ Moves(exit, exit', r, exit[r]) /\ Moves(failed, failed', r, failed[r])
<1>1. at \in [DOMAIN session -> Nat \ {0}]
  BY RunIsKnown
<1>2. /\ at' = [at EXCEPT ![r] = @ + 1] /\ session' = session
      /\ exit' = exit /\ failed' = failed
  BY DEF Command!Advance
<1> QED BY <1>1, <1>2 DEF Moves

LEMMA QuietKeeps ==
    ASSUME Command!CommandInv, NEW r \in DOMAIN session, exit[r] = None,
           at[r] <= Len(ProgramOf(session, r)), Command!Advance(r), UNCHANGED <<files, opened>>,
           WritesIn(session, r, at[r]) => TargetOf(session, r, at[r]) = None,
           session[r].command = "portfolio" /\ at[r] = 1 =>
              session[r].given["catalog_output"] # session[r].given["derivation_output"]
    PROVE  Command!CommandInv'
<1>1. /\ RunsIn(session, files, at, opened, exit, failed) /\ session \in Sessions
      /\ opened \in [DOMAIN session -> {None} \cup Command!Inodes] /\ at[r] \in Nat \ {0}
      /\ RunIn(session, files, r, at[r], opened[r], exit[r], failed[r])
      /\ at[r] \in DOMAIN ProgramOf(session, r)
  BY RunIsKnown
<1>2. RunIn(session, files, r, at[r] + 1, opened[r], None, failed[r])
  BY <1>1, QuietStep
<1>3. /\ at' \in [DOMAIN session -> Nat \ {0}] /\ at'[r] = at[r] + 1
      /\ Moves(at, at', r, at'[r]) /\ session' = session
      /\ Moves(exit, exit', r, None) /\ Moves(failed, failed', r, failed[r])
  BY AdvanceMoves
<1>4. Moves(opened, opened', r, opened'[r]) /\ opened' = opened /\ files' = files
  BY <1>1 DEF Moves
<1>5. RunsIn(session, files', at', opened', exit', failed')
  BY <1>1, <1>2, <1>3, <1>4, OneMoves
<1> QED BY <1>3, <1>5, RunsInSays

LEMMA ExitKeeps ==
    ASSUME Command!CommandInv, NEW r \in DOMAIN session, NEW code, Command!Exit(r, code),
           NEW doing, failed' = [failed EXCEPT ![r] = doing] \/ (failed' = failed /\ doing = failed[r]),
           EndOf(session, r, at[r], code, doing)
    PROVE  Command!CommandInv'
<1>1. /\ RunsIn(session, files, at, opened, exit, failed) /\ session \in Sessions
      /\ opened \in [DOMAIN session -> {None} \cup Command!Inodes]
      /\ at \in [DOMAIN session -> Nat \ {0}]
      /\ DOMAIN exit = DOMAIN session /\ DOMAIN failed = DOMAIN session
      /\ RunIn(session, files, r, at[r], opened[r], exit[r], failed[r])
  BY RunIsKnown
<1>2. /\ exit' = [exit EXCEPT ![r] = code] /\ session' = session /\ files' = files
      /\ at' = at /\ opened' = opened
  BY DEF Command!Exit
<1>3. RunIn(session, files, r, at[r], opened[r], code, doing)
  BY <1>1 DEF RunIn
<1>4. /\ Moves(at, at', r, at'[r]) /\ Moves(opened, opened', r, opened'[r])
      /\ Moves(exit, exit', r, code) /\ Moves(failed, failed', r, doing)
  BY <1>1, <1>2 DEF Moves
<1>5. RunsIn(session, files', at', opened', exit', failed')
  BY <1>1, <1>2, <1>3, <1>4, OneMoves
<1> QED BY <1>2, <1>5, RunsInSays

LEMMA WrittenKeeps ==
    ASSUME Command!CommandInv, NEW r \in DOMAIN session, exit[r] = None,
           at[r] <= Len(ProgramOf(session, r)), Command!Advance(r),
           opened' = [opened EXCEPT ![r] = None],
           NEW file, Writing(session, files, files', r, at[r], file),
           AloneIn(session, r) => file.texts = {r},
           session[r].command = "portfolio" => file.inode = <<r, at[r]>>
    PROVE  Command!CommandInv'
<1>1. /\ RunsIn(session, files, at, opened, exit, failed) /\ session \in Sessions
      /\ files \in [Places -> {Absent} \cup Command!TextFiles]
      /\ opened \in [DOMAIN session -> {None} \cup Command!Inodes] /\ at[r] \in Nat \ {0}
      /\ RunIn(session, files, r, at[r], opened[r], exit[r], failed[r])
      /\ at[r] \in DOMAIN ProgramOf(session, r)
  BY RunIsKnown
<1>2. RunIn(session, files', r, at[r] + 1, None, None, failed[r])
  BY <1>1, WrittenStep
<1>3. /\ at' \in [DOMAIN session -> Nat \ {0}] /\ at'[r] = at[r] + 1
      /\ Moves(at, at', r, at'[r]) /\ session' = session
      /\ Moves(exit, exit', r, None) /\ Moves(failed, failed', r, failed[r])
  BY AdvanceMoves
<1>4. /\ opened' \in [DOMAIN session -> {None} \cup Command!Inodes] /\ opened'[r] = None
      /\ Moves(opened, opened', r, opened'[r])
  BY <1>1 DEF Moves
<1>5. \E f : Writing(session, files, files', r, at[r], f)
  OBVIOUS
<1>6. RunIn(session, files', r, at'[r], opened'[r], None, failed[r])
  BY <1>2, <1>3, <1>4
<1>7. RunsIn(session, files', at', opened', exit', failed')
  BY <1>1, <1>3, <1>4, <1>5, <1>6, OneMoves
<1> QED BY <1>3, <1>7, RunsInSays

LEMMA InitIsCommandInv == Command!Init => Command!CommandInv
<1> SUFFICES ASSUME Command!Init PROVE RunsIn(session, files, at, opened, exit, failed)
  BY RunsInSays
<1>1. /\ session \in Sessions
      /\ files \in [Places -> {Absent} \cup {Command!File(Before, {Before}, Before)}]
      /\ at = [r \in DOMAIN session |-> 1] /\ opened = [r \in DOMAIN session |-> None]
      /\ exit = [r \in DOMAIN session |-> None] /\ failed = [r \in DOMAIN session |-> None]
  BY DEF Command!Init, Command!Runs
<1>2. Command!File(Before, {Before}, Before) \in Command!TextFiles
  BY DEF Command!File, Command!TextFiles, Command!Authors, Command!Inodes
<1>3. TypeIn(session, files, at, opened, exit, failed)
  BY <1>1, <1>2 DEF TypeIn
<1>4. ASSUME NEW r \in DOMAIN session
      PROVE  RunIn(session, files, r, at[r], opened[r], exit[r], failed[r])
  <2>1. at[r] = 1 /\ opened[r] = None /\ exit[r] = None /\ failed[r] = None /\ r # Before
    BY <1>1, CallsAreKnown
  <2>2. EndOf(session, r, at[r], exit[r], failed[r])
    BY <2>1, NamesDiffer DEF EndOf
  <2>3. OpenIn(session, files, r, at[r], opened[r])
    BY <2>1 DEF OpenIn
  <2>4. WroteIn(session, files, r, at[r])
    <3>1. \A p \in Places : files[p] # Absent =>
             files[p].last = Before /\ files[p].texts = {Before}
      BY <1>1 DEF Command!File
    <3> QED BY <2>1, <3>1 DEF WroteIn
  <2>5. PastIn(session, files, r, at[r], opened[r])
    BY <2>1 DEF PastIn
  <2>6. OrderIn(session, files, r, at[r])
    BY <2>1 DEF OrderIn
  <2> QED BY <2>2, <2>3, <2>4, <2>5, <2>6 DEF RunIn
<1> QED BY <1>3, <1>4 DEF RunsIn

LEMMA TruncateKeeps ==
    ASSUME Command!CommandInv, NEW r \in DOMAIN session, Command!Truncate(r)
    PROVE  Command!CommandInv'
<1> DEFINE k == at[r]
           p == TargetOf(session, r, k)
           inode == IF files[p] = Absent THEN <<r, k>> ELSE files[p].inode
           file == Command!File(inode, {}, r)
<1>1. /\ RunsIn(session, files, at, opened, exit, failed) /\ session \in Sessions
      /\ files \in [Places -> {Absent} \cup Command!TextFiles]
      /\ opened \in [DOMAIN session -> {None} \cup Command!Inodes]
      /\ at \in [DOMAIN session -> Nat \ {0}] /\ k \in Nat \ {0}
      /\ DOMAIN exit = DOMAIN session /\ DOMAIN failed = DOMAIN session
      /\ RunIn(session, files, r, k, opened[r], exit[r], failed[r])
      /\ k <= Len(ProgramOf(session, r)) => k \in DOMAIN ProgramOf(session, r)
      /\ Command!Program(r) = ProgramOf(session, r) /\ Command!Place(r) = p
  BY RunIsKnown
<1>2. /\ exit[r] = None /\ opened[r] = None /\ k \in DOMAIN ProgramOf(session, r) /\ p # None
      /\ ProgramOf(session, r)[k].does = "plain"
  BY <1>1 DEF Command!Truncate, Command!AtStep
<1>3. /\ files' = [files EXCEPT ![p] = file] /\ opened' = [opened EXCEPT ![r] = inode]
      /\ session' = session /\ at' = at /\ exit' = exit /\ failed' = failed
  BY <1>1 DEF Command!Truncate
<1>4. WritesIn(session, r, k)
  BY <1>2 DEF WritesIn, Command!Writing
<1>5. p \in Places
  BY <1>1, <1>2, <1>4, CallsAreKnown
<1>6. r \in Command!Authors /\ <<r, k>> \in Command!Inodes
  BY <1>1, <1>2, CallsAreKnown
<1>7. inode \in Command!Inodes
  BY <1>1, <1>5, <1>6 DEF Command!TextFiles
<1> HIDE DEF k, p, inode
<1>8. /\ file \in Command!TextFiles /\ file.last = r /\ file.texts = {} /\ file.inode = inode
  BY <1>6, <1>7 DEF Command!TextFiles, Command!File
<1> HIDE DEF file
<1>9. Writing(session, files, files', r, k, file)
  BY <1>3, <1>4, <1>5, <1>8 DEF Writing, p
<1>10. RunIn(session, files, r, k, None, None, failed[r])
  BY <1>1, <1>2
<1>11. RunIn(session, files', r, k, file.inode, None, failed[r])
  BY <1>1, <1>2, <1>8, <1>9, <1>10, TruncateStep
<1>12. /\ opened' \in [DOMAIN session -> {None} \cup Command!Inodes] /\ opened'[r] = file.inode
       /\ Moves(opened, opened', r, opened'[r]) /\ Moves(at, at', r, at'[r])
       /\ Moves(exit, exit', r, None) /\ Moves(failed, failed', r, failed[r])
       /\ at' \in [DOMAIN session -> Nat \ {0}]
  BY <1>1, <1>2, <1>3, <1>7, <1>8 DEF Moves
<1>13. \E f : Writing(session, files, files', r, at[r], f)
  BY <1>9 DEF k
<1>14. RunIn(session, files', r, at'[r], opened'[r], None, failed[r])
  BY <1>3, <1>11, <1>12 DEF k
<1>15. RunsIn(session, files', at', opened', exit', failed')
  BY <1>1, <1>12, <1>13, <1>14, OneMoves
<1> QED BY <1>3, <1>15, RunsInSays

LEMMA FillKeeps ==
    ASSUME Command!CommandInv, NEW r \in DOMAIN session, Command!Fill(r)
    PROVE  Command!CommandInv'
<1> DEFINE k == at[r]
           p == TargetOf(session, r, k)
<1>1. /\ RunsIn(session, files, at, opened, exit, failed) /\ session \in Sessions
      /\ files \in [Places -> {Absent} \cup Command!TextFiles]
      /\ opened \in [DOMAIN session -> {None} \cup Command!Inodes]
      /\ at \in [DOMAIN session -> Nat \ {0}] /\ k \in Nat \ {0}
      /\ RunIn(session, files, r, k, opened[r], exit[r], failed[r])
      /\ k <= Len(ProgramOf(session, r)) => k \in DOMAIN ProgramOf(session, r)
      /\ Command!Program(r) = ProgramOf(session, r) /\ Command!Place(r) = p
  BY RunIsKnown
<1>2. /\ exit[r] = None /\ opened[r] # None /\ k \in DOMAIN ProgramOf(session, r)
      /\ k <= Len(ProgramOf(session, r)) /\ ProgramOf(session, r)[k].does = "plain"
      /\ opened' = [opened EXCEPT ![r] = None] /\ Command!Advance(r)
  BY <1>1 DEF Command!Fill, Command!AtStep
<1>3. WritesIn(session, r, k) /\ session[r].command # "portfolio"
  <2>1. WritesIn(session, r, k)
    BY <1>2 DEF WritesIn, Command!Writing
  <2> QED BY <1>1, <1>2, <2>1, PortfolioTargets
<1>4. p \in Places /\ files[p] # Absent
  BY <1>1, <1>2 DEF RunIn, OpenIn
<1>5. AloneIn(session, r) => files[p].inode = opened[r] /\ files[p].texts = {}
  BY <1>1, <1>2 DEF RunIn, PastIn
<1>6. CASE files[p].inode = opened[r]
  <2>1. PICK kept \in SUBSET files[p].texts :
           files' = [files EXCEPT ![p] = Command!File(opened[r], {r} \cup kept, r)]
    BY <1>1, <1>6 DEF Command!Fill
  <2> DEFINE file == Command!File(opened[r], {r} \cup kept, r)
  <2>2. files[p] \in Command!TextFiles /\ r \in Command!Authors
    BY <1>1, <1>4, CallsAreKnown
  <2>3. opened[r] \in Command!Inodes /\ {r} \cup kept \in SUBSET Command!Authors
    BY <1>1, <1>2, <2>1, <2>2 DEF Command!TextFiles
  <2>4. /\ file \in Command!TextFiles /\ file.last = r /\ file.texts = {r} \cup kept
    BY <2>2, <2>3 DEF Command!TextFiles, Command!File
  <2> HIDE DEF file, k, p
  <2>5. Writing(session, files, files', r, k, file)
    BY <1>3, <1>4, <2>1, <2>4 DEF Writing, p, file
  <2>6. AloneIn(session, r) => file.texts = {r}
    BY <1>5, <2>1, <2>4
  <2> QED BY <1>2, <1>3, <2>5, <2>6, WrittenKeeps DEF k
<1>7. CASE files[p].inode # opened[r]
  <2>1. files' = files
    BY <1>1, <1>7 DEF Command!Fill
  <2>2. RunIn(session, files, r, k + 1, None, None, failed[r])
    BY <1>1, <1>2, <1>7, LostStep
  <2>3. /\ at' \in [DOMAIN session -> Nat \ {0}] /\ at'[r] = k + 1
        /\ Moves(at, at', r, at'[r]) /\ session' = session
        /\ Moves(exit, exit', r, None) /\ Moves(failed, failed', r, failed[r])
    BY <1>2, AdvanceMoves
  <2>4. /\ opened' \in [DOMAIN session -> {None} \cup Command!Inodes] /\ opened'[r] = None
        /\ Moves(opened, opened', r, opened'[r])
    BY <1>1, <1>2 DEF Moves
  <2>5. RunIn(session, files', r, at'[r], opened'[r], None, failed[r])
    BY <2>1, <2>2, <2>3, <2>4
  <2>6. RunsIn(session, files', at', opened', exit', failed')
    BY <1>1, <2>1, <2>3, <2>4, <2>5, OneMoves
  <2> QED BY <2>3, <2>6, RunsInSays
<1> QED BY <1>6, <1>7

LEMMA InstallKeeps ==
    ASSUME Command!CommandInv, NEW r \in DOMAIN session, Command!Install(r)
    PROVE  Command!CommandInv'
<1> DEFINE k == at[r]
           p == TargetOf(session, r, k)
           file == Command!File(<<r, k>>, {r}, r)
<1>1. /\ session \in Sessions
      /\ opened \in [DOMAIN session -> {None} \cup Command!Inodes]
      /\ RunIn(session, files, r, k, opened[r], exit[r], failed[r])
      /\ k <= Len(ProgramOf(session, r)) => k \in DOMAIN ProgramOf(session, r)
      /\ Command!Program(r) = ProgramOf(session, r) /\ Command!Place(r) = p
  BY RunIsKnown
<1>2. /\ exit[r] = None /\ k \in DOMAIN ProgramOf(session, r) /\ p # None
      /\ k <= Len(ProgramOf(session, r))
      /\ ProgramOf(session, r)[k].does \in {"private", "bundle"}
      /\ files' = [files EXCEPT ![p] = file] /\ opened' = opened /\ Command!Advance(r)
  BY <1>1 DEF Command!Install, Command!AtStep
<1>3. WritesIn(session, r, k)
  BY <1>2 DEF WritesIn, Command!Writing
<1>4. p \in Places /\ r \in Command!Authors /\ <<r, k>> \in Command!Inodes
  BY <1>1, <1>2, <1>3, CallsAreKnown
<1>5. opened[r] = None
  BY <1>1, <1>2 DEF RunIn, OpenIn
<1>6. opened' = [opened EXCEPT ![r] = None]
  BY <1>1, <1>2, <1>5
<1> HIDE DEF k, p
<1>7. /\ file \in Command!TextFiles /\ file.last = r /\ file.texts = {r} /\ file.inode = <<r, k>>
  BY <1>4 DEF Command!TextFiles, Command!File
<1> HIDE DEF file
<1>8. Writing(session, files, files', r, k, file)
  BY <1>2, <1>3, <1>4, <1>7 DEF Writing, p
<1> QED BY <1>2, <1>6, <1>7, <1>8, WrittenKeeps DEF k

LEMMA StepKeepsCommandInv ==
    ASSUME Command!CommandInv, [Command!Next]_commandVars
    PROVE  Command!CommandInv'
<1>1. CASE UNCHANGED commandVars
  <2>1. /\ session' = session /\ files' = files /\ at' = at /\ opened' = opened
        /\ exit' = exit /\ failed' = failed
    BY <1>1 DEF commandVars
  <2> QED BY <2>1, RunsInSays
<1>2. CASE Command!Next
  <2> PICK r \in DOMAIN session :
         \/ Command!Proceed(r) \/ Command!CheckTogether(r) \/ Command!ReadInput(r)
         \/ Command!PrintResult(r) \/ Command!Truncate(r) \/ Command!Fill(r)
         \/ Command!Install(r) \/ Command!Report(r) \/ Command!Finish(r)
         \/ Command!Error(r) \/ Command!Kill(r)
    BY <1>2 DEF Command!Next, Command!Runs
  <2>1. /\ session \in Sessions /\ at[r] \in Nat \ {0}
        /\ RunIn(session, files, r, at[r], opened[r], exit[r], failed[r])
        /\ at[r] <= Len(ProgramOf(session, r)) => at[r] \in DOMAIN ProgramOf(session, r)
        /\ Command!Program(r) = ProgramOf(session, r)
        /\ Command!Place(r) = TargetOf(session, r, at[r])
    BY RunIsKnown
  <2>2. ASSUME NEW kinds, Command!AtStep(r, kinds)
        PROVE  /\ exit[r] = None /\ at[r] <= Len(ProgramOf(session, r))
               /\ at[r] \in DOMAIN ProgramOf(session, r)
               /\ ProgramOf(session, r)[at[r]].does \in kinds
    BY <2>1, <2>2 DEF Command!AtStep
  <2>3. session[r].command = "portfolio" => ProgramOf(session, r)[1].does = "distinct"
    BY <2>1, PortfolioTargets
  <2>4. failed[r] # None => exit[r] # None
    BY <2>1 DEF RunIn, EndOf
  <2>5. CASE Command!Proceed(r)
    <3>1. /\ Command!Advance(r) /\ UNCHANGED <<files, opened>>
          /\ Command!AtStep(r, {"options", "fetch", "compute", "echo"})
      BY <2>5 DEF Command!Proceed
    <3>2. ~WritesIn(session, r, at[r])
      BY <2>2, <3>1 DEF WritesIn, Command!Writing
    <3>3. ~(session[r].command = "portfolio" /\ at[r] = 1)
      BY <2>2, <2>3, <3>1
    <3> QED BY <2>2, <3>1, <3>2, <3>3, QuietKeeps
  <2>6. CASE Command!CheckTogether(r)
    <3>1. /\ Command!Advance(r) /\ UNCHANGED <<files, opened>>
          /\ Command!AtStep(r, {"needs"}) \/ Command!AtStep(r, {"distinct"})
          /\ Command!AtStep(r, {"needs"}) \/ session[r].given["catalog_output"]
                                               # session[r].given["derivation_output"]
      BY <2>6 DEF Command!CheckTogether, Command!Given
    <3>2. ~WritesIn(session, r, at[r])
      BY <2>2, <3>1 DEF WritesIn, Command!Writing
    <3>3. session[r].command = "portfolio" /\ at[r] = 1 =>
             session[r].given["catalog_output"] # session[r].given["derivation_output"]
      BY <2>2, <2>3, <3>1
    <3> QED BY <2>2, <3>1, <3>2, <3>3, QuietKeeps
  <2>7. CASE Command!ReadInput(r)
    <3>1. /\ Command!Advance(r) /\ UNCHANGED <<files, opened>>
          /\ Command!AtStep(r, {"read"})
      BY <2>7 DEF Command!ReadInput
    <3>2. ~WritesIn(session, r, at[r])
      BY <2>2, <3>1 DEF WritesIn, Command!Writing
    <3>3. ~(session[r].command = "portfolio" /\ at[r] = 1)
      BY <2>2, <2>3, <3>1
    <3> QED BY <2>2, <3>1, <3>2, <3>3, QuietKeeps
  <2>8. CASE Command!PrintResult(r)
    <3>1. /\ Command!Advance(r) /\ UNCHANGED <<files, opened>>
          /\ Command!AtStep(r, {"plain", "private"}) /\ Command!Place(r) = None
      BY <2>8 DEF Command!PrintResult
    <3>2. TargetOf(session, r, at[r]) = None
      BY <2>1, <3>1
    <3>3. ~(session[r].command = "portfolio" /\ at[r] = 1)
      BY <2>2, <2>3, <3>1
    <3> QED BY <2>2, <3>1, <3>2, <3>3, QuietKeeps
  <2>9. CASE Command!Report(r)
    <3>1. Command!AtStep(r, {"status"})
      BY <2>9 DEF Command!Report
    <3>2. ~WritesIn(session, r, at[r]) /\ ~(session[r].command = "portfolio" /\ at[r] = 1)
      BY <2>2, <2>3, <3>1 DEF WritesIn, Command!Writing
    <3>3. CASE Command!Exit(r, "changed") /\ UNCHANGED failed
      <4>1. EndOf(session, r, at[r], "changed", failed[r])
        BY <2>2, <2>4, <3>1 DEF EndOf
      <4> QED BY <3>3, <4>1, ExitKeeps
    <3>4. CASE Command!Advance(r) /\ UNCHANGED <<files, opened>>
      BY <2>2, <3>1, <3>2, <3>4, QuietKeeps
    <3> QED BY <2>9, <3>3, <3>4 DEF Command!Report
  <2>10. CASE Command!Finish(r)
    <3>1. /\ Command!Exit(r, "ok") /\ failed' = failed /\ exit[r] = None
          /\ at[r] > Len(ProgramOf(session, r))
      BY <2>1, <2>10 DEF Command!Finish
    <3>2. EndOf(session, r, at[r], "ok", failed[r])
      BY <2>4, <3>1 DEF EndOf
    <3> QED BY <3>1, <3>2, ExitKeeps
  <2>11. CASE Command!Error(r)
    <3> DEFINE doing == ProgramOf(session, r)[at[r]].does
    <3>1. /\ Command!Exit(r, "error") /\ at[r] <= Len(ProgramOf(session, r))
          /\ failed' = [failed EXCEPT ![r] = doing]
      BY <2>1, <2>11 DEF Command!Error
    <3>2. EndOf(session, r, at[r], "error", doing)
      BY <2>1, <3>1, NamesDiffer DEF EndOf
    <3> HIDE DEF doing
    <3> QED BY <3>1, <3>2, ExitKeeps
  <2>12. CASE Command!Kill(r)
    <3>1. Command!Exit(r, "killed") /\ failed' = failed /\ exit[r] = None
      BY <2>12 DEF Command!Kill
    <3>2. EndOf(session, r, at[r], "killed", failed[r])
      BY <2>4, <3>1 DEF EndOf
    <3> QED BY <3>1, <3>2, ExitKeeps
  <2> QED BY <2>5, <2>6, <2>7, <2>8, <2>9, <2>10, <2>11, <2>12,
             TruncateKeeps, FillKeeps, InstallKeeps
<1> QED BY <1>1, <1>2

\* What it says.
LEMMA CommandInvSays ==
    Command!CommandInv =>
        /\ Command!RefusedChangesNothing /\ Command!ReportedIsWritten
        /\ Command!LockIsNeverLost
<1> SUFFICES ASSUME Command!CommandInv
             PROVE  /\ Command!RefusedChangesNothing /\ Command!ReportedIsWritten
                    /\ Command!LockIsNeverLost
  OBVIOUS
<1> USE DEF Command!Runs
<1>1. ASSUME NEW r \in DOMAIN session
      PROVE  /\ session \in Sessions /\ at[r] \in Nat \ {0}
             /\ Short(ProgramOf(session, r))
             /\ session[r].command # "discover" => RefusedFirst(ProgramOf(session, r))
             /\ RunIn(session, files, r, at[r], opened[r], exit[r], failed[r])
             /\ Command!Writes(r) = OutputsOf(session, r)
             /\ Command!Alone(r) <=> AloneIn(session, r)
  <2>1. session \in Sessions /\ at[r] \in Nat \ {0}
        /\ RunIn(session, files, r, at[r], opened[r], exit[r], failed[r])
    BY RunIsKnown
  <2>2. \A u : Command!Writes(u) = OutputsOf(session, u)
    BY DEF Command!Writes, OutputsOf, Command!WritesAt, WritesIn, Command!Target, TargetOf,
           Command!Program, ProgramOf, Command!Given
  <2> QED BY <2>1, <2>2, CallsAreKnown DEF Command!Alone, AloneIn
<1>2. Command!RefusedChangesNothing
  <2>1. SUFFICES ASSUME NEW r \in DOMAIN session, failed[r] \in Command!Refusing,
                        session[r].command # "discover", NEW p \in Places, files[p] # Absent,
                        files[p].last = r
                 PROVE  FALSE
    BY DEF Command!RefusedChangesNothing, Command!Refusing
  <2> DEFINE program == ProgramOf(session, r)
  <2>2. at[r] \in DOMAIN program /\ program[at[r]].does \in Command!Refusing
    BY <1>1, <2>1, NamesDiffer DEF RunIn, EndOf
  <2>3. PICK n \in 1 .. at[r] : WritesIn(session, r, n)
    BY <1>1, <2>1 DEF RunIn, WroteIn
  <2>4. n \in DOMAIN program /\ program[n].does \in Command!Writing
    BY <2>3 DEF WritesIn
  <2>5. DOMAIN program = 1 .. Len(program) /\ Len(program) \in 0 .. 10
    BY <1>1 DEF Short, Command!Longest
  <2>6. PICK m \in 0 .. Len(program) :
           /\ \A i \in 1 .. m : program[i].does \notin Command!Writing
           /\ \A i \in m + 1 .. Len(program) : program[i].does \notin Command!Refusing
    BY <1>1, <2>1 DEF RefusedFirst
  <2> HIDE DEF program
  <2>7. m < n
    BY <2>4, <2>5, <2>6
  <2>8. at[r] \in m + 1 .. Len(program)
    BY <1>1, <2>2, <2>5, <2>6, <2>7
  <2> QED BY <2>2, <2>6, <2>8
<1>3. Command!ReportedIsWritten
  <2>1. SUFFICES ASSUME NEW r \in DOMAIN session, exit[r] \in {"ok", "changed"},
                        AloneIn(session, r), NEW p \in OutputsOf(session, r)
                 PROVE  files[p] # Absent /\ files[p].texts = {r}
    BY <1>1 DEF Command!ReportedIsWritten
  <2> DEFINE program == ProgramOf(session, r)
             k == at[r]
             last == Len(program)
  <2>2. PICK n \in DOMAIN program : WritesIn(session, r, n) /\ TargetOf(session, r, n) = p
    BY <2>1 DEF OutputsOf
  <2>3. p # None /\ program[n].does \in Command!Writing
    BY <2>1, <2>2 DEF OutputsOf, WritesIn
  <2>4. /\ DOMAIN program = 1 .. last /\ last \in 0 .. 10 /\ k \in Nat \ {0}
        /\ \A i \in 1 .. last : program[i].does = "status" => i = last
    BY <1>1 DEF Short, Command!Longest
  <2>5. \/ k > last
        \/ k \in DOMAIN program /\ program[k].does = "status"
    BY <1>1, <2>1 DEF RunIn, EndOf
  <2>6. opened[r] # None => k \in DOMAIN program /\ program[k].does = "plain"
    BY <1>1 DEF RunIn, OpenIn
  <2> HIDE DEF program, k, last
  <2>7. k > last \/ (k = last /\ program[k].does = "status")
    BY <2>4, <2>5
  <2>8. opened[r] = None
    <3>1. k > last => k \notin 1 .. last
      BY <2>4
    <3> QED BY <2>4, <2>6, <2>7, <3>1
  <2>9. n \in 1 .. k - 1
    <3>1. n # k \/ k > last
      BY <2>3, <2>7 DEF Command!Writing
    <3>2. n \in 1 .. last
      BY <2>2, <2>4
    <3> QED BY <2>4, <2>7, <3>1, <3>2
  <2> QED BY <1>1, <2>1, <2>2, <2>3, <2>8, <2>9 DEF RunIn, PastIn, k
<1>4. Command!LockIsNeverLost
  <2>1. SUFFICES ASSUME NEW r \in DOMAIN session, session[r].command = "portfolio",
                        AloneIn(session, r),
                        files[session[r].given["catalog_output"]] # Absent,
                        r \in files[session[r].given["catalog_output"]].texts
                 PROVE  LET book == files[session[r].given["catalog_output"]]
                            lock == files[session[r].given["derivation_output"]]
                        IN  /\ book.texts = {r} /\ lock # Absent /\ lock.texts = {r}
                            /\ book.inode # lock.inode
    BY <1>1 DEF Command!LockIsNeverLost, Command!Given
  <2> DEFINE lockAt == session[r].given["derivation_output"]
             madeAt == session[r].given["catalog_output"]
             k == at[r]
  <2>2. /\ session \in Sessions /\ k \in Nat \ {0}
        /\ RunIn(session, files, r, k, opened[r], exit[r], failed[r])
    BY <1>1
  <2>3. /\ WritesIn(session, r, 8) /\ TargetOf(session, r, 8) = lockAt
        /\ WritesIn(session, r, 9) /\ TargetOf(session, r, 9) = madeAt
        /\ lockAt \in Places /\ madeAt \in Places
        /\ \A n : WritesIn(session, r, n) => n \in {8, 9}
        /\ ProgramOf(session, r)[8].does = "private" /\ ProgramOf(session, r)[9].does = "private"
    BY <2>1, <2>2, PortfolioTargets
  <2>4. PICK n \in 1 .. k - 1 : WritesIn(session, r, n) /\ TargetOf(session, r, n) = madeAt
    BY <2>1, <2>2, <2>3 DEF RunIn, WroteIn
  <2>5. madeAt # lockAt
    <3>1. n \in {8, 9}
      BY <2>3, <2>4
    <3>2. k > 1
      BY <2>2, <2>4, <3>1
    <3> QED BY <2>1, <2>2, <3>2 DEF RunIn, OrderIn
  <2>6. n = 9
    BY <2>3, <2>4, <2>5
  <2>7. k > 8 /\ k > 9 /\ 8 \in 1 .. k - 1 /\ 9 \in 1 .. k - 1
    BY <2>2, <2>4, <2>6
  <2>8. files[lockAt].inode = <<r, 8>> /\ files[madeAt].inode = <<r, 9>>
    BY <2>1, <2>2, <2>7 DEF RunIn, OrderIn
  <2>9. opened[r] = None
    <3>1. SUFFICES ASSUME opened[r] # None PROVE FALSE
      OBVIOUS
    <3>2. WritesIn(session, r, k) /\ ProgramOf(session, r)[k].does = "plain"
      BY <2>2, <3>1 DEF RunIn, OpenIn, WritesIn, Command!Writing
    <3> QED BY <2>3, <3>2
  <2>10. lockAt # None /\ madeAt # None
    BY <2>3, NamesDiffer
  <2>11. /\ files[lockAt] # Absent /\ files[lockAt].texts = {r}
         /\ files[madeAt].texts = {r}
    <3>1. ASSUME NEW i \in {8, 9}
          PROVE  /\ files[TargetOf(session, r, i)] # Absent
                 /\ files[TargetOf(session, r, i)].texts = {r}
      BY <2>1, <2>2, <2>3, <2>7, <2>9, <2>10 DEF RunIn, PastIn
    <3> QED BY <2>3, <3>1
  <2>12. <<r, 8>> # <<r, 9>>
    OBVIOUS
  <2> QED BY <2>8, <2>11, <2>12
<1> QED BY <1>2, <1>3, <1>4

----------------------------------------------------------------------------
\* The theorems.

PartsAreSound ==
    /\ part = "composition" => Composition!CompositionInv
    /\ part = "enrichment" => Enrichment!EnrichmentInv
    /\ part = "import" => Import!ImportInv
    /\ part = "portfolio" => Portfolio!PortfolioInv
    /\ part = "monitor" => Monitor!MonitorInv
    /\ part = "discovery" => Discovery!DiscoveryInv
    /\ part = "private" => Private!PrivateInv
    /\ part = "remote" => Remote!RemoteInv
    /\ part = "price" => Price!PriceInv
    /\ part = "command" => Command!CommandInv

LEMMA PartsAreSoundHold == Spec => []PartsAreSound
<1>1. Init => PartsAreSound
  BY InitIsCompositionInv, InitIsEnrichmentInv, InitIsImportInv, InitIsPortfolioInv,
     InitIsMonitorInv, InitIsDiscoveryInv, InitIsPrivateInv, InitIsRemoteInv,
     InitIsPriceInv, InitIsCommandInv DEF Init, PartsAreSound
<1>2. PartsAreSound /\ [Next]_vars => PartsAreSound'
  BY PartsMoveAlone, StepKeepsCompositionInv, StepKeepsEnrichmentInv,
     StepKeepsImportInv, StepKeepsPortfolioInv, StepKeepsMonitorInv,
     StepKeepsDiscoveryInv, StepKeepsPrivateInv, StepKeepsRemoteInv, StepKeepsPriceInv,
     StepKeepsCommandInv DEF PartsAreSound
<1> QED BY <1>1, <1>2, PTL DEF Spec

(***************************************************************************)
(* Whatever the catalogs, mappings and their number: whether they compose, *)
(* and whether a policy can be applied, is decided by what they say alone, *)
(* although each is joined to, or projected on, the result of those before *)
(* it, and equal values may be spelled differently.                        *)
(***************************************************************************)
THEOREM ResultsAreOrderFreeHolds == Spec => []ResultsAreOrderFree
<1>1. PartsAreSound => ResultsAreOrderFree
  BY DEF PartsAreSound, ResultsAreOrderFree, Composition!CompositionInv,
     Enrichment!EnrichmentInv
<1> QED BY <1>1, PartsAreSoundHold, PTL

(***************************************************************************)
(* A composed row is at any point the union of the rows it was made of, an *)
(* audit accounts for each signal that was added, the latest item of every *)
(* id is what is offered, with the address that said it, a published score *)
(* never stands for a price, a body that was read is the whole of it, the  *)
(* version of a board changes exactly with the prices it uses, and a       *)
(* command that is refused changes no file, one that ends well has written *)
(* all it was asked to, and the lock of a portfolio is never lost.         *)
(* Documents alone are left to TLC.                                        *)
(***************************************************************************)
THEOREM NothingIsAddedOrLostHolds == Spec => [](part # "document" => NothingIsAddedOrLost)
<1>1. Remote!RemoteInv => Remote!BodyIsWhole
  BY DEF Remote!RemoteInv
<1>2. PartsAreSound => (part # "document" => NothingIsAddedOrLost)
  BY <1>1, CompositionInvIsUnion, EnrichmentInvAccounts, DiscoveryInvSays,
     PriceInvIdentifies, PriceInvKeepsVersion, CommandInvSays
     DEF PartsAreSound, NothingIsAddedOrLost
<1> QED BY <1>2, PartsAreSoundHold, PTL

(***************************************************************************)
(* Evidence counts only as far as it was reviewed: only what a policy      *)
(* names is projected, only what a review names is mapped or priced, what  *)
(* was only discovered is marked, and only what was read of an official    *)
(* address at one revision is labelled so.                                 *)
(***************************************************************************)
THEOREM OnlyReviewedEvidenceHolds == Spec => []OnlyReviewedEvidence
<1>1. PartsAreSound => OnlyReviewedEvidence
  BY EnrichmentInvIsReviewed, ImportInvIsReviewed, ImportInvTellsChange, WiderScopes,
     RemoteInvIsEarned, PriceInvIsReviewed DEF PartsAreSound, OnlyReviewedEvidence,
     Discovery!DiscoveryInv
<1> QED BY <1>1, PartsAreSoundHold, PTL

(***************************************************************************)
(* What verifies rests on fresh evidence until it expires, for any clock   *)
(* within the skew; what is reported of a feed, or read over HTTPS, was so *)
(* during the call; and a call ends in time.                               *)
(***************************************************************************)
THEOREM OnlyCurrentEvidenceHolds == Spec => []OnlyCurrentEvidence
<1>1. PartsAreSound => OnlyCurrentEvidence
  BY PortfolioInvIsFresh, PortfolioInvIsTrue, PriceInvExpires DEF PartsAreSound,
     OnlyCurrentEvidence, Monitor!MonitorInv, Monitor!StatusIsOfOneMoment,
     Remote!RemoteInv
<1> QED BY <1>1, PartsAreSoundHold, PTL

(***************************************************************************)
(* A catalog is projected from the capture and the reviews at hand,        *)
(* whenever its report was made, for any captures and reviews.             *)
(***************************************************************************)
THEOREM CatalogIsOfCurrentHolds == Spec => CatalogIsOfCurrent
<1>1. [Next]_vars =>
        [catalog' # catalog =>
            \A o \in DOMAIN catalog' : \E r \in DOMAIN current.rows :
                /\ r \in DOMAIN entries /\ entries[r].offering = o
                /\ current.rows[r].subject = entries[r].subject
                /\ current.rows[r].result # Invalid
                /\ catalog'[o] = IF entries[r].relationship = "exact"
                                 THEN current.rows[r].result
                                 ELSE Import!QualityOnly(current.rows[r].result)]_importVars
  BY PartsMoveAlone, ProjectionIsOfCurrent DEF importVars
<1> QED BY <1>1, PTL DEF Spec, CatalogIsOfCurrent, Import!CatalogIsOfCurrent,
           Import!vars, importVars

(***************************************************************************)
(* A reader of the target never sees a part of a file, a call that returns *)
(* leaves no staging file, and left to themselves no-clobber calls that    *)
(* return have published, for any number of calls of either kind and       *)
(* whatever somebody else does to the target.                              *)
(***************************************************************************)
THEOREM PrivateFilesHold == Spec => []PrivateFilesAreWhole
<1>1. PartsAreSound => PrivateFilesAreWhole
  BY DEF PartsAreSound, Private!PrivateInv, PrivateFilesAreWhole
<1> QED BY <1>1, PartsAreSoundHold, PTL

(***************************************************************************)
(* However calls interleave with each other and with somebody else, a call *)
(* changes the target only to its own complete file, and replaces          *)
(* something only if it may.                                               *)
(***************************************************************************)
THEOREM NothingIsClobberedHolds == Spec => NothingIsClobbered
<1> DEFINE Own(w) ==
             /\ target' = w /\ w \in written
             /\ parent \in Folders /\ target \notin Folders
           Keeps(w) == w \notin Overwrite => target = Absent
<1>1. ASSUME Private!PrivateInv, Private!Next, NEW w \in Writers, calls[w] # calls'[w],
             target' # target
      PROVE  Own(w) /\ Keeps(w)
  <2>1. PICK v \in Writers : Private!Call(v)
    BY <1>1 DEF Private!Next, Private!TakeParent, Private!ChangeTarget
  <2>2. v = w
    BY <1>1, <2>1, CallsMoveAlone DEF Private!PrivateInv
  <2> QED BY <1>1, <2>1, <2>2, CallsTouchOnlyTheirOwn
<1>2. PartsAreSound /\ [Next]_vars =>
        /\ [\A w \in Writers \ Overwrite :
               calls[w] # calls'[w] /\ target' # target => target = Absent]_privateVars
        /\ [\A w \in Writers : calls[w] # calls'[w] /\ target' # target =>
               /\ target' = w /\ w \in written
               /\ parent \in Folders /\ target \notin Folders]_privateVars
  BY <1>1, PartsMoveAlone DEF PartsAreSound
<1>3. [][\A w \in Writers \ Overwrite :
           calls[w] # calls'[w] /\ target' # target => target = Absent]_privateVars
      => Private!NoClobber
  BY PTL DEF Private!NoClobber, Private!vars, privateVars
<1> QED BY <1>2, PartsAreSoundHold, PTL DEF Spec, NothingIsClobbered, Private!NoClobber,
           Private!CallsInstallOnlyTheirOwn, Private!vars, privateVars
=============================================================================
