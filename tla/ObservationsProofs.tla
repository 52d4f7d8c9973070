------------------------- MODULE ObservationsProofs -------------------------
(***************************************************************************)
(* Proofs about the parts of MCObservations, for any values of their       *)
(* constants that meet its assumptions.  As in CatalogsProofs, each part   *)
(* has an inductive invariant, which its module defines, and together they *)
(* are an inductive invariant of Spec.                                     *)
(***************************************************************************)
EXTENDS MCObservations, FiniteSetTheorems, FunctionTheorems, SequenceTheorems,
        WellFoundedInduction, TLAPS

(***************************************************************************)
(* A behaviour is one of one part, whose own steps are all that change it. *)
(***************************************************************************)
LEMMA PartsMoveAlone ==
    ASSUME [Next]_vars
    PROVE  /\ part' = part
           /\ part = "local" => [Local!Next]_records
           /\ part = "capture" => [Capture!Next]_captureVars
           /\ part = "matrix" => [Matrix!Next]_matrixVars
           /\ part = "bench" => [Bench!Next]_benchVars
           /\ part = "read" => [Reading!Next]_readVars
           /\ part = "row" => [TraceRow!Next]_row
           /\ part = "harbor" => [Harbor!Next]_boardVars
           /\ part = "usage" => [Telemetry!Next]_usageVars
           /\ part # "local" => records' = records
           /\ part # "read" => readVars' = readVars
           /\ part # "row" => row' = row
           /\ part # "harbor" => boardVars' = boardVars
           /\ part # "usage" => usageVars' = usageVars
BY DEF Next, vars, captureVars, matrixVars, benchVars, readVars, boardVars, usageVars, Others, MeasureLocally, Observe, WriteRow,
   WriteTrace, ReadFile, ImportBoard, CaptureMemory, MeasureMatrix, ReadUsage, EstimateAxes,
   ImportScores

(***************************************************************************)
(* A set of natural numbers has a least element.                           *)
(***************************************************************************)
LEMMA LeastExists ==
    ASSUME NEW T, T \subseteq Nat, T # {}
    PROVE  \E k \in T : \A y \in T : k <= y
<1>1. PICK k \in T : \A y \in T : ~(<<y, k>> \in OpToRel(<, Nat))
  BY NatLessThanWellFounded, WFMin
<1>2. \A y \in T : ~(y < k)
  BY <1>1 DEF OpToRel
<1> QED BY <1>2

(***************************************************************************)
(* A finite set of integers has a greatest element.                        *)
(***************************************************************************)
LEMMA GreatestExists ==
    ASSUME NEW S, IsFiniteSet(S), S # {}, S \subseteq Int
    PROVE  \E m \in S : \A x \in S : x <= m
<1> DEFINE n == Cardinality(S)
<1>1. n \in Nat /\ ExistsBijection(1 .. n, S)
  BY FS_CardinalityType
<1>2. PICK e \in [1 .. n -> S] : \A y \in S : \E k \in 1 .. n : e[k] = y
  BY <1>1 DEF ExistsBijection, Bijection, Surjection
<1> HIDE DEF n
<1> DEFINE Top(i, k) == \A j \in 1 .. k : e[j] <= e[i]
           bad == {k \in 1 .. n : ~\E i \in 1 .. k : Top(i, k)}
<1>3. \A k \in 1 .. n : e[k] \in Int
  BY <1>2
<1>4. bad = {}
  <2> SUFFICES ASSUME bad # {} PROVE FALSE
    OBVIOUS
  <2>1. bad \subseteq Nat
    BY <1>1
  <2> HIDE DEF bad
  <2>2. PICK k \in bad : \A y \in bad : k <= y
    BY <2>1, LeastExists
  <2>3. \A y \in bad : ~(y < k)
    BY <2>1, <2>2
  <2> USE DEF bad
  <2>4. k \in 1 .. n /\ k \in Nat /\ ~\E i \in 1 .. k : Top(i, k)
    BY <1>1
  <2>5. k # 1
    <3> SUFFICES ASSUME k = 1 PROVE FALSE
      OBVIOUS
    <3>1. e[1] \in Int
      BY <1>3, <2>4
    <3> QED BY <2>4, <3>1
  <2>6. k - 1 \in 1 .. n /\ k - 1 < k
    BY <1>1, <2>4, <2>5
  <2>7. PICK i \in 1 .. (k - 1) : Top(i, k - 1)
    BY <2>3, <2>6
  <2>8. \A j \in 1 .. k : e[j] \in Int /\ (j = k \/ j \in 1 .. (k - 1))
    BY <1>1, <1>3, <2>4
  <2>9. i \in 1 .. k /\ k \in 1 .. k
    BY <2>4, <2>7
  <2>10. CASE e[k] <= e[i]
    BY <2>4, <2>7, <2>8, <2>9, <2>10
  <2>11. CASE e[i] <= e[k]
    <3>1. ASSUME NEW j \in 1 .. k PROVE e[j] <= e[k]
      <4>1. e[j] \in Int /\ e[i] \in Int /\ e[k] \in Int /\ (j = k \/ e[j] <= e[i])
        BY <2>7, <2>8, <2>9
      <4> DEFINE a == e[j]
                 b == e[i]
                 c == e[k]
      <4>2. a \in Int /\ b \in Int /\ c \in Int /\ (a = c \/ a <= b) /\ b <= c
        BY <2>11, <4>1
      <4> HIDE DEF a, b, c
      <4>3. a <= c
        BY <4>2
      <4> QED BY <4>3 DEF a, c
    <3> QED BY <2>4, <2>9, <3>1
  <2>12. e[i] \in Int /\ e[k] \in Int
    BY <2>8, <2>9
  <2> HIDE DEF bad, Top
  <2>13. e[k] <= e[i] \/ e[i] <= e[k]
    BY <2>12
  <2> QED BY <2>10, <2>11, <2>13
<1>5. n \in 1 .. n
  <2>1. n # 0
    BY FS_EmptySet DEF n
  <2> QED BY <1>1, <2>1
<1>6. PICK i \in 1 .. n : Top(i, n)
  BY <1>4, <1>5
<1> QED BY <1>2, <1>6

\* A function has finitely many values on a finite set.
LEMMA ImageIsFinite ==
    ASSUME NEW S, IsFiniteSet(S), NEW f, NEW T, \A y \in T : \E x \in S : y = f[x]
    PROVE  IsFiniteSet(T)
<1> DEFINE image == {f[x] : x \in S}
           g == [x \in S |-> f[x]]
<1>1. g \in Surjection(S, image)
  BY DEF Surjection
<1>2. IsFiniteSet(image)
  BY <1>1, FS_Surjection
<1>3. T \in SUBSET image
  OBVIOUS
<1> QED BY <1>2, <1>3, FS_Subset

----------------------------------------------------------------------------
\* Local measurements.

LEMMA InitIsLocalInv == Local!Init => Local!LocalInv
BY DEF Local!Init, Local!LocalInv, Local!AreCaptured

LEMMA StepKeepsLocalInv == Local!LocalInv /\ [Local!Next]_records => Local!LocalInv'
<1> SUFFICES ASSUME Local!LocalInv, NEW r \in Records, Local!Capture(r) PROVE Local!LocalInv'
  BY DEF Local!Next, Local!LocalInv, Local!AreCaptured
<1>1. Local!Identified(r, Len(records) + 1) \in Local!Captured
  BY DEF Local!LocalInv, Local!AreCaptured, Local!Captured
<1>2. Local!Identified(r, Len(records) + 1).id = Len(records) + 1
  BY RecordsPossible DEF Local!RecordsArePossible, Local!Fields, Local!Identified
<1> QED BY <1>1, <1>2 DEF Local!LocalInv, Local!AreCaptured, Local!Capture

LEMMA CapturedFields ==
    ASSUME NEW s, Local!AreCaptured(s), NEW i \in DOMAIN s
    PROVE  /\ s[i].tokens \in Nat \cup {None} /\ s[i].at \in Int /\ s[i].id = i
           /\ \A m \in {s[i].memory, s[i].footprint} :
                 [capacity |-> s[i].tokens, memory |-> m] # None
<1>1. PICK r \in Records, n \in Nat : s[i] = Local!Identified(r, n)
  BY DEF Local!AreCaptured, Local!Captured
<1>2. \A f \in {"tokens", "at", "memory", "footprint"} : Local!Identified(r, n)[f] = r[f]
  BY RecordsPossible DEF Local!RecordsArePossible, Local!Fields, Local!Identified
<1> QED BY <1>1, <1>2, RecordsPossible DEF Local!AreCaptured, Local!RecordsArePossible

(***************************************************************************)
(* Of s of known size one is above all others.                       *)
(***************************************************************************)
LEMMA SelectedIsAbove ==
    ASSUME NEW s, Local!AreCaptured(s), NEW pool, pool # {},
           \A r \in pool : (\E i \in DOMAIN s : r = s[i]) /\ r.tokens # None
    PROVE  /\ Local!Selected(pool) \in pool
           /\ \A q \in pool \ {Local!Selected(pool)} : Local!Above(Local!Selected(pool), q)
<1> DEFINE I == {i \in DOMAIN s : s[i] \in pool}
           Size == {s[i].tokens : i \in I}
<1>0. I # {} /\ I \subseteq DOMAIN s /\ \A i \in I : s[i].tokens # None
  OBVIOUS
<1>1. IsFiniteSet(I)
  BY <1>0, FS_Interval, FS_Subset DEF Local!AreCaptured
<1> HIDE DEF I
<1>2. \A i \in I : s[i].tokens \in Int /\ s[i].at \in Int /\ s[i].id = i /\ i \in Int
  BY <1>0, CapturedFields DEF Local!AreCaptured
<1>3. IsFiniteSet(Size) /\ Size # {} /\ Size \subseteq Int
  <2> DEFINE f == [i \in I |-> s[i].tokens]
  <2>1. \A x \in Size : \E i \in I : x = f[i]
    OBVIOUS
  <2> HIDE DEF f, Size
  <2>2. IsFiniteSet(Size)
    BY <1>1, <2>1, ImageIsFinite
  <2> USE DEF Size
  <2> QED BY <1>0, <1>2, <2>2
<1>4. PICK t \in Size : \A x \in Size : x <= t
  BY <1>3, GreatestExists
<1> DEFINE J == {i \in I : s[i].tokens = t}
           Time == {s[i].at : i \in J}
<1>5. IsFiniteSet(Time) /\ Time # {} /\ Time \subseteq Int
  <2>1. J \in SUBSET I /\ IsFiniteSet(J)
    BY <1>1, FS_Subset
  <2> DEFINE f == [i \in J |-> s[i].at]
  <2>2. \A x \in Time : \E i \in J : x = f[i]
    OBVIOUS
  <2> HIDE DEF f, J, Time
  <2>3. IsFiniteSet(Time)
    BY <2>1, <2>2, ImageIsFinite
  <2> USE DEF J, Time
  <2> QED BY <1>2, <1>4, <2>3
<1>6. PICK a \in Time : \A x \in Time : x <= a
  BY <1>5, GreatestExists
<1> DEFINE K == {i \in J : s[i].at = a}
<1>7. IsFiniteSet(K) /\ K # {} /\ K \subseteq Int
  <2>1. K \in SUBSET I /\ IsFiniteSet(K)
    BY <1>1, FS_Subset
  <2> QED BY <1>2, <1>6, <2>1
<1>8. PICK k \in K : \A x \in K : x <= k
  BY <1>7, GreatestExists
<1>9. k \in I /\ s[k].tokens = t /\ s[k].at = a
  BY <1>8
<1>10. ASSUME NEW j \in I, j # k PROVE Local!Above(s[k], s[j])
  <2>1. s[j].tokens <= t
    BY <1>4
  <2>2. s[j].tokens = t => s[j].at <= a
    BY <1>6
  <2>3. s[j].tokens = t /\ s[j].at = a => j <= k
    BY <1>8
  <2>4. t \in Int /\ a \in Int /\ k \in Int
    BY <1>2, <1>9
  <2> HIDE DEF Size, J, Time, K
  <2> QED BY <1>2, <1>9, <1>10, <2>1, <2>2, <2>3, <2>4 DEF Local!Above
<1>11. \E r \in pool : \A q \in pool \ {r} : Local!Above(r, q)
  <2>1. s[k] \in pool
    BY <1>9 DEF I
  <2>2. \A q \in pool \ {s[k]} : \E j \in I : j # k /\ q = s[j]
    BY DEF I
  <2> QED BY <1>10, <2>1, <2>2
<1> QED BY <1>11 DEF Local!Selected

(***************************************************************************)
(* The ladder hides no attempt, and what passed beyond the capacity of a   *)
(* system would be its capacity.                                           *)
(***************************************************************************)
LEMMA LocalInvShowsFailures == Local!LocalInv => Local!FailuresStay
<1> SUFFICES ASSUME Local!LocalInv, Local!CapacityCatalog(records) # Local!Unreadable,
                    NEW i \in DOMAIN records
             PROVE  LET entry == Local!CapacityCatalog(records)[Local!Key(records[i])]
                    IN  /\ records[i] \in entry.attempted
                        /\ Local!Passed(records[i]) => entry.signals # None
                        /\ entry.signals # None /\ records[i].tokens > entry.signals.capacity
                              => ~Local!Passed(records[i])
  BY DEF Local!FailuresStay
<1> DEFINE key == Local!Key(records[i])
           I == {j \in DOMAIN records : Local!Key(records[j]) = key}
           candidates == {records[j] : j \in I}
           P == {j \in I : Local!Passed(records[j])}
           passing == {r \in candidates : Local!Passed(r)}
<1>1. /\ Local!CapacityCatalog(records)[key] = Local!Entry(candidates)
      /\ \A j \in DOMAIN records : records[j].tokens # None
  BY DEF Local!CapacityCatalog
<1>2. records[i] \in candidates
  OBVIOUS
<1>3. passing = {records[j] : j \in P}
  OBVIOUS
<1>0. \A r \in passing : (\E j \in DOMAIN records : r = records[j]) /\ r.tokens # None
  BY <1>1
<1>4. ASSUME passing # {} PROVE Local!Entry(candidates).signals.capacity = Local!Selected(passing).tokens
  BY <1>4 DEF Local!Entry
<1>5. ASSUME Local!Passed(records[i]), Local!Entry(candidates).signals # None,
             records[i].tokens > Local!Entry(candidates).signals.capacity
      PROVE  FALSE
  <2>1. records[i] \in passing /\ P # {} /\ P \subseteq DOMAIN records
    BY <1>2, <1>5
  <2> HIDE DEF passing
  <2>2. /\ Local!Selected(passing) \in passing
        /\ \A q \in passing \ {Local!Selected(passing)} : Local!Above(Local!Selected(passing), q)
    BY <1>0, <2>1, SelectedIsAbove DEF Local!LocalInv
  <2>3. \A j \in P : records[j].tokens \in Int
    BY <1>1, CapturedFields DEF Local!LocalInv
  <2>4. Local!Selected(passing).tokens \in Int /\ records[i].tokens \in Int
    BY <1>3, <2>1, <2>2, <2>3
  <2>5. records[i].tokens > Local!Selected(passing).tokens
    BY <1>4, <1>5, <2>1
  <2> HIDE DEF passing, candidates, P
  <2> QED BY <2>1, <2>2, <2>4, <2>5 DEF Local!Above
<1>6. Local!Passed(records[i]) => Local!Entry(candidates).signals # None
  <2> SUFFICES ASSUME Local!Passed(records[i]) PROVE Local!Entry(candidates).signals # None
    OBVIOUS
  <2>1. passing # {}
    BY <1>2
  <2> HIDE DEF passing
  <2>2. Local!Selected(passing) \in passing
    BY <1>0, <2>1, SelectedIsAbove DEF Local!LocalInv
  <2>3. PICK j \in DOMAIN records : Local!Selected(passing) = records[j]
    BY <1>0, <2>2
  <2> USE DEF passing
  <2>4. \A m \in {records[j].memory, records[j].footprint} :
            [capacity |-> records[j].tokens, memory |-> m] # None
    BY CapturedFields DEF Local!LocalInv
  <2> QED BY <2>1, <2>3, <2>4 DEF Local!Entry
<1>7. Local!Entry(candidates).attempted = candidates
  BY DEF Local!Entry
<1> QED BY <1>1, <1>2, <1>5, <1>6, <1>7

\* What is asked of the uncached cohort is asked of each of its records.
LEMMA LocalInvIsCold == Local!LocalInv => Local!UncachedIsCold
<1> SUFFICES ASSUME Local!LocalInv PROVE Local!UncachedIsCold
  OBVIOUS
<1>1. ASSUME Local!LocalCatalog(records, "uncached") # Local!Unreadable, NEW i \in DOMAIN records
      PROVE  records[i].cache = "disabled" \/ (records[i].cache = "miss" /\ records[i].hits = 0)
  BY <1>1 DEF Local!LocalCatalog, Local!IsUncached
<1>2. ASSUME \A i \in DOMAIN records : records[i].cache = "disabled", records # << >>
      PROVE  Local!LocalCatalog(records, "uncached") = Local!LocalCatalog(records, "exact")
  <2>1. \A i, j \in DOMAIN records :
            Local!Position(records[i], "uncached") = Local!Position(records[j], "uncached")
                <=> Local!Position(records[i], "exact") = Local!Position(records[j], "exact")
    BY <1>2 DEF Local!Position
  <2>2. \A i \in DOMAIN records : Local!IsUncached(records[i])
    BY <1>2 DEF Local!IsUncached
  <2>3. 1 \in DOMAIN records
    BY <1>2 DEF Local!LocalInv, Local!AreCaptured
  <2> QED BY <1>2, <2>1, <2>2, <2>3 DEF Local!LocalCatalog
<1>3. records = << >> => Local!LocalCatalog(records, "uncached") = Local!LocalCatalog(records, "exact")
  BY DEF Local!LocalCatalog
<1> QED BY <1>1, <1>2, <1>3 DEF Local!UncachedIsCold

(***************************************************************************)
(* A catalog is made of the set of its records: every record is compared   *)
(* with the first, but what is asked of one is that all are the same.      *)
(***************************************************************************)
LEMMA LocalInvIsOrderFree == Local!LocalInv => Local!OrderIsFree
<1> SUFFICES ASSUME Local!LocalInv, NEW p \in [DOMAIN records -> DOMAIN records],
                    \A i, j \in DOMAIN records : i # j => p[i] # p[j]
             PROVE  LET other == [i \in DOMAIN records |-> records[p[i]]]
                    IN  /\ Local!CapacityCatalog(other) = Local!CapacityCatalog(records)
                        /\ \A cohort \in {"exact", "uncached"} :
                              Local!LocalCatalog(other, cohort) = Local!LocalCatalog(records, cohort)
  BY DEF Local!OrderIsFree
<1> DEFINE D == DOMAIN records
           other == [i \in D |-> records[p[i]]]
<1>1. \A j \in D : \E i \in D : p[i] = j
  <2>1. IsFiniteSet(D)
    BY FS_Interval DEF Local!LocalInv, Local!AreCaptured
  <2>2. p \in Injection(D, D)
    BY DEF Injection, IsInjective
  <2>3. p \in Surjection(D, D)
    BY <2>1, <2>2, FS_Injection
  <2> QED BY <2>3 DEF Surjection
<1>2. DOMAIN other = D /\ \A i \in D : p[i] \in D /\ other[i] = records[p[i]]
  OBVIOUS
<1>3. D # {} => 1 \in D
  BY DEF Local!LocalInv, Local!AreCaptured
<1>4. other = << >> <=> records = << >>
  <2>1. records = << >> <=> D = {}
    BY DEF Local!LocalInv, Local!AreCaptured
  <2>2. D = {} => other = << >>
    BY DEF Local!LocalInv, Local!AreCaptured
  <2>3. other = << >> => D = {}
    BY <1>2
  <2> QED BY <2>1, <2>2, <2>3
<1> HIDE DEF other
<1>5. Local!CapacityCatalog(other) = Local!CapacityCatalog(records)
  <2> DEFINE Of(s, k) == {s[i] : i \in {j \in DOMAIN s : Local!Key(s[j]) = k}}
             Keys(s) == {Local!Key(s[i]) : i \in DOMAIN s}
             Bad(s) == \E i \in DOMAIN s :
                           \/ s[i].kind # "retrieval" \/ ~Local!IsUncached(s[i])
                           \/ s[i].tokens = None \/ s[i].check = None
                           \/ s[i].asked # s[1].asked
  <2>1. Keys(other) = Keys(records) /\ \A k \in Keys(records) : Of(other, k) = Of(records, k)
    BY <1>1, <1>2
  <2>2. Bad(other) <=> Bad(records)
    BY <1>1, <1>2, <1>3
  <2> DEFINE Entries(s) == [k \in Keys(s) |-> Local!Entry(Of(s, k))]
  <2> HIDE DEF Of, Keys
  <2>3. Entries(other) = Entries(records)
    BY <2>1
  <2> HIDE DEF Entries, Bad
  <2>4. ASSUME NEW s
        PROVE  Local!CapacityCatalog(s) =
                 IF s = << >> \/ Bad(s) THEN Local!Unreadable
                 ELSE IF \E k \in DOMAIN Entries(s) :
                             Entries(s)[k].signals # None /\ Entries(s)[k].signals.memory = None
                      THEN Local!Unreadable ELSE Entries(s)
    BY DEF Local!CapacityCatalog, Of, Keys, Entries, Bad
  <2>5. /\ Local!CapacityCatalog(other) =
              IF other = << >> \/ Bad(other) THEN Local!Unreadable
              ELSE IF \E k \in DOMAIN Entries(other) :
                          /\ Entries(other)[k].signals # None
                          /\ Entries(other)[k].signals.memory = None
                   THEN Local!Unreadable ELSE Entries(other)
        /\ Local!CapacityCatalog(records) =
              IF records = << >> \/ Bad(records) THEN Local!Unreadable
              ELSE IF \E k \in DOMAIN Entries(records) :
                          /\ Entries(records)[k].signals # None
                          /\ Entries(records)[k].signals.memory = None
                   THEN Local!Unreadable ELSE Entries(records)
    BY <2>4
  <2> QED BY <1>4, <2>2, <2>3, <2>5
<1>6. ASSUME NEW cohort \in {"exact", "uncached"}
      PROVE  Local!LocalCatalog(other, cohort) = Local!LocalCatalog(records, cohort)
  <2> DEFINE Bad(s) == \/ cohort = "uncached" /\ \E i \in DOMAIN s : ~Local!IsUncached(s[i])
                       \/ \E i \in DOMAIN s :
                             Local!Position(s[i], cohort) # Local!Position(s[1], cohort)
                       \/ \E i, j \in DOMAIN s : i # j /\ Local!Key(s[i]) = Local!Key(s[j])
             Of(s, k) == s[CHOOSE i \in DOMAIN s : Local!Key(s[i]) = k]
             Keys(s) == {Local!Key(s[i]) : i \in DOMAIN s}
             Taken(s) == [k \in Keys(s) |-> Local!Signals(Of(s, k))]
  <2>1. (\E i \in DOMAIN other : ~Local!IsUncached(other[i]))
            <=> \E i \in D : ~Local!IsUncached(records[i])
    BY <1>1, <1>2
  <2>2. (\E i \in DOMAIN other :
               Local!Position(other[i], cohort) # Local!Position(other[1], cohort))
            <=> \E i \in D : Local!Position(records[i], cohort) # Local!Position(records[1], cohort)
    BY <1>1, <1>2, <1>3
  <2>3. (\E i, j \in DOMAIN other : i # j /\ Local!Key(other[i]) = Local!Key(other[j]))
            <=> \E i, j \in D : i # j /\ Local!Key(records[i]) = Local!Key(records[j])
    BY <1>1, <1>2
  <2>4. Bad(other) <=> Bad(records)
    BY <2>1, <2>2, <2>3
  <2>5. ASSUME ~Bad(records) PROVE Taken(other) = Taken(records)
    <3>1. Keys(other) = Keys(records)
      BY <1>1, <1>2
    <3>2. ASSUME NEW k \in Keys(records) PROVE Of(other, k) = Of(records, k)
      <4>1. PICK i \in D : Local!Key(records[i]) = k
        OBVIOUS
      <4>2. \A j \in D : Local!Key(records[j]) = k => j = i
        BY <2>5, <4>1
      <4>3. PICK h \in D : p[h] = i
        BY <1>1
      <4>4. \A j \in D : Local!Key(other[j]) = k => j = h
        BY <1>2, <4>2, <4>3
      <4>5. Of(records, k) = records[i]
        BY <4>1, <4>2
      <4>6. Of(other, k) = other[h]
        BY <1>2, <4>1, <4>3, <4>4
      <4> QED BY <1>2, <4>3, <4>5, <4>6
    <3> HIDE DEF Of, Keys
    <3> QED BY <3>1, <3>2
  <2> HIDE DEF Bad, Taken, Of, Keys
  <2>6. ASSUME NEW s
        PROVE  Local!LocalCatalog(s, cohort) =
                  IF s = << >> \/ Bad(s) THEN Local!Unreadable ELSE Taken(s)
    BY DEF Local!LocalCatalog, Bad, Taken, Of, Keys
  <2>7. /\ Local!LocalCatalog(other, cohort) =
              IF other = << >> \/ Bad(other) THEN Local!Unreadable ELSE Taken(other)
        /\ Local!LocalCatalog(records, cohort) =
              IF records = << >> \/ Bad(records) THEN Local!Unreadable ELSE Taken(records)
    BY <2>6
  <2> QED BY <1>4, <2>4, <2>5, <2>7
<1> QED BY <1>5, <1>6 DEF other

(***************************************************************************)
(* What passed stays among what passed, and the largest of more is not     *)
(* smaller.                                                                *)
(***************************************************************************)
LEMMA StepRaisesCapacity ==
    ASSUME Local!LocalInv, Local!LocalInv', [Local!Next]_records,
           Local!CapacityCatalog(records) # Local!Unreadable,
           Local!CapacityCatalog(records)' # Local!Unreadable,
           NEW k \in DOMAIN Local!CapacityCatalog(records),
           Local!CapacityCatalog(records)[k].signals # None
    PROVE  /\ Local!CapacityCatalog(records)'[k].signals # None
           /\ Local!CapacityCatalog(records)'[k].signals.capacity
                 >= Local!CapacityCatalog(records)[k].signals.capacity
<1> DEFINE Of(s) == {s[i] : i \in {j \in DOMAIN s : Local!Key(s[j]) = k}}
           Passing(s) == {r \in Of(s) : Local!Passed(r)}
<1>1. /\ Local!CapacityCatalog(records)[k] = Local!Entry(Of(records))
      /\ \A i \in DOMAIN records : records[i].tokens # None
      /\ k \in {Local!Key(records[i]) : i \in DOMAIN records}
  BY DEF Local!CapacityCatalog
<1>2. DOMAIN records \subseteq DOMAIN records' /\ \A i \in DOMAIN records : records'[i] = records[i]
  BY DEF Local!Next, Local!Capture, Local!LocalInv, Local!AreCaptured
<1>3. k \in {Local!Key(records'[i]) : i \in DOMAIN records'}
  BY <1>1, <1>2
<1>4. /\ Local!CapacityCatalog(records)'[k] = Local!Entry(Of(records'))
      /\ \A i \in DOMAIN records' : records'[i].tokens # None
  BY <1>3 DEF Local!CapacityCatalog
<1>5. Passing(records) # {}
  BY <1>1 DEF Local!Entry
<1>6. Passing(records) \subseteq Passing(records')
  BY <1>2
<1>7. \A r \in Passing(records) : (\E i \in DOMAIN records : r = records[i]) /\ r.tokens # None
  BY <1>1
<1>8. \A r \in Passing(records') : (\E i \in DOMAIN records' : r = records'[i]) /\ r.tokens # None
  BY <1>4
<1>9. /\ Local!Entry(Of(records)).signals.capacity = Local!Selected(Passing(records)).tokens
      /\ Local!Entry(Of(records')).signals.capacity = Local!Selected(Passing(records')).tokens
  BY <1>5, <1>6 DEF Local!Entry
<1>10. \E c, m : /\ c = Local!Selected(Passing(records')).tokens
                 /\ m \in {Local!Selected(Passing(records')).memory,
                           Local!Selected(Passing(records')).footprint}
                 /\ Local!Entry(Of(records')).signals = [capacity |-> c, memory |-> m]
  BY <1>5, <1>6 DEF Local!Entry
<1> HIDE DEF Passing, Of
<1> DEFINE old == Local!Selected(Passing(records))
           new == Local!Selected(Passing(records'))
<1>11. old \in Passing(records)
  BY <1>5, <1>7, SelectedIsAbove DEF Local!LocalInv
<1>12. new \in Passing(records') /\ \A q \in Passing(records') \ {new} : Local!Above(new, q)
  <2>1. Local!AreCaptured(records') /\ Passing(records') # {}
    BY <1>5, <1>6 DEF Local!LocalInv
  <2> QED BY <1>8, <2>1, SelectedIsAbove
<1>13. PICK i \in DOMAIN records' : new = records'[i]
  BY <1>8, <1>12
<1>14. /\ new.tokens \in Int
       /\ \A m \in {new.memory, new.footprint} : [capacity |-> new.tokens, memory |-> m] # None
  BY <1>4, <1>13, CapturedFields DEF Local!LocalInv
<1>15. old.tokens \in Int
  <2>1. PICK j \in DOMAIN records : old = records[j]
    BY <1>7, <1>11
  <2> QED BY <1>1, <2>1, CapturedFields DEF Local!LocalInv
<1> HIDE DEF old, new
<1>16. new.tokens >= old.tokens
  <2>1. CASE old = new
    BY <1>15, <2>1
  <2>2. CASE old # new
    BY <1>6, <1>11, <1>12, <1>14, <1>15, <2>2 DEF Local!Above
  <2> QED BY <2>1, <2>2
<1> QED BY <1>1, <1>4, <1>9, <1>10, <1>14, <1>16 DEF old, new

----------------------------------------------------------------------------
\* Traces and reviewed leaderboards.

(***************************************************************************)
(* Rows that are equal are of one request, and requests are told apart;    *)
(* and a summary is of all units of its offering.                          *)
(***************************************************************************)
LEMMA AggregateCountsFailures == Trace!FailuresCount
<1> SUFFICES ASSUME Trace!Aggregate(trace) # Trace!Refused
             PROVE  /\ \A i \in DOMAIN trace : \A j \in DOMAIN trace : i # j => trace[i] # trace[j]
                    /\ \A o \in DOMAIN Trace!Aggregate(trace) :
                          Trace!Aggregate(trace)[o].units
                              = Trace!Cardinality({trace[i].unit : i \in Trace!Of(trace, o)})
  BY DEF Trace!FailuresCount
<1>1. ~Trace!Unfit(trace)
  BY DEF Trace!Aggregate
<1>2. Trace!Aggregate(trace)
        = [o \in {trace[i].offering : i \in DOMAIN trace} |-> Trace!Summary(trace, o)]
  BY <1>1 DEF Trace!Aggregate
<1>3. \A o : Trace!Summary(trace, o).units = Trace!Cardinality({trace[i].unit : i \in Trace!Of(trace, o)})
  BY DEF Trace!Summary, Trace!Counted, Trace!UnitsOf
<1>4. ASSUME NEW i \in DOMAIN trace, NEW j \in DOMAIN trace, i # j PROVE trace[i] # trace[j]
  BY <1>1, <1>4 DEF Trace!Unfit, Trace!Repeats
<1> QED BY <1>2, <1>3, <1>4

LEMMA MappedWasReviewed ==
    ASSUME NEW es, NEW e, NEW scope, NEW id \in DOMAIN Harbor!Quality!Reconcile(e, es, scope).mapped
    PROVE  /\ id \in DOMAIN e.rows /\ id \in DOMAIN es
           /\ Harbor!Quality!Outcome(e, es, scope, id) = "mapped"
           /\ es[id].source = e.source /\ es[id].subject = e.rows[id].subject
           /\ e.rows[id].result # Invalid
           /\ e.rows[id].subject.route = "unknown" => es[id].relationship = "projection"
<1>1. Harbor!Quality!Outcome(e, es, scope, id) = "mapped"
  BY DEF Harbor!Quality!Reconcile
<1> QED BY <1>1 DEF Harbor!Quality!Outcome, Harbor!Quality!Drifted

LEMMA ImportIsAllOrNothing == Harbor!AllOrNothing
<1> SUFFICES ASSUME NEW some \in BOOLEAN, Harbor!Imported(some) # Harbor!Refused
             PROVE  /\ some \/ DOMAIN Harbor!Imported(some).mapped = DOMAIN reviewed
                    /\ \A id \in DOMAIN Harbor!Imported(some).mapped :
                          Harbor!RowOf(board, id).score.status = "display"
  BY DEF Harbor!AllOrNothing
<1> DEFINE e == Harbor!Evidence(board)
           report == Harbor!Quality!Reconcile(e, reviewed, "internal")
<1>1. /\ Harbor!Imported(some).mapped = report.mapped
      /\ Harbor!Failed(report, reviewed) = {} \/ some
  BY DEF Harbor!Imported, Harbor!Import
<1>2. ASSUME NEW id \in DOMAIN report.mapped
      PROVE  id \in DOMAIN reviewed /\ Harbor!RowOf(board, id).score.status = "display"
  <2>1. id \in DOMAIN e.rows /\ id \in DOMAIN reviewed /\ e.rows[id].result # Invalid
    BY <1>2, MappedWasReviewed
  <2>2. e.rows[id].result = Harbor!Result(Harbor!RowOf(board, id).score)
    BY <2>1 DEF Harbor!Evidence
  <2> QED BY <2>1, <2>2 DEF Harbor!Result
<1>3. ASSUME Harbor!Failed(report, reviewed) = {}, NEW id \in DOMAIN reviewed
      PROVE  id \in DOMAIN report.mapped
  <2>1. report.records[id] = "mapped"
    BY <1>3 DEF Harbor!Failed
  <2> QED BY <2>1, <1>3 DEF Harbor!Quality!Reconcile
<1> QED BY <1>1, <1>2, <1>3

----------------------------------------------------------------------------
\* The capture of memory.

LEMMA InitIsCaptureInv == Capture!Init => Capture!CaptureInv
<1> SUFFICES ASSUME Capture!Init PROVE Capture!CaptureInv
  OBVIOUS
<1> USE CapturePossible DEF Capture!CaptureIsPossible
<1>1. /\ call.pc = "start" /\ call.launched = FALSE /\ call.child = None /\ call.reason = None
      /\ call.finished = FALSE /\ call.selected = {} /\ call.samples = << >>
      /\ DOMAIN call = Capture!CallFields
  BY DEF Capture!Init, Capture!CallFields
<1>2. Capture!ProcessesAreKnown
  BY DEF Capture!Init, Capture!ProcessesAreKnown, Capture!Process, Capture!Pids
<1>3. Capture!ChildIsWatched /\ Capture!EndIsExplained /\ Capture!SampledAlone
  BY <1>1 DEF Capture!ChildIsWatched, Capture!EndIsExplained, Capture!SampledAlone, Capture!Reasons
<1>4. setup \in Setups /\ DOMAIN asked = {"stop", "signal", "unhandled"}
  BY DEF Capture!Init
<1> QED BY <1>1, <1>2, <1>3, <1>4 DEF Capture!CaptureInv

\* What the others do: processes come and go, but the child that was launched stays.
LEMMA OthersKeepCaptureInv ==
    ASSUME Capture!CaptureInv, Capture!Others, ~Capture!Abandon, Capture!History
    PROVE  Capture!CaptureInv'
<1> USE DEF Capture!CaptureInv, Capture!Event, Capture!Running
<1>1. setup' = setup /\ call' = call /\ (asked' = asked \/ procs' = procs)
  BY DEF Capture!Others, Capture!Spawn, Capture!Allocate, Capture!Exit, Capture!AskToStop,
         Capture!Interrupt
<1>2. /\ DOMAIN asked' = {"stop", "signal", "unhandled"} /\ (asked.stop => asked'.stop)
      /\ asked'.unhandled = asked.unhandled
  BY DEF Capture!Others, Capture!Spawn, Capture!Allocate, Capture!Exit, Capture!AskToStop,
         Capture!Interrupt
<1>3. /\ Capture!ProcessesAreKnown'
      /\ call.child = "running" => (Service \in DOMAIN procs' <=> Service \in DOMAIN procs)
      /\ Service \in DOMAIN procs' => Service \in DOMAIN procs
      /\ call.child = "running" /\ Capture!Exited(Service) => Capture!Exited(Service)'
  <2> USE CapturePossible DEF Capture!CaptureIsPossible, Capture!ProcessesAreKnown, Capture!Exited
  <2>1. CASE procs' = procs
    BY <2>1
  <2>2. ASSUME NEW p \in Capture!Pids, NEW device \in 0 .. 1, Capture!Spawn(p, device)
        PROVE  <1>3
    BY <2>2 DEF Capture!Spawn, Capture!With, Capture!Process, Capture!Pids
  <2>3. ASSUME NEW p \in Capture!Pids, NEW host \in 1 .. MaxMemory, NEW device \in 0 .. 1,
               Capture!Allocate(p, host, device)
        PROVE  <1>3
    BY <2>3 DEF Capture!Allocate
  <2>4. ASSUME NEW p \in Capture!Pids, NEW code \in {"ok", "error"}, Capture!Exit(p, code)
        PROVE  <1>3
    <3> DEFINE Orphan(q) == [procs[q] EXCEPT !.parent = 0]
               rest == [q \in DOMAIN procs |-> IF procs[q].parent = p THEN Orphan(q) ELSE procs[q]]
    <3>1. ASSUME NEW q \in DOMAIN procs
          PROVE  /\ DOMAIN rest[q] = {"parent", "state", "host", "device"}
                 /\ rest[q].state = procs[q].state
                 /\ rest[q].parent \in {0, Service} /\ (q = Foreign => rest[q].parent = 0)
      OBVIOUS
    <3>2. DOMAIN rest = DOMAIN procs
      OBVIOUS
    <3>3. /\ p \in DOMAIN procs /\ procs[p].state = "running"
          /\ procs' = IF p = Service /\ call.child = "running"
                      THEN [rest EXCEPT ![p].state = code, ![p].host = 0, ![p].device = 0]
                      ELSE Capture!Without(rest, p)
      BY <2>4 DEF Capture!Exit
    <3> HIDE DEF rest
    <3>4. CASE p = Service /\ call.child = "running"
      <4>1. procs' = [rest EXCEPT ![Service].state = code, ![Service].host = 0, ![Service].device = 0]
        BY <3>3, <3>4
      <4>2. DOMAIN procs' = DOMAIN procs /\ Service \in DOMAIN procs
        BY <3>2, <3>3, <3>4, <4>1
      <4>3. \A q \in DOMAIN procs \ {Service} : procs'[q] = rest[q]
        BY <3>2, <4>1
      <4>4. /\ DOMAIN procs'[Service] = {"parent", "state", "host", "device"}
            /\ procs'[Service].state = code /\ procs'[Service].parent = rest[Service].parent
        BY <3>1, <3>2, <4>1, <4>2
      <4>5. \A q \in DOMAIN procs' :
               /\ DOMAIN procs'[q] = {"parent", "state", "host", "device"}
               /\ procs'[q].state \in {"running", "ok", "error"}
               /\ procs'[q].parent \in {0, Service} /\ (q = Foreign => procs'[q].parent = 0)
               /\ q # Service => procs'[q].state = "running"
        BY <3>1, <4>2, <4>3, <4>4
      <4> QED BY <3>3, <3>4, <4>2, <4>5
    <3>5. CASE ~(p = Service /\ call.child = "running")
      <4>1. procs' = [q \in DOMAIN procs \ {p} |-> rest[q]]
        BY <3>2, <3>3, <3>5 DEF Capture!Without
      <4>2. call.child = "running" => p # Service
        BY <3>5
      <4> QED BY <3>1, <4>1, <4>2
    <3> QED BY <3>4, <3>5
  <2> QED BY <2>1, <2>2, <2>3, <2>4 DEF Capture!Others, Capture!AskToStop, Capture!Interrupt
<1>4. Capture!ChildIsWatched'
  BY <1>1, <1>3 DEF Capture!ChildIsWatched
<1>5. Capture!EndIsExplained'
  BY <1>1, <1>2, <1>3 DEF Capture!EndIsExplained, Capture!Strict, Capture!Status, Capture!Exited
<1>6. Capture!SampledAlone'
  BY <1>1 DEF Capture!SampledAlone, Capture!History, Capture!Strict, Capture!Split
<1> QED BY <1>1, <1>2, <1>3, <1>4, <1>5, <1>6

Same(fields) == \A f \in Capture!CallFields \ fields : call'[f] = call[f]

LEMMA CallMovesOn ==
    ASSUME DOMAIN call = Capture!CallFields
    PROVE  /\ Capture!Fail =>
                 /\ call'.pc = IF Capture!Strict /\ call.launched THEN "finally" ELSE "over"
                 /\ call'.failed = TRUE /\ Same({"pc", "failed"})
                 /\ DOMAIN call' = Capture!CallFields
           /\ \A pc : Capture!Go(pc) =>
                 call'.pc = pc /\ Same({"pc"}) /\ DOMAIN call' = Capture!CallFields
           /\ \A reason : Capture!After(reason) =>
                 /\ call'.pc = IF Capture!Strict /\ call.launched THEN "finally"
                               ELSE IF call.launched THEN "wait" ELSE "over"
                 /\ call'.reason = reason /\ Same({"pc", "reason"})
                 /\ DOMAIN call' = Capture!CallFields
<1>1. "pc" \in DOMAIN call /\ "failed" \in DOMAIN call /\ "reason" \in DOMAIN call
  BY DEF Capture!CallFields
<1> QED BY <1>1 DEF Capture!Fail, Capture!Go, Capture!After, Same

\* What a step of the capture makes of its locals.
LEMMA CaptureSteps ==
    ASSUME Capture!CaptureInv
    PROVE  /\ Capture!ReadTable =>
                 /\ call.pc = "table"
                 /\ \/ Same({"pc"}) /\ call'.pc = "poll"
                    \/ /\ Same({"pc", "seen", "selected", "left", "host", "measured"})
                       /\ call'.pc = "measure" /\ call'.seen
                       /\ call'.selected = Capture!Selected(procs)
                    \/ /\ Same({"pc", "reason"}) /\ (Capture!Selected(procs) = {} /\ Capture!Strict)
                       /\ call'.pc = IF Capture!Strict /\ call.launched THEN "finally" ELSE "over"
                       /\ call'.reason = IF Capture!PolledCode \notin {None, "running"}
                                         THEN "launched command exited"
                                         ELSE "selected process exited"
           /\ Capture!Sample =>
                 /\ call.pc = "measure"
                 /\ \/ Capture!Fail
                    \/ /\ ~Capture!Shared(call.selected)
                       /\ Same({"pc", "samples"}) /\ call'.pc = "poll"
           /\ \A p \in Capture!Pids : Capture!Measure(p) =>
                 call.pc = "measure" /\ Same({"left", "host", "measured"})
           /\ \A broken \in BOOLEAN : Capture!Return(broken) =>
                 /\ call.pc = "over" /\ call'.pc = "done" /\ Same({"pc", "failed", "status"})
                 /\ call'.failed = (call.failed \/ broken \/ Capture!Complete(call.samples) = {})
                 /\ call'.status = IF call.failed THEN None ELSE Capture!Status
<1> USE DEF Same
<1>0. DOMAIN call = Capture!CallFields
  BY DEF Capture!CaptureInv
<1>1. ASSUME NEW p \in Capture!Pids, Capture!Measure(p)
      PROVE  call.pc = "measure" /\ Same({"left", "host", "measured"})
  BY <1>0, <1>1 DEF Capture!Measure
<1>2. ASSUME NEW broken \in BOOLEAN, Capture!Return(broken)
      PROVE  /\ call.pc = "over" /\ call'.pc = "done" /\ Same({"pc", "failed", "status"})
             /\ call'.failed = (call.failed \/ broken \/ Capture!Complete(call.samples) = {})
             /\ call'.status = IF call.failed THEN None ELSE Capture!Status
  BY <1>0, <1>2 DEF Capture!Return, Capture!CallFields
<1>3. ASSUME Capture!Sample
      PROVE  /\ call.pc = "measure"
             /\ \/ Capture!Fail
                \/ /\ ~Capture!Shared(call.selected)
                   /\ Same({"pc", "samples"}) /\ call'.pc = "poll"
  BY <1>0, <1>3 DEF Capture!Sample, Capture!CallFields
<1>4. ASSUME Capture!ReadTable
      PROVE  /\ call.pc = "table"
             /\ \/ Same({"pc"}) /\ call'.pc = "poll"
                \/ /\ Same({"pc", "seen", "selected", "left", "host", "measured"})
                   /\ call'.pc = "measure" /\ call'.seen
                   /\ call'.selected = Capture!Selected(procs)
                \/ /\ Same({"pc", "reason"}) /\ (Capture!Selected(procs) = {} /\ Capture!Strict)
                   /\ call'.pc = IF Capture!Strict /\ call.launched THEN "finally" ELSE "over"
                   /\ call'.reason = IF Capture!PolledCode \notin {None, "running"}
                                     THEN "launched command exited"
                                     ELSE "selected process exited"
  <2> DEFINE selected == Capture!Selected(procs)
  <2>0. call.pc = "table" /\ \A f \in {"pc", "seen", "selected", "reason"} : f \in DOMAIN call
    BY <1>0, <1>4 DEF Capture!ReadTable, Capture!CallFields
  <2>1. CASE (call.seen \/ selected # {}) /\ (selected # {} \/ ~Capture!Strict)
    <3> HIDE DEF selected
    <3>1. call' = [call EXCEPT !.pc = "measure", !.seen = TRUE, !.selected = selected,
                                !.left = selected, !.host = 0, !.measured = {}]
      BY <1>4, <2>1 DEF Capture!ReadTable, selected
    <3>2. call'.seen /\ call'.pc = "measure" /\ call'.selected = selected
      BY <2>0, <3>1
    <3> QED BY <1>0, <2>0, <3>1, <3>2 DEF selected
  <2>2. CASE call.seen /\ ~(selected # {} \/ ~Capture!Strict)
    BY <1>0, <1>4, <2>0, <2>2 DEF Capture!ReadTable
  <2>3. CASE ~(call.seen \/ selected # {})
    BY <1>0, <1>4, <2>0, <2>3, CallMovesOn DEF Capture!ReadTable
  <2> QED BY <2>1, <2>2, <2>3
<1> QED BY <1>1, <1>2, <1>3, <1>4

\* Without a process to see the child that was launched is gone; nobody matches what is
\* foreign, whose parent is not the service.
LEMMA SelectedProcesses ==
    ASSUME Capture!CaptureInv
    PROVE  /\ call.launched /\ Capture!Selected(procs) = {} => Service \notin DOMAIN procs
           /\ Foreign \notin Capture!Selected(procs)
<1> USE CapturePossible DEF Capture!CaptureIsPossible, Capture!CaptureInv, Capture!Selected
<1>1. call.launched /\ Capture!Selected(procs) = {} => Service \notin DOMAIN procs
  BY DEF Capture!ChildIsWatched
<1>2. Foreign \notin Capture!Selected(procs)
  BY DEF Capture!ProcessesAreKnown, Capture!Pids
<1> QED BY <1>1, <1>2

\* A capture that fails, and one that leaves the world as it is.
LEMMA FailKeepsInv ==
    ASSUME Capture!CaptureInv, setup' = setup, asked' = asked, procs' = procs, Capture!History,
           Capture!Fail, call.pc \in {"start", "table", "measure", "check"}
    PROVE  Capture!CaptureInv'
<1>1. /\ call'.pc = IF Capture!Strict /\ call.launched THEN "finally" ELSE "over"
      /\ call'.failed = TRUE /\ Same({"pc", "failed"}) /\ DOMAIN call' = Capture!CallFields
  BY CallMovesOn DEF Capture!CaptureInv
<1>2. \A f \in {"child", "launched", "root", "seen", "selected", "samples", "finished", "reason",
               "status"} : call'[f] = call[f]
  BY <1>1 DEF Same, Capture!CallFields
<1> USE <1>1, <1>2, CapturePossible DEF Capture!CaptureInv, Capture!CaptureIsPossible
<1>3. Capture!ProcessesAreKnown'
  BY DEF Capture!ProcessesAreKnown
<1>4. Capture!ChildIsWatched'
  BY DEF Capture!ChildIsWatched
<1>5. Capture!EndIsExplained'
  BY DEF Capture!EndIsExplained, Capture!ChildIsWatched, Capture!Strict, Capture!Reasons
<1>6. Capture!SampledAlone'
  BY DEF Capture!SampledAlone, Capture!History, Capture!Strict, Capture!Split
<1> QED BY <1>3, <1>4, <1>5, <1>6

\* The steps of the capture that leave the world as it is.
LEMMA CaptureStepsKeepInv ==
    ASSUME Capture!CaptureInv, asked' = asked, procs' = procs, setup' = setup, Capture!History,
           \/ Capture!ReadTable \/ Capture!Sample \/ Capture!QueryFails \/ Capture!Install
           \/ \E broken \in BOOLEAN : Capture!Return(broken)
           \/ \E p \in Capture!Pids : Capture!Measure(p)
           \/ \E late \in BOOLEAN : Capture!Check(late)
    PROVE  Capture!CaptureInv'
<1> USE CapturePossible DEF Capture!CaptureIsPossible, Capture!CallFields
<1>0. DOMAIN call = Capture!CallFields
  BY DEF Capture!CaptureInv
<1>1. Capture!ProcessesAreKnown'
  BY DEF Capture!CaptureInv, Capture!ProcessesAreKnown
<1>2. ASSUME Same({"pc", "seen", "selected", "left", "host", "measured", "samples", "reason",
                   "failed", "status"}), call.pc # "done",
             DOMAIN call' = Capture!CallFields, Capture!EndIsExplained', Capture!SampledAlone'
      PROVE  Capture!CaptureInv'
  BY <1>1, <1>2 DEF Capture!CaptureInv, Capture!ChildIsWatched, Same
<1>3. DOMAIN call' = Capture!CallFields
  BY <1>0 DEF Capture!ReadTable, Capture!Sample, Capture!QueryFails, Capture!Return,
     Capture!Install, Capture!Measure, Capture!Check, Capture!Fail, Capture!Go, Capture!After
<1> USE DEF Capture!CaptureInv
<1>4. CASE Capture!ReadTable
  <2>0. call.pc = "table" /\ (call.launched => call.root)
    BY <1>4, CaptureSteps DEF Capture!ChildIsWatched
  <2>1. CASE Same({"pc"}) /\ call'.pc = "poll"
    <3>1. Capture!EndIsExplained'
      BY <2>0, <2>1 DEF Same, Capture!EndIsExplained, Capture!Strict, Capture!Exited
    <3>2. Capture!SampledAlone'
      BY <2>0, <2>1 DEF Same, Capture!SampledAlone, Capture!Strict, Capture!Split, Capture!History
    <3> QED BY <1>2, <1>3, <2>0, <2>1, <3>1, <3>2 DEF Same
  <2>2. CASE /\ Same({"pc", "seen", "selected", "left", "host", "measured"})
             /\ call'.pc = "measure" /\ call'.seen /\ call'.selected = Capture!Selected(procs)
    <3>1. Capture!EndIsExplained'
      BY <2>0, <2>2 DEF Same, Capture!EndIsExplained, Capture!Strict, Capture!Exited
    <3>2. Capture!SampledAlone'
      BY <2>0, <2>2, SelectedProcesses DEF Same, Capture!SampledAlone, Capture!Strict,
         Capture!Split, Capture!History
    <3> QED BY <1>2, <1>3, <2>0, <2>2, <3>1, <3>2 DEF Same
  <2>3. CASE /\ Same({"pc", "reason"}) /\ (Capture!Selected(procs) = {} /\ Capture!Strict)
             /\ call'.pc = IF Capture!Strict /\ call.launched THEN "finally" ELSE "over"
             /\ call'.reason = IF Capture!PolledCode \notin {None, "running"}
                               THEN "launched command exited" ELSE "selected process exited"
    <3>1. call.launched => call.child \notin {None, "running"}
      BY <2>3, SelectedProcesses DEF Capture!ChildIsWatched
    <3>2. call.launched \/ call.child = None
      BY DEF Capture!ChildIsWatched
    <3>3. Capture!PolledCode = call.child
      BY <3>1, <3>2 DEF Capture!PolledCode
    <3>4. Capture!EndIsExplained'
      BY <2>0, <2>3, <3>1, <3>2, <3>3
         DEF Same, Capture!EndIsExplained, Capture!Strict, Capture!Exited, Capture!Reasons
    <3>5. Capture!SampledAlone'
      BY <2>0, <2>3 DEF Same, Capture!SampledAlone, Capture!Strict, Capture!Split, Capture!History
    <3> QED BY <1>2, <1>3, <2>0, <2>3, <3>4, <3>5 DEF Same
  <2> QED BY <1>4, <2>1, <2>2, <2>3, CaptureSteps
<1>5. CASE Capture!Sample
  <2>1. CASE Capture!Fail
    BY <1>5, <2>1, FailKeepsInv, CaptureSteps
  <2>2. CASE ~Capture!Shared(call.selected) /\ Same({"pc", "samples"}) /\ call'.pc = "poll"
    <3>0. call.pc = "measure"
      BY <1>5, CaptureSteps
    <3>1. Capture!EndIsExplained'
      BY <2>2, <3>0 DEF Same, Capture!EndIsExplained, Capture!Strict, Capture!Exited
    <3>2. ASSUME Capture!Strict, Capture!Split PROVE alone'
      <4>1. Foreign \notin Capture!OnDevice
        BY <2>2, <3>2 DEF Capture!Shared, Capture!SampledAlone
      <4>2. Foreign \in DOMAIN procs' => ~(procs'[Foreign].device > 0 /\ procs[Foreign].state = "running")
        BY <4>1 DEF Capture!OnDevice, Capture!Running
      <4>3. Foreign \in DOMAIN procs' => ~(procs'[Foreign].device > 0)
        BY <4>2 DEF Capture!ProcessesAreKnown
      <4> QED BY <4>3 DEF Capture!History
    <3>3. Capture!SampledAlone'
      BY <2>2, <3>0, <3>2 DEF Same, Capture!SampledAlone, Capture!Strict, Capture!Split
    <3> QED BY <1>2, <1>3, <2>2, <3>0, <3>1, <3>3 DEF Same
  <2> QED BY <1>5, <2>1, <2>2, CaptureSteps
<1>6. CASE Capture!QueryFails
  BY <1>6, FailKeepsInv DEF Capture!QueryFails
<1>7. ASSUME NEW broken \in BOOLEAN, Capture!Return(broken) PROVE Capture!CaptureInv'
  <2>1. /\ call.pc = "over" /\ call'.pc = "done" /\ Same({"pc", "failed", "status"})
        /\ call'.failed = (call.failed \/ broken \/ Capture!Complete(call.samples) = {})
        /\ call'.status = IF call.failed THEN None ELSE Capture!Status
    BY <1>7, CaptureSteps
  <2>2. Capture!EndIsExplained'
    BY <2>1 DEF Same, Capture!EndIsExplained, Capture!Strict, Capture!Exited, Capture!Status
  <2>3. call.samples = << >> => Capture!Complete(call.samples) = {}
    BY DEF Capture!Complete
  <2>4. Capture!SampledAlone'
    BY <2>1, <2>3 DEF Same, Capture!SampledAlone, Capture!Strict, Capture!Split, Capture!History
  <2> QED BY <1>2, <1>3, <2>1, <2>2, <2>4 DEF Same
<1>8. ASSUME NEW p \in Capture!Pids, Capture!Measure(p) PROVE Capture!CaptureInv'
  <2>1. call.pc = "measure" /\ Same({"left", "host", "measured"})
    BY <1>8, CaptureSteps
  <2>2. Capture!EndIsExplained'
    BY <2>1 DEF Same, Capture!EndIsExplained, Capture!Strict, Capture!Exited
  <2>3. Capture!SampledAlone'
    BY <2>1 DEF Same, Capture!SampledAlone, Capture!Strict, Capture!Split, Capture!History
  <2> QED BY <1>2, <1>3, <2>1, <2>2, <2>3 DEF Same
<1>9. ASSUME NEW late \in BOOLEAN, Capture!Check(late) PROVE Capture!CaptureInv'
  <2>0. call.pc = "check"
    BY <1>9 DEF Capture!Check
  <2>1. CASE Capture!Fail
    BY <2>0, <2>1, FailKeepsInv
  <2>2. CASE Capture!Go("table")
    <3>1. call'.pc = "table" /\ Same({"pc"})
      BY <1>0, <2>2, CallMovesOn
    <3>2. Capture!EndIsExplained'
      BY <2>0, <3>1 DEF Same, Capture!EndIsExplained, Capture!Strict, Capture!Exited
    <3>3. Capture!SampledAlone'
      BY <2>0, <3>1 DEF Same, Capture!SampledAlone, Capture!Strict, Capture!Split, Capture!History
    <3> QED BY <1>2, <1>3, <2>0, <3>1, <3>2, <3>3 DEF Same
  <2>3. ASSUME NEW reason \in Capture!Reasons \cup {"stopped"}, Capture!After(reason),
               ~Capture!Strict \/ (reason = "launched command exited" /\ call.finished)
                  \/ (reason = "external stop file" /\ asked.stop),
               ~Capture!Strict => reason = "stopped"
        PROVE  Capture!CaptureInv'
    <3>1. /\ call'.pc = IF Capture!Strict /\ call.launched THEN "finally"
                        ELSE IF call.launched THEN "wait" ELSE "over"
          /\ call'.reason = reason /\ Same({"pc", "reason"})
      BY <1>0, <2>3, CallMovesOn
    <3>2. Capture!EndIsExplained'
      BY <2>0, <2>3, <3>1 DEF Same, Capture!EndIsExplained, Capture!Strict, Capture!Exited,
         Capture!ChildIsWatched, Capture!Reasons
    <3>3. Capture!SampledAlone'
      BY <2>0, <3>1 DEF Same, Capture!SampledAlone, Capture!Strict, Capture!Split, Capture!History
    <3> QED BY <1>2, <1>3, <2>0, <3>1, <3>2, <3>3 DEF Same
  <2> QED BY <1>9, <2>1, <2>2, <2>3 DEF Capture!Check, Capture!Reasons
<1>10. CASE Capture!Install
  <2>1. call.pc = "launched" /\ call'.pc = "table" /\ Same({"pc"})
    BY <1>0, <1>10, CallMovesOn DEF Capture!Install
  <2>2. Capture!EndIsExplained'
    BY <2>1 DEF Same, Capture!EndIsExplained, Capture!Strict, Capture!Exited
  <2>3. Capture!SampledAlone'
    BY <2>1 DEF Same, Capture!SampledAlone, Capture!Strict, Capture!Split, Capture!History
  <2> QED BY <1>2, <1>3, <2>1, <2>2, <2>3 DEF Same
<1> QED BY <1>4, <1>5, <1>6, <1>7, <1>8, <1>9, <1>10

\* The steps that start, reap and end the child.
LEMMA ChildStepsKeepInv ==
    ASSUME Capture!CaptureInv, asked' = asked, setup' = setup, Capture!History,
           \/ Capture!Start \/ Capture!Poll \/ Capture!Wait
           \/ \E stays \in BOOLEAN : Capture!Terminate(stays)
    PROVE  Capture!CaptureInv'
<1> USE CapturePossible DEF Capture!CaptureIsPossible, Capture!CaptureInv
<1>0. DOMAIN call = Capture!CallFields
  OBVIOUS
<1>1. CASE Capture!Start
  <2>0. call.pc = "start" /\ ~call.launched /\ call.child = None /\ call.reason = None
    BY <1>1 DEF Capture!Start, Capture!EndIsExplained, Capture!ChildIsWatched
  <2>1. CASE Capture!Fail /\ procs' = procs
    BY <2>0, <2>1, FailKeepsInv
  <2>2. CASE /\ procs' = Capture!With(procs, Service, Capture!Process(0, 1, 0))
             /\ call' = [call EXCEPT !.pc = "launched", !.root = TRUE, !.launched = TRUE,
                                     !.child = "running"]
    <3>1. /\ call'.pc = "launched" /\ call'.root = TRUE /\ call'.launched = TRUE
          /\ call'.child = "running" /\ Same({"pc", "root", "launched", "child"})
          /\ DOMAIN call' = Capture!CallFields
      BY <1>0, <2>2 DEF Same, Capture!CallFields
    <3>2. Capture!ProcessesAreKnown' /\ Service \in DOMAIN procs'
      BY <2>2 DEF Capture!ProcessesAreKnown, Capture!With, Capture!Process, Capture!Pids
    <3>3. Capture!ChildIsWatched'
      BY <3>1, <3>2 DEF Capture!ChildIsWatched
    <3>4. Capture!EndIsExplained'
      BY <2>0, <3>1 DEF Same, Capture!CallFields, Capture!EndIsExplained,
         Capture!Reasons
    <3>5. Capture!SampledAlone'
      <4>1. \A f \in {"selected", "seen", "samples", "failed"} : call'[f] = call[f]
        BY <3>1 DEF Same, Capture!CallFields
      <4> QED BY <2>0, <3>1, <4>1 DEF Capture!SampledAlone, Capture!Strict, Capture!Split,
              Capture!History
    <3> QED BY <3>1, <3>2, <3>3, <3>4, <3>5
  <2>3. CASE Capture!Go("table") /\ procs' = procs
    <3>1. call'.pc = "table" /\ Same({"pc"}) /\ DOMAIN call' = Capture!CallFields
      BY <1>0, <2>3, CallMovesOn
    <3>2. Capture!ProcessesAreKnown'
      BY <2>3 DEF Capture!ProcessesAreKnown
    <3>3. Capture!ChildIsWatched'
      <4>1. \A f \in {"child", "launched", "root", "failed"} : call'[f] = call[f]
        BY <3>1 DEF Same, Capture!CallFields
      <4> QED BY <2>0, <2>3, <3>1, <4>1 DEF Capture!ChildIsWatched
    <3>4. Capture!EndIsExplained'
      BY <2>0, <3>1 DEF Same, Capture!CallFields, Capture!EndIsExplained,
         Capture!Reasons
    <3>5. Capture!SampledAlone'
      BY <2>0, <3>1 DEF Same, Capture!CallFields, Capture!SampledAlone, Capture!Strict,
         Capture!Split, Capture!History
    <3> QED BY <3>1, <3>2, <3>3, <3>4, <3>5
  <2> QED BY <1>1, <2>1, <2>2, <2>3 DEF Capture!Start
<1>2. /\ Capture!PolledCode \in {None, "running", "ok", "error", "killed", "left"}
      /\ Capture!PolledCode = None <=> ~call.launched
      /\ Capture!PolledCode = "left" <=> call.child = "left"
      /\ Capture!PolledCode = "killed" <=> call.child = "killed"
      /\ Capture!PolledCode # "running" => call.child # "running" \/ Capture!Exited(Service)
      /\ Capture!PolledCode = "running" => Capture!Alive
  BY DEF Capture!PolledCode, Capture!ChildIsWatched, Capture!ProcessesAreKnown,
     Capture!Exited, Capture!Alive, Capture!Running
<1>3. ASSUME procs' = Capture!Reaped, call'.child = Capture!PolledCode,
             DOMAIN call' = Capture!CallFields, Same({"pc", "child", "finished"}),
             call.pc # "done"
      PROVE  Capture!ProcessesAreKnown' /\ Capture!ChildIsWatched'
  <2>1. CASE call.child = "running" /\ Capture!Exited(Service)
    <3>1. /\ DOMAIN procs' = DOMAIN procs \ {Service}
          /\ \A q \in DOMAIN procs' : procs'[q] = procs[q]
          /\ Capture!PolledCode \in {"ok", "error"}
      BY <1>3, <2>1 DEF Capture!Reaped, Capture!Without, Capture!PolledCode, Capture!Exited,
         Capture!ProcessesAreKnown
    <3> QED BY <1>3, <2>1, <3>1 DEF Capture!ProcessesAreKnown, Capture!ChildIsWatched, Same,
            Capture!CallFields
  <2>2. CASE ~(call.child = "running" /\ Capture!Exited(Service))
    <3>1. procs' = procs /\ Capture!PolledCode = call.child
      BY <1>3, <2>2 DEF Capture!Reaped, Capture!PolledCode
    <3> QED BY <1>3, <3>1 DEF Capture!ProcessesAreKnown, Capture!ChildIsWatched, Same,
            Capture!CallFields
  <2> QED BY <2>1, <2>2
<1>4. CASE Capture!Poll
  <2>1. /\ call.pc = "poll" /\ call'.pc = "check"
        /\ call'.child = Capture!PolledCode
        /\ call'.finished = (Capture!PolledCode \notin {None, "running"})
        /\ Same({"pc", "child", "finished"}) /\ DOMAIN call' = Capture!CallFields
    BY <1>0, <1>4 DEF Capture!Poll, Same, Capture!CallFields
  <2>2. \A f \in {"launched", "reason", "failed", "status"} : call'[f] = call[f]
    BY <2>1 DEF Same, Capture!CallFields
  <2>3. Capture!EndIsExplained'
    <3>1. Capture!PolledCode \in {None, "running", "ok", "error"}
      BY <1>2, <2>1 DEF Capture!ChildIsWatched, Capture!EndIsExplained
    <3> QED BY <2>1, <2>2, <3>1 DEF Capture!EndIsExplained, Capture!Strict, Capture!Reasons
  <2>4. Capture!SampledAlone'
    BY <2>1 DEF Same, Capture!CallFields, Capture!SampledAlone, Capture!Strict,
       Capture!Split, Capture!History
  <2>5. procs' = Capture!Reaped
    BY <1>4 DEF Capture!Poll
  <2> QED BY <1>3, <2>1, <2>3, <2>4, <2>5
<1>5. CASE Capture!Wait
  <2>1. /\ call.pc = "wait" /\ call'.pc = "over" /\ call'.child = Capture!PolledCode
        /\ Same({"pc", "child"}) /\ DOMAIN call' = Capture!CallFields
        /\ procs' = Capture!Reaped /\ (call.child # "running" \/ ~Capture!Alive)
    BY <1>0, <1>5 DEF Capture!Wait, Same, Capture!CallFields
  <2>2. Capture!EndIsExplained'
    BY <1>2, <2>1 DEF Same, Capture!Alive, Capture!CallFields, Capture!EndIsExplained, Capture!Strict,
         Capture!Reasons
  <2>3. Capture!SampledAlone'
    BY <2>1 DEF Same, Capture!CallFields, Capture!SampledAlone, Capture!Strict,
       Capture!Split, Capture!History
  <2>4. Same({"pc", "child", "finished"}) /\ call.pc # "done"
    BY <2>1 DEF Same
  <2> QED BY <1>3, <2>1, <2>2, <2>3, <2>4
<1>6. ASSUME NEW stays \in BOOLEAN, Capture!Terminate(stays) PROVE Capture!CaptureInv'
  <2>0. call.pc = "finally" /\ Capture!Strict /\ call.launched
    BY <1>6 DEF Capture!Terminate, Capture!EndIsExplained
  <2>1. CASE Capture!Alive
    <3> DEFINE rest == {p \in DOMAIN procs \ {Service} : stays \/ procs[p].parent # Service}
    <3>0. /\ procs' = [p \in rest |-> [procs[p] EXCEPT !.parent = 0]]
          /\ call' = [call EXCEPT !.pc = "over", !.child = "killed"]
      BY <1>6, <2>1 DEF Capture!Terminate
    <3>1. /\ call'.pc = "over" /\ call'.child = "killed" /\ Same({"pc", "child"})
          /\ DOMAIN call' = Capture!CallFields
          /\ DOMAIN procs' \subseteq DOMAIN procs \ {Service}
          /\ \A q \in DOMAIN procs' : procs'[q] = [procs[q] EXCEPT !.parent = 0]
      BY <1>0, <3>0 DEF Same, Capture!CallFields
    <3>2. Capture!ProcessesAreKnown'
      BY <3>1 DEF Capture!ProcessesAreKnown
    <3>3. Capture!ChildIsWatched'
      BY <2>0, <3>1 DEF Capture!ChildIsWatched, Same, Capture!CallFields
    <3>4. call.reason # "launched command exited"
      BY <2>1 DEF Capture!Alive, Capture!EndIsExplained, Capture!Running, Capture!Exited
    <3>5. Capture!EndIsExplained'
      BY <2>0, <3>1, <3>4 DEF Same, Capture!CallFields, Capture!EndIsExplained, Capture!Strict,
         Capture!Reasons
    <3>6. Capture!SampledAlone'
      BY <2>0, <3>1 DEF Same, Capture!CallFields, Capture!SampledAlone, Capture!Strict,
         Capture!Split, Capture!History
    <3> QED BY <3>1, <3>2, <3>3, <3>5, <3>6
  <2>2. CASE ~Capture!Alive
    <3>1. /\ call'.pc = "over" /\ call'.child = Capture!PolledCode /\ Same({"pc", "child"})
          /\ DOMAIN call' = Capture!CallFields /\ procs' = Capture!Reaped
      BY <1>0, <1>6, <2>2 DEF Capture!Terminate, Same, Capture!CallFields
    <3>2. Capture!EndIsExplained'
      BY <1>2, <2>0, <2>2, <3>1 DEF Same, Capture!CallFields, Capture!EndIsExplained, Capture!Strict,
         Capture!Reasons
    <3>3. Capture!SampledAlone'
      BY <2>0, <3>1 DEF Same, Capture!CallFields, Capture!SampledAlone, Capture!Strict,
         Capture!Split, Capture!History
    <3>4. Same({"pc", "child", "finished"}) /\ call.pc # "done"
      BY <2>0, <3>1 DEF Same
    <3> QED BY <1>3, <3>1, <3>2, <3>3, <3>4
  <2> QED BY <2>1, <2>2
<1> QED BY <1>1, <1>4, <1>5, <1>6

\* A signal that no handler takes.
LEMMA AbandonKeepsCaptureInv ==
    ASSUME Capture!CaptureInv, Capture!Abandon, Capture!History
    PROVE  Capture!CaptureInv'
<1> USE CapturePossible DEF Capture!CaptureIsPossible, Capture!CaptureInv
<1>1. /\ call'.pc = "done" /\ call'.failed = TRUE
      /\ call'.child = IF call.child = "running" THEN "left" ELSE call.child
      /\ Same({"pc", "failed", "child"}) /\ DOMAIN call' = Capture!CallFields
  BY DEF Capture!Abandon, Same, Capture!CallFields
<1>2. /\ call.pc \in {"start", "launched", "finally", "wait", "over"} /\ setup' = setup
      /\ procs' = Capture!Reaped
  BY DEF Capture!Abandon, Capture!Unhandled
<1>3. /\ DOMAIN asked' = {"stop", "signal", "unhandled"} /\ asked'.stop = asked.stop
      /\ asked'.unhandled = (asked.unhandled \/ call.pc \in {"launched", "finally"})
  BY DEF Capture!Abandon
<1>4. /\ DOMAIN procs' \subseteq DOMAIN procs
      /\ \A p \in DOMAIN procs' : procs'[p] = procs[p]
  BY <1>2 DEF Capture!Reaped, Capture!Without
<1>5. Capture!ProcessesAreKnown'
  BY <1>4 DEF Capture!ProcessesAreKnown
<1>6. Capture!ChildIsWatched'
  BY <1>1, <1>2, <1>4 DEF Same, Capture!CallFields, Capture!ChildIsWatched
<1>7. Capture!EndIsExplained'
  <2>1. Capture!Strict /\ call.child = "running" => call.pc \in {"launched", "finally"}
    BY <1>2 DEF Capture!EndIsExplained, Capture!Strict, Capture!ChildIsWatched
  <2> QED BY <1>1, <1>2, <1>3, <2>1 DEF Same, Capture!CallFields, Capture!EndIsExplained,
          Capture!Strict, Capture!ChildIsWatched, Capture!Reasons
<1>8. Capture!SampledAlone'
  BY <1>1, <1>2 DEF Same, Capture!CallFields, Capture!SampledAlone, Capture!Strict,
     Capture!Split, Capture!History
<1> QED BY <1>1, <1>2, <1>3, <1>5, <1>6, <1>7, <1>8

LEMMA StepKeepsCaptureInv == Capture!CaptureInv /\ [Capture!Next]_captureVars => Capture!CaptureInv'
<1> SUFFICES ASSUME Capture!CaptureInv, [Capture!Next]_captureVars PROVE Capture!CaptureInv'
  OBVIOUS
<1>1. CASE Capture!Others /\ Capture!History
  BY <1>1, OthersKeepCaptureInv, AbandonKeepsCaptureInv
<1>2. CASE Capture!Step /\ Capture!History
  <2>1. CASE \/ Capture!Start \/ Capture!Poll \/ Capture!Wait
             \/ \E stays \in BOOLEAN : Capture!Terminate(stays)
    BY <1>2, <2>1, ChildStepsKeepInv
       DEF Capture!Start, Capture!Poll, Capture!Wait, Capture!Terminate
  <2>2. CASE \/ Capture!ReadTable \/ Capture!Sample \/ Capture!QueryFails \/ Capture!Install
             \/ \E broken \in BOOLEAN : Capture!Return(broken)
             \/ \E p \in Capture!Pids : Capture!Measure(p)
             \/ \E late \in BOOLEAN : Capture!Check(late)
    <3>1. asked' = asked /\ procs' = procs /\ setup' = setup
      BY <2>2 DEF Capture!ReadTable, Capture!Sample, Capture!QueryFails, Capture!Return,
         Capture!Install, Capture!Measure, Capture!Check, Capture!World
    <3> QED BY <1>2, <2>2, <3>1, CaptureStepsKeepInv
  <2> QED BY <1>2, <2>1, <2>2 DEF Capture!Step
<1>3. CASE UNCHANGED captureVars
  <2> USE <1>3 DEF captureVars, Capture!CaptureInv
  <2>1. Capture!ProcessesAreKnown' /\ Capture!ChildIsWatched'
    BY DEF Capture!ProcessesAreKnown, Capture!ChildIsWatched
  <2>2. Capture!EndIsExplained'
    BY DEF Capture!EndIsExplained, Capture!Strict, Capture!Status, Capture!Exited
  <2>3. Capture!SampledAlone'
    BY DEF Capture!SampledAlone, Capture!Strict, Capture!Split
  <2> QED BY <2>1, <2>2, <2>3
<1> QED BY <1>1, <1>2, <1>3 DEF Capture!Next

(***************************************************************************)
(* Strictly captured, the child that was launched is gone at the end, and  *)
(* its code is the status unless a controller asked to stop; and no other  *)
(* process was on the device all the time.                                 *)
(***************************************************************************)
LEMMA CaptureInvEndsCommand == Capture!CaptureInv => Capture!CommandDoesNotOutlive
BY CapturePossible DEF Capture!CaptureIsPossible, Capture!CaptureInv, Capture!CommandDoesNotOutlive,
   Capture!Returned, Capture!EndIsExplained, Capture!ChildIsWatched, Capture!Strict, Capture!Status,
   Capture!Running, Capture!Reasons

LEMMA CaptureInvIsAlone == Capture!CaptureInv => Capture!DeviceWasNotShared
BY DEF Capture!CaptureInv, Capture!DeviceWasNotShared, Capture!Returned, Capture!SampledAlone,
   Capture!Strict, Capture!Split

----------------------------------------------------------------------------
\* Benchmarks.

LEMMA BenchSets == ASSUME NEW S PROVE Bench!Cardinality(S) = Cardinality(S)
BY DEF Bench!Cardinality, Cardinality

LEMMA SequenceFacts ==
    ASSUME NEW s
    PROVE  /\ Bench!IsSequence(s) =>
                 /\ Len(s) \in Nat /\ DOMAIN s = 1 .. Len(s) /\ s = [i \in DOMAIN s |-> s[i]]
                 /\ IsFiniteSet(DOMAIN s) /\ Cardinality(DOMAIN s) = Len(s)
           /\ \A n \in Nat : s = [i \in 1 .. n |-> s[i]] => Bench!IsSequence(s)
<1>1. ASSUME Bench!IsSequence(s)
      PROVE  /\ Len(s) \in Nat /\ DOMAIN s = 1 .. Len(s) /\ s = [i \in DOMAIN s |-> s[i]]
             /\ IsFiniteSet(DOMAIN s) /\ Cardinality(DOMAIN s) = Len(s)
  <2>1. Len(s) \in Nat /\ DOMAIN s = 1 .. Len(s) /\ s = [i \in DOMAIN s |-> s[i]]
    BY <1>1 DEF Bench!IsSequence
  <2> QED BY <2>1, FS_Interval
<1>2. ASSUME NEW n \in Nat, s = [i \in 1 .. n |-> s[i]] PROVE Bench!IsSequence(s)
  <2>1. DOMAIN s = 1 .. n
    BY <1>2
  <2>2. s \in [1 .. n -> {s[i] : i \in DOMAIN s}]
    BY <1>2, <2>1
  <2> QED BY <2>2 DEF Bench!IsSequence
<1> QED BY <1>1, <1>2

\* What is changed in place stays a sequence of as many, and so does what one is left out of.
LEMMA SequenceChanges ==
    ASSUME NEW s, Bench!IsSequence(s), NEW i \in DOMAIN s
    PROVE  /\ \A e : Bench!IsSequence([s EXCEPT ![i] = e])
           /\ Bench!IsSequence(Bench!RemoveAt(s, i))
           /\ \A j \in DOMAIN Bench!RemoveAt(s, i) : \E k \in DOMAIN s : Bench!RemoveAt(s, i)[j] = s[k]
<1> DEFINE S == {s[k] : k \in DOMAIN s}
           t == Bench!RemoveAt(s, i)
<1>0. Len(s) \in Nat /\ DOMAIN s = 1 .. Len(s)
  BY SequenceFacts
<1>1. ASSUME NEW e PROVE Bench!IsSequence([s EXCEPT ![i] = e])
  BY <1>0, SequenceFacts
<1>2. t \in Seq(S)
  <2>1. \A k \in 1 .. (i - 1) : s[k] \in S
    BY <1>0
  <2>2. \A k \in (i + 1) .. Len(s) : s[k] \in S
    BY <1>0
  <2>3. i \in Int /\ i - 1 \in Int /\ i + 1 \in Int /\ Len(s) \in Int /\ 1 \in Int
    BY <1>0
  <2> HIDE DEF S
  <2>4. SubSeq(s, 1, i - 1) \in Seq(S) /\ SubSeq(s, i + 1, Len(s)) \in Seq(S)
    BY <2>1, <2>2, <2>3, SubSeqProperties
  <2>5. SubSeq(s, 1, i - 1) \o SubSeq(s, i + 1, Len(s)) \in Seq(S)
    BY <2>4, ConcatProperties
  <2> QED BY <2>5 DEF Bench!RemoveAt
<1> HIDE DEF t
<1>3. Bench!IsSequence(t)
  BY <1>2, SequenceFacts
<1>4. \A j \in DOMAIN t : t[j] \in S
  BY <1>2
<1> QED BY <1>1, <1>3, <1>4 DEF t

(***************************************************************************)
(* As many results as cases and repetitions.                               *)
(***************************************************************************)
LEMMA ResultsCoverManifest ==
    ASSUME NEW run, Bench!IsSequence(run.results), run.results # << >>,
           Bench!EveryRepetition(run), Bench!CasesArePinned(run)
    PROVE  Cardinality(DOMAIN run.results) = run.repetitions * Cardinality(run.manifest)
<1> DEFINE D == DOMAIN run.results
           cases == Bench!CaseIds(run)
           reps == 1 .. run.repetitions
           pairs == cases \X reps
           f == [i \in D |-> <<run.results[i].id, run.results[i].repetition>>]
<1>0. IsFiniteSet(D) /\ D # {}
  <2>1. IsFiniteSet(D)
    BY SequenceFacts
  <2>2. D # {}
    BY DEF Bench!IsSequence
  <2> QED BY <2>1, <2>2
<1>1. \A c \in cases :
         /\ Cardinality(Bench!OfCase(run, c)) = run.repetitions
         /\ {run.results[i].repetition : i \in Bench!OfCase(run, c)} = reps
  BY BenchSets DEF Bench!EveryRepetition
<1>2. \A c : Bench!OfCase(run, c) \in SUBSET D /\ IsFiniteSet(Bench!OfCase(run, c))
  BY <1>0, FS_Subset DEF Bench!OfCase
<1>3. \A i \in D : run.results[i].id \in cases /\ i \in Bench!OfCase(run, run.results[i].id)
  BY DEF Bench!CaseIds, Bench!OfCase
<1>4. run.repetitions \in Nat
  <2>1. PICK c : c \in cases
    BY <1>0, <1>3
  <2> QED BY <1>1, <1>2, <2>1, FS_CardinalityType
<1>5. IsFiniteSet(reps) /\ Cardinality(reps) = run.repetitions
  <2> DEFINE n == run.repetitions
  <2>1. n \in Int /\ n >= 0 /\ 1 \in Int
    BY <1>4
  <2> HIDE DEF n
  <2>2. IsFiniteSet(1 .. n) /\ Cardinality(1 .. n) = IF 1 > n THEN 0 ELSE n - 1 + 1
    BY <2>1, FS_Interval
  <2>3. Cardinality(1 .. n) = n
    BY <2>1, <2>2
  <2> QED BY <2>2, <2>3 DEF n
<1>6. f \in [D -> pairs]
  BY <1>1, <1>3
<1>7. \A p \in pairs : \E i \in D : f[i] = p
  <2> SUFFICES ASSUME NEW p \in pairs PROVE \E i \in D : f[i] = p
    OBVIOUS
  <2>0. p[1] \in cases /\ p[2] \in reps /\ p = <<p[1], p[2]>>
    OBVIOUS
  <2>1. PICK i \in Bench!OfCase(run, p[1]) : run.results[i].repetition = p[2]
    BY <1>1, <2>0
  <2>2. i \in D /\ run.results[i].id = p[1]
    BY DEF Bench!OfCase
  <2>3. f[i] = <<p[1], p[2]>>
    BY <2>1, <2>2
  <2> QED BY <2>0, <2>2, <2>3
<1>8. \A i, j \in D : f[i] = f[j] => i = j
  <2> SUFFICES ASSUME NEW i \in D, NEW j \in D, f[i] = f[j] PROVE i = j
    OBVIOUS
  <2> DEFINE c == run.results[i].id
             O == Bench!OfCase(run, c)
             g == [k \in O |-> run.results[k].repetition]
  <2>1. c \in cases /\ i \in O /\ j \in O /\ g[i] = g[j]
    BY <1>3 DEF Bench!OfCase
  <2>2. g \in [O -> reps] /\ \A r \in reps : \E k \in O : g[k] = r
    BY <1>1, <2>1
  <2>3. IsFiniteSet(O) /\ Cardinality(O) = Cardinality(reps)
    BY <1>1, <1>2, <1>5, <2>1
  <2> HIDE DEF O, reps, g
  <2>4. g \in Surjection(O, reps)
    BY <2>2 DEF Surjection
  <2>5. g \in Injection(O, reps)
    BY <2>3, <2>4, FS_SurjSameCardinalityImpliesInj
  <2> QED BY <2>1, <2>5 DEF Injection, IsInjective
<1> HIDE DEF D, cases, reps, pairs, f
<1>9. ExistsBijection(D, pairs)
  BY <1>6, <1>7, <1>8, Fun_IsBij DEF ExistsBijection
<1>10. IsFiniteSet(D)
  BY <1>0
<1>11. Cardinality(pairs) = Cardinality(D)
  BY <1>9, <1>10, FS_Bijection
<1>12. IsFiniteSet(cases)
  <2> DEFINE g == [k \in D |-> run.results[k].id]
  <2>1. \A c \in cases : \E i \in D : c = g[i]
    BY DEF cases, D, Bench!CaseIds
  <2> HIDE DEF g
  <2> QED BY <1>10, <2>1, ImageIsFinite
<1>13. Cardinality(pairs) = Cardinality(cases) * run.repetitions
  BY <1>5, <1>12, FS_Product DEF pairs
<1>14. Cardinality(run.manifest) = Cardinality(cases)
  <2> DEFINE M == {<<run.results[i].id, run.results[i].digest>> : i \in D}
             h == [m \in M |-> m[1]]
  <2>1. M = run.manifest
    BY DEF D, Bench!CasesArePinned
  <2>2. h \in [M -> cases]
    BY DEF D, cases, Bench!CaseIds
  <2>3. \A c \in cases : \E m \in M : h[m] = c
    <3> SUFFICES ASSUME NEW c \in cases PROVE \E m \in M : h[m] = c
      OBVIOUS
    <3>1. PICK i \in D : run.results[i].id = c
      BY DEF D, cases, Bench!CaseIds
    <3>2. h[<<run.results[i].id, run.results[i].digest>>] = c
      BY <3>1
    <3> QED BY <3>2
  <2>4. \A m, n \in M : h[m] = h[n] => m = n
    BY DEF D, Bench!CasesArePinned
  <2> HIDE DEF M, h
  <2>5. h \in Bijection(M, cases)
    BY <2>2, <2>3, <2>4, Fun_IsBij
  <2>6. ExistsBijection(M, cases)
    BY <2>5 DEF ExistsBijection
  <2>7. IsFiniteSet(M)
    <3> DEFINE g == [k \in D |-> <<run.results[k].id, run.results[k].digest>>]
    <3>1. \A m \in M : \E i \in D : m = g[i]
      BY DEF M
    <3> HIDE DEF g
    <3> QED BY <1>10, <3>1, ImageIsFinite
  <2> QED BY <2>1, <2>6, <2>7, FS_Bijection
<1>15. Cardinality(cases) \in Nat
  BY <1>12, FS_CardinalityType
<1> DEFINE n == Cardinality(cases)
<1>16. n * run.repetitions = run.repetitions * n
  BY <1>4, <1>15
<1> HIDE DEF n
<1>17. Cardinality(D) = n * run.repetitions
  BY <1>11, <1>13 DEF n
<1> QED BY <1>14, <1>16, <1>17 DEF D, n

LEMMA InitIsBenchInv == Bench!Init => Bench!BenchInv
BY LeaderboardsPossible DEF Bench!Init, Bench!BenchInv, Bench!LeaderboardsArePossible

LEMMA StepKeepsBenchInv == Bench!BenchInv /\ [Bench!Next]_benchVars => Bench!BenchInv'
<1> SUFFICES ASSUME Bench!BenchInv, [Bench!Next]_benchVars PROVE Bench!BoardIsPossible(leaderboard')
  BY DEF Bench!BenchInv
<1> USE DEF Bench!BenchInv
<1>0. "kind" \in DOMAIN leaderboard
  BY DEF Bench!BoardIsPossible
<1>1. CASE Bench!ForgetField
  <2>1. ASSUME leaderboard.kind = "swe", NEW i, NEW t, NEW f,
               leaderboard' = [leaderboard EXCEPT !.rows[i].tasks[t][f] = None]
        PROVE  Bench!BoardIsPossible(leaderboard')
    <3>1. "kind" \in DOMAIN leaderboard' /\ leaderboard'.kind = "swe"
      BY <1>0, <2>1
    <3> QED BY <3>1 DEF Bench!BoardIsPossible
  <2>2. ASSUME leaderboard.kind = "arc", NEW p, NEW t, NEW f,
               leaderboard' = [leaderboard EXCEPT !.files[p].tasks[t][f] = None]
        PROVE  Bench!BoardIsPossible(leaderboard')
    <3>1. "kind" \in DOMAIN leaderboard' /\ leaderboard'.kind = "arc"
      BY <1>0, <2>2
    <3> QED BY <3>1 DEF Bench!BoardIsPossible
  <2>3. ASSUME leaderboard.kind = "decisions", NEW i \in DOMAIN leaderboard.run.results, NEW c,
               leaderboard' = [leaderboard EXCEPT !.run.results[i].usage[c].cost = None]
        PROVE  Bench!BoardIsPossible(leaderboard')
    <3> DEFINE results == leaderboard.run.results
               new == [results[i] EXCEPT !.usage[c].cost = None]
    <3>1. /\ "run" \in DOMAIN leaderboard /\ "results" \in DOMAIN leaderboard.run
          /\ Bench!IsSequence(results)
          /\ \A j \in DOMAIN results : "success" \in DOMAIN results[j] /\ results[j].success \in BOOLEAN
      BY <2>3 DEF Bench!BoardIsPossible
    <3>2. leaderboard' = [leaderboard EXCEPT !.run = [leaderboard.run EXCEPT !.results =
                             [results EXCEPT ![i] = new]]]
      BY <2>3
    <3>3. "success" \in DOMAIN new /\ new.success \in BOOLEAN
      BY <3>1
    <3> HIDE DEF new
    <3>4. /\ "kind" \in DOMAIN leaderboard' /\ leaderboard'.kind = "decisions"
          /\ "run" \in DOMAIN leaderboard' /\ "results" \in DOMAIN leaderboard'.run
          /\ leaderboard'.run.results = [results EXCEPT ![i] = new]
      BY <1>0, <2>3, <3>1, <3>2
    <3> HIDE DEF results
    <3>5. Bench!IsSequence([results EXCEPT ![i] = new])
      BY <2>3, <3>1, SequenceChanges DEF results
    <3>6. \A j \in DOMAIN results : [results EXCEPT ![i] = new][j] \in {new, results[j]}
      OBVIOUS
    <3>7. DOMAIN [results EXCEPT ![i] = new] = DOMAIN results
      OBVIOUS
    <3> QED BY <3>1, <3>3, <3>4, <3>5, <3>6, <3>7 DEF Bench!BoardIsPossible
  <2>4. ASSUME leaderboard.kind = "watt", NEW i \in DOMAIN leaderboard.items,
               leaderboard' = [leaderboard EXCEPT !.items[i].energy = None]
        PROVE  Bench!BoardIsPossible(leaderboard')
    <3> DEFINE items == leaderboard.items
               new == [items[i] EXCEPT !.energy = None]
               kinds == {"correct", "wrong", "unevaluated", "failed", "empty"}
    <3>1. /\ "items" \in DOMAIN leaderboard /\ Bench!IsSequence(items)
          /\ \A j \in DOMAIN items : "outcome" \in DOMAIN items[j] /\ items[j].outcome \in kinds
          /\ "excluded" \notin DOMAIN leaderboard.change
          /\ ~({"records", "scored"} \subseteq DOMAIN leaderboard.change)
      BY <2>4 DEF Bench!BoardIsPossible
    <3>2. leaderboard' = [leaderboard EXCEPT !.items = [items EXCEPT ![i] = new]]
      BY <2>4
    <3>3. "outcome" \in DOMAIN new /\ new.outcome \in kinds
      BY <3>1
    <3> HIDE DEF new
    <3>4. /\ "kind" \in DOMAIN leaderboard' /\ leaderboard'.kind = "watt"
          /\ "items" \in DOMAIN leaderboard' /\ leaderboard'.change = leaderboard.change
          /\ leaderboard'.items = [items EXCEPT ![i] = new]
      BY <1>0, <2>4, <3>1, <3>2
    <3> HIDE DEF items
    <3>5. Bench!IsSequence([items EXCEPT ![i] = new])
      BY <2>4, <3>1, SequenceChanges DEF items
    <3>6. \A j \in DOMAIN items : [items EXCEPT ![i] = new][j] \in {new, items[j]}
      OBVIOUS
    <3>7. DOMAIN [items EXCEPT ![i] = new] = DOMAIN items
      OBVIOUS
    <3> QED BY <3>1, <3>3, <3>4, <3>5, <3>6, <3>7 DEF Bench!BoardIsPossible
  <2>5. DOMAIN Bench!Scored(leaderboard.items) \subseteq DOMAIN leaderboard.items
    BY DEF Bench!Scored, Bench!Restrict, Bench!With
  <2> QED BY <1>1, <2>1, <2>2, <2>3, <2>4, <2>5 DEF Bench!ForgetField
<1>2. CASE Bench!LeaveOut
  <2> DEFINE results == leaderboard.run.results
  <2>1. PICK i \in DOMAIN results :
            leaderboard' = [leaderboard EXCEPT !.run.results = Bench!RemoveAt(@, i)]
    BY <1>2 DEF Bench!LeaveOut
  <2>2. /\ leaderboard.kind = "decisions"
        /\ "run" \in DOMAIN leaderboard /\ "results" \in DOMAIN leaderboard.run
        /\ Bench!IsSequence(results)
        /\ \A j \in DOMAIN results : "success" \in DOMAIN results[j] /\ results[j].success \in BOOLEAN
    BY <1>2 DEF Bench!BoardIsPossible, Bench!LeaveOut
  <2>3. /\ "kind" \in DOMAIN leaderboard' /\ leaderboard'.kind = "decisions"
        /\ "run" \in DOMAIN leaderboard' /\ "results" \in DOMAIN leaderboard'.run
        /\ leaderboard'.run.results = Bench!RemoveAt(results, i)
    BY <1>0, <2>1, <2>2
  <2> HIDE DEF results
  <2>4. /\ Bench!IsSequence(Bench!RemoveAt(results, i))
        /\ \A j \in DOMAIN Bench!RemoveAt(results, i) :
               \E k \in DOMAIN results : Bench!RemoveAt(results, i)[j] = results[k]
    BY <2>2, SequenceChanges
  <2> QED BY <2>2, <2>3, <2>4 DEF Bench!BoardIsPossible
<1>3. CASE Bench!AdmitDirty
  <2>1. "kind" \in DOMAIN leaderboard' /\ leaderboard'.kind = "aider"
    BY <1>0, <1>3 DEF Bench!AdmitDirty
  <2> QED BY <2>1 DEF Bench!BoardIsPossible
<1>4. CASE UNCHANGED benchVars
  BY <1>4 DEF benchVars
<1> QED BY <1>1, <1>2, <1>3, <1>4 DEF Bench!Next, Bench!Forget

(***************************************************************************)
(* The share of successes is of every result of every case; and what       *)
(* intelligence per watt is of are all items, as none was excluded.        *)
(***************************************************************************)
LEMMA SuccessIsOfEveryResult ==
    ASSUME NEW run, Bench!IsSequence(run.results), Bench!Decisions(run) # Bench!Refused,
           \A i \in DOMAIN run.results : run.results[i].success \in BOOLEAN
    PROVE  Bench!Decisions(run).success.of = run.repetitions * Cardinality(run.manifest)
<1> DEFINE results == run.results
           signals == Bench!SignalsOf(results)
<1>1. Bench!RunIsSound(run) /\ Bench!Decisions(run) = Bench!Known(signals)
  BY DEF Bench!Decisions
<1>2. "success" \in DOMAIN signals /\ signals.success = Bench!Right(results, "success")
  BY DEF Bench!SignalsOf
<1>3. Bench!Reporting(results, "success") = DOMAIN results
  BY LeaderboardsPossible DEF Bench!LeaderboardsArePossible, Bench!Reporting, Bench!Where
<1>4. signals.success.of = Cardinality(DOMAIN results)
  BY <1>2, <1>3, BenchSets DEF Bench!Right, Bench!Share
<1>5. /\ Bench!EveryRepetition(run) /\ Bench!CasesArePinned(run) /\ results # << >>
      /\ Cardinality(DOMAIN results) = run.repetitions * Cardinality(run.manifest)
  BY <1>1, ResultsCoverManifest DEF Bench!RunIsSound
<1>6. Cardinality(DOMAIN results) > 0
  <2>1. Len(results) \in Nat /\ DOMAIN results = 1 .. Len(results)
        /\ Cardinality(DOMAIN results) = Len(results)
    BY SequenceFacts
  <2>2. Len(results) # 0
    BY <1>5 DEF Bench!IsSequence
  <2> QED BY <2>1, <2>2
<1> HIDE DEF signals, results
<1>7. "success" \in {f \in DOMAIN signals : signals[f].of > 0}
  BY <1>2, <1>4, <1>6
<1>8. Bench!Known(signals).success = signals.success
  BY <1>7 DEF Bench!Known, Bench!Restrict
<1> QED BY <1>1, <1>4, <1>5, <1>8

LEMMA WattIsOfEveryItem ==
    ASSUME NEW b, Bench!BoardIsPossible(b), b.kind = "watt", Bench!WattOf(b) # Bench!Refused
    PROVE  Bench!WattOf(b).of = Len(b.items)
<1> DEFINE items == b.items
           reported == Bench!Analysis(items)
           analysis == Bench!Altered(reported, b.change)
           scored == Bench!Scored(items)
           energy == Bench!StatsOf(Bench!Measured(scored, "energy"))
<1>1. Bench!CountsCover(analysis) /\ Bench!WattOf(b).of = analysis.scored
  BY DEF Bench!WattOf, Bench!Watt
<1>2. /\ reported.scored = energy.count /\ reported.records = energy.count
      /\ {"scored", "records", "excluded"} \subseteq DOMAIN reported
      /\ reported.excluded = [r \in {"unevaluated", "failed", "empty"} |->
                                 Bench!Cardinality(Bench!With(items, r))]
  BY DEF Bench!Analysis, Bench!AnalysisOf
<1>3. energy.count = Cardinality(DOMAIN scored)
  BY BenchSets DEF Bench!StatsOf, Bench!Measured
<1> HIDE DEF reported, energy, scored
<1>4. /\ analysis.excluded = reported.excluded
      /\ analysis.scored = reported.scored \/ analysis.records = reported.records
  BY <1>2 DEF Bench!Altered, Bench!BoardIsPossible
<1>5. analysis.scored = energy.count
  BY <1>1, <1>2, <1>4 DEF Bench!CountsCover
<1>6. /\ Bench!IsSequence(items)
      /\ \A i \in DOMAIN items :
            items[i].outcome \in {"correct", "wrong", "unevaluated", "failed", "empty"}
  BY DEF Bench!BoardIsPossible
<1>7. IsFiniteSet(DOMAIN items) /\ Cardinality(DOMAIN items) = Len(items)
  BY <1>6, SequenceFacts
<1>8. ASSUME NEW r \in {"unevaluated", "failed", "empty"} PROVE Bench!With(items, r) = {}
  <2>1. Cardinality(Bench!With(items, r)) = 0
    BY <1>1, <1>2, <1>4, BenchSets DEF Bench!CountsCover, Bench!NothingExcluded
  <2>2. Bench!With(items, r) \in SUBSET DOMAIN items
    BY DEF Bench!With
  <2> QED BY <1>7, <2>1, <2>2, FS_Subset, FS_EmptySet
<1>9. DOMAIN scored = DOMAIN items
  <2>1. DOMAIN scored = Bench!With(items, "correct") \cup Bench!With(items, "wrong")
    BY DEF scored, Bench!Scored, Bench!Restrict
  <2> QED BY <1>6, <1>8, <2>1 DEF Bench!With
<1> QED BY <1>1, <1>3, <1>5, <1>7, <1>9

LEMMA BenchInvCountsRows == Bench!BenchInv => Bench!EveryRowCounts
<1> SUFFICES ASSUME Bench!BenchInv PROVE Bench!EveryRowCounts
  OBVIOUS
<1>1. ASSUME leaderboard.kind = "swe", Bench!Swe(leaderboard.rows) # Bench!Refused
      PROVE  DOMAIN Bench!Swe(leaderboard.rows) = DOMAIN Bench!Selected(leaderboard.rows)
  BY <1>1 DEF Bench!Swe, Bench!SweOf, Bench!Results, Bench!OneResultEach
<1>2. ASSUME leaderboard.kind = "aider",
             Bench!Aider(leaderboard.rows, leaderboard.includeDirty) # Bench!Refused
      PROVE  LET result == Bench!Aider(leaderboard.rows, leaderboard.includeDirty)
             IN  /\ result.accepted \cup result.rejected = DOMAIN leaderboard.rows
                 /\ \A i \in result.accepted :
                       leaderboard.rows[i].dirty => leaderboard.includeDirty
  BY <1>2 DEF Bench!Aider, Bench!AiderOf, Bench!Accepted, Bench!Eligible, Bench!CheckoutIsClean
<1>3. ASSUME leaderboard.kind = "decisions", Bench!Decisions(leaderboard.run) # Bench!Refused
      PROVE  Bench!Decisions(leaderboard.run).success.of
                 = leaderboard.run.repetitions * Bench!Cardinality(leaderboard.run.manifest)
  BY <1>3, SuccessIsOfEveryResult, BenchSets DEF Bench!BenchInv, Bench!BoardIsPossible
<1>4. ASSUME leaderboard.kind = "watt", Bench!WattOf(leaderboard) # Bench!Refused
      PROVE  Bench!WattOf(leaderboard).of = Len(leaderboard.items)
  BY <1>4, WattIsOfEveryItem DEF Bench!BenchInv
<1> QED BY <1>1, <1>2, <1>3, <1>4 DEF Bench!EveryRowCounts

----------------------------------------------------------------------------
\* The matrix of requests.

\* Of two prompts the longer one has no fewer tokens.
LEMMA LongerHasMore ==
    ASSUME plan \in Plans, NEW m \in Int, NEW n \in Header .. m
    PROVE  Matrix!Tokens(n) <= Matrix!Tokens(m) /\ Matrix!Length(m) = m
<1> USE MatrixPossible DEF Matrix!MatrixIsPossible
<1>1. Matrix!Length(n) = n /\ Matrix!Length(m) = m
  BY DEF Matrix!Length, Matrix!Larger
<1>2. n \in Nat /\ m \in Nat /\ plan.rate \in Nat /\ n <= m
  OBVIOUS
<1>3. n * plan.rate <= m * plan.rate
  BY <1>2
<1>4. n * plan.rate \in Int /\ m * plan.rate \in Int
  BY <1>2
<1>5. (n * plan.rate) \div 4 <= (m * plan.rate) \div 4
  <2> DEFINE a == n * plan.rate
             b == m * plan.rate
  <2>1. a \in Int /\ b \in Int /\ a <= b
    BY <1>3, <1>4
  <2> HIDE DEF a, b
  <2>2. a \div 4 <= b \div 4
    BY <2>1
  <2> QED BY <2>2 DEF a, b
<1> QED BY <1>1, <1>5 DEF Matrix!Tokens

LEMMA TokensAreNumbers ==
    ASSUME plan \in Plans, NEW m \in Int
    PROVE  Matrix!Tokens(m) \in Int /\ Matrix!Length(m) \in Int /\ plan.target \in Int
<1> USE MatrixPossible DEF Matrix!MatrixIsPossible
<1>1. Matrix!Length(m) \in Int /\ plan.rate \in Int /\ plan.target \in Int
  BY DEF Matrix!Length, Matrix!Larger
<1>2. Matrix!Length(m) * plan.rate \in Int
  BY <1>1
<1> QED BY <1>1, <1>2 DEF Matrix!Tokens

LEMMA InitIsMatrixInv == Matrix!Init => Matrix!MatrixInv
<1> SUFFICES ASSUME Matrix!Init PROVE Matrix!MatrixInv
  OBVIOUS
<1> USE MatrixPossible DEF Matrix!MatrixIsPossible, Matrix!Init
<1>1. Matrix!MatrixIsTyped
  BY DEF Matrix!MatrixIsTyped
<1>2. Matrix!Calibration
  <2>1. plan \in Plans /\ plan.target \in Nat /\ 4 * plan.target \in Int
    OBVIOUS
  <2>2. request.low = 1 /\ request.high \in Int
    BY <2>1 DEF Matrix!Larger
  <2>3. request.pc = IF Matrix!Calibrates THEN "double" ELSE "ready"
    OBVIOUS
  <2> QED BY <2>2, <2>3 DEF Matrix!Calibration, Matrix!PromptIsShortest
<1>3. Matrix!Requested
  BY DEF Matrix!Requested
<1>4. Matrix!RowsAreOwn
  BY DEF Matrix!RowsAreOwn, Matrix!PeakIsOfRequest
<1>5. Matrix!WrittenIsOfRows
  BY DEF Matrix!WrittenIsOfRows
<1> QED BY <1>1, <1>2, <1>3, <1>4, <1>5 DEF Matrix!MatrixInv

\* The bounds close in on the shortest prompt.
LEMMA CalibrationGoesOn ==
    ASSUME Matrix!MatrixInv, Matrix!Double \/ Matrix!Halve
    PROVE  /\ Matrix!Calibration' /\ request'.pc \in {"double", "halve", "ready"}
           /\ request.pc \in {"double", "halve"} /\ DOMAIN request' = DOMAIN request
           /\ UNCHANGED <<plan, server, sampler, rows, output>>
<1> DEFINE lower == request.low
           upper == request.high
           middle == (lower + upper) \div 2
           target == plan.target
<1>0. /\ plan \in Plans /\ plan' = plan /\ UNCHANGED <<server, sampler, rows, output>>
      /\ request.pc \in {"double", "halve"} /\ Matrix!Calibration
      /\ \A f \in {"pc", "low", "high", "best"} : f \in DOMAIN request
  BY DEF Matrix!Double, Matrix!Halve, Matrix!MatrixInv, Matrix!MatrixIsTyped
<1>1. /\ Matrix!Calibrates /\ lower \in Int /\ upper \in Int /\ middle \in Int
      /\ \A n \in Header .. lower - 1 : Matrix!Tokens(n) < target
  BY <1>0 DEF Matrix!Calibration
<1>2. Header \in Nat /\ target \in Int
  BY <1>0, MatrixPossible DEF Matrix!MatrixIsPossible
<1>3. \A m \in Int : Matrix!Tokens(m) \in Int
  BY <1>0, TokensAreNumbers
<1> HIDE DEF lower, upper, middle, target
<1>4. \A m : Matrix!Tokens(m)' = Matrix!Tokens(m) /\ Matrix!Length(m)' = Matrix!Length(m)
  BY <1>0 DEF Matrix!Tokens, Matrix!Length
<1>5. ASSUME NEW m \in Int, Matrix!Tokens(m) < target
      PROVE  \A n \in Header .. m : Matrix!Tokens(n) < target
  <2>1. ASSUME NEW n \in Header .. m PROVE Matrix!Tokens(n) < target
    <3>1. Matrix!Tokens(n) <= Matrix!Tokens(m) /\ n \in Int
      BY <1>0, <1>2, LongerHasMore
    <3> QED BY <1>2, <1>3, <1>5, <3>1
  <2> QED BY <2>1
<1>6. Matrix!Calibrates'
  BY <1>0, <1>1 DEF Matrix!Calibrates
<1>7. CASE Matrix!Double /\ Matrix!Tokens(upper) < target
  <2>1. /\ request'.pc = "double" /\ request'.low = upper + 1 /\ request'.high = 2 * upper
        /\ DOMAIN request' = DOMAIN request
    BY <1>0, <1>7 DEF Matrix!Double, lower, upper, middle, target
  <2>2. \A n \in Header .. upper : Matrix!Tokens(n) < target
    BY <1>1, <1>5, <1>7
  <2>3. upper + 1 - 1 = upper /\ upper + 1 \in Int /\ 2 * upper \in Int
    BY <1>1
  <2>4. \A n \in Header .. request'.low - 1 : Matrix!Tokens(n)' < plan'.target
    <3>1. request'.low - 1 = upper
      <4>1. request'.low = upper + 1
        BY <2>1
      <4> QED BY <1>1, <4>1
    <3>2. \A n \in Header .. upper : Matrix!Tokens(n)' < plan'.target
      BY <1>0, <1>4, <2>2 DEF target
    <3> QED BY <3>1, <3>2
  <2>5. Matrix!Calibration'
    BY <1>6, <2>1, <2>3, <2>4 DEF Matrix!Calibration, Matrix!PromptIsShortest
  <2> QED BY <1>0, <2>1, <2>5
<1>8. CASE Matrix!Double /\ ~(Matrix!Tokens(upper) < target)
  <2>1. /\ request'.pc = "halve" /\ request'.low = lower /\ request'.high = upper
        /\ request'.best = upper /\ DOMAIN request' = DOMAIN request
    BY <1>0, <1>8 DEF Matrix!Double, lower, upper, middle, target
  <2>2. Matrix!Tokens(upper) >= target /\ upper - 1 <= upper /\ upper <= upper
    BY <1>1, <1>2, <1>3, <1>8
  <2>4. Matrix!Calibration'
    BY <1>0, <1>1, <1>4, <1>6, <2>1, <2>2 DEF Matrix!Calibration, Matrix!PromptIsShortest, target
  <2> QED BY <1>0, <2>1, <2>4
<1>9. ASSUME request.pc = "halve"
      PROVE  /\ request.best \in Int /\ Matrix!Tokens(request.best) >= target
             /\ request.best - 1 <= upper /\ upper <= request.best
  BY <1>0, <1>1, <1>9 DEF Matrix!Calibration, upper, target
<1>10. CASE Matrix!Halve /\ lower > upper
  <2>1. /\ request'.pc = "ready" /\ request'.best = request.best
        /\ DOMAIN request' = DOMAIN request /\ request.pc = "halve"
    BY <1>0, <1>10 DEF Matrix!Halve, lower, upper, middle, target
  <2>2. ASSUME NEW n \in Header .. Matrix!Length(request.best) - 1
        PROVE  Matrix!Tokens(n) < target
    <3>1. request.best \in Int /\ Header \in Int /\ Header # None /\ request.best # None
      BY <1>9, <2>1, MatrixPossible DEF Matrix!MatrixIsPossible
    <3>2. Matrix!Length(request.best) = request.best
             \/ Matrix!Length(request.best) = Header
      BY <3>1 DEF Matrix!Length, Matrix!Larger
    <3>3. n \in Header .. lower - 1
      BY <1>1, <1>9, <1>10, <2>1, <3>1, <3>2
    <3> QED BY <1>1, <3>3
  <2>4. Matrix!Calibration'
    BY <1>0, <1>4, <1>9, <2>1, <2>2 DEF Matrix!Calibration, Matrix!PromptIsShortest, target
  <2> QED BY <1>0, <2>1, <2>4
<1>11. CASE Matrix!Halve /\ ~(lower > upper) /\ Matrix!Tokens(middle) >= target
  <2>1. /\ request'.pc = "halve" /\ request'.best = middle /\ request'.high = middle - 1
        /\ request'.low = lower /\ DOMAIN request' = DOMAIN request
    BY <1>0, <1>11 DEF Matrix!Halve, lower, upper, middle, target, Matrix!Best
  <2>2. middle - 1 \in Int /\ middle - 1 <= middle - 1 /\ middle - 1 <= middle
    BY <1>1
  <2>4. Matrix!Calibration'
    BY <1>0, <1>1, <1>4, <1>6, <1>11, <2>1, <2>2
       DEF Matrix!Calibration, Matrix!PromptIsShortest, target
  <2> QED BY <1>0, <2>1, <2>4
<1>12. CASE Matrix!Halve /\ ~(lower > upper) /\ ~(Matrix!Tokens(middle) >= target)
  <2>1. /\ request'.pc = "halve" /\ request'.best = request.best /\ request'.high = upper
        /\ request'.low = middle + 1 /\ DOMAIN request' = DOMAIN request /\ request.pc = "halve"
    BY <1>0, <1>12 DEF Matrix!Halve, lower, upper, middle, target, Matrix!Best
  <2>2. middle + 1 - 1 = middle /\ middle + 1 \in Int
    BY <1>1
  <2>3. Matrix!Tokens(middle) < target
    BY <1>1, <1>2, <1>3, <1>12
  <2>5. \A n \in Header .. middle : Matrix!Tokens(n) < target
    BY <1>1, <1>5, <2>3
  <2>4. Matrix!Calibration'
    BY <1>0, <1>1, <1>4, <1>6, <1>9, <2>1, <2>2, <2>5
       DEF Matrix!Calibration, Matrix!PromptIsShortest, target
  <2> QED BY <1>0, <2>1, <2>4
<1> QED BY <1>7, <1>8, <1>10, <1>11, <1>12

\* What a step that does not calibrate leaves of the parts of the invariant.
LEMMA PartsStay ==
    ASSUME Matrix!MatrixInv, plan' = plan
    PROVE  /\ /\ request'.best = request.best /\ request.pc \notin {"double", "halve"}
              /\ request'.pc \notin {"double", "halve"}
              => Matrix!Calibration'
           /\ rows' = rows => Matrix!RowsAreOwn'
           /\ /\ rows' = rows /\ output' = output
              /\ output.pc # "none" => request'.pc = request.pc
              => Matrix!WrittenIsOfRows'
<1> USE DEF Matrix!MatrixInv
<1>1. ASSUME request'.best = request.best, request.pc \notin {"double", "halve"},
             request'.pc \notin {"double", "halve"}
      PROVE  Matrix!Calibration'
  BY <1>1 DEF Matrix!Calibration, Matrix!PromptIsShortest, Matrix!Calibrates, Matrix!Tokens,
              Matrix!Length
<1>2. ASSUME rows' = rows PROVE Matrix!RowsAreOwn'
  BY <1>2 DEF Matrix!RowsAreOwn, Matrix!PeakIsOfRequest, Matrix!AdvancedOnce,
              Matrix!CountedBefore
<1>3. ASSUME rows' = rows, output' = output, output.pc # "none" => request'.pc = request.pc
      PROVE  Matrix!WrittenIsOfRows'
  <2>1. \A state : /\ Matrix!Measurement(state)' = Matrix!Measurement(state)
                   /\ Matrix!Group(state)' = Matrix!Group(state)
                   /\ Matrix!Checked(Matrix!Group(state))' = Matrix!Checked(Matrix!Group(state))
    BY <1>3 DEF Matrix!Measurement, Matrix!Group, Matrix!State, Matrix!Integrity, Matrix!Metric,
                Matrix!Acceptance, Matrix!Checked
  <2>2. /\ \A i : Matrix!State(rows[i])' = Matrix!State(rows[i])
        /\ Matrix!NothingLoaded' = Matrix!NothingLoaded
        /\ \A i : Matrix!AdvancedOnce(rows[i])' = Matrix!AdvancedOnce(rows[i])
    BY <1>3 DEF Matrix!State, Matrix!NothingLoaded, Matrix!AdvancedOnce, Matrix!CountedBefore
  <2>3. Matrix!WrittenIsOfRows
    OBVIOUS
  <2>4. /\ output'.pc # "none" => request'.pc = "ready" /\ Len(rows') = plan'.repetitions
        /\ output'.pc = "none" => output'.written = {}
        /\ output'.pc \in {"writing", "done"} \/ output'.written # {} => Matrix!NothingLoaded'
    BY <1>3, <2>2, <2>3 DEF Matrix!WrittenIsOfRows
  <2>5. \A r \in output'.written :
           /\ r = Matrix!Measurement(r.state)'
           /\ \A i \in Matrix!Checked(Matrix!Group(r.state))' : Matrix!AdvancedOnce(rows[i])'
    BY <1>3, <2>1, <2>2, <2>3 DEF Matrix!WrittenIsOfRows
  <2>6. output'.pc = "done" =>
           \A i \in DOMAIN rows' : \E r \in output'.written : r.state = Matrix!State(rows[i])'
    BY <1>3, <2>2, <2>3 DEF Matrix!WrittenIsOfRows
  <2> QED BY <2>4, <2>5, <2>6 DEF Matrix!WrittenIsOfRows
<1> QED BY <1>1, <1>2, <1>3

\* The least and the greatest of two numbers.
LEMMA LeastOfTwo ==
    ASSUME NEW a \in Int, NEW b \in Int
    PROVE  /\ Matrix!Min({a, b}) \in {a, b} /\ Matrix!Min({a, b}) <= a /\ Matrix!Min({a, b}) <= b
           /\ Matrix!Max({a, b}) \in {a, b} /\ a <= Matrix!Max({a, b}) /\ b <= Matrix!Max({a, b})
<1>1. \E x \in {a, b} : \A y \in {a, b} : x <= y
  OBVIOUS
<1>2. \E x \in {a, b} : \A y \in {a, b} : x >= y
  OBVIOUS
<1> QED BY <1>1, <1>2 DEF Matrix!Min, Matrix!Max

\* A request begins with the memory and the counter that the server has.
LEMMA RequestKeepsInv ==
    ASSUME Matrix!MatrixInv,
           \/ Matrix!Load \/ Matrix!Complete \/ Matrix!Join \/ Matrix!GiveUp
           \/ \E before \in {None, server.requests} : Matrix!Begin(before)
           \/ \E answer \in {"exact", "inside", "wrong"}, cached \in {None, 0, 1} :
                 Matrix!Answer(answer, cached)
    PROVE  Matrix!MatrixInv'
<1> USE MatrixPossible DEF Matrix!MatrixIsPossible
<1>0. Matrix!MatrixIsTyped /\ Matrix!Requested /\ Matrix!WrittenIsOfRows /\ Len(rows) \in Nat
  BY DEF Matrix!MatrixInv, Matrix!MatrixIsTyped
<1>1. ASSUME NEW before \in {None, server.requests}, Matrix!Begin(before)
      PROVE  Matrix!MatrixInv'
  <2>1. /\ request.pc = "ready" /\ request'.pc = "stream" /\ Len(rows) < plan.repetitions
        /\ request'.before = before /\ request'.first = None /\ request'.loading = 0
        /\ request'.answer = None /\ request'.least = server.memory
        /\ request'.most = server.memory /\ request'.best = request.best
        /\ sampler'.pc = "sample" /\ sampler'.peak = None /\ ~sampler'.seen
        /\ DOMAIN request' = DOMAIN request /\ DOMAIN sampler' = DOMAIN sampler
        /\ UNCHANGED <<plan, server, rows, output>>
    BY <1>0, <1>1 DEF Matrix!Begin, Matrix!MatrixIsTyped
  <2>2. output.pc = "none"
    BY <1>0, <2>1 DEF Matrix!WrittenIsOfRows
  <2>3. Matrix!MatrixIsTyped'
    BY <1>0, <2>1 DEF Matrix!MatrixIsTyped
  <2>4. Matrix!Requested'
    BY <1>0, <2>1 DEF Matrix!Requested, Matrix!MatrixIsTyped, Matrix!CountedBefore
  <2> QED BY <2>1, <2>2, <2>3, <2>4, PartsStay DEF Matrix!MatrixInv
<1>2. CASE Matrix!Load
  <2>1. /\ request.pc = "stream" /\ request.first = None
        /\ request'.first = "loading" /\ request'.loading = request.loading + 1
        /\ \A f \in DOMAIN request \ {"first", "loading"} : request'[f] = request[f]
        /\ DOMAIN request' = DOMAIN request
        /\ UNCHANGED <<plan, server, sampler, rows, output, noise>>
    BY <1>0, <1>2 DEF Matrix!Load, Matrix!MatrixIsTyped
  <2>2. \A f \in {"pc", "best", "before", "answer", "least", "most", "joined"} :
           request'[f] = request[f]
    BY <1>0, <2>1 DEF Matrix!MatrixIsTyped
  <2>3. Matrix!MatrixIsTyped'
    BY <1>0, <2>1 DEF Matrix!MatrixIsTyped
  <2>4. Matrix!Requested'
    <3>1. request'.loading = 1
      BY <1>0, <2>1 DEF Matrix!Requested
    <3>2. Matrix!CountedBefore(request') = Matrix!CountedBefore(request)
      BY <2>2 DEF Matrix!CountedBefore
    <3> QED BY <1>0, <2>1, <2>2, <3>1, <3>2 DEF Matrix!Requested
  <2>5. output.pc = "none" \/ request'.pc = request.pc
    BY <2>2
  <2> QED BY <2>1, <2>2, <2>3, <2>4, PartsStay DEF Matrix!MatrixInv
<1>3. ASSUME NEW answer \in {"exact", "inside", "wrong"}, NEW cached \in {None, 0, 1},
             Matrix!Answer(answer, cached)
      PROVE  Matrix!MatrixInv'
  <2>1. /\ request.pc = "stream" /\ request.answer = None /\ request'.answer = answer
        /\ request'.first = IF request.first = None THEN "model" ELSE request.first
        /\ server'.requests = server.requests + 1 /\ server'.last = "own"
        /\ server'.memory = server.memory
        /\ \A f \in {"pc", "best", "before", "loading", "least", "most", "joined"} :
              request'[f] = request[f]
        /\ DOMAIN request' = DOMAIN request /\ DOMAIN server' = DOMAIN server
        /\ UNCHANGED <<plan, sampler, rows, output>>
    BY <1>0, <1>3 DEF Matrix!Answer, Matrix!MatrixIsTyped
  <2>2. server.requests \in Nat /\ answer # None
    BY <1>0 DEF Matrix!MatrixIsTyped
  <2>3. Matrix!MatrixIsTyped'
    BY <1>0, <2>1, <2>2 DEF Matrix!MatrixIsTyped
  <2>4. Matrix!Requested'
    BY <1>0, <2>1, <2>2 DEF Matrix!Requested, Matrix!CountedBefore
  <2> QED BY <2>1, <2>3, <2>4, PartsStay DEF Matrix!MatrixInv
<1>4. CASE Matrix!Complete
  <2>1. /\ request.pc = "stream" /\ request'.pc \in {"join", "crashed"}
        /\ request.first = None => request'.pc = "crashed"
        /\ \A f \in DOMAIN request \ {"pc"} : request'[f] = request[f]
        /\ DOMAIN request' = DOMAIN request /\ DOMAIN sampler' = DOMAIN sampler
        /\ sampler'.pc = sampler.pc /\ sampler'.peak = sampler.peak
        /\ sampler'.seen = sampler.seen
        /\ UNCHANGED <<plan, server, rows, output, noise>>
    BY <1>0, <1>4 DEF Matrix!Complete, Matrix!MatrixIsTyped
  <2>2. \A f \in {"best", "before", "answer", "least", "most", "joined", "first", "loading"} :
           request'[f] = request[f]
    BY <1>0, <2>1 DEF Matrix!MatrixIsTyped
  <2>3. Matrix!MatrixIsTyped'
    BY <1>0, <2>1 DEF Matrix!MatrixIsTyped
  <2>4. Matrix!Requested'
    BY <1>0, <2>1, <2>2 DEF Matrix!Requested, Matrix!CountedBefore
  <2>5. output.pc = "none"
    BY <1>0, <2>1 DEF Matrix!WrittenIsOfRows
  <2> QED BY <2>1, <2>2, <2>3, <2>4, <2>5, PartsStay DEF Matrix!MatrixInv
<1>5. CASE Matrix!Join \/ Matrix!GiveUp
  <2>1. /\ request.pc = "join" /\ request'.pc = "stopped"
        /\ request'.joined => sampler.pc = "ended"
        /\ \A f \in DOMAIN request \ {"pc", "joined"} : request'[f] = request[f]
        /\ DOMAIN request' = DOMAIN request
        /\ UNCHANGED <<plan, server, sampler, rows, output, noise>>
    BY <1>0, <1>5 DEF Matrix!Join, Matrix!GiveUp, Matrix!MatrixIsTyped
  <2>2. \A f \in {"best", "before", "answer", "least", "most", "first", "loading"} :
           request'[f] = request[f]
    BY <1>0, <2>1 DEF Matrix!MatrixIsTyped
  <2>3. Matrix!MatrixIsTyped'
    BY <1>0, <2>1 DEF Matrix!MatrixIsTyped
  <2>4. Matrix!Requested'
    BY <1>0, <2>1, <2>2 DEF Matrix!Requested, Matrix!CountedBefore
  <2>5. output.pc = "none"
    BY <1>0, <2>1 DEF Matrix!WrittenIsOfRows
  <2> QED BY <2>1, <2>2, <2>3, <2>4, <2>5, PartsStay DEF Matrix!MatrixInv
<1> QED BY <1>1, <1>2, <1>3, <1>4, <1>5

\* The memory of the server and its other clients.
LEMMA ServerKeepsInv ==
    ASSUME Matrix!MatrixInv,
           \/ Matrix!Interfere \/ \E memory \in {0, server.memory} : Matrix!SampleMemory(memory)
           \/ \E memory \in 1 .. MaxMemory : Matrix!Allocate(memory)
    PROVE  Matrix!MatrixInv'
<1> USE MatrixPossible DEF Matrix!MatrixIsPossible
<1>0. Matrix!MatrixIsTyped /\ Matrix!Requested /\ Matrix!WrittenIsOfRows /\ Len(rows) \in Nat
  BY DEF Matrix!MatrixInv, Matrix!MatrixIsTyped
<1>1. ASSUME NEW memory \in {0, server.memory}, Matrix!SampleMemory(memory)
      PROVE  Matrix!MatrixInv'
  <2>1. /\ request.pc \in {"stream", "join"} /\ DOMAIN sampler' = DOMAIN sampler
        /\ sampler'.peak = Matrix!Larger(sampler.peak, memory)
        /\ sampler'.seen <=> (sampler.seen \/ memory # 0)
        /\ UNCHANGED <<plan, server, request, rows, output>>
    BY <1>0, <1>1 DEF Matrix!SampleMemory, Matrix!Sample, Matrix!Took, Matrix!MatrixIsTyped
  <2>2. /\ server.memory \in Nat /\ memory \in Nat
        /\ request.least \in Nat /\ request.most \in Nat
        /\ request.least <= server.memory /\ server.memory <= request.most
        /\ sampler.peak = None => ~sampler.seen
    BY <1>0, <2>1 DEF Matrix!MatrixIsTyped, Matrix!Requested
  <2>3. /\ sampler'.peak \in Nat /\ sampler'.peak # None /\ sampler'.peak <= request.most
        /\ IF sampler'.seen THEN request.least <= sampler'.peak ELSE sampler'.peak = 0
    <3>1. memory # 0 => memory = server.memory
      OBVIOUS
    <3>2. CASE sampler.peak = None
      BY <2>1, <2>2, <3>1, <3>2 DEF Matrix!Larger
    <3>3. CASE sampler.peak # None
      <4>1. /\ sampler.peak \in Nat /\ sampler.peak <= request.most
            /\ IF sampler.seen THEN request.least <= sampler.peak ELSE sampler.peak = 0
        BY <1>0, <2>1, <3>3 DEF Matrix!Requested
      <4>2. /\ sampler'.peak = IF sampler.peak > memory THEN sampler.peak ELSE memory
            /\ memory # None
        BY <2>1, <2>2, <3>3 DEF Matrix!Larger
      <4>3. /\ sampler'.peak \in Nat /\ sampler'.peak <= request.most
            /\ sampler.peak <= sampler'.peak /\ memory <= sampler'.peak
        BY <2>2, <3>1, <4>1, <4>2
      <4>4. CASE sampler.seen \/ memory # 0
        BY <2>1, <2>2, <3>1, <4>1, <4>3, <4>4
      <4>5. CASE ~(sampler.seen \/ memory # 0)
        BY <2>1, <4>1, <4>2, <4>5
      <4> QED BY <4>3, <4>4, <4>5
    <3> QED BY <3>2, <3>3
  <2>4. Matrix!MatrixIsTyped'
    BY <1>0, <2>1 DEF Matrix!MatrixIsTyped
  <2>5. Matrix!Requested'
    BY <1>0, <2>1, <2>2, <2>3 DEF Matrix!Requested, Matrix!CountedBefore
  <2> QED BY <2>1, <2>4, <2>5, PartsStay DEF Matrix!MatrixInv
<1>2. CASE Matrix!Interfere
  <2>1. /\ request.pc \in {"ready", "stream", "stopped", "join"} /\ request' = request
        /\ server'.requests = server.requests + 1 /\ server'.memory = server.memory
        /\ DOMAIN server' = DOMAIN server
        /\ UNCHANGED <<plan, sampler, rows, output>>
    BY <1>0, <1>2 DEF Matrix!Interfere, Matrix!MatrixIsTyped
  <2>2. server.requests \in Nat
    BY <1>0 DEF Matrix!MatrixIsTyped
  <2>3. Matrix!MatrixIsTyped'
    BY <1>0, <2>1, <2>2 DEF Matrix!MatrixIsTyped
  <2>4. Matrix!Requested'
    BY <1>0, <2>1, <2>2 DEF Matrix!Requested, Matrix!CountedBefore
  <2> QED BY <2>1, <2>3, <2>4, PartsStay DEF Matrix!MatrixInv
<1>3. ASSUME NEW memory \in 1 .. MaxMemory, Matrix!Allocate(memory) PROVE Matrix!MatrixInv'
  <2>1. /\ request.pc \in {"stream", "join"}
        /\ server'.memory = memory /\ server'.requests = server.requests
        /\ server'.last = server.last
        /\ request'.least = Matrix!Min({request.least, memory})
        /\ request'.most = Matrix!Max({request.most, memory})
        /\ \A f \in {"pc", "best", "before", "answer", "joined", "first", "loading"} :
              request'[f] = request[f]
        /\ DOMAIN request' = DOMAIN request /\ DOMAIN server' = DOMAIN server
        /\ UNCHANGED <<plan, sampler, rows, output>>
    BY <1>0, <1>3 DEF Matrix!Allocate, Matrix!MatrixIsTyped
  <2>2. memory \in Nat /\ request.least \in Nat /\ request.most \in Nat
    BY <1>0, <2>1 DEF Matrix!Requested
  <2>3. /\ request'.least \in Nat /\ request'.least <= request.least /\ request'.least <= memory
        /\ request'.most \in Nat /\ request.most <= request'.most /\ memory <= request'.most
    <3>1. \A i, j \in Int :
             /\ Matrix!Min({i, j}) \in {i, j} /\ Matrix!Min({i, j}) <= i /\ Matrix!Min({i, j}) <= j
             /\ Matrix!Max({i, j}) \in {i, j} /\ i <= Matrix!Max({i, j}) /\ j <= Matrix!Max({i, j})
      BY LeastOfTwo
    <3>2. request.least \in Int /\ request.most \in Int /\ memory \in Int
      BY <2>2
    <3>3. /\ request'.least \in {request.least, memory}
          /\ request'.least <= request.least /\ request'.least <= memory
      BY ONLY <2>1, <3>1, <3>2
    <3>4. /\ request'.most \in {request.most, memory}
          /\ request.most <= request'.most /\ memory <= request'.most
      BY ONLY <2>1, <3>1, <3>2
    <3> QED BY <2>2, <3>3, <3>4
  <2>4. Matrix!MatrixIsTyped'
    BY <1>0, <2>1, <2>2 DEF Matrix!MatrixIsTyped
  <2>5. Matrix!Requested'
    <3>1. Matrix!CountedBefore(request') = Matrix!CountedBefore(request)
      BY <2>1 DEF Matrix!CountedBefore
    <3>2. ASSUME sampler.peak # None
          PROVE  /\ sampler.peak \in Nat /\ sampler.peak <= request'.most
                 /\ IF sampler.seen THEN request'.least <= sampler.peak ELSE sampler.peak = 0
      <4>1. /\ sampler.peak \in Nat /\ sampler.peak <= request.most
            /\ IF sampler.seen THEN request.least <= sampler.peak ELSE sampler.peak = 0
        BY <1>0, <2>1, <3>2 DEF Matrix!Requested
      <4> QED BY <2>2, <2>3, <4>1
    <3>3. /\ request'.pc = request.pc /\ request'.before = request.before
          /\ request'.answer = request.answer /\ request'.joined = request.joined
          /\ request'.first = request.first /\ request'.loading = request.loading
          /\ sampler' = sampler
      BY <2>1
    <3>4. request'.least <= server'.memory /\ server'.memory <= request'.most
      BY <2>1, <2>3
    <3>5. server'.requests = server.requests /\ server'.last = server.last
      BY <2>1
    <3> QED BY <1>0, <2>1, <2>3, <3>1, <3>2, <3>3, <3>4, <3>5 DEF Matrix!Requested
  <2> QED BY <2>1, <2>4, <2>5, PartsStay DEF Matrix!MatrixInv
<1> QED BY <1>1, <1>2, <1>3

\* The row of a request that ended is of it.
LEMMA RecordKeepsInv ==
    ASSUME Matrix!MatrixInv, NEW after \in {None, server.requests}, Matrix!Record(after)
    PROVE  Matrix!MatrixInv'
<1> USE MatrixPossible DEF Matrix!MatrixIsPossible
<1> DEFINE R == {rows[i] : i \in DOMAIN rows}
           r == [cached |-> request.cached, loading |-> request.loading, first |-> request.first,
                 exact |-> Matrix!Right, present |-> request.answer \in {"exact", "inside"},
                 peak |-> sampler.peak, seen |-> sampler.seen,
                 before |-> request.before, after |-> after, last |-> server.last,
                 least |-> request.least, most |-> request.most, joined |-> request.joined]
<1>0. /\ Matrix!MatrixIsTyped /\ Matrix!Requested /\ Matrix!WrittenIsOfRows /\ Matrix!RowsAreOwn
      /\ rows \in Seq(R)
  BY DEF Matrix!MatrixInv, Matrix!MatrixIsTyped
<1>1. /\ request.pc = "stopped" /\ request'.pc = "ready" /\ request'.best = request.best
      /\ DOMAIN request' = DOMAIN request
      /\ UNCHANGED <<plan, server, sampler, output>>
  BY <1>0 DEF Matrix!Record, Matrix!MatrixIsTyped
<1>2. rows' = Append(rows, r)
  BY DEF Matrix!Record
<1>3. /\ r.loading = 0 => r.first = "model" /\ (Matrix!AdvancedOnce(r) => r.last = "own")
      /\ r.peak = None => ~r.joined
      /\ r.peak # None =>
            IF r.seen THEN r.least <= r.peak /\ r.peak <= r.most ELSE r.peak = 0
  <2>1. r.loading = 0 => r.first = "model" /\ (Matrix!AdvancedOnce(r) => r.last = "own")
    <3>1. Matrix!CountedBefore(request) \in Nat
      BY <1>0, <1>1 DEF Matrix!Requested, Matrix!CountedBefore
    <3>2. Matrix!AdvancedOnce(r) => server.requests = Matrix!CountedBefore(request) + 1
      BY <3>1 DEF Matrix!AdvancedOnce, Matrix!CountedBefore
    <3> QED BY <1>0, <1>1, <3>2 DEF Matrix!Requested
  <2>2. r.peak = None => ~r.joined
    BY <1>0, <1>1 DEF Matrix!Requested
  <2>3. r.peak # None =>
           IF r.seen THEN r.least <= r.peak /\ r.peak <= r.most ELSE r.peak = 0
    BY <1>0, <1>1 DEF Matrix!Requested
  <2> QED BY <2>1, <2>2, <2>3
<1> HIDE DEF R, r
<1>4. /\ Len(rows) \in Nat /\ DOMAIN rows = 1 .. Len(rows)
      /\ DOMAIN rows' = 1 .. (Len(rows) + 1) /\ rows'[Len(rows) + 1] = r
      /\ \A i \in DOMAIN rows : rows'[i] = rows[i]
      /\ rows' \in Seq(R \cup {r})
  <2>1. rows \in Seq(R \cup {r}) /\ r \in R \cup {r}
    BY <1>0
  <2> QED BY <1>0, <1>2, <2>1, AppendProperties
<1>5. ASSUME NEW i \in DOMAIN rows' PROVE i \in DOMAIN rows \/ rows'[i] = r
  BY <1>4
<1>6. Matrix!MatrixIsTyped'
  <2>1. rows' \in Seq({rows'[i] : i \in DOMAIN rows'})
    <3> DEFINE T == {rows'[i] : i \in DOMAIN rows'}
               n == Len(rows) + 1
    <3>1. n \in Nat /\ rows' = [i \in 1 .. n |-> rows'[i]] /\ DOMAIN rows' = 1 .. n
      BY <1>4
    <3>2. \A i \in 1 .. n : rows'[i] \in T
      BY <3>1
    <3> HIDE DEF T, n
    <3>3. rows' \in [1 .. n -> T]
      BY <3>1, <3>2
    <3>4. rows' \in Seq(T)
      BY <3>1, <3>3
    <3> QED BY <3>4 DEF T
  <2> QED BY <1>0, <1>1, <2>1 DEF Matrix!MatrixIsTyped
<1>7. Matrix!Requested'
  BY <1>1 DEF Matrix!Requested
<1>8. Matrix!RowsAreOwn'
  <2>1. Matrix!PeakIsOfRequest'
    BY <1>0, <1>3, <1>4, <1>5 DEF Matrix!RowsAreOwn, Matrix!PeakIsOfRequest
  <2>2. ASSUME NEW i \in DOMAIN rows', rows'[i].loading = 0
        PROVE  rows'[i].first = "model" /\ (Matrix!AdvancedOnce(rows'[i]) => rows'[i].last = "own")
    BY <1>0, <1>3, <1>4, <1>5, <2>2 DEF Matrix!RowsAreOwn
  <2> QED BY <2>1, <2>2 DEF Matrix!RowsAreOwn, Matrix!AdvancedOnce, Matrix!CountedBefore
<1>9. Matrix!WrittenIsOfRows'
  <2>1. output'.pc = "none" /\ output'.written = {}
    BY <1>0, <1>1 DEF Matrix!WrittenIsOfRows
  <2> QED BY <2>1 DEF Matrix!WrittenIsOfRows
<1> QED BY <1>1, <1>6, <1>7, <1>8, <1>9, PartsStay DEF Matrix!MatrixInv

\* The measurements are written of rows that do not change any more.
LEMMA WritingKeepsInv ==
    ASSUME Matrix!MatrixInv,
           \/ Matrix!Finish \/ Matrix!Normalized
           \/ \E state \in {"disabled", "miss", "warm"} : Matrix!Normalize(state)
    PROVE  Matrix!MatrixInv'
<1>0. Matrix!MatrixIsTyped /\ Matrix!Requested /\ Matrix!WrittenIsOfRows
  BY DEF Matrix!MatrixInv
<1>1. UNCHANGED <<plan, server, request, sampler, rows, noise>> /\ DOMAIN output' = DOMAIN output
  BY <1>0 DEF Matrix!Finish, Matrix!Normalized, Matrix!Normalize, Matrix!MatrixIsTyped
<1>2. /\ \A state : /\ Matrix!Measurement(state)' = Matrix!Measurement(state)
                    /\ Matrix!Checked(Matrix!Group(state))' = Matrix!Checked(Matrix!Group(state))
      /\ \A i : Matrix!State(rows[i])' = Matrix!State(rows[i])
      /\ \A i : Matrix!AdvancedOnce(rows[i])' = Matrix!AdvancedOnce(rows[i])
      /\ Matrix!NothingLoaded' = Matrix!NothingLoaded
  <2>1. \A state : /\ Matrix!Measurement(state)' = Matrix!Measurement(state)
                   /\ Matrix!Checked(Matrix!Group(state))' = Matrix!Checked(Matrix!Group(state))
    BY <1>1 DEF Matrix!Measurement, Matrix!Group, Matrix!State, Matrix!Integrity, Matrix!Metric,
                Matrix!Acceptance, Matrix!Checked
  <2>2. /\ \A i : Matrix!State(rows[i])' = Matrix!State(rows[i])
        /\ \A i : Matrix!AdvancedOnce(rows[i])' = Matrix!AdvancedOnce(rows[i])
        /\ Matrix!NothingLoaded' = Matrix!NothingLoaded
    BY <1>1 DEF Matrix!State, Matrix!NothingLoaded, Matrix!AdvancedOnce, Matrix!CountedBefore
  <2> QED BY <2>1, <2>2
<1>3. Matrix!WrittenIsOfRows'
  <2>1. CASE Matrix!Finish
    <3>1. /\ output.pc = "none" /\ request.pc = "ready" /\ Len(rows) = plan.repetitions
          /\ output'.pc \in {"writing", "refused"}
          /\ output'.pc = "writing" => Matrix!NothingLoaded
          /\ output'.written = output.written
      BY <1>0, <2>1 DEF Matrix!Finish, Matrix!MatrixIsTyped
    <3>2. output'.written = {}
      BY <1>0, <3>1 DEF Matrix!WrittenIsOfRows
    <3> QED BY <1>1, <1>2, <3>1, <3>2 DEF Matrix!WrittenIsOfRows
  <2>2. CASE Matrix!Normalized
    <3>1. /\ output.pc = "writing" /\ output'.pc = "done" /\ output'.written = output.written
          /\ \A i \in DOMAIN rows : \E r \in output.written : r.state = Matrix!State(rows[i])
      BY <1>0, <2>2 DEF Matrix!Normalized, Matrix!MatrixIsTyped
    <3> QED BY <1>0, <1>1, <1>2, <3>1 DEF Matrix!WrittenIsOfRows
  <2>3. ASSUME NEW state \in {"disabled", "miss", "warm"}, Matrix!Normalize(state)
        PROVE  Matrix!WrittenIsOfRows'
    <3> DEFINE m == Matrix!Measurement(state)
    <3>1. CASE ~\A i \in Matrix!Checked(Matrix!Group(state)) : Matrix!AdvancedOnce(rows[i])
      <4>1. output.pc = "writing" /\ output'.pc = "refused" /\ output'.written = output.written
        BY <1>0, <2>3, <3>1 DEF Matrix!Normalize, Matrix!MatrixIsTyped
      <4> QED BY <1>0, <1>1, <1>2, <4>1 DEF Matrix!WrittenIsOfRows
    <3>2. CASE \A i \in Matrix!Checked(Matrix!Group(state)) : Matrix!AdvancedOnce(rows[i])
      <4>1. m.state = state
        BY DEF Matrix!Measurement
      <4> HIDE DEF m
      <4>2. output' = [output EXCEPT !.written = @ \cup {m}] /\ output.pc = "writing"
        BY <2>3, <3>2 DEF Matrix!Normalize, m
      <4>3. output'.pc = "writing" /\ output'.written = output.written \cup {m}
        BY <1>0, <4>2 DEF Matrix!MatrixIsTyped
      <4>4. /\ m = Matrix!Measurement(m.state)
            /\ \A i \in Matrix!Checked(Matrix!Group(m.state)) : Matrix!AdvancedOnce(rows[i])
        BY <3>2, <4>1 DEF m
      <4>5. \A r \in output'.written :
               /\ r = Matrix!Measurement(r.state)
               /\ \A i \in Matrix!Checked(Matrix!Group(r.state)) : Matrix!AdvancedOnce(rows[i])
        BY <1>0, <4>3, <4>4 DEF Matrix!WrittenIsOfRows
      <4>6. request.pc = "ready" /\ Len(rows) = plan.repetitions /\ Matrix!NothingLoaded
        BY <1>0, <4>2 DEF Matrix!WrittenIsOfRows
      <4> QED BY <1>1, <1>2, <4>3, <4>5, <4>6 DEF Matrix!WrittenIsOfRows
    <3> QED BY <3>1, <3>2
  <2> QED BY <2>1, <2>2, <2>3
<1>4. Matrix!MatrixIsTyped'
  BY <1>0, <1>1 DEF Matrix!MatrixIsTyped
<1>5. Matrix!Requested'
  BY <1>0, <1>1 DEF Matrix!Requested
<1>6. Matrix!Calibration' /\ Matrix!RowsAreOwn'
  <2>1. Matrix!Calibration'
    BY <1>1 DEF Matrix!MatrixInv, Matrix!Calibration, Matrix!PromptIsShortest,
                Matrix!Calibrates, Matrix!Tokens, Matrix!Length
  <2> QED BY <1>1, <2>1, PartsStay
<1> QED BY <1>3, <1>4, <1>5, <1>6 DEF Matrix!MatrixInv

(***************************************************************************)
(* Each step of the matrix preserves MatrixInv.                            *)
(***************************************************************************)
LEMMA StepKeepsMatrixInv ==
    ASSUME Matrix!MatrixInv, [Matrix!Next]_matrixVars
    PROVE  Matrix!MatrixInv'
<1>1. CASE Matrix!Double \/ Matrix!Halve
  <2>1. Matrix!Calibration' /\ Matrix!RowsAreOwn'
    BY <1>1, CalibrationGoesOn, PartsStay
  <2>2. Matrix!MatrixIsTyped'
    BY <1>1, CalibrationGoesOn DEF Matrix!MatrixInv, Matrix!MatrixIsTyped
  <2>3. Matrix!Requested'
    BY <1>1, CalibrationGoesOn DEF Matrix!Requested
  <2>4. output.pc = "none"
    BY <1>1, CalibrationGoesOn DEF Matrix!MatrixInv, Matrix!WrittenIsOfRows
  <2>5. Matrix!WrittenIsOfRows'
    BY <1>1, <2>4, CalibrationGoesOn, PartsStay
  <2> QED BY <2>1, <2>2, <2>3, <2>5 DEF Matrix!MatrixInv
<1>2. CASE UNCHANGED matrixVars
  <2>1. Matrix!Calibration'
    BY <1>2 DEF Matrix!MatrixInv, Matrix!Calibration, Matrix!PromptIsShortest, matrixVars,
                Matrix!Calibrates, Matrix!Tokens, Matrix!Length
  <2>2. Matrix!MatrixIsTyped' /\ Matrix!Requested'
    BY <1>2 DEF Matrix!MatrixInv, Matrix!MatrixIsTyped, Matrix!Requested, matrixVars
  <2>3. Matrix!RowsAreOwn' /\ Matrix!WrittenIsOfRows'
    BY <1>2, PartsStay DEF matrixVars
  <2> QED BY <2>1, <2>2, <2>3 DEF Matrix!MatrixInv
<1> QED BY <1>1, <1>2, RequestKeepsInv, ServerKeepsInv, RecordKeepsInv, WritingKeepsInv
        DEF Matrix!Next

(***************************************************************************)
(* Each repetition is in one measurement, where it counts.                 *)
(***************************************************************************)
LEMMA MatrixInvCountsRepetitions ==
    ASSUME Matrix!MatrixInv PROVE Matrix!EveryRepetitionCounts
<1>1. Matrix!WrittenIsOfRows /\ Len(rows) \in Nat /\ DOMAIN rows = 1 .. Len(rows)
  BY DEF Matrix!MatrixInv, Matrix!MatrixIsTyped
<1>2. ASSUME NEW state
      PROVE  LET r == Matrix!Measurement(state)
             IN  /\ r.state = state /\ r.outputs = Matrix!Group(state)
                 /\ r.repetitions = Matrix!Cardinality(Matrix!Group(state))
                 /\ r.integrity.total = Matrix!Cardinality(Matrix!Group(state))
                 /\ r.integrity.passed =
                       Matrix!Cardinality({i \in Matrix!Group(state) : rows[i].exact})
  <2> DEFINE group == Matrix!Group(state)
  <2> HIDE DEF group
  <2>1. Matrix!Measurement(state) =
          [state |-> state, repetitions |-> Matrix!Cardinality(group), outputs |-> group,
           integrity |-> Matrix!Integrity(group),
           peaks |-> Matrix!Metric([i \in group |-> rows[i].peak]),
           acceptance |-> Matrix!Acceptance(group)]
    BY DEF Matrix!Measurement, group
  <2> DEFINE a == Matrix!Acceptance(group)
             p == Matrix!Metric([i \in group |-> rows[i].peak])
             g == Matrix!Integrity(group)
             n == Matrix!Cardinality(group)
             r == Matrix!Measurement(state)
  <2>3. /\ g.total = Matrix!Cardinality(group)
        /\ g.passed = Matrix!Cardinality({i \in group : rows[i].exact})
    BY DEF Matrix!Integrity
  <2> HIDE DEF a, p, g, n
  <2>4. r = [state |-> state, repetitions |-> n, outputs |-> group, integrity |-> g,
              peaks |-> p, acceptance |-> a]
    BY <2>1 DEF a, p, g, n
  <2>5. r.state = state /\ r.repetitions = n /\ r.integrity = g /\ r.outputs = group
    BY <2>4
  <2> HIDE DEF r
  <2> QED BY <2>3, <2>5 DEF n, r, group
<1>3. ASSUME NEW r \in output.written
      PROVE  /\ r.outputs = Matrix!Group(r.state)
             /\ r.integrity.total = r.repetitions
             /\ r.repetitions = Matrix!Cardinality(r.outputs)
             /\ r.integrity.passed =
                   Matrix!Cardinality({i \in Matrix!Group(r.state) : rows[i].exact})
  <2>1. r = Matrix!Measurement(r.state)
    BY <1>1 DEF Matrix!WrittenIsOfRows
  <2> QED BY <1>2, <2>1
<1>4. ASSUME output.pc = "done", NEW i \in 1 .. plan.repetitions
      PROVE  \E r \in output.written :
                /\ i \in r.outputs
                /\ \A q \in output.written \ {r} : i \notin q.outputs
  <2>1. i \in DOMAIN rows
    BY <1>1, <1>4 DEF Matrix!WrittenIsOfRows
  <2>2. PICK r \in output.written : r.state = Matrix!State(rows[i])
    BY <1>1, <1>4, <2>1 DEF Matrix!WrittenIsOfRows
  <2>3. i \in r.outputs
    BY <1>3, <2>1, <2>2 DEF Matrix!Group
  <2>4. ASSUME NEW q \in output.written \ {r} PROVE i \notin q.outputs
    <3>1. q = Matrix!Measurement(q.state) /\ r = Matrix!Measurement(r.state)
      BY <1>1 DEF Matrix!WrittenIsOfRows
    <3>2. q.state # r.state
      BY <3>1
    <3>3. q.outputs = Matrix!Group(q.state)
      BY <1>3
    <3> QED BY <2>2, <3>2, <3>3 DEF Matrix!Group
  <2> QED BY <2>3, <2>4
<1> QED BY <1>3, <1>4 DEF Matrix!EveryRepetitionCounts

(***************************************************************************)
(* What is written is of the model alone, and an acceptance of this client.*)
(***************************************************************************)
LEMMA MatrixInvIsOwn == ASSUME Matrix!MatrixInv PROVE Matrix!WrittenIsOwn
<1>1. Matrix!WrittenIsOfRows /\ Matrix!RowsAreOwn
  BY DEF Matrix!MatrixInv
<1>2. ASSUME NEW r \in output.written
      PROVE  /\ r.acceptance # None => \A i \in Matrix!Group(r.state) : r.acceptance[i] = "own"
             /\ \A i \in Matrix!Group(r.state) : rows[i].first = "model"
  <2> DEFINE group == Matrix!Group(r.state)
             last == [i \in group |-> rows[i].last]
  <2>1. /\ Matrix!NothingLoaded /\ r = Matrix!Measurement(r.state)
        /\ \A i \in Matrix!Checked(group) : Matrix!AdvancedOnce(rows[i])
    BY <1>1 DEF Matrix!WrittenIsOfRows
  <2>2. \A i \in group : i \in DOMAIN rows /\ rows[i].loading = 0
    BY <2>1 DEF Matrix!NothingLoaded, Matrix!Group
  <2>3. /\ \A i \in group : rows[i].first = "model"
        /\ \A i \in group \cap Matrix!Checked(group) : rows[i].last = "own"
    BY <1>1, <2>1, <2>2 DEF Matrix!RowsAreOwn
  <2>4. r.acceptance = IF Matrix!Checked(group) = group THEN last ELSE None
    <3> DEFINE s == r.state
    <3>1. Matrix!Measurement(s).acceptance = Matrix!Acceptance(Matrix!Group(s))
      BY DEF Matrix!Measurement
    <3> QED BY <2>1, <3>1 DEF Matrix!Acceptance
  <2>5. \A i \in group : last[i] = rows[i].last
    OBVIOUS
  <2> HIDE DEF group, last
  <2>6. r.acceptance # None => \A i \in group : r.acceptance[i] = "own"
    BY <2>3, <2>4, <2>5
  <2> QED BY <2>3, <2>6 DEF group
<1> QED BY <1>2 DEF Matrix!WrittenIsOwn

----------------------------------------------------------------------------
\* Files that are read.

LEMMA InitIsReadInv == Reading!Init => Reading!ReadInv
<1> SUFFICES ASSUME Reading!Init PROVE Reading!ReadInv
  OBVIOUS
<1>1. PICK x \in Chunks, y \in Chunks : files = <<[blocks |-> <<x, y>>, time |-> 0]>>
  BY DEF Reading!Init
<1>2. [blocks |-> <<x, y>>, time |-> 0] \in Reading!Files
  BY DEF Reading!Files
<1>3. files \in Seq(Reading!Files) /\ DOMAIN files = {1} /\ files[1].time = 0
  BY <1>1, <1>2
<1>4. path = 1 /\ time = 0 /\ reader.pc = "idle"
  BY DEF Reading!Init, Reading!Idle
<1> QED BY <1>3, <1>4 DEF Reading!ReadInv, Reading!FilesAreTyped, Reading!OpenIsPrefix,
        Reading!ComparedIsWhole, Reading!ReadIsOfOneMoment

LEMMA FilesHold ==
    ASSUME Reading!ReadInv
    PROVE  /\ DOMAIN files = 1 .. Len(files) /\ Len(files) \in Nat /\ path \in 1 .. Len(files)
           /\ \A i \in DOMAIN files :
                 /\ files[i] \in Reading!Files /\ DOMAIN files[i] = {"blocks", "time"}
                 /\ files[i].blocks \in Seq(Chunks) /\ files[i].time \in Nat
                 /\ files[i].time <= time
<1>1. files \in Seq(Reading!Files) /\ path \in DOMAIN files
  BY DEF Reading!ReadInv, Reading!FilesAreTyped
<1>2. ASSUME NEW f \in Reading!Files
      PROVE  DOMAIN f = {"blocks", "time"} /\ f.blocks \in Seq(Chunks) /\ f.time \in Nat
  BY DEF Reading!Files
<1> QED BY <1>1, <1>2 DEF Reading!ReadInv

\* A step of the reader.
LEMMA ReaderKeepsReadInv ==
    ASSUME Reading!ReadInv,
           \/ \E kind \in Reading!Kinds : Reading!Look(kind) \/ Reading!Open(kind)
           \/ Reading!Read \/ Reading!Compare \/ Reading!Return
    PROVE  Reading!ReadInv'
<1>0. /\ UNCHANGED <<files, path, time, changes, blurred>>
      /\ Reading!FilesAreTyped' /\ \A i \in DOMAIN files' : files'[i].time <= time'
  <2>1. UNCHANGED <<files, path, time, changes, blurred>>
    BY DEF Reading!Look, Reading!Open, Reading!Read, Reading!Compare, Reading!Return,
           Reading!NoChange
  <2> QED BY <2>1 DEF Reading!ReadInv, Reading!FilesAreTyped
<1>1. ASSUME NEW kind \in Reading!Kinds, Reading!Look(kind) PROVE Reading!ReadInv'
  <2>1. reader'.pc = "looked" /\ reader'.kind = kind
    BY <1>1 DEF Reading!Look
  <2> QED BY <1>0, <2>1 DEF Reading!ReadInv, Reading!OpenIsPrefix, Reading!ComparedIsWhole,
          Reading!ReadIsOfOneMoment
<1>2. ASSUME NEW kind \in Reading!Kinds, Reading!Open(kind) PROVE Reading!ReadInv'
  <2>1. CASE reader' = Reading!Refused
    BY <1>0, <2>1 DEF Reading!ReadInv, Reading!OpenIsPrefix, Reading!ComparedIsWhole,
       Reading!ReadIsOfOneMoment, Reading!Refused
  <2>2. CASE reader' # Reading!Refused
    <3>1. /\ reader' = [pc |-> "open", kind |-> kind, before |-> Reading!Status(path),
                        got |-> << >>]
          /\ moments' = {files[path].blocks}
      BY <1>2, <2>2 DEF Reading!Open
    <3>2. /\ DOMAIN reader' = {"pc", "kind", "before", "got"} /\ reader'.pc = "open"
          /\ reader'.got = << >> /\ reader'.kind = kind
          /\ reader'.before.inode = path /\ reader'.before.time = files[path].time
      BY <3>1 DEF Reading!Status
    <3>3. reader'.got \in Seq(Chunks) /\ Len(reader'.got) = 0 /\ Len(files[path].blocks) \in Nat
      BY <3>2, FilesHold
    <3>4. Reading!StatusIsOld(reader.before)'
      BY <1>0, <3>2, FilesHold DEF Reading!StatusIsOld
    <3>5. Reading!ReadSoFar'
      BY <1>0, <3>1, <3>2, <3>3 DEF Reading!ReadSoFar
    <3> QED BY <1>0, <3>2, <3>3, <3>4, <3>5 DEF Reading!ReadInv, Reading!OpenIsPrefix,
            Reading!ComparedIsWhole, Reading!ReadIsOfOneMoment
  <2> QED BY <2>1, <2>2
<1>3. CASE Reading!Read
  <2> DEFINE blocks == files[reader.before.inode].blocks
             next == Len(reader.got) + 1
  <2>0. /\ DOMAIN reader = {"pc", "kind", "before", "got"} /\ reader.pc = "open"
        /\ reader.got \in Seq(Chunks) /\ reader.kind \in Reading!Kinds
        /\ Reading!StatusIsOld(reader.before)
        /\ Reading!Since(reader.before) => Reading!ReadSoFar
        /\ moments' = moments
    BY <1>3 DEF Reading!Read, Reading!ReadInv, Reading!OpenIsPrefix
  <2>1. blocks \in Seq(Chunks) /\ DOMAIN blocks = 1 .. Len(blocks) /\ Len(blocks) \in Nat
    BY <2>0, FilesHold DEF Reading!StatusIsOld
  <2>2. CASE reader' = Reading!Refused
    BY <1>0, <2>2 DEF Reading!ReadInv, Reading!OpenIsPrefix, Reading!ComparedIsWhole,
       Reading!ReadIsOfOneMoment, Reading!Refused
  <2>3. CASE next \in DOMAIN blocks /\ reader' = [reader EXCEPT !.got = Append(@, blocks[next])]
    <3>1. /\ DOMAIN reader' = DOMAIN reader /\ reader'.pc = "open" /\ reader'.kind = reader.kind
          /\ reader'.before = reader.before /\ reader'.got = Append(reader.got, blocks[next])
      BY <2>0, <2>3
    <3>2. blocks[next] \in Chunks /\ Len(reader.got) \in Nat
      BY <2>0, <2>1, <2>3
    <3> HIDE DEF blocks, next
    <3>3. /\ reader'.got \in Seq(Chunks) /\ Len(reader'.got) = next
          /\ \A i \in 1 .. Len(reader.got) : reader'.got[i] = reader.got[i]
          /\ reader'.got[next] = blocks[next]
      BY <2>0, <3>1, <3>2, AppendProperties DEF next
    <3>4. ASSUME Reading!ReadSoFar PROVE Reading!ReadSoFar'
      <4>1. \A i \in 1 .. Len(reader'.got) : reader'.got[i] = blocks[i]
        <5>1. ASSUME NEW i \in 1 .. Len(reader'.got) PROVE reader'.got[i] = blocks[i]
          <6>1. i = next \/ i \in 1 .. Len(reader.got)
            BY <3>2, <3>3 DEF next
          <6> QED BY <3>3, <3>4, <6>1 DEF Reading!ReadSoFar, blocks
        <5> QED BY <5>1
      <4>2. Len(reader'.got) <= Len(blocks)
        BY <2>1, <2>3, <3>3
      <4> QED BY <1>0, <2>0, <3>1, <3>4, <4>1, <4>2 DEF Reading!ReadSoFar, blocks
    <3> QED BY <1>0, <2>0, <3>1, <3>3, <3>4 DEF Reading!ReadInv, Reading!OpenIsPrefix,
            Reading!ComparedIsWhole, Reading!ReadIsOfOneMoment, Reading!StatusIsOld,
            Reading!Since
  <2>4. CASE next \notin DOMAIN blocks /\ reader' = [reader EXCEPT !.pc = "read"]
    <3>1. /\ DOMAIN reader' = DOMAIN reader /\ reader'.pc = "read" /\ reader'.kind = reader.kind
          /\ reader'.before = reader.before /\ reader'.got = reader.got
      BY <2>0, <2>4
    <3>2. Len(reader.got) \in Nat /\ (Len(reader.got) <= Len(blocks) => Len(reader.got) = Len(blocks))
      <4>1. Len(reader.got) \in Nat
        BY <2>0
      <4> QED BY <2>1, <2>4, <4>1
    <3>3. ASSUME Reading!ReadSoFar PROVE Reading!ReadSoFar'
      BY <1>0, <2>0, <3>1, <3>2, <3>3 DEF Reading!ReadSoFar
    <3> QED BY <1>0, <2>0, <3>1, <3>3 DEF Reading!ReadInv, Reading!OpenIsPrefix,
            Reading!ComparedIsWhole, Reading!ReadIsOfOneMoment, Reading!StatusIsOld,
            Reading!Since
  <2> QED BY <1>3, <2>2, <2>3, <2>4 DEF Reading!Read
<1>4. CASE Reading!Compare
  <2>1. CASE reader' = Reading!Refused
    BY <1>0, <2>1 DEF Reading!ReadInv, Reading!OpenIsPrefix, Reading!ComparedIsWhole,
       Reading!ReadIsOfOneMoment, Reading!Refused
  <2>2. CASE reader' # Reading!Refused
    <3> DEFINE status == Reading!Status(reader.before.inode)
               inode == reader.before.inode
    <3>1. /\ reader.pc = "read" /\ moments' = moments
          /\ reader' = [pc |-> "compared", kind |-> reader.kind, got |-> reader.got,
                        status |-> status]
          /\ reader.kind.status => status = reader.before
      BY <1>4, <2>2 DEF Reading!Compare, Reading!UnchangedSince
    <3>2. /\ status.inode = inode /\ status.time = files[inode].time
      BY DEF Reading!Status
    <3> HIDE DEF status
    <3>3. /\ reader'.pc = "compared" /\ reader'.kind = reader.kind /\ reader'.got = reader.got
          /\ reader'.status = status
      BY <3>1
    <3>4. /\ reader.got \in Seq(Chunks) /\ reader.kind \in Reading!Kinds
          /\ Reading!StatusIsOld(reader.before)
          /\ Reading!Since(reader.before) => Reading!ReadSoFar
      BY <3>1 DEF Reading!ReadInv, Reading!OpenIsPrefix
    <3>5. files[inode].blocks \in Seq(Chunks) /\ files[inode].time \in Nat /\ inode \in DOMAIN files
      BY <3>4, FilesHold DEF Reading!StatusIsOld
    <3>6. ASSUME reader.kind.status, ~blurred
          PROVE  reader.got = files[inode].blocks /\ reader.got \in moments
      <4>1. Reading!ReadSoFar
        BY <3>1, <3>2, <3>4, <3>6 DEF Reading!Since
      <4>2. /\ Len(reader.got) = Len(files[inode].blocks) /\ files[inode].blocks \in moments
            /\ \A i \in 1 .. Len(reader.got) : reader.got[i] = files[inode].blocks[i]
        BY <3>1, <4>1 DEF Reading!ReadSoFar
      <4> HIDE DEF inode
      <4>3. reader.got = files[inode].blocks
        BY <3>4, <3>5, <4>2, SeqEqual
      <4> QED BY <4>2, <4>3
    <3>7. Reading!ComparedIsWhole'
      <4>1. Reading!StatusIsOld(reader.status)'
        BY <1>0, <3>2, <3>3, <3>5 DEF Reading!StatusIsOld
      <4> QED BY <1>0, <3>1, <3>2, <3>3, <3>6, <4>1 DEF Reading!ComparedIsWhole, Reading!Since
    <3> QED BY <1>0, <3>3, <3>4, <3>7 DEF Reading!ReadInv, Reading!OpenIsPrefix,
            Reading!ReadIsOfOneMoment
  <2> QED BY <2>1, <2>2
<1>5. CASE Reading!Return
  <2>1. CASE reader' = Reading!Refused
    BY <1>0, <2>1 DEF Reading!ReadInv, Reading!OpenIsPrefix, Reading!ComparedIsWhole,
       Reading!ReadIsOfOneMoment, Reading!Refused
  <2>2. CASE reader' # Reading!Refused
    <3>1. /\ reader.pc = "compared" /\ reader'.pc = "returned" /\ moments' = moments
          /\ reader'.kind = reader.kind /\ reader'.got = reader.got
      BY <1>5, <2>2 DEF Reading!Return
    <3> QED BY <1>0, <3>1 DEF Reading!ReadInv, Reading!OpenIsPrefix, Reading!ComparedIsWhole,
            Reading!ReadIsOfOneMoment
  <2> QED BY <2>1, <2>2
<1> QED BY <1>1, <1>2, <1>3, <1>4, <1>5

\* A file that is changed has another time, unless the change is blurred.
LEMMA ChangeKeepsReadInv ==
    ASSUME Reading!ReadInv, NEW blocks \in Seq(Chunks), Reading!Change(path, blocks)
    PROVE  Reading!ReadInv'
<1> DEFINE f == [blocks |-> blocks, time |-> time]
<1>1. /\ files' = [files EXCEPT ![path] = f] /\ UNCHANGED <<path, time, reader>>
      /\ ~blurred' => ~blurred /\ files[path].time # time
      /\ moments' = IF reader.pc \in {"open", "read"} /\ reader.before.inode = path
                    THEN moments \cup {blocks} ELSE moments
  BY DEF Reading!Change
<1>2. time \in Nat /\ f \in Reading!Files /\ f.time = time /\ f.blocks = blocks
  BY DEF Reading!ReadInv, Reading!FilesAreTyped, Reading!Files
<1> HIDE DEF f
<1>3. /\ files' \in Seq(Reading!Files) /\ DOMAIN files' = DOMAIN files /\ path \in DOMAIN files
      /\ files'[path] = f /\ \A i \in DOMAIN files \ {path} : files'[i] = files[i]
  BY <1>1, <1>2, ExceptSeq DEF Reading!ReadInv, Reading!FilesAreTyped
<1>4. Reading!FilesAreTyped' /\ \A i \in DOMAIN files' : files'[i].time <= time'
  BY <1>1, <1>2, <1>3, FilesHold DEF Reading!FilesAreTyped
<1>5. ASSUME NEW status, Reading!StatusIsOld(status)
      PROVE  /\ Reading!StatusIsOld(status)'
             /\ Reading!Since(status)' => Reading!Since(status) /\ files'[status.inode] = files[status.inode]
  <2>1. CASE status.inode = path
    <3>1. files[path].time \in Nat /\ files[path].time <= time
      BY <1>3, FilesHold
    <3>2. files'[path].time = time /\ status.time \in Nat /\ status.time <= files[path].time
      BY <1>2, <1>3, <1>5, <2>1 DEF Reading!StatusIsOld
    <3>3. status.time <= time /\ (files[path].time # time => status.time # time)
      BY <1>2, <3>1, <3>2
    <3> QED BY <1>1, <1>3, <1>5, <2>1, <3>2, <3>3 DEF Reading!StatusIsOld, Reading!Since
  <2>2. CASE status.inode # path
    BY <1>1, <1>3, <1>5, <2>2 DEF Reading!StatusIsOld, Reading!Since
  <2> QED BY <2>1, <2>2
<1>6. \A x \in moments : x \in moments'
  BY <1>1
<1>7. Reading!OpenIsPrefix'
  <2> SUFFICES ASSUME reader.pc \in {"open", "read"}
               PROVE  /\ DOMAIN reader = {"pc", "kind", "before", "got"}
                      /\ reader.got \in Seq(Chunks) /\ reader.kind \in Reading!Kinds
                      /\ Reading!StatusIsOld(reader.before)'
                      /\ Reading!Since(reader.before)' => Reading!ReadSoFar'
    BY <1>1 DEF Reading!OpenIsPrefix
  <2>1. /\ DOMAIN reader = {"pc", "kind", "before", "got"}
        /\ reader.got \in Seq(Chunks) /\ reader.kind \in Reading!Kinds
        /\ Reading!StatusIsOld(reader.before)
        /\ Reading!Since(reader.before) => Reading!ReadSoFar
    BY DEF Reading!ReadInv, Reading!OpenIsPrefix
  <2>2. Reading!StatusIsOld(reader.before)'
    BY <1>1, <1>5, <2>1
  <2>3. ASSUME Reading!Since(reader.before)' PROVE Reading!ReadSoFar'
    <3>1. Reading!Since(reader.before) /\ files'[reader.before.inode] = files[reader.before.inode]
      BY <1>1, <1>5, <2>1, <2>3
    <3> QED BY <1>1, <1>6, <2>1, <3>1 DEF Reading!ReadSoFar
  <2> QED BY <2>1, <2>2, <2>3
<1>8. Reading!ComparedIsWhole'
  <2> SUFFICES ASSUME reader.pc = "compared", reader.kind.status
               PROVE  /\ Reading!StatusIsOld(reader.status)'
                      /\ ~blurred' => reader.got \in moments'
                      /\ Reading!Since(reader.status)' =>
                            reader.got = files'[reader.status.inode].blocks
    BY <1>1 DEF Reading!ComparedIsWhole
  <2>1. /\ Reading!StatusIsOld(reader.status) /\ (~blurred => reader.got \in moments)
        /\ Reading!Since(reader.status) => reader.got = files[reader.status.inode].blocks
    BY DEF Reading!ReadInv, Reading!ComparedIsWhole
  <2> QED BY <1>1, <1>5, <1>6, <2>1
<1>9. Reading!ReadIsOfOneMoment' /\ (reader'.pc \in {"looked", "compared"} => reader'.kind \in Reading!Kinds)
  BY <1>1, <1>6 DEF Reading!ReadInv, Reading!ReadIsOfOneMoment
<1> QED BY <1>4, <1>7, <1>8, <1>9 DEF Reading!ReadInv

\* Another file at the path, and another time.
LEMMA ReplaceKeepsReadInv ==
    ASSUME Reading!ReadInv, Reading!Replace \/ Reading!Tick PROVE Reading!ReadInv'
<1>0. /\ UNCHANGED <<blurred, reader, moments>> /\ time \in Nat /\ time' \in Nat /\ time <= time'
      /\ DOMAIN files = 1 .. Len(files) /\ Len(files) \in Nat
  BY FilesHold DEF Reading!Replace, Reading!Tick, Reading!ReadInv, Reading!FilesAreTyped
<1>1. /\ files' \in Seq(Reading!Files) /\ path' \in DOMAIN files'
      /\ \A i \in DOMAIN files : i \in DOMAIN files' /\ files'[i] = files[i]
      /\ \A i \in DOMAIN files' \ DOMAIN files : files'[i].time = time
  <2>1. CASE Reading!Tick
    BY <2>1 DEF Reading!Tick, Reading!ReadInv, Reading!FilesAreTyped
  <2>2. CASE Reading!Replace
    <3>1. PICK chunk \in Chunks : files' = Append(files, [blocks |-> <<chunk>>, time |-> time])
      BY <2>2 DEF Reading!Replace
    <3> DEFINE f == [blocks |-> <<chunk>>, time |-> time]
    <3>2. f \in Reading!Files /\ f.time = time
      BY <1>0 DEF Reading!Files
    <3>3. files \in Seq(Reading!Files) /\ path' = Len(files) + 1
      BY <2>2 DEF Reading!Replace, Reading!ReadInv, Reading!FilesAreTyped
    <3> HIDE DEF f
    <3>4. /\ files' \in Seq(Reading!Files) /\ Len(files') = Len(files) + 1
          /\ DOMAIN files' = 1 .. (Len(files) + 1)
          /\ \A i \in 1 .. Len(files) : files'[i] = files[i]
          /\ files'[Len(files) + 1] = f
      BY <3>1, <3>2, <3>3, AppendProperties DEF f
    <3> QED BY <1>0, <3>2, <3>3, <3>4
  <2> QED BY <2>1, <2>2
<1>2. Reading!FilesAreTyped'
  BY <1>0, <1>1 DEF Reading!FilesAreTyped
<1>3. ASSUME NEW i \in DOMAIN files' PROVE files'[i].time <= time'
  <2>1. CASE i \in DOMAIN files
    <3>1. files[i].time \in Nat /\ files[i].time <= time
      BY <2>1, FilesHold
    <3> QED BY <1>0, <1>1, <2>1, <3>1
  <2>2. CASE i \notin DOMAIN files
    BY <1>0, <1>1, <2>2
  <2> QED BY <2>1, <2>2
<1>4. \A status : Reading!StatusIsOld(status) =>
         /\ Reading!StatusIsOld(status)' /\ files'[status.inode] = files[status.inode]
         /\ Reading!Since(status)' => Reading!Since(status)
  BY <1>0, <1>1 DEF Reading!StatusIsOld, Reading!Since
<1>5. Reading!OpenIsPrefix'
  BY <1>0, <1>4 DEF Reading!ReadInv, Reading!OpenIsPrefix, Reading!ReadSoFar,
                    Reading!StatusIsOld, Reading!Since
<1>6. Reading!ComparedIsWhole' /\ Reading!ReadIsOfOneMoment'
  BY <1>0, <1>4 DEF Reading!ReadInv, Reading!ComparedIsWhole, Reading!ReadIsOfOneMoment,
                    Reading!StatusIsOld, Reading!Since
<1> QED BY <1>0, <1>2, <1>3, <1>5, <1>6 DEF Reading!ReadInv

(***************************************************************************)
(* Each step, of the reader or of a writer, preserves ReadInv.             *)
(***************************************************************************)
LEMMA StepKeepsReadInv ==
    ASSUME Reading!ReadInv, [Reading!Next]_readVars PROVE Reading!ReadInv'
<1>1. ASSUME Reading!Overwrite \/ Reading!Extend \/ Reading!Truncate
      PROVE  \E blocks \in Seq(Chunks) : Reading!Change(path, blocks)
  <2>0. files[path].blocks \in Seq(Chunks)
    BY FilesHold
  <2>1. CASE Reading!Overwrite
    <3>1. PICK i \in DOMAIN files[path].blocks, chunk \in Chunks :
             Reading!Change(path, [files[path].blocks EXCEPT ![i] = chunk])
      BY <2>1 DEF Reading!Overwrite
    <3>2. [files[path].blocks EXCEPT ![i] = chunk] \in Seq(Chunks)
      BY <2>0, ExceptSeq
    <3> QED BY <3>1, <3>2
  <2>2. CASE Reading!Extend
    <3>1. PICK chunk \in Chunks : Reading!Change(path, Append(files[path].blocks, chunk))
      BY <2>2 DEF Reading!Extend
    <3>2. Append(files[path].blocks, chunk) \in Seq(Chunks)
      BY <2>0, AppendProperties
    <3> QED BY <3>1, <3>2
  <2>3. CASE Reading!Truncate
    <3>1. Reading!Change(path, << >>) /\ << >> \in Seq(Chunks)
      BY <2>3 DEF Reading!Truncate
    <3> QED BY <3>1
  <2> QED BY <1>1, <2>1, <2>2, <2>3
<1>2. CASE UNCHANGED readVars
  BY <1>2 DEF readVars, Reading!ReadInv, Reading!FilesAreTyped, Reading!OpenIsPrefix,
     Reading!ComparedIsWhole, Reading!ReadIsOfOneMoment, Reading!ReadSoFar,
     Reading!StatusIsOld, Reading!Since
<1> QED BY <1>1, <1>2, ReaderKeepsReadInv, ChangeKeepsReadInv, ReplaceKeepsReadInv
        DEF Reading!Next

(***************************************************************************)
(* The reader that looks at the path at the end returns what it names.     *)
(***************************************************************************)
LEMMA StepIsNotReplaced ==
    ASSUME Reading!ReadInv, [Reading!Next]_readVars,
           reader'.pc = "returned", reader.pc = "compared", reader.kind.after
    PROVE  blurred \/ reader'.got = files[path].blocks
<1>1. Reading!Return
  <2>1. reader' # reader
    OBVIOUS
  <2>2. Reading!Next
    BY <2>1 DEF readVars
  <2>3. \A kind : ~Reading!Look(kind) /\ ~Reading!Open(kind)
    BY DEF Reading!Look, Reading!Open, Reading!Idle
  <2>4. ~Reading!Read /\ ~Reading!Compare
    BY DEF Reading!Read, Reading!Compare
  <2>5. ~Reading!Overwrite /\ ~Reading!Extend /\ ~Reading!Truncate /\ ~Reading!Replace
        /\ ~Reading!Tick
    BY <2>1 DEF Reading!Overwrite, Reading!Extend, Reading!Truncate, Reading!Replace,
       Reading!Tick, Reading!Change
  <2> QED BY <2>2, <2>3, <2>4, <2>5 DEF Reading!Next
<1>2. reader'.got = reader.got /\ Reading!Status(path) = reader.status
  BY <1>1 DEF Reading!Return, Reading!StillNamed, Reading!Refused
<1>3. reader.kind.status
  BY DEF Reading!ReadInv, Reading!Kinds, Reading!Artifacts, Reading!Selections,
     Reading!HarborSnapshots, Reading!PriceSnapshots, Reading!DecisionRuns,
     Reading!WattArtifacts, Reading!BenchmarkSources, Reading!UsageReports, Reading!Traces,
     Reading!EventLogs, Reading!Compares
<1>4. reader.status.inode = path /\ reader.status.time = files[path].time
  BY <1>2 DEF Reading!Status
<1> QED BY <1>2, <1>3, <1>4 DEF Reading!ReadInv, Reading!ComparedIsWhole, Reading!Since

----------------------------------------------------------------------------
\* Rows of traces.

LEMMA RowSets == ASSUME NEW S PROVE TraceRow!Cardinality(S) = Cardinality(S)
BY DEF TraceRow!Cardinality, Cardinality, TraceRow!IsFiniteSet, IsFiniteSet

\* What a row is checked as: nothing of it is absent.
LEMMA CanonicalFields ==
    ASSUME NEW r, TraceRow!RowIsPossible(r), NEW c, c = TraceRow!Canonical(r)
    PROVE  /\ c.schema \in {2, 3} /\ (r.schema # 1 => c.schema = r.schema)
           /\ r.schema = 1 => c.schema = 2
           /\ \A f \in TraceRow!Counts : c.at[f] \in Nat \cup {Null}
           /\ \A f \in TraceRow!Fields : c.at[f] # Absent
           /\ \A f \in TraceRow!Fields : r.at[f] # Absent => c.at[f] = r.at[f]
           /\ c.at["unit"] = (IF r.at["unit"] = Absent THEN "request" ELSE r.at["unit"])
           /\ \A f \in TraceRow!Fields \ {"unit"} :
                 r.at[f] = Absent => c.at[f] = Null \/ (r.schema = 1 /\ f \in TraceRow!LegacyMeters /\ c.at[f] = 0)
<1>1. /\ c.schema = (IF r.schema = 1 THEN 2 ELSE r.schema)
      /\ \A f \in TraceRow!Fields : c.at[f] =
            (IF r.at[f] # Absent THEN r.at[f]
             ELSE IF f = "unit" THEN "request"
             ELSE IF r.schema = 1 /\ f \in TraceRow!LegacyMeters THEN 0 ELSE Null)
  BY DEF TraceRow!Canonical, TraceRow!Legacy
<1>2. /\ Absent # Null /\ Absent \notin Nat \cup TraceRow!Units
      /\ "request" \in TraceRow!Units
  BY DraftsPossible DEF TraceRow!DraftsArePossible, TraceRow!Units
<1>3. TraceRow!Counts \subseteq TraceRow!Fields /\ "unit" \in TraceRow!Fields
      /\ "unit" \notin TraceRow!Counts
  BY DEF TraceRow!Counts, TraceRow!Fields, TraceRow!TokenMeters, TraceRow!InputParts,
         TraceRow!CacheWrites, TraceRow!OutputParts
<1>4. /\ c.schema \in {2, 3} /\ (r.schema # 1 => c.schema = r.schema)
      /\ r.schema = 1 => c.schema = 2
  BY <1>1 DEF TraceRow!RowIsPossible
<1>5. \A f \in TraceRow!Counts : c.at[f] \in Nat \cup {Null}
  BY <1>1, <1>3 DEF TraceRow!RowIsPossible
<1>6. \A f \in TraceRow!Fields : c.at[f] # Absent
  BY <1>1, <1>2
<1>7. \A f \in TraceRow!Fields \ {"unit"} : r.at[f] = Absent =>
         c.at[f] = Null \/ (r.schema = 1 /\ f \in TraceRow!LegacyMeters /\ c.at[f] = 0)
  BY <1>1
<1>8. c.at["unit"] = (IF r.at["unit"] = Absent THEN "request" ELSE r.at["unit"])
  BY <1>1, <1>3
<1>9. \A f \in TraceRow!Fields : r.at[f] # Absent => c.at[f] = r.at[f]
  BY <1>1
<1> QED BY <1>4, <1>5, <1>6, <1>7, <1>8, <1>9

\* All of a producer is known, or nothing.
LEMMA ProducersAgree ==
    ASSUME NEW r, \A f \in TraceRow!Fields : r.at[f] # Absent
    PROVE  TraceRow!ProducerIsComplete(r) <=> ~TraceRow!ProducerIsInvalid(r)
<1> DEFINE P == TraceRow!Producer
           S == {f \in TraceRow!Producer : r.at[f] = Null}
<1>1. IsFiniteSet(P)
  <2>1. P = (({} \cup {"adapter"}) \cup {"upstream"}) \cup {"commit"}
    BY DEF TraceRow!Producer
  <2> QED BY <2>1, FS_AddElement, FS_EmptySet
<1>2. S \subseteq P /\ IsFiniteSet(S)
  BY <1>1, FS_Subset
<1>3. /\ Cardinality(S) = 0 <=> S = {}
      /\ Cardinality(S) = Cardinality(P) <=> S = P
  BY <1>1, <1>2, FS_EmptySet, FS_Subset
<1>4. \A f \in P \cup TraceRow!Collector : TraceRow!Known(r, f) <=> r.at[f] # Null
  BY DEF TraceRow!Known, TraceRow!Fields
<1>5. ((\E f \in P : TraceRow!Known(r, f)) => \A f \in P : TraceRow!Known(r, f))
        <=> Cardinality(S) \in {0, Cardinality(P)}
  BY <1>3, <1>4
<1>6. TraceRow!Cardinality(S) = Cardinality(S) /\ TraceRow!Cardinality(P) = Cardinality(P)
  BY RowSets
<1>7. (Cardinality(S) \in {0, Cardinality(P)})
        <=> ~(TraceRow!Cardinality(S) \notin {0, TraceRow!Cardinality(P)})
  BY <1>6
<1>8. /\ (TraceRow!Known(r, "collector") = TraceRow!Known(r, "collectorVersion"))
            <=> ~((r.at["collector"] = Null) # (r.at["collectorVersion"] = Null))
      /\ (TraceRow!Known(r, "collector") => TraceRow!Known(r, "adapter"))
            <=> ~(r.at["collector"] # Null /\ r.at["adapter"] = Null)
  BY DEF TraceRow!Known, TraceRow!Fields, TraceRow!Collector, TraceRow!Producer
<1>9. TraceRow!ProducerIsComplete(r) <=>
         /\ (\E f \in P : TraceRow!Known(r, f)) => \A f \in P : TraceRow!Known(r, f)
         /\ TraceRow!Known(r, "collector") = TraceRow!Known(r, "collectorVersion")
         /\ TraceRow!Known(r, "collector") => TraceRow!Known(r, "adapter")
  BY DEF TraceRow!ProducerIsComplete
<1>10. TraceRow!ProducerIsInvalid(r) <=>
         \/ TraceRow!Cardinality(S) \notin {0, TraceRow!Cardinality(P)}
         \/ (r.at["collector"] = Null) # (r.at["collectorVersion"] = Null)
         \/ r.at["collector"] # Null /\ r.at["adapter"] = Null
  BY DEF TraceRow!ProducerIsInvalid
<1> HIDE DEF P, S
<1> QED BY <1>5, <1>7, <1>8, <1>9, <1>10

(***************************************************************************)
(* The three other checks of a row, as JSON and as Parquet.                *)
(***************************************************************************)
LEMMA ChecksOfPartsAgree ==
    ASSUME NEW c, c.schema \in {2, 3}, \A f \in TraceRow!Counts : c.at[f] \in Nat \cup {Null},
           \A f \in TraceRow!Fields : c.at[f] # Absent
    PROVE  /\ TraceRow!ScopeIsCoherent(c) <=> ~TraceRow!ScopeIsInvalid(c)
           /\ TraceRow!InputIsCoherent(c) <=> ~TraceRow!InputIsInvalid(c)
           /\ TraceRow!OutputIsCoherent(c) <=> ~TraceRow!OutputIsInvalid(c)
<1>0. Null \notin Nat
  BY DraftsPossible DEF TraceRow!DraftsArePossible
<1>1. \A f \in TraceRow!Fields : TraceRow!Known(c, f) <=> c.at[f] # Null
  BY DEF TraceRow!Known
<1>2. /\ TraceRow!TokenMeters \subseteq TraceRow!Counts /\ TraceRow!Counts \subseteq TraceRow!Fields
      /\ "requests" \in TraceRow!Counts /\ "attempts" \in TraceRow!Counts
      /\ "unit" \in TraceRow!Fields /\ "timing" \in TraceRow!Fields
      /\ TraceRow!TokenMeters = {"uncached", "read", "write", "write5m", "write1h", "output",
                                 "reasoning", "total", "outputTotal"}
  BY DEF TraceRow!Counts, TraceRow!Fields, TraceRow!TokenMeters, TraceRow!InputParts,
         TraceRow!CacheWrites, TraceRow!OutputParts
<1>3. TraceRow!ScopeIsCoherent(c) <=> ~TraceRow!ScopeIsInvalid(c)
  <2> DEFINE none == \A f \in TraceRow!TokenMeters : ~TraceRow!Nonzero(c, f)
             unit == c.at["unit"]
  <2>1. TraceRow!ScopeIsCoherent(c) <=>
           /\ c.schema = 2 => unit # "model_call"
           /\ unit = "request" => c.at["requests"] \in {Null, 1}
           /\ unit # "work_unit" => c.at["attempts"] = Null
           /\ unit # "request" => c.at["timing"] = Null
           /\ c.at["requests"] = 0 => none
           /\ c.at["attempts"] = 0 => ~TraceRow!Nonzero(c, "requests") /\ none
    BY <1>1, <1>2 DEF TraceRow!ScopeIsCoherent
  <2>2. TraceRow!ScopeIsInvalid(c) <=>
           \/ c.schema = 2 /\ unit = "model_call"
           \/ unit = "request" /\ c.at["requests"] # Null /\ c.at["requests"] # 1
           \/ unit # "work_unit" /\ c.at["attempts"] # Null
           \/ unit # "request" /\ c.at["timing"] # Null
           \/ c.at["requests"] = 0 /\ ~none
           \/ c.at["attempts"] = 0 /\ (TraceRow!Nonzero(c, "requests") \/ ~none)
    BY <1>0 DEF TraceRow!ScopeIsInvalid, TraceRow!Differs
  <2> HIDE DEF none
  <2> QED BY <2>1, <2>2
<1> DEFINE known(f) == c.at[f] # Null
           amount(f) == IF known(f) THEN c.at[f] ELSE 0
<1>4. \A f \in TraceRow!TokenMeters : amount(f) \in Nat
  BY <1>2
<1>5. \A S : S \subseteq TraceRow!TokenMeters =>
         \A f \in TraceRow!TokenMeters :
            TraceRow!KnownOf(c, S, f) = IF f \in S THEN amount(f) ELSE 0
  BY <1>1, <1>2 DEF TraceRow!KnownOf
<1>6. TraceRow!InputIsCoherent(c) <=> ~TraceRow!InputIsInvalid(c)
  <2> DEFINE all == amount("uncached") + amount("read") + amount("write") + amount("write5m") + amount("write1h")
             single == amount("uncached") + amount("read") + amount("write")
             tiers == amount("uncached") + amount("read") + amount("write5m") + amount("write1h")
  <2>0. /\ TraceRow!InputParts = {"uncached", "read", "write", "write5m", "write1h"}
        /\ TraceRow!InputParts \ {"write"} = {"uncached", "read", "write5m", "write1h"}
        /\ \A f \in TraceRow!InputParts : amount(f) \in Nat
    BY <1>2, <1>4 DEF TraceRow!InputParts, TraceRow!CacheWrites
  <2>1. /\ TraceRow!SumOfKnown(c, TraceRow!InputParts) = all
        /\ TraceRow!SumOfKnown(c, {"uncached", "read", "write"}) = single
        /\ TraceRow!SumOfKnown(c, TraceRow!InputParts \ {"write"}) = tiers
    <3> DEFINE of(S, f) == TraceRow!KnownOf(c, S, f)
               sum(S) == of(S, "uncached") + of(S, "read") + of(S, "write") + of(S, "write5m")
                            + of(S, "write1h") + of(S, "output") + of(S, "reasoning")
    <3>1. \A S : TraceRow!SumOfKnown(c, S) = sum(S)
      BY DEF TraceRow!SumOfKnown
    <3>2. \A S : S \subseteq TraceRow!InputParts =>
             \A f \in TraceRow!TokenMeters : of(S, f) = IF f \in S THEN amount(f) ELSE 0
      BY <1>2, <1>5, <2>0
    <3> HIDE DEF of, amount
    <3>3. sum(TraceRow!InputParts) = all
      BY <1>2, <2>0, <3>2
    <3>4. sum({"uncached", "read", "write"}) = single
      BY <1>2, <2>0, <3>2
    <3>5. sum(TraceRow!InputParts \ {"write"}) = tiers
      BY <1>2, <2>0, <3>2
    <3> QED BY <3>1, <3>3, <3>4, <3>5
  <2>2. all \in Nat /\ single \in Nat /\ tiers \in Nat
    <3> HIDE DEF amount
    <3> QED BY <2>0
  <2>3. /\ c.at["write5m"] = Null /\ c.at["write1h"] = Null => all = single
        /\ c.at["write"] = Null => all = tiers
    <3>1. /\ c.at["write"] = Null => amount("write") = 0
          /\ c.at["write5m"] = Null => amount("write5m") = 0
          /\ c.at["write1h"] = Null => amount("write1h") = 0
      OBVIOUS
    <3> HIDE DEF amount
    <3> QED BY <2>0, <3>1
  <2>4. TraceRow!InputIsCoherent(c) <=>
           /\ known("write") => ~known("write5m") /\ ~known("write1h")
           /\ known("total") => c.at["total"] >= all
           /\ /\ known("total") /\ known("uncached") /\ known("read")
              /\ known("write") \/ (known("write5m") /\ known("write1h"))
              => c.at["total"] = all
    BY <1>1, <1>2, <2>1 DEF TraceRow!InputIsCoherent
  <2>5. TraceRow!InputIsInvalid(c) <=>
           \/ known("write") /\ (known("write5m") \/ known("write1h"))
           \/ known("total") /\ c.at["total"] < all
           \/ /\ known("total") /\ known("uncached") /\ known("read") /\ known("write")
              /\ c.at["total"] # single
           \/ /\ ~known("write") /\ known("total") /\ known("uncached") /\ known("read")
              /\ known("write5m") /\ known("write1h") /\ c.at["total"] # tiers
    BY <1>0, <1>1, <1>2, <2>1, <2>2
       DEF TraceRow!InputIsInvalid, TraceRow!Less, TraceRow!Differs, TraceRow!Sum,
           TraceRow!InputParts, TraceRow!CacheWrites
  <2>6. known("total") => c.at["total"] \in Nat
    BY <1>2
  <2> HIDE DEF all, single, tiers, amount
  <2> QED BY <2>2, <2>3, <2>4, <2>5, <2>6
<1>7. TraceRow!OutputIsCoherent(c) <=> ~TraceRow!OutputIsInvalid(c)
  <2> DEFINE all == amount("output") + amount("reasoning")
  <2>1. TraceRow!SumOfKnown(c, TraceRow!OutputParts) = all /\ all \in Nat
    BY <1>2, <1>4, <1>5 DEF TraceRow!SumOfKnown, TraceRow!OutputParts
  <2>2. TraceRow!OutputIsCoherent(c) <=>
           /\ known("outputTotal") => c.at["outputTotal"] >= all
           /\ known("outputTotal") /\ known("output") /\ known("reasoning")
                 => c.at["outputTotal"] = all
    BY <1>1, <1>2, <2>1 DEF TraceRow!OutputIsCoherent, TraceRow!OutputParts
  <2>3. TraceRow!OutputIsInvalid(c) <=>
           \/ known("outputTotal") /\ c.at["outputTotal"] < all
           \/ /\ known("outputTotal") /\ known("output") /\ known("reasoning")
              /\ c.at["outputTotal"] # all
    BY <1>0, <1>1, <1>2, <2>1
       DEF TraceRow!OutputIsInvalid, TraceRow!Less, TraceRow!Differs, TraceRow!Sum,
           TraceRow!OutputParts
  <2>4. known("outputTotal") => c.at["outputTotal"] \in Nat
    BY <1>2
  <2> HIDE DEF all, amount
  <2> QED BY <2>1, <2>2, <2>3, <2>4
<1> QED BY <1>3, <1>6, <1>7

\* A row is accepted on one way exactly if it is on the other.
LEMMA PossibleChecksAgree ==
    ASSUME TraceRow!RowIsPossible(row) PROVE TraceRow!ChecksAgree
<1> DEFINE c == TraceRow!Canonical(row)
<1>1. /\ c.schema \in {2, 3} /\ \A f \in TraceRow!Counts : c.at[f] \in Nat \cup {Null}
      /\ \A f \in TraceRow!Fields : c.at[f] # Absent
  BY CanonicalFields
<1> HIDE DEF c
<1>2. TraceRow!Coherent(c) <=> ~TraceRow!Refused(c)
  BY <1>1, ProducersAgree, ChecksOfPartsAgree DEF TraceRow!Coherent, TraceRow!Refused
<1>3. TraceRow!AcceptedAsJson(row) <=> TraceRow!AcceptedAsParquet(row)
  BY <1>2 DEF TraceRow!AcceptedAsJson, TraceRow!AcceptedAsParquet, c
<1> QED BY <1>3 DEF TraceRow!ChecksAgree, TraceRow!AcceptedAsJson, TraceRow!AcceptedAsParquet

(***************************************************************************)
(* The published schema is of the same contract, but for the totals.       *)
(***************************************************************************)
LEMMA PossibleSchemaIsOfSameContract ==
    ASSUME TraceRow!RowIsPossible(row) PROVE TraceRow!SchemaIsOfSameContract
<1> SUFFICES ASSUME row.schema # 1
             PROVE  /\ TraceRow!AcceptedAsJson(row) => TraceRow!SchemaAccepts(row)
                    /\ /\ TraceRow!SchemaAccepts(row)
                       /\ ~TraceRow!Known(row, "total") /\ ~TraceRow!Known(row, "outputTotal")
                       => TraceRow!AcceptedAsJson(row)
  BY DEF TraceRow!SchemaIsOfSameContract, TraceRow!Legacy
<1> DEFINE c == TraceRow!Canonical(row)
           unit == TraceRow!UnitOfSchema(row)
           none == \A f \in TraceRow!TokenMeters : ~TraceRow!Nonzero(row, f)
           cnone == \A f \in TraceRow!TokenMeters : ~TraceRow!Nonzero(c, f)
<1>1. /\ c.schema = row.schema /\ row.schema \in {2, 3} /\ c.at["unit"] = unit
      /\ \A f \in TraceRow!Fields \ {"unit"} :
            c.at[f] = IF row.at[f] = Absent THEN Null ELSE row.at[f]
      /\ \A f \in TraceRow!Fields : c.at[f] # Absent
  BY CanonicalFields DEF TraceRow!UnitOfSchema
<1>2. /\ TraceRow!TokenMeters \subseteq TraceRow!Fields
      /\ TraceRow!Collector \subseteq TraceRow!Fields /\ TraceRow!Producer \subseteq TraceRow!Fields
      /\ {"requests", "attempts", "timing", "write", "write5m", "write1h", "total", "outputTotal"} \subseteq TraceRow!Fields
      /\ "unit" \notin TraceRow!TokenMeters \cup TraceRow!Collector \cup TraceRow!Producer
      /\ "collector" \in TraceRow!Collector /\ "collectorVersion" \in TraceRow!Collector
      /\ "adapter" \in TraceRow!Producer
      /\ \A f \in TraceRow!Collector : f \in {"collector", "collectorVersion"}
  BY DEF TraceRow!Fields, TraceRow!TokenMeters, TraceRow!InputParts, TraceRow!CacheWrites,
         TraceRow!OutputParts, TraceRow!Collector, TraceRow!Producer
<1>3. unit \in TraceRow!Units \cup {Null} /\ Null \notin TraceRow!Units /\ Absent # Null
      /\ (unit = Null <=> row.at["unit"] = Null) /\ Null \notin Nat /\ Absent \notin Nat
  BY DraftsPossible DEF TraceRow!DraftsArePossible, TraceRow!RowIsPossible, TraceRow!UnitOfSchema,
     TraceRow!Units
<1> HIDE DEF c, unit
<1>4. \A f \in TraceRow!Fields \ {"unit"} :
         /\ TraceRow!Known(c, f) <=> TraceRow!Known(row, f)
         /\ TraceRow!Known(c, f) => c.at[f] = row.at[f]
         /\ TraceRow!Nonzero(c, f) <=> TraceRow!Nonzero(row, f)
  BY <1>1, <1>3 DEF TraceRow!Known, TraceRow!Nonzero
<1>5. none <=> cnone
  BY <1>2, <1>4
<1>6. /\ c.at["requests"] = 0 <=> row.at["requests"] = 0
      /\ c.at["attempts"] = 0 <=> row.at["attempts"] = 0
      /\ c.at["requests"] \in {Null, 1} <=> row.at["requests"] \in {Absent, Null, 1}
  BY <1>1, <1>2, <1>3
<1>7. TraceRow!ScopeIsCoherent(c) <=>
         /\ row.schema = 2 => unit # "model_call"
         /\ unit = "request" => row.at["requests"] \in {Absent, Null, 1}
         /\ unit # "work_unit" => ~TraceRow!Known(row, "attempts")
         /\ unit # "request" => ~TraceRow!Known(row, "timing")
         /\ row.at["requests"] = 0 => none
         /\ row.at["attempts"] = 0 => ~TraceRow!Nonzero(row, "requests") /\ none
  BY <1>1, <1>2, <1>4, <1>5, <1>6 DEF TraceRow!ScopeIsCoherent
<1>8. TraceRow!ScopeFitsSchema(row) <=>
         /\ unit \in {"request", "attempt", "work_unit"} \/ (row.schema = 3 /\ unit = "model_call")
         /\ unit = "request" =>
               ~TraceRow!Known(row, "attempts") /\ row.at["requests"] \in {Absent, Null, 1}
         /\ unit \in {"attempt", "model_call"} => ~TraceRow!Known(row, "attempts")
         /\ unit \in {"attempt", "model_call", "work_unit"} => ~TraceRow!Known(row, "timing")
         /\ row.at["requests"] = 0 => none
         /\ row.at["attempts"] = 0 => ~TraceRow!Nonzero(row, "requests") /\ none
  BY DEF TraceRow!ScopeFitsSchema, unit
<1> HIDE DEF none, cnone
<1>9. (unit # Null /\ TraceRow!ScopeIsCoherent(c)) <=> TraceRow!ScopeFitsSchema(row)
  BY <1>1, <1>3, <1>7, <1>8 DEF TraceRow!Units
<1>10. TraceRow!ProducerIsComplete(c) <=>
         /\ (\E f \in TraceRow!Producer : TraceRow!Known(row, f))
                => \A f \in TraceRow!Producer : TraceRow!Known(row, f)
         /\ (\E f \in TraceRow!Collector : TraceRow!Known(row, f))
                => \A f \in TraceRow!Collector \cup TraceRow!Producer : TraceRow!Known(row, f)
  <2> DEFINE K(f) == TraceRow!Known(row, f)
  <2>1. TraceRow!ProducerIsComplete(c) <=>
         /\ (\E f \in TraceRow!Producer : K(f)) => \A f \in TraceRow!Producer : K(f)
         /\ K("collector") <=> K("collectorVersion")
         /\ K("collector") => K("adapter")
    <3>1. (TraceRow!Known(c, "collector") = TraceRow!Known(c, "collectorVersion"))
             <=> (K("collector") <=> K("collectorVersion"))
      BY <1>2, <1>4 DEF TraceRow!Known
    <3>2. (TraceRow!Known(c, "collector") => TraceRow!Known(c, "adapter"))
             <=> (K("collector") => K("adapter"))
      BY <1>2, <1>4
    <3>3. \A f \in TraceRow!Producer : TraceRow!Known(c, f) <=> K(f)
      BY <1>2, <1>4
    <3> HIDE DEF K
    <3> QED BY <3>1, <3>2, <3>3 DEF TraceRow!ProducerIsComplete
  <2> HIDE DEF K
  <2>2. (\E f \in TraceRow!Collector : K(f)) <=> (K("collector") \/ K("collectorVersion"))
    BY <1>2
  <2>3. (\A f \in TraceRow!Collector \cup TraceRow!Producer : K(f))
           <=> (K("collector") /\ K("collectorVersion") /\ \A f \in TraceRow!Producer : K(f))
    BY <1>2
  <2>4. (\A f \in TraceRow!Producer : K(f)) => K("adapter")
    BY <1>2
  <2>5. K("adapter") => \E f \in TraceRow!Producer : K(f)
    BY <1>2
  <2>6. TraceRow!ProducerIsComplete(c) <=>
         /\ (\E f \in TraceRow!Producer : K(f)) => \A f \in TraceRow!Producer : K(f)
         /\ (\E f \in TraceRow!Collector : K(f))
                => \A f \in TraceRow!Collector \cup TraceRow!Producer : K(f)
    BY <2>1, <2>2, <2>3, <2>4, <2>5
  <2> QED BY <2>6 DEF K
<1>11. TraceRow!SchemaAccepts(row) <=>
         /\ unit # Null /\ TraceRow!ScopeIsCoherent(c) /\ TraceRow!ProducerIsComplete(c)
         /\ TraceRow!Known(row, "write") => ~TraceRow!Known(row, "write5m") /\ ~TraceRow!Known(row, "write1h")
  BY <1>9, <1>10 DEF TraceRow!SchemaAccepts
<1>12. TraceRow!AcceptedAsJson(row) <=> unit # Null /\ TraceRow!Coherent(c)
  BY <1>3 DEF TraceRow!AcceptedAsJson, TraceRow!Readable, TraceRow!Legacy, c
<1>13. TraceRow!InputIsCoherent(c) =>
         (TraceRow!Known(row, "write") => ~TraceRow!Known(row, "write5m") /\ ~TraceRow!Known(row, "write1h"))
  BY <1>2, <1>4 DEF TraceRow!InputIsCoherent
<1>14. /\ TraceRow!Known(row, "write") => ~TraceRow!Known(row, "write5m") /\ ~TraceRow!Known(row, "write1h")
       /\ ~TraceRow!Known(row, "total") /\ ~TraceRow!Known(row, "outputTotal")
       => TraceRow!InputIsCoherent(c) /\ TraceRow!OutputIsCoherent(c)
  BY <1>2, <1>4 DEF TraceRow!InputIsCoherent, TraceRow!OutputIsCoherent
<1> QED BY <1>11, <1>12, <1>13, <1>14 DEF TraceRow!Coherent

LEMMA InitIsPossibleRow == TraceRow!Init => TraceRow!RowIsPossible(row)
BY DraftsPossible DEF TraceRow!Init, TraceRow!DraftsArePossible

\* A field that is left out, and nothing else, is another.
LEMMA LeftOutFields ==
    ASSUME TraceRow!RowIsPossible(row),
           NEW f \in TraceRow!TokenMeters \cup {"requests", "attempts", "timing"},
           TraceRow!LeaveOut(f)
    PROVE  /\ TraceRow!RowIsPossible(row)' /\ row'.schema = row.schema
           /\ row'.at[f] = Absent /\ row.at[f] # Absent
           /\ \A g \in TraceRow!Fields \ {f} : row'.at[g] = row.at[g]
<1>1. /\ row' = [row EXCEPT !.at[f] = Absent] /\ row.at[f] # Absent
      /\ DOMAIN row = {"schema", "at"} /\ TraceRow!Fields = DOMAIN row.at
  BY DEF TraceRow!LeaveOut, TraceRow!RowIsPossible
<1>2. f \in TraceRow!Fields /\ f # "unit" /\ TraceRow!Counts \subseteq TraceRow!Fields
      /\ "unit" \in TraceRow!Fields
  BY DEF TraceRow!Fields, TraceRow!TokenMeters, TraceRow!InputParts, TraceRow!CacheWrites,
         TraceRow!OutputParts, TraceRow!Counts
<1>3. /\ DOMAIN row' = {"schema", "at"} /\ row'.schema = row.schema
      /\ row'.at = [row.at EXCEPT ![f] = Absent]
  BY <1>1
<1>4. /\ DOMAIN row'.at = TraceRow!Fields /\ row'.at[f] = Absent
      /\ \A g \in TraceRow!Fields \ {f} : row'.at[g] = row.at[g]
  BY <1>1, <1>2, <1>3
<1>5. TraceRow!RowIsPossible(row)'
  BY <1>2, <1>3, <1>4 DEF TraceRow!RowIsPossible
<1> QED BY <1>1, <1>3, <1>4, <1>5

LEMMA StepKeepsPossibleRow ==
    TraceRow!RowIsPossible(row) /\ [TraceRow!Next]_row => TraceRow!RowIsPossible(row)'
BY LeftOutFields DEF TraceRow!Next, TraceRow!RowIsPossible

(***************************************************************************)
(* A row that is accepted stays accepted.                                  *)
(***************************************************************************)
LEMMA LeavingOutIsFine ==
    ASSUME TraceRow!RowIsPossible(row),
           NEW f \in TraceRow!TokenMeters \cup {"requests", "attempts", "timing"},
           TraceRow!LeaveOut(f), TraceRow!AcceptedAsJson(row)
    PROVE  TraceRow!AcceptedAsJson(row')
<1> DEFINE c == TraceRow!Canonical(row)
           d == TraceRow!Canonical(row')
<1>1. /\ TraceRow!RowIsPossible(row)' /\ row'.schema = row.schema
      /\ row'.at[f] = Absent /\ row.at[f] # Absent
      /\ \A g \in TraceRow!Fields \ {f} : row'.at[g] = row.at[g]
  BY LeftOutFields
<1>2. /\ TraceRow!TokenMeters = {"uncached", "read", "write", "write5m", "write1h", "output",
                                 "reasoning", "total", "outputTotal"}
      /\ TraceRow!InputParts = {"uncached", "read", "write", "write5m", "write1h"}
      /\ TraceRow!OutputParts = {"output", "reasoning"}
      /\ TraceRow!LegacyMeters = {"uncached", "read", "write5m", "write1h", "output", "reasoning"}
      /\ TraceRow!Counts = TraceRow!TokenMeters \cup {"requests", "attempts"}
      /\ TraceRow!Counts \cup {"unit", "timing"} \subseteq TraceRow!Fields
      /\ TraceRow!Producer \cup TraceRow!Collector \subseteq TraceRow!Fields
      /\ {"unit", "adapter", "collector", "collectorVersion"} \subseteq TraceRow!Fields
      /\ f \notin TraceRow!Producer \cup TraceRow!Collector \cup {"unit"}
      /\ "adapter" \in TraceRow!Producer /\ f \in TraceRow!Fields
      /\ "collector" \in TraceRow!Collector /\ "collectorVersion" \in TraceRow!Collector
  BY DEF TraceRow!Fields, TraceRow!TokenMeters, TraceRow!InputParts, TraceRow!CacheWrites,
         TraceRow!OutputParts, TraceRow!Counts, TraceRow!LegacyMeters, TraceRow!Producer,
         TraceRow!Collector
<1>3. Null \notin Nat /\ Absent # Null /\ Absent \notin Nat
  BY DraftsPossible DEF TraceRow!DraftsArePossible
<1>4. /\ \A g \in TraceRow!Counts : c.at[g] \in Nat \cup {Null} /\ d.at[g] \in Nat \cup {Null}
      /\ \A g \in TraceRow!Fields : c.at[g] # Absent /\ d.at[g] # Absent
      /\ d.schema = c.schema /\ c.at[f] = row.at[f]
      /\ d.at[f] = Null \/ (row.schema = 1 /\ f \in TraceRow!LegacyMeters /\ d.at[f] = 0)
      /\ row.schema = 1 => c.schema = 2
  <2>1. TraceRow!RowIsPossible(row')
    BY <1>1 DEF TraceRow!RowIsPossible
  <2> QED BY <1>1, <1>2, <2>1, CanonicalFields
<1>5. \A g \in TraceRow!Fields \ {f} : d.at[g] = c.at[g]
  BY <1>1 DEF TraceRow!Canonical
<1>6. TraceRow!Readable(row) /\ TraceRow!Coherent(c)
  BY DEF TraceRow!AcceptedAsJson
<1>7. TraceRow!Readable(row')
  BY <1>1, <1>2, <1>3, <1>6 DEF TraceRow!Readable
<1>8. row.schema = 1 => c.at["total"] = Null /\ c.at["outputTotal"] = Null /\ c.at["write"] = Null
  <2> SUFFICES ASSUME row.schema = 1
               PROVE  \A g \in {"total", "outputTotal", "write"} : c.at[g] = Null
    OBVIOUS
  <2>1. \A g \in {"total", "outputTotal", "write"} : g \in TraceRow!Fields \ TraceRow!LegacyColumns
    BY <1>2 DEF TraceRow!LegacyColumns
  <2>2. \A g \in {"total", "outputTotal", "write"} : row.at[g] = Absent
    BY <1>6, <2>1 DEF TraceRow!Readable, TraceRow!Legacy
  <2> QED BY <1>2, <2>1, <2>2 DEF TraceRow!Canonical
<1> HIDE DEF c, d
<1> DEFINE amount(r, g) == IF r.at[g] # Null THEN r.at[g] ELSE 0
<1>9. \A g \in TraceRow!Fields :
         /\ TraceRow!Known(c, g) <=> c.at[g] # Null
         /\ TraceRow!Known(d, g) <=> d.at[g] # Null
         /\ TraceRow!Known(d, g) => TraceRow!Known(c, g)
  <2>1. row.schema = 1 /\ f \in TraceRow!LegacyMeters => c.at[f] # Null
    BY <1>4, <1>6 DEF TraceRow!Readable, TraceRow!Legacy
  <2> QED BY <1>3, <1>4, <1>5, <2>1 DEF TraceRow!Known
<1>10. \A g \in TraceRow!Counts : TraceRow!Nonzero(d, g) => TraceRow!Nonzero(c, g)
  BY <1>2, <1>3, <1>4, <1>5, <1>9 DEF TraceRow!Nonzero
<1>11. /\ \A g \in TraceRow!TokenMeters :
             amount(c, g) \in Nat /\ amount(d, g) \in Nat /\ amount(d, g) <= amount(c, g)
       /\ \A g \in TraceRow!TokenMeters \ {f} : amount(d, g) = amount(c, g)
  BY <1>2, <1>3, <1>4, <1>5
<1>12. TraceRow!ScopeIsCoherent(d)
  <2>1. /\ c.at["requests"] \in {Null, 1} => d.at["requests"] \in {Null, 1}
        /\ d.at["requests"] = 0 => c.at["requests"] = 0
        /\ d.at["attempts"] = 0 => c.at["attempts"] = 0
        /\ d.at["unit"] = c.at["unit"]
    BY <1>2, <1>3, <1>4, <1>5
  <2> QED BY <1>2, <1>4, <1>6, <1>9, <1>10, <2>1 DEF TraceRow!Coherent, TraceRow!ScopeIsCoherent
<1>13. TraceRow!ProducerIsComplete(d)
  BY <1>2, <1>5, <1>6 DEF TraceRow!Coherent, TraceRow!ProducerIsComplete, TraceRow!Known
<1>14. \A r, S : S \subseteq TraceRow!TokenMeters /\ r \in {c, d} =>
          \A g \in TraceRow!TokenMeters : TraceRow!KnownOf(r, S, g) = IF g \in S THEN amount(r, g) ELSE 0
  BY <1>2, <1>9 DEF TraceRow!KnownOf
<1> DEFINE in(r) == amount(r, "uncached") + amount(r, "read") + amount(r, "write") + amount(r, "write5m")
                      + amount(r, "write1h")
           out(r) == amount(r, "output") + amount(r, "reasoning")
<1>15. ASSUME NEW r \in {c, d}
       PROVE  /\ TraceRow!SumOfKnown(r, TraceRow!InputParts) = in(r)
              /\ TraceRow!SumOfKnown(r, TraceRow!OutputParts) = out(r)
  <2> DEFINE of(S, g) == TraceRow!KnownOf(r, S, g)
             sum(S) == of(S, "uncached") + of(S, "read") + of(S, "write") + of(S, "write5m")
                          + of(S, "write1h") + of(S, "output") + of(S, "reasoning")
  <2>1. \A S : TraceRow!SumOfKnown(r, S) = sum(S)
    BY DEF TraceRow!SumOfKnown
  <2>2. \A S : S \subseteq TraceRow!TokenMeters =>
           \A g \in TraceRow!TokenMeters : of(S, g) = IF g \in S THEN amount(r, g) ELSE 0
    BY <1>14, <1>15
  <2>3. \A g \in TraceRow!TokenMeters : amount(r, g) \in Nat
    BY <1>11, <1>15
  <2> HIDE DEF of, amount
  <2>4. sum(TraceRow!InputParts) = in(r)
    BY <1>2, <2>2, <2>3
  <2>5. sum(TraceRow!OutputParts) = out(r)
    BY <1>2, <2>2, <2>3
  <2> QED BY <2>1, <2>4, <2>5
<1> HIDE DEF amount
<1>16. /\ in(c) \in Nat /\ in(d) \in Nat /\ in(d) <= in(c)
       /\ out(c) \in Nat /\ out(d) \in Nat /\ out(d) <= out(c)
       /\ f \notin TraceRow!InputParts => in(d) = in(c)
       /\ f \notin TraceRow!OutputParts => out(d) = out(c)
       /\ d.at[f] = c.at[f] => in(d) = in(c) /\ out(d) = out(c)
  <2>1. d.at[f] = c.at[f] => amount(d, f) = amount(c, f)
    BY DEF amount
  <2> QED BY <1>2, <1>11, <2>1
<1> HIDE DEF in, out
<1>17. \A g \in TraceRow!Fields : TraceRow!Known(d, g) /\ g = f =>
          row.schema = 1 /\ g \notin {"total", "outputTotal", "write"}
  BY <1>2, <1>4, <1>9
<1>18. TraceRow!InputIsCoherent(d)
  <2> DEFINE K(g) == TraceRow!Known(d, g)
             C(g) == TraceRow!Known(c, g)
  <2>1. /\ C("write") => ~C("write5m") /\ ~C("write1h")
        /\ C("total") => c.at["total"] >= in(c)
        /\ /\ C("total") /\ C("uncached") /\ C("read")
           /\ C("write") \/ (C("write5m") /\ C("write1h"))
           => c.at["total"] = in(c)
    BY <1>6, <1>15 DEF TraceRow!Coherent, TraceRow!InputIsCoherent
  <2>2. K("total") => C("total") /\ d.at["total"] = c.at["total"] /\ c.at["total"] \in Nat /\ row.schema # 1
    BY <1>2, <1>4, <1>5, <1>8, <1>9, <1>17
  <2>3. \A g \in TraceRow!Fields : K(g) => C(g)
    BY <1>9
  <2>4. ASSUME K("total"), K("uncached"), K("read"), K("write") \/ (K("write5m") /\ K("write1h"))
        PROVE  in(d) = in(c)
    <3>1. f \notin {"total", "uncached", "read"}
      BY <1>2, <1>17, <2>2, <2>4
    <3>2. f \in TraceRow!InputParts => d.at[f] = Null /\ c.at[f] = Null
      BY <1>2, <1>4, <1>9, <1>17, <2>1, <2>2, <2>3, <2>4, <3>1
    <3> QED BY <1>16, <3>2
  <2>5. TraceRow!InputIsCoherent(d) <=>
           /\ K("write") => ~K("write5m") /\ ~K("write1h")
           /\ K("total") => d.at["total"] >= in(d)
           /\ /\ K("total") /\ K("uncached") /\ K("read")
              /\ K("write") \/ (K("write5m") /\ K("write1h"))
              => d.at["total"] = in(d)
    BY <1>15 DEF TraceRow!InputIsCoherent
  <2>6. {"write", "write5m", "write1h", "total", "uncached", "read"} \subseteq TraceRow!Fields
    BY <1>2
  <2> HIDE DEF K, C
  <2> QED BY <1>16, <2>1, <2>2, <2>3, <2>4, <2>5, <2>6
<1>19. TraceRow!OutputIsCoherent(d)
  <2> DEFINE K(g) == TraceRow!Known(d, g)
             C(g) == TraceRow!Known(c, g)
  <2>1. /\ C("outputTotal") => c.at["outputTotal"] >= out(c)
        /\ C("outputTotal") /\ C("output") /\ C("reasoning") => c.at["outputTotal"] = out(c)
    BY <1>2, <1>6, <1>15 DEF TraceRow!Coherent, TraceRow!OutputIsCoherent
  <2>2. K("outputTotal") => /\ C("outputTotal") /\ d.at["outputTotal"] = c.at["outputTotal"]
                            /\ c.at["outputTotal"] \in Nat /\ row.schema # 1
    BY <1>2, <1>4, <1>5, <1>8, <1>9, <1>17
  <2>3. K("output") => C("output")
    BY <1>2, <1>9
  <2>4. K("reasoning") => C("reasoning")
    BY <1>2, <1>9
  <2>5. K("outputTotal") /\ K("output") /\ K("reasoning") => f \notin TraceRow!OutputParts
    BY <1>2, <1>17, <2>2
  <2>6. TraceRow!OutputIsCoherent(d) <=>
           /\ K("outputTotal") => d.at["outputTotal"] >= out(d)
           /\ K("outputTotal") /\ K("output") /\ K("reasoning") => d.at["outputTotal"] = out(d)
    BY <1>2, <1>15 DEF TraceRow!OutputIsCoherent
  <2> HIDE DEF K, C
  <2> QED BY <1>16, <2>1, <2>2, <2>3, <2>4, <2>5, <2>6
<1> QED BY <1>7, <1>12, <1>13, <1>18, <1>19 DEF TraceRow!AcceptedAsJson, TraceRow!Coherent, d

----------------------------------------------------------------------------
\* Leaderboards that are imported again and again.

LEMMA InitIsHarborInv == Harbor!Init => Harbor!HarborInv
BY BoardsPossible DEF Harbor!Init, Harbor!HarborInv, Harbor!BoardsArePossible

\* What becomes of a list of rows when one is left out.
LEMMA ListWithout ==
    ASSUME NEW S, NEW list \in Seq(S), NEW i \in DOMAIN list
    PROVE  Harbor!RemoveAt(list, i) \in Seq(S)
<1>1. DOMAIN list = 1 .. Len(list) /\ Len(list) \in Nat /\ i \in Int
      /\ \A j \in 1 .. Len(list) : list[j] \in S
  OBVIOUS
<1>2. SubSeq(list, 1, i - 1) \in Seq(S)
  BY <1>1, SubSeqProperties
<1>3. SubSeq(list, i + 1, Len(list)) \in Seq(S)
  BY <1>1, SubSeqProperties
<1>4. SubSeq(list, 1, i - 1) \o SubSeq(list, i + 1, Len(list)) \in Seq(S)
  BY <1>2, <1>3, ConcatProperties
<1> QED BY <1>4 DEF Harbor!RemoveAt

LEMMA StepKeepsHarborInv == Harbor!HarborInv /\ [Harbor!Next]_boardVars => Harbor!HarborInv'
<1> SUFFICES ASSUME Harbor!HarborInv, [Harbor!Next]_boardVars PROVE Harbor!HarborInv'
  OBVIOUS
<1> DEFINE Row == Harbor!Row
<1>0. /\ DOMAIN board = {"dataset", "schema", "rows"} /\ board.rows \in Seq(Row)
      /\ \A id \in DOMAIN reviewed : reviewed[id].raw = NoEntry
      /\ DOMAIN board.rows = 1 .. Len(board.rows)
  BY DEF Harbor!HarborInv
<1>1. ASSUME NEW list \in Seq(Row), board' = [board EXCEPT !.rows = list], reviewed' = reviewed
      PROVE  Harbor!HarborInv'
  BY <1>0, <1>1 DEF Harbor!HarborInv
<1>2. ASSUME NEW id \in Ids, NEW c \in Claims, Harbor!Review(id, c[1], c[2]) PROVE Harbor!HarborInv'
  BY <1>0, <1>2 DEF Harbor!Review, Harbor!HarborInv
<1>3. ASSUME NEW id \in Ids, NEW system \in Systems, NEW score \in Scores,
             Harbor!AddRow(id, system, score)
      PROVE  Harbor!HarborInv'
  <2> DEFINE r == [id |-> id, system |-> system, score |-> score]
  <2>1. r \in Row
    BY DEF Harbor!Row
  <2>2. Append(board.rows, r) \in Seq(Row)
    BY <1>0, <2>1
  <2> QED BY <1>1, <1>3, <2>2 DEF Harbor!AddRow, Harbor!Upstream
<1>4. ASSUME NEW i \in DOMAIN board.rows, Harbor!Withdraw(i) PROVE Harbor!HarborInv'
  <2>1. Harbor!RemoveAt(board.rows, i) \in Seq(Row)
    BY <1>0, ListWithout
  <2> QED BY <1>1, <1>4, <2>1 DEF Harbor!Withdraw, Harbor!Upstream
<1>5. ASSUME NEW i \in DOMAIN board.rows, NEW r \in Row, 
             board' = [board EXCEPT !.rows = [board.rows EXCEPT ![i] = r]], reviewed' = reviewed
      PROVE  Harbor!HarborInv'
  <2>1. [board.rows EXCEPT ![i] = r] \in Seq(Row)
    BY <1>0, ExceptSeq
  <2> QED BY <1>1, <1>5, <2>1
<1>6. ASSUME NEW i \in DOMAIN board.rows, NEW score \in Scores, Harbor!Score(i, score)
      PROVE  Harbor!HarborInv'
  <2>1. board.rows[i] \in Row
    BY <1>0
  <2>2. \A r \in Row : [r EXCEPT !.score = score] \in Row
    BY DEF Harbor!Row
  <2> HIDE DEF Row
  <2>3. board' = [board EXCEPT !.rows = [board.rows EXCEPT ![i] = [board.rows[i] EXCEPT !.score = score]]]
    BY <1>0, <1>6 DEF Harbor!Score
  <2> QED BY <1>5, <1>6, <2>1, <2>2, <2>3 DEF Harbor!Score, Harbor!Upstream
<1>7. ASSUME NEW i \in DOMAIN board.rows, NEW system \in Systems, Harbor!HandOver(i, system)
      PROVE  Harbor!HarborInv'
  <2>1. board.rows[i] \in Row
    BY <1>0
  <2>2. \A r \in Row : [r EXCEPT !.system = system] \in Row
    BY DEF Harbor!Row
  <2> HIDE DEF Row
  <2>3. board' = [board EXCEPT !.rows = [board.rows EXCEPT ![i] = [board.rows[i] EXCEPT !.system = system]]]
    BY <1>0, <1>7 DEF Harbor!HandOver
  <2> QED BY <1>5, <1>7, <2>1, <2>2, <2>3 DEF Harbor!HandOver, Harbor!Upstream
<1>8. ASSUME NEW version \in Versions, Harbor!Redefine(version) PROVE Harbor!HarborInv'
  BY <1>0, <1>8 DEF Harbor!Redefine, Harbor!Upstream, Harbor!HarborInv
<1>9. CASE UNCHANGED boardVars
  BY <1>9 DEF boardVars, Harbor!HarborInv
<1> QED BY <1>2, <1>3, <1>4, <1>6, <1>7, <1>8, <1>9 DEF Harbor!Next

\* What is mapped is of a row of the board.
LEMMA MappedIsOfRow ==
    ASSUME Harbor!HarborInv, Harbor!Imported(TRUE) # Harbor!Refused,
           NEW id \in DOMAIN Harbor!Imported(TRUE).mapped
    PROVE  LET list == Harbor!RowOf(board, id)
           IN  /\ Harbor!Readable(board) /\ list.id = id /\ list \in Harbor!Row
               /\ \E i \in DOMAIN board.rows : list = board.rows[i]
               /\ id \in DOMAIN reviewed /\ reviewed[id].source = Harbor!Source(board)
               /\ reviewed[id].subject = Harbor!Subject(list)
               /\ Harbor!Result(list.score) # Invalid
               /\ Harbor!Imported(TRUE).mapped[id].result
                    = Harbor!Quality!QualityOnly(Harbor!Result(list.score))
<1> DEFINE e == Harbor!Evidence(board)
           report == Harbor!Quality!Reconcile(e, reviewed, "internal")
           list == Harbor!RowOf(board, id)
           ids == {board.rows[i].id : i \in DOMAIN board.rows}
<1>1. Harbor!Imported(TRUE).mapped = report.mapped /\ Harbor!Readable(board)
  BY DEF Harbor!Imported, Harbor!Import
<1>2. /\ e.source = Harbor!Source(board)
      /\ e.rows = [k \in ids |-> [subject |-> Harbor!Subject(Harbor!RowOf(board, k)),
                                  result |-> Harbor!Result(Harbor!RowOf(board, k).score)]]
  BY DEF Harbor!Evidence
<1>3. id \in DOMAIN report.mapped
  BY <1>1
<1> HIDE DEF e
<1>4. /\ id \in DOMAIN e.rows /\ id \in DOMAIN reviewed
      /\ reviewed[id].source = e.source /\ reviewed[id].subject = e.rows[id].subject
      /\ e.rows[id].result # Invalid
      /\ e.rows[id].subject.route = "unknown" => reviewed[id].relationship = "projection"
  BY <1>3, MappedWasReviewed
<1>5. id \in ids /\ e.rows[id].subject = Harbor!Subject(list) /\ e.rows[id].result = Harbor!Result(list.score)
  BY <1>2, <1>4
<1>6. \E i \in DOMAIN board.rows : board.rows[i].id = id
  BY <1>5
<1>7. \E i \in DOMAIN board.rows : list = board.rows[i] /\ board.rows[i].id = id
  BY <1>6 DEF Harbor!RowOf
<1>8. list \in Harbor!Row /\ list.id = id
  BY <1>7 DEF Harbor!HarborInv
<1>9. reviewed[id].relationship = "projection"
  BY <1>4, <1>5 DEF Harbor!Subject
<1>10. report.mapped[id] = Harbor!Quality!MappedRow(e, reviewed, id)
  BY <1>3 DEF Harbor!Quality!Reconcile
<1>11. report.mapped[id].result = Harbor!Quality!QualityOnly(e.rows[id].result)
  BY <1>9, <1>10 DEF Harbor!Quality!MappedRow
<1> HIDE DEF report, list
<1>12. /\ reviewed[id].source = Harbor!Source(board) /\ reviewed[id].subject = Harbor!Subject(list)
  BY <1>2, <1>4, <1>5
<1>13. Harbor!Result(list.score) # Invalid
  BY <1>4, <1>5
<1>14. Harbor!Imported(TRUE).mapped[id].result = Harbor!Quality!QualityOnly(Harbor!Result(list.score))
  BY <1>1, <1>5, <1>11
<1>15. \E i \in DOMAIN board.rows : list = board.rows[i]
  BY <1>7 DEF list
<1>16. list \in Harbor!Row /\ list.id = id
  BY <1>8 DEF list
<1> QED BY <1>1, <1>4, <1>12, <1>13, <1>14, <1>15, <1>16 DEF list

LEMMA HarborInvIsReviewed == ASSUME Harbor!HarborInv PROVE Harbor!ImportedAsReviewed
<1> SUFFICES ASSUME Harbor!Imported(TRUE) # Harbor!Refused,
                    NEW id \in DOMAIN Harbor!Imported(TRUE).mapped
             PROVE  /\ reviewed[id].source = <<board.dataset, board.schema>>
                    /\ reviewed[id].subject.system = Harbor!RowOf(board, id).system
                    /\ DOMAIN Harbor!Imported(TRUE).mapped[id].result = {"quality"}
  BY DEF Harbor!ImportedAsReviewed
<1> DEFINE list == Harbor!RowOf(board, id)
<1>1. /\ reviewed[id].source = Harbor!Source(board)
      /\ reviewed[id].subject = Harbor!Subject(list)
      /\ Harbor!Result(list.score) # Invalid
      /\ Harbor!Imported(TRUE).mapped[id].result = Harbor!Quality!QualityOnly(Harbor!Result(list.score))
  BY MappedIsOfRow
<1> HIDE DEF list
<1>2. DOMAIN Harbor!Result(list.score) = {"quality", "cost"}
  BY <1>1 DEF Harbor!Result
<1>3. DOMAIN Harbor!Imported(TRUE).mapped[id].result = {"quality"}
  BY <1>1, <1>2 DEF Harbor!Quality!QualityOnly
<1>4. reviewed[id].source = <<board.dataset, board.schema>> /\ reviewed[id].subject.system = list.system
  BY <1>1 DEF Harbor!Source, Harbor!Subject
<1> QED BY <1>3, <1>4 DEF list

(***************************************************************************)
(* An accuracy that is within half of its last digit is that of the counts.*)
(***************************************************************************)
LEMMA RateIsRounded ==
    ASSUME NEW a \in Nat, NEW t \in Nat, NEW s \in Nat, NEW p \in Nat, p = a * t,
           2 * (p - 10000 * s) <= t, 2 * (10000 * s - p) <= t
    PROVE  20000 * s <= (2 * a + 1) * t /\ (2 * a - 1) * t <= 20000 * s
<1>1. (2 * a + 1) * t = 2 * p + t /\ (2 * a - 1) * t = 2 * p - t
  OBVIOUS
<1> QED BY <1>1

LEMMA HarborInvScores == ASSUME Harbor!HarborInv PROVE Harbor!ScoreIsOfCounts
<1> SUFFICES ASSUME Harbor!Imported(TRUE) # Harbor!Refused,
                    NEW id \in DOMAIN Harbor!Imported(TRUE).mapped
             PROVE  Harbor!IsOfCounts(Harbor!Imported(TRUE).mapped[id].result["quality"],
                                      Harbor!RowOf(board, id).score)
  BY DEF Harbor!ScoreIsOfCounts
<1> DEFINE list == Harbor!RowOf(board, id)
           score == list.score
           q == Harbor!Imported(TRUE).mapped[id].result["quality"]
<1>1. /\ Harbor!Readable(board) /\ list \in Harbor!Row
      /\ \E i \in DOMAIN board.rows : list = board.rows[i]
      /\ Harbor!Result(score) # Invalid
      /\ Harbor!Imported(TRUE).mapped[id].result = Harbor!Quality!QualityOnly(Harbor!Result(score))
  BY MappedIsOfRow
<1> HIDE DEF list
<1>2. score \in Scores
  BY <1>1 DEF Harbor!Row
<1>3. score.trials \in Nat /\ score.successes \in Nat /\ score.accuracy \in Nat /\ score.half \in Nat
  BY <1>2, BoardsPossible DEF Harbor!BoardsArePossible
<1>4. Harbor!WellFormed(score, board.schema)
  BY <1>1 DEF Harbor!Readable
<1>5. q = Harbor!Result(score)["quality"]
  <2>1. "quality" \in DOMAIN Harbor!Result(score)
    BY <1>1 DEF Harbor!Result
  <2> QED BY <1>1, <2>1 DEF Harbor!Quality!QualityOnly
<1> HIDE DEF q, score
<1>6. /\ q.accuracy = score.accuracy /\ q.samples = score.trials
      /\ q.lower = Harbor!Larger(0, score.accuracy - score.half)
      /\ q.upper = Harbor!Smaller(10000, score.accuracy + score.half)
  BY <1>1, <1>5 DEF Harbor!Result
<1> DEFINE a == score.accuracy
           t == score.trials
           s == score.successes
           p == a * t
<1>7. a \in Nat /\ t \in Nat /\ s \in Nat
  BY <1>3
<1>8. a <= 10000 /\ Harbor!CoherentWithCounts(score)
  BY <1>4 DEF Harbor!WellFormed
<1>9. p \in Nat /\ 2 * (p - 10000 * s) <= t /\ 2 * (10000 * s - p) <= t
  <2>1. p = score.accuracy * score.trials /\ p \in Nat
    BY <1>7
  <2> HIDE DEF p
  <2> QED BY <1>7, <1>8, <2>1 DEF Harbor!CoherentWithCounts, Harbor!Abs
<1> HIDE DEF a, t, s
<1>10. 20000 * s <= (2 * a + 1) * t /\ (2 * a - 1) * t <= 20000 * s
  <2>1. p = a * t
    OBVIOUS
  <2> HIDE DEF p
  <2> QED BY <1>7, <1>9, <2>1, RateIsRounded
<1>11. /\ 0 <= q.lower /\ q.lower <= a /\ a <= q.upper /\ q.upper <= 10000
  BY <1>3, <1>6, <1>7, <1>8 DEF Harbor!Larger, Harbor!Smaller, a
<1>12. Harbor!IsOfCounts(q, score)
  BY <1>6, <1>10, <1>11 DEF Harbor!IsOfCounts, a, t, s
<1> QED BY <1>12 DEF q, score, list

\* The outcome of a row depends on its own evidence, unless the review has
\* another's.
LEMMA OutcomeIsOfRow ==
    ASSUME NEW es, NEW scope, NEW e, NEW f, NEW id, e.source = f.source, e.rights = f.rights,
           id \in DOMAIN e.rows <=> id \in DOMAIN f.rows,
           id \in DOMAIN e.rows => e.rows[id] = f.rows[id],
           id \in DOMAIN es => es[id].raw = NoEntry
    PROVE  /\ Harbor!Quality!Outcome(e, es, scope, id) = Harbor!Quality!Outcome(f, es, scope, id)
           /\ id \in DOMAIN e.rows =>
                 Harbor!Quality!MappedRow(e, es, id) = Harbor!Quality!MappedRow(f, es, id)
<1>1. CASE id \notin DOMAIN e.rows
  BY <1>1 DEF Harbor!Quality!Outcome
<1>2. CASE id \in DOMAIN e.rows
  <2>1. /\ e.rows[id] = f.rows[id] /\ id \in DOMAIN f.rows
        /\ id \in DOMAIN es =>
             (Harbor!Quality!Drifted(e, es[id], e.rows[id]) <=> Harbor!Quality!Drifted(f, es[id], f.rows[id]))
    BY <1>2 DEF Harbor!Quality!Drifted
  <2>2. Harbor!Quality!MappedRow(e, es, id) = Harbor!Quality!MappedRow(f, es, id)
    BY <2>1 DEF Harbor!Quality!MappedRow
  <2>3. Harbor!Quality!Outcome(e, es, scope, id) = Harbor!Quality!Outcome(f, es, scope, id)
    BY <1>2, <2>1 DEF Harbor!Quality!Outcome
  <2> QED BY <2>2, <2>3
<1> QED BY <1>1, <1>2

\* Boards that differ in the scores of rows but one, and evidence that is the
\* same for it.
SameRow(b, c, id) ==
    /\ DOMAIN b.rows = DOMAIN c.rows /\ b.dataset = c.dataset /\ b.schema = c.schema
    /\ Harbor!Readable(b) /\ Harbor!Readable(c)
    /\ \A i \in DOMAIN b.rows : b.rows[i].id = c.rows[i].id
    /\ \A i \in DOMAIN b.rows : b.rows[i].id = id => b.rows[i] = c.rows[i]

SameEvidence(e, f, id) ==
    /\ e.source = f.source /\ e.rights = f.rights
    /\ id \in DOMAIN e.rows <=> id \in DOMAIN f.rows
    /\ id \in DOMAIN e.rows => e.rows[id] = f.rows[id]

\* Boards that differ in the scores of one row have the same evidence of others.
LEMMA OtherRowsStay ==
    ASSUME NEW b, NEW c, NEW other, SameRow(b, c, other)
    PROVE  SameEvidence(Harbor!Evidence(b), Harbor!Evidence(c), other)
<1> DEFINE e == Harbor!Evidence(b)
           f == Harbor!Evidence(c)
           ids == {b.rows[i].id : i \in DOMAIN b.rows}
<1> USE DEF SameRow
<1>1. /\ e.source = f.source /\ e.rights = f.rights
  BY DEF Harbor!Evidence, Harbor!Source
<1>2. ids = {c.rows[i].id : i \in DOMAIN c.rows}
  OBVIOUS
<1>3. /\ e.rows = [k \in ids |-> [subject |-> Harbor!Subject(Harbor!RowOf(b, k)),
                                  result |-> Harbor!Result(Harbor!RowOf(b, k).score)]]
      /\ f.rows = [k \in ids |-> [subject |-> Harbor!Subject(Harbor!RowOf(c, k)),
                                  result |-> Harbor!Result(Harbor!RowOf(c, k).score)]]
  BY <1>2 DEF Harbor!Evidence
<1>4. ASSUME other \in ids PROVE Harbor!RowOf(b, other) = Harbor!RowOf(c, other)
  <2>1. PICK i \in DOMAIN b.rows : b.rows[i].id = other
    BY <1>4
  <2>2. \A j \in DOMAIN b.rows : b.rows[j].id = other => i = j
    BY <2>1 DEF Harbor!Readable
  <2>3. \A j \in DOMAIN c.rows : c.rows[j].id = other => i = j
    BY <2>2
  <2>4. Harbor!RowOf(b, other) = b.rows[i]
    BY <2>1, <2>2 DEF Harbor!RowOf
  <2>5. Harbor!RowOf(c, other) = c.rows[i]
    BY <2>1, <2>3 DEF Harbor!RowOf
  <2> QED BY <2>1, <2>4, <2>5
<1> HIDE DEF e, f, ids
<1>5. other \in ids => e.rows[other] = f.rows[other]
  BY <1>3, <1>4
<1>6. DOMAIN e.rows = ids /\ DOMAIN f.rows = ids
  BY <1>3
<1> QED BY <1>1, <1>5, <1>6 DEF e, f, SameEvidence

(***************************************************************************)
(* A board that is scored again has the same mappings, but of the row that *)
(* was scored.                                                             *)
(***************************************************************************)
LEMMA StepChangesNoMapping ==
    ASSUME Harbor!HarborInv, Harbor!HarborInv', reviewed' = reviewed, NEW id \in Ids,
           LET Rest(b) == [b EXCEPT !.rows = [i \in DOMAIN b.rows |->
                              IF b.rows[i].id = id THEN [b.rows[i] EXCEPT !.score = 0]
                              ELSE b.rows[i]]]
           IN  Rest(board') = Rest(board),
           Harbor!Import(board, reviewed, TRUE) # Harbor!Refused,
           Harbor!Import(board', reviewed', TRUE) # Harbor!Refused,
           NEW other \in (DOMAIN Harbor!Import(board, reviewed, TRUE).mapped
                             \cup DOMAIN Harbor!Import(board', reviewed', TRUE).mapped) \ {id}
    PROVE  LET old == Harbor!Import(board, reviewed, TRUE)
               new == Harbor!Import(board', reviewed', TRUE)
           IN  /\ other \in DOMAIN old.mapped /\ other \in DOMAIN new.mapped
               /\ new.mapped[other] = old.mapped[other]
<1> DEFINE e == Harbor!Evidence(board)
           f == Harbor!Evidence(board')
           old == Harbor!Quality!Reconcile(e, reviewed, "internal")
           new == Harbor!Quality!Reconcile(f, reviewed, "internal")
<1>1. /\ Harbor!Readable(board) /\ Harbor!Import(board, reviewed, TRUE).mapped = old.mapped
  BY DEF Harbor!Import
<1>2. /\ Harbor!Readable(board') /\ Harbor!Import(board', reviewed', TRUE).mapped = new.mapped
  BY DEF Harbor!Import
<1>3. /\ DOMAIN board.rows = DOMAIN board'.rows
      /\ board.dataset = board'.dataset /\ board.schema = board'.schema
      /\ \A i \in DOMAIN board.rows : board.rows[i].id = board'.rows[i].id
      /\ \A i \in DOMAIN board.rows : board.rows[i].id # id => board.rows[i] = board'.rows[i]
  <2> DEFINE Of(r) == IF r.id = id THEN [r EXCEPT !.score = 0] ELSE r
             rest == [i \in DOMAIN board.rows |-> Of(board.rows[i])]
             rest1 == [i \in DOMAIN board'.rows |-> Of(board'.rows[i])]
  <2>1. [board' EXCEPT !.rows = rest1] = [board EXCEPT !.rows = rest]
    OBVIOUS
  <2>2. /\ DOMAIN board = {"dataset", "schema", "rows"} /\ DOMAIN board' = {"dataset", "schema", "rows"}
        /\ board.rows \in Seq(Harbor!Row) /\ board'.rows \in Seq(Harbor!Row)
    BY DEF Harbor!HarborInv
  <2> HIDE DEF rest, rest1
  <2>3. rest1 = rest /\ board.dataset = board'.dataset /\ board.schema = board'.schema
    BY <2>1, <2>2
  <2>4. DOMAIN rest1 = DOMAIN board'.rows /\ DOMAIN rest = DOMAIN board.rows
    BY DEF rest, rest1
  <2>5. \A r \in Harbor!Row : Of(r).id = r.id
    BY DEF Harbor!Row
  <2> HIDE DEF Of
  <2>6. ASSUME NEW i \in DOMAIN board.rows
        PROVE  /\ board.rows[i].id = board'.rows[i].id
               /\ board.rows[i].id # id => board.rows[i] = board'.rows[i]
    <3>1. i \in DOMAIN board'.rows /\ board.rows[i] \in Harbor!Row /\ board'.rows[i] \in Harbor!Row
      BY <2>2, <2>3, <2>4
    <3>2. Of(board.rows[i]) = Of(board'.rows[i])
      BY <2>3, <3>1 DEF rest, rest1
    <3>3. board.rows[i].id = board'.rows[i].id
      BY <2>5, <3>1, <3>2
    <3> QED BY <3>2, <3>3 DEF Of
  <2> QED BY <2>3, <2>4, <2>6
<1>4. SameEvidence(e, f, other)
  <2>1. \A i \in DOMAIN board.rows : board.rows[i].id = other => board.rows[i] = board'.rows[i]
    BY <1>3
  <2>2. SameRow(board, board', other)
    BY <1>1, <1>2, <1>3, <2>1 DEF SameRow
  <2> QED BY <2>2, OtherRowsStay
<1>5. \A k \in DOMAIN reviewed : reviewed[k].raw = NoEntry
  BY DEF Harbor!HarborInv
<1> HIDE DEF e, f
<1>6. /\ Harbor!Quality!Outcome(e, reviewed, "internal", other)
            = Harbor!Quality!Outcome(f, reviewed, "internal", other)
      /\ other \in DOMAIN e.rows =>
            Harbor!Quality!MappedRow(e, reviewed, other) = Harbor!Quality!MappedRow(f, reviewed, other)
  BY <1>4, <1>5, OutcomeIsOfRow DEF SameEvidence
<1>7. ASSUME NEW g
      PROVE  LET mapped == Harbor!Quality!Reconcile(g, reviewed, "internal").mapped
             IN  /\ other \in DOMAIN mapped
                     <=> /\ other \in DOMAIN g.rows \cup DOMAIN reviewed
                         /\ Harbor!Quality!Outcome(g, reviewed, "internal", other) = "mapped"
                 /\ other \in DOMAIN mapped =>
                      mapped[other] = Harbor!Quality!MappedRow(g, reviewed, other)
  <2> DEFINE ids == DOMAIN g.rows \cup DOMAIN reviewed
             outcome == [r \in ids |-> Harbor!Quality!Outcome(g, reviewed, "internal", r)]
             mapped == [r \in {q \in ids : outcome[q] = "mapped"} |->
                           Harbor!Quality!MappedRow(g, reviewed, r)]
  <2>1. Harbor!Quality!Reconcile(g, reviewed, "internal").mapped = mapped
    BY DEF Harbor!Quality!Reconcile
  <2>2. /\ other \in DOMAIN mapped
             <=> other \in ids /\ Harbor!Quality!Outcome(g, reviewed, "internal", other) = "mapped"
        /\ other \in DOMAIN mapped => mapped[other] = Harbor!Quality!MappedRow(g, reviewed, other)
    OBVIOUS
  <2> HIDE DEF mapped
  <2> QED BY <2>1, <2>2
<1>8. other \in DOMAIN old.mapped <=> other \in DOMAIN new.mapped
  BY <1>4, <1>6, <1>7 DEF SameEvidence
<1>9. other \in DOMAIN old.mapped /\ other \in DOMAIN new.mapped
  BY <1>1, <1>2, <1>8
<1>10. other \in DOMAIN e.rows
  BY <1>9, MappedWasReviewed
<1>11. new.mapped[other] = old.mapped[other]
  BY <1>6, <1>7, <1>9, <1>10
<1> HIDE DEF old, new
<1> QED BY <1>1, <1>2, <1>9, <1>11

----------------------------------------------------------------------------
\* Usage of agents.

LEMMA InitIsTelemetryInv == Telemetry!Init => Telemetry!TelemetryInv
<1> SUFFICES ASSUME Telemetry!Init PROVE Telemetry!TelemetryInv
  OBVIOUS
<1>1. source \in Telemetry!Sources /\ usageReader = Telemetry!Idle
  BY DEF Telemetry!Init
<1>2. ASSUME source = "hermes" PROVE Telemetry!HermesInv
  <2>1. upstream = [file |-> 1, main |-> Telemetry!Empty, committed |-> Telemetry!Empty,
                    old |-> Telemetry!Empty]
    BY <1>2 DEF Telemetry!Init
  <2>2. Telemetry!IsContent(Telemetry!Empty)
    BY DEF Telemetry!IsContent, Telemetry!Empty
  <2>3. /\ usageReader.pc = "idle" /\ ~usageReader.replaced
        /\ DOMAIN usageReader = DOMAIN Telemetry!Idle
    BY <1>1 DEF Telemetry!Idle
  <2> QED BY <2>1, <2>2, <2>3 DEF Telemetry!HermesInv
<1>3. ASSUME source = "openclaw" PROVE Telemetry!OpenClawInv
  BY <1>3 DEF Telemetry!Init, Telemetry!OpenClawInv
<1>4. ASSUME source = "report"
      PROVE  /\ DOMAIN upstream = {"routes", "report"}
             /\ DOMAIN upstream.report = Telemetry!Buckets \cup {"total", "reasoning"}
  BY <1>4 DEF Telemetry!Init
<1> QED BY <1>1, <1>2, <1>3, <1>4 DEF Telemetry!TelemetryInv

(***************************************************************************)
(* What of a step is of which source.                                      *)
(***************************************************************************)
LEMMA SourcesStepAlone ==
    ASSUME Telemetry!Next
    PROVE  /\ source' = source
           /\ source = "openclaw" => Telemetry!Project \/ Telemetry!Relabel
           /\ source = "report" => Telemetry!Forget
           /\ source = "hermes" =>
                 \/ Telemetry!Record \/ Telemetry!EndSession \/ Telemetry!Checkpoint
                 \/ Telemetry!Replace \/ Telemetry!Open \/ Telemetry!Look \/ Telemetry!Connect
                 \/ Telemetry!Begin \/ Telemetry!Backup \/ Telemetry!Import
           /\ source # "hermes" => usageReader' = usageReader
BY DEF Telemetry!Next, Telemetry!Emit, Telemetry!CallModel, Telemetry!EndSegment,
   Telemetry!Project, Telemetry!Relabel, Telemetry!Forget, Telemetry!Record,
   Telemetry!EndSession, Telemetry!Commit, Telemetry!Checkpoint, Telemetry!Replace,
   Telemetry!Open, Telemetry!Look, Telemetry!Connect, Telemetry!Begin, Telemetry!Backup,
   Telemetry!Import, Telemetry!Read

\* A database only gets older as it is written.
LEMMA ContentsAge ==
    ASSUME NEW c, Telemetry!IsContent(c)
    PROVE  /\ Telemetry!Age(c) \in Nat
           /\ \A made \in Calls : \A n :
                 LET d == [c EXCEPT !.spent = n, !.rows = Append(@, made)]
                 IN  Telemetry!IsContent(d) /\ Telemetry!Age(c) <= Telemetry!Age(d)
           /\ \A residual \in BOOLEAN :
                 LET d == [c EXCEPT !.ended = TRUE, !.residual = residual]
                 IN  Telemetry!IsContent(d) /\ Telemetry!Age(c) <= Telemetry!Age(d)
<1>1. /\ DOMAIN c = {"rows", "residual", "ended", "spent"} /\ c.rows \in Seq(Calls)
      /\ c.ended \in BOOLEAN /\ Len(c.rows) \in Nat
  BY DEF Telemetry!IsContent, Telemetry!Empty
<1>2. Telemetry!Age(c) \in Nat
  BY <1>1 DEF Telemetry!Age
<1>3. ASSUME NEW made \in Calls, NEW n, NEW d, d = [c EXCEPT !.spent = n, !.rows = Append(@, made)]
      PROVE  Telemetry!IsContent(d) /\ Telemetry!Age(c) <= Telemetry!Age(d)
  <2>1. DOMAIN d = DOMAIN c /\ d.rows = Append(c.rows, made) /\ d.ended = c.ended
    BY <1>1, <1>3
  <2>2. d.rows \in Seq(Calls) /\ Len(d.rows) = Len(c.rows) + 1
    BY <1>1, <2>1
  <2> QED BY <1>1, <2>1, <2>2 DEF Telemetry!IsContent, Telemetry!Age, Telemetry!Empty
<1>4. ASSUME NEW residual \in BOOLEAN, NEW d, d = [c EXCEPT !.ended = TRUE, !.residual = residual]
      PROVE  Telemetry!IsContent(d) /\ Telemetry!Age(c) <= Telemetry!Age(d)
  <2>1. DOMAIN d = DOMAIN c /\ d.rows = c.rows /\ d.ended = TRUE
    BY <1>1, <1>4
  <2>2. Telemetry!Age(d) = Len(c.rows) + 1 /\ Telemetry!Age(c) <= Len(c.rows) + 1
    BY <1>1, <2>1 DEF Telemetry!Age
  <2> QED BY <1>1, <2>1, <2>2 DEF Telemetry!IsContent, Telemetry!Empty
<1> QED BY <1>2, <1>3, <1>4

LEMMA StepKeepsHermesInv ==
    ASSUME Telemetry!HermesInv, source = "hermes", Telemetry!Next
    PROVE  Telemetry!HermesInv'
<1> USE DEF Telemetry!HermesInv
<1>0. /\ DOMAIN usageReader = {"pc", "file", "connection", "snapshot", "row", "since", "replaced"}
      /\ Telemetry!Age(upstream.committed) \in Nat /\ Telemetry!Age(upstream.old) \in Nat
  BY ContentsAge DEF Telemetry!Idle
<1>1. ASSUME NEW content, Telemetry!Commit(content), Telemetry!IsContent(content),
             Telemetry!Age(upstream.committed) <= Telemetry!Age(content)
      PROVE  Telemetry!HermesInv'
  <2>1. /\ upstream' = [upstream EXCEPT !.committed = content] /\ usageReader' = usageReader
        /\ upstream.file = 1
    BY <1>1 DEF Telemetry!Commit
  <2>2. /\ DOMAIN upstream' = DOMAIN upstream /\ upstream'.file = 1 /\ upstream'.old = upstream.old
        /\ upstream'.committed = content
    BY <2>1
  <2>3. Telemetry!Age(content) \in Nat
    BY <1>1, ContentsAge
  <2>4. usageReader.pc # "idle" => usageReader.since <= Telemetry!Age(content)
    BY <1>0, <1>1, <2>1, <2>3
  <2> QED BY <1>1, <2>1, <2>2, <2>4
<1>2. ASSUME Telemetry!Record PROVE Telemetry!HermesInv'
  BY <1>1, <1>2, ContentsAge DEF Telemetry!Record
<1>3. ASSUME Telemetry!EndSession PROVE Telemetry!HermesInv'
  BY <1>1, <1>3, ContentsAge DEF Telemetry!EndSession
<1>4. ASSUME Telemetry!Checkpoint PROVE Telemetry!HermesInv'
  <2>1. upstream' = [upstream EXCEPT !.main = upstream.committed] /\ usageReader' = usageReader
    BY <1>4 DEF Telemetry!Checkpoint
  <2>2. /\ DOMAIN upstream' = DOMAIN upstream /\ upstream'.file = upstream.file
        /\ upstream'.old = upstream.old /\ upstream'.committed = upstream.committed
    BY <2>1
  <2> QED BY <2>1, <2>2
<1>5. ASSUME Telemetry!Replace PROVE Telemetry!HermesInv'
  <2>1. /\ upstream.file = 1 /\ usageReader.pc \notin {"idle", "done", "refused"}
        /\ DOMAIN upstream' = DOMAIN upstream /\ upstream'.file = 2
        /\ upstream'.old = upstream.committed
        /\ upstream'.committed = [Telemetry!Empty EXCEPT !.ended = TRUE]
        /\ usageReader' = [usageReader EXCEPT !.replaced = usageReader.pc # "closed"]
    BY <1>5 DEF Telemetry!Replace, Telemetry!Ended
  <2>2. Telemetry!IsContent(upstream'.committed)
    BY <2>1 DEF Telemetry!IsContent, Telemetry!Empty
  <2>3. /\ DOMAIN usageReader' = DOMAIN usageReader
        /\ \A f \in DOMAIN usageReader \ {"replaced"} : usageReader'[f] = usageReader[f]
        /\ usageReader'.replaced = (usageReader.pc # "closed")
    BY <1>0, <2>1
  <2>4. /\ usageReader'.pc = usageReader.pc /\ usageReader'.file = usageReader.file
        /\ usageReader'.connection = usageReader.connection /\ usageReader'.snapshot = usageReader.snapshot
        /\ usageReader'.since = usageReader.since
    BY <1>0, <2>3
  <2>5. /\ usageReader.file = 1 /\ usageReader.since \in Nat
        /\ usageReader.since <= Telemetry!Age(upstream.committed)
        /\ upstream'.file # 1 /\ usageReader'.pc # "idle" /\ usageReader'.pc # "done"
    BY <2>1, <2>4
  <2>6. usageReader'.pc = "closed" => ~usageReader'.replaced
    BY <2>3, <2>4
  <2>7. usageReader.connection \in 1 .. 1 => usageReader'.connection \in 1 .. upstream'.file
    BY <2>1, <2>4
  <2> QED BY <2>1, <2>2, <2>3, <2>4, <2>5, <2>6, <2>7
<1>6. ASSUME Telemetry!Open PROVE Telemetry!HermesInv'
  <2>1. /\ usageReader.pc = "idle" /\ upstream' = upstream
        /\ usageReader' = [usageReader EXCEPT !.pc = "opened", !.file = upstream.file,
                                              !.since = Telemetry!Age(upstream.committed)]
    BY <1>6 DEF Telemetry!Open, Telemetry!Read
  <2>2. /\ DOMAIN usageReader' = DOMAIN usageReader /\ usageReader'.pc = "opened"
        /\ usageReader'.file = upstream.file /\ usageReader'.replaced = usageReader.replaced
        /\ usageReader'.since = Telemetry!Age(upstream.committed)
    BY <1>0, <2>1
  <2> QED BY <1>0, <2>1, <2>2
<1>8. ASSUME Telemetry!Look PROVE Telemetry!HermesInv'
  <2>1. PICK step \in Telemetry!Looks :
           /\ Telemetry!Read(step[1], step[2])
           /\ usageReader' = [usageReader EXCEPT !.pc = IF Telemetry!SameFile THEN step[2] ELSE "refused"]
    BY <1>8 DEF Telemetry!Look
  <2>2. /\ upstream' = upstream /\ usageReader.pc = step[1]
        /\ usageReader'.pc = (IF Telemetry!SameFile THEN step[2] ELSE "refused")
        /\ DOMAIN usageReader' = DOMAIN usageReader
        /\ usageReader'.file = usageReader.file
        /\ usageReader'.connection = usageReader.connection
        /\ usageReader'.snapshot = usageReader.snapshot
        /\ usageReader'.since = usageReader.since
        /\ usageReader'.replaced = usageReader.replaced
    BY <1>0, <2>1 DEF Telemetry!Read
  <2>3. /\ step \in {<<"opened", "pinned">>, <<"begun", "copying">>, <<"copied", "closed">>}
        /\ step[1] \in {"opened", "begun", "copied"} /\ step[2] \in {"pinned", "copying", "closed"}
        /\ step[2] = "copying" => step[1] = "begun"
        /\ step[2] = "closed" => step[1] = "copied"
    BY DEF Telemetry!Looks
  <2>4. Telemetry!SameFile => upstream.file = 1
    BY <2>2, <2>3 DEF Telemetry!SameFile
  <2> QED BY <2>2, <2>3, <2>4
<1>9. ASSUME Telemetry!Connect PROVE Telemetry!HermesInv'
  <2>1. /\ usageReader.pc = "pinned" /\ upstream' = upstream
        /\ usageReader' = [usageReader EXCEPT !.pc = "connected", !.connection = upstream.file]
    BY <1>9 DEF Telemetry!Connect, Telemetry!Read
  <2>2. /\ DOMAIN usageReader' = DOMAIN usageReader /\ usageReader'.pc = "connected"
        /\ usageReader'.connection = upstream.file /\ usageReader'.file = usageReader.file
        /\ usageReader'.replaced = usageReader.replaced /\ usageReader'.since = usageReader.since
    BY <1>0, <2>1
  <2> QED BY <2>1, <2>2
<1>10. ASSUME Telemetry!Begin PROVE Telemetry!HermesInv'
  <2>1. /\ usageReader.pc = "connected" /\ upstream' = upstream
        /\ usageReader' = [usageReader EXCEPT !.pc = "begun", !.snapshot = Telemetry!Transaction]
    BY <1>10 DEF Telemetry!Begin, Telemetry!Read
  <2>2. /\ DOMAIN usageReader' = DOMAIN usageReader /\ usageReader'.pc = "begun"
        /\ usageReader'.snapshot = Telemetry!Transaction
        /\ usageReader'.connection = usageReader.connection /\ usageReader'.file = usageReader.file
        /\ usageReader'.replaced = usageReader.replaced /\ usageReader'.since = usageReader.since
    BY <1>0, <2>1
  <2>3. Telemetry!IsContent(Telemetry!Transaction)
    BY DEF Telemetry!Transaction
  <2>4. usageReader.connection = 1 =>
           Telemetry!Transaction = IF upstream.file = 1 THEN upstream.committed ELSE upstream.old
    BY DEF Telemetry!Transaction
  <2> QED BY <2>1, <2>2, <2>3, <2>4
<1>11. ASSUME Telemetry!Backup PROVE Telemetry!HermesInv'
  <2>1. PICK pc \in {"copied", "refused"} : usageReader' = [usageReader EXCEPT !.pc = pc]
    BY <1>11 DEF Telemetry!Backup
  <2>2. /\ usageReader.pc = "copying" /\ upstream' = upstream
        /\ DOMAIN usageReader' = DOMAIN usageReader
        /\ usageReader'.pc = pc /\ usageReader'.file = usageReader.file
        /\ usageReader'.connection = usageReader.connection
        /\ usageReader'.snapshot = usageReader.snapshot
        /\ usageReader'.since = usageReader.since
        /\ usageReader'.replaced = usageReader.replaced
    BY <1>0, <1>11, <2>1 DEF Telemetry!Backup, Telemetry!Read
  <2> QED BY <2>2
<1>12. ASSUME Telemetry!Import PROVE Telemetry!HermesInv'
  <2>1. /\ usageReader.pc = "closed" /\ upstream' = upstream
        /\ \E row1 : usageReader' = [usageReader EXCEPT !.pc = "done", !.row = row1]
    BY <1>12 DEF Telemetry!Import, Telemetry!Read
  <2>2. /\ DOMAIN usageReader' = DOMAIN usageReader
        /\ usageReader'.pc = "done" /\ usageReader'.file = usageReader.file
        /\ usageReader'.connection = usageReader.connection
        /\ usageReader'.snapshot = usageReader.snapshot
        /\ usageReader'.since = usageReader.since
        /\ usageReader'.replaced = usageReader.replaced
    BY <1>0, <2>1
  <2> QED BY <2>1, <2>2
<1> HIDE DEF Telemetry!HermesInv
<1> QED BY <1>2, <1>3, <1>4, <1>5, <1>6, <1>8, <1>9, <1>10, <1>11, <1>12, SourcesStepAlone

LEMMA StepKeepsOpenClawInv ==
    ASSUME Telemetry!OpenClawInv, source = "openclaw", Telemetry!Next
    PROVE  Telemetry!OpenClawInv'
<1> USE DEF Telemetry!OpenClawInv
<1>1. ASSUME Telemetry!Project PROVE Telemetry!OpenClawInv'
  <2>1. PICK unit, attempt, number \in 1 .. 2, route \in {Route, Other}, tokens \in {None, 1} :
           LET made == [unit |-> unit, run |-> 1, attempt |-> attempt, call |-> number,
                        route |-> route, tokens |-> tokens]
               signed == [unit |-> unit, run |-> 1, attempt |-> attempt, call |-> number,
                          route |-> route, tokens |-> tokens, signature |-> Telemetry!Material(made)]
           IN  /\ \A c \in upstream.calls : <<c.unit, c.attempt, c.call>> # <<unit, attempt, number>>
               /\ upstream' = [upstream EXCEPT !.calls = @ \cup {made}, !.envelopes = @ \cup {signed}]
    BY <1>1 DEF Telemetry!Project
  <2> DEFINE made == [unit |-> unit, run |-> 1, attempt |-> attempt, call |-> number,
                      route |-> route, tokens |-> tokens]
             signed == [unit |-> unit, run |-> 1, attempt |-> attempt, call |-> number,
                        route |-> route, tokens |-> tokens, signature |-> Telemetry!Material(made)]
  <2>2. /\ DOMAIN upstream' = DOMAIN upstream /\ upstream'.calls = upstream.calls \cup {made}
        /\ upstream'.envelopes = upstream.envelopes \cup {signed}
        /\ \A c \in upstream.calls : <<c.unit, c.attempt, c.call>> # <<unit, attempt, number>>
    BY <2>1
  <2>3. Telemetry!Material(made) = made
    BY DEF Telemetry!Material
  <2>4. /\ <<made.unit, made.attempt, made.call>> = <<unit, attempt, number>>
        /\ signed = [f \in {"unit", "run", "attempt", "call", "route", "tokens", "signature"} |-> signed[f]]
        /\ signed.signature = made
    BY <2>3
  <2> HIDE DEF made, signed
  <2> QED BY <2>2, <2>4
<1>2. ASSUME Telemetry!Relabel PROVE Telemetry!OpenClawInv'
  <2>1. PICK e \in upstream.envelopes, f \in {"unit", "attempt"} :
           upstream' = [upstream EXCEPT !.relabelled = TRUE,
                          !.envelopes = (@ \ {e}) \cup {[e EXCEPT ![f] = 3 - @]}]
    BY <1>2 DEF Telemetry!Relabel
  <2> DEFINE other == [e EXCEPT ![f] = 3 - @]
  <2>2. /\ DOMAIN upstream' = DOMAIN upstream /\ upstream'.calls = upstream.calls
        /\ upstream'.envelopes = (upstream.envelopes \ {e}) \cup {other}
    BY <2>1
  <2>3. /\ e = [g \in {"unit", "run", "attempt", "call", "route", "tokens", "signature"} |-> e[g]]
        /\ e.signature \in upstream.calls
    OBVIOUS
  <2>4. other = [g \in DOMAIN e |-> other[g]] /\ other.signature = e.signature
    BY <2>3
  <2>5. DOMAIN e = {"unit", "run", "attempt", "call", "route", "tokens", "signature"}
    BY <2>3
  <2> HIDE DEF other
  <2> QED BY <2>2, <2>3, <2>4, <2>5
<1> HIDE DEF Telemetry!OpenClawInv
<1> QED BY <1>1, <1>2, SourcesStepAlone

LEMMA StepKeepsTelemetryInv ==
    Telemetry!TelemetryInv /\ [Telemetry!Next]_usageVars => Telemetry!TelemetryInv'
<1> SUFFICES ASSUME Telemetry!TelemetryInv, [Telemetry!Next]_usageVars
             PROVE  Telemetry!TelemetryInv'
  OBVIOUS
<1>1. CASE usageVars' = usageVars
  BY <1>1 DEF usageVars, Telemetry!TelemetryInv, Telemetry!HermesInv, Telemetry!OpenClawInv
<1>2. CASE Telemetry!Next
  <2>1. ASSUME source = "report"
        PROVE  /\ DOMAIN upstream' = {"routes", "report"}
               /\ DOMAIN upstream'.report = Telemetry!Buckets \cup {"total", "reasoning"}
    <3>1. PICK f \in DOMAIN upstream.report : upstream' = [upstream EXCEPT !.report[f] = None]
      BY <1>2, <2>1, SourcesStepAlone DEF Telemetry!Forget
    <3> QED BY <2>1, <3>1 DEF Telemetry!TelemetryInv
  <2>2. source = "hermes" => Telemetry!HermesInv'
    BY <1>2, StepKeepsHermesInv DEF Telemetry!TelemetryInv
  <2>3. source = "openclaw" => Telemetry!OpenClawInv'
    BY <1>2, StepKeepsOpenClawInv DEF Telemetry!TelemetryInv
  <2> QED BY <1>2, <2>1, <2>2, <2>3, SourcesStepAlone DEF Telemetry!TelemetryInv
<1> QED BY <1>1, <1>2

LEMMA TelemetryInvIsOfOneMoment ==
    ASSUME Telemetry!TelemetryInv PROVE Telemetry!SnapshotIsOfOneMoment
<1>1. source # "hermes" => usageReader.pc = "idle"
  BY DEF Telemetry!TelemetryInv, Telemetry!Idle
<1> QED BY <1>1 DEF Telemetry!TelemetryInv, Telemetry!HermesInv, Telemetry!SnapshotIsOfOneMoment

(***************************************************************************)
(* An envelope that is accepted is of the call that was signed.            *)
(***************************************************************************)
LEMMA TelemetryInvTellsCallsApart ==
    ASSUME Telemetry!TelemetryInv PROVE Telemetry!NamesTellCallsApart
<1> SUFFICES ASSUME source = "openclaw"
             PROVE  LET accepted == {k \in upstream.envelopes : Telemetry!Accepted(k)}
                    IN  /\ \A e, f \in accepted :
                              /\ Telemetry!OpenClaw(e).call = Telemetry!OpenClaw(f).call => e = f
                              /\ (Telemetry!OpenClaw(e).attempt = Telemetry!OpenClaw(f).attempt) =
                                   (<<e.unit, e.run, e.attempt>> = <<f.unit, f.run, f.attempt>>)
                        /\ \A e \in accepted : Telemetry!Material(e) \in upstream.calls
  BY DEF Telemetry!NamesTellCallsApart
<1> DEFINE accepted == {k \in upstream.envelopes : Telemetry!Accepted(k)}
<1>1. ASSUME NEW e \in accepted
      PROVE  /\ e.signature = Telemetry!Material(e) /\ e.signature \in upstream.calls
             /\ DOMAIN e = {"unit", "run", "attempt", "call", "route", "tokens", "signature"}
             /\ e.signature.unit = e.unit /\ e.signature.run = e.run
             /\ e.signature.attempt = e.attempt /\ e.signature.call = e.call
             /\ e.signature.route = e.route /\ e.signature.tokens = e.tokens
             /\ Telemetry!OpenClaw(e).call = <<e.unit, e.run, e.attempt, e.call>>
             /\ Telemetry!OpenClaw(e).attempt = <<e.unit, e.run, e.attempt>>
  <2>1. /\ e.signature = Telemetry!Material(e) /\ e.signature \in upstream.calls
        /\ DOMAIN e = {"unit", "run", "attempt", "call", "route", "tokens", "signature"}
    BY DEF Telemetry!Accepted, Telemetry!TelemetryInv, Telemetry!OpenClawInv
  <2>2. /\ Telemetry!OpenClaw(e).call = <<e.unit, e.run, e.attempt, e.call>>
        /\ Telemetry!OpenClaw(e).attempt = <<e.unit, e.run, e.attempt>>
    BY DEF Telemetry!OpenClaw, Telemetry!CallId, Telemetry!AttemptId
  <2> QED BY <2>1, <2>2 DEF Telemetry!Material
<1>2. ASSUME NEW e \in accepted, NEW f \in accepted,
             Telemetry!OpenClaw(e).call = Telemetry!OpenClaw(f).call
      PROVE  e = f
  <2>1. e.unit = f.unit /\ e.run = f.run /\ e.attempt = f.attempt /\ e.call = f.call
    BY <1>1, <1>2
  <2>2. e.signature = f.signature
    BY <1>1, <2>1 DEF Telemetry!TelemetryInv, Telemetry!OpenClawInv
  <2>3. e.route = f.route /\ e.tokens = f.tokens
    BY <1>1, <2>2
  <2> DEFINE D == {"unit", "run", "attempt", "call", "route", "tokens", "signature"}
  <2>4. e = [k \in D |-> e[k]] /\ f = [k \in D |-> f[k]]
    BY DEF Telemetry!TelemetryInv, Telemetry!OpenClawInv
  <2>5. \A k \in D : e[k] = f[k]
    BY <2>1, <2>2, <2>3
  <2> HIDE DEF D
  <2> QED BY <2>4, <2>5
<1>3. \A e, f \in accepted :
         (Telemetry!OpenClaw(e).attempt = Telemetry!OpenClaw(f).attempt) =
            (<<e.unit, e.run, e.attempt>> = <<f.unit, f.run, f.attempt>>)
  BY <1>1
<1> QED BY <1>1, <1>2, <1>3

(***************************************************************************)
(* A report of which less is known says the same of the rest.              *)
(***************************************************************************)
LEMMA ForgettingIsFine ==
    ASSUME Telemetry!TelemetryInv, [Telemetry!Next]_usageVars, source = "report",
           Telemetry!Report(upstream) # Telemetry!Refused
    PROVE  /\ Telemetry!Report(upstream') # Telemetry!Refused
           /\ \A m \in Telemetry!Meters :
                 Telemetry!Report(upstream')[m] \in {Telemetry!Report(upstream)[m], None}
<1>1. CASE usageVars' = usageVars
  BY <1>1 DEF usageVars
<1>2. CASE Telemetry!Next
  <2>1. PICK f \in DOMAIN upstream.report : upstream' = [upstream EXCEPT !.report[f] = None]
    BY <1>2, SourcesStepAlone DEF Telemetry!Forget
  <2> DEFINE r == upstream.report
             s == upstream'.report
             fields == {"uncached", "read", "write", "outputTotal", "total", "reasoning"}
  <2>2. /\ DOMAIN upstream = {"routes", "report"} /\ DOMAIN r = fields
        /\ Telemetry!Buckets = {"uncached", "read", "write", "outputTotal"}
    BY DEF Telemetry!TelemetryInv, Telemetry!Buckets
  <2>3. /\ upstream'.routes = upstream.routes /\ DOMAIN s = fields /\ f \in fields /\ s[f] = None
        /\ \A g \in fields \ {f} : s[g] = r[g]
    BY <2>1, <2>2
  <2> HIDE DEF r, s
  <2>4. Telemetry!TotalAgrees(r) /\ upstream.routes = {Route}
        /\ ~(r["reasoning"] # None /\ r["outputTotal"] # None /\ r["reasoning"] > r["outputTotal"])
    BY DEF Telemetry!Report, Telemetry!Refused, r
  <2>5. Telemetry!TotalAgrees(s)
    <3>1. CASE f = "reasoning"
      <4>1. [b \in Telemetry!Buckets |-> s[b]] = [b \in Telemetry!Buckets |-> r[b]]
        BY <2>2, <2>3, <3>1
      <4>2. \A b \in Telemetry!Buckets \cup {"total"} : s[b] = r[b]
        BY <2>2, <2>3, <3>1
      <4> QED BY <2>4, <4>1, <4>2 DEF Telemetry!TotalAgrees
    <3>2. CASE f # "reasoning"
      <4>1. f \in Telemetry!Buckets \cup {"total"}
        BY <2>2, <2>3, <3>2
      <4> QED BY <2>3, <4>1 DEF Telemetry!TotalAgrees
    <3> QED BY <3>1, <3>2
  <2>6. ~(s["reasoning"] # None /\ s["outputTotal"] # None /\ s["reasoning"] > s["outputTotal"])
    BY <2>3, <2>4
  <2> DEFINE At(q, m) == CASE m = "output" -> Telemetry!Visible(q["outputTotal"], q["reasoning"])
                           [] m \in {"total", "cost"} -> None
                           [] OTHER -> q[m]
  <2>7. /\ Telemetry!Report(upstream) = [m \in Telemetry!Meters |-> At(r, m)]
        /\ Telemetry!Report(upstream') = [m \in Telemetry!Meters |-> At(s, m)]
    BY <2>3, <2>4, <2>5, <2>6 DEF Telemetry!Report, r, s
  <2>8. ASSUME NEW m \in Telemetry!Meters PROVE At(s, m) \in {At(r, m), None}
    <3>1. CASE m = "output"
      BY <2>3, <3>1 DEF Telemetry!Visible
    <3>2. CASE m \in {"total", "cost"}
      BY <3>2
    <3>3. CASE m \notin {"output", "total", "cost"}
      <4>1. m \in fields
        BY <3>3 DEF Telemetry!Meters
      <4> QED BY <2>3, <3>3, <4>1
    <3> QED BY <3>1, <3>2, <3>3
  <2>9. "cost" \in Telemetry!Meters
    BY DEF Telemetry!Meters
  <2> HIDE DEF At
  <2>10. Telemetry!Report(upstream') # Telemetry!Refused
    BY <2>7, <2>9 DEF Telemetry!Refused
  <2> QED BY <2>7, <2>8, <2>10
<1> QED BY <1>1, <1>2

\* What a total cost is known from, of what its parts are.
LEMMA CombinedIsOfBases ==
    ASSUME NEW costs
    PROVE  LET bases == {costs[i].basis : i \in DOMAIN costs}
           IN  Telemetry!Combined(costs).basis =
                  IF bases = {} \/ "unknown" \in bases THEN "unknown" ELSE Telemetry!Basis(bases)
BY DEF Telemetry!Combined, Telemetry!NoCost

LEMMA CallSets == ASSUME NEW S PROVE Telemetry!Cardinality(S) = Cardinality(S)
BY DEF Telemetry!Cardinality, Cardinality, Telemetry!IsFiniteSet, IsFiniteSet

\* What is known from several bases.
Together(bases) ==
    IF \E b : bases = {b} THEN CHOOSE b \in bases : TRUE
    ELSE IF bases \subseteq {"provider_reported", "estimated"} THEN "estimated" ELSE "unknown"

LEMMA BasisIsTogether ==
    ASSUME NEW bases, bases \subseteq {"unknown", "estimated", "provider_reported", "included"}
    PROVE  Telemetry!Basis(bases) = Together(bases)
<1>1. IsFiniteSet(bases)
  <2>1. /\ IsFiniteSet({}) /\ \A S, x : IsFiniteSet(S) => IsFiniteSet(S \cup {x})
    BY FS_EmptySet, FS_AddElement
  <2>2. ASSUME NEW a, NEW b, NEW c, NEW d PROVE IsFiniteSet({a, b, c, d})
    <3>1. IsFiniteSet({} \cup {a})
      BY <2>1
    <3>2. IsFiniteSet(({} \cup {a}) \cup {b})
      BY <2>1, <3>1
    <3>3. IsFiniteSet((({} \cup {a}) \cup {b}) \cup {c})
      BY <2>1, <3>2
    <3>4. IsFiniteSet(((({} \cup {a}) \cup {b}) \cup {c}) \cup {d})
      BY <2>1, <3>3
    <3>5. {a, b, c, d} = ((({} \cup {a}) \cup {b}) \cup {c}) \cup {d}
      OBVIOUS
    <3> QED BY <3>4, <3>5
  <2>3. IsFiniteSet({"unknown", "estimated", "provider_reported", "included"})
    BY <2>2
  <2> QED BY <2>3, FS_Subset
<1>2. Cardinality(bases) = 1 <=> \E b : bases = {b}
  BY <1>1, FS_Singleton
<1> QED BY <1>2, CallSets DEF Telemetry!Basis, Together

\* A basis more makes no total more certain.
LEMMA OneMoreBasis ==
    ASSUME NEW A, A \subseteq {"unknown", "estimated", "provider_reported", "included"}, A # {},
           NEW b \in {"unknown", "estimated", "provider_reported", "included"},
           NEW B, B = A \cup {b},
           NEW old, old = (IF "unknown" \in A THEN "unknown" ELSE Together(A)),
           NEW new, new = (IF "unknown" \in B THEN "unknown" ELSE Together(B))
    PROVE  /\ Telemetry!Certainty(new) <= Telemetry!Certainty(old)
           /\ Telemetry!Certainty(new) = Telemetry!Certainty(old) => new = old
<1>1. /\ Telemetry!Certainty("unknown") = 0 /\ Telemetry!Certainty("estimated") = 1
      /\ Telemetry!Certainty("provider_reported") = 2 /\ Telemetry!Certainty("included") = 2
  BY DEF Telemetry!Certainty
<1>2. ASSUME NEW a \in {"estimated", "provider_reported", "included"} PROVE Together({a}) = a
  <2>1. \E x : {a} = {x}
    OBVIOUS
  <2>2. (CHOOSE x \in {a} : TRUE) = a
    OBVIOUS
  <2> QED BY <2>1, <2>2 DEF Together
<1>3. CASE "unknown" \in B
  <2>1. new = "unknown" /\ old \in {"unknown", "estimated", "provider_reported", "included"}
    <3>1. CASE "unknown" \in A
      BY <1>3, <3>1
    <3>2. CASE "unknown" \notin A /\ \E x : A = {x}
      <4>1. PICK x \in {"estimated", "provider_reported", "included"} : A = {x}
        BY <3>2
      <4>2. old = x
        BY <1>2, <3>2, <4>1
      <4> QED BY <1>3, <4>2
    <3>3. CASE "unknown" \notin A /\ ~\E x : A = {x}
      BY <1>3, <3>3 DEF Together
    <3> QED BY <3>1, <3>2, <3>3
  <2> QED BY <1>1, <2>1
<1>4. CASE "unknown" \notin B
  <2>1. "unknown" \notin A /\ b \in {"estimated", "provider_reported", "included"}
    BY <1>4
  <2>2. CASE b \in A
    <3>1. A = B
      BY <2>2
    <3> QED BY <1>1, <1>2, <2>1, <3>1 DEF Together
  <2>3. CASE b \notin A
    <3>1. PICK a \in A : TRUE
      OBVIOUS
    <3>2. a # b /\ a \in B /\ b \in B
      BY <2>3
    <3>3. ~\E x : B = {x}
      BY <3>2
    <3>4. new = IF B \subseteq {"provider_reported", "estimated"} THEN "estimated" ELSE "unknown"
      BY <1>4, <3>3 DEF Together
    <3>5. old = IF \E x : A = {x} THEN CHOOSE x \in A : TRUE
                ELSE IF A \subseteq {"provider_reported", "estimated"} THEN "estimated" ELSE "unknown"
      BY <2>1 DEF Together
    <3>6. CASE \E x : A = {x}
      <4>1. A = {a} /\ a \in {"estimated", "provider_reported", "included"}
        BY <2>1, <3>6
      <4>2. old = a
        BY <1>2, <2>1, <4>1
      <4> QED BY <1>1, <3>4, <4>1, <4>2
    <3>7. CASE ~\E x : A = {x}
      BY <1>1, <3>4, <3>5, <3>7
    <3> QED BY <3>6, <3>7
  <2> QED BY <2>2, <2>3
<1> QED BY <1>3, <1>4

(***************************************************************************)
(* One more call is one more part of a total cost.                         *)
(***************************************************************************)
LEMMA StepLosesCertainty ==
    ASSUME Telemetry!TelemetryInv, [Telemetry!Next]_usageVars, source = "hermes",
           upstream'.file = upstream.file, upstream.committed.rows # << >>,
           NEW before, before = Telemetry!CostsOf(upstream.committed.rows),
           NEW after, after = Telemetry!CostsOf(upstream'.committed.rows),
           Telemetry!InvalidCost \notin Telemetry!Range(after)
    PROVE  /\ Telemetry!Certainty(Telemetry!Combined(after).basis)
                 <= Telemetry!Certainty(Telemetry!Combined(before).basis)
           /\ Telemetry!Certainty(Telemetry!Combined(after).basis)
                 = Telemetry!Certainty(Telemetry!Combined(before).basis) =>
                    Telemetry!Combined(after).basis = Telemetry!Combined(before).basis
<1> DEFINE known == {"unknown", "estimated", "provider_reported", "included"}
           Bases(costs) == {costs[i].basis : i \in DOMAIN costs}
           rows1 == upstream.committed.rows
           rows2 == upstream'.committed.rows
<1>1. rows2 = rows1 \/ \E made \in Calls : rows2 = Append(rows1, made)
  <2>1. /\ DOMAIN upstream = {"file", "main", "committed", "old"}
        /\ DOMAIN upstream.committed = {"rows", "residual", "ended", "spent"}
    BY DEF Telemetry!TelemetryInv, Telemetry!HermesInv, Telemetry!IsContent, Telemetry!Empty
  <2>2. CASE usageVars' = usageVars
    BY <2>2 DEF usageVars
  <2>3. CASE Telemetry!Next
    <3>1. ASSUME NEW content, Telemetry!Commit(content) PROVE upstream'.committed = content
      BY <2>1, <3>1 DEF Telemetry!Commit
    <3>2. CASE Telemetry!Record
      BY <2>1, <3>1, <3>2 DEF Telemetry!Record
    <3>3. CASE Telemetry!EndSession
      BY <2>1, <3>1, <3>3 DEF Telemetry!EndSession
    <3>4. CASE Telemetry!Checkpoint
      BY <2>1, <3>4 DEF Telemetry!Checkpoint
    <3>5. ~Telemetry!Replace
      <4>1. SUFFICES ASSUME Telemetry!Replace PROVE FALSE
        OBVIOUS
      <4>2. upstream.file = 1 /\ upstream'.file = 2
        BY <2>1, <4>1 DEF Telemetry!Replace
      <4> QED BY <4>2
    <3>6. CASE upstream' = upstream
      BY <3>6
    <3> QED BY <2>3, <3>2, <3>3, <3>4, <3>5, <3>6, SourcesStepAlone
            DEF Telemetry!Open, Telemetry!Look, Telemetry!Connect, Telemetry!Begin,
                Telemetry!Backup, Telemetry!Import, Telemetry!Read
  <2> QED BY <2>2, <2>3
<1>2. rows1 \in Seq(Calls) /\ rows1 # << >>
  BY DEF Telemetry!TelemetryInv, Telemetry!HermesInv, Telemetry!IsContent
<1> HIDE DEF rows1, rows2
<1>3. /\ DOMAIN before = DOMAIN rows1 /\ \A i \in DOMAIN rows1 : before[i] = Telemetry!Cost(rows1[i])
      /\ DOMAIN after = DOMAIN rows2 /\ \A i \in DOMAIN rows2 : after[i] = Telemetry!Cost(rows2[i])
  BY DEF Telemetry!CostsOf, rows1, rows2
<1>4. ASSUME NEW i \in DOMAIN after PROVE after[i].basis \in known
  <2>1. after[i] # Telemetry!InvalidCost
    BY DEF Telemetry!Range
  <2>2. \A c : Telemetry!Cost(c) = Telemetry!InvalidCost \/ Telemetry!Cost(c).basis \in known
    BY DEF Telemetry!Cost, Telemetry!CostOf, Telemetry!NoCost
  <2> QED BY <1>3, <2>1, <2>2
<1>5. DOMAIN rows1 # {} /\ DOMAIN rows1 \subseteq DOMAIN rows2
      /\ \A i \in DOMAIN rows1 : rows2[i] = rows1[i]
  <2>1. Len(rows1) \in Nat \ {0} /\ DOMAIN rows1 = 1 .. Len(rows1)
    BY <1>2
  <2>2. 1 \in DOMAIN rows1
    BY <2>1
  <2>3. CASE rows2 = rows1
    BY <2>2, <2>3
  <2>4. ASSUME NEW made \in Calls, rows2 = Append(rows1, made)
        PROVE  /\ DOMAIN rows1 \subseteq DOMAIN rows2
               /\ \A i \in DOMAIN rows1 : rows2[i] = rows1[i]
    BY <1>2, <2>1, <2>4
  <2> QED BY <1>1, <2>2, <2>3, <2>4
<1>6. /\ Bases(before) # {} /\ Bases(before) \subseteq Bases(after) /\ Bases(after) \subseteq known
  BY <1>3, <1>4, <1>5
<1>7. Bases(after) = Bases(before) \/ \E b \in known : Bases(after) = Bases(before) \cup {b}
  <2>1. CASE rows2 = rows1
    BY <1>3, <2>1
  <2>2. CASE \E made \in Calls : rows2 = Append(rows1, made)
    <3>1. PICK made \in Calls : rows2 = Append(rows1, made)
      BY <2>2
    <3> DEFINE n == Len(rows1) + 1
    <3>2. DOMAIN rows2 = DOMAIN rows1 \cup {n}
      BY <1>2, <3>1
    <3> HIDE DEF n
    <3>3. \A i \in DOMAIN rows1 : after[i] = before[i]
      BY <1>3, <1>5
    <3>4. Bases(after) = Bases(before) \cup {after[n].basis} /\ after[n].basis \in known
      BY <1>3, <1>4, <3>2, <3>3
    <3> QED BY <3>4
  <2> QED BY <1>1, <2>1, <2>2
<1> DEFINE old == IF "unknown" \in Bases(before) THEN "unknown" ELSE Together(Bases(before))
           new == IF "unknown" \in Bases(after) THEN "unknown" ELSE Together(Bases(after))
<1>8. Telemetry!Combined(before).basis = old /\ Telemetry!Combined(after).basis = new
  <2>1. ASSUME NEW costs, Bases(costs) # {}, Bases(costs) \subseteq known
        PROVE  Telemetry!Combined(costs).basis =
                  IF "unknown" \in Bases(costs) THEN "unknown" ELSE Together(Bases(costs))
    <3>1. Telemetry!Basis(Bases(costs)) = Together(Bases(costs))
      BY <2>1, BasisIsTogether
    <3>2. Telemetry!Combined(costs).basis =
             IF Bases(costs) = {} \/ "unknown" \in Bases(costs) THEN "unknown"
             ELSE Telemetry!Basis(Bases(costs))
      BY CombinedIsOfBases
    <3> QED BY <2>1, <3>1, <3>2
  <2>2. Bases(before) \subseteq known /\ Bases(after) # {}
    BY <1>6
  <2> HIDE DEF Bases, known
  <2>3. Telemetry!Combined(before).basis = old
    BY <1>6, <2>1, <2>2
  <2>4. Telemetry!Combined(after).basis = new
    BY <1>6, <2>1, <2>2
  <2> QED BY <2>3, <2>4
<1> HIDE DEF Bases
<1>9. \E b \in known : Bases(after) = Bases(before) \cup {b}
  <2>1. PICK b \in Bases(before) : b \in known
    BY <1>6
  <2>2. Bases(before) = Bases(before) \cup {b}
    BY <2>1
  <2> QED BY <1>7, <2>1, <2>2
<1>10. /\ Telemetry!Certainty(new) <= Telemetry!Certainty(old)
       /\ Telemetry!Certainty(new) = Telemetry!Certainty(old) => new = old
  BY <1>6, <1>9, OneMoreBasis
<1> HIDE DEF old, new
<1> QED BY <1>8, <1>10

----------------------------------------------------------------------------
\* The specification.

PartsAreSound ==
    /\ part = "local" => Local!LocalInv
    /\ part = "capture" => Capture!CaptureInv
    /\ part = "matrix" => Matrix!MatrixInv
    /\ part = "bench" => Bench!BenchInv
    /\ part = "read" => Reading!ReadInv
    /\ part = "row" => TraceRow!RowIsPossible(row)
    /\ part = "harbor" => Harbor!HarborInv
    /\ part = "usage" => Telemetry!TelemetryInv

LEMMA PartsAreSoundHold == Spec => []PartsAreSound
<1>1. Init => PartsAreSound
  BY InitIsLocalInv, InitIsCaptureInv, InitIsMatrixInv, InitIsBenchInv, InitIsReadInv,
     InitIsPossibleRow, InitIsHarborInv, InitIsTelemetryInv DEF Init, PartsAreSound
<1>2. PartsAreSound /\ [Next]_vars => PartsAreSound'
  BY PartsMoveAlone, StepKeepsLocalInv, StepKeepsCaptureInv, StepKeepsMatrixInv,
     StepKeepsBenchInv, StepKeepsReadInv, StepKeepsPossibleRow, StepKeepsHarborInv,
     StepKeepsTelemetryInv DEF PartsAreSound
<1> QED BY <1>1, <1>2, PTL DEF Spec

(***************************************************************************)
(* Whatever the records, traces, reviews, captures and leaderboards: what  *)
(* failed stays visible and counts, no summary is made of what passed      *)
(* alone, and no command that failed runs on.                              *)
(***************************************************************************)
THEOREM FailuresStayHold == Spec => []FailuresStay
<1>1. PartsAreSound => FailuresStay
  BY LocalInvShowsFailures, AggregateCountsFailures, ImportIsAllOrNothing,
     CaptureInvEndsCommand, MatrixInvCountsRepetitions, BenchInvCountsRows
     DEF PartsAreSound, FailuresStay
<1> QED BY <1>1, PartsAreSoundHold, PTL

(***************************************************************************)
(* Evidence is of what it says it is of, whatever the constants: local     *)
(* records, files that are read, rows of traces, reviewed leaderboards,    *)
(* captures, matrices and usage.                                           *)
(***************************************************************************)
THEOREM EvidenceIsConsistentHolds == Spec => []EvidenceIsConsistent
<1>1. Matrix!MatrixInv => Matrix!PromptIsShortest /\ Matrix!PeakIsOfRequest
  BY DEF Matrix!MatrixInv, Matrix!Calibration, Matrix!RowsAreOwn
<1>2. Reading!ReadInv => Reading!ReadIsOfOneMoment
  BY DEF Reading!ReadInv
<1>3. PartsAreSound => EvidenceIsConsistent
  BY <1>1, <1>2, LocalInvIsOrderFree, LocalInvIsCold, CaptureInvIsAlone, MatrixInvIsOwn,
     PossibleChecksAgree, PossibleSchemaIsOfSameContract, HarborInvIsReviewed, HarborInvScores,
     TelemetryInvIsOfOneMoment, TelemetryInvTellsCallsApart
     DEF PartsAreSound, EvidenceIsConsistent
<1> QED BY <1>3, PartsAreSoundHold, PTL

(***************************************************************************)
(* More local records prove no smaller capacity; a file that was replaced  *)
(* while it was read is not returned by a reader that looks at the path    *)
(* again; a row from which a meter is left out stays acceptable; one more  *)
(* score on a leaderboard changes no other mapping; a report of which less *)
(* is known says the same of the rest; and one more call makes no total    *)
(* cost more certain.                                                      *)
(***************************************************************************)
RecordsOnlyRefine ==
    /\ Local!CapacityOnlyGrows
    /\ Reading!ReadIsNotReplaced
    /\ TraceRow!KnowingLessIsFine
    /\ Harbor!ScoresChangeNoMapping
    /\ Telemetry!KnowingLessIsFine
    /\ Telemetry!CostOnlyLessCertain

THEOREM RecordsOnlyRefineHold == Spec => RecordsOnlyRefine
<1>1. PartsAreSound /\ PartsAreSound' /\ [Next]_vars =>
        [LET old == Local!CapacityCatalog(records)
             new == Local!CapacityCatalog(records)'
         IN  old # Local!Unreadable /\ new # Local!Unreadable =>
                \A k \in DOMAIN old :
                    old[k].signals # None =>
                        /\ new[k].signals # None
                        /\ new[k].signals.capacity >= old[k].signals.capacity]_records
  BY PartsMoveAlone, StepRaisesCapacity DEF PartsAreSound
<1>2. PartsAreSound /\ [Next]_vars =>
        [reader'.pc = "returned" /\ reader.pc = "compared" /\ reader.kind.after
            => \/ blurred
               \/ reader'.got = files[path].blocks]_readVars
  BY PartsMoveAlone, StepIsNotReplaced DEF PartsAreSound
<1>3. PartsAreSound /\ [Next]_vars =>
        [TraceRow!AcceptedAsJson(row) => TraceRow!AcceptedAsJson(row')]_row
  BY PartsMoveAlone, LeavingOutIsFine DEF PartsAreSound, TraceRow!Next
<1>4. PartsAreSound /\ PartsAreSound' /\ [Next]_vars =>
        [LET old == Harbor!Imported(TRUE)
             new == Harbor!Import(board', reviewed', TRUE)
             Rest(b, id) == [b EXCEPT !.rows = [i \in DOMAIN b.rows |->
                                IF b.rows[i].id = id THEN [b.rows[i] EXCEPT !.score = 0]
                                ELSE b.rows[i]]]
         IN  reviewed' = reviewed =>
             \A id \in Ids :
                /\ Rest(board', id) = Rest(board, id)
                /\ old # Harbor!Refused /\ new # Harbor!Refused
                => \A other \in (DOMAIN old.mapped \cup DOMAIN new.mapped) \ {id} :
                      /\ other \in DOMAIN old.mapped /\ other \in DOMAIN new.mapped
                      /\ new.mapped[other] = old.mapped[other]]_boardVars
  <2>1. CASE part = "harbor"
    BY <2>1, PartsMoveAlone, StepChangesNoMapping DEF PartsAreSound, Harbor!Imported
  <2>2. CASE part # "harbor"
    BY <2>2, PartsMoveAlone
  <2> QED BY <2>1, <2>2
<1>5. PartsAreSound /\ [Next]_vars =>
        [source = "report" /\ Telemetry!Report(upstream) # Telemetry!Refused =>
           /\ Telemetry!Report(upstream') # Telemetry!Refused
           /\ \A m \in Telemetry!Meters :
                 Telemetry!Report(upstream')[m] \in {Telemetry!Report(upstream)[m], None}]_usageVars
  BY PartsMoveAlone, ForgettingIsFine DEF PartsAreSound
<1>6. PartsAreSound /\ [Next]_vars =>
        [source = "hermes" /\ upstream'.file = upstream.file /\ upstream.committed.rows # << >> =>
           LET before == Telemetry!CostsOf(upstream.committed.rows)
               after == Telemetry!CostsOf(upstream'.committed.rows)
           IN  Telemetry!InvalidCost \notin Telemetry!Range(after) =>
                 /\ Telemetry!Certainty(Telemetry!Combined(after).basis)
                       <= Telemetry!Certainty(Telemetry!Combined(before).basis)
                 /\ Telemetry!Certainty(Telemetry!Combined(after).basis)
                       = Telemetry!Certainty(Telemetry!Combined(before).basis) =>
                       Telemetry!Combined(after).basis = Telemetry!Combined(before).basis]_usageVars
  BY PartsMoveAlone, StepLosesCertainty DEF PartsAreSound
<1> QED BY <1>1, <1>2, <1>3, <1>4, <1>5, <1>6, PartsAreSoundHold, PTL
        DEF Spec, RecordsOnlyRefine, Local!CapacityOnlyGrows, Reading!ReadIsNotReplaced,
            TraceRow!KnowingLessIsFine, Harbor!ScoresChangeNoMapping, Telemetry!KnowingLessIsFine,
            Telemetry!CostOnlyLessCertain, Reading!vars, readVars, Harbor!vars, boardVars,
            Telemetry!vars, usageVars
=============================================================================
