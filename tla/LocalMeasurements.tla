------------------------- MODULE LocalMeasurements -------------------------
(***************************************************************************)
(* Catalogs of local measurements, as records are added one by one:        *)
(* build_local_catalog and build_local_capacity_catalog of                 *)
(* src/src/model_skyline/local_measurements.py.                            *)
(*                                                                         *)
(* A record says of which system it is (hardware, artifact and runtime),   *)
(* what was asked and under which conditions, and what was measured.  The  *)
(* order of the records is the caller's.                                   *)
(***************************************************************************)
EXTENDS Integers, Sequences

CONSTANTS
    Records,        \* bound: records that may be given
    MaxRecords,     \* bound: records in a run
    None            \* no check, no hits, no memory, no performance

VARIABLE records

\* No catalog: one that is made has an offering.
Unreadable == << >>

----------------------------------------------------------------------------
\* evidence_and_workload_are_consistent and the validators of its parts.
Valid(r) ==
    /\ r.tokens # None \/ r.check # None
    /\ r.tokens = None => r.hits = None /\ r.footprint = None
    /\ r.tokens # None => r.tokens <= r.capacity
    /\ r.hits # None => r.hits <= r.tokens
    /\ r.check # None => r.check.passed <= r.check.total /\ r.check.total > 0
    /\ r.check # None /\ r.check.passed > 0 => "long-context" \in r.capabilities

\* local_offering_key: the exact system, without what is only noted of it.
Key(r) == [system |-> r.system, capabilities |-> r.capabilities]

\* Mutant: a miss needs no proof.
IsUncachedByState(r) == r.cache \in {"disabled", "miss"}

\* _is_uncached: a miss is only that if the hits say so.
IsUncached(r) == r.cache = "disabled" \/ (r.cache = "miss" /\ r.hits = 0)

Passed(r) == r.check.passed = r.check.total

----------------------------------------------------------------------------
(***************************************************************************)
(* build_local_catalog.  What the response exposed (r.exposed) is no part  *)
(* of the position.                                                        *)
(***************************************************************************)
Position(r, cohort) ==
    <<r.kind, r.asked, IF cohort = "exact" THEN r.cache ELSE "uncached">>

Signals(r) ==
    (IF r.hits = None THEN {} ELSE {<<"hits", r.hits>>})
        \cup (IF r.check = None THEN {} ELSE {<<"check", r.check>>})
        \cup (IF r.check # None /\ Passed(r) /\ r.tokens # None
              THEN {<<"validated_context", r.tokens>>} ELSE {})

\* Mutant: only the first record is asked whether it is cached.
LocalCatalogOfFirst(s, cohort) ==
    IF \/ s = << >>
       \/ cohort = "uncached" /\ ~IsUncached(s[1])
       \/ \E i \in DOMAIN s : Position(s[i], cohort) # Position(s[1], cohort)
       \/ \E i, j \in DOMAIN s : i # j /\ Key(s[i]) = Key(s[j])
    THEN Unreadable
    ELSE [k \in {Key(s[i]) : i \in DOMAIN s} |->
            Signals(s[CHOOSE i \in DOMAIN s : Key(s[i]) = k])]

LocalCatalog(s, cohort) ==
    IF \/ s = << >>
       \/ cohort = "uncached" /\ \E i \in DOMAIN s : ~IsUncached(s[i])
       \/ \E i \in DOMAIN s : Position(s[i], cohort) # Position(s[1], cohort)
       \/ \E i, j \in DOMAIN s : i # j /\ Key(s[i]) = Key(s[j])
    THEN Unreadable
    ELSE [k \in {Key(s[i]) : i \in DOMAIN s} |->
            Signals(s[CHOOSE i \in DOMAIN s : Key(s[i]) = k])]

----------------------------------------------------------------------------
(***************************************************************************)
(* build_local_capacity_catalog: the ladder of positions of each system.   *)
(***************************************************************************)
\* Largest by actual tokens, then time, then name.
Above(q, r) ==
    \/ q.tokens > r.tokens
    \/ q.tokens = r.tokens /\ q.at > r.at
    \/ q.tokens = r.tokens /\ q.at = r.at /\ q.id > r.id

\* Mutant: the latest position counts, not the largest.
SelectedLatest(pool) ==
    CHOOSE r \in pool : \A q \in pool \ {r} : r.at > q.at \/ (r.at = q.at /\ Above(r, q))

Selected(pool) == CHOOSE r \in pool : \A q \in pool \ {r} : Above(r, q)

\* Mutant: systems in which nothing passed are left out.
EntryOfPassing(candidates) ==
    LET passing == {r \in candidates : Passed(r)}
    IN  [signals |-> IF passing = {} THEN None
                     ELSE [capacity |-> Selected(passing).tokens,
                           memory |-> Selected(passing).footprint],
         attempted |-> passing]

\* Without a passing position there is no signal, but there is an entry.
Entry(candidates) ==
    LET passing == {r \in candidates : Passed(r)}
        selected == Selected(IF passing # {} THEN passing ELSE candidates)
    IN  [signals |-> IF passing = {} THEN None
                     ELSE [capacity |-> selected.tokens,
                           memory |-> IF selected.memory # None THEN selected.memory
                                      ELSE selected.footprint],
         attempted |-> candidates]

CapacityCatalog(s) ==
    IF \/ s = << >>
       \/ \E i \in DOMAIN s : \/ s[i].kind # "retrieval" \/ ~IsUncached(s[i])
                              \/ s[i].tokens = None \/ s[i].check = None
                              \/ s[i].asked # s[1].asked
    THEN Unreadable
    ELSE LET Of(k) == {s[i] : i \in {j \in DOMAIN s : Key(s[j]) = k}}
             entries == [k \in {Key(s[i]) : i \in DOMAIN s} |-> Entry(Of(k))]
         IN  IF \E k \in DOMAIN entries :
                    entries[k].signals # None /\ entries[k].signals.memory = None
             THEN Unreadable ELSE entries

----------------------------------------------------------------------------
Init == records = << >>

Identified(r, n) == [f \in DOMAIN r \cup {"id"} |-> IF f = "id" THEN n ELSE r[f]]

\* A measurement is captured; its id says how many there were.
Capture(r) ==
    /\ Len(records) < MaxRecords
    /\ records' = Append(records, Identified(r, Len(records) + 1))

Next == \E r \in {x \in Records : Valid(x)} : Capture(r)

Spec == Init /\ [][Next]_records

----------------------------------------------------------------------------
(***************************************************************************)
(* Neither catalog depends on the order of the records, although every     *)
(* record is compared with the first.                                      *)
(***************************************************************************)
OrderIsFree ==
    \A p \in {f \in [DOMAIN records -> DOMAIN records] :
                \A i, j \in DOMAIN records : i # j => f[i] # f[j]} :
        LET other == [i \in DOMAIN records |-> records[p[i]]]
        IN  /\ CapacityCatalog(other) = CapacityCatalog(records)
            /\ \A cohort \in {"exact", "uncached"} :
                  LocalCatalog(other, cohort) = LocalCatalog(records, cohort)

(***************************************************************************)
(* The uncached cohort has no warm request in it, whatever it is called;   *)
(* and records that were all asked with the cache disabled are one cohort  *)
(* either way.                                                             *)
(***************************************************************************)
UncachedIsCold ==
    LET catalog == LocalCatalog(records, "uncached")
    IN  /\ catalog # Unreadable =>
              \A i \in DOMAIN records :
                  /\ records[i].cache = "disabled" \/ records[i].hits = 0
                  /\ records[i].cache # "warm"
        /\ (\A i \in DOMAIN records : records[i].cache = "disabled") =>
              catalog = LocalCatalog(records, "exact")

(***************************************************************************)
(* The ladder hides nothing: every attempt is in the entry of its system,  *)
(* and a system has a capacity exactly when one of its attempts passed, at *)
(* which everything beyond it failed.                                      *)
(***************************************************************************)
FailuresStay ==
    LET catalog == CapacityCatalog(records)
    IN  catalog # Unreadable =>
          \A i \in DOMAIN records :
              LET entry == catalog[Key(records[i])]
              IN  /\ records[i] \in entry.attempted
                  /\ Passed(records[i]) => entry.signals # None
                  /\ entry.signals # None /\ records[i].tokens > entry.signals.capacity
                        => ~Passed(records[i])

(***************************************************************************)
(* Measuring more never lowers a capacity: not by a failure, not by a      *)
(* smaller position, and not by measuring another system.                  *)
(***************************************************************************)
CapacityOnlyGrows ==
    [][LET old == CapacityCatalog(records)
           new == CapacityCatalog(records)'
       IN  old # Unreadable /\ new # Unreadable =>
              \A k \in DOMAIN old :
                  old[k].signals # None =>
                      /\ new[k].signals # None
                      /\ new[k].signals.capacity >= old[k].signals.capacity]_records
----------------------------------------------------------------------------
\* What the proofs take of the constants, and what makes the properties inductive.
Fields ==
    {"system", "capabilities", "notes", "kind", "asked", "cache", "hits", "capacity",
     "tokens", "check", "footprint", "memory", "at", "exposed"}
RecordsArePossible ==
    \A r \in Records :
        /\ DOMAIN r = Fields /\ r.tokens \in Nat \cup {None} /\ r.at \in Int
        /\ \A m \in {r.memory, r.footprint} : [capacity |-> r.tokens, memory |-> m] # None

Captured == {Identified(r, n) : r \in Records, n \in Nat}
AreCaptured(s) ==
    /\ s \in Seq(Captured)
    /\ \A i \in DOMAIN s : s[i].id = i
LocalInv == AreCaptured(records)
=============================================================================
