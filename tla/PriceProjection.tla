-------------------------- MODULE PriceProjection --------------------------
(***************************************************************************)
(* Historical benchmark runs priced by today's list prices. A reviewed     *)
(* mapping binds a run of the Aider leaderboard, as it was when it was     *)
(* reviewed, to one route of the models.dev catalog; a projection reads    *)
(* the three, refuses all of it if one entry no longer holds, and gives    *)
(* the catalog it makes a version. Leaderboard and prices change between   *)
(* projections; of the version it is asked that it changes exactly with    *)
(* the evidence the projection used.                                       *)
(*                                                                         *)
(* Digests are the values they are digests of, and the version of a        *)
(* leaderboard is its source. Prices are per token.                        *)
(***************************************************************************)
EXTENDS Integers, Sequences, FiniteSets, SequencesExt

CONSTANTS
    Boards,         \* captures of the leaderboard: version, that of its configuration, rows
    PriceLists,     \* states of models.dev: for each route, its record
    Acquisitions,   \* how prices are read: from where, what is claimed and asserted of them
    Bindings,       \* reviewed mappings
    Missing,        \* no row, no record
    None,           \* no effort, no status, no count
    MaxHour, MaxProjections

VARIABLES
    hour,
    loaded,         \* the prices a caller has loaded: from where, of when, and the label
    made,           \* the projections made
    outcome         \* of the last call

vars == << hour, loaded, made, outcome >>

-----------------------------------------------------------------------------
(* The mapping and what it selects                                         *)

EntriesOf(review) == ToSet(review.entries)
RouteOf(entry) == << entry.route, entry.effort >>

\* One run is priced once, and a candidate of a frontier has one run.
\* Mutant: only runs are compared.
OnlyRunsAreUnique(review) ==
    \A i, j \in DOMAIN review.entries :
        i # j => review.entries[i].run # review.entries[j].run
MappingsAreUnique(review) ==
    \A i, j \in DOMAIN review.entries :
        i # j => /\ review.entries[i].run # review.entries[j].run
                 /\ RouteOf(review.entries[i]) # RouteOf(review.entries[j])

\* The run is what the reviewer saw, and was one model's.
\* Mutant: the command that was reviewed is not compared.
SameModel(row, entry) == row.model = entry.model /\ row.effort = entry.effort /\ ~row.compound
RunIsAsReviewed(row, entry) ==
    /\ row.model = entry.model /\ row.effort = entry.effort
    /\ ~row.compound
    /\ row.command = entry.command
CountsAreKnown(row) ==
    /\ None \notin {row.prompt, row.completion, row.attempted, row.solved}
    /\ row.attempted > 0

\* The capture is that of its configuration, and all of one source.
IsOneCapture(capture) ==
    /\ capture.configured = capture.version
    /\ \A run \in DOMAIN capture.rows :
          capture.rows[run] # Missing => capture.rows[run].source = capture.version

\* A record whose id is not its key refuses the catalog, whether it is mapped or not.
IsCatalog(prices) ==
    \A route \in DOMAIN prices : prices[route] # Missing => prices[route].shape # "misnamed"

\* A record that says one price for text: tiers, a meter of its own for
\* reasoning, fields the adapter does not know, all are refused.
\* Mutant: tiers are taken for their first rate.
TakesTiers(record, entry) == record.shape \in {"flat", "tiered"}
SelectPrice(record, entry) ==
    /\ record.shape = "flat"
    /\ entry.effort # None => entry.effort \in record.efforts
    /\ record.status = "deprecated" => entry.old

EntryHolds(rows, prices, entry) ==
    /\ rows[entry.run] # Missing
    /\ RunIsAsReviewed(rows[entry.run], entry)
    /\ CountsAreKnown(rows[entry.run])
    /\ prices[entry.route] # Missing
    /\ SelectPrice(prices[entry.route], entry)
    /\ rows[entry.run].rate # None

\* Mutants: a rate the projection does not use is selected too; one is left out.
RatesOf(record) == [input |-> record.input, output |-> record.output]
WithCacheRate(route, record) ==
    [route |-> route, input |-> record.input, output |-> record.output,
     status |-> record.status, efforts |-> record.efforts, cache |-> record.cache]
InputOnly(route, record) ==
    [route |-> route, input |-> record.input, status |-> record.status,
     efforts |-> record.efforts]
SelectedRecord(route, record) ==
    [route |-> route, input |-> record.input, output |-> record.output,
     status |-> record.status, efforts |-> record.efforts]
SelectedPrices(prices, review) ==
    {SelectedRecord(e.route, prices[e.route]) : e \in EntriesOf(review)}

-----------------------------------------------------------------------------
(* Sources and versions                                                    *)

\* Prices that are fetched are of now; a file is of the time its owner claims. What
\* is official is fetched by the adapter itself, or asserted of a known digest.
CanLoad(how, prices) ==
    /\ how.remote <=> how.claimed = None
    /\ ~how.remote /\ how.asserted => how.expected # None
    /\ how.expected \in {None, prices}
IsOfficial(how) == (how.remote /\ how.own) \/ how.asserted
LoadedPrices(how, prices, at) ==
    [prices |-> prices, url |-> how.remote, official |-> IsOfficial(how),
     retrieved |-> IF how.remote THEN at ELSE how.claimed]

\* The whole catalog as it was acquired, and the selection from it.
CatalogSource(load) ==
    [id |-> IF load.official THEN "models-dev-api" ELSE "operator-models-dev-compatible",
     license |-> IF load.official THEN "MIT" ELSE "NOASSERTION",
     url |-> load.url, content |-> load.prices, retrieved |-> load.retrieved]
PricingSource(load, selected) ==
    [id |-> IF load.official THEN "models-dev-selected-cache-disabled-prices"
                             ELSE "operator-selected-cache-disabled-prices",
     license |-> IF load.official THEN "MIT" ELSE "NOASSERTION",
     url |-> load.official /\ load.url, content |-> selected, retrieved |-> load.retrieved]

\* Mutant: the time of retrieval is hashed.
VolatileDigest(source) == source
SemanticDigest(source) ==
    [id |-> source.id, license |-> source.license, url |-> source.url,
     content |-> source.content]

\* Mutant: the leaderboard's version is left out.
VersionOfPrices(capture, selected, source, review) ==
    << selected, SemanticDigest(source), review >>
WorkloadVersion(capture, selected, source, review) ==
    << capture.version, selected, SemanticDigest(source), review >>

-----------------------------------------------------------------------------
(* A projection                                                            *)

\* The price signals carry the source whose age the policy limits.
\* Mutant: the source of the whole catalog stays.
AcquiredSource(load, selected) == CatalogSource(load)
PriceSignalSource(load, selected) == PricingSource(load, selected)

Offering(capture, load, review, entry) ==
    LET row == capture.rows[entry.run]
        record == load.prices[entry.route]
    IN  [id |-> << entry.run, entry.route >>,
         route |-> RouteOf(entry),
         prompt |-> row.prompt, completion |-> row.completion,
         attempted |-> row.attempted, solved |-> row.solved, quality |-> row.rate,
         rates |-> RatesOf(record), status |-> record.status,
         cache |-> record.cache,
         source |-> PriceSignalSource(load, SelectedPrices(load.prices, review)),
         observed |-> load.retrieved]

Projection(capture, load, review) ==
    LET selected == SelectedPrices(load.prices, review)
        source == PricingSource(load, selected)
    IN  [capture |-> capture, load |-> load, review |-> review,
         version |-> WorkloadVersion(capture, selected, source, review),
         limits |-> << source.id, review.maxAge >>,
         offerings |-> {Offering(capture, load, review, e) : e \in EntriesOf(review)}]

CanProject(capture, load, review) ==
    /\ MappingsAreUnique(review)
    /\ IsOneCapture(capture)
    /\ IsCatalog(load.prices)
    /\ \A entry \in EntriesOf(review) : EntryHolds(capture.rows, load.prices, entry)

\* What a frontier computes: dollars of the whole run, and per solved unit
\* only where something was solved.
RunCost(offering) ==
    offering.prompt * offering.rates.input + offering.completion * offering.rates.output
HasCostPerSolved(offering) == offering.solved > 0

\* Eligible while the price is no older than the limit of its source.
Eligible(projection, offering, at) ==
    offering.source.id = projection.limits[1] => at - offering.observed <= projection.limits[2]

Init ==
    /\ hour = 0 /\ loaded = Missing /\ made = << >> /\ outcome = "none"

Pass ==
    /\ hour < MaxHour
    /\ hour' = hour + 1
    /\ UNCHANGED << loaded, made, outcome >>

\* A command loads prices once, and they are of no use to the next.
Load(how, prices) ==
    /\ loaded = Missing /\ Len(made) < MaxProjections
    /\ CanLoad(how, prices)
    /\ loaded' = LoadedPrices(how, prices, hour)
    /\ UNCHANGED << hour, made, outcome >>

RefuseLoad(how, prices) ==
    /\ loaded = Missing /\ Len(made) < MaxProjections
    /\ ~CanLoad(how, prices)
    /\ outcome' = "refused"
    /\ UNCHANGED << hour, loaded, made >>

Project(capture, review) ==
    /\ loaded # Missing /\ CanProject(capture, loaded, review)
    /\ made' = Append(made, Projection(capture, loaded, review))
    /\ loaded' = Missing /\ outcome' = "made"
    /\ UNCHANGED hour

Refuse(capture, review) ==
    /\ loaded # Missing /\ ~CanProject(capture, loaded, review)
    /\ loaded' = Missing /\ outcome' = "refused"
    /\ UNCHANGED << hour, made >>

Next ==
    \/ Pass
    \/ \E how \in Acquisitions, prices \in PriceLists :
           Load(how, prices) \/ RefuseLoad(how, prices)
    \/ \E capture \in Boards, review \in Bindings :
           Project(capture, review) \/ Refuse(capture, review)

-----------------------------------------------------------------------------
(* Properties                                                              *)

Made == ToSet(made)

\* What a consumer computes from an offering, without when the prices were
\* acquired.
Evidence(projection) ==
    {[id |-> o.id, cost |-> RunCost(o), rates |-> o.rates, status |-> o.status,
      perSolved |-> IF HasCostPerSolved(o) THEN << RunCost(o), o.solved >> ELSE None,
      attempted |-> o.attempted, quality |-> o.quality, route |-> o.route,
      source |-> SemanticDigest(o.source)] : o \in projection.offerings}

\* Two projections of one version are the same evidence, whenever they were
\* made and whatever else changed in the catalog (workload_digest).
VersionIdentifiesEvidence ==
    \A p, r \in Made : p.version = r.version => Evidence(p) = Evidence(r)

\* What the projection does not use changes no version: routes that are not
\* mapped, cache rates, the time of retrieval
\* (_selected_price_source_reference: "an unrelated provider or unused cache
\* meter can advance immutable history without pretending ...").
UnusedPricesKeepVersion ==
    \A p, r \in Made :
        /\ p.capture = r.capture /\ p.review = r.review
        /\ p.load.official = r.load.official /\ p.load.url = r.load.url
        /\ \A e \in EntriesOf(p.review) :
               LET one == p.load.prices[e.route]  other == r.load.prices[e.route]
               IN  /\ RatesOf(one) = RatesOf(other)
                   /\ one.status = other.status /\ one.efforts = other.efforts
        => p.version = r.version

\* Every mapped run is there, priced by the flat rates of the route that was
\* reviewed for it, and is still the run the reviewer saw; no two candidates
\* of a frontier are one route.
PricedAsReviewed ==
    \A p \in Made :
        /\ \A e \in EntriesOf(p.review) :
               LET row == p.capture.rows[e.run]
               IN  /\ row # Missing
                   /\ row.model = e.model /\ row.effort = e.effort /\ row.command = e.command
                   /\ p.load.prices[e.route].shape = "flat"
        /\ Cardinality(p.offerings) = Len(p.review.entries)
        /\ Cardinality({o.route : o \in p.offerings}) = Len(p.review.entries)

\* A frontier made now from an earlier projection has no price older than the
\* reviewed limit, whether its time was the clock's or claimed; and only prices
\* that the adapter itself read from models.dev, or that are asserted to be of it,
\* carry its license.
StalePricesExpire ==
    \A p \in Made : \A o \in p.offerings :
        /\ hour - p.load.retrieved > p.review.maxAge => ~Eligible(p, o, hour)
        /\ o.source.license = "MIT" => p.load.official

Spec == Init /\ [][Next]_vars

-----------------------------------------------------------------------------
(* What the proofs take of the constants: a version of a leaderboard is its
   source, and times are numbers. What was made stays what it was made of. *)

PricesArePossible ==
    /\ \A how \in Acquisitions : how.claimed \in Nat \cup {None}
    /\ \A review \in Bindings :
           review.entries \in Seq(EntriesOf(review)) /\ review.maxAge \in Nat
    /\ \A c, d \in Boards : c.version = d.version => c = d

MadeOf(p) ==
    /\ p.capture \in Boards /\ p.review \in Bindings /\ p.load.retrieved \in Nat
    /\ CanProject(p.capture, p.load, p.review)
    /\ p = Projection(p.capture, p.load, p.review)

PriceInv ==
    /\ hour \in Nat
    /\ loaded # Missing => loaded.retrieved \in Nat
    /\ made \in Seq(Made)
    /\ \A p \in Made : MadeOf(p)
=============================================================================
