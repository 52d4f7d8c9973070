----------------------------- MODULE Discovery -----------------------------
(***************************************************************************)
(* Discovery of public offerings: discover_offerings,                      *)
(* frontier_admission_decisions and build_provisional_evidence_catalog of  *)
(* src/src/model_skyline/discovery.py.                                     *)
(*                                                                         *)
(* A catalog and feeds are fetched one after the other, from addresses     *)
(* that may be given twice and answer differently; a fetch that fails ends *)
(* the discovery.  An item without a usable id has the model None.  The id *)
(* of an offering of a feed is a hash of the address and the model written *)
(* one after the other: what two feeds name can have one id, and then the  *)
(* later replaces the earlier.  A price is a number, or Malformed.         *)
(***************************************************************************)
EXTENDS Naturals, FiniteSets, Sequences

CONSTANTS
    Catalog,        \* the address of the catalog
    Feeds,          \* addresses of feeds
    Responses,      \* bound: what an address can answer, a sequence of items
    MaxSources,     \* bound: addresses in a discovery
    MaxModels,      \* MAX_MODELS
    Matching,       \* the models that model_pattern matches
    TextOf,         \* the text of an address and a model, by <<url, model>>
    Benchmarks,     \* bound: lists of published benchmarks
    Malformed,      \* a price that is no number
    None            \* no usable id, no artifact, no catalog, no vendor quality

VARIABLES
    todo,           \* addresses still to fetch
    policy,         \* admission_policy
    offerings,      \* found so far, by id
    served,         \* what was answered, in order
    pc,
    artifact,
    provisional

vars == <<todo, policy, offerings, served, pc, artifact, provisional>>

KindOf(url) == IF url = Catalog THEN "catalog" ELSE "feed"

----------------------------------------------------------------------------
(***************************************************************************)
(* What a source gives.                                                    *)
(***************************************************************************)
\* The hash of a text stands for the text: no two texts are known to share one.
Id(url, model) ==
    IF url = Catalog THEN <<"openrouter", model>> ELSE <<"feed", TextOf[url, model]>>

Offering(url, item, by) ==
    LET kind == KindOf(url)
        reported == by = "vendor-reported" /\ kind = "feed"
    IN  [id |-> Id(url, item.model), url |-> url, model |-> item.model, kind |-> kind,
         facts |-> IF kind = "catalog" THEN item.facts ELSE << >>,
         quality |-> IF reported THEN "reported" ELSE None,
         admission |-> CASE by = "catalog-only" /\ kind = "catalog" -> "catalog-only*"
                         [] reported -> "vendor-reported*"
                         [] OTHER -> "review"]

\* A catalog is refused when it is too long or an item has no usable id.
Readable(url, items) ==
    url = Catalog => Len(items) <= MaxModels /\ \A i \in DOMAIN items : items[i].model # None

\* The items that count: of a catalog what the pattern matches, of a feed what has
\* a usable id, up to the limit.  Nothing is said of the others.
Named(items) == {i \in DOMAIN items : items[i].model # None}
Taken(url, items) ==
    IF url = Catalog THEN {i \in Named(items) : items[i].model \in Matching}
    ELSE {i \in Named(items) : Cardinality({j \in Named(items) : j <= i}) <= MaxModels}

Ids(url, items) == {Id(url, items[i].model) : i \in Taken(url, items)}

\* The items of an id, the first or the last of which it is that counts.
ItemsOf(id, url, items) == {i \in Taken(url, items) : Id(url, items[i].model) = id}
First(id, url, items) ==
    CHOOSE i \in ItemsOf(id, url, items) : \A j \in ItemsOf(id, url, items) : i <= j
Latest(id, url, items) ==
    CHOOSE i \in ItemsOf(id, url, items) : \A j \in ItemsOf(id, url, items) : j <= i

\* Mutant: what is found first under an id is kept.
MergeFirst(found, url, items) ==
    [id \in DOMAIN found \cup Ids(url, items) |->
        IF id \in DOMAIN found THEN found[id] ELSE Offering(url, items[First(id, url, items)], policy)]

\* A later item replaces an earlier one of the same id, of whatever source.
Merge(found, url, items) ==
    [id \in DOMAIN found \cup Ids(url, items) |->
        IF id \in Ids(url, items) THEN Offering(url, items[Latest(id, url, items)], policy) ELSE found[id]]

----------------------------------------------------------------------------
(***************************************************************************)
(* frontier_admission_decisions: one offering under the policy of a        *)
(* frontier.                                                               *)
(***************************************************************************)
Admit(marked, admission) ==
    [decision |-> "admit", marked |-> marked, admission |-> admission]
Exclude == [decision |-> "exclude", marked |-> FALSE, admission |-> "review"]

\* Mutant: what a vendor reports counts as an evaluation.
DecideByAnyQuality(o, p) ==
    IF o.quality # None THEN Admit(FALSE, "review")
    ELSE CASE p = "allow_catalog_only" /\ o.kind = "catalog" -> Admit(TRUE, "catalog-only*")
           [] p = "mark_unverified" -> Admit(TRUE, "unverified*")
           [] p = "allow_vendor_reported" ->
                 Admit(TRUE, IF o.kind = "catalog" THEN "catalog-only*" ELSE "vendor-reported*")
           [] OTHER -> Exclude

Decide(o, p) ==
    IF o.quality \notin {None, "reported"} THEN Admit(FALSE, "review")
    ELSE CASE p = "allow_catalog_only" /\ o.kind = "catalog" -> Admit(TRUE, "catalog-only*")
           [] p = "mark_unverified" -> Admit(TRUE, "unverified*")
           [] p = "allow_vendor_reported" ->
                 Admit(TRUE, IF o.kind = "catalog" THEN "catalog-only*" ELSE "vendor-reported*")
           [] OTHER -> Exclude

Policies == {"require_quality", "allow_catalog_only", "allow_vendor_reported", "mark_unverified"}

----------------------------------------------------------------------------
(***************************************************************************)
(* build_provisional_evidence_catalog.                                     *)
(***************************************************************************)
\* Where a price is read from: of two names, the first that is a number counts.
PriceNames == [input_cost |-> <<"prompt", "input">>, output_cost |-> <<"completion", "output">>]

\* What is read where some of the names of a price can be used.
Read(facts, usable) ==
    [s \in {<<"price", p>> : p \in {q \in DOMAIN PriceNames : usable[q] # {}}} |->
        facts[PriceNames[s[2]][IF 1 \in usable[s[2]] THEN 1 ELSE 2]]]

\* Mutant: the first name that is there counts, even if it is no number.
PricesByPresence(facts) ==
    Read(facts, [p \in DOMAIN PriceNames |->
                    {i \in 1 .. 2 : PriceNames[p][i] \in DOMAIN facts}])

Prices(facts) ==
    Read(facts, [p \in DOMAIN PriceNames |->
                    {i \in 1 .. 2 : /\ PriceNames[p][i] \in DOMAIN facts
                                   /\ facts[PriceNames[p][i]] # Malformed}])

\* A published score has a name of its own.
ProvisionalSignals(o, published) ==
    LET own == {b \in published : b.offering = o.id}
        scores == {<<"benchmark", b.benchmark>> : b \in own}
        prices == Prices(o.facts)
    IN  [s \in DOMAIN prices \cup scores |->
            IF s \in scores THEN (CHOOSE b \in own : b.benchmark = s[2]).score ELSE prices[s]]

Unambiguous(found, published) ==
    /\ \A b \in published : b.offering \in DOMAIN found
    /\ \A b \in published, c \in published :
          b.offering = c.offering /\ b.benchmark = c.benchmark => b = c

----------------------------------------------------------------------------
Init ==
    /\ todo \in (UNION {[1 .. n -> Feeds] : n \in 0 .. MaxSources - 1})
                \cup {<<Catalog>> \o s : s \in UNION {[1 .. n -> Feeds] : n \in 0 .. MaxSources - 1}}
    /\ todo # << >>
    /\ policy \in {"review", "catalog-only", "vendor-reported"}
    /\ offerings = << >> /\ served = << >> /\ pc = "fetching"
    /\ artifact = None /\ provisional = None

\* No answer, one that is refused, or an offering that does not validate.
Fail ==
    /\ pc = "fetching" /\ pc' = "error"
    /\ UNCHANGED <<todo, policy, offerings, served, artifact, provisional>>

Fetch(items) ==
    /\ pc = "fetching" /\ todo # << >> /\ todo' = Tail(todo)
    /\ Readable(Head(todo), items)
    /\ offerings' = Merge(offerings, Head(todo), items)
    /\ served' = Append(served, [url |-> Head(todo), items |-> items])
    /\ UNCHANGED <<policy, pc, artifact, provisional>>

\* All offerings together are limited as those of a source are.
Finish ==
    /\ pc = "fetching" /\ todo = << >>
    /\ IF Cardinality(DOMAIN offerings) <= MaxModels
       THEN /\ pc' = "discovered"
            /\ artifact' = [id \in DOMAIN offerings |->
                  [offering |-> offerings[id],
                   admissions |-> [p \in Policies |-> Decide(offerings[id], p)],
                   uncertain |-> offerings[id].admission # "review"]]
       ELSE pc' = "error" /\ UNCHANGED artifact
    /\ UNCHANGED <<todo, policy, offerings, served, provisional>>

\* Published benchmarks are read and joined with what was discovered.
Provide(published) ==
    /\ pc = "discovered"
    /\ IF Unambiguous(artifact, published)
       THEN /\ pc' = "provided"
            /\ provisional' =
                  LET all == [id \in DOMAIN artifact |-> ProvisionalSignals(artifact[id].offering, published)]
                  IN  [published |-> published,
                       records |-> [id \in {i \in DOMAIN all : DOMAIN all[i] # {}} |-> all[id]]]
       ELSE pc' = "error" /\ UNCHANGED provisional
    /\ UNCHANGED <<todo, policy, offerings, served, artifact>>

Next ==
    \/ Fail
    \/ \E items \in Responses : Fetch(items)
    \/ Finish
    \/ \E published \in Benchmarks : Provide(published)

Spec == Init /\ [][Next]_vars

----------------------------------------------------------------------------
\* What was told, as the positions of fetches and items.
Told == UNION {{<<i, j>> : j \in Taken(served[i].url, served[i].items)} : i \in DOMAIN served}
ItemTold(t) == served[t[1]].items[t[2]]
IdTold(t) == Id(served[t[1]].url, ItemTold(t).model)
ToldLater(t, u) == t[1] < u[1] \/ (t[1] = u[1] /\ t[2] < u[2])
ToldLast(t) == \A u \in Told : ToldLater(t, u) => IdTold(u) # IdTold(t)
OfferingTold(t) == Offering(served[t[1]].url, ItemTold(t), policy)

(***************************************************************************)
(* Of what a response says and the limit, the pattern and the ids let      *)
(* through, nothing is lost or mixed up: the artifact has an offering for  *)
(* each id, and it is what was said last under that id, with the address   *)
(* that said it, wherever else the model was found and however often the   *)
(* address was fetched. An item replaces another only under one id: where  *)
(* a source repeats it, an address is given twice, or the addresses and    *)
(* models of two feeds join to one text.                                   *)
(***************************************************************************)
LatestOfEverySource ==
    artifact # None =>
        /\ DOMAIN artifact = {IdTold(t) : t \in Told}
        /\ \A t \in Told : ToldLast(t) => artifact[IdTold(t)].offering = OfferingTold(t)

AllMarked(by) ==
    LET Admitted(p) == by[p].decision = "admit"
    IN  /\ \A p \in Policies : Admitted(p) => by[p].marked /\ by[p].admission # "review"
        /\ ~Admitted("require_quality")
        /\ Admitted("allow_catalog_only") => Admitted("allow_vendor_reported")
        /\ Admitted("allow_vendor_reported") => Admitted("mark_unverified")

(***************************************************************************)
(* Discovery is not evaluation: nothing that was only discovered enters a  *)
(* frontier unmarked, whatever the vendor reports and the operator         *)
(* declares; and each policy admits what the stricter ones admit.          *)
(***************************************************************************)
NeverUnmarked ==
    artifact # None => \A id \in DOMAIN artifact : AllMarked(artifact[id].admissions)

\* What some names have for a price.
Given(facts, names) == {facts[n] : n \in names \cap DOMAIN facts} \ {Malformed}

PricedBy(id, price, names) ==
    LET given == Given(artifact[id].offering.facts, names)
    IN  IF given = {}
        THEN id \in DOMAIN provisional.records =>
                <<"price", price>> \notin DOMAIN provisional.records[id]
        ELSE provisional.records[id][<<"price", price>>] \in given

(***************************************************************************)
(* The provisional catalog has every published score and every price that  *)
(* is a number, and no score stands where a price does.                    *)
(***************************************************************************)
EvidenceStaysApart ==
    provisional # None =>
        /\ \A b \in provisional.published :
              /\ b.offering \in DOMAIN provisional.records
              /\ provisional.records[b.offering][<<"benchmark", b.benchmark>>] = b.score
        /\ \A id \in DOMAIN artifact :
              /\ PricedBy(id, "input_cost", {"prompt", "input"})
              /\ PricedBy(id, "output_cost", {"completion", "output"})

----------------------------------------------------------------------------
\* What the proofs take of the constants, and an inductive invariant: what is found
\* was told last, by the source it is named after, and evaluated by nobody.
ResponsesArePossible ==
    /\ \A items \in Responses : Len(items) \in Nat /\ DOMAIN items = 1 .. Len(items)

FoundIsLatest ==
    /\ DOMAIN offerings = {IdTold(t) : t \in Told}
    /\ \A t \in Told : ToldLast(t) => offerings[IdTold(t)] = OfferingTold(t)
    /\ \A id \in DOMAIN offerings :
          offerings[id].id = id /\ offerings[id].quality \in {None, "reported"}

ArtifactIsOfFound ==
    artifact # None \/ pc \in {"discovered", "provided"} =>
        /\ DOMAIN artifact = DOMAIN offerings
        /\ \A id \in DOMAIN artifact : artifact[id].offering = offerings[id]

DiscoveryInv ==
    /\ todo \in Seq({Catalog} \cup Feeds)
    /\ served \in Seq([url : {Catalog} \cup Feeds, items : Responses])
    /\ FoundIsLatest /\ ArtifactIsOfFound
    /\ pc = "fetching" => artifact = None /\ provisional = None
    /\ NeverUnmarked /\ EvidenceStaysApart
=============================================================================
