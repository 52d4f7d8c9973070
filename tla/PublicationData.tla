-------------------------- MODULE PublicationData --------------------------
(***************************************************************************)
(* The artifacts of a ModelSkyline publication root, as publisher.py       *)
(* names, hashes and compares them.                                        *)
(*                                                                         *)
(* Every immutable artifact is content addressed, so it is modelled by its *)
(* content: two files have one path exactly when they have one content.    *)
(* A manifest's publication_id hashes its body and the id of the previous  *)
(* manifest, so a manifest is modelled by the chain of bodies that its id  *)
(* commits to, oldest first.                                               *)
(***************************************************************************)
EXTENDS Naturals, Sequences, FiniteSets

CONSTANTS
    Frontiers,        \* frontier ids the configuration declares
    Selections,       \* selection ids the configuration declares
    FrontierOf,       \* the frontier each selection ranks
    Evidence,         \* versions of the observation catalogs
    Redistributable,  \* the versions whose sources public mode authorizes
    Rules,            \* versions of the selection definitions
    NoRule,           \* stands in a frontier snapshot, which no rule shapes
    MaxTime,          \* bound: publication timestamps are 1..MaxTime
    MaxHistory        \* MAX_HISTORY_ENTRIES

ASSUME IdsAreDistinct == Frontiers \cap Selections = {}
ASSUME SelectionsRankFrontiers == FrontierOf \in [Selections -> Frontiers]
ASSUME RedistributableIsEvidence == Redistributable \subseteq Evidence
ASSUME NoRuleIsNoRule == NoRule \notin Rules
ASSUME MaxTimeIsPositive == MaxTime \in Nat \ {0}
ASSUME MaxHistoryIsPositive == MaxHistory \in Nat \ {0}

Ids == Frontiers \cup Selections
Times == 1 .. MaxTime

(***************************************************************************)
(* A FrontierSnapshot or a SelectionSnapshot.  A selection snapshot embeds *)
(* the id of the frontier snapshot it ranks, hence its evidence and time.  *)
(***************************************************************************)
Snapshots ==
    [id : Ids, evidence : Evidence, rule : Rules \cup {NoRule}, at : Times]

Histories == [Frontiers -> SUBSET Snapshots]

(***************************************************************************)
(* One call of publish_project: what to refresh, from which inputs, stamped*)
(* with which time, under which policy.  A selection can be asked for only *)
(* with its frontier.                                                      *)
(***************************************************************************)
Requests ==
    {r \in [ids : SUBSET Ids, evidence : Evidence, rule : Rules,
            at : Times, public : BOOLEAN] :
        /\ r.ids \cap Frontiers # {}
        /\ \A s \in r.ids \cap Selections : FrontierOf[s] \in r.ids}

\* The body of a PublicationManifest: all of it but the two identities.
Bodies ==
    [ids : SUBSET Ids, evidence : Evidence, rule : Rules, at : Times,
     public : BOOLEAN, history : Histories]

\* A manifest, as the chain of bodies its publication_id commits to.
Chains == Seq(Bodies)
NoManifest == <<>>

Newest(chain) == chain[Len(chain)]

\* The snapshot of id that is computed from the inputs of x, a request or a body.
SnapshotOf(id, x) ==
    [id |-> id, evidence |-> x.evidence,
     rule |-> IF id \in Frontiers THEN NoRule ELSE x.rule, at |-> x.at]

SnapshotsOf(x) == {SnapshotOf(id, x) : id \in x.ids}

\* The history file of f and the renderings that carry its content (the feed,
\* and the CSV and text tables of the newest snapshot).
DerivedOf(f, body) == [id |-> f, entries |-> body.history[f]]

DerivedFiles == [id : Frontiers, entries : SUBSET Snapshots]

DerivedFilesOf(body) == {DerivedOf(f, body) : f \in body.ids \cap Frontiers}

----------------------------------------------------------------------------
\* The committed history of every frontier: none before the first manifest.
NoHistory == [f \in Frontiers |-> {}]
OldHistory(chain) ==
    IF chain = NoManifest THEN NoHistory ELSE Newest(chain).history

\* Mutant: selections get a history like frontiers.
HistoryOfEverything(chain, r) ==
    [id \in Ids |->
        (IF id \in r.ids THEN {SnapshotOf(id, r)} ELSE {})
            \cup (IF id \in r.ids \cap Frontiers THEN OldHistory(chain)[id] ELSE {})]

\* Mutant: the history starts again with every publication.
ForgetfulHistory(chain, r) ==
    [f \in Frontiers |-> IF f \in r.ids THEN {SnapshotOf(f, r)} ELSE {}]

\* The snapshots of f that the publication of r puts in its history.
ExtendedHistory(chain, r) ==
    [f \in Frontiers |->
        IF f \in r.ids
        THEN OldHistory(chain)[f] \cup {SnapshotOf(f, r)}
        ELSE {}]

CandidateBody(chain, r) ==
    [ids |-> r.ids, evidence |-> r.evidence, rule |-> r.rule, at |-> r.at,
     public |-> r.public, history |-> ExtendedHistory(chain, r)]

\* Mutant: _same_publication is not asked.
AlwaysNewManifest(chain, r) == Append(chain, CandidateBody(chain, r))

(***************************************************************************)
(* The manifest a publication ends with: the current one if the candidate  *)
(* says nothing new (_same_publication), else the candidate chained to it. *)
(***************************************************************************)
FinalManifest(chain, r) ==
    IF chain # NoManifest /\ Newest(chain) = CandidateBody(chain, r)
    THEN chain
    ELSE Append(chain, CandidateBody(chain, r))

\* Every manifest that chain links to, itself included.
Ancestors(chain) == {SubSeq(chain, 1, i) : i \in 1 .. Len(chain)}

BodiesOf(chain) == {chain[i] : i \in 1 .. Len(chain)}

----------------------------------------------------------------------------
(***************************************************************************)
(* What an existing root asks of the next publication.                     *)
(***************************************************************************)

\* Every published id is refreshed: omission is no retirement.
Additive(chain, r) == chain # NoManifest => Newest(chain).ids \subseteq r.ids

\* The timestamp does not precede the current publication or any history entry.
NoRollback(chain, r) ==
    /\ chain # NoManifest => Newest(chain).at <= r.at
    /\ \A f \in r.ids \cap Frontiers :
          \A h \in OldHistory(chain)[f] : h.at <= r.at

\* One instant of a frontier names one snapshot.
NoEquivocation(chain, r) ==
    \A f \in r.ids \cap Frontiers :
        \A h \in OldHistory(chain)[f] : h.at = r.at => h = SnapshotOf(f, r)

\* Mutant: the retained history and the ancestors are not looked at.
CandidateLicensed(chain, r) == r.public => r.evidence \in Redistributable

(***************************************************************************)
(* Public mode authorizes the sources of the candidate, of every retained  *)
(* history entry and of every manifest in the chain.                       *)
(***************************************************************************)
Licensed(chain, r) ==
    r.public =>
        /\ r.evidence \in Redistributable
        /\ \A f \in Frontiers :
              \A h \in OldHistory(chain)[f] : h.evidence \in Redistributable
        /\ \A b \in BodiesOf(chain) : b.evidence \in Redistributable

Admissible(chain, r) ==
    /\ Additive(chain, r)
    /\ NoRollback(chain, r)
    /\ Licensed(chain, r)
    /\ NoEquivocation(chain, r)

\* No frontier history grows past the limit its readers enforce.
HistoryWithinLimit(chain, r) ==
    \A f \in r.ids \cap Frontiers :
        Cardinality(ExtendedHistory(chain, r)[f]) <= MaxHistory
=============================================================================
