------------------------- MODULE PublicationProofs -------------------------
(***************************************************************************)
(* Proofs about the register of Publication.tla, for any set of frontiers, *)
(* selections, evidence and rules, and any bounds.                         *)
(***************************************************************************)
EXTENDS Publication, TLAPS

\* Snapshots computed from requests and from bodies are snapshots.
LEMMA SnapshotOfIsSnapshot ==
    ASSUME NEW x, x.evidence \in Evidence, x.rule \in Rules, x.at \in Times,
           NEW id \in Ids
    PROVE  SnapshotOf(id, x) \in Snapshots
BY DEF SnapshotOf, Snapshots

\* The history before a publication is a history.
LEMMA OldHistoryType ==
    ASSUME NEW chain \in Chains
    PROVE  OldHistory(chain) \in Histories
<1>1. CASE chain = NoManifest
  BY <1>1 DEF OldHistory, NoHistory, Histories
<1>2. CASE chain # NoManifest
  <2>1. Len(chain) \in 1 .. Len(chain)
    BY <1>2 DEF Chains, NoManifest
  <2>2. Newest(chain) \in Bodies
    BY <2>1 DEF Newest, Chains
  <2> QED BY <1>2, <2>2 DEF OldHistory, Bodies
<1> QED BY <1>1, <1>2

\* The body a request proposes is a body, whose history covers every frontier.
LEMMA CandidateBodyType ==
    ASSUME NEW chain \in Chains, NEW r \in Requests
    PROVE  CandidateBody(chain, r) \in Bodies
<1>1. OldHistory(chain) \in Histories
  BY OldHistoryType
<1>2. \A f \in Frontiers : SnapshotOf(f, r) \in Snapshots
  BY SnapshotOfIsSnapshot DEF Requests, Ids
<1>3. ExtendedHistory(chain, r) \in Histories
  BY <1>1, <1>2 DEF ExtendedHistory, Histories
<1> QED BY <1>3 DEF CandidateBody, Bodies, Requests

----------------------------------------------------------------------------
\* What one entry of the chain says given the entries before it.
EntryInOrder(chain, i) == \A j \in 1 .. i : chain[j].at <= chain[i].at

EntryIsAdditive(chain, i) == \A j \in 1 .. i : chain[j].ids \subseteq chain[i].ids

HistoryHoldsEntries(chain, i) ==
    \A f \in Frontiers :
        chain[i].history[f] =
            {SnapshotOf(f, chain[j]) :
                j \in {k \in 1 .. i : f \in chain[k].ids}}

EntryIsLicensed(chain, i) ==
    chain[i].public =>
        \A j \in 1 .. i : chain[j].evidence \in Redistributable

HistoryHasOneSnapshotPerInstant(chain, i) ==
    \A f \in Frontiers : \A g, h \in chain[i].history[f] :
        g.at = h.at => g = h

EntryHolds(chain, i) ==
    /\ EntryInOrder(chain, i)
    /\ EntryIsAdditive(chain, i)
    /\ HistoryHoldsEntries(chain, i)
    /\ EntryIsLicensed(chain, i)
    /\ HistoryHasOneSnapshotPerInstant(chain, i)

(***************************************************************************)
(* The inductive invariant: every entry stands in the right relation to    *)
(* all the entries before it.                                              *)
(***************************************************************************)
IInv == TypeOK /\ \A i \in 1 .. Len(committed) : EntryHolds(committed, i)

----------------------------------------------------------------------------
(***************************************************************************)
(* An appended body inherits from the newest entry what the newest entry   *)
(* knows of all the entries before it.                                     *)
(***************************************************************************)
LEMMA AppendedEntryHolds ==
    ASSUME IInv, NEW r \in Requests, Admissible(committed, r),
           committed' = Append(committed, CandidateBody(committed, r))
    PROVE  EntryHolds(committed', Len(committed) + 1)
<1> DEFINE n == Len(committed)
           b == CandidateBody(committed, r)
<1>1. /\ b \in Bodies
      /\ committed \in Seq(Bodies)
      /\ n \in Nat
  BY CandidateBodyType DEF IInv, TypeOK, Chains
<1>2. /\ Len(committed') = n + 1
      /\ committed'[n + 1] = b
      /\ \A j \in 1 .. n : committed'[j] = committed[j]
  BY <1>1
<1>3. \A j \in 1 .. n : committed[j] \in Bodies
  BY <1>1
<1>4. ASSUME n # 0
      PROVE  /\ n \in 1 .. n
             /\ committed # NoManifest
             /\ EntryHolds(committed, n)
             /\ Newest(committed) = committed[n]
             /\ OldHistory(committed) = committed[n].history
  BY <1>1, <1>4 DEF IInv, NoManifest, Newest, OldHistory
<1>5. ASSUME n = 0 PROVE committed = NoManifest
  BY <1>1, <1>5 DEF NoManifest
<1>6. r.at \in Nat /\ \A j \in 1 .. n : committed[j].at \in Nat
  BY <1>3 DEF Requests, Bodies, Times
<1>7. /\ b.at = r.at /\ b.ids = r.ids /\ b.evidence = r.evidence
      /\ b.rule = r.rule /\ b.public = r.public
      /\ b.history = ExtendedHistory(committed, r)
  BY DEF CandidateBody
<1>8. EntryInOrder(committed', n + 1)
  <2>1. ASSUME NEW j \in 1 .. n PROVE committed[j].at <= r.at
    <3>1. committed[j].at <= committed[n].at
      BY <1>4, <2>1 DEF EntryHolds, EntryInOrder
    <3>2. committed[n].at <= r.at
      BY <1>4, <2>1 DEF Admissible, NoRollback
    <3> QED BY <1>4, <1>6, <2>1, <3>1, <3>2
  <2>2. ASSUME NEW j \in 1 .. n + 1 PROVE committed'[j].at <= committed'[n + 1].at
    <3>1. CASE j \in 1 .. n
      BY <1>2, <1>7, <2>1, <3>1
    <3>2. CASE j = n + 1
      BY <1>2, <1>6, <1>7, <3>2
    <3> QED BY <1>1, <3>1, <3>2
  <2> QED BY <2>2 DEF EntryInOrder
<1>9. EntryIsAdditive(committed', n + 1)
  <2>1. ASSUME NEW j \in 1 .. n PROVE committed[j].ids \subseteq r.ids
    <3>1. committed[j].ids \subseteq committed[n].ids
      BY <1>4, <2>1 DEF EntryHolds, EntryIsAdditive
    <3>2. committed[n].ids \subseteq r.ids
      BY <1>4, <2>1 DEF Admissible, Additive
    <3> QED BY <3>1, <3>2
  <2>2. ASSUME NEW j \in 1 .. n + 1
        PROVE  committed'[j].ids \subseteq committed'[n + 1].ids
    <3>1. CASE j \in 1 .. n
      BY <1>2, <1>7, <2>1, <3>1
    <3>2. CASE j = n + 1
      BY <3>2
    <3> QED BY <1>1, <3>1, <3>2
  <2> QED BY <2>2 DEF EntryIsAdditive
<1>10. EntryIsLicensed(committed', n + 1)
  <2>1. ASSUME r.public, NEW j \in 1 .. n + 1
        PROVE  committed'[j].evidence \in Redistributable
    <3>1. CASE j \in 1 .. n
      <4>1. committed[j] \in BodiesOf(committed)
        BY <3>1 DEF BodiesOf
      <4> QED BY <1>2, <2>1, <3>1, <4>1 DEF Admissible, Licensed
    <3>2. CASE j = n + 1
      BY <1>2, <1>7, <2>1, <3>2 DEF Admissible, Licensed
    <3> QED BY <1>1, <3>1, <3>2
  <2> QED BY <1>2, <1>7, <2>1 DEF EntryIsLicensed
<1>11. ASSUME NEW f \in Frontiers
       PROVE  SnapshotOf(f, b) = SnapshotOf(f, r)
  BY <1>7 DEF SnapshotOf
<1>12. HistoryHoldsEntries(committed', n + 1)
  <2>1. ASSUME NEW f \in Frontiers
        PROVE  committed'[n + 1].history[f] =
                 {SnapshotOf(f, committed'[j]) :
                    j \in {k \in 1 .. n + 1 : f \in committed'[k].ids}}
    <3> DEFINE Before == {SnapshotOf(f, committed[j]) :
                            j \in {k \in 1 .. n : f \in committed[k].ids}}
    <3>1. OldHistory(committed)[f] = Before
      <4>1. CASE n = 0
        <5>1. OldHistory(committed)[f] = {}
          BY <1>5, <4>1 DEF OldHistory, NoHistory
        <5>2. 1 .. n = {}
          BY <4>1
        <5> QED BY <5>1, <5>2
      <4>2. CASE n # 0
        BY <1>4, <4>2 DEF EntryHolds, HistoryHoldsEntries
      <4> QED BY <4>1, <4>2
    <3>2. CASE f \in r.ids
      <4>1. b.history[f] = Before \cup {SnapshotOf(f, r)}
        BY <1>7, <3>1, <3>2 DEF ExtendedHistory
      <4>2. {k \in 1 .. n + 1 : f \in committed'[k].ids} =
              {k \in 1 .. n : f \in committed[k].ids} \cup {n + 1}
        BY <1>1, <1>2, <1>7, <3>2
      <4>3. \A j \in {k \in 1 .. n : f \in committed[k].ids} :
               SnapshotOf(f, committed'[j]) = SnapshotOf(f, committed[j])
        BY <1>2
      <4>4. SnapshotOf(f, committed'[n + 1]) = SnapshotOf(f, r)
        BY <1>2, <1>11
      <4> QED BY <1>2, <4>1, <4>2, <4>3, <4>4
    <3>3. CASE f \notin r.ids
      <4>1. b.history[f] = {}
        BY <1>7, <3>3 DEF ExtendedHistory
      <4>2. ASSUME NEW k \in 1 .. n + 1 PROVE f \notin committed'[k].ids
        <5>1. committed'[k].ids \subseteq committed'[n + 1].ids
          BY <1>9 DEF EntryIsAdditive
        <5> QED BY <1>2, <1>7, <3>3, <5>1
      <4> QED BY <1>2, <4>1, <4>2
    <3> QED BY <3>2, <3>3
  <2> QED BY <2>1 DEF HistoryHoldsEntries
<1>13. HistoryHasOneSnapshotPerInstant(committed', n + 1)
  <2>1. ASSUME NEW f \in Frontiers, NEW g \in b.history[f], NEW h \in b.history[f],
               g.at = h.at
        PROVE  g = h
    <3>1. /\ f \in r.ids
          /\ b.history[f] = OldHistory(committed)[f] \cup {SnapshotOf(f, r)}
      BY <1>7, <2>1 DEF ExtendedHistory
    <3>2. ASSUME NEW x \in OldHistory(committed)[f], NEW y \in OldHistory(committed)[f],
                 x.at = y.at
          PROVE  x = y
      <4>1. n # 0
        BY <1>5, <3>2 DEF OldHistory, NoHistory
      <4> QED
        BY <1>4, <3>2, <4>1 DEF EntryHolds, HistoryHasOneSnapshotPerInstant
    <3>3. \A x \in OldHistory(committed)[f] : x.at = r.at => x = SnapshotOf(f, r)
      BY <3>1 DEF Admissible, NoEquivocation
    <3>4. SnapshotOf(f, r).at = r.at
      BY DEF SnapshotOf
    <3> QED BY <2>1, <3>1, <3>2, <3>3, <3>4
  <2> QED BY <1>2, <2>1 DEF HistoryHasOneSnapshotPerInstant
<1> QED BY <1>8, <1>9, <1>10, <1>12, <1>13 DEF EntryHolds

\* An append leaves what the earlier entries say as it was.
LEMMA EarlierEntriesHold ==
    ASSUME IInv, NEW b \in Bodies, committed' = Append(committed, b),
           NEW i \in 1 .. Len(committed)
    PROVE  EntryHolds(committed', i)
<1>1. \A j \in 1 .. i : committed'[j] = committed[j]
  BY DEF IInv, TypeOK, Chains
<1>2. i \in 1 .. i
  OBVIOUS
<1>3. EntryHolds(committed, i)
  BY DEF IInv
<1>4. EntryInOrder(committed', i) /\ EntryIsAdditive(committed', i) /\ EntryIsLicensed(committed', i)
  BY <1>1, <1>2, <1>3
  DEF EntryHolds, EntryInOrder, EntryIsAdditive, EntryIsLicensed
<1>5. HistoryHoldsEntries(committed', i)
  BY <1>1, <1>2, <1>3 DEF EntryHolds, HistoryHoldsEntries
<1>6. HistoryHasOneSnapshotPerInstant(committed', i)
  BY <1>1, <1>2, <1>3 DEF EntryHolds, HistoryHasOneSnapshotPerInstant
<1> QED BY <1>4, <1>5, <1>6 DEF EntryHolds

\* Every admissible publication preserves the invariant.
LEMMA PublishPreservesIInv ==
    ASSUME IInv, NEW r \in Requests, Publish(r)
    PROVE  IInv'
<1> DEFINE b == CandidateBody(committed, r)
<1>1. committed \in Chains /\ b \in Bodies
  BY CandidateBodyType DEF IInv, TypeOK
<1>2. CASE committed' = committed
  BY <1>2 DEF IInv, TypeOK, EntryHolds, EntryInOrder, EntryIsAdditive,
     EntryIsLicensed, HistoryHoldsEntries, HistoryHasOneSnapshotPerInstant
<1>3. CASE committed' = Append(committed, b)
  <2>1. TypeOK'
    BY <1>1, <1>3 DEF TypeOK, Chains
  <2>2. Len(committed') = Len(committed) + 1 /\ Len(committed) \in Nat
    BY <1>1, <1>3 DEF Chains
  <2>3. EntryHolds(committed', Len(committed) + 1)
    BY <1>3, AppendedEntryHolds DEF Publish
  <2>4. ASSUME NEW i \in 1 .. Len(committed) PROVE EntryHolds(committed', i)
    BY <1>1, <1>3, EarlierEntriesHold
  <2>5. ASSUME NEW i \in 1 .. Len(committed') PROVE EntryHolds(committed', i)
    <3>1. i \in 1 .. Len(committed) \/ i = Len(committed) + 1
      BY <2>2
    <3>2. CASE i = Len(committed) + 1
      BY <2>3, <3>2
    <3> QED BY <2>4, <3>1, <3>2
  <2> QED BY <2>1, <2>5 DEF IInv
<1> QED BY <1>2, <1>3 DEF Publish, FinalManifest

----------------------------------------------------------------------------
\* The invariant holds throughout every behaviour of the register.
THEOREM IInvHolds == Spec => []IInv
<1>1. Init => IInv
  BY DEF Init, IInv, TypeOK, NoManifest, Chains
<1>2. IInv /\ [Next]_committed => IInv'
  <2> SUFFICES ASSUME IInv, [Next]_committed PROVE IInv'
    OBVIOUS
  <2>1. CASE UNCHANGED committed
    BY <2>1 DEF IInv, TypeOK, EntryHolds, EntryInOrder, EntryIsAdditive,
       EntryIsLicensed, HistoryHoldsEntries, HistoryHasOneSnapshotPerInstant
  <2>2. CASE Next
    BY <2>2, PublishPreservesIInv DEF Next
  <2> QED BY <2>1, <2>2
<1> QED BY <1>1, <1>2, PTL DEF Spec

(***************************************************************************)
(* A committed history is exactly the snapshots of its ancestors.          *)
(***************************************************************************)
THEOREM HistoryIsChainHolds == Spec => []HistoryIsChain
<1>1. IInv => HistoryIsChain
  BY DEF IInv, EntryHolds, HistoryHoldsEntries, HistoryIsChain
<1> QED BY <1>1, IInvHolds, PTL

(***************************************************************************)
(* A public manifest never links to evidence that may not be redistributed.*)
(***************************************************************************)
THEOREM PublicChainIsLicensedHolds == Spec => []PublicChainIsLicensed
<1>1. IInv => PublicChainIsLicensed
  BY DEF IInv, EntryHolds, EntryIsLicensed, PublicChainIsLicensed
<1> QED BY <1>1, IInvHolds, PTL

(***************************************************************************)
(* Publication time never runs backwards, ids are never retired, and one   *)
(* instant names one snapshot of a frontier.                               *)
(***************************************************************************)
THEOREM ChainIsMonotone ==
    Spec => [](ChainInOrder /\ ChainIsAdditive /\ OneSnapshotPerInstant)
<1>1. ASSUME IInv PROVE ChainInOrder /\ ChainIsAdditive
  <2>1. ASSUME NEW i \in 1 .. Len(committed), NEW j \in 1 .. Len(committed), i <= j
        PROVE  /\ committed[i].at <= committed[j].at
               /\ committed[i].ids \subseteq committed[j].ids
    <3>1. i \in 1 .. j
      BY <2>1
    <3> QED BY <1>1, <3>1 DEF IInv, EntryHolds, EntryInOrder, EntryIsAdditive
  <2> QED BY <2>1 DEF ChainInOrder, ChainIsAdditive
<1>2. ASSUME IInv PROVE OneSnapshotPerInstant
  <2>1. ASSUME Len(committed) > 0 PROVE Len(committed) \in 1 .. Len(committed)
    BY <1>2, <2>1 DEF IInv, TypeOK, Chains
  <2> QED BY <1>2, <2>1 DEF IInv, EntryHolds, HistoryHasOneSnapshotPerInstant,
             OneSnapshotPerInstant, Newest
<1>3. IInv => ChainInOrder /\ ChainIsAdditive /\ OneSnapshotPerInstant
  BY <1>1, <1>2
<1> QED BY <1>3, IInvHolds, PTL
=============================================================================
