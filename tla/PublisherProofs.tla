-------------------------- MODULE PublisherProofs --------------------------
(***************************************************************************)
(* Proofs about Publisher.tla, for any number of writers, frontiers,       *)
(* selections, any evidence and any bounds.                                *)
(***************************************************************************)
EXTENDS Publisher, TLAPS

----------------------------------------------------------------------------
\* What the operators of PublicationData return, and which manifests a publication
\* adds to those a reader can walk to.

\* Snapshots computed from requests and from bodies are snapshots.
LEMMA SnapshotOfIsSnapshot ==
    ASSUME NEW x, x.evidence \in Evidence, x.rule \in Rules, x.at \in Times,
           NEW id \in Ids
    PROVE  SnapshotOf(id, x) \in Snapshots
BY DEF SnapshotOf, Snapshots

\* The history before a publication is a history.
LEMMA OldHistoryType ==
    ASSUME NEW chain \in Chains
    PROVE  OldHistory(chain) \in Histories
<1>1. CASE chain = NoManifest
  BY <1>1 DEF OldHistory, NoHistory, Histories
<1>2. CASE chain # NoManifest
  <2>1. Len(chain) \in 1 .. Len(chain)
    BY <1>2 DEF Chains, NoManifest
  <2>2. Newest(chain) \in Bodies
    BY <2>1 DEF Newest, Chains
  <2> QED BY <1>2, <2>2 DEF OldHistory, Bodies
<1> QED BY <1>1, <1>2

\* The body a request proposes is a body, whose history covers every frontier.
LEMMA CandidateBodyType ==
    ASSUME NEW chain \in Chains, NEW r \in Requests
    PROVE  CandidateBody(chain, r) \in Bodies
<1>1. OldHistory(chain) \in Histories
  BY OldHistoryType
<1>2. \A f \in Frontiers : SnapshotOf(f, r) \in Snapshots
  BY SnapshotOfIsSnapshot DEF Requests, Ids
<1>3. ExtendedHistory(chain, r) \in Histories
  BY <1>1, <1>2 DEF ExtendedHistory, Histories
<1> QED BY <1>3 DEF CandidateBody, Bodies, Requests

\* The manifest a publication ends with is a chain.
LEMMA FinalManifestType ==
    ASSUME NEW chain \in Chains, NEW r \in Requests
    PROVE  FinalManifest(chain, r) \in Chains \ {NoManifest}
<1>1. CandidateBody(chain, r) \in Bodies
  BY CandidateBodyType
<1>2. Append(chain, CandidateBody(chain, r)) \in Chains \ {NoManifest}
  BY <1>1 DEF Chains, NoManifest
<1> QED BY <1>2 DEF FinalManifest


\* The manifest a publication ends with has the candidate's body on top.
LEMMA NewestIsCandidate ==
    ASSUME NEW chain \in Chains, NEW r \in Requests
    PROVE  Newest(FinalManifest(chain, r)) = CandidateBody(chain, r)
<1> DEFINE b == CandidateBody(chain, r)
<1>1. b \in Bodies
  BY CandidateBodyType
<1>2. Len(Append(chain, b)) = Len(chain) + 1 /\ Len(chain) \in Nat
  BY <1>1 DEF Chains
<1>3. Append(chain, b)[Len(chain) + 1] = b
  BY <1>1 DEF Chains
<1>4. Newest(Append(chain, b)) = b
  BY <1>2, <1>3 DEF Newest
<1> QED BY <1>4 DEF FinalManifest

\* The candidate's snapshots are those the request computed.
LEMMA CandidateSnapshots ==
    ASSUME NEW chain, NEW r
    PROVE  /\ CandidateBody(chain, r).ids = r.ids
           /\ \A id : SnapshotOf(id, CandidateBody(chain, r)) = SnapshotOf(id, r)
           /\ SnapshotsOf(CandidateBody(chain, r)) = SnapshotsOf(r)
BY DEF CandidateBody, SnapshotOf, SnapshotsOf

\* A manifest is the last of its own ancestors.
LEMMA SelfIsAncestor ==
    ASSUME NEW chain \in Chains \ {NoManifest}
    PROVE  chain \in Ancestors(chain)
<1>1. Len(chain) \in 1 .. Len(chain)
  BY DEF Chains, NoManifest
<1>2. SubSeq(chain, 1, Len(chain)) = chain
  BY DEF Chains
<1> QED BY <1>1, <1>2 DEF Ancestors

\* A publication adds one manifest to those a reader can walk to.
LEMMA AncestorsOfFinal ==
    ASSUME NEW chain \in Chains, NEW r \in Requests
    PROVE  Ancestors(FinalManifest(chain, r)) \subseteq
              Ancestors(chain) \cup {FinalManifest(chain, r)}
<1> DEFINE b == CandidateBody(chain, r)
           longer == Append(chain, b)
<1>1. b \in Bodies
  BY CandidateBodyType
<1>2. longer \in Chains /\ Len(longer) = Len(chain) + 1 /\ Len(chain) \in Nat
  BY <1>1 DEF Chains
<1>3. ASSUME NEW i \in 1 .. Len(longer)
      PROVE  SubSeq(longer, 1, i) \in Ancestors(chain) \cup {longer}
  <2>1. CASE i \in 1 .. Len(chain)
    <3>1. SubSeq(longer, 1, i) = SubSeq(chain, 1, i)
      BY <1>1, <2>1 DEF Chains
    <3> QED BY <2>1, <3>1 DEF Ancestors
  <2>2. CASE i = Len(longer)
    <3>1. SubSeq(longer, 1, i) = longer
      BY <1>2, <2>2 DEF Chains
    <3> QED BY <3>1
  <2> QED BY <1>2, <2>1, <2>2
<1>4. Ancestors(longer) \subseteq Ancestors(chain) \cup {longer}
  BY <1>3 DEF Ancestors
<1> QED BY <1>4 DEF FinalManifest

\* A publication adds one body to those of the chain, and drops no ancestor.
LEMMA FinalExtendsChain ==
    ASSUME NEW chain \in Chains, NEW r \in Requests
    PROVE  /\ Ancestors(chain) \subseteq Ancestors(FinalManifest(chain, r))
           /\ BodiesOf(FinalManifest(chain, r)) =
                 BodiesOf(chain) \cup {CandidateBody(chain, r)}
<1> DEFINE b == CandidateBody(chain, r)
           longer == Append(chain, b)
<1>1. b \in Bodies
  BY CandidateBodyType
<1>2. longer \in Chains /\ Len(longer) = Len(chain) + 1 /\ Len(chain) \in Nat
  BY <1>1 DEF Chains
<1>3. CASE FinalManifest(chain, r) = chain /\ chain # NoManifest /\ Newest(chain) = b
  <2>1. Len(chain) \in 1 .. Len(chain)
    BY <1>3 DEF Chains, NoManifest
  <2>2. b \in BodiesOf(chain)
    BY <1>3, <2>1 DEF BodiesOf, Newest
  <2> QED BY <1>3, <2>2
<1>4. CASE FinalManifest(chain, r) = longer
  <2>1. ASSUME NEW i \in 1 .. Len(chain)
        PROVE  /\ SubSeq(longer, 1, i) = SubSeq(chain, 1, i)
               /\ longer[i] = chain[i]
               /\ i \in 1 .. Len(longer)
    BY <1>1, <1>2, <2>1 DEF Chains
  <2>2. longer[Len(chain) + 1] = b /\ Len(chain) + 1 \in 1 .. Len(longer)
    BY <1>1, <1>2 DEF Chains
  <2>3. Ancestors(chain) \subseteq Ancestors(longer)
    BY <2>1 DEF Ancestors
  <2>4. BodiesOf(chain) \cup {b} \subseteq BodiesOf(longer)
    BY <2>1, <2>2 DEF BodiesOf
  <2>5. ASSUME NEW i \in 1 .. Len(longer)
        PROVE  longer[i] \in BodiesOf(chain) \cup {b}
    <3>1. CASE i \in 1 .. Len(chain)
      BY <2>1, <3>1 DEF BodiesOf
    <3>2. CASE i = Len(chain) + 1
      BY <2>2, <3>2
    <3> QED BY <1>2, <3>1, <3>2
  <2>6. BodiesOf(longer) \subseteq BodiesOf(chain) \cup {b}
    BY <2>5 DEF BodiesOf
  <2> QED BY <1>4, <2>3, <2>4, <2>6
<1> QED BY <1>3, <1>4 DEF FinalManifest

(***************************************************************************)
(* _same_publication recognizes the request that made the newest manifest: *)
(* its snapshots are in the history already, so it changes nothing.        *)
(***************************************************************************)
LEMMA RequestIsSettled ==
    ASSUME NEW chain \in Chains, NEW r \in Requests, Admissible(chain, r)
    PROVE  LET made == FinalManifest(chain, r)
           IN  /\ ExtendedHistory(made, r) = ExtendedHistory(chain, r)
               /\ FinalManifest(made, r) = made
               /\ Admissible(made, r)
<1> DEFINE b == CandidateBody(chain, r)
           made == FinalManifest(chain, r)
<1>1. /\ made \in Chains /\ made # NoManifest
      /\ Newest(made) = b
      /\ BodiesOf(made) = BodiesOf(chain) \cup {b}
  BY FinalManifestType, NewestIsCandidate, FinalExtendsChain
<1>2. /\ OldHistory(made) = ExtendedHistory(chain, r)
      /\ b.ids = r.ids /\ b.at = r.at /\ b.evidence = r.evidence
  BY <1>1 DEF OldHistory, CandidateBody
<1>3. /\ \A f \in r.ids \cap Frontiers :
            OldHistory(made)[f] = OldHistory(chain)[f] \cup {SnapshotOf(f, r)}
      /\ \A f \in Frontiers \ r.ids : OldHistory(made)[f] = {}
  BY <1>2 DEF ExtendedHistory
<1>4. ExtendedHistory(made, r) = ExtendedHistory(chain, r)
  BY <1>3 DEF ExtendedHistory
<1>5. FinalManifest(made, r) = made
  <2>1. CandidateBody(made, r) = b
    BY <1>4 DEF CandidateBody
  <2> QED BY <1>1, <2>1 DEF FinalManifest
<1>6. Additive(made, r)
  BY <1>1, <1>2 DEF Additive
<1>7. r.at \in Nat /\ \A f : SnapshotOf(f, r).at = r.at /\ SnapshotOf(f, r).evidence = r.evidence
  BY DEF Requests, Times, SnapshotOf
<1>8. NoRollback(made, r)
  <2>1. b.at <= r.at
    BY <1>2, <1>7
  <2>2. ASSUME NEW f \in r.ids \cap Frontiers, NEW h \in OldHistory(made)[f]
        PROVE  h.at <= r.at
    <3>1. h \in OldHistory(chain)[f] \/ h = SnapshotOf(f, r)
      BY <1>3
    <3>2. CASE h \in OldHistory(chain)[f]
      BY <3>2 DEF Admissible, NoRollback
    <3>3. CASE h = SnapshotOf(f, r)
      BY <1>7, <3>3
    <3> QED BY <3>1, <3>2, <3>3
  <2> QED BY <1>1, <2>1, <2>2 DEF NoRollback
<1>9. NoEquivocation(made, r)
  BY <1>3 DEF Admissible, NoEquivocation
<1>10. Licensed(made, r)
  <2> SUFFICES ASSUME r.public PROVE
         /\ r.evidence \in Redistributable
         /\ \A f \in Frontiers :
               \A h \in OldHistory(made)[f] : h.evidence \in Redistributable
         /\ \A x \in BodiesOf(made) : x.evidence \in Redistributable
    BY DEF Licensed
  <2>1. /\ r.evidence \in Redistributable
        /\ \A f \in Frontiers :
              \A h \in OldHistory(chain)[f] : h.evidence \in Redistributable
        /\ \A x \in BodiesOf(chain) : x.evidence \in Redistributable
    BY DEF Admissible, Licensed
  <2>2. \A f \in Frontiers :
           \A h \in OldHistory(made)[f] : h.evidence \in Redistributable
    BY <1>3, <1>7, <2>1
  <2> QED BY <1>1, <1>2, <2>1, <2>2
<1> QED BY <1>4, <1>5, <1>6, <1>8, <1>9, <1>10 DEF Admissible

----------------------------------------------------------------------------
\* The lock is held by the one writer that is past it.
LockProtects ==
    \A w \in Writers : pc[w] \in {"locked", "writing"} <=> holder = w

\* A call in progress has its request; one that writes was accepted by the
\* root as it still is, and knows the manifest it is about to commit.
CallsAreReady ==
    \A w \in Writers :
        /\ pc[w] # "idle" => req[w] \in Requests
        /\ pc[w] = "writing" =>
              /\ Admissible(tree.latest, req[w])
              /\ final[w] = FinalManifest(tree.latest, req[w])

\* What root latest.json holds is stored as an immutable manifest.
RootIsStored == tree.latest # NoManifest => tree.latest \in tree.publications

\* Every stored manifest can be read with all its ancestors.
StoredManifestsLoad ==
    \A m \in tree.publications :
        /\ m # NoManifest
        /\ \A a \in Ancestors(m) : ManifestLoads(a)

(***************************************************************************)
(* The inductive invariant.  NoDanglingManifest alone is not inductive:    *)
(* that the next manifest loads rests on the lock, which keeps the root as *)
(* the writer found it, and on the root being stored itself.               *)
(***************************************************************************)
IInv ==
    /\ TypeOK
    /\ LockProtects
    /\ CallsAreReady
    /\ RootIsStored
    /\ StoredManifestsLoad
    /\ AliasNamesStored

LEMMA InitIInv == Init => IInv
<1> SUFFICES ASSUME Init PROVE IInv
  OBVIOUS
<1>1. TypeOK
  BY DEF Init, TypeOK, EmptyTree, NoHistory, Histories, NoManifest, Chains
<1>2. LockProtects /\ CallsAreReady
  BY NoWriterIsNoWriter DEF Init, LockProtects, CallsAreReady
<1>3. RootIsStored /\ StoredManifestsLoad /\ AliasNamesStored
  BY DEF Init, EmptyTree, RootIsStored, StoredManifestsLoad, AliasNamesStored,
     NoHistory
<1> QED BY <1>1, <1>2, <1>3 DEF IInv

----------------------------------------------------------------------------
\* Files are only added, so what could be read still can.
LEMMA LoadsWhileFilesGrow ==
    ASSUME tree.snapshots \subseteq tree'.snapshots,
           tree.derived \subseteq tree'.derived,
           tree.publications \subseteq tree'.publications,
           NEW m, ManifestLoads(m)
    PROVE  ManifestLoads(m)'
BY DEF ManifestLoads

(***************************************************************************)
(* With all its own files written, the manifest a writer is about to store *)
(* loads, and so do its ancestors.                                         *)
(***************************************************************************)
LEMMA FinalManifestLoads ==
    ASSUME IInv, NEW w \in Writers, pc[w] = "writing", ImmutablesWritten(w),
           tree'.snapshots = tree.snapshots, tree'.derived = tree.derived,
           tree'.publications = tree.publications \cup {final[w]},
           NEW a \in Ancestors(final[w])
    PROVE  ManifestLoads(a)'
<1> DEFINE chain == tree.latest
           r == req[w]
<1>1. /\ chain \in Chains
      /\ r \in Requests
      /\ final[w] = FinalManifest(chain, r)
  BY DEF IInv, TypeOK, CallsAreReady
<1>2. ASSUME a \in Ancestors(chain) PROVE ManifestLoads(a)'
  <2>1. chain # NoManifest
    BY <1>2 DEF Ancestors, NoManifest
  <2>2. ManifestLoads(a)
    BY <1>2, <2>1 DEF IInv, RootIsStored, StoredManifestsLoad
  <2> QED BY <2>2, LoadsWhileFilesGrow
<1>3. ASSUME a = final[w] PROVE ManifestLoads(a)'
  <2> DEFINE b == CandidateBody(chain, r)
  <2>1. Newest(a) = b
    BY <1>1, <1>3, NewestIsCandidate
  <2>2. SnapshotsOf(b) \subseteq tree.snapshots
    BY CandidateSnapshots DEF ImmutablesWritten, MissingSnapshots
  <2>3. DerivedFilesOf(b) \subseteq tree.derived
    BY <1>3, <2>1 DEF ImmutablesWritten, MissingDerived
  <2>4. ASSUME NEW f \in Frontiers PROVE b.history[f] \subseteq tree.snapshots
    <3>1. OldHistory(chain)[f] \subseteq tree.snapshots
      <4>1. CASE chain = NoManifest
        BY <4>1 DEF OldHistory, NoHistory
      <4>2. CASE chain # NoManifest
        <5>1. chain \in Ancestors(chain)
          BY <1>1, <4>2, SelfIsAncestor
        <5>2. ManifestLoads(chain)
          BY <4>2, <5>1 DEF IInv, RootIsStored, StoredManifestsLoad
        <5>3. UNION {Newest(chain).history[g] : g \in Frontiers}
                 \subseteq tree.snapshots
          BY <5>2 DEF ManifestLoads
        <5> QED BY <4>2, <5>3 DEF OldHistory
      <4> QED BY <4>1, <4>2
    <3>2. f \in r.ids => SnapshotOf(f, r) \in tree.snapshots
      BY DEF ImmutablesWritten, MissingSnapshots, SnapshotsOf
    <3> QED BY <3>1, <3>2 DEF CandidateBody, ExtendedHistory
  <2>5. a \in tree'.publications
    BY <1>3
  <2> QED BY <2>1, <2>2, <2>3, <2>4, <2>5 DEF ManifestLoads
<1> QED BY <1>1, <1>2, <1>3, AncestorsOfFinal
----------------------------------------------------------------------------
\* Calls that touch no file: they start, take the lock, or give up.
LEMMA CallStepPreservesIInv ==
    ASSUME IInv, UNCHANGED tree, NEW w \in Writers,
           \/ Evaluate(w) \/ AcquireLock(w) \/ LockIsHeld(w)
           \/ Accept(w) \/ Reject(w) \/ Fail(w)
    PROVE  IInv'
<1>1. RootIsStored' /\ StoredManifestsLoad' /\ AliasNamesStored'
  BY DEF IInv, RootIsStored, StoredManifestsLoad, AliasNamesStored, ManifestLoads
<1>2. TypeOK'
  <2>1. ASSUME Evaluate(w) PROVE TypeOK'
    BY <2>1 DEF IInv, TypeOK, Evaluate
  <2>2. ASSUME AcquireLock(w) PROVE TypeOK'
    BY <2>2 DEF IInv, TypeOK, AcquireLock
  <2>3. ASSUME Leave(w) PROVE TypeOK'
    BY <2>3 DEF IInv, TypeOK, Leave, NoManifest, Chains
  <2>4. ASSUME Accept(w) PROVE TypeOK'
    <3>1. FinalManifest(tree.latest, req[w]) \in Chains
      BY <2>4, FinalManifestType DEF IInv, TypeOK, CallsAreReady, Accept
    <3> QED BY <2>4, <3>1 DEF IInv, TypeOK, Accept
  <2> QED BY <2>1, <2>2, <2>3, <2>4 DEF LockIsHeld, Reject, Fail
<1>3. LockProtects'
  <2>1. ASSUME Leave(w) PROVE LockProtects'
    BY <2>1, NoWriterIsNoWriter DEF IInv, TypeOK, LockProtects, Leave
  <2>2. ASSUME Evaluate(w) PROVE LockProtects'
    BY <2>2 DEF IInv, TypeOK, LockProtects, Evaluate
  <2>3. ASSUME AcquireLock(w) PROVE LockProtects'
    BY <2>3, NoWriterIsNoWriter DEF IInv, TypeOK, LockProtects, AcquireLock
  <2>4. ASSUME Accept(w) PROVE LockProtects'
    BY <2>4 DEF IInv, TypeOK, LockProtects, Accept
  <2> QED BY <2>1, <2>2, <2>3, <2>4 DEF LockIsHeld, Reject, Fail
<1>4. CallsAreReady'
  <2>1. ASSUME Leave(w) PROVE CallsAreReady'
    BY <2>1 DEF IInv, TypeOK, CallsAreReady, Leave
  <2>2. ASSUME Evaluate(w) PROVE CallsAreReady'
    BY <2>2 DEF IInv, TypeOK, CallsAreReady, Evaluate
  <2>3. ASSUME AcquireLock(w) PROVE CallsAreReady'
    BY <2>3 DEF IInv, TypeOK, CallsAreReady, AcquireLock
  <2>4. ASSUME Accept(w) PROVE CallsAreReady'
    BY <2>4 DEF IInv, TypeOK, CallsAreReady, Accept, Accepts
  <2> QED BY <2>1, <2>2, <2>3, <2>4 DEF LockIsHeld, Reject, Fail
<1> QED BY <1>1, <1>2, <1>3, <1>4 DEF IInv

\* A write to the files leaves the calls and the root manifest as they were.
LEMMA WriteKeepsCalls ==
    ASSUME IInv, UNCHANGED <<holder, pc, req, final>>, tree'.latest = tree.latest
    PROVE  LockProtects' /\ CallsAreReady'
BY DEF IInv, LockProtects, CallsAreReady

\* New snapshots and derived files disturb nothing that is already there.
LEMMA ImmutablePreservesIInv ==
    ASSUME IInv, NEW w \in Writers, WriteSnapshot(w) \/ WriteDerived(w)
    PROVE  IInv'
<1>1. /\ tree.snapshots \subseteq tree'.snapshots
      /\ tree.derived \subseteq tree'.derived
      /\ tree'.publications = tree.publications
      /\ tree'.snapshotAlias = tree.snapshotAlias
      /\ tree'.derivedAlias = tree.derivedAlias
      /\ tree'.latest = tree.latest
      /\ UNCHANGED <<holder, pc, req, final>>
  BY DEF IInv, TypeOK, WriteSnapshot, WriteDerived, Write
<1>2. req[w] \in Requests /\ final[w] = FinalManifest(tree.latest, req[w])
  BY DEF IInv, CallsAreReady, WriteSnapshot, WriteDerived
<1>3. tree.latest \in Chains /\ FinalManifest(tree.latest, req[w]) \in Chains
  BY <1>2, FinalManifestType DEF IInv, TypeOK
<1>4. TypeOK'
  <2>1. ASSUME WriteSnapshot(w) PROVE TypeOK'
    <3>1. SnapshotsOf(req[w]) \subseteq Snapshots
      BY <1>2, SnapshotOfIsSnapshot DEF SnapshotsOf, Requests
    <3> QED
      BY <2>1, <3>1 DEF IInv, TypeOK, WriteSnapshot, Write, MissingSnapshots
  <2>2. ASSUME WriteDerived(w) PROVE TypeOK'
    <3>1. Newest(final[w]) \in Bodies
      BY <1>2, <1>3, NewestIsCandidate, CandidateBodyType
    <3>2. DerivedFilesOf(Newest(final[w])) \subseteq DerivedFiles
      BY <3>1 DEF DerivedFilesOf, DerivedOf, DerivedFiles, Bodies, Histories
    <3> QED
      BY <2>2, <3>2 DEF IInv, TypeOK, WriteDerived, Write, MissingDerived
  <2> QED BY <2>1, <2>2
<1>5. LockProtects' /\ CallsAreReady'
  BY <1>1, WriteKeepsCalls
<1>6. RootIsStored' /\ AliasNamesStored'
  BY <1>1 DEF IInv, RootIsStored, AliasNamesStored
<1>7. StoredManifestsLoad'
  <2>1. ASSUME NEW m \in tree.publications, NEW a \in Ancestors(m)
        PROVE  ManifestLoads(a)'
    BY <1>1, <2>1, LoadsWhileFilesGrow DEF IInv, StoredManifestsLoad
  <2> QED BY <1>1, <2>1 DEF IInv, StoredManifestsLoad
<1> QED BY <1>4, <1>5, <1>6, <1>7 DEF IInv

\* The manifest is stored when all it names is.
LEMMA ManifestPreservesIInv ==
    ASSUME IInv, NEW w \in Writers, WriteManifest(w)
    PROVE  IInv'
<1>1. /\ tree'.snapshots = tree.snapshots
      /\ tree'.derived = tree.derived
      /\ tree'.publications = tree.publications \cup {final[w]}
      /\ tree'.snapshotAlias = tree.snapshotAlias
      /\ tree'.derivedAlias = tree.derivedAlias
      /\ tree'.latest = tree.latest
      /\ UNCHANGED <<holder, pc, req, final>>
      /\ pc[w] = "writing" /\ ImmutablesWritten(w)
  BY DEF IInv, TypeOK, WriteManifest, Write
<1>2. final[w] \in Chains \ {NoManifest}
  BY <1>1, FinalManifestType DEF IInv, TypeOK, CallsAreReady
<1>3. TypeOK'
  BY <1>2 DEF IInv, TypeOK, WriteManifest, Write
<1>4. LockProtects' /\ CallsAreReady'
  BY <1>1, WriteKeepsCalls
<1>5. RootIsStored' /\ AliasNamesStored'
  BY <1>1 DEF IInv, RootIsStored, AliasNamesStored
<1>6. StoredManifestsLoad'
  <2>1. ASSUME NEW m \in tree.publications, NEW a \in Ancestors(m)
        PROVE  ManifestLoads(a)'
    BY <1>1, <2>1, LoadsWhileFilesGrow DEF IInv, StoredManifestsLoad
  <2>2. ASSUME NEW a \in Ancestors(final[w]) PROVE ManifestLoads(a)'
    BY <1>1, <2>2, FinalManifestLoads
  <2> QED BY <1>1, <1>2, <2>1, <2>2 DEF IInv, StoredManifestsLoad
<1> QED BY <1>3, <1>4, <1>5, <1>6 DEF IInv

\* An alias repeats a file that is there and that a stored manifest names.
LEMMA AliasPreservesIInv ==
    ASSUME IInv, NEW w \in Writers,
           ReplaceDerivedAlias(w) \/ ReplaceSnapshotAlias(w)
    PROVE  IInv'
<1> DEFINE b == Newest(final[w])
<1>1. /\ tree'.snapshots = tree.snapshots
      /\ tree'.derived = tree.derived
      /\ tree'.publications = tree.publications
      /\ tree'.latest = tree.latest
      /\ UNCHANGED <<holder, pc, req, final>>
      /\ pc[w] = "writing" /\ ImmutablesWritten(w)
      /\ final[w] \in tree.publications
  BY DEF IInv, TypeOK, ReplaceDerivedAlias, ReplaceSnapshotAlias, Write
<1>2. /\ tree.latest \in Chains
      /\ req[w] \in Requests
      /\ final[w] = FinalManifest(tree.latest, req[w])
  BY <1>1 DEF IInv, TypeOK, CallsAreReady
<1>3. /\ b = CandidateBody(tree.latest, req[w])
      /\ b \in Bodies
      /\ b.ids = req[w].ids
      /\ SnapshotsOf(b) = SnapshotsOf(req[w])
  BY <1>2, NewestIsCandidate, CandidateBodyType, CandidateSnapshots
<1>4. ASSUME NEW id \in req[w].ids
      PROVE  /\ SnapshotOf(id, req[w]) \in Snapshots
             /\ SnapshotOf(id, req[w]) \in tree.snapshots
             /\ SnapshotOf(id, req[w]) \in SnapshotsOf(b)
             /\ id \in Ids
  <2>1. id \in Ids /\ SnapshotOf(id, req[w]) \in Snapshots
    BY <1>2, SnapshotOfIsSnapshot DEF Requests
  <2>2. SnapshotOf(id, req[w]) \in SnapshotsOf(req[w])
    BY DEF SnapshotsOf
  <2> QED BY <1>1, <1>3, <2>1, <2>2 DEF ImmutablesWritten, MissingSnapshots
<1>5. ASSUME NEW f \in req[w].ids \cap Frontiers
      PROVE  /\ b.history[f] \in SUBSET Snapshots
             /\ [id |-> f, entries |-> b.history[f]] \in tree.derived
  <2>1. DerivedOf(f, b) \in DerivedFilesOf(b)
    BY <1>3 DEF DerivedFilesOf
  <2>2. DerivedOf(f, b) \in tree.derived
    BY <1>1, <2>1 DEF ImmutablesWritten, MissingDerived
  <2> QED BY <1>3, <2>2 DEF DerivedOf, Bodies, Histories
<1>6. CASE ReplaceSnapshotAlias(w)
  <2>1. PICK id \in req[w].ids :
           tree' = [tree EXCEPT !.snapshotAlias[id] = SnapshotOf(id, req[w])]
    BY <1>6 DEF ReplaceSnapshotAlias, StaleSnapshotAliases, Write
  <2>2. /\ tree'.snapshotAlias =
              [tree.snapshotAlias EXCEPT ![id] = SnapshotOf(id, req[w])]
        /\ tree'.derivedAlias = tree.derivedAlias
    BY <2>1 DEF IInv, TypeOK
  <2>3. TypeOK'
    BY <1>1, <1>4, <2>1 DEF IInv, TypeOK
  <2>4. AliasNamesStored'
    <3>1. ASSUME NEW x \in Ids, tree'.snapshotAlias[x] # NoFile
          PROVE  /\ tree'.snapshotAlias[x] \in tree.snapshots
                 /\ \E m \in tree.publications :
                        tree'.snapshotAlias[x] \in SnapshotsOf(Newest(m))
      <4>1. CASE x = id
        <5>1. tree'.snapshotAlias[x] = SnapshotOf(id, req[w])
          BY <1>4, <2>2, <4>1 DEF IInv, TypeOK
        <5> QED BY <1>1, <1>4, <5>1
      <4>2. CASE x # id
        <5>1. tree'.snapshotAlias[x] = tree.snapshotAlias[x]
          BY <2>2, <4>2 DEF IInv, TypeOK
        <5> QED BY <3>1, <5>1 DEF IInv, AliasNamesStored
      <4> QED BY <4>1, <4>2
    <3> QED BY <1>1, <2>2, <3>1 DEF IInv, AliasNamesStored
  <2> QED BY <2>3, <2>4, <1>1, WriteKeepsCalls
      DEF IInv, RootIsStored, StoredManifestsLoad, ManifestLoads
<1>7. CASE ReplaceDerivedAlias(w)
  <2>1. PICK f \in req[w].ids \cap Frontiers :
           tree' = [tree EXCEPT !.derivedAlias[f] = b.history[f]]
    BY <1>7 DEF ReplaceDerivedAlias, StaleDerivedAliases, Write
  <2>2. /\ tree'.derivedAlias = [tree.derivedAlias EXCEPT ![f] = b.history[f]]
        /\ tree'.snapshotAlias = tree.snapshotAlias
    BY <2>1 DEF IInv, TypeOK
  <2>3. TypeOK'
    <3>1. tree'.derivedAlias \in Histories
      BY <1>5, <2>2 DEF IInv, TypeOK, Histories
    <3> QED BY <1>1, <2>1, <3>1 DEF IInv, TypeOK
  <2>4. AliasNamesStored'
    <3>1. ASSUME NEW x \in Frontiers, tree'.derivedAlias[x] # {}
          PROVE  [id |-> x, entries |-> tree'.derivedAlias[x]] \in tree.derived
      <4>1. CASE x = f
        <5>1. tree'.derivedAlias[x] = b.history[f]
          BY <2>2, <4>1 DEF IInv, TypeOK, Histories
        <5> QED BY <1>5, <4>1, <5>1
      <4>2. CASE x # f
        <5>1. tree'.derivedAlias[x] = tree.derivedAlias[x]
          BY <2>2, <4>2 DEF IInv, TypeOK, Histories
        <5> QED BY <3>1, <5>1 DEF IInv, AliasNamesStored
      <4> QED BY <4>1, <4>2
    <3> QED BY <1>1, <2>2, <3>1 DEF IInv, AliasNamesStored
  <2> QED BY <2>3, <2>4, <1>1, WriteKeepsCalls
      DEF IInv, RootIsStored, StoredManifestsLoad, ManifestLoads
<1> QED BY <1>6, <1>7

\* The commit makes a stored manifest the root's; the lock keeps out the
\* other writers, whose calls would otherwise rest on the old root.
LEMMA CommitPreservesIInv ==
    ASSUME IInv, NEW w \in Writers, Commit(w)
    PROVE  IInv'
<1>1. /\ tree'.snapshots = tree.snapshots
      /\ tree'.derived = tree.derived
      /\ tree'.publications = tree.publications
      /\ tree'.snapshotAlias = tree.snapshotAlias
      /\ tree'.derivedAlias = tree.derivedAlias
      /\ tree'.latest = final[w]
      /\ final[w] \in tree.publications
      /\ pc[w] = "writing"
  BY DEF IInv, TypeOK, Commit
<1>2. TypeOK'
  <2>1. NoManifest \in Chains
    BY DEF NoManifest, Chains
  <2>2. tree' = [tree EXCEPT !.latest = final[w]] /\ Leave(w)
    BY DEF Commit
  <2>3. tree' \in [snapshots : SUBSET Snapshots, derived : SUBSET DerivedFiles,
                   publications : SUBSET Chains,
                   snapshotAlias : [Ids -> Snapshots \cup {NoFile}],
                   derivedAlias : Histories, latest : Chains]
    BY <2>2 DEF IInv, TypeOK
  <2> QED BY <2>1, <2>2, <2>3 DEF IInv, TypeOK, Leave
<1>3. LockProtects'
  BY NoWriterIsNoWriter DEF IInv, TypeOK, LockProtects, Commit, Leave
<1>4. CallsAreReady'
  <2>1. ASSUME NEW v \in Writers, v # w PROVE pc'[v] = pc[v] /\ pc[v] # "writing"
    BY <1>1, <2>1 DEF IInv, TypeOK, LockProtects, Commit, Leave
  <2>2. ASSUME NEW v \in Writers, v # w PROVE req'[v] = req[v]
    BY <2>2 DEF IInv, TypeOK, Commit, Leave
  <2>3. pc'[w] = "idle"
    BY DEF IInv, TypeOK, Commit, Leave
  <2> QED BY <2>1, <2>2, <2>3 DEF IInv, CallsAreReady
<1>5. RootIsStored' /\ AliasNamesStored'
  BY <1>1 DEF IInv, RootIsStored, AliasNamesStored
<1>6. StoredManifestsLoad'
  BY <1>1 DEF IInv, StoredManifestsLoad, ManifestLoads
<1> QED BY <1>2, <1>3, <1>4, <1>5, <1>6 DEF IInv

\* Every step of the specification preserves the invariant.
LEMMA NextPreservesIInv == IInv /\ [Next]_vars => IInv'
<1> SUFFICES ASSUME IInv, [Next]_vars PROVE IInv'
  OBVIOUS
<1>1. CASE UNCHANGED vars
  BY <1>1 DEF vars, IInv, TypeOK, LockProtects, CallsAreReady, RootIsStored,
     StoredManifestsLoad, AliasNamesStored, ManifestLoads
<1>2. ASSUME NEW w \in Writers, Evaluate(w) \/ Step(w) \/ Fail(w) PROVE IInv'
  <2>1. CASE \/ Evaluate(w) \/ AcquireLock(w) \/ LockIsHeld(w)
             \/ Accept(w) \/ Reject(w) \/ Fail(w)
    <3>1. UNCHANGED tree
      BY <2>1 DEF Evaluate, AcquireLock, LockIsHeld, Accept, Reject, Fail
    <3> QED BY <2>1, <3>1, CallStepPreservesIInv
  <2>2. CASE WriteSnapshot(w) \/ WriteDerived(w)
    BY <2>2, ImmutablePreservesIInv
  <2>3. CASE WriteManifest(w)
    BY <2>3, ManifestPreservesIInv
  <2>4. CASE ReplaceDerivedAlias(w) \/ ReplaceSnapshotAlias(w)
    BY <2>4, AliasPreservesIInv
  <2>5. CASE Commit(w)
    BY <2>5, CommitPreservesIInv
  <2> QED BY <1>2, <2>1, <2>2, <2>3, <2>4, <2>5 DEF Step
<1> QED BY <1>1, <1>2 DEF Next

----------------------------------------------------------------------------
THEOREM IInvHolds == Spec => []IInv
BY InitIInv, NextPreservesIInv, PTL DEF Spec

\* The variables keep their types.
THEOREM TypeCorrect == Spec => []TypeOK
<1>1. IInv => TypeOK
  BY DEF IInv
<1> QED BY <1>1, IInvHolds, PTL

(***************************************************************************)
(* No stored or committed manifest ever names a missing artifact, wherever *)
(* writers die.                                                            *)
(***************************************************************************)
THEOREM NothingDangles == Spec => []NoDanglingManifest
<1>1. IInv => NoDanglingManifest
  BY DEF IInv, RootIsStored, StoredManifestsLoad, NoDanglingManifest
<1> QED BY <1>1, IInvHolds, PTL

(***************************************************************************)
(* No alias ever carries a file that is not stored and named by a manifest.*)
(***************************************************************************)
THEOREM AliasesAreStored == Spec => []AliasNamesStored
<1>1. IInv => AliasNamesStored
  BY DEF IInv
<1> QED BY <1>1, IInvHolds, PTL

----------------------------------------------------------------------------
(***************************************************************************)
(* What a writer was accepted for stays true until it commits.  This is    *)
(* the part of Accepts that speaks of files: the writer itself adds files  *)
(* and replaces aliases, but only by what its candidate names, and the     *)
(* lock keeps everybody else out.                                          *)
(***************************************************************************)
AcceptanceLasts ==
    \A w \in Writers : pc[w] = "writing" =>
        /\ Len(tree.latest) <= MaxHistory
        /\ HistoryWithinLimit(tree.latest, req[w])
        /\ req[w].public => OnlyReachable(final[w])

WInv == IInv /\ AcceptanceLasts

\* A writer that holds the lock knows its manifest, and the files it still
\* has to write are among those the manifest names.
LEMMA WriterFacts ==
    ASSUME IInv, NEW w \in Writers, pc[w] = "writing"
    PROVE  /\ tree.latest \in Chains
           /\ req[w] \in Requests
           /\ Admissible(tree.latest, req[w])
           /\ final[w] = FinalManifest(tree.latest, req[w])
           /\ final[w] \in Chains \ {NoManifest}
           /\ Newest(final[w]) = CandidateBody(tree.latest, req[w])
           /\ Newest(final[w]).ids = req[w].ids
           /\ \A id : SnapshotOf(id, Newest(final[w])) = SnapshotOf(id, req[w])
           /\ SnapshotsOf(Newest(final[w])) = SnapshotsOf(req[w])
           /\ \A v \in Writers : pc[v] = "writing" => v = w
<1>1. tree.latest \in Chains /\ req[w] \in Requests
      /\ Admissible(tree.latest, req[w])
      /\ final[w] = FinalManifest(tree.latest, req[w])
  BY DEF IInv, TypeOK, CallsAreReady
<1>2. \A v \in Writers : pc[v] = "writing" => v = w
  BY DEF IInv, LockProtects
<1> QED BY <1>1, <1>2, FinalManifestType, NewestIsCandidate, CandidateSnapshots

\* Writing keeps to what the candidate names.
LEMMA WritesAreReachable ==
    ASSUME IInv, NEW w \in Writers, OnlyReachable(final[w]),
           \/ WriteSnapshot(w) \/ WriteDerived(w) \/ WriteManifest(w)
           \/ ReplaceDerivedAlias(w) \/ ReplaceSnapshotAlias(w)
    PROVE  OnlyReachable(final[w])'
<1> DEFINE m == final[w]
           known == {tree.latest, m}
<1>1. /\ pc[w] = "writing"
      /\ tree'.latest = tree.latest
      /\ UNCHANGED <<holder, pc, req, final>>
  BY DEF IInv, TypeOK, WriteSnapshot, WriteDerived, WriteManifest,
     ReplaceDerivedAlias, ReplaceSnapshotAlias, Write
<1>2. /\ m # NoManifest
      /\ Newest(m).ids = req[w].ids
      /\ \A id : SnapshotOf(id, Newest(m)) = SnapshotOf(id, req[w])
      /\ SnapshotsOf(Newest(m)) = SnapshotsOf(req[w])
  BY <1>1, WriterFacts
<1>3. /\ \A id \in Ids : tree'.snapshotAlias[id] # NoFile =>
              tree'.snapshotAlias[id] \in Expected(known, id)
      /\ \A f \in Frontiers : tree'.derivedAlias[f] # {} =>
              tree'.derivedAlias[f] \in ExpectedEntries(known, f)
      /\ tree'.snapshots \subseteq
              NamedSnapshots(tree.latest) \cup SnapshotsOf(Newest(m))
      /\ tree'.derived \subseteq
              NamedDerived(tree.latest) \cup DerivedFilesOf(Newest(m))
      /\ tree'.publications \subseteq Ancestors(tree.latest) \cup {m}
  <2>1. CASE WriteSnapshot(w)
    BY <1>2, <2>1 DEF IInv, TypeOK, OnlyReachable, WriteSnapshot, MissingSnapshots, Write
  <2>2. CASE WriteDerived(w)
    BY <2>2 DEF IInv, TypeOK, OnlyReachable, WriteDerived, MissingDerived, Write
  <2>3. CASE WriteManifest(w)
    BY <2>3 DEF IInv, TypeOK, OnlyReachable, WriteManifest, Write
  <2>4. CASE ReplaceDerivedAlias(w)
    <3>1. PICK f \in req[w].ids \cap Frontiers :
             tree' = [tree EXCEPT !.derivedAlias[f] = Newest(m).history[f]]
      BY <2>4 DEF ReplaceDerivedAlias, StaleDerivedAliases, Write
    <3>2. Newest(m).history[f] \in ExpectedEntries(known, f)
      BY <1>2, <3>1 DEF ExpectedEntries
    <3>3. /\ tree'.derivedAlias =
                [tree.derivedAlias EXCEPT ![f] = Newest(m).history[f]]
          /\ tree'.snapshotAlias = tree.snapshotAlias
          /\ tree'.snapshots = tree.snapshots
          /\ tree'.derived = tree.derived
          /\ tree'.publications = tree.publications
      BY <3>1 DEF IInv, TypeOK
    <3>4. ASSUME NEW x \in Frontiers, tree'.derivedAlias[x] # {}
          PROVE  tree'.derivedAlias[x] \in ExpectedEntries(known, x)
      BY <3>2, <3>3, <3>4 DEF IInv, TypeOK, Histories, OnlyReachable
    <3> QED BY <3>3, <3>4 DEF OnlyReachable
  <2>5. CASE ReplaceSnapshotAlias(w)
    <3>1. PICK id \in req[w].ids :
             tree' = [tree EXCEPT !.snapshotAlias[id] = SnapshotOf(id, req[w])]
      BY <2>5 DEF ReplaceSnapshotAlias, StaleSnapshotAliases, Write
    <3>2. SnapshotOf(id, req[w]) \in Expected(known, id)
      BY <1>2, <3>1 DEF Expected
    <3>3. /\ tree'.snapshotAlias =
                [tree.snapshotAlias EXCEPT ![id] = SnapshotOf(id, req[w])]
          /\ tree'.derivedAlias = tree.derivedAlias
          /\ tree'.snapshots = tree.snapshots
          /\ tree'.derived = tree.derived
          /\ tree'.publications = tree.publications
      BY <3>1 DEF IInv, TypeOK
    <3>4. ASSUME NEW x \in Ids, tree'.snapshotAlias[x] # NoFile
          PROVE  tree'.snapshotAlias[x] \in Expected(known, x)
      BY <3>2, <3>3, <3>4 DEF IInv, TypeOK, OnlyReachable
    <3> QED BY <3>3, <3>4 DEF OnlyReachable
  <2> QED BY <2>1, <2>2, <2>3, <2>4, <2>5
<1> QED BY <1>1, <1>3 DEF OnlyReachable

\* A step of one writer leaves a writer in the middle of its own accepted.
LEMMA NextPreservesWInv == WInv /\ [Next]_vars => WInv'
<1> SUFFICES ASSUME IInv, AcceptanceLasts, [Next]_vars
             PROVE  AcceptanceLasts'
  BY NextPreservesIInv DEF WInv
<1>1. CASE UNCHANGED vars
  BY <1>1 DEF vars, AcceptanceLasts, OnlyReachable
<1>2. ASSUME NEW w \in Writers, Evaluate(w) \/ Step(w) \/ Fail(w)
      PROVE  AcceptanceLasts'
  <2>1. CASE Accept(w)
    <3>1. /\ tree' = tree /\ req' = req
          /\ final'[w] = FinalManifest(tree.latest, req[w])
          /\ Accepts(req[w])
          /\ \A v \in Writers : pc'[v] = "writing" => v = w
      BY <2>1 DEF IInv, TypeOK, LockProtects, Accept
    <3> QED BY <3>1 DEF AcceptanceLasts, Accepts, ChainLoads, OnlyReachable
  <2>2. CASE Evaluate(w) \/ AcquireLock(w) \/ LockIsHeld(w) \/ Reject(w) \/ Fail(w)
    <3>1. /\ tree' = tree
          /\ \A v \in Writers : pc'[v] = "writing" =>
                 pc[v] = "writing" /\ req'[v] = req[v] /\ final'[v] = final[v]
      BY <2>2 DEF IInv, TypeOK, Evaluate, AcquireLock, LockIsHeld, Reject, Fail,
         Leave
    <3> QED BY <3>1 DEF AcceptanceLasts, OnlyReachable
  <2>3. CASE \/ WriteSnapshot(w) \/ WriteDerived(w) \/ WriteManifest(w)
             \/ ReplaceDerivedAlias(w) \/ ReplaceSnapshotAlias(w)
    <3>1. /\ pc[w] = "writing"
          /\ tree'.latest = tree.latest
          /\ UNCHANGED <<pc, req, final>>
      BY <2>3 DEF IInv, TypeOK, WriteSnapshot, WriteDerived, WriteManifest,
         ReplaceDerivedAlias, ReplaceSnapshotAlias, Write
    <3>2. \A v \in Writers : pc[v] = "writing" => v = w
      BY <3>1, WriterFacts
    <3>3. req[w].public => OnlyReachable(final[w])'
      BY <2>3, <3>1, WritesAreReachable DEF AcceptanceLasts
    <3> QED BY <3>1, <3>2, <3>3 DEF AcceptanceLasts
  <2>4. CASE Commit(w)
    <3>1. \A v \in Writers : pc'[v] # "writing"
      BY <2>4 DEF IInv, TypeOK, LockProtects, Commit, Leave
    <3> QED BY <3>1 DEF AcceptanceLasts
  <2> QED BY <1>2, <2>1, <2>2, <2>3, <2>4 DEF Step
<1> QED BY <1>1, <1>2 DEF Next

LEMMA WInvHolds == Spec => []WInv
<1>1. Init => WInv
  BY InitIInv DEF WInv, Init, AcceptanceLasts
<1> QED BY <1>1, NextPreservesWInv, PTL DEF Spec

(***************************************************************************)
(* Wherever a writer dies, the same call made again is accepted and makes  *)
(* the same manifest, for any number of frontiers, selections and writers. *)
(***************************************************************************)
THEOREM RetryIsAccepted == Spec => []RetryAccepted
<1>1. ASSUME WInv PROVE RetryAccepted
  <2> SUFFICES ASSUME NEW w \in Writers, pc[w] = "writing"
               PROVE  /\ Accepts(req[w])
                      /\ FinalManifest(tree.latest, req[w]) = final[w]
    BY DEF RetryAccepted
  <2>1. \A a \in Ancestors(tree.latest) : ManifestLoads(a)
    <3>1. CASE tree.latest = NoManifest
      BY <3>1 DEF Ancestors, NoManifest
    <3>2. CASE tree.latest # NoManifest
      BY <1>1, <3>2 DEF WInv, IInv, RootIsStored, StoredManifestsLoad
    <3> QED BY <3>1, <3>2
  <2>2. /\ Admissible(tree.latest, req[w])
        /\ final[w] = FinalManifest(tree.latest, req[w])
    BY <1>1, WriterFacts DEF WInv
  <2> QED BY <1>1, <2>1, <2>2 DEF WInv, AcceptanceLasts, Accepts, ChainLoads
<1> QED BY <1>1, WInvHolds, PTL

\* What a commit leaves: the files as they were, and the writer's manifest.
LEMMA CommitFacts ==
    ASSUME WInv, NEW w \in Writers, Commit(w)
    PROVE  /\ pc[w] = "writing"
           /\ tree'.latest = final[w]
           /\ tree'.snapshots = tree.snapshots
           /\ tree'.derived = tree.derived
           /\ tree'.publications = tree.publications
           /\ tree'.snapshotAlias = tree.snapshotAlias
           /\ tree'.derivedAlias = tree.derivedAlias
           /\ \A id \in req[w].ids :
                  tree.snapshotAlias[id] = SnapshotOf(id, Newest(final[w]))
           /\ \A f \in req[w].ids \cap Frontiers :
                  tree.derivedAlias[f] = Newest(final[w]).history[f]
<1>1. /\ pc[w] = "writing"
      /\ tree'.latest = final[w]
      /\ tree'.snapshots = tree.snapshots
      /\ tree'.derived = tree.derived
      /\ tree'.publications = tree.publications
      /\ tree'.snapshotAlias = tree.snapshotAlias
      /\ tree'.derivedAlias = tree.derivedAlias
  BY DEF WInv, IInv, TypeOK, Commit
<1>2. \A id : SnapshotOf(id, Newest(final[w])) = SnapshotOf(id, req[w])
  BY <1>1, WriterFacts DEF WInv
<1> QED BY <1>1, <1>2
        DEF Commit, AliasesReplaced, StaleSnapshotAliases, StaleDerivedAliases

(***************************************************************************)
(* A call that returns has brought every alias in step with its manifest,  *)
(* whatever calls that died before it had left there.                      *)
(***************************************************************************)
THEOREM CommitIsCoherent == Spec => CommitLeavesCoherentAliases
<1> DEFINE Coherent ==
      \A w \in Writers : Commit(w) =>
          LET newest == Newest(tree'.latest)
          IN  /\ \A id \in newest.ids :
                    tree'.snapshotAlias[id] = SnapshotOf(id, newest)
              /\ \A f \in newest.ids \cap Frontiers :
                    tree'.derivedAlias[f] = newest.history[f]
<1>1. WInv /\ [Next]_vars => [Coherent]_vars
  <2> SUFFICES ASSUME WInv, NEW w \in Writers, Commit(w)
               PROVE  LET newest == Newest(tree'.latest)
                      IN  /\ \A id \in newest.ids :
                                tree'.snapshotAlias[id] = SnapshotOf(id, newest)
                          /\ \A f \in newest.ids \cap Frontiers :
                                tree'.derivedAlias[f] = newest.history[f]
    OBVIOUS
  <2>1. Newest(final[w]).ids = req[w].ids
    BY CommitFacts, WriterFacts DEF WInv
  <2> QED BY <2>1, CommitFacts
<1> QED BY <1>1, WInvHolds, PTL DEF Spec, CommitLeavesCoherentAliases

(***************************************************************************)
(* When a public call returns, the root holds nothing that its chain does  *)
(* not name and nothing from evidence that may not be redistributed,       *)
(* whatever private calls that died had left.                              *)
(***************************************************************************)
THEOREM PublicCommitIsClean == Spec => PublicCommitExposesOnlyItsChain
<1> DEFINE Clean(w) ==
      /\ tree'.publications \subseteq Ancestors(tree'.latest)
      /\ tree'.snapshots \subseteq NamedSnapshots(tree'.latest)
      /\ tree'.derived \subseteq NamedDerived(tree'.latest)
      /\ \A s \in tree'.snapshots : s.evidence \in Redistributable
<1>1. ASSUME WInv, NEW w \in Writers, Commit(w), req[w].public PROVE Clean(w)
  <2> DEFINE m == final[w]
             b == CandidateBody(tree.latest, req[w])
  <2>1. OnlyReachable(m)
    BY <1>1, CommitFacts DEF WInv, AcceptanceLasts
  <2>2. /\ tree.latest \in Chains /\ req[w] \in Requests
        /\ Admissible(tree.latest, req[w])
        /\ m = FinalManifest(tree.latest, req[w])
        /\ m \in Chains \ {NoManifest}
        /\ Newest(m) = b
    BY <1>1, CommitFacts, WriterFacts DEF WInv
  <2>3. /\ Ancestors(tree.latest) \cup {m} \subseteq Ancestors(m)
        /\ BodiesOf(m) = BodiesOf(tree.latest) \cup {b}
    BY <2>2, FinalExtendsChain, SelfIsAncestor
  <2>4. /\ NamedSnapshots(tree.latest) \cup SnapshotsOf(b) \subseteq NamedSnapshots(m)
        /\ NamedDerived(tree.latest) \cup DerivedFilesOf(b) \subseteq NamedDerived(m)
    BY <2>3 DEF NamedSnapshots, NamedDerived
  <2>5. \A x \in BodiesOf(m) : x.evidence \in Redistributable
    <3>1. b.evidence \in Redistributable
      BY <1>1, <2>2 DEF Admissible, Licensed, CandidateBody
    <3> QED BY <1>1, <2>2, <2>3, <3>1 DEF Admissible, Licensed
  <2>6. \A s \in NamedSnapshots(m) : s.evidence \in Redistributable
    BY <2>5 DEF NamedSnapshots, SnapshotsOf, SnapshotOf
  <2>7. /\ tree.publications \subseteq Ancestors(m)
        /\ tree.snapshots \subseteq NamedSnapshots(m)
        /\ tree.derived \subseteq NamedDerived(m)
    BY <2>1, <2>2, <2>3, <2>4 DEF OnlyReachable
  <2> QED BY <1>1, <2>6, <2>7, CommitFacts
<1>2. WInv /\ [Next]_vars =>
         [\A w \in Writers : Commit(w) /\ req[w].public => Clean(w)]_vars
  BY <1>1
<1> QED BY <1>2, WInvHolds, PTL DEF Spec, PublicCommitExposesOnlyItsChain

\* What a rerun loads and is checked against after the commit.
LEMMA RerunIsAccepted ==
    ASSUME WInv, WInv', NEW w \in Writers, Commit(w),
           Len(tree'.latest) <= MaxHistory,
           NEW r, r = req[w]
    PROVE  /\ Accepts(r)'
           /\ FinalManifest(tree'.latest, r) = tree'.latest
<1> PICK m : m = final[w]
  OBVIOUS
<1> DEFINE chain == tree.latest
<1>1. /\ chain \in Chains /\ r \in Requests
      /\ Admissible(chain, r)
      /\ m = FinalManifest(chain, r)
      /\ m # NoManifest
      /\ Newest(m).ids = r.ids
      /\ \A id : SnapshotOf(id, Newest(m)) = SnapshotOf(id, r)
      /\ tree'.latest = m
  BY CommitFacts, WriterFacts DEF WInv
<1>2. /\ ExtendedHistory(m, r) = ExtendedHistory(chain, r)
      /\ FinalManifest(m, r) = m
      /\ Admissible(m, r)
  BY <1>1, RequestIsSettled
<1>3. HistoryWithinLimit(m, r)
  BY <1>2, CommitFacts DEF WInv, AcceptanceLasts, HistoryWithinLimit
<1>4. ChainLoads(m)'
  BY <1>1 DEF WInv, IInv, RootIsStored, StoredManifestsLoad, ChainLoads
<1>5. ASSUME r.public PROVE OnlyReachable(m)'
  <2> DEFINE known == {chain, m}
  <2>1. OnlyReachable(m)
    BY <1>5, CommitFacts DEF WInv, AcceptanceLasts
  <2>2. chain # NoManifest => Newest(chain).ids \subseteq r.ids
    BY <1>1 DEF Admissible, Additive
  <2>3. ASSUME NEW id \in Ids, tree.snapshotAlias[id] # NoFile
        PROVE  tree.snapshotAlias[id] \in Expected({m}, id)
    <3>1. tree.snapshotAlias[id] \in Expected(known, id)
      BY <2>1, <2>3 DEF OnlyReachable
    <3>2. id \in r.ids
      BY <1>1, <2>2, <3>1 DEF Expected
    <3>3. tree.snapshotAlias[id] = SnapshotOf(id, Newest(m))
      BY <3>2, CommitFacts
    <3> QED BY <1>1, <3>2, <3>3 DEF Expected
  <2>4. ASSUME NEW f \in Frontiers, tree.derivedAlias[f] # {}
        PROVE  tree.derivedAlias[f] \in ExpectedEntries({m}, f)
    <3>1. tree.derivedAlias[f] \in ExpectedEntries(known, f)
      BY <2>1, <2>4 DEF OnlyReachable
    <3>2. f \in r.ids
      BY <1>1, <2>2, <3>1 DEF ExpectedEntries
    <3>3. tree.derivedAlias[f] = Newest(m).history[f]
      BY <3>2, CommitFacts
    <3> QED BY <1>1, <3>2, <3>3 DEF ExpectedEntries
  <2>5. /\ NamedSnapshots(chain) \subseteq NamedSnapshots(m)
        /\ NamedDerived(chain) \subseteq NamedDerived(m)
        /\ Ancestors(chain) \subseteq Ancestors(m)
    BY <1>1, FinalExtendsChain DEF NamedSnapshots, NamedDerived
  <2>6. /\ tree.snapshots \subseteq NamedSnapshots(m) \cup SnapshotsOf(Newest(m))
        /\ tree.derived \subseteq NamedDerived(m) \cup DerivedFilesOf(Newest(m))
        /\ tree.publications \subseteq Ancestors(m) \cup {m}
    BY <2>1, <2>5 DEF OnlyReachable
  <2> QED BY <1>1, <2>3, <2>4, <2>6, CommitFacts DEF OnlyReachable
<1>6. (r.public => OnlyReachable(FinalManifest(tree.latest, r)))'
  BY <1>1, <1>2, <1>5
<1> QED BY <1>1, <1>2, <1>3, <1>4, <1>6 DEF Accepts

(***************************************************************************)
(* The call that has just returned can be made again and changes nothing,  *)
(* unless its chain has outgrown what the next load accepts: the limit is  *)
(* all that can stand in the way of it.                                    *)
(***************************************************************************)
THEOREM RerunIsSettled == Spec => RerunIsIdempotentBelowLimit
<1> DEFINE Settled ==
      \A w \in Writers, r \in Requests :
          Commit(w) /\ req[w] = r /\ Len(tree'.latest) <= MaxHistory =>
              /\ Accepts(r)'
              /\ FinalManifest(tree'.latest, r) = tree'.latest
<1>1. WInv /\ WInv' /\ [Next]_vars => [Settled]_vars
  BY RerunIsAccepted
<1> QED BY <1>1, WInvHolds, PTL DEF Spec, RerunIsIdempotentBelowLimit

----------------------------------------------------------------------------
\* The register's operators, reached through INSTANCE, are the publisher's own.
LEMMA SameOperators ==
    /\ Abstract!NoManifest = NoManifest
    /\ Abstract!Requests = Requests
    /\ \A c, r : Abstract!Admissible(c, r) <=> Admissible(c, r)
    /\ \A c, r : Abstract!FinalManifest(c, r) = FinalManifest(c, r)
<1>1. /\ Abstract!NoManifest = NoManifest
      /\ Abstract!NoHistory = NoHistory
      /\ Abstract!Ids = Ids
      /\ Abstract!Times = Times
      /\ \A id, x : Abstract!SnapshotOf(id, x) = SnapshotOf(id, x)
      /\ \A c : Abstract!Newest(c) = Newest(c)
      /\ \A c : Abstract!BodiesOf(c) = BodiesOf(c)
  BY DEF Abstract!NoManifest, NoManifest, Abstract!NoHistory, NoHistory,
     Abstract!Ids, Ids, Abstract!Times, Times, Abstract!SnapshotOf, SnapshotOf,
     Abstract!Newest, Newest, Abstract!BodiesOf, BodiesOf
<1>2. Abstract!Requests = Requests
  BY <1>1 DEF Abstract!Requests, Requests
<1>3. \A c : Abstract!OldHistory(c) = OldHistory(c)
  BY <1>1 DEF Abstract!OldHistory, OldHistory
<1>4. \A c, r : Abstract!ExtendedHistory(c, r) = ExtendedHistory(c, r)
  BY <1>1, <1>3 DEF Abstract!ExtendedHistory, ExtendedHistory
<1>5. \A c, r : Abstract!CandidateBody(c, r) = CandidateBody(c, r)
  BY <1>4 DEF Abstract!CandidateBody, CandidateBody
<1>6. \A c, r : Abstract!FinalManifest(c, r) = FinalManifest(c, r)
  BY <1>1, <1>5 DEF Abstract!FinalManifest, FinalManifest
<1>7. \A c, r : Abstract!Additive(c, r) <=> Additive(c, r)
  BY <1>1 DEF Abstract!Additive, Additive
<1>8. \A c, r : Abstract!NoRollback(c, r) <=> NoRollback(c, r)
  BY <1>1, <1>3 DEF Abstract!NoRollback, NoRollback
<1>9. \A c, r : Abstract!Licensed(c, r) <=> Licensed(c, r)
  BY <1>1, <1>3 DEF Abstract!Licensed, Licensed
<1>10. \A c, r : Abstract!NoEquivocation(c, r) <=> NoEquivocation(c, r)
  BY <1>1, <1>3 DEF Abstract!NoEquivocation, NoEquivocation
<1>11. \A c, r : Abstract!Admissible(c, r) <=> Admissible(c, r)
  BY <1>7, <1>8, <1>9, <1>10 DEF Abstract!Admissible, Admissible
<1> QED BY <1>1, <1>2, <1>6, <1>11

(***************************************************************************)
(* The publisher, with its lock, its stages and its failures, implements   *)
(* the register of Publication.tla.                                        *)
(***************************************************************************)
THEOREM PublisherImplementsPublication == Spec => ImplementsPublication
<1>1. Init => Abstract!Init
  BY SameOperators DEF Init, EmptyTree, Abstract!Init
<1>2. IInv /\ [Next]_vars => [Abstract!Next]_(tree.latest)
  <2> SUFFICES ASSUME IInv, [Next]_vars
               PROVE  Abstract!Next \/ tree'.latest = tree.latest
    OBVIOUS
  <2>1. CASE UNCHANGED vars
    BY <2>1 DEF vars
  <2>2. ASSUME NEW w \in Writers, Evaluate(w) \/ Step(w) \/ Fail(w)
        PROVE  Abstract!Next \/ tree'.latest = tree.latest
    <3>1. CASE Commit(w)
      <4>1. /\ req[w] \in Requests
            /\ Admissible(tree.latest, req[w])
            /\ tree'.latest = FinalManifest(tree.latest, req[w])
        BY <3>1 DEF IInv, TypeOK, CallsAreReady, Commit
      <4>2. Abstract!Publish(req[w])
        BY <4>1, SameOperators DEF Abstract!Publish
      <4> QED BY <4>1, <4>2, SameOperators DEF Abstract!Next
    <3>2. CASE ~Commit(w)
      BY <2>2, <3>2 DEF IInv, TypeOK, Step, Evaluate, AcquireLock, LockIsHeld,
         Accept, Reject, Fail, WriteSnapshot, WriteDerived, WriteManifest,
         ReplaceDerivedAlias, ReplaceSnapshotAlias, Write
    <3> QED BY <3>1, <3>2
  <2> QED BY <2>1, <2>2 DEF Next
<1> QED BY <1>1, <1>2, IInvHolds, PTL DEF Spec, ImplementsPublication, Abstract!Spec

----------------------------------------------------------------------------
\* What is proved of the register, for the root that the writers commit to.
Register == INSTANCE PublicationProofs WITH committed <- tree.latest

\* The file-level publisher behaves as the register that was proved correct.
LEMMA PublisherIsRegister == Spec => Register!Spec
<1>1. (Abstract!Init <=> Register!Init) /\ (Abstract!Next <=> Register!Next)
  BY DEF Abstract!Init, Register!Init, Abstract!Next, Register!Next,
     Abstract!Publish, Register!Publish, Abstract!Requests,
     Register!Requests, Abstract!Admissible, Register!Admissible,
     Abstract!FinalManifest, Register!FinalManifest,
     Abstract!NoManifest, Register!NoManifest, Abstract!NoHistory,
     Register!NoHistory, Abstract!Ids, Register!Ids, Abstract!Times,
     Register!Times, Abstract!SnapshotOf, Register!SnapshotOf,
     Abstract!Newest, Register!Newest, Abstract!BodiesOf,
     Register!BodiesOf, Abstract!OldHistory, Register!OldHistory,
     Abstract!ExtendedHistory, Register!ExtendedHistory,
     Abstract!CandidateBody, Register!CandidateBody,
     Abstract!Additive, Register!Additive, Abstract!NoRollback,
     Register!NoRollback, Abstract!Licensed, Register!Licensed,
     Abstract!NoEquivocation, Register!NoEquivocation
<1> QED BY <1>1, PublisherImplementsPublication, PTL
        DEF ImplementsPublication, Abstract!Spec, Register!Spec

(***************************************************************************)
(* However the writers interleave and die, a root that is read back holds  *)
(* histories that are neither short nor padded.                            *)
(***************************************************************************)
THEOREM CommittedHistoryIsChain == Spec => []HistoryIsChain
<1>1. Register!HistoryIsChain <=> HistoryIsChain
  BY DEF HistoryIsChain, Abstract!HistoryIsChain, Register!HistoryIsChain,
     Abstract!SnapshotOf, Register!SnapshotOf
<1>2. Register!Spec => []Register!HistoryIsChain
  BY IdsAreDistinct, SelectionsRankFrontiers, RedistributableIsEvidence,
     NoRuleIsNoRule, MaxTimeIsPositive, MaxHistoryIsPositive,
     Register!HistoryIsChainHolds
<1> QED BY <1>1, <1>2, PublisherIsRegister, PTL

(***************************************************************************)
(* Nor does a public root commit to evidence that may not be               *)
(* redistributed, in itself or in a manifest that it links to.             *)
(***************************************************************************)
THEOREM CommittedChainIsLicensed == Spec => []PublicChainIsLicensed
<1>1. Register!PublicChainIsLicensed <=> PublicChainIsLicensed
  BY DEF PublicChainIsLicensed, Abstract!PublicChainIsLicensed,
     Register!PublicChainIsLicensed
<1>2. Register!Spec => []Register!PublicChainIsLicensed
  BY IdsAreDistinct, SelectionsRankFrontiers, RedistributableIsEvidence,
     NoRuleIsNoRule, MaxTimeIsPositive, MaxHistoryIsPositive,
     Register!PublicChainIsLicensedHolds
<1> QED BY <1>1, <1>2, PublisherIsRegister, PTL
=============================================================================
