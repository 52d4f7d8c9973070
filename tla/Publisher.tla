----------------------------- MODULE Publisher -----------------------------
(***************************************************************************)
(* publish_project (src/src/model_skyline/publisher.py): writers evaluate  *)
(* a publication before they take the advisory writer lock, check it       *)
(* against the root under the lock, and then write files one at a time:    *)
(* snapshots, derived files, the immutable manifest, the aliases, and root *)
(* latest.json last.  A writer can die, or fail on an I/O error, between   *)
(* any two file operations; the lock dies with it and the files stay.      *)
(***************************************************************************)
EXTENDS PublicationData

CONSTANTS
    Writers,   \* processes that may call publish_project
    NoWriter,  \* the lock is free
    NoFile,    \* the alias does not exist
    NoRequest  \* the writer is not publishing

ASSUME NoWriterIsNoWriter == NoWriter \notin Writers
ASSUME NoFileIsNoSnapshot == NoFile \notin Snapshots
ASSUME NoRequestIsNoRequest == NoRequest \notin Requests

VARIABLES
    tree,    \* the files of the publication root
    holder,  \* who holds the flock on the lock file
    pc,      \* how far each writer's call has come
    req,     \* what each writer evaluated
    final    \* the manifest each writer is about to commit

vars == <<tree, holder, pc, req, final>>

(***************************************************************************)
(* tree.snapshots      frontiers/<id>/<sha>.json, selections/<id>/<sha>.json*)
(* tree.derived        history-<sha>.json, <sha>.csv, <sha>.txt, feeds/<id>/*)
(* tree.publications   publications/<id>.json                              *)
(* tree.snapshotAlias  frontiers/<id>/latest.json, selections/<id>/latest.json *)
(* tree.derivedAlias   history.json, table.csv, table.txt, feeds/<id>.xml  *)
(*                     (its entries; no entry: it does not exist)          *)
(* tree.latest         root latest.json                                    *)
(***************************************************************************)
EmptyTree ==
    [snapshots |-> {}, derived |-> {}, publications |-> {},
     snapshotAlias |-> [id \in Ids |-> NoFile],
     derivedAlias |-> NoHistory,
     latest |-> NoManifest]

----------------------------------------------------------------------------
\* Every file a manifest names, and every manifest it links to, can be read.
ManifestLoads(chain) ==
    /\ chain \in tree.publications
    /\ SnapshotsOf(Newest(chain)) \subseteq tree.snapshots
    /\ DerivedFilesOf(Newest(chain)) \subseteq tree.derived
    /\ UNION {Newest(chain).history[f] : f \in Frontiers} \subseteq tree.snapshots

ChainLoads(chain) ==
    /\ \A m \in Ancestors(chain) : ManifestLoads(m)
    /\ Len(chain) <= MaxHistory

(***************************************************************************)
(* A public root may hold nothing but what the chain and the candidate     *)
(* name, and an alias must carry the current or the candidate's content.   *)
(***************************************************************************)
NamedSnapshots(chain) == UNION {SnapshotsOf(b) : b \in BodiesOf(chain)}
NamedDerived(chain) == UNION {DerivedFilesOf(b) : b \in BodiesOf(chain)}

Expected(chains, id) ==
    {SnapshotOf(id, Newest(m)) :
        m \in {c \in chains : c # NoManifest /\ id \in Newest(c).ids}}

ExpectedEntries(chains, f) ==
    {Newest(m).history[f] :
        m \in {c \in chains : c # NoManifest /\ f \in Newest(c).ids}}

\* Mutant: the aliases a failed try of the candidate left are not reclaimed.
OnlyCommitted(m) ==
    /\ \A id \in Ids : tree.snapshotAlias[id] # NoFile =>
           tree.snapshotAlias[id] \in Expected({tree.latest}, id)
    /\ tree.snapshots \subseteq
           NamedSnapshots(tree.latest) \cup SnapshotsOf(Newest(m))
    /\ tree.publications \subseteq Ancestors(tree.latest) \cup {m}

OnlyReachable(m) ==
    LET known == {tree.latest, m}
    IN  /\ \A id \in Ids : tree.snapshotAlias[id] # NoFile =>
               tree.snapshotAlias[id] \in Expected(known, id)
        /\ \A f \in Frontiers : tree.derivedAlias[f] # {} =>
               tree.derivedAlias[f] \in ExpectedEntries(known, f)
        /\ tree.snapshots \subseteq
               NamedSnapshots(tree.latest) \cup SnapshotsOf(Newest(m))
        /\ tree.derived \subseteq
               NamedDerived(tree.latest) \cup DerivedFilesOf(Newest(m))
        /\ tree.publications \subseteq Ancestors(tree.latest) \cup {m}

\* Mutant: a public root is not searched for what it should not hold.
AcceptsAnyRoot(r) ==
    /\ ChainLoads(tree.latest)
    /\ Admissible(tree.latest, r)
    /\ HistoryWithinLimit(tree.latest, r)

\* What a writer checks under the lock before it writes a file.
Accepts(r) ==
    /\ ChainLoads(tree.latest)
    /\ Admissible(tree.latest, r)
    /\ HistoryWithinLimit(tree.latest, r)
    /\ r.public => OnlyReachable(FinalManifest(tree.latest, r))

----------------------------------------------------------------------------
Init ==
    /\ tree = EmptyTree
    /\ holder = NoWriter
    /\ pc = [w \in Writers |-> "idle"]
    /\ req = [w \in Writers |-> NoRequest]
    /\ final = [w \in Writers |-> NoManifest]

\* w forgets its call; if it held the lock, the lock is free again.
Leave(w) ==
    /\ pc' = [pc EXCEPT ![w] = "idle"]
    /\ req' = [req EXCEPT ![w] = NoRequest]
    /\ final' = [final EXCEPT ![w] = NoManifest]
    /\ holder' = IF holder = w THEN NoWriter ELSE holder

\* Snapshots are computed, with their timestamp, before the lock is taken.
Evaluate(w) ==
    /\ pc[w] = "idle"
    /\ \E r \in Requests : req' = [req EXCEPT ![w] = r]
    /\ pc' = [pc EXCEPT ![w] = "evaluated"]
    /\ UNCHANGED <<tree, holder, final>>

\* Mutant: the lock file is opened, and not locked.
OpenLockFile(w) ==
    /\ pc[w] = "evaluated"
    /\ holder' = w
    /\ pc' = [pc EXCEPT ![w] = "locked"]
    /\ UNCHANGED <<tree, req, final>>

AcquireLock(w) ==
    /\ pc[w] = "evaluated"
    /\ holder = NoWriter
    /\ holder' = w
    /\ pc' = [pc EXCEPT ![w] = "locked"]
    /\ UNCHANGED <<tree, req, final>>

\* The lock is taken without blocking: a writer that finds it held gives up.
LockIsHeld(w) ==
    /\ pc[w] = "evaluated"
    /\ holder # NoWriter
    /\ Leave(w)
    /\ UNCHANGED tree

Accept(w) ==
    /\ pc[w] = "locked"
    /\ Accepts(req[w])
    /\ final' = [final EXCEPT ![w] = FinalManifest(tree.latest, req[w])]
    /\ pc' = [pc EXCEPT ![w] = "writing"]
    /\ UNCHANGED <<tree, holder, req>>

Reject(w) ==
    /\ pc[w] = "locked"
    /\ ~Accepts(req[w])
    /\ Leave(w)
    /\ UNCHANGED tree

----------------------------------------------------------------------------
(***************************************************************************)
(* The files are written stage by stage.  _write_immutable leaves an       *)
(* existing file with the same content alone and _replace_mutable an alias *)
(* with the wanted content, so a stage ends when nothing in it is missing. *)
(***************************************************************************)
MissingSnapshots(w) == SnapshotsOf(req[w]) \ tree.snapshots

MissingDerived(w) == DerivedFilesOf(Newest(final[w])) \ tree.derived

StaleDerivedAliases(w) ==
    {f \in req[w].ids \cap Frontiers :
        tree.derivedAlias[f] # Newest(final[w]).history[f]}

StaleSnapshotAliases(w) ==
    {id \in req[w].ids : tree.snapshotAlias[id] # SnapshotOf(id, req[w])}

ImmutablesWritten(w) == MissingSnapshots(w) = {} /\ MissingDerived(w) = {}

AliasesReplaced(w) == StaleSnapshotAliases(w) = {} /\ StaleDerivedAliases(w) = {}

Write(w, newTree) ==
    /\ tree' = newTree
    /\ UNCHANGED <<holder, pc, req, final>>

\* Primary snapshots come first (_immutable_write_order).
WriteSnapshot(w) ==
    /\ pc[w] = "writing"
    /\ \E s \in MissingSnapshots(w) :
          Write(w, [tree EXCEPT !.snapshots = @ \cup {s}])

WriteDerived(w) ==
    /\ pc[w] = "writing"
    /\ MissingSnapshots(w) = {}
    /\ \E d \in MissingDerived(w) :
          Write(w, [tree EXCEPT !.derived = @ \cup {d}])

\* Mutant: the immutable manifest is written as soon as it is known.
WriteManifestFirst(w) ==
    /\ pc[w] = "writing"
    /\ final[w] \notin tree.publications
    /\ Write(w, [tree EXCEPT !.publications = @ \cup {final[w]}])

\* The immutable manifest is committed only after every file it names.
WriteManifest(w) ==
    /\ pc[w] = "writing"
    /\ ImmutablesWritten(w)
    /\ final[w] \notin tree.publications
    /\ Write(w, [tree EXCEPT !.publications = @ \cup {final[w]}])

\* Aliases are replaced in path order, so a frontier's before a selection's.
ReplaceDerivedAlias(w) ==
    /\ pc[w] = "writing"
    /\ ImmutablesWritten(w)
    /\ final[w] \in tree.publications
    /\ \E f \in StaleDerivedAliases(w) :
          Write(w, [tree EXCEPT !.derivedAlias[f] = Newest(final[w]).history[f]])

\* Mutant: aliases do not wait for the files they repeat.
ReplaceAliasEarly(w) ==
    /\ pc[w] = "writing"
    /\ \E id \in StaleSnapshotAliases(w) :
          Write(w, [tree EXCEPT !.snapshotAlias[id] = SnapshotOf(id, req[w])])

ReplaceSnapshotAlias(w) ==
    /\ pc[w] = "writing"
    /\ ImmutablesWritten(w)
    /\ final[w] \in tree.publications
    /\ \E id \in StaleSnapshotAliases(w) :
          /\ id \in Selections =>
                 /\ StaleSnapshotAliases(w) \cap Frontiers = {}
                 /\ StaleDerivedAliases(w) = {}
          /\ Write(w, [tree EXCEPT !.snapshotAlias[id] = SnapshotOf(id, req[w])])

\* Mutant: the commit marker does not wait for the aliases.
CommitBeforeAliases(w) ==
    /\ pc[w] = "writing"
    /\ ImmutablesWritten(w)
    /\ final[w] \in tree.publications
    /\ tree' = [tree EXCEPT !.latest = final[w]]
    /\ Leave(w)

\* Cross-artifact commit marker: last; the lock is released on return.
Commit(w) ==
    /\ pc[w] = "writing"
    /\ ImmutablesWritten(w)
    /\ final[w] \in tree.publications
    /\ AliasesReplaced(w)
    /\ tree' = [tree EXCEPT !.latest = final[w]]
    /\ Leave(w)

\* The process dies, or a file operation fails, before its next step.
Fail(w) ==
    /\ pc[w] # "idle"
    /\ Leave(w)
    /\ UNCHANGED tree

Step(w) ==
    \/ AcquireLock(w) \/ LockIsHeld(w)
    \/ Accept(w) \/ Reject(w)
    \/ WriteSnapshot(w) \/ WriteDerived(w) \/ WriteManifest(w)
    \/ ReplaceDerivedAlias(w) \/ ReplaceSnapshotAlias(w)
    \/ Commit(w)

Next == \E w \in Writers : Evaluate(w) \/ Step(w) \/ Fail(w)

Spec == Init /\ [][Next]_vars
----------------------------------------------------------------------------
\* The coherent reader's view of the root.
Abstract == INSTANCE Publication WITH committed <- tree.latest

TypeOK ==
    /\ tree \in [snapshots : SUBSET Snapshots, derived : SUBSET DerivedFiles,
                 publications : SUBSET Chains,
                 snapshotAlias : [Ids -> Snapshots \cup {NoFile}],
                 derivedAlias : Histories, latest : Chains]
    /\ holder \in Writers \cup {NoWriter}
    /\ pc \in [Writers -> {"idle", "evaluated", "locked", "writing"}]
    /\ req \in [Writers -> Requests \cup {NoRequest}]
    /\ final \in [Writers -> Chains]

(***************************************************************************)
(* A manifest is stored, and root latest.json names it, only when every    *)
(* file it and its ancestors name is there: whatever failed or died on the *)
(* way, a reader or the next run never meets a missing artifact.           *)
(***************************************************************************)
NoDanglingManifest ==
    \A m \in tree.publications \cup ({tree.latest} \ {NoManifest}) :
        \A a \in Ancestors(m) : ManifestLoads(a)

(***************************************************************************)
(* A runtime that reads one alias sees a complete file some stored         *)
(* manifest names, even while aliases are being replaced one at a time.    *)
(***************************************************************************)
AliasNamesStored ==
    /\ \A id \in Ids : tree.snapshotAlias[id] # NoFile =>
           /\ tree.snapshotAlias[id] \in tree.snapshots
           /\ \E m \in tree.publications :
                  tree.snapshotAlias[id] \in SnapshotsOf(Newest(m))
    /\ \A f \in Frontiers : tree.derivedAlias[f] # {} =>
           [id |-> f, entries |-> tree.derivedAlias[f]] \in tree.derived

(***************************************************************************)
(* Wherever a writer dies, the same call made again is accepted and ends   *)
(* with the same manifest: the files it left are never held against it.    *)
(***************************************************************************)
RetryAccepted ==
    \A w \in Writers : pc[w] = "writing" =>
        /\ Accepts(req[w])
        /\ FinalManifest(tree.latest, req[w]) = final[w]

(***************************************************************************)
(* A call that returns leaves every alias of its manifest in step with it, *)
(* whatever an earlier call that failed had left in the aliases.           *)
(***************************************************************************)
CommitLeavesCoherentAliases ==
    [][\A w \in Writers : Commit(w) =>
          LET newest == Newest(tree'.latest)
          IN  /\ \A id \in newest.ids :
                    tree'.snapshotAlias[id] = SnapshotOf(id, newest)
              /\ \A f \in newest.ids \cap Frontiers :
                    tree'.derivedAlias[f] = newest.history[f]]_vars

(***************************************************************************)
(* When a public call returns, no file of the root, alias or immutable,    *)
(* stems from evidence that public mode does not authorize, and no file is *)
(* there that its chain does not name: nothing a failed private call left  *)
(* behind is served.                                                       *)
(***************************************************************************)
PublicCommitExposesOnlyItsChain ==
    [][\A w \in Writers : Commit(w) /\ req[w].public =>
          /\ tree'.publications \subseteq Ancestors(tree'.latest)
          /\ tree'.snapshots \subseteq NamedSnapshots(tree'.latest)
          /\ tree'.derived \subseteq NamedDerived(tree'.latest)
          /\ \A s \in tree'.snapshots : s.evidence \in Redistributable]_vars

(***************************************************************************)
(* The call that has just returned can be made again and changes nothing,  *)
(* as long as the chain is within the limit that the next load enforces.   *)
(***************************************************************************)
RerunIsIdempotentBelowLimit ==
    [][\A w \in Writers, r \in Requests :
          Commit(w) /\ req[w] = r /\ Len(tree'.latest) <= MaxHistory =>
              /\ Accepts(r)'
              /\ FinalManifest(tree'.latest, r) = tree'.latest]_vars

\* The same without the limit, as test_publisher.py states it of every call.
RerunIsIdempotent ==
    [][\A w \in Writers, r \in Requests :
          Commit(w) /\ req[w] = r =>
              /\ Accepts(r)'
              /\ FinalManifest(tree'.latest, r) = tree'.latest]_vars

(***************************************************************************)
(* The timestamp rollback that the documentation says fails closed, seen   *)
(* where a runtime sees it: no alias ever goes back to an older snapshot.  *)
(***************************************************************************)
AliasNeverRollsBack ==
    [][\A id \in Ids :
          tree.snapshotAlias[id] # NoFile =>
              tree'.snapshotAlias[id].at >= tree.snapshotAlias[id].at]_vars

\* History and licences of what is committed (see Publication.tla).
HistoryIsChain == Abstract!HistoryIsChain
PublicChainIsLicensed == Abstract!PublicChainIsLicensed

\* Every step of the writers, crashes included, is a step of the register.
ImplementsPublication == Abstract!Spec
=============================================================================
