---------------------------- MODULE Publication ----------------------------
(***************************************************************************)
(* What a publication root promises a coherent reader, one that starts at  *)
(* root latest.json: a register that holds a chain of manifests and that   *)
(* each publication either leaves alone or extends by one admissible body. *)
(* Files, aliases, the writer lock and crashes are not visible here:       *)
(* Publisher.tla implements this specification with them.                  *)
(***************************************************************************)
EXTENDS PublicationData

VARIABLE committed   \* the manifest that root latest.json holds

Init == committed = NoManifest

Publish(r) ==
    /\ Admissible(committed, r)
    /\ committed' = FinalManifest(committed, r)

Next == \E r \in Requests : Publish(r)

Spec == Init /\ [][Next]_committed

----------------------------------------------------------------------------
TypeOK == committed \in Chains

\* Publication time never runs backwards along the manifest chain.
ChainInOrder ==
    \A i, j \in 1 .. Len(committed) :
        i <= j => committed[i].at <= committed[j].at

\* Nothing published is ever retired: ids only accumulate along the chain.
ChainIsAdditive ==
    \A i, j \in 1 .. Len(committed) :
        i <= j => committed[i].ids \subseteq committed[j].ids

(***************************************************************************)
(* The history a manifest commits to is neither short nor padded: it holds *)
(* exactly the snapshots its ancestors and itself published of a frontier. *)
(***************************************************************************)
HistoryIsChain ==
    \A i \in 1 .. Len(committed) : \A f \in Frontiers :
        committed[i].history[f] =
            {SnapshotOf(f, committed[j]) :
                j \in {k \in 1 .. i : f \in committed[k].ids}}

\* A feed reader that keys entries by time sees one snapshot per instant.
OneSnapshotPerInstant ==
    Len(committed) > 0 =>
        \A f \in Frontiers : \A g, h \in Newest(committed).history[f] :
            g.at = h.at => g = h

(***************************************************************************)
(* A public manifest commits to redistributable evidence only, in itself   *)
(* and in everything a reader can walk to from it.                         *)
(***************************************************************************)
PublicChainIsLicensed ==
    \A i \in 1 .. Len(committed) :
        committed[i].public =>
            \A j \in 1 .. i : committed[j].evidence \in Redistributable

\* Republishing the same state does not grow the chain.
NoIdleManifest ==
    \A i \in 1 .. Len(committed) - 1 : committed[i] # committed[i + 1]
=============================================================================
