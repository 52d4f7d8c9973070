------------------------- MODULE PublisherDurability -------------------------
(***************************************************************************)
(* publish_project on a file system that can lose power                    *)
(* (src/src/model_skyline/publisher.py, _ensure_parent, _write_immutable,  *)
(* _replace_mutable, _sync_directory).  File contents are synced before    *)
(* they get a name, so what can be lost is directory entries: those of     *)
(* files, and those of the directories that a publication creates.         *)
(*                                                                         *)
(* Publication v adds to the root the snapshot and the manifest of version *)
(* v, points the alias to the snapshot and latest.json to the manifest;    *)
(* the versions of a root are its chain of manifests.                      *)
(***************************************************************************)
EXTENDS Naturals, Sequences

CONSTANTS
    MaxVersion,      \* bound: the number of publications in a chain
    OrderedMetadata  \* TRUE: entries reach the disk in the order of the calls,
                     \* and a sync commits all of them (a metadata journal);
                     \* FALSE: what POSIX promises, a sync of a directory
                     \* covers its own entries and the others come in any order

ASSUME MaxVersionIsPositive == MaxVersion \in Nat \ {0}
ASSUME OrderedMetadataIsBoolean == OrderedMetadata \in BOOLEAN

Versions == 1 .. MaxVersion

(***************************************************************************)
(* The directory entries below the root.                                   *)
(***************************************************************************)
Entry(dir, name) == [dir |-> dir, name |-> name, version |-> 0]

FrontiersDir == Entry("root", "frontiers")
FrontierDir == Entry("frontiers", "frontier")
PublicationsDir == Entry("root", "publications")
Alias == Entry("frontier", "latest.json")
Latest == Entry("root", "latest.json")
Snapshot(v) == [dir |-> "frontier", name |-> "snapshot", version |-> v]
Manifest(v) == [dir |-> "publications", name |-> "manifest", version |-> v]

Entries ==
    {FrontiersDir, FrontierDir, PublicationsDir, Alias, Latest}
        \cup {Snapshot(v) : v \in Versions} \cup {Manifest(v) : v \in Versions}

\* The directories on the way to e, outermost first.
Parents(e) ==
    CASE e.dir = "root" -> <<>>
      [] e.dir = "frontiers" -> <<FrontiersDir>>
      [] e.dir = "frontier" -> <<FrontiersDir, FrontierDir>>
      [] e.dir = "publications" -> <<PublicationsDir>>

\* A file system: the version an entry stands for, 0 when it does not exist.
FileSystems == [Entries -> 0 .. MaxVersion]
EmptyRoot == [e \in Entries |-> 0]

Any(S) == CHOOSE x \in S : TRUE

\* What fs becomes when of these writes those at the places in kept are made:
\* the last one to an entry counts.
AfterSome(fs, writes, kept) ==
    [e \in Entries |->
        LET own == {i \in kept : writes[i].entry = e}
            last == {i \in own : \A j \in own : j <= i}
        IN  IF last = {} THEN fs[e]
            ELSE writes[Any(last)].version]

Reachable(fs, e) ==
    fs[e] # 0 /\ \A i \in 1 .. Len(Parents(e)) : fs[Parents(e)[i]] # 0

\* An entry whose directory was lost is lost with it.
Settled(fs) == [e \in Entries |-> IF Reachable(fs, e) THEN fs[e] ELSE 0]

----------------------------------------------------------------------------
VARIABLES
    disk,      \* the entries that a power loss cannot take away
    pending,   \* the changes made to entries since, oldest first
    version,   \* the version being published, 0: no call
    step,      \* the next write of that call
    replaced,  \* its entry is changed, its directory not yet synced
    orphaned,  \* history: a call was killed between a write and its sync, and
               \* no directory was synced since
    promised   \* history: the last version whose call returned while none was

vars == <<disk, pending, version, step, replaced, orphaned, promised>>

\* What the running processes see.
Memory == AfterSome(disk, pending, DOMAIN pending)

\* The writes of a call, in its order, with the version they leave in the entry.
WriteOf(e, v) == [entry |-> e, version |-> v]

Writes == [entry : Entries, version : Versions]

\* Mutant: latest.json is replaced before what it names is written.
CommitFirst(v) ==
    <<WriteOf(Latest, v), WriteOf(Snapshot(v), v), WriteOf(Manifest(v), v),
      WriteOf(Alias, v)>>

\* Mutant: latest.json is replaced before the alias.
CommitBeforeAlias(v) ==
    <<WriteOf(Snapshot(v), v), WriteOf(Manifest(v), v), WriteOf(Latest, v),
      WriteOf(Alias, v)>>

Plan(v) ==
    <<WriteOf(Snapshot(v), v), WriteOf(Manifest(v), v), WriteOf(Alias, v),
      WriteOf(Latest, v)>>

\* The publication of v and of its ancestors is all there.
Loads(fs, v) ==
    \A u \in 1 .. v : Reachable(fs, Snapshot(u)) /\ Reachable(fs, Manifest(u))

Init ==
    /\ disk = EmptyRoot
    /\ pending = <<>>
    /\ version = 0
    /\ step = 1
    /\ replaced = FALSE
    /\ orphaned = FALSE
    /\ promised = 0

(***************************************************************************)
(* A call starts from the current manifest, and republishes it or adds one.*)
(***************************************************************************)
Start(v) ==
    /\ version = 0
    /\ Loads(Memory, Memory[Latest])
    /\ v \in {Memory[Latest], Memory[Latest] + 1} \cap Versions
    /\ version' = v
    /\ step' = 1
    /\ replaced' = FALSE
    /\ UNCHANGED <<disk, pending, orphaned, promised>>

\* The entry has the wanted content: the early return of both write functions.
Skip ==
    /\ version # 0 /\ step <= Len(Plan(version)) /\ ~replaced
    /\ Memory[Plan(version)[step].entry] = Plan(version)[step].version
    /\ step' = step + 1
    /\ UNCHANGED <<disk, pending, version, replaced, orphaned, promised>>

\* mkdir(parents=True): the directories below the last one that exists.
Mkdirs(fs, e) ==
    LET depth == CHOOSE k \in 0 .. Len(Parents(e)) :
                     \A i \in DOMAIN Parents(e) : (fs[Parents(e)[i]] # 0) <=> (i <= k)
    IN  [i \in 1 .. Len(Parents(e)) - depth |-> WriteOf(Parents(e)[depth + i], 1)]

\* The missing directories are made and the entry is linked or replaced.
Replace ==
    /\ version # 0 /\ step <= Len(Plan(version)) /\ ~replaced
    /\ LET write == Plan(version)[step]
       IN  /\ Memory[write.entry] # write.version
           /\ pending' = pending \o Mkdirs(Memory, write.entry) \o <<write>>
    /\ replaced' = TRUE
    /\ UNCHANGED <<disk, version, step, orphaned, promised>>

\* Mutant: the directory of a new entry is not synced.
NoSync ==
    /\ replaced
    /\ step' = step + 1
    /\ replaced' = FALSE
    /\ UNCHANGED <<disk, pending, version, orphaned, promised>>

\* _sync_directory, of the directory that holds the entry and of no other.
Sync ==
    /\ replaced
    /\ LET dir == Plan(version)[step].entry.dir
           Elsewhere(write) == write.entry.dir # dir
           covered == {i \in DOMAIN pending :
                          OrderedMetadata \/ ~Elsewhere(pending[i])}
       IN  /\ disk' = AfterSome(disk, pending, covered)
           /\ pending' = IF OrderedMetadata THEN <<>>
                         ELSE SelectSeq(pending, Elsewhere)
    /\ step' = step + 1
    /\ replaced' = FALSE
    /\ orphaned' = FALSE
    /\ UNCHANGED <<version, promised>>

\* The call returns, whether it wrote or found everything as it wanted it.
Return ==
    /\ version # 0 /\ step > Len(Plan(version))
    /\ promised' = IF orphaned THEN promised ELSE version
    /\ version' = 0
    /\ step' = 1
    /\ UNCHANGED <<disk, pending, replaced, orphaned>>

\* The process dies, the machine goes on.
Kill ==
    /\ version # 0
    /\ version' = 0
    /\ step' = 1
    /\ replaced' = FALSE
    /\ orphaned' = (orphaned \/ replaced)
    /\ UNCHANGED <<disk, pending, promised>>

\* The sets of pending changes that can have reached the disk in time.
Survivals ==
    IF OrderedMetadata
    THEN {1 .. n : n \in 0 .. Len(pending)}
    ELSE SUBSET DOMAIN pending

(***************************************************************************)
(* The power fails: what survived is the disk and some of the pending      *)
(* changes.                                                                *)
(***************************************************************************)
PowerLoss ==
    /\ \E kept \in Survivals : disk' = Settled(AfterSome(disk, pending, kept))
    /\ pending' = <<>>
    /\ version' = 0
    /\ step' = 1
    /\ replaced' = FALSE
    /\ orphaned' = FALSE
    /\ UNCHANGED promised

Next ==
    \/ \E v \in Versions : Start(v)
    \/ Skip \/ Replace \/ Sync \/ Return
    \/ Kill \/ PowerLoss

Spec == Init /\ [][Next]_vars

----------------------------------------------------------------------------
TypeOK ==
    /\ disk \in FileSystems
    /\ pending \in Seq(Writes)
    /\ version \in 0 .. MaxVersion
    /\ step \in 1 .. 5  \* a plan has four writes
    /\ replaced \in BOOLEAN
    /\ promised \in 0 .. MaxVersion

(***************************************************************************)
(* Immutable data becomes durable first: whatever survives a power loss,   *)
(* latest.json and the alias name no file that did not.                    *)
(***************************************************************************)
LatestNeverDangles ==
    /\ Loads(Memory, Memory[Latest])
    /\ Memory[Alias] # 0 => Reachable(Memory, Snapshot(Memory[Alias]))

(***************************************************************************)
(* A call that returned is not undone by a power loss, a retry after a     *)
(* kill as little as any other, with one exception, which the code makes:  *)
(* where a call was killed between its last write and the sync of it, a    *)
(* retry that finds everything written returns early from every write,     *)
(* syncs nothing (publisher.py:713, 753), and can be lost although it      *)
(* returned. A retry that writes anything syncs, and with it what the dead *)
(* one wrote.                                                              *)
(***************************************************************************)
ReturnedCallSurvives == [][PowerLoss => disk'[Latest] >= promised]_vars

(***************************************************************************)
(* A power loss takes the root back to an earlier state of the chain; it   *)
(* never leaves the commit marker ahead of the alias.                      *)
(***************************************************************************)
CommitMarkerIsLast == Memory[Latest] <= Memory[Alias]
=============================================================================
