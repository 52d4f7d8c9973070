----------------------------- MODULE StableRead -----------------------------
(***************************************************************************)
(* Local files are read while others may write or replace them.  Each      *)
(* reader of model_skyline opens the file once, without following a link,  *)
(* and reads it to its end; it differs in what it compares before and      *)
(* after.  Writers write in place, append, truncate, or rename another     *)
(* file to the path.                                                       *)
(*                                                                         *)
(* The time of a change comes from the clock of the file system, and two   *)
(* changes may have the same.                                              *)
(***************************************************************************)
EXTENDS Naturals, Sequences

CONSTANTS
    Chunks,         \* bound: what a block of a file holds
    Limit,          \* the byte limits, in blocks
    MaxChanges,     \* bound: changes by writers
    MaxTime         \* bound: of the file system's clock

VARIABLES
    files,      \* by inode: blocks, and the time of the latest change
    path,       \* the inode that the path names
    time,
    changes,
    blurred,    \* a change had the time of the change before it
    reader,     \* the call that reads
    moments     \* what the file that is open has held since it was opened

vars == <<files, path, time, changes, blurred, reader, moments>>

----------------------------------------------------------------------------
(***************************************************************************)
(* What a reader compares: the open file with its path before and after,   *)
(* its status before and after, its size with what was read.               *)
(***************************************************************************)
Compares(before, status, length, after) ==
    [before |-> before, status |-> status, length |-> length, after |-> after]

\* io.py, resolver.py and the adapters of Harbor, models.dev, structured
\* decisions and intelligence per watt compare the status and the length.
Artifacts == Compares(FALSE, TRUE, TRUE, FALSE)
Selections == Compares(FALSE, TRUE, TRUE, FALSE)
HarborSnapshots == Compares(FALSE, TRUE, TRUE, FALSE)
PriceSnapshots == Compares(FALSE, TRUE, TRUE, FALSE)
DecisionRuns == Compares(FALSE, TRUE, TRUE, FALSE)
WattArtifacts == Compares(FALSE, TRUE, TRUE, FALSE)

\* The path must still name what was read, ...
BenchmarkSources == Compares(FALSE, TRUE, TRUE, TRUE)

\* ... or have named it when it was opened.
UsageReports == Compares(TRUE, TRUE, FALSE, FALSE)

\* Traces and event logs may grow while they are read.
Traces == Compares(FALSE, FALSE, FALSE, FALSE)
EventLogs == Compares(FALSE, FALSE, FALSE, FALSE)

Kinds ==
    {Artifacts, Selections, HarborSnapshots, PriceSnapshots, DecisionRuns, WattArtifacts,
     BenchmarkSources, UsageReports, Traces, EventLogs}

----------------------------------------------------------------------------
Idle == [pc |-> "idle"]
Refused == [pc |-> "refused"]

\* st_dev, st_ino, st_size, st_mtime_ns and st_ctime_ns.
Status(inode) ==
    [inode |-> inode, size |-> Len(files[inode].blocks), time |-> files[inode].time]

NoChange == UNCHANGED <<files, path, time, changes, blurred>>

\* lstat, for the reader that compares it.
Look(kind) ==
    /\ reader = Idle
    /\ kind.before
    /\ reader' = [pc |-> "looked", kind |-> kind, inode |-> path]
    /\ NoChange /\ UNCHANGED moments

\* open and fstat
Open(kind) ==
    /\ IF kind.before THEN reader.pc = "looked" /\ reader.kind = kind ELSE reader = Idle
    /\ IF \/ kind.before /\ reader.inode # path
          \/ Status(path).size > Limit
       THEN reader' = Refused /\ moments' = {}
       ELSE /\ reader' = [pc |-> "open", kind |-> kind, before |-> Status(path), got |-> << >>]
            /\ moments' = {files[path].blocks}
    /\ NoChange

\* A block is read, and one block more than the limit is enough.
Read ==
    /\ reader.pc = "open"
    /\ LET blocks == files[reader.before.inode].blocks
           next == Len(reader.got) + 1
       IN  reader' = IF next > Limit + 1 THEN Refused
                     ELSE IF next \in DOMAIN blocks
                     THEN [reader EXCEPT !.got = Append(@, blocks[next])]
                     ELSE [reader EXCEPT !.pc = "read"]
    /\ NoChange /\ UNCHANGED moments

\* Mutant: a file is the same if it has the same inode and size.
UnchangedSize(r) ==
    r.kind.status => Status(r.before.inode).size = r.before.size

\* fstat again
UnchangedSince(r) == r.kind.status => Status(r.before.inode) = r.before

\* Mutant: the path is not looked at again.
NamedWhenOpened(r, status) == TRUE

\* The path still names what was read, and as it was read.
StillNamed(r, status) == r.kind.after => Status(path) = status

Compare ==
    /\ reader.pc = "read"
    /\ LET status == Status(reader.before.inode)
           fits == /\ Len(reader.got) <= Limit
                   /\ UnchangedSince(reader)
                   /\ reader.kind.length => Len(reader.got) = reader.before.size
       IN  reader' = IF ~fits THEN Refused
                     ELSE [pc |-> "compared", kind |-> reader.kind, got |-> reader.got,
                           status |-> status]
    /\ NoChange /\ UNCHANGED moments

\* stat of the path, for the reader that compares it
Return ==
    /\ reader.pc = "compared"
    /\ reader' = IF StillNamed(reader, reader.status)
                 THEN [pc |-> "returned", kind |-> reader.kind, got |-> reader.got]
                 ELSE Refused
    /\ NoChange /\ UNCHANGED moments

----------------------------------------------------------------------------
\* What writers do to an inode, while the reader may have it open.
Change(inode, blocks) ==
    /\ changes < MaxChanges
    /\ files' = [files EXCEPT ![inode] = [blocks |-> blocks, time |-> time]]
    /\ blurred' = (blurred \/ files[inode].time = time)
    /\ changes' = changes + 1
    /\ moments' = IF reader.pc \in {"open", "read"} /\ reader.before.inode = inode
                  THEN moments \cup {blocks} ELSE moments
    /\ UNCHANGED <<path, time, reader>>

Overwrite ==
    \E i \in DOMAIN files[path].blocks, chunk \in Chunks :
        Change(path, [files[path].blocks EXCEPT ![i] = chunk])

Extend == \E chunk \in Chunks : Change(path, Append(files[path].blocks, chunk))

Truncate == files[path].blocks # << >> /\ Change(path, << >>)

\* Another file is renamed to the path.
Replace ==
    /\ changes < MaxChanges
    /\ \E chunk \in Chunks :
          files' = Append(files, [blocks |-> <<chunk>>, time |-> time])
    /\ path' = Len(files) + 1
    /\ changes' = changes + 1
    /\ UNCHANGED <<time, blurred, reader, moments>>

Tick ==
    /\ time < MaxTime /\ time' = time + 1
    /\ UNCHANGED <<files, path, changes, blurred, reader, moments>>

Init ==
    /\ \E x, y \in Chunks : files = <<[blocks |-> <<x, y>>, time |-> 0]>>
    /\ path = 1 /\ time = 0 /\ changes = 0 /\ blurred = FALSE
    /\ reader = Idle /\ moments = {}

Next ==
    \/ \E kind \in Kinds : Look(kind) \/ Open(kind)
    \/ Read \/ Compare \/ Return
    \/ Overwrite \/ Extend \/ Truncate \/ Replace \/ Tick

Spec == Init /\ [][Next]_vars

----------------------------------------------------------------------------
(***************************************************************************)
(* What a reader that compares the status returns, the file held at one    *)
(* moment while it was open, and not a mixture of two versions; unless     *)
(* two changes had the same time.                                          *)
(***************************************************************************)
ReadIsOfOneMoment ==
    reader.pc = "returned" /\ reader.kind.status /\ ~blurred => reader.got \in moments

(***************************************************************************)
(* The reader that looks at the path at the end returns what the path      *)
(* then names, not a file that was replaced meanwhile.                     *)
(***************************************************************************)
ReadIsNotReplaced ==
    [][reader'.pc = "returned" /\ reader.pc = "compared" /\ reader.kind.after
          => \/ blurred
             \/ reader'.got = files[path].blocks]_vars
----------------------------------------------------------------------------
\* What makes the properties inductive.
Files == [blocks : Seq(Chunks), time : Nat]

FilesAreTyped == files \in Seq(Files) /\ path \in DOMAIN files /\ time \in Nat

\* A file whose time is that of a status has not changed since.
Since(status) == ~blurred /\ files[status.inode].time = status.time

StatusIsOld(status) ==
    /\ status.inode \in DOMAIN files /\ status.time \in Nat
    /\ status.time <= files[status.inode].time

ReadSoFar ==
    /\ files[reader.before.inode].blocks \in moments
    /\ Len(reader.got) <= Len(files[reader.before.inode].blocks)
    /\ reader.pc = "read" => Len(reader.got) = Len(files[reader.before.inode].blocks)
    /\ \A i \in 1 .. Len(reader.got) : reader.got[i] = files[reader.before.inode].blocks[i]

OpenIsPrefix ==
    reader.pc \in {"open", "read"} =>
        /\ DOMAIN reader = {"pc", "kind", "before", "got"}
        /\ reader.got \in Seq(Chunks) /\ reader.kind \in Kinds
        /\ StatusIsOld(reader.before) /\ (Since(reader.before) => ReadSoFar)

ComparedIsWhole ==
    reader.pc = "compared" /\ reader.kind.status =>
        /\ StatusIsOld(reader.status) /\ (~blurred => reader.got \in moments)
        /\ Since(reader.status) => reader.got = files[reader.status.inode].blocks

ReadInv ==
    /\ FilesAreTyped /\ \A i \in DOMAIN files : files[i].time <= time
    /\ reader.pc \in {"looked", "compared"} => reader.kind \in Kinds
    /\ OpenIsPrefix /\ ComparedIsWhole /\ ReadIsOfOneMoment
=============================================================================
