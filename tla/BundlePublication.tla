------------------------- MODULE BundlePublication -------------------------
(***************************************************************************)
(* publish_text_bundle (src/src/model_skyline/adapters/_publication.py):   *)
(* an importer writes its bundle of files to a staging directory and then  *)
(* swaps it for the output directory with renames, keeping what was there  *)
(* as a backup until the swap is done.  There is no lock: importers for    *)
(* one output directory, and its owner, who may put a file of their own    *)
(* into it, run at the same time.  A process can be killed at any point,   *)
(* and the renames can fail.                                               *)
(***************************************************************************)
EXTENDS Naturals

CONSTANTS
    Importers,  \* calls of publish_text_bundle, each with a bundle of its own
    Overwrite,  \* the calls made with overwrite=True
    Original,   \* the bundle of an earlier call
    NoBundle,   \* an empty directory
    Absent      \* no directory

ASSUME OverwriteIsByImporters == Overwrite \subseteq Importers
ASSUME OriginalIsNoImporter == Original \notin Importers
ASSUME NoBundleIsNoImporter == NoBundle \notin Importers \cup {Original}

\* A directory: the bundle in it, whether all of its files are written, and
\* whether an unmanaged entry is beside them.
Directories ==
    [bundle : Importers \cup {Original, NoBundle}, complete : BOOLEAN, unmanaged : BOOLEAN]

ASSUME AbsentIsNoDirectory == Absent \notin Directories

Bundle(b) == [bundle |-> b, complete |-> TRUE, unmanaged |-> FALSE]
Empty == Bundle(NoBundle)

VARIABLES
    target,   \* the output directory
    stage,    \* each call's staging directory
    backup,   \* each call's backup directory
    left,     \* the directories that ended calls left beside the output
    pc,       \* how far each call has come
    seen,     \* history: the output directory when the call found it acceptable
    interrupted  \* history: KeyboardInterrupt was raised in a call that had moved
                 \* the output directory aside and not yet installed its own

vars == <<target, stage, backup, left, pc, seen, interrupted>>

----------------------------------------------------------------------------
\* _validate_directory_contents lets it pass (absent is fine).
Valid(directory, overwrite) ==
    directory # Absent =>
        /\ ~directory.unmanaged
        /\ overwrite \/ directory.bundle = NoBundle

\* os.replace of a directory: the destination is absent or an empty directory.
CanRenameTo(directory) ==
    directory # Absent => directory.bundle = NoBundle /\ ~directory.unmanaged

Init ==
    /\ target \in {Absent, Empty, Bundle(Original)}
    /\ stage = [i \in Importers |-> Absent]
    /\ backup = [i \in Importers |-> Absent]
    /\ left = {}
    /\ pc = [i \in Importers |-> "idle"]
    /\ seen = [i \in Importers |-> Absent]
    /\ interrupted = FALSE

\* The call returns or raises; the finally clause removes what it still names.
Finish(i) ==
    /\ pc' = [pc EXCEPT ![i] = "done"]
    /\ stage' = [stage EXCEPT ![i] = Absent]
    /\ backup' = [backup EXCEPT ![i] = Absent]

Begin(i) ==
    /\ pc[i] = "idle"
    /\ Valid(target, i \in Overwrite)
    /\ stage' = [stage EXCEPT ![i] =
                    [bundle |-> i, complete |-> FALSE, unmanaged |-> FALSE]]
    /\ pc' = [pc EXCEPT ![i] = "staging"]
    /\ UNCHANGED <<target, backup, left, seen, interrupted>>

\* Mutant: the call goes on when a file could not be written.
WriteSomePayloads(i) ==
    /\ pc[i] = "staging"
    /\ \E complete \in BOOLEAN : stage' = [stage EXCEPT ![i].complete = complete]
    /\ pc' = [pc EXCEPT ![i] = "staged"]
    /\ UNCHANGED <<target, backup, left, seen, interrupted>>

\* The manifest is the last file written.
WritePayloads(i) ==
    /\ pc[i] = "staging"
    /\ stage' = [stage EXCEPT ![i].complete = TRUE]
    /\ pc' = [pc EXCEPT ![i] = "staged"]
    /\ UNCHANGED <<target, backup, left, seen, interrupted>>

\* The output directory is looked at again before the swap.
Recheck(i) ==
    /\ pc[i] = "staged"
    /\ Valid(target, i \in Overwrite)
    /\ pc' = [pc EXCEPT ![i] = IF target = Absent THEN "ready" ELSE "occupied"]
    /\ seen' = [seen EXCEPT ![i] = target]
    /\ UNCHANGED <<target, stage, backup, left, interrupted>>

\* The output directory, whatever it is by now, becomes the backup.
MoveAside(i) ==
    /\ pc[i] = "occupied"
    /\ target # Absent
    /\ backup' = [backup EXCEPT ![i] = target]
    /\ target' = Absent
    /\ pc' = [pc EXCEPT ![i] = "aside"]
    /\ UNCHANGED <<stage, left, seen, interrupted>>

\* Mutant: the backup is not looked at.
TrustBackup(i) ==
    /\ pc[i] = "aside"
    /\ pc' = [pc EXCEPT ![i] = "ready"]
    /\ UNCHANGED <<target, stage, backup, left, seen, interrupted>>

\* The backup is looked at, this time as if overwrite were set.
CheckBackup(i) ==
    /\ pc[i] = "aside"
    /\ Valid(backup[i], TRUE)
    /\ pc' = [pc EXCEPT ![i] = "ready"]
    /\ UNCHANGED <<target, stage, backup, left, seen, interrupted>>

(***************************************************************************)
(* The backup goes back, or stays as a recovery copy if that fails.        *)
(***************************************************************************)
Restore(i) ==
    \/ /\ CanRenameTo(target)
       /\ target' = backup[i]
       /\ UNCHANGED left
    \/ /\ left' = left \cup {backup[i]}
       /\ UNCHANGED target

RejectBackup(i) ==
    /\ pc[i] = "aside"
    /\ ~Valid(backup[i], TRUE)
    /\ Restore(i)
    /\ Finish(i)
    /\ UNCHANGED <<seen, interrupted>>

Install(i) ==
    /\ pc[i] = "ready"
    /\ CanRenameTo(target)
    /\ target' = stage[i]
    /\ stage' = [stage EXCEPT ![i] = Absent]
    /\ pc' = [pc EXCEPT ![i] = "installed"]
    /\ UNCHANGED <<backup, left, seen, interrupted>>

\* Mutant: the backup of a call that could not install is removed like the stage.
GiveUpInstall(i) ==
    /\ pc[i] = "ready"
    /\ Finish(i)
    /\ UNCHANGED <<target, left, seen, interrupted>>

\* The rename to the output directory fails, for whatever reason.
InstallFails(i) ==
    /\ pc[i] = "ready"
    /\ IF backup[i] = Absent THEN UNCHANGED <<target, left>> ELSE Restore(i)
    /\ Finish(i)
    /\ UNCHANGED <<seen, interrupted>>

RemovePart(i) ==
    /\ pc[i] = "installed"
    /\ backup[i] # Absent
    /\ backup' = [backup EXCEPT ![i].complete = FALSE]
    /\ UNCHANGED <<target, stage, left, pc, seen, interrupted>>

\* The backup is removed, or the call fails before or while it does and the
\* finally clause removes it.
RemoveBackup(i) ==
    /\ pc[i] = "installed"
    /\ Finish(i)
    /\ UNCHANGED <<target, left, seen, interrupted>>

\* A check refuses the output directory, or an operation before the move fails.
FailBeforeMove(i) ==
    /\ pc[i] \in {"idle", "staging", "staged", "occupied"}
    /\ Finish(i)
    /\ UNCHANGED <<target, left, seen, interrupted>>

----------------------------------------------------------------------------
\* The process is killed, or its cleanup fails: its directories stay behind.
Kill(i) ==
    /\ pc[i] \notin {"idle", "done"}
    /\ left' = left \cup ({stage[i], backup[i]} \ {Absent})
    /\ stage' = [stage EXCEPT ![i] = Absent]
    /\ backup' = [backup EXCEPT ![i] = Absent]
    /\ pc' = [pc EXCEPT ![i] = "done"]
    /\ UNCHANGED <<target, seen, interrupted>>

BetweenRenames(i) == pc[i] \in {"aside", "ready"} /\ backup[i] # Absent

\* Ctrl-C: no except clause catches it, and the finally clause removes the staging
\* directory and the backup, whatever is in it.
Interrupt(i) ==
    /\ pc[i] \notin {"idle", "done"}
    /\ Finish(i)
    /\ interrupted' = (interrupted \/ BetweenRenames(i))
    /\ UNCHANGED <<target, left, seen>>

\* The owner puts a file of their own into the output directory.
AddNotes ==
    /\ target # Absent
    /\ ~target.unmanaged
    /\ target' = [target EXCEPT !.unmanaged = TRUE]
    /\ UNCHANGED <<stage, backup, left, pc, seen, interrupted>>

Next ==
    \/ \E i \in Importers :
          \/ Begin(i) \/ WritePayloads(i) \/ Recheck(i)
          \/ MoveAside(i) \/ CheckBackup(i) \/ RejectBackup(i)
          \/ Install(i) \/ InstallFails(i) \/ RemovePart(i) \/ RemoveBackup(i)
          \/ FailBeforeMove(i) \/ Kill(i) \/ Interrupt(i)
    \/ AddNotes

Spec == Init /\ [][Next]_vars

----------------------------------------------------------------------------
Everywhere == {target} \cup {backup[i] : i \in Importers} \cup left

(***************************************************************************)
(* A reader of the output directory finds it absent, or one whole bundle.  *)
(***************************************************************************)
OutputIsComplete == target # Absent => target.complete

HasBundle(d) == d # Absent /\ d.bundle # NoBundle /\ d.complete

(***************************************************************************)
(* Once there was a complete bundle there is one, in the output directory  *)
(* or beside it, in whatever order importers swap, fail and are killed;    *)
(* Ctrl-C between the two renames is the exception.                        *)
(***************************************************************************)
SomeBundleSurvives ==
    [][(\E d \in Everywhere : HasBundle(d)) /\ ~interrupted'
        => (\E d \in Everywhere : HasBundle(d))']_vars

HasNotes(d) == d # Absent /\ d.unmanaged

DiesBeforeCheck(i) == pc[i] = "aside" /\ Interrupt(i)

(***************************************************************************)
(* No importer deletes the owner's file, neither one that was there before *)
(* the call nor one that appears between the checks and the swap, with one *)
(* exception, which the code makes: Ctrl-C after the directory was moved   *)
(* aside (_publication.py:280) and before it is looked at and put back     *)
(* lets the finally clause (334-338) remove the backup with the file in    *)
(* it.                                                                     *)
(***************************************************************************)
UnmanagedSurvives ==
    [][(\E d \in Everywhere : HasNotes(d)) /\ ~(\E i \in Importers : DiesBeforeCheck(i))
        => (\E d \in Everywhere : HasNotes(d))']_vars

(***************************************************************************)
(* A changed target is rejected instead of followed or merged: what a call *)
(* replaces is what it found acceptable.                                   *)
(***************************************************************************)
ChangedTargetIsRejected ==
    [][\A i \in Importers :
          pc[i] = "ready" /\ pc'[i] = "installed" /\ backup[i] # Absent
              => backup[i] = seen[i]]_vars
=============================================================================
