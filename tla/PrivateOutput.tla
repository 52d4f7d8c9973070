--------------------------- MODULE PrivateOutput ---------------------------
(***************************************************************************)
(* write_private_text of src/src/model_skyline/private_output.py: one      *)
(* private file is staged beside its target and then linked (no-clobber)   *)
(* or renamed (overwrite) into place, by calls that share the directory    *)
(* with each other and with somebody else who may do anything to the       *)
(* target.  A directory entry is the inode it names.                       *)
(***************************************************************************)
EXTENDS FiniteSets

CONSTANTS
    Writers,    \* calls of write_private_text for one path; a call's staging
                \* file is an inode of its own, named by the call
    Overwrite,  \* those with overwrite=True
    Files, Links, Folders,  \* inodes of somebody else
    Absent      \* no entry

Foreign == Files \cup Links \cup Folders
Inodes == Writers \cup Foreign
Regular == Writers \cup Files

VARIABLES
    parent,     \* what the last component of the directory's path names
    target,     \* what the target's name names
    staged,     \* the calls whose staging name exists
    written,    \* the calls whose staging file holds all of the text
    pc,         \* where a call is
    seen,       \* what a call saw at the target at first
    result,     \* what a call ended with
    disturbed   \* history: somebody else has changed the target

vars == <<parent, target, staged, written, pc, seen, result, disturbed>>

Phases == {"idle", "absent", "parent", "open", "looked", "created", "written", "rechecked",
           "linked", "installed", "done", "killed"}

Init ==
    /\ parent \in {Absent} \cup Links \cup Files \cup Folders
    /\ target = Absent \/ (parent \in Folders /\ target \in Foreign)
    /\ staged = {}
    /\ written = {}
    /\ pc = [w \in Writers |-> "idle"]
    /\ seen = [w \in Writers |-> Absent]
    /\ result = [w \in Writers |-> "none"]
    /\ disturbed = FALSE

Go(w, from, to) == pc[w] = from /\ pc' = [pc EXCEPT ![w] = to]

\* Mutant: the cleanup removes the target as well.
RaiseRemovingTarget(w) ==
    /\ pc' = [pc EXCEPT ![w] = "done"]
    /\ result' = [result EXCEPT ![w] = "error"]
    /\ staged' = staged \ {w}
    /\ target' = IF w \in written THEN Absent ELSE target
    /\ UNCHANGED <<parent, written, seen, disturbed>>

\* The call raises; the finally clause removes the staging file if it can.
Raise(w) ==
    /\ pc' = [pc EXCEPT ![w] = "done"]
    /\ result' = [result EXCEPT ![w] = "error"]
    /\ staged' \in {staged, staged \ {w}}
    /\ UNCHANGED <<parent, target, written, seen, disturbed>>

\* The same when every system call works from here on.
RaiseAndClean(w) == Raise(w) /\ staged' = staged \ {w}

\* _open_private_parent: the last component is looked at, made if it was not
\* there (losing a race for it is no error), and opened without following links.
LookAtParent(w) ==
    \/ /\ parent = Absent
       /\ Go(w, "idle", "absent")
       /\ UNCHANGED <<parent, target, staged, written, seen, result, disturbed>>
    \/ /\ parent \in Folders
       /\ Go(w, "idle", "parent")
       /\ UNCHANGED <<parent, target, staged, written, seen, result, disturbed>>
    \/ /\ pc[w] = "idle" /\ parent \notin {Absent} \cup Folders
       /\ RaiseAndClean(w)

MakeParent(w) ==
    /\ Go(w, "absent", "parent")
    /\ IF parent = Absent THEN parent' \in Folders ELSE UNCHANGED parent
    /\ UNCHANGED <<target, staged, written, seen, result, disturbed>>

OpenParent(w) ==
    \/ /\ Go(w, "parent", "open")
       /\ parent \in Folders
       /\ UNCHANGED <<parent, target, staged, written, seen, result, disturbed>>
    \/ /\ pc[w] = "parent" /\ parent \notin Folders
       /\ RaiseAndClean(w)

\* _validate_target
Acceptable(w, entry) == entry = Absent \/ (entry \in Regular /\ w \in Overwrite)

LookAtTarget(w) ==
    \/ /\ Go(w, "open", "looked")
       /\ Acceptable(w, target)
       /\ seen' = [seen EXCEPT ![w] = target]
       /\ UNCHANGED <<parent, target, staged, written, result, disturbed>>
    \/ /\ pc[w] = "open" /\ ~Acceptable(w, target)
       /\ RaiseAndClean(w)

\* _create_private_temporary: the name is fresh and the mode is 0600.
CreateTemporary(w) ==
    /\ Go(w, "looked", "created")
    /\ staged' = staged \cup {w}
    /\ UNCHANGED <<parent, target, written, seen, result, disturbed>>

\* Mutant: a short write is not noticed.
WriteSomeText(w) ==
    /\ Go(w, "created", "written")
    /\ written' \in {written, written \cup {w}}
    /\ UNCHANGED <<parent, target, staged, seen, result, disturbed>>

WriteText(w) ==
    /\ Go(w, "created", "written")
    /\ written' = written \cup {w}
    /\ UNCHANGED <<parent, target, staged, seen, result, disturbed>>

\* The second look at the target.
Recheck(w) ==
    \/ /\ Go(w, "written", "rechecked")
       /\ Acceptable(w, target) /\ target = seen[w]
       /\ UNCHANGED <<parent, target, staged, written, seen, result, disturbed>>
    \/ /\ pc[w] = "written"
       /\ ~(Acceptable(w, target) /\ target = seen[w])
       /\ RaiseAndClean(w)

\* os.replace, which works on anything but a directory.
Replace(w) ==
    \/ /\ w \in Overwrite /\ target \notin Folders
       /\ Go(w, "rechecked", "installed")
       /\ target' = w
       /\ staged' = staged \ {w}
       /\ UNCHANGED <<parent, written, seen, result, disturbed>>
    \/ /\ w \in Overwrite /\ pc[w] = "rechecked" /\ target \in Folders
       /\ RaiseAndClean(w)

\* Mutant: the no-clobber call renames as well.
RenameInstead(w) ==
    /\ w \notin Overwrite /\ target \notin Folders
    /\ Go(w, "rechecked", "linked")
    /\ target' = w
    /\ UNCHANGED <<parent, staged, written, seen, result, disturbed>>

\* os.link, which fails if the name is taken.
Link(w) ==
    \/ /\ w \notin Overwrite /\ target = Absent
       /\ Go(w, "rechecked", "linked")
       /\ target' = w
       /\ UNCHANGED <<parent, staged, written, seen, result, disturbed>>
    \/ /\ w \notin Overwrite /\ pc[w] = "rechecked" /\ target # Absent
       /\ RaiseAndClean(w)

\* Mutant: the staging name is kept after the link.
KeepTemporary(w) ==
    /\ Go(w, "linked", "installed")
    /\ UNCHANGED <<parent, target, staged, written, seen, result, disturbed>>

UnlinkTemporary(w) ==
    /\ Go(w, "linked", "installed")
    /\ staged' = staged \ {w}
    /\ UNCHANGED <<parent, target, written, seen, result, disturbed>>

\* What was installed must be the file that was staged; the directory is synced.
CheckInstalled(w) ==
    \/ /\ Go(w, "installed", "done")
       /\ target = w
       /\ result' = [result EXCEPT ![w] = "ok"]
       /\ UNCHANGED <<parent, target, staged, written, seen, disturbed>>
    \/ /\ pc[w] = "installed" /\ target # w
       /\ RaiseAndClean(w)

\* A system call fails.
OSErrorRaised(w) == pc[w] \notin {"done", "killed"} /\ Raise(w)

\* The process dies.
Kill(w) ==
    /\ pc[w] \notin {"idle", "done", "killed"}
    /\ pc' = [pc EXCEPT ![w] = "killed"]
    /\ UNCHANGED <<parent, target, staged, written, seen, result, disturbed>>

Call(w) ==
    \/ LookAtParent(w) \/ MakeParent(w) \/ OpenParent(w) \/ LookAtTarget(w) \/ CreateTemporary(w)
    \/ WriteText(w) \/ Recheck(w) \/ Replace(w) \/ Link(w) \/ UnlinkTemporary(w)
    \/ CheckInstalled(w) \/ OSErrorRaised(w) \/ Kill(w)

\* Somebody else takes the name of the directory, or changes the target.
TakeParent ==
    /\ parent = Absent
    /\ parent' \in Foreign
    /\ UNCHANGED <<target, staged, written, pc, seen, result, disturbed>>

ChangeTarget ==
    /\ parent \in Folders
    /\ target' \in (Foreign \cup {Absent}) \ {target}
    /\ disturbed' = TRUE
    /\ UNCHANGED <<parent, staged, written, pc, seen, result>>

Next == (\E w \in Writers : Call(w)) \/ TakeParent \/ ChangeTarget

Spec == Init /\ [][Next]_vars

----------------------------------------------------------------------------
\* A reader of the target never sees a file of a call that is not all there.
TargetIsComplete == target \in Writers => target \in written

(***************************************************************************)
(* Without overwrite=True nothing that is at the target is ever replaced,  *)
(* however late it came there.                                             *)
(***************************************************************************)
NoClobber ==
    [][\A w \in Writers \ Overwrite :
          pc[w] # pc'[w] /\ target' # target => target = Absent]_vars

(***************************************************************************)
(* Nothing of the target is touched by a call that does not put its own,   *)
(* complete file there: neither a failed call nor its cleanup removes what *)
(* others put in place, and no directory and no link's referent is written.*)
(***************************************************************************)
CallsInstallOnlyTheirOwn ==
    [][\A w \in Writers :
          pc[w] # pc'[w] /\ target' # target =>
             /\ target' = w /\ w \in written
             /\ parent \in Folders /\ target \notin Folders]_vars

(***************************************************************************)
(* A call that returns its path has left no staging file behind, and no    *)
(* name but the target's for its file.                                     *)
(***************************************************************************)
ReturnLeavesNoLitter == \A w \in Writers : result[w] = "ok" => w \notin staged

(***************************************************************************)
(* Left to themselves, calls that return have published: the text of a     *)
(* no-clobber call is there until an overwriting call replaces it, so two  *)
(* no-clobber calls never both return.                                     *)
(***************************************************************************)
ReturnedTextIsThere ==
    ~disturbed =>
        \A w \in Writers : result[w] = "ok" =>
            target \in {w} \cup (Overwrite \cap written)

----------------------------------------------------------------------------
(***************************************************************************)
(* The properties for any number of calls and whatever somebody else does. *)
(***************************************************************************)
InodesAreDistinct ==
    /\ Absent \notin Inodes
    /\ Writers \cap Foreign = {}

PrivateTypeOK ==
    /\ staged \subseteq Writers
    /\ written \subseteq Writers
    /\ pc \in [Writers -> Phases]
    /\ result \in [Writers -> {"none", "ok", "error"}]

\* What a call has done by the phase it is in.
PhasesAreEarned ==
    \A w \in Writers :
        /\ pc[w] \in {"written", "rechecked", "linked", "installed"} => w \in written
        /\ pc[w] \in {"open", "looked", "created", "written", "rechecked", "linked",
                      "installed"} => parent \in Folders
        /\ pc[w] = "installed" => w \notin staged
        /\ result[w] = "ok" => pc[w] = "done" /\ w \in written

PrivateInv ==
    /\ PrivateTypeOK /\ PhasesAreEarned
    /\ TargetIsComplete /\ ReturnLeavesNoLitter /\ ReturnedTextIsThere
=============================================================================
