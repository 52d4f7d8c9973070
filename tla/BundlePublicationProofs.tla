---------------------- MODULE BundlePublicationProofs ----------------------
(***************************************************************************)
(* The properties of BundlePublication for any number of importers.        *)
(***************************************************************************)
EXTENDS BundlePublication, TLAPS

Phases ==
    {"idle", "staging", "staged", "occupied", "aside", "ready", "installed", "done"}

TypeOK ==
    /\ target \in Directories \cup {Absent}
    /\ stage \in [Importers -> Directories \cup {Absent}]
    /\ backup \in [Importers -> Directories \cup {Absent}]
    /\ left \subseteq Directories
    /\ pc \in [Importers -> Phases]
    /\ interrupted \in BOOLEAN

\* A call that may install has a whole bundle of its own to install.
StagesAreReady ==
    \A i \in Importers :
        /\ pc[i] = "staging" => stage[i] # Absent /\ stage[i].bundle = i
        /\ pc[i] \in {"staged", "occupied", "aside", "ready"} =>
              stage[i] # Absent /\ stage[i].complete /\ stage[i].bundle = i

\* A backup is there only after the move; it is whole until its removal
\* begins, and once it was checked the owner has put nothing into it.
BackupsAreChecked ==
    \A i \in Importers :
        /\ pc[i] \in {"idle", "staging", "staged", "occupied", "done"} => backup[i] = Absent
        /\ pc[i] = "aside" => backup[i] # Absent
        /\ pc[i] \in {"aside", "ready"} /\ backup[i] # Absent => backup[i].complete
        /\ pc[i] \in {"ready", "installed"} /\ backup[i] # Absent => ~backup[i].unmanaged

(***************************************************************************)
(* The directories that no call is about to remove.  What makes the        *)
(* removal of a backup safe: once a call has installed, a bundle is among  *)
(* these, although it need no longer be the one it installed.              *)
(***************************************************************************)
Kept == {target} \cup {backup[i] : i \in {j \in Importers : pc[j] \in {"aside", "ready"}}} \cup left

BundleIsKept == \E d \in Kept : HasBundle(d)

NotesAreKept == \E d \in Kept : HasNotes(d)

InstalledIsKept ==
    (\E i \in Importers : pc[i] = "installed") /\ ~interrupted => BundleIsKept

LocalInv == TypeOK /\ OutputIsComplete /\ StagesAreReady /\ BackupsAreChecked

IInv == LocalInv /\ InstalledIsKept

----------------------------------------------------------------------------
LEMMA DirectoryFields ==
    \A d \in Directories :
        /\ d.bundle \in Importers \cup {Original, NoBundle}
        /\ d.complete \in BOOLEAN /\ d.unmanaged \in BOOLEAN
        /\ d # Absent
BY AbsentIsNoDirectory DEF Directories

LEMMA BundlesAreDirectories ==
    \A b \in Importers \cup {Original, NoBundle} :
        /\ Bundle(b) \in Directories
        /\ Bundle(b).complete /\ ~Bundle(b).unmanaged /\ Bundle(b).bundle = b
BY DEF Bundle, Directories

LEMMA InitIsInv == Init => IInv
<1> SUFFICES ASSUME Init PROVE IInv
    OBVIOUS
<1>1. TypeOK /\ OutputIsComplete
    BY BundlesAreDirectories, DirectoryFields
    DEF Init, TypeOK, OutputIsComplete, Empty, Phases
<1>2. StagesAreReady /\ BackupsAreChecked /\ InstalledIsKept
    BY DEF Init, StagesAreReady, BackupsAreChecked, InstalledIsKept
<1> QED
    BY <1>1, <1>2 DEF IInv, LocalInv

\* What Restore leaves, whichever way it goes: the backup is kept, and what it
\* replaced had neither a bundle nor notes.
LEMMA RestoreKeeps ==
    ASSUME TypeOK, OutputIsComplete, NEW i \in Importers, backup[i] # Absent,
           backup[i].complete, Restore(i)
    PROVE  /\ target' \in Directories \cup {Absent} /\ left' \subseteq Directories
           /\ OutputIsComplete'
           /\ backup[i] \in {target'} \cup left'
           /\ left \subseteq left'
           /\ target' = target \/ (~HasBundle(target) /\ ~HasNotes(target))
<1>1. backup[i] \in Directories
    BY DEF TypeOK
<1>2. CASE CanRenameTo(target) /\ target' = backup[i] /\ UNCHANGED left
    BY <1>1, <1>2 DEF TypeOK, OutputIsComplete, CanRenameTo, HasBundle, HasNotes
<1>3. CASE left' = left \cup {backup[i]} /\ UNCHANGED target
    BY <1>1, <1>3 DEF TypeOK, OutputIsComplete
<1> QED
    BY <1>2, <1>3 DEF Restore

\* Writing and removing files, and the owner's file, change a directory in part.
LEMMA ChangedDirectories ==
    ASSUME NEW d \in Directories
    PROVE  /\ \A b \in BOOLEAN :
                 /\ [d EXCEPT !.complete = b] \in Directories
                 /\ [d EXCEPT !.complete = b].complete = b
                 /\ [d EXCEPT !.complete = b].bundle = d.bundle
                 /\ [d EXCEPT !.complete = b].unmanaged = d.unmanaged
           /\ [d EXCEPT !.unmanaged = TRUE] \in Directories
           /\ [d EXCEPT !.unmanaged = TRUE].complete = d.complete
           /\ [d EXCEPT !.unmanaged = TRUE].bundle = d.bundle
           /\ [d EXCEPT !.unmanaged = TRUE].unmanaged
BY DEF Directories

\* What a call that ends leaves is in order whatever it has done to the target.
LEMMA FinishKeepsLocalInv ==
    ASSUME LocalInv, NEW i \in Importers, Finish(i),
           target' \in Directories \cup {Absent}, left' \subseteq Directories,
           OutputIsComplete', interrupted' \in BOOLEAN
    PROVE  LocalInv'
BY DEF LocalInv, Finish, TypeOK, StagesAreReady, BackupsAreChecked, Phases

LEMMA StepKeepsLocalInv == LocalInv /\ [Next]_vars => LocalInv'
<1> SUFFICES ASSUME LocalInv, [Next]_vars PROVE LocalInv'
    OBVIOUS
<1>1. ASSUME NEW i \in Importers, Begin(i) PROVE LocalInv'
  <2>1. [bundle |-> i, complete |-> FALSE, unmanaged |-> FALSE] \in Directories
    BY DEF Directories
  <2> QED
    BY <1>1, <2>1, AbsentIsNoDirectory
    DEF LocalInv, Begin, TypeOK, OutputIsComplete, StagesAreReady, BackupsAreChecked, Phases
<1>2. ASSUME NEW i \in Importers, WritePayloads(i) PROVE LocalInv'
  <2>1. stage[i] \in Directories /\ stage[i].bundle = i
    BY <1>2 DEF LocalInv, TypeOK, StagesAreReady, WritePayloads
  <2>2. stage' = [stage EXCEPT ![i] = [stage[i] EXCEPT !.complete = TRUE]]
    BY <1>2 DEF WritePayloads
  <2>3. /\ stage'[i] \in Directories /\ stage'[i] # Absent
        /\ stage'[i].complete /\ stage'[i].bundle = i
    BY <2>1, <2>2, ChangedDirectories, DirectoryFields DEF LocalInv, TypeOK
  <2> QED
    BY <1>2, <2>2, <2>3
    DEF LocalInv, WritePayloads, TypeOK, OutputIsComplete, StagesAreReady, BackupsAreChecked, Phases
<1>3. ASSUME NEW i \in Importers, Recheck(i) PROVE LocalInv'
    BY <1>3
    DEF LocalInv, Recheck, TypeOK, OutputIsComplete, StagesAreReady, BackupsAreChecked, Phases
<1>4. ASSUME NEW i \in Importers, MoveAside(i) PROVE LocalInv'
    BY <1>4
    DEF LocalInv, MoveAside, TypeOK, OutputIsComplete, StagesAreReady, BackupsAreChecked, Phases
<1>5. ASSUME NEW i \in Importers, CheckBackup(i) PROVE LocalInv'
    BY <1>5
    DEF LocalInv, CheckBackup, Valid, TypeOK, OutputIsComplete, StagesAreReady,
        BackupsAreChecked, Phases
<1>6. ASSUME NEW i \in Importers, RejectBackup(i) PROVE LocalInv'
  <2>1. backup[i] # Absent /\ backup[i].complete /\ Restore(i) /\ Finish(i)
    BY <1>6 DEF LocalInv, BackupsAreChecked, RejectBackup
  <2> QED
    BY <1>6, <2>1, RestoreKeeps, FinishKeepsLocalInv DEF LocalInv, TypeOK, RejectBackup
<1>7. ASSUME NEW i \in Importers, Install(i) PROVE LocalInv'
  <2>1. stage[i] # Absent /\ stage[i].complete
    BY <1>7 DEF LocalInv, StagesAreReady, Install
  <2> QED
    BY <1>7, <2>1
    DEF LocalInv, Install, TypeOK, OutputIsComplete, StagesAreReady, BackupsAreChecked, Phases
<1>8. ASSUME NEW i \in Importers, InstallFails(i) PROVE LocalInv'
  <2>1. CASE backup[i] = Absent
    BY <1>8, <2>1, FinishKeepsLocalInv DEF LocalInv, TypeOK, OutputIsComplete, InstallFails
  <2>2. CASE backup[i] # Absent
    <3>1. backup[i].complete /\ Restore(i) /\ Finish(i)
      BY <1>8, <2>2 DEF LocalInv, BackupsAreChecked, InstallFails
    <3> QED
      BY <1>8, <2>2, <3>1, RestoreKeeps, FinishKeepsLocalInv
      DEF LocalInv, TypeOK, InstallFails
  <2> QED
    BY <2>1, <2>2
<1>9. ASSUME NEW i \in Importers, RemovePart(i) PROVE LocalInv'
  <2>1. backup[i] \in Directories
    BY <1>9 DEF LocalInv, TypeOK, RemovePart
  <2>2. backup' = [backup EXCEPT ![i] = [backup[i] EXCEPT !.complete = FALSE]]
    BY <1>9 DEF RemovePart
  <2>3. backup'[i] \in Directories /\ backup'[i].unmanaged = backup[i].unmanaged
    BY <2>1, <2>2, ChangedDirectories DEF LocalInv, TypeOK
  <2> QED
    BY <1>9, <2>2, <2>3
    DEF LocalInv, RemovePart, TypeOK, OutputIsComplete, StagesAreReady, BackupsAreChecked, Phases
<1>10. ASSUME NEW i \in Importers, RemoveBackup(i) \/ FailBeforeMove(i) \/ Interrupt(i)
       PROVE  LocalInv'
  <2>1. Finish(i) /\ UNCHANGED <<target, left>> /\ interrupted' \in BOOLEAN
    BY <1>10 DEF RemoveBackup, FailBeforeMove, Interrupt, BetweenRenames, LocalInv, TypeOK
  <2> QED
    BY <2>1, FinishKeepsLocalInv DEF LocalInv, TypeOK, OutputIsComplete
<1>11. ASSUME NEW i \in Importers, Kill(i) PROVE LocalInv'
    BY <1>11
    DEF LocalInv, Kill, TypeOK, OutputIsComplete, StagesAreReady, BackupsAreChecked, Phases
<1>12. CASE AddNotes
  <2>1. target \in Directories
    BY <1>12 DEF LocalInv, TypeOK, AddNotes
  <2>2. target' \in Directories /\ target'.complete = target.complete
    BY <1>12, <2>1, ChangedDirectories DEF AddNotes
  <2> QED
    BY <1>12, <2>2
    DEF LocalInv, AddNotes, TypeOK, OutputIsComplete, StagesAreReady, BackupsAreChecked
<1>13. CASE UNCHANGED vars
    BY <1>13 DEF vars, LocalInv, TypeOK, OutputIsComplete, StagesAreReady, BackupsAreChecked
<1> QED
    BY <1>1, <1>2, <1>3, <1>4, <1>5, <1>6, <1>7, <1>8, <1>9, <1>10, <1>11, <1>12, <1>13 DEF Next

----------------------------------------------------------------------------
(***************************************************************************)
(* What is kept stays kept, action by action: a directory leaves Kept only *)
(* for another place in it, or has neither a bundle nor notes, or is a     *)
(* backup that was checked while another directory is kept.                *)
(***************************************************************************)
LEMMA RestoreKeepsBoth ==
    ASSUME LocalInv, NEW i \in Importers, backup[i] # Absent, pc[i] \in {"aside", "ready"},
           Restore(i), Finish(i)
    PROVE  /\ BundleIsKept => BundleIsKept'
           /\ NotesAreKept => NotesAreKept'
<1>1. /\ backup[i] \in {target'} \cup left' /\ left \subseteq left'
      /\ target' = target \/ (~HasBundle(target) /\ ~HasNotes(target))
    BY RestoreKeeps DEF LocalInv, BackupsAreChecked
<1>2. \A j \in Importers \ {i} : pc'[j] = pc[j] /\ backup'[j] = backup[j]
    BY DEF Finish, LocalInv, TypeOK
<1>3. \A d \in Kept : d \in Kept' \/ (~HasBundle(d) /\ ~HasNotes(d))
    BY <1>1, <1>2 DEF Kept
<1> QED
    BY <1>3 DEF BundleIsKept, NotesAreKept, HasBundle, HasNotes

LEMMA StepKeepsBundle ==
    LocalInv /\ [Next]_vars /\ BundleIsKept /\ ~interrupted' => BundleIsKept'
<1> SUFFICES ASSUME LocalInv, [Next]_vars, BundleIsKept, ~interrupted'
             PROVE  BundleIsKept'
    OBVIOUS
<1>a. PICK d \in Kept : HasBundle(d)
    BY DEF BundleIsKept
<1>b. \A e : e \in Kept' /\ HasBundle(e) => BundleIsKept'
    BY DEF BundleIsKept, HasBundle
<1>1. ASSUME NEW i \in Importers, Begin(i) \/ WritePayloads(i) \/ Recheck(i) \/ CheckBackup(i)
      PROVE  BundleIsKept'
  <2>1. /\ target' = target /\ left' = left /\ backup' = backup
        /\ \A j \in Importers : pc[j] \in {"aside", "ready"} => pc'[j] \in {"aside", "ready"}
    BY <1>1 DEF LocalInv, TypeOK, Begin, WritePayloads, Recheck, CheckBackup
  <2> QED
    BY <1>a, <1>b, <2>1 DEF Kept
<1>2. ASSUME NEW i \in Importers, MoveAside(i) PROVE BundleIsKept'
  <2>1. /\ left' = left /\ backup'[i] = target /\ pc'[i] = "aside" /\ pc[i] = "occupied"
        /\ \A j \in Importers \ {i} : pc'[j] = pc[j] /\ backup'[j] = backup[j]
    BY <1>2 DEF LocalInv, TypeOK, MoveAside
  <2>2. d \in Kept'
    BY <1>a, <2>1 DEF Kept
  <2> QED
    BY <1>a, <1>b, <2>2
<1>3. ASSUME NEW i \in Importers, RejectBackup(i) PROVE BundleIsKept'
    BY <1>3, RestoreKeepsBoth DEF LocalInv, BackupsAreChecked, RejectBackup
<1>4. ASSUME NEW i \in Importers, Install(i) PROVE BundleIsKept'
  <2>1. target' \in Kept'
    BY DEF Kept
  <2>2. HasBundle(target')
    BY <1>4, NoBundleIsNoImporter DEF LocalInv, StagesAreReady, Install, HasBundle
  <2> QED
    BY <1>b, <2>1, <2>2
<1>5. ASSUME NEW i \in Importers, InstallFails(i) PROVE BundleIsKept'
  <2>1. CASE backup[i] # Absent
    BY <1>5, <2>1, RestoreKeepsBoth DEF InstallFails
  <2>2. CASE backup[i] = Absent
    <3>1. /\ target' = target /\ left' = left
          /\ \A j \in Importers \ {i} : pc'[j] = pc[j] /\ backup'[j] = backup[j]
      BY <1>5, <2>2 DEF LocalInv, TypeOK, InstallFails, Finish
    <3>2. d # backup[i]
      BY <1>a, <2>2 DEF HasBundle
    <3> QED
      BY <1>a, <1>b, <3>1, <3>2 DEF Kept
  <2> QED
    BY <2>1, <2>2
<1>6. ASSUME NEW i \in Importers, RemovePart(i) \/ RemoveBackup(i) \/ FailBeforeMove(i)
      PROVE  BundleIsKept'
  <2>1. /\ target' = target /\ left' = left /\ pc[i] \notin {"aside", "ready"}
        /\ \A j \in Importers \ {i} : pc'[j] = pc[j] /\ backup'[j] = backup[j]
    BY <1>6 DEF LocalInv, TypeOK, RemovePart, RemoveBackup, FailBeforeMove, Finish
  <2> QED
    BY <1>a, <1>b, <2>1 DEF Kept
<1>7. ASSUME NEW i \in Importers, Kill(i) PROVE BundleIsKept'
  <2>1. /\ target' = target /\ left \subseteq left'
        /\ backup[i] # Absent => backup[i] \in left'
        /\ \A j \in Importers \ {i} : pc'[j] = pc[j] /\ backup'[j] = backup[j]
    BY <1>7 DEF LocalInv, TypeOK, Kill
  <2>2. d \in Kept'
    BY <1>a, <2>1 DEF Kept, HasBundle
  <2> QED
    BY <1>a, <1>b, <2>2
<1>8. ASSUME NEW i \in Importers, Interrupt(i) PROVE BundleIsKept'
  <2>1. /\ target' = target /\ left' = left /\ ~BetweenRenames(i)
        /\ \A j \in Importers \ {i} : pc'[j] = pc[j] /\ backup'[j] = backup[j]
    BY <1>8 DEF LocalInv, TypeOK, Interrupt, Finish
  <2>2. pc[i] \notin {"aside", "ready"} \/ d # backup[i]
    BY <1>a, <2>1 DEF BetweenRenames, HasBundle
  <2> QED
    BY <1>a, <1>b, <2>1, <2>2 DEF Kept
<1>9. CASE AddNotes
  <2>1. /\ left' = left /\ backup' = backup /\ pc' = pc
        /\ HasBundle(target) => HasBundle(target')
    BY <1>9, ChangedDirectories, DirectoryFields DEF LocalInv, TypeOK, AddNotes, HasBundle
  <2> QED
    BY <1>a, <1>b, <2>1 DEF Kept
<1>10. CASE UNCHANGED vars
    BY <1>a, <1>b, <1>10 DEF vars, Kept
<1> QED
    BY <1>1, <1>2, <1>3, <1>4, <1>5, <1>6, <1>7, <1>8, <1>9, <1>10 DEF Next

LEMMA StepKeepsNotes ==
    LocalInv /\ [Next]_vars /\ NotesAreKept /\ ~(\E i \in Importers : DiesBeforeCheck(i))
        => NotesAreKept'
<1> SUFFICES ASSUME LocalInv, [Next]_vars, NotesAreKept,
                    ~(\E i \in Importers : DiesBeforeCheck(i))
             PROVE  NotesAreKept'
    OBVIOUS
<1>a. PICK d \in Kept : HasNotes(d)
    BY DEF NotesAreKept
<1>b. \A e : e \in Kept' /\ HasNotes(e) => NotesAreKept'
    BY DEF NotesAreKept, HasNotes
<1>1. ASSUME NEW i \in Importers, Begin(i) \/ WritePayloads(i) \/ Recheck(i) \/ CheckBackup(i)
      PROVE  NotesAreKept'
  <2>1. /\ target' = target /\ left' = left /\ backup' = backup
        /\ \A j \in Importers : pc[j] \in {"aside", "ready"} => pc'[j] \in {"aside", "ready"}
    BY <1>1 DEF LocalInv, TypeOK, Begin, WritePayloads, Recheck, CheckBackup
  <2> QED
    BY <1>a, <1>b, <2>1 DEF Kept
<1>2. ASSUME NEW i \in Importers, MoveAside(i) PROVE NotesAreKept'
  <2>1. /\ left' = left /\ backup'[i] = target /\ pc'[i] = "aside" /\ pc[i] = "occupied"
        /\ \A j \in Importers \ {i} : pc'[j] = pc[j] /\ backup'[j] = backup[j]
    BY <1>2 DEF LocalInv, TypeOK, MoveAside
  <2>2. d \in Kept'
    BY <1>a, <2>1 DEF Kept
  <2> QED
    BY <1>a, <1>b, <2>2
<1>3. ASSUME NEW i \in Importers, RejectBackup(i) PROVE NotesAreKept'
    BY <1>3, RestoreKeepsBoth DEF LocalInv, BackupsAreChecked, RejectBackup
<1>4. ASSUME NEW i \in Importers, Install(i) PROVE NotesAreKept'
  <2>1. /\ left' = left /\ backup' = backup /\ ~HasNotes(target)
        /\ \A j \in Importers \ {i} : pc'[j] = pc[j]
    BY <1>4 DEF LocalInv, TypeOK, Install, CanRenameTo, HasNotes
  <2>2. ~HasNotes(backup[i])
    BY <1>4 DEF LocalInv, BackupsAreChecked, Install, HasNotes
  <2> QED
    BY <1>a, <1>b, <2>1, <2>2 DEF Kept
<1>5. ASSUME NEW i \in Importers, InstallFails(i) PROVE NotesAreKept'
  <2>1. CASE backup[i] # Absent
    BY <1>5, <2>1, RestoreKeepsBoth DEF InstallFails
  <2>2. CASE backup[i] = Absent
    <3>1. /\ target' = target /\ left' = left
          /\ \A j \in Importers \ {i} : pc'[j] = pc[j] /\ backup'[j] = backup[j]
      BY <1>5, <2>2 DEF LocalInv, TypeOK, InstallFails, Finish
    <3>2. d # backup[i]
      BY <1>a, <2>2 DEF HasNotes
    <3> QED
      BY <1>a, <1>b, <3>1, <3>2 DEF Kept
  <2> QED
    BY <2>1, <2>2
<1>6. ASSUME NEW i \in Importers, RemovePart(i) \/ RemoveBackup(i) \/ FailBeforeMove(i)
      PROVE  NotesAreKept'
  <2>1. /\ target' = target /\ left' = left /\ pc[i] \notin {"aside", "ready"}
        /\ \A j \in Importers \ {i} : pc'[j] = pc[j] /\ backup'[j] = backup[j]
    BY <1>6 DEF LocalInv, TypeOK, RemovePart, RemoveBackup, FailBeforeMove, Finish
  <2> QED
    BY <1>a, <1>b, <2>1 DEF Kept
<1>7. ASSUME NEW i \in Importers, Kill(i) PROVE NotesAreKept'
  <2>1. /\ target' = target /\ left \subseteq left'
        /\ backup[i] # Absent => backup[i] \in left'
        /\ \A j \in Importers \ {i} : pc'[j] = pc[j] /\ backup'[j] = backup[j]
    BY <1>7 DEF LocalInv, TypeOK, Kill
  <2>2. d \in Kept'
    BY <1>a, <2>1 DEF Kept, HasNotes
  <2> QED
    BY <1>a, <1>b, <2>2
<1>8. ASSUME NEW i \in Importers, Interrupt(i) PROVE NotesAreKept'
  <2>1. /\ target' = target /\ left' = left /\ pc[i] # "aside"
        /\ \A j \in Importers \ {i} : pc'[j] = pc[j] /\ backup'[j] = backup[j]
    BY <1>8 DEF LocalInv, TypeOK, Interrupt, Finish, DiesBeforeCheck
  <2>2. pc[i] = "ready" => ~HasNotes(backup[i])
    BY DEF LocalInv, BackupsAreChecked, HasNotes
  <2> QED
    BY <1>a, <1>b, <2>1, <2>2 DEF Kept
<1>9. CASE AddNotes
  <2>1. /\ left' = left /\ backup' = backup /\ pc' = pc
        /\ HasNotes(target')
    BY <1>9, ChangedDirectories, DirectoryFields DEF LocalInv, TypeOK, AddNotes, HasNotes
  <2> QED
    BY <1>b, <2>1 DEF Kept
<1>10. CASE UNCHANGED vars
    BY <1>a, <1>b, <1>10 DEF vars, Kept
<1> QED
    BY <1>1, <1>2, <1>3, <1>4, <1>5, <1>6, <1>7, <1>8, <1>9, <1>10 DEF Next

LEMMA StepKeepsInv == IInv /\ [Next]_vars => IInv'
<1> SUFFICES ASSUME IInv, [Next]_vars PROVE IInv'
    OBVIOUS
<1>1. LocalInv'
    BY StepKeepsLocalInv DEF IInv
<1>2. ASSUME NEW i \in Importers, pc'[i] = "installed", ~interrupted' PROVE BundleIsKept'
  <2>1. interrupted = FALSE
    BY <1>2 DEF IInv, LocalInv, TypeOK, Next, vars, Begin, WritePayloads, Recheck, MoveAside,
        CheckBackup, RejectBackup, Install, InstallFails, RemovePart, RemoveBackup,
        FailBeforeMove, Kill, Interrupt, AddNotes
  <2>2. CASE BundleIsKept
    BY <1>2, <2>2, StepKeepsBundle DEF IInv
  <2>3. CASE ~BundleIsKept
    <3>1. pc[i] # "installed"
      BY <2>1, <2>3 DEF IInv, InstalledIsKept
    <3>2. Install(i)
      BY <1>2, <3>1 DEF IInv, LocalInv, TypeOK, Next, vars, Begin, WritePayloads, Recheck,
          MoveAside, CheckBackup, RejectBackup, Install, InstallFails, RemovePart,
          RemoveBackup, FailBeforeMove, Kill, Interrupt, AddNotes, Finish
    <3>3. target' \in Kept' /\ HasBundle(target')
      BY <3>2, NoBundleIsNoImporter
      DEF Kept, IInv, LocalInv, StagesAreReady, Install, HasBundle
    <3> QED
      BY <3>3 DEF BundleIsKept, HasBundle
  <2> QED
    BY <2>2, <2>3
<1> QED
    BY <1>1, <1>2 DEF IInv, InstalledIsKept

----------------------------------------------------------------------------
\* The inductive invariant.
THEOREM IInvHolds == Spec => []IInv
BY InitIsInv, StepKeepsInv, PTL DEF Spec

(***************************************************************************)
(* A reader of the output directory finds it absent, or one whole bundle,  *)
(* however many importers swap it.                                         *)
(***************************************************************************)
THEOREM OutputIsAlwaysComplete == Spec => []OutputIsComplete
<1>1. IInv => OutputIsComplete
    BY DEF IInv, LocalInv
<1> QED
    BY IInvHolds, <1>1, PTL

(***************************************************************************)
(* Once there was a whole bundle there is one, in the output directory or  *)
(* beside it, unless Ctrl-C came between the two renames of a call.        *)
(***************************************************************************)
THEOREM SomeBundleSurvivesHolds == Spec => SomeBundleSurvives
<1>1. IInv /\ [Next]_vars
        => [(\E d \in Everywhere : HasBundle(d)) /\ ~interrupted'
              => (\E d \in Everywhere : HasBundle(d))']_vars
  <2> SUFFICES ASSUME IInv, [Next]_vars, ~interrupted',
                      NEW d \in Everywhere, HasBundle(d)
               PROVE  (\E e \in Everywhere : HasBundle(e))'
    OBVIOUS
  <2>1. interrupted = FALSE
    BY DEF IInv, LocalInv, TypeOK, Next, vars, Begin, WritePayloads, Recheck, MoveAside,
        CheckBackup, RejectBackup, Install, InstallFails, RemovePart, RemoveBackup,
        FailBeforeMove, Kill, Interrupt, AddNotes
  <2>2. BundleIsKept
    <3>1. CASE d \in Kept
      BY <3>1 DEF BundleIsKept
    <3>2. CASE d \notin Kept
      <4>1. PICK i \in Importers : d = backup[i] /\ pc[i] \notin {"aside", "ready"}
        BY <3>2 DEF Everywhere, Kept
      <4>2. pc[i] = "installed"
        BY <4>1 DEF IInv, LocalInv, TypeOK, BackupsAreChecked, Phases, HasBundle
      <4> QED
        BY <2>1, <4>2 DEF IInv, InstalledIsKept
    <3> QED
      BY <3>1, <3>2
  <2>3. BundleIsKept'
    BY <2>2, StepKeepsBundle DEF IInv
  <2> QED
    BY <2>3 DEF BundleIsKept, Kept, Everywhere, HasBundle
<1> QED
    BY IInvHolds, <1>1, PTL DEF Spec, SomeBundleSurvives

(***************************************************************************)
(* No importer deletes the owner's file: what it is in is moved aside,     *)
(* found out when the backup is checked, and restored or left; only Ctrl-C *)
(* between the move and that check takes it away.                          *)
(***************************************************************************)
THEOREM UnmanagedSurvivesHolds == Spec => UnmanagedSurvives
<1>1. IInv /\ [Next]_vars
        => [(\E d \in Everywhere : HasNotes(d)) /\ ~(\E i \in Importers : DiesBeforeCheck(i))
              => (\E d \in Everywhere : HasNotes(d))']_vars
  <2> SUFFICES ASSUME IInv, [Next]_vars, ~(\E i \in Importers : DiesBeforeCheck(i)),
                      NEW d \in Everywhere, HasNotes(d)
               PROVE  (\E e \in Everywhere : HasNotes(e))'
    OBVIOUS
  <2>1. d \in Kept
    BY DEF Everywhere, Kept, IInv, LocalInv, TypeOK, BackupsAreChecked, Phases, HasNotes
  <2>2. NotesAreKept'
    BY <2>1, StepKeepsNotes DEF IInv, NotesAreKept
  <2> QED
    BY <2>2 DEF NotesAreKept, Kept, Everywhere, HasNotes
<1> QED
    BY IInvHolds, <1>1, PTL DEF Spec, UnmanagedSurvives
=============================================================================
