---------------------------- MODULE ScriptProofs ----------------------------
(***************************************************************************)
(* The offline scripts, for every number of runs, jobs and archives that   *)
(* are retained.  First, of Restore: a restore loses no commits, its       *)
(* outcomes are what it reports, and it implements Replacement, each run   *)
(* begun on what the earlier ones left.  Then, of Recovery, which uses of  *)
(* a restore only what Replacement promises: an archive with data outlives *)
(* the failures after it, and what a restore of the newest file gives      *)
(* back.                                                                   *)
(***************************************************************************)
EXTENDS Restore, Recovery, FiniteSetTheorems, WellFoundedInduction, TLAPS

-----------------------------------------------------------------------------
(***************************************************************************)
(* One script, however often it is run: Restore.                           *)
(***************************************************************************)
\* Where a run has not yet taken a copy of the main file, where it has not
\* yet written to it, and where it may have.
Uncopied == {"stage", "verify", "archive", "save", "saving"}
Unwritten == Uncopied \cup {"unlink"}
Replacing == {"save", "saving", "unlink", "copy", "copying", "check", "rearm",
              "rescue", "rescuing"}

\* What was promised is archived before the swap touches a file.
PromiseIsArchived ==
  promised =>
    /\ ~options.skip
    /\ target # "none"
    /\ pc \in Replacing => "current" \in archives

\* A log with commits stands beside a file it may belong to, and no copy that a
\* rollback could put beside it is the snapshot.
LogIsOwn ==
  wal = "commits" =>
    /\ target \notin {"none", "snapshot"}
    /\ emergency # "snapshot"
    /\ archive # "snapshot"

\* The snapshot is copied, checked and re-armed only after the log was removed.
LogIsGone == pc \in {"copy", "copying", "check", "rearm"} => wal = "none"

SnapshotIsIn == pc \in {"check", "rearm"} => target = "snapshot"

\* What is copied exists: the main file when it is saved, a copy of it when the
\* rollback writes.
SourceExists ==
  /\ pc \in {"save", "saving"} /\ existed => target # "none"
  /\ pc = "saving" => existed
  /\ pc = "rescuing" => HasEmergency \/ archive # "none"

\* Until the swap writes, readers see what they saw when the run began.
Untouched == pc \in Unwritten \cup {"aborted"} => View(target, wal) = original

\* A sound copy is what readers saw, and it stays until the rollback used it.
SoundIsOriginal ==
  sound =>
    /\ pc \notin Uncopied
    /\ wal = "none"
    /\ pc \in Replacing => existed /\ emergency = original /\ emergency # "none"

Inv ==
  /\ TypeOK
  /\ NothingLost
  /\ PromiseIsArchived
  /\ LogIsOwn
  /\ LogIsGone
  /\ SnapshotIsIn
  /\ SourceExists
  /\ Untouched
  /\ SoundIsOriginal
  /\ SuccessIsTheSnapshot
  /\ RollbackFromSoundCopy

-----------------------------------------------------------------------------
\* Before the first run the database is there or not, with its log or without.
LEMMA InitInv == Init => Inv
<1> SUFFICES ASSUME Init PROVE Inv
  OBVIOUS
<1>1. /\ target \in {"none", "current", "stale"} /\ wal \in {"none", "commits"}
      /\ emergency = "none" /\ archive = "none" /\ archives = {} /\ pc = "idle"
      /\ sound = FALSE /\ existed = FALSE /\ promised = (target # "none")
      /\ options = [skip |-> FALSE, good |-> TRUE, shared |-> FALSE]
  BY DEF Init
<1>2. View(target, wal) \in {"none", "current"} /\ original = View(target, wal)
      /\ (target # "none" => View(target, wal) = "current")
  BY DEF Init, View
<1>3. TypeOK
  <2>1. runs \in 0..MaxRuns
    BY RestoreAssumption DEF Init
  <2> QED BY <1>1, <1>2, <2>1 DEF TypeOK, Contents, Finished
<1>4. NothingLost /\ PromiseIsArchived /\ SourceExists /\ SoundIsOriginal
  BY <1>1, <1>2
     DEF NothingLost, PromiseIsArchived, SourceExists, SoundIsOriginal, Replacing
<1>5. LogIsOwn
  BY DEF Init, LogIsOwn
<1>6. LogIsGone /\ SnapshotIsIn /\ Untouched /\ SuccessIsTheSnapshot /\ RollbackFromSoundCopy
  BY <1>1 DEF LogIsGone, SnapshotIsIn, Untouched, SuccessIsTheSnapshot,
              RollbackFromSoundCopy, Unwritten, Uncopied
<1> QED BY <1>3, <1>4, <1>5, <1>6 DEF Inv

\* A checkpoint moves the log into the file it belongs to: readers see no
\* difference, and the file is neither missing nor the snapshot.
LEMMA CheckpointKeepsView ==
  ASSUME Checkpoint, LogIsOwn, TypeOK
  PROVE  /\ View(target', wal') = View(target, wal)
         /\ wal' = "commits" => wal = "commits" /\ target' = target
         /\ target' # target => target' = "current" /\ View(target, wal) = "current"
         /\ target' \in Contents /\ wal' \in {"none", "commits"}
BY DEF Checkpoint, View, TypeOK, Contents

\* The steps that only move on, to another place of the script.
LEMMA QuietStep ==
  ASSUME Inv, UNCHANGED <<files, archive, existed, history, options, runs>>,
         \/ pc = "stage" /\ pc' \in {"verify", "aborted"}
         \/ pc = "verify" /\ pc' \in {"archive", "aborted"}
         \/ pc = "save" /\ ~existed /\ pc' = "unlink" 
         \/ pc = "check" /\ pc' = "rearm"
         \/ pc \in Replacing \ {"rescue", "rescuing"} /\ pc' = "rescue"
         \/ pc \in {"rescue", "rescuing"} /\ pc' = "unrescued"
         \/ pc \in InFlight /\ pc' = "crashed"
  PROVE  Inv'
<1>1. UNCHANGED <<target, wal, emergency, archives, archive, existed, original,
                  sound, promised, options, runs>>
  BY DEF files, history
<1>2. TypeOK'
  BY <1>1 DEF Inv, TypeOK, InFlight, Finished
<1>3. NothingLost' /\ LogIsOwn'
  BY <1>1 DEF Inv, NothingLost, LogIsOwn
<1>4. PromiseIsArchived' /\ LogIsGone' /\ SnapshotIsIn' /\ SourceExists'
  BY <1>1 DEF Inv, PromiseIsArchived, LogIsGone, SnapshotIsIn, SourceExists, Replacing
<1>5. Untouched'
  BY <1>1 DEF Inv, Untouched, Unwritten, Uncopied
<1>6. SoundIsOriginal'
  BY <1>1 DEF Inv, SoundIsOriginal, Uncopied, Replacing
<1>7. SuccessIsTheSnapshot' /\ RollbackFromSoundCopy'
  BY DEF SuccessIsTheSnapshot, RollbackFromSoundCopy
<1> QED BY <1>2, <1>3, <1>4, <1>5, <1>6, <1>7 DEF Inv

\* A run begins on whatever the earlier ones left; what readers see then is
\* what it must put back.
LEMMA BeginStep ==
  ASSUME Inv, NEW skip \in BOOLEAN, NEW good \in BOOLEAN, NEW shared \in BOOLEAN,
         Begin(skip, good, shared)
  PROVE  Inv'
<1> USE DEF Begin, Goto, files, history
<1>1. TypeOK'
  <2>1. runs' \in 0..MaxRuns
    BY RestoreAssumption DEF Inv, TypeOK
  <2>2. /\ options' \in [skip : BOOLEAN, good : BOOLEAN, shared : BOOLEAN]
        /\ promised' \in BOOLEAN
    BY DEF Inv, TypeOK
  <2>3. archive' \in Contents /\ original' \in Contents /\ pc' \in InFlight
    BY DEF Inv, TypeOK, Contents, InFlight, View
  <2> QED BY <2>1, <2>2, <2>3 DEF Inv, TypeOK
<1>2. NothingLost'
  BY DEF Inv, NothingLost
<1>3. PromiseIsArchived'
  BY DEF Inv, PromiseIsArchived, Replacing
<1>4. LogIsOwn'
  BY DEF Inv, LogIsOwn
<1>5. LogIsGone' /\ SnapshotIsIn'
  BY DEF LogIsGone, SnapshotIsIn
<1>6. SourceExists'
  BY DEF SourceExists
<1>7. Untouched'
  BY DEF Untouched
<1>8. SoundIsOriginal'
  BY DEF SoundIsOriginal
<1>9. SuccessIsTheSnapshot'
  BY DEF SuccessIsTheSnapshot
<1>10. RollbackFromSoundCopy'
  BY DEF RollbackFromSoundCopy
<1> QED BY <1>1, <1>2, <1>3, <1>4, <1>5, <1>6, <1>7, <1>8, <1>9, <1>10 DEF Inv

\* Either the archive is skipped, and nothing is promised, or it holds what
\* readers saw.
LEMMA ArchiveStep ==
  ASSUME Inv, Archive
  PROVE  Inv'
<1> USE DEF Archive, Checkpoint, Goto, files, history
<1>1. TypeOK'
  <2>1. archive' \in Contents /\ archives' \subseteq Contents \ {"none"}
    BY DEF Inv, TypeOK, Contents, View
  <2> QED BY <2>1 DEF Inv, TypeOK, InFlight
<1>2. NothingLost'
  BY DEF Inv, NothingLost
<1>3. PromiseIsArchived'
  BY DEF Inv, NothingLost, PromiseIsArchived
<1>4. LogIsOwn'
  BY DEF Inv, LogIsOwn, View
<1>5. LogIsGone' /\ SnapshotIsIn'
  BY DEF LogIsGone, SnapshotIsIn
<1>6. SourceExists'
  BY DEF SourceExists
<1>7. Untouched'
  BY DEF Inv, Untouched, Unwritten, Uncopied, View
<1>8. SoundIsOriginal'
  BY DEF Inv, SoundIsOriginal, Uncopied
<1>9. SuccessIsTheSnapshot'
  BY DEF SuccessIsTheSnapshot
<1>10. RollbackFromSoundCopy'
  BY DEF RollbackFromSoundCopy
<1> QED BY <1>1, <1>2, <1>3, <1>4, <1>5, <1>6, <1>7, <1>8, <1>9, <1>10 DEF Inv

\* An archive that fails may still have moved the log into the file.
LEMMA ArchiveFailsStep ==
  ASSUME Inv, ArchiveFails
  PROVE  Inv'
<1> USE DEF ArchiveFails, Checkpoint, Goto, files, history
<1>1. TypeOK'
  BY DEF Inv, TypeOK, Contents, Finished
<1>2. NothingLost'
  BY DEF Inv, NothingLost, View
<1>3. PromiseIsArchived'
  BY DEF PromiseIsArchived, Replacing
<1>4. LogIsOwn'
  BY DEF Inv, LogIsOwn
<1>5. LogIsGone' /\ SnapshotIsIn'
  BY DEF LogIsGone, SnapshotIsIn
<1>6. SourceExists'
  BY DEF SourceExists
<1>7. Untouched'
  BY DEF Inv, Untouched, Unwritten, Uncopied, View
<1>8. SoundIsOriginal'
  BY DEF Inv, SoundIsOriginal, Uncopied
<1>9. SuccessIsTheSnapshot'
  BY DEF SuccessIsTheSnapshot
<1>10. RollbackFromSoundCopy'
  BY DEF RollbackFromSoundCopy
<1> QED BY <1>1, <1>2, <1>3, <1>4, <1>5, <1>6, <1>7, <1>8, <1>9, <1>10 DEF Inv

\* The emergency copy is torn while it is written.
LEMMA SaveBeginsStep ==
  ASSUME Inv, SaveBegins
  PROVE  Inv'
<1> USE DEF SaveBegins, Goto, files, history
<1>1. TypeOK'
  BY DEF Inv, TypeOK, Contents, InFlight
<1>2. NothingLost'
  BY DEF Inv, NothingLost
<1>3. PromiseIsArchived'
  BY DEF Inv, PromiseIsArchived, Replacing
<1>4. LogIsOwn'
  BY DEF Inv, LogIsOwn
<1>5. LogIsGone' /\ SnapshotIsIn'
  BY DEF LogIsGone, SnapshotIsIn
<1>6. SourceExists'
  BY DEF Inv, SourceExists
<1>7. Untouched'
  BY DEF Inv, Untouched, Unwritten, Uncopied
<1>8. SoundIsOriginal'
  BY DEF Inv, SoundIsOriginal, Uncopied
<1>9. SuccessIsTheSnapshot'
  BY DEF SuccessIsTheSnapshot
<1>10. RollbackFromSoundCopy'
  BY DEF RollbackFromSoundCopy
<1> QED BY <1>1, <1>2, <1>3, <1>4, <1>5, <1>6, <1>7, <1>8, <1>9, <1>10 DEF Inv

\* The emergency copy is the main file; without a log that is all readers saw.
LEMMA SaveEndsStep ==
  ASSUME Inv, SaveEnds
  PROVE  Inv'
<1> USE DEF SaveEnds, Goto, files, history
<1>1. TypeOK'
  BY DEF Inv, TypeOK, InFlight
<1>2. NothingLost'
  BY DEF Inv, NothingLost
<1>3. PromiseIsArchived'
  BY DEF Inv, PromiseIsArchived, Replacing
<1>4. LogIsOwn'
  BY DEF Inv, LogIsOwn
<1>5. LogIsGone' /\ SnapshotIsIn'
  BY DEF LogIsGone, SnapshotIsIn
<1>6. SourceExists'
  BY DEF SourceExists
<1>7. Untouched'
  BY DEF Inv, Untouched, Unwritten, Uncopied
<1>8. SoundIsOriginal'
  BY DEF Inv, SoundIsOriginal, Uncopied, Untouched, Unwritten, View, SourceExists
<1>9. SuccessIsTheSnapshot'
  BY DEF SuccessIsTheSnapshot
<1>10. RollbackFromSoundCopy'
  BY DEF RollbackFromSoundCopy
<1> QED BY <1>1, <1>2, <1>3, <1>4, <1>5, <1>6, <1>7, <1>8, <1>9, <1>10 DEF Inv

\* The log is removed; what it held is archived, if it was promised.
LEMMA UnlinkStep ==
  ASSUME Inv, UnlinkWal
  PROVE  Inv'
<1> USE DEF UnlinkWal, Goto, files, history
<1>1. TypeOK'
  BY DEF Inv, TypeOK, InFlight
<1>2. NothingLost'
  BY DEF Inv, NothingLost, PromiseIsArchived, Replacing
<1>3. PromiseIsArchived'
  BY DEF Inv, PromiseIsArchived, Replacing
<1>4. LogIsOwn'
  BY DEF LogIsOwn
<1>5. LogIsGone' /\ SnapshotIsIn'
  BY DEF LogIsGone, SnapshotIsIn
<1>6. SourceExists'
  BY DEF SourceExists
<1>7. Untouched'
  BY DEF Untouched, Unwritten, Uncopied
<1>8. SoundIsOriginal'
  BY DEF Inv, SoundIsOriginal, Uncopied, Replacing
<1>9. SuccessIsTheSnapshot'
  BY DEF SuccessIsTheSnapshot
<1>10. RollbackFromSoundCopy'
  BY DEF RollbackFromSoundCopy
<1> QED BY <1>1, <1>2, <1>3, <1>4, <1>5, <1>6, <1>7, <1>8, <1>9, <1>10 DEF Inv

\* The main file is torn while the snapshot is copied over it.
LEMMA CopyBeginsStep ==
  ASSUME Inv, CopyBegins
  PROVE  Inv'
<1> USE DEF CopyBegins, Goto, files, history
<1>1. TypeOK'
  BY DEF Inv, TypeOK, Contents, InFlight
<1>2. NothingLost'
  BY DEF Inv, NothingLost, PromiseIsArchived, Replacing
<1>3. PromiseIsArchived'
  BY DEF Inv, PromiseIsArchived, Replacing
<1>4. LogIsOwn'
  BY DEF Inv, LogIsOwn
<1>5. LogIsGone' /\ SnapshotIsIn'
  BY DEF Inv, LogIsGone, SnapshotIsIn
<1>6. SourceExists'
  BY DEF SourceExists
<1>7. Untouched'
  BY DEF Untouched, Unwritten, Uncopied
<1>8. SoundIsOriginal'
  BY DEF Inv, SoundIsOriginal, Uncopied, Replacing
<1>9. SuccessIsTheSnapshot'
  BY DEF SuccessIsTheSnapshot
<1>10. RollbackFromSoundCopy'
  BY DEF RollbackFromSoundCopy
<1> QED BY <1>1, <1>2, <1>3, <1>4, <1>5, <1>6, <1>7, <1>8, <1>9, <1>10 DEF Inv

\* No log is left to be replayed over the snapshot.
LEMMA CopyEndsStep ==
  ASSUME Inv, CopyEnds
  PROVE  Inv'
<1> USE DEF CopyEnds, Goto, files, history
<1>1. TypeOK'
  BY DEF Inv, TypeOK, Contents, InFlight
<1>2. NothingLost'
  BY DEF Inv, NothingLost, PromiseIsArchived, Replacing
<1>3. PromiseIsArchived'
  BY DEF Inv, PromiseIsArchived, Replacing
<1>4. LogIsOwn'
  BY DEF Inv, LogIsOwn, LogIsGone
<1>5. LogIsGone' /\ SnapshotIsIn'
  BY DEF Inv, LogIsGone, SnapshotIsIn
<1>6. SourceExists'
  BY DEF SourceExists
<1>7. Untouched'
  BY DEF Untouched, Unwritten, Uncopied
<1>8. SoundIsOriginal'
  BY DEF Inv, SoundIsOriginal, Uncopied, Replacing
<1>9. SuccessIsTheSnapshot'
  BY DEF SuccessIsTheSnapshot
<1>10. RollbackFromSoundCopy'
  BY DEF RollbackFromSoundCopy
<1> QED BY <1>1, <1>2, <1>3, <1>4, <1>5, <1>6, <1>7, <1>8, <1>9, <1>10 DEF Inv

\* Success: the snapshot is in, and the emergency copy goes.
LEMMA RearmStep ==
  ASSUME Inv, Rearm
  PROVE  Inv'
<1> USE DEF Rearm, Goto, files, history
<1>1. TypeOK'
  BY DEF Inv, TypeOK, Contents, Finished
<1>2. NothingLost'
  BY DEF Inv, NothingLost
<1>3. PromiseIsArchived'
  BY DEF Inv, PromiseIsArchived, Replacing
<1>4. LogIsOwn'
  BY DEF Inv, LogIsOwn
<1>5. LogIsGone' /\ SnapshotIsIn'
  BY DEF LogIsGone, SnapshotIsIn
<1>6. SourceExists'
  BY DEF SourceExists
<1>7. Untouched'
  BY DEF Untouched, Unwritten, Uncopied
<1>8. SoundIsOriginal'
  BY DEF Inv, SoundIsOriginal, Uncopied, Replacing
<1>9. SuccessIsTheSnapshot'
  BY DEF Inv, SuccessIsTheSnapshot, LogIsGone, SnapshotIsIn, View
<1>10. RollbackFromSoundCopy'
  BY DEF RollbackFromSoundCopy
<1> QED BY <1>1, <1>2, <1>3, <1>4, <1>5, <1>6, <1>7, <1>8, <1>9, <1>10 DEF Inv

\* The rollback writes only when it has something to write.
LEMMA RescueBeginsStep ==
  ASSUME Inv, RescueBegins
  PROVE  Inv'
<1> USE DEF RescueBegins, Goto, files, history
<1>1. TypeOK'
  BY DEF Inv, TypeOK, Contents, InFlight
<1>2. NothingLost'
  BY DEF Inv, NothingLost, PromiseIsArchived, Replacing
<1>3. PromiseIsArchived'
  BY DEF Inv, PromiseIsArchived, Replacing
<1>4. LogIsOwn'
  BY DEF Inv, LogIsOwn
<1>5. LogIsGone' /\ SnapshotIsIn'
  BY DEF LogIsGone, SnapshotIsIn
<1>6. SourceExists'
  BY DEF SourceExists, HasEmergency
<1>7. Untouched'
  BY DEF Untouched, Unwritten, Uncopied
<1>8. SoundIsOriginal'
  BY DEF Inv, SoundIsOriginal, Uncopied, Replacing
<1>9. SuccessIsTheSnapshot'
  BY DEF SuccessIsTheSnapshot
<1>10. RollbackFromSoundCopy'
  BY DEF RollbackFromSoundCopy
<1> QED BY <1>1, <1>2, <1>3, <1>4, <1>5, <1>6, <1>7, <1>8, <1>9, <1>10 DEF Inv

\* The rollback puts back the emergency copy, or the archive of this run.
LEMMA RescueEndsStep ==
  ASSUME Inv, RescueEnds
  PROVE  Inv'
<1> USE DEF RescueEnds, Goto, files, history
<1>1. TypeOK'
  BY DEF Inv, TypeOK, Contents, Finished
<1>2. NothingLost'
  BY DEF Inv, NothingLost, PromiseIsArchived, Replacing
<1>3. PromiseIsArchived'
  BY DEF Inv, PromiseIsArchived, Replacing, SourceExists, HasEmergency
<1>4. LogIsOwn'
  BY DEF Inv, LogIsOwn, SourceExists, HasEmergency
<1>5. LogIsGone' /\ SnapshotIsIn'
  BY DEF LogIsGone, SnapshotIsIn
<1>6. SourceExists'
  BY DEF SourceExists
<1>7. Untouched'
  BY DEF Untouched, Unwritten, Uncopied
<1>8. SoundIsOriginal'
  BY DEF Inv, SoundIsOriginal, Uncopied, Replacing
<1>9. SuccessIsTheSnapshot'
  BY DEF SuccessIsTheSnapshot
<1>10. RollbackFromSoundCopy'
  BY DEF Inv, RollbackFromSoundCopy, SoundIsOriginal, View, HasEmergency, Replacing
<1> QED BY <1>1, <1>2, <1>3, <1>4, <1>5, <1>6, <1>7, <1>8, <1>9, <1>10 DEF Inv

-----------------------------------------------------------------------------
\* Every step of the script, every failure and every crash preserves the
\* invariant.
LEMMA StepInv == Inv /\ [Next]_vars => Inv'
<1> SUFFICES ASSUME Inv, [Next]_vars PROVE Inv'
  OBVIOUS
<1>1. CASE UNCHANGED vars
  BY <1>1 DEF vars, Inv, TypeOK, NothingLost, PromiseIsArchived, LogIsOwn, LogIsGone,
              SnapshotIsIn, SourceExists, HasEmergency, Untouched, SoundIsOriginal,
              SuccessIsTheSnapshot, RollbackFromSoundCopy
<1>2. CASE \E skip, good, shared \in BOOLEAN : Begin(skip, good, shared)
  BY <1>2, BeginStep
<1>3. CASE Stage \/ StageFails \/ VerifyStaged
  BY <1>3, QuietStep DEF Stage, StageFails, VerifyStaged, Goto
<1>4. CASE NothingToSave \/ CheckTarget \/ SwapFails
  BY <1>4, QuietStep DEF NothingToSave, CheckTarget, SwapFails, Goto, Replacing
<1>5. CASE RescueFails \/ Crash
  BY <1>5, QuietStep DEF RescueFails, Crash, Goto
<1>6. CASE Archive \/ ArchiveFails
  BY <1>6, ArchiveStep, ArchiveFailsStep
<1>7. CASE SaveBegins \/ SaveEnds \/ UnlinkWal \/ CopyBegins \/ CopyEnds \/ Rearm
  BY <1>7, SaveBeginsStep, SaveEndsStep, UnlinkStep, CopyBeginsStep, CopyEndsStep,
     RearmStep
<1>8. CASE RescueBegins \/ RescueEnds
  BY <1>8, RescueBeginsStep, RescueEndsStep
<1> QED BY <1>1, <1>2, <1>3, <1>4, <1>5, <1>6, <1>7, <1>8
        DEF Next, Prepare, Swap, Rescue

\* Inv is an invariant of the script: of the files, the run and what the runs
\* before it promised.
THEOREM Invariance == Spec => []Inv
BY InitInv, StepInv, PTL DEF Spec

\* However often the script is run, wherever it fails or dies: commits that
\* every run archived can still be read, and no log of the old database is
\* replayed over the snapshot.
THEOREM CommitsSurvive == Spec => []DatabaseIsSafe
<1>1. Inv => DatabaseIsSafe
  BY DEF Inv, DatabaseIsSafe, NoForeignLog, LogIsOwn
<1> QED BY <1>1, Invariance, PTL

\* Success means that readers see the snapshot, an abort that they see what
\* they saw, and so does a rollback from a sound copy.
THEOREM OutcomesHold == Spec => []OutcomesAreTrue
<1>1. Inv => OutcomesAreTrue
  BY DEF Inv, OutcomesAreTrue, AbortLeavesDatabase, Untouched
<1> QED BY <1>1, Invariance, PTL

-----------------------------------------------------------------------------
(***************************************************************************)
(* The refinement of Replacement.                                          *)
(***************************************************************************)
\* What readers see of each file, with a log or without.
LEMMA FilesAreSeen ==
  /\ View(target, wal) \in {"current", "stale"} => Database = "data"
  /\ View(target, wal) \in {"torn", "corrupt"} => Database = "unsound"
  /\ View(target, wal) \in {"none", "snapshot"} => Database = View(target, wal)
BY DEF Database

\* The phases, by the place of the script.
LEMMA PlacesArePhases ==
  /\ pc \in {"stage", "verify", "archive"} => Phase = "preparing"
  /\ pc = "restored" => Phase = "restored"
  /\ pc \in Finished \ {"restored"} => Phase = "out"
  /\ pc \in Replacing \cup {"rescuing"} => Phase = "replacing"
BY DEF Phase, Finished, Replacing

\* A step that leaves the file and the log alone leaves what readers see alone.
LEMMA SameFilesSameView ==
  ASSUME View(target', wal') = View(target, wal)
  PROVE  Database' = Database
BY DEF Database

\* A file that is there is data, the snapshot or unsound.
LEMMA PresentFileIsSeen ==
  TypeOK /\ target # "none" => Database \in {"data", "snapshot", "unsound"}
<1> SUFFICES ASSUME TypeOK, target # "none"
             PROVE  Database \in {"data", "snapshot", "unsound"}
  OBVIOUS
<1>1. View(target, wal) \in {"current", "stale", "torn", "corrupt", "snapshot"}
  BY DEF TypeOK, Contents, View
<1> QED BY <1>1, FilesAreSeen

\* Before any run the database is there or not, and nobody replaces it.
LEMMA ReplacementStarts == Init => Promise!ReplacementInit
<1> SUFFICES ASSUME Init PROVE Promise!ReplacementInit
  OBVIOUS
<1>1. View(target, wal) \in {"none", "current"} /\ pc = "idle"
  BY DEF Init, View
<1>2. Database \in {"none", "data"}
  BY <1>1, FilesAreSeen
<1>3. Phase = "out"
  BY <1>1, PlacesArePhases DEF Finished
<1> QED BY <1>2, <1>3 DEF Promise!ReplacementInit

\* The steps of the script while it prepares: readers see no difference.
LEMMA PreparationRefines ==
  ASSUME Inv, Prepare \/ (Crash /\ pc \in {"stage", "verify", "archive"})
  PROVE  [Promise!ReplacementNext]_<<Database, Phase>>
<1>1. pc \in {"stage", "verify", "archive"} /\ Phase = "preparing"
  BY PlacesArePhases DEF Prepare, Stage, StageFails, VerifyStaged, Archive, ArchiveFails
<1>2. View(target', wal') = View(target, wal)
  <2>1. CASE Archive \/ ArchiveFails
    BY <2>1, CheckpointKeepsView DEF Archive, ArchiveFails, Inv
  <2>2. CASE Stage \/ StageFails \/ VerifyStaged \/ Crash
    BY <2>2 DEF Stage, StageFails, VerifyStaged, Crash, files
  <2> QED BY <2>1, <2>2 DEF Prepare
<1>3. Database' = Database
  BY <1>2, SameFilesSameView
<1>4. pc' \in {"verify", "archive", "aborted", "crashed", "save"}
  BY DEF Prepare, Stage, StageFails, VerifyStaged, Archive, ArchiveFails, Crash,
         Goto
<1>5. Phase' \in {"preparing", "out", "replacing"}
  BY <1>4 DEF Phase
<1> QED
  BY <1>1, <1>3, <1>5 DEF Promise!ReplacementNext, Promise!GivesUp, Promise!Swaps

\* The steps of the swap and of the rollback: there is always a file, and only
\* the snapshot is reported as a success.
LEMMA ReplacingRefines ==
  ASSUME Inv, Inv', Swap \/ Rescue \/ (Crash /\ pc \notin {"stage", "verify", "archive"})
  PROVE  [Promise!ReplacementNext]_<<Database, Phase>>
<1>1. pc \in Replacing \cup {"rescuing"} /\ Phase = "replacing"
  <2>1. pc \in Replacing \cup {"rescuing"}
    BY DEF Swap, Rescue, Crash, SaveBegins, SaveEnds, NothingToSave, UnlinkWal,
           CopyBegins, CopyEnds, CheckTarget, Rearm, SwapFails, RescueBegins,
           RescueEnds, RescueFails, Replacing, InFlight
  <2> QED BY <2>1, PlacesArePhases
<1>2. Database' = Database \/ Database' \in {"data", "snapshot", "unsound"}
  <2>1. CASE UNCHANGED <<target, wal>>
    BY <2>1, SameFilesSameView
  <2>2. CASE target' # "none"
    <3>1. (TypeOK /\ target # "none" => Database \in {"data", "snapshot", "unsound"})'
      BY PresentFileIsSeen, PTL
    <3> QED BY <2>2, <3>1 DEF Inv
  <2>3. CASE UnlinkWal
    <3>1. target' = target /\ (wal = "commits" => target # "none")
      BY <2>3 DEF UnlinkWal, Inv, LogIsOwn
    <3>2. CASE wal = "none"
      BY <2>1, <2>3, <3>2 DEF UnlinkWal
    <3> QED BY <2>2, <3>1, <3>2 DEF Inv, TypeOK
  <2>4. CASE CopyBegins \/ CopyEnds \/ RescueBegins
    BY <2>2, <2>4 DEF CopyBegins, CopyEnds, RescueBegins
  <2>5. CASE RescueEnds
    <3>1. target' # "none"
      BY <2>5 DEF RescueEnds, HasEmergency, Inv, SourceExists
    <3> QED BY <2>2, <3>1
  <2>6. CASE \/ SaveBegins \/ SaveEnds \/ NothingToSave \/ CheckTarget \/ Rearm
             \/ SwapFails \/ RescueFails \/ Crash
    BY <2>1, <2>6 DEF SaveBegins, SaveEnds, NothingToSave, CheckTarget, Rearm,
                      SwapFails, RescueFails, Crash, files
  <2> QED BY <2>3, <2>4, <2>5, <2>6 DEF Swap, Rescue
<1>3. \/ pc' \in Replacing \cup {"rescuing"}
      \/ pc' \in {"rolledback", "unrescued", "crashed"}
      \/ Rearm /\ pc' = "restored"
  BY DEF Swap, Rescue, Crash, SaveBegins, SaveEnds, NothingToSave, UnlinkWal,
         CopyBegins, CopyEnds, CheckTarget, Rearm, SwapFails, RescueBegins,
         RescueEnds, RescueFails, Goto, Replacing
<1>4. CASE pc' \in Replacing \cup {"rescuing"}
  <2>1. Phase' = "replacing"
    BY <1>4 DEF Phase, Replacing, Finished
  <2> QED BY <1>1, <1>2, <2>1
             DEF Promise!ReplacementNext, Promise!Rewrites, Promise!Views
<1>5. CASE pc' \in {"rolledback", "unrescued", "crashed"}
  <2>1. Phase' = "out"
    BY <1>5 DEF Phase, Finished
  <2> QED BY <1>1, <1>2, <2>1 DEF Promise!ReplacementNext, Promise!Fails, Promise!Views
<1>6. CASE Rearm /\ pc' = "restored"
  <2>1. Phase' = "restored"
    BY <1>6 DEF Phase
  <2>2. Database = "snapshot" /\ Database' = Database
    <3>1. View(target, wal) = "snapshot" /\ View(target', wal') = View(target, wal)
      BY <1>6 DEF Rearm, Inv, SnapshotIsIn, LogIsGone, View
    <3> QED BY <3>1, FilesAreSeen, SameFilesSameView
  <2> QED BY <1>1, <2>1, <2>2 DEF Promise!ReplacementNext, Promise!Succeeds
<1> QED BY <1>3, <1>4, <1>5, <1>6

\* Every step of the script is a step of Replacement or changes nothing there.
LEMMA StepRefines ==
  Inv /\ Inv' /\ [Next]_vars => [Promise!ReplacementNext]_<<Database, Phase>>
<1> SUFFICES ASSUME Inv, Inv', [Next]_vars
             PROVE  [Promise!ReplacementNext]_<<Database, Phase>>
  OBVIOUS
<1>1. CASE UNCHANGED vars
  <2>1. Database' = Database
    BY <1>1, SameFilesSameView DEF vars
  <2>2. Phase' = Phase
    BY <1>1 DEF vars, Phase
  <2> QED BY <2>1, <2>2
<1>2. CASE \E skip, good, shared \in BOOLEAN : Begin(skip, good, shared)
  <2>1. pc \in Finished /\ pc' = "stage" /\ UNCHANGED <<target, wal>>
    BY <1>2 DEF Begin, files
  <2>2. Phase \in {"out", "restored"}
    BY <2>1, PlacesArePhases
  <2>3. Phase' = "preparing"
    <3>1. pc' \in {"stage", "verify", "archive"}
      BY <2>1
    <3> QED BY <3>1 DEF Phase, Finished
  <2>4. Database' = Database
    BY <2>1, SameFilesSameView
  <2> QED BY <2>2, <2>3, <2>4 DEF Promise!ReplacementNext, Promise!Starts
<1>3. CASE Prepare \/ (Crash /\ pc \in {"stage", "verify", "archive"})
  BY <1>3, PreparationRefines
<1>4. CASE Swap \/ Rescue \/ (Crash /\ pc \notin {"stage", "verify", "archive"})
  BY <1>4, ReplacingRefines
<1>5. Prepare \/ Swap \/ Rescue \/ Crash \/ UNCHANGED vars
      \/ \E skip, good, shared \in BOOLEAN : Begin(skip, good, shared)
  BY DEF Next
<1> QED BY <1>1, <1>2, <1>3, <1>4, <1>5

\* The script implements Replacement: readers see a change only while the file
\* is replaced, there is a file whatever fails, and success is the snapshot.
THEOREM RestoreImplementsReplacement == Spec => ReplacesOnly
BY ReplacementStarts, StepRefines, Invariance, PTL
   DEF Spec, ReplacesOnly, Promise!ReplacementSpec, Promise!replacementVars

-----------------------------------------------------------------------------
(***************************************************************************)
(* Jobs and restores on one folder and one database: Recovery.             *)
(***************************************************************************)
\* Every variable has its type.
RecoveryTypeOK ==
  /\ folder \subseteq File
  /\ jobs \in 0..MaxJobs /\ best \in 0..MaxJobs
  /\ step \in Steps \cup {"idle"}
  /\ newer \in Nat /\ unpruned \in Nat
  /\ misled \in BOOLEAN
  /\ phase \in {"out", "preparing", "replacing", "restored"}
  /\ picked \in [job : 0..MaxJobs, kind : {"raw", "gz"}, body : Bodies]
  /\ auto \in BOOLEAN /\ doubtful \in BOOLEAN
  /\ expected \in 0..MaxJobs
  /\ held \subseteq Bodies

\* A job writes one copy and one archive, under its own number.
NamesAreUnique ==
  /\ \A f, g \in folder : f.job = g.job /\ f.kind = g.kind => f = g
  /\ \A f \in folder : f.job <= jobs

\* How far the running job has come.
JobIsExact ==
  /\ step # "idle" => jobs > 0
  /\ step \in {"copy", "verify", "compress"} =>
       \A f \in folder : f.job = jobs => f.kind = "raw"
  /\ step \in {"copy", "verify", "compress", "compressing"} => best < jobs
  /\ step = "compressing" => jobs \in Archived(folder)
  /\ step \in {"verify", "compress", "compressing"} =>
       \A f \in folder : IsRaw(f) => f.body = "data" \/ misled
  /\ step \in {"unlink", "rotate"} =>
       \A f \in folder : f.job = jobs /\ f.kind = "gz" =>
         (f.body = "data" /\ best = jobs) \/ misled
  /\ step = "rotate" => \A f \in folder : ~IsRaw(f)

\* Where a file stands: its job runs, or was interrupted, or has left an archive.
Settled(j) == j <= jobs /\ j \notin unfinished /\ (j = jobs => step = "idle")

\* What a job leaves that came to its end is an archive with data, not younger
\* than the best one, unless a job was misled.
FinishedIsSound ==
  \A f \in folder : Settled(f.job) =>
    f.kind = "gz" /\ (misled \/ (f.body = "data" /\ f.job <= best))

\* The archives are counted, and the best one is there or younger ones are.
BestStands ==
  /\ best <= jobs
  /\ best # 0 /\ newer < Retain => FileOf(best, "gz", "data") \in folder
  /\ best # 0 => \E j \in Archived(folder) : j >= best
  /\ Cardinality({j \in Archived(folder) : j > best}) <= newer
  /\ Cardinality(Archived(folder)) <= Retain + unpruned

\* What a restore knows of the file it works from.
PickStands ==
  phase \in {"preparing", "replacing", "restored"} =>
    /\ auto => picked.job >= expected
    /\ ~doubtful => Settled(picked.job)
    /\ ~doubtful /\ ~misled => picked.kind = "gz" /\ (auto => picked.job = expected)
    /\ phase # "preparing" /\ ~doubtful /\ ~misled => picked.body = "data"

RecoveryInv ==
  /\ RecoveryTypeOK
  /\ NamesAreUnique
  /\ JobIsExact
  /\ FinishedIsSound
  /\ BestStands
  /\ PickStands

-----------------------------------------------------------------------------
(***************************************************************************)
(* Sets of job numbers.                                                    *)
(***************************************************************************)
\* A set of jobs has a first and a last one.
LEMMA FirstAndLastJob ==
  ASSUME NEW S \in SUBSET (1..MaxJobs), S # {}
  PROVE  /\ \E m \in S : \A j \in S : m <= j
         /\ \E m \in S : \A j \in S : j <= m
<1> USE BackupAssumption
<1>1. ASSUME NEW T \in SUBSET Nat, T # {}
      PROVE  \E m \in T : \A j \in T : m <= j
  <2>1. \E m \in T : \A j \in T : ~(<<j, m>> \in OpToRel(<, Nat))
    BY <1>1, NatLessThanWellFounded, WFMin
  <2>2. \A j, m \in T : <<j, m>> \in OpToRel(<, Nat) <=> j < m
    BY <1>1 DEF OpToRel
  <2>3. \A j, m \in T : ~(j < m) => m <= j
    BY <1>1
  <2> QED BY <2>1, <2>2, <2>3
<1>2. \E m \in S : \A j \in S : m <= j
  <2>1. S \in SUBSET Nat
    OBVIOUS
  <2> QED BY <1>1, <2>1
<1>3. \E m \in S : \A j \in S : j <= m
  <2> DEFINE T == {MaxJobs - j : j \in S}
  <2>1. T \in SUBSET Nat /\ T # {}
    <3>1. \A j \in S : j \in 1..MaxJobs /\ MaxJobs - j \in Nat
      OBVIOUS
    <3> QED BY <3>1
  <2>2. PICK n \in T : \A k \in T : n <= k
    BY <1>1, <2>1
  <2>3. PICK m \in S : n = MaxJobs - m
    OBVIOUS
  <2>4. ASSUME NEW j \in S PROVE j <= m
    <3>1. MaxJobs - m <= MaxJobs - j
      BY <2>2, <2>3
    <3>2. j \in 1..MaxJobs /\ m \in 1..MaxJobs
      OBVIOUS
    <3> QED BY <3>1, <3>2
  <2> QED BY <2>4
<1> QED BY <1>2, <1>3

\* Sets of job numbers are finite.
LEMMA JobsAreFinite ==
  ASSUME NEW S \in SUBSET (1..MaxJobs)
  PROVE  IsFiniteSet(S) /\ Cardinality(S) \in Nat
<1>1. IsFiniteSet(1..MaxJobs)
  BY BackupAssumption, FS_Interval
<1> QED BY <1>1, FS_Subset, FS_CardinalityType

\* A set is not smaller than its part.
LEMMA PartIsNotMore ==
  ASSUME NEW S \in SUBSET (1..MaxJobs), NEW T \in SUBSET S
  PROVE  Cardinality(T) <= Cardinality(S)
BY JobsAreFinite, FS_Subset

\* One job more makes a set of jobs larger by one at most.
LEMMA OneJobMore ==
  ASSUME NEW S \in SUBSET (1..MaxJobs), NEW j
  PROVE  Cardinality(S \cup {j}) <= Cardinality(S) + 1
<1>1. IsFiniteSet(S) /\ Cardinality(S) \in Nat
  BY JobsAreFinite
<1>2. Cardinality(S \cup {j}) = IF j \in S THEN Cardinality(S) ELSE Cardinality(S) + 1
  BY <1>1, FS_AddElement
<1> QED BY <1>1, <1>2

\* Those that have fewer than Retain jobs after them are Retain at most, and
\* the last one is among them.
LEMMA NewestAreRetained ==
  ASSUME NEW S \in SUBSET (1..MaxJobs)
  PROVE  LET Kept == {j \in S : Cardinality({k \in S : k > j}) < Retain}
         IN  /\ Cardinality(Kept) <= Retain
             /\ \A j \in S : \E k \in Kept : k >= j
<1> DEFINE Kept == {j \in S : Cardinality({k \in S : k > j}) < Retain}
<1>1. Retain \in Nat \ {0} /\ Kept \in SUBSET (1..MaxJobs)
  BY BackupAssumption
<1>2. Cardinality(Kept) <= Retain
  <2>1. CASE Kept = {}
    <3>1. Cardinality({}) = 0
      BY FS_EmptySet
    <3> HIDE DEF Kept
    <3> QED BY <1>1, <2>1, <3>1
  <2>2. CASE Kept # {}
    <3>1. PICK m \in Kept : \A j \in Kept : m <= j
      BY <1>1, <2>2, FirstAndLastJob
    <3> DEFINE Later == {k \in S : k > m}
    <3>2. Cardinality(Later) < Retain /\ Later \in SUBSET (1..MaxJobs)
      BY <3>1
    <3>3. Kept \subseteq Later \cup {m}
      <4>1. ASSUME NEW j \in Kept, j # m PROVE j > m
        <5>1. m <= j /\ m \in 1..MaxJobs /\ j \in 1..MaxJobs
          BY <3>1
        <5> QED BY <4>1, <5>1
      <4> QED BY <4>1
    <3>4. Later \cup {m} \in SUBSET (1..MaxJobs)
      BY <3>1, <3>2
    <3> HIDE DEF Later, Kept
    <3>5. Cardinality(Later \cup {m}) <= Cardinality(Later) + 1
      BY <3>2, OneJobMore
    <3>6. Cardinality(Kept) <= Cardinality(Later \cup {m})
      BY <3>3, <3>4, PartIsNotMore
    <3>7. /\ Cardinality(Kept) \in Nat /\ Cardinality(Later) \in Nat
          /\ Cardinality(Later \cup {m}) \in Nat
      BY <1>1, <3>2, <3>4, JobsAreFinite
    <3> QED BY <1>1, <3>2, <3>5, <3>6, <3>7
  <2> QED BY <2>1, <2>2
<1>3. ASSUME NEW j \in S PROVE \E k \in Kept : k >= j
  <2>1. PICK m \in S : \A k \in S : k <= m
    BY FirstAndLastJob
  <2>2. {k \in S : k > m} = {}
    <3>1. ASSUME NEW k \in S PROVE ~(k > m)
      <4>1. k <= m /\ k \in 1..MaxJobs /\ m \in 1..MaxJobs
        BY <2>1
      <4> QED BY <4>1
    <3> QED BY <3>1
  <2>3. Cardinality({k \in S : k > m}) < Retain
    BY <1>1, <2>2, FS_EmptySet
  <2>4. m >= j
    BY <2>1
  <2> QED BY <2>3, <2>4
<1> QED BY <1>2, <1>3

\* The archives of a folder are a set of jobs.
LEMMA ArchivedIsJobs ==
  ASSUME NEW found
  PROVE  /\ Archived(found) \in SUBSET (1..MaxJobs)
         /\ \A n \in Nat : {j \in Archived(found) : j > n} \in SUBSET (1..MaxJobs)
BY DEF Archived

\* Only archives count.
LEMMA SameArchives ==
  ASSUME NEW A, NEW B, \A f \in A \cup B : f.kind = "gz" => (f \in A <=> f \in B)
  PROVE  Archived(A) = Archived(B)
BY DEF Archived

-----------------------------------------------------------------------------
(***************************************************************************)
(* What the operations do to the folder.                                   *)
(***************************************************************************)
\* Writing to the file of the running job leaves the files of other jobs, and
\* its own file of the other kind.
LEMMA WrittenFolder ==
  ASSUME RecoveryTypeOK, NamesAreUnique, jobs # 0,
         NEW kind \in {"raw", "gz"}, NEW body \in Bodies, NEW W, W = Written(kind, body)
  PROVE  /\ W \subseteq File
         /\ \A f, g \in W : f.job = g.job /\ f.kind = g.kind => f = g
         /\ \A f \in W : f.job <= jobs
         /\ \A f \in W : \/ f \in folder /\ ~(f.job = jobs /\ f.kind = kind)
                         \/ f.job = jobs /\ f.kind = kind /\ f.body = body
         /\ \A f \in folder : f.job # jobs \/ f.kind # kind => f \in W
         /\ kind = "raw" => Archived(W) = Archived(folder)
         /\ kind = "gz" => Archived(W) = Archived(folder) \cup {jobs}
<1> DEFINE new == FileOf(jobs, kind, body)
<1>1. /\ jobs \in 1..MaxJobs /\ folder \subseteq File
      /\ \A f \in folder : f.job \in Nat
  BY BackupAssumption DEF RecoveryTypeOK, File
<1>2. /\ new \in File /\ new.job = jobs /\ new.kind = kind /\ new.body = body
  BY <1>1 DEF FileOf, File
<1>3. W = {f \in folder : ~(f.job = jobs /\ f.kind = kind)} \cup {new}
  BY DEF Written
<1> HIDE DEF new
<1>4. /\ W \subseteq File
      /\ \A f, g \in W : f.job = g.job /\ f.kind = g.kind => f = g
      /\ \A f \in W : f.job <= jobs
      /\ \A f \in W : \/ f \in folder /\ ~(f.job = jobs /\ f.kind = kind)
                      \/ f.job = jobs /\ f.kind = kind /\ f.body = body
      /\ \A f \in folder : f.job # jobs \/ f.kind # kind => f \in W
  BY <1>1, <1>2, <1>3 DEF NamesAreUnique
<1>5. ASSUME kind = "raw" PROVE Archived(W) = Archived(folder)
  <2>1. \A f \in W \cup folder : f.kind = "gz" => (f \in W <=> f \in folder)
    BY <1>2, <1>3, <1>5
  <2> QED BY <2>1, SameArchives
<1>6. ASSUME kind = "gz" PROVE Archived(W) = Archived(folder) \cup {jobs}
  <2>1. ASSUME NEW j \in Archived(W) PROVE j \in Archived(folder) \cup {jobs}
    BY <1>4, <2>1 DEF Archived
  <2>2. ASSUME NEW j \in Archived(folder) PROVE j \in Archived(W)
    BY <1>2, <1>3, <1>6, <2>2 DEF Archived
  <2>3. jobs \in Archived(W)
    BY <1>1, <1>2, <1>3, <1>6 DEF Archived
  <2> QED BY <2>1, <2>2, <2>3
<1> QED BY <1>4, <1>5, <1>6

\* Files that are only removed keep what is known of each.
LEMMA RemovedFiles ==
  ASSUME RecoveryTypeOK, NamesAreUnique, folder' \subseteq folder, jobs' = jobs
  PROVE  NamesAreUnique' /\ folder' \subseteq File
BY DEF RecoveryTypeOK, NamesAreUnique

\* Removing the copy takes no archive.
LEMMA WithoutRawArchives ==
  ASSUME NEW found
  PROVE  /\ WithoutRaw(found) \subseteq found
         /\ \A f \in WithoutRaw(found) : ~(f.kind = "raw" /\ f.job = jobs)
         /\ \A f \in found : f.kind = "gz" => f \in WithoutRaw(found)
         /\ Archived(WithoutRaw(found)) = Archived(found)
<1>1. /\ WithoutRaw(found) \subseteq found
      /\ \A f \in WithoutRaw(found) : ~(f.kind = "raw" /\ f.job = jobs)
      /\ \A f \in found : f.kind = "gz" => f \in WithoutRaw(found)
  BY DEF WithoutRaw, IsRaw
<1> QED BY <1>1, SameArchives

\* Pruning keeps the youngest archives.
LEMMA PrunedFolder ==
  ASSUME RecoveryTypeOK
  PROVE  /\ Pruned(folder) \subseteq folder
         /\ Archived(Pruned(folder)) =
              {j \in Archived(folder) :
                 Cardinality({k \in Archived(folder) : k > j}) < Retain}
         /\ \A f \in folder : f.kind = "gz"
              /\ Cardinality({j \in Archived(folder) : j > f.job}) < Retain
                => f \in Pruned(folder)
<1>1. \A f \in folder : f.kind = "gz" => f.job \in 1..MaxJobs
  BY DEF RecoveryTypeOK, File
<1> QED BY <1>1 DEF Pruned, Archived

-----------------------------------------------------------------------------
(***************************************************************************)
(* What a restore knows, while a job goes on.                              *)
(***************************************************************************)
\* Jobs do not touch what a restore knows: a settled job stays settled, and
\* a misled job is not forgotten.
LEMMA PickUntouched ==
  ASSUME RecoveryInv, UNCHANGED <<replacementVars, choice, picked, held>>,
         misled => misled', Settled(picked.job) => Settled(picked.job)'
  PROVE  PickStands'
BY DEF RecoveryInv, RecoveryTypeOK, PickStands, replacementVars, choice

\* The running job changes only itself.
LEMMA SettledStays ==
  ASSUME RecoveryInv, step # "idle", jobs' = jobs,
         unfinished' = unfinished \/ unfinished' = unfinished \cup {jobs}
  PROVE  \A j : Settled(j) => Settled(j)'
BY DEF Settled

\* The same for the types of what a job does not write.
LEMMA TypesUntouched ==
  ASSUME RecoveryInv, UNCHANGED <<replacementVars, choice, picked, held>>,
         folder' \subseteq File, jobs' \in 0..MaxJobs, best' \in 0..MaxJobs,
         step' \in Steps \cup {"idle"}, newer' \in Nat, unpruned' \in Nat,
         misled' \in BOOLEAN
  PROVE  RecoveryTypeOK'
BY DEF RecoveryInv, RecoveryTypeOK, replacementVars, choice

\* The counts, when the archives and their counters stay.
LEMMA CountsUntouched ==
  ASSUME RecoveryInv, Archived(folder') = Archived(folder), UNCHANGED <<best, newer, unpruned>>,
         jobs' \in Nat, jobs <= jobs',
         FileOf(best, "gz", "data") \in folder => FileOf(best, "gz", "data") \in folder'
  PROVE  BestStands'
<1>1. jobs \in Nat /\ best \in Nat
  BY BackupAssumption DEF RecoveryInv, RecoveryTypeOK
<1> QED BY <1>1 DEF RecoveryInv, BestStands

-----------------------------------------------------------------------------
(***************************************************************************)
(* The job.                                                                *)
(***************************************************************************)
\* A job starts: the one before it has ended, and its number is new.
LEMMA JobStartsStep ==
  ASSUME RecoveryInv, TimerStartsJob
  PROVE  RecoveryInv'
<1> DEFINE new == FileOf(jobs + 1, "raw", "empty")
<1>1. /\ step = "idle" /\ jobs < MaxJobs /\ jobs' = jobs + 1 /\ step' = "copy"
      /\ folder' = folder \cup {new}
      /\ UNCHANGED <<unfinished, misled, best, newer, unpruned>>
      /\ UNCHANGED <<replacementVars, choice, picked, held>>
  BY DEF TimerStartsJob, JobStarts, backupHistory
<1>2. /\ jobs \in Nat /\ jobs + 1 \in 1..MaxJobs /\ best \in Nat /\ best <= jobs
      /\ folder \subseteq File
      /\ \A f \in folder : f.job \in Nat /\ f.job <= jobs
  BY <1>1, BackupAssumption
     DEF RecoveryInv, RecoveryTypeOK, NamesAreUnique, BestStands, File
<1>3. /\ new \in File /\ new.job = jobs + 1 /\ new.kind = "raw" /\ new.body = "empty"
  BY <1>2 DEF FileOf, File, Bodies
<1> HIDE DEF new
<1>4. RecoveryTypeOK'
  <2>1. folder' \subseteq File /\ jobs' \in 0..MaxJobs /\ step' \in Steps \cup {"idle"}
    BY <1>1, <1>2, <1>3 DEF Steps
  <2> QED BY <1>1, <2>1, TypesUntouched DEF RecoveryInv, RecoveryTypeOK
<1>5. NamesAreUnique'
  <2>1. \A f \in folder : f.job # new.job /\ f.job <= jobs + 1
    BY <1>2, <1>3
  <2> QED BY <1>1, <1>2, <1>3, <2>1 DEF RecoveryInv, NamesAreUnique
<1>6. JobIsExact'
  <2>1. \A f \in folder' : f.job = jobs' => f.kind = "raw"
    BY <1>1, <1>2, <1>3
  <2> QED BY <1>1, <1>2, <2>1 DEF JobIsExact
<1>7. \A j \in Nat : j <= jobs => (Settled(j)' <=> Settled(j))
  BY <1>1, <1>2 DEF Settled
<1>8. FinishedIsSound'
  <2>1. \A f \in folder' : (f \in folder /\ f.job <= jobs) \/ f.job = jobs'
    BY <1>1, <1>2, <1>3
  <2>2. \A j : j = jobs' => ~Settled(j)'
    BY <1>1 DEF Settled
  <2> QED BY <1>1, <1>2, <1>7, <2>1, <2>2 DEF RecoveryInv, FinishedIsSound
<1>9. BestStands'
  <2>1. Archived(folder') = Archived(folder)
    <3>1. \A f \in folder' \cup folder : f.kind = "gz" => (f \in folder' <=> f \in folder)
      BY <1>1, <1>3
    <3> QED BY <3>1, SameArchives
  <2> QED BY <1>1, <1>2, <2>1, CountsUntouched
<1>10. PickStands'
  <2>1. Settled(picked.job) => Settled(picked.job)'
    BY <1>1, <1>2, <1>7, BackupAssumption DEF Settled, RecoveryInv, RecoveryTypeOK
  <2> QED BY <1>1, <2>1, PickUntouched
<1> QED BY <1>4, <1>5, <1>6, <1>8, <1>9, <1>10 DEF RecoveryInv

\* The copy is written: it has data, or the job was misled.
LEMMA JobCopiesStep ==
  ASSUME RecoveryInv, JobCopies
  PROVE  RecoveryInv'
<1>1. PICK body \in Readable : Copies(body)
  BY DEF JobCopies
<1>2. /\ step = "copy" /\ step' = "verify" /\ folder' = Written("raw", body)
      /\ misled' = (misled \/ body # "data")
      /\ UNCHANGED <<jobs, unfinished, best, newer, unpruned>>
      /\ UNCHANGED <<replacementVars, choice, picked, held>>
  BY <1>1 DEF JobCopies, Copies
<1>3. body \in Bodies
  BY DEF Readable, RecoveryInv, RecoveryTypeOK, Bodies
<1>4. jobs # 0 /\ best < jobs /\ jobs \in Nat
  BY <1>2, BackupAssumption DEF RecoveryInv, JobIsExact, RecoveryTypeOK
<1>5. /\ folder' \subseteq File
      /\ \A f, g \in folder' : f.job = g.job /\ f.kind = g.kind => f = g
      /\ \A f \in folder' : f.job <= jobs
      /\ \A f \in folder' : \/ f \in folder /\ ~(f.job = jobs /\ f.kind = "raw")
                            \/ f.job = jobs /\ f.kind = "raw" /\ f.body = body
      /\ \A f \in folder : f.job # jobs \/ f.kind # "raw" => f \in folder'
      /\ Archived(folder') = Archived(folder)
  BY <1>2, <1>3, <1>4, WrittenFolder DEF RecoveryInv
<1>6. RecoveryTypeOK'
  BY <1>2, <1>5, TypesUntouched DEF RecoveryInv, RecoveryTypeOK, Steps
<1>7. NamesAreUnique'
  BY <1>2, <1>5 DEF NamesAreUnique
<1>8. JobIsExact'
  BY <1>2, <1>4, <1>5 DEF RecoveryInv, JobIsExact, IsRaw
<1>9. \A j : Settled(j)' <=> Settled(j)
  BY <1>2 DEF Settled
<1>10. FinishedIsSound'
  <2>1. ~Settled(jobs)
    BY <1>2 DEF Settled
  <2> QED BY <1>2, <1>5, <1>9, <2>1 DEF RecoveryInv, FinishedIsSound
<1>11. BestStands'
  BY <1>2, <1>4, <1>5, CountsUntouched DEF FileOf
<1>12. PickStands'
  BY <1>2, <1>9, PickUntouched
<1> QED BY <1>6, <1>7, <1>8, <1>10, <1>11, <1>12 DEF RecoveryInv

\* The copy is checked.
LEMMA VerifiesStep ==
  ASSUME RecoveryInv, JobStep, Verifies
  PROVE  RecoveryInv'
<1>1. /\ step = "verify" /\ step' = "compress"
      /\ UNCHANGED <<folder, jobs, unfinished, misled, best, newer, unpruned>>
      /\ UNCHANGED <<replacementVars, choice, picked, held>>
  BY DEF Verifies, JobStep, backupHistory
<1>2. \A j : Settled(j)' <=> Settled(j)
  BY <1>1 DEF Settled
<1>3. RecoveryTypeOK'
  BY <1>1, TypesUntouched DEF RecoveryInv, RecoveryTypeOK, Steps
<1>4. NamesAreUnique' /\ JobIsExact' /\ FinishedIsSound'
  BY <1>1, <1>2 DEF RecoveryInv, NamesAreUnique, JobIsExact, FinishedIsSound, IsRaw
<1>5. BestStands' /\ PickStands'
  BY <1>1, <1>2, PickUntouched DEF RecoveryInv, BestStands, Archived
<1> QED BY <1>3, <1>4, <1>5 DEF RecoveryInv

\* The archive is begun: it counts at once.
LEMMA CompressBeginsStep ==
  ASSUME RecoveryInv, JobStep, CompressBegins
  PROVE  RecoveryInv'
<1>1. /\ step = "compress" /\ step' = "compressing" /\ folder' = Written("gz", "empty")
      /\ newer' = newer + 1 /\ unpruned' = unpruned + 1
      /\ UNCHANGED <<jobs, unfinished, misled, best>>
      /\ UNCHANGED <<replacementVars, choice, picked, held>>
  BY DEF CompressBegins, JobStep
<1>2. /\ jobs # 0 /\ jobs \in Nat /\ best \in Nat /\ best < jobs
      /\ newer \in Nat /\ unpruned \in Nat /\ Retain \in Nat
  BY <1>1, BackupAssumption DEF RecoveryInv, JobIsExact, RecoveryTypeOK
<1>3. /\ folder' \subseteq File
      /\ \A f, g \in folder' : f.job = g.job /\ f.kind = g.kind => f = g
      /\ \A f \in folder' : f.job <= jobs
      /\ \A f \in folder' : f \in folder \/ (f.job = jobs /\ f.kind = "gz")
      /\ \A f \in folder : f.job # jobs \/ f.kind # "gz" => f \in folder'
      /\ Archived(folder') = Archived(folder) \cup {jobs}
  BY <1>1, <1>2, WrittenFolder DEF RecoveryInv, Bodies
<1>4. RecoveryTypeOK'
  BY <1>1, <1>2, <1>3, TypesUntouched DEF RecoveryInv, RecoveryTypeOK, Steps
<1>5. NamesAreUnique'
  BY <1>1, <1>3 DEF NamesAreUnique
<1>6. JobIsExact'
  <2>1. jobs' \in Archived(folder')
    BY <1>1, <1>3 DEF Archived
  <2> QED BY <1>1, <1>2, <1>3, <2>1 DEF RecoveryInv, JobIsExact, IsRaw
<1>7. \A j : Settled(j)' <=> Settled(j)
  BY <1>1 DEF Settled
<1>8. FinishedIsSound'
  <2>1. ~Settled(jobs)
    BY <1>1 DEF Settled
  <2> QED BY <1>1, <1>3, <1>7, <2>1 DEF RecoveryInv, FinishedIsSound
<1>9. BestStands'
  <2> DEFINE A == Archived(folder)
             L == {j \in A : j > best}
  <2>1. A \in SUBSET (1..MaxJobs) /\ L \in SUBSET (1..MaxJobs)
    BY ArchivedIsJobs
  <2>2. {j \in A \cup {jobs} : j > best} \in SUBSET (L \cup {jobs})
    OBVIOUS
  <2>3. /\ A \cup {jobs} \in SUBSET (1..MaxJobs) /\ L \cup {jobs} \in SUBSET (1..MaxJobs)
        /\ {j \in A \cup {jobs} : j > best} \in SUBSET (1..MaxJobs)
    BY <1>2, <2>1, BackupAssumption DEF RecoveryInv, RecoveryTypeOK
  <2>4. /\ Cardinality(A \cup {jobs}) <= Cardinality(A) + 1
        /\ Cardinality(L \cup {jobs}) <= Cardinality(L) + 1
    BY <2>1, OneJobMore
  <2>5. Cardinality({j \in A \cup {jobs} : j > best}) <= Cardinality(L \cup {jobs})
    BY <2>2, <2>3, PartIsNotMore
  <2>6. /\ Cardinality(A) \in Nat /\ Cardinality(L) \in Nat
        /\ Cardinality(A \cup {jobs}) \in Nat /\ Cardinality(L \cup {jobs}) \in Nat
        /\ Cardinality({j \in A \cup {jobs} : j > best}) \in Nat
    BY <2>1, <2>3, JobsAreFinite
  <2>7. Cardinality(L) <= newer /\ Cardinality(A) <= Retain + unpruned
    BY DEF RecoveryInv, BestStands
  <2> HIDE DEF A, L
  <2>8. /\ Cardinality({j \in A \cup {jobs} : j > best}) <= newer + 1
        /\ Cardinality(A \cup {jobs}) <= Retain + (unpruned + 1)
    BY <1>2, <2>4, <2>5, <2>6, <2>7
  <2>9. Archived(folder') = A \cup {jobs}
    BY <1>3 DEF A
  <2>10. best # 0 => \E j \in A \cup {jobs} : j >= best
    BY <1>2
  <2>11. best # 0 /\ newer + 1 < Retain => FileOf(best, "gz", "data") \in folder'
    <3>1. best # 0 /\ newer + 1 < Retain => FileOf(best, "gz", "data") \in folder
      BY <1>2 DEF RecoveryInv, BestStands
    <3>2. FileOf(best, "gz", "data").job # jobs
      BY <1>2 DEF FileOf
    <3> QED BY <1>3, <3>1, <3>2
  <2> QED BY <1>1, <1>2, <2>8, <2>9, <2>10, <2>11 DEF BestStands
<1>10. PickStands'
  BY <1>1, <1>7, PickUntouched
<1> QED BY <1>4, <1>5, <1>6, <1>8, <1>9, <1>10 DEF RecoveryInv

\* The archive is complete: with data, it is the best one from now on.
LEMMA CompressEndsStep ==
  ASSUME RecoveryInv, JobStep, CompressEnds
  PROVE  RecoveryInv'
<1>1. PICK raw \in folder :
        /\ IsRaw(raw) /\ folder' = Written("gz", raw.body)
        /\ IF raw.body = "data"
           THEN best' = jobs /\ newer' = 0
           ELSE UNCHANGED <<best, newer>>
  BY DEF CompressEnds
<1>2. /\ step = "compressing" /\ step' = "unlink"
      /\ UNCHANGED <<jobs, unfinished, misled, unpruned>>
      /\ UNCHANGED <<replacementVars, choice, picked, held>>
  BY DEF CompressEnds, JobStep
<1>3. /\ jobs # 0 /\ jobs \in 1..MaxJobs /\ best \in Nat /\ best < jobs
      /\ newer \in Nat /\ Retain \in Nat \ {0}
      /\ raw.body \in Bodies /\ (raw.body = "data" \/ misled)
  BY <1>1, <1>2, BackupAssumption DEF RecoveryInv, JobIsExact, RecoveryTypeOK, File
<1>4. /\ folder' \subseteq File
      /\ \A f, g \in folder' : f.job = g.job /\ f.kind = g.kind => f = g
      /\ \A f \in folder' : f.job <= jobs
      /\ \A f \in folder' : \/ f \in folder /\ ~(f.job = jobs /\ f.kind = "gz")
                            \/ f.job = jobs /\ f.kind = "gz" /\ f.body = raw.body
      /\ \A f \in folder : f.job # jobs \/ f.kind # "gz" => f \in folder'
      /\ Archived(folder') = Archived(folder) \cup {jobs}
  BY <1>1, <1>3, WrittenFolder DEF RecoveryInv
<1>5. RecoveryTypeOK'
  <2>1. best' \in 0..MaxJobs /\ newer' \in Nat
    BY <1>1, <1>3 DEF RecoveryInv, RecoveryTypeOK
  <2> QED BY <1>2, <1>4, <2>1, TypesUntouched DEF RecoveryInv, RecoveryTypeOK, Steps
<1>6. NamesAreUnique'
  BY <1>2, <1>4 DEF NamesAreUnique
<1>7. JobIsExact'
  BY <1>1, <1>2, <1>3, <1>4 DEF JobIsExact
<1>8. \A j : Settled(j)' <=> Settled(j)
  BY <1>2 DEF Settled
<1>9. FinishedIsSound'
  <2>1. ~Settled(jobs)
    BY <1>2 DEF Settled
  <2>2. \A f \in folder' : f.job # jobs => f \in folder
    BY <1>4
  <2>3. \A f \in folder : f.job \in Nat /\ (f.job <= best => f.job <= best')
    BY <1>1, <1>3 DEF RecoveryInv, RecoveryTypeOK, File
  <2> QED BY <1>2, <1>8, <2>1, <2>2, <2>3 DEF RecoveryInv, FinishedIsSound
<1>10. BestStands'
  <2> DEFINE A == Archived(folder)
  <2>1. jobs \in A \cup {jobs} /\ A \in SUBSET (1..MaxJobs)
    BY ArchivedIsJobs
  <2>2. Archived(folder') = A
    BY <1>2, <1>4 DEF RecoveryInv, JobIsExact
  <2>3. Cardinality(A) <= Retain + unpruned
    BY DEF RecoveryInv, BestStands
  <2>4. CASE raw.body = "data"
    <3>1. FileOf(jobs, "gz", "data") \in folder'
      BY <1>1, <2>4 DEF Written
    <3>2. {j \in A : j > jobs} = {}
      <4>1. \A j \in A : j \in Nat /\ j <= jobs
        BY <1>4, <2>1, <2>2 DEF Archived
      <4> QED BY <1>3, <4>1
    <3>3. Cardinality({j \in A : j > jobs}) <= 0
      BY <3>2, FS_EmptySet
    <3>4. jobs \in A
      BY <1>2 DEF RecoveryInv, JobIsExact
    <3> HIDE DEF A
    <3> QED BY <1>1, <1>2, <1>3, <2>2, <2>3, <2>4, <3>1, <3>3, <3>4 DEF BestStands
  <2>5. CASE raw.body # "data"
    <3>1. FileOf(best, "gz", "data") \in folder => FileOf(best, "gz", "data") \in folder'
      BY <1>3, <1>4 DEF FileOf
    <3> QED BY <1>1, <1>2, <1>3, <2>2, <2>5, <3>1, CountsUntouched
  <2> QED BY <2>4, <2>5
<1>11. PickStands'
  BY <1>2, <1>8, PickUntouched
<1> QED BY <1>5, <1>6, <1>7, <1>9, <1>10, <1>11 DEF RecoveryInv

\* The copy is removed: the archive is left.
LEMMA RemovesRawStep ==
  ASSUME RecoveryInv, JobStep, RemovesRaw
  PROVE  RecoveryInv'
<1>1. /\ step = "unlink" /\ step' = "rotate" /\ folder' = WithoutRaw(folder)
      /\ UNCHANGED <<jobs, unfinished, misled, best, newer, unpruned>>
      /\ UNCHANGED <<replacementVars, choice, picked, held>>
  BY DEF RemovesRaw, JobStep, backupHistory
<1>2. /\ folder' \subseteq folder /\ Archived(folder') = Archived(folder)
      /\ \A f \in folder' : ~(f.kind = "raw" /\ f.job = jobs)
      /\ \A f \in folder : f.kind = "gz" => f \in folder'
  BY <1>1, WithoutRawArchives
<1>3. NamesAreUnique' /\ folder' \subseteq File
  BY <1>1, <1>2, RemovedFiles DEF RecoveryInv
<1>4. RecoveryTypeOK'
  BY <1>1, <1>3, TypesUntouched DEF RecoveryInv, RecoveryTypeOK, Steps
<1>5. \A j : Settled(j)' <=> Settled(j)
  BY <1>1 DEF Settled
<1>6. JobIsExact' /\ FinishedIsSound'
  BY <1>1, <1>2, <1>5 DEF RecoveryInv, JobIsExact, FinishedIsSound, IsRaw
<1>7. BestStands'
  <2>1. FileOf(best, "gz", "data") \in folder => FileOf(best, "gz", "data") \in folder'
    BY <1>2 DEF FileOf
  <2> QED BY <1>1, <1>2, <2>1, CountsUntouched, BackupAssumption
             DEF RecoveryInv, RecoveryTypeOK
<1>8. PickStands'
  BY <1>1, <1>5, PickUntouched
<1> QED BY <1>3, <1>4, <1>6, <1>7, <1>8 DEF RecoveryInv

\* The folder is pruned: the best archive stays while fewer than Retain are
\* younger, and the youngest one always does.
LEMMA RotatesStep ==
  ASSUME RecoveryInv, JobStep, Rotates
  PROVE  RecoveryInv'
<1>1. /\ step = "rotate" /\ step' = "idle" /\ folder' = Pruned(folder) /\ unpruned' = 0
      /\ UNCHANGED <<jobs, unfinished, misled, best, newer>>
      /\ UNCHANGED <<replacementVars, choice, picked, held>>
  BY DEF Rotates, JobStep
<1> DEFINE A == Archived(folder)
           Kept == {j \in A : Cardinality({k \in A : k > j}) < Retain}
<1>2. /\ folder' \subseteq folder /\ Archived(folder') = Kept
      /\ \A f \in folder : f.kind = "gz" /\ Cardinality({j \in A : j > f.job}) < Retain
                             => f \in folder'
  BY <1>1, PrunedFolder DEF RecoveryInv
<1>3. NamesAreUnique' /\ folder' \subseteq File
  BY <1>1, <1>2, RemovedFiles DEF RecoveryInv
<1>4. RecoveryTypeOK'
  BY <1>1, <1>3, TypesUntouched DEF RecoveryInv, RecoveryTypeOK, Steps
<1>5. JobIsExact'
  BY <1>1 DEF JobIsExact
<1>6. \A j : Settled(j) => Settled(j)'
  BY <1>1, SettledStays
<1>7. FinishedIsSound'
  <2>1. ASSUME NEW f \in folder, f.job = jobs
        PROVE  f.kind = "gz" /\ (misled \/ (f.body = "data" /\ f.job <= best))
    <3>1. f.kind = "gz"
      BY <1>1, <2>1 DEF RecoveryInv, JobIsExact, IsRaw, RecoveryTypeOK, File
    <3> QED BY <1>1, <2>1, <3>1, BackupAssumption
               DEF RecoveryInv, JobIsExact, RecoveryTypeOK
  <2>2. \A f \in folder : f.job # jobs /\ Settled(f.job)' => Settled(f.job)
    BY <1>1 DEF Settled
  <2> QED BY <1>1, <1>2, <2>1, <2>2 DEF RecoveryInv, FinishedIsSound
<1>8. BestStands'
  <2>1. A \in SUBSET (1..MaxJobs) /\ best \in Nat /\ newer \in Nat /\ Retain \in Nat
    BY ArchivedIsJobs, BackupAssumption DEF RecoveryInv, RecoveryTypeOK
  <2>2. Cardinality(Kept) <= Retain /\ \A j \in A : \E k \in Kept : k >= j
    BY <2>1, NewestAreRetained
  <2>3. /\ {j \in A : j > best} \in SUBSET (1..MaxJobs)
        /\ {j \in Kept : j > best} \in SUBSET {j \in A : j > best}
    BY <2>1
  <2>4. /\ Cardinality({j \in Kept : j > best}) <= Cardinality({j \in A : j > best})
        /\ Cardinality({j \in A : j > best}) \in Nat
        /\ Cardinality({j \in Kept : j > best}) \in Nat
    BY <2>3, PartIsNotMore, JobsAreFinite
  <2>5. Cardinality({j \in A : j > best}) <= newer
    BY DEF RecoveryInv, BestStands
  <2>6. best # 0 /\ newer < Retain => FileOf(best, "gz", "data") \in folder'
    <3>1. ASSUME best # 0, newer < Retain PROVE FileOf(best, "gz", "data") \in folder'
      <4>1. FileOf(best, "gz", "data") \in folder
        BY <3>1 DEF RecoveryInv, BestStands
      <4>2. Cardinality({j \in A : j > best}) < Retain
        BY <2>1, <2>4, <2>5, <3>1
      <4> QED BY <1>2, <4>1, <4>2 DEF FileOf
    <3> QED BY <3>1
  <2>7. best # 0 => \E k \in Kept : k >= best
    <3>1. ASSUME best # 0 PROVE \E k \in Kept : k >= best
      <4>1. PICK j \in A : j >= best
        BY <3>1 DEF RecoveryInv, BestStands
      <4>2. PICK k \in Kept : k >= j
        BY <2>2
      <4>3. j \in Nat /\ k \in Nat
        BY <2>1
      <4> QED BY <2>1, <4>1, <4>2, <4>3
    <3> QED BY <3>1
  <2> HIDE DEF A, Kept
  <2>8. Cardinality({j \in Kept : j > best}) <= newer
    BY <2>1, <2>4, <2>5
  <2> QED BY <1>1, <1>2, <2>1, <2>2, <2>6, <2>7, <2>8 DEF RecoveryInv, BestStands
<1>9. PickStands'
  BY <1>1, <1>6, PickUntouched
<1> QED BY <1>3, <1>4, <1>5, <1>7, <1>8, <1>9 DEF RecoveryInv

\* What an interrupted job leaves: at most the body of its own file is another.
LEMMA LeftFiles ==
  ASSUME RecoveryInv, step # "idle", NEW found \in Leavings
  PROVE  /\ found \subseteq File
         /\ \A f, g \in found : f.job = g.job /\ f.kind = g.kind => f = g
         /\ \A f \in found : f.job <= jobs
         /\ \A f \in found : f.job # jobs => f \in folder
         /\ step \in {"copy", "verify", "compress"} =>
              \A f \in found : f.job = jobs => f.kind = "raw"
         /\ FileOf(best, "gz", "data") \in folder => FileOf(best, "gz", "data") \in found
         /\ Archived(found) = Archived(folder)
<1>1. CASE found = folder
  BY <1>1 DEF RecoveryInv, RecoveryTypeOK, NamesAreUnique, JobIsExact
<1>2. ASSUME NEW kind \in Writing, found = Written(kind, "partial")
      PROVE  /\ found \subseteq File
             /\ \A f, g \in found : f.job = g.job /\ f.kind = g.kind => f = g
             /\ \A f \in found : f.job <= jobs
             /\ \A f \in found : f.job # jobs => f \in folder
             /\ step \in {"copy", "verify", "compress"} =>
                  \A f \in found : f.job = jobs => f.kind = "raw"
             /\ FileOf(best, "gz", "data") \in folder =>
                  FileOf(best, "gz", "data") \in found
             /\ Archived(found) = Archived(folder)
  <2>1. \/ kind = "raw" /\ step = "copy"
        \/ kind = "gz" /\ step = "compressing"
    BY DEF Writing
  <2>2. jobs # 0 /\ jobs \in Nat /\ best \in Nat /\ best < jobs
    BY <2>1, BackupAssumption DEF RecoveryInv, JobIsExact, RecoveryTypeOK
  <2>3. /\ found \subseteq File
        /\ \A f, g \in found : f.job = g.job /\ f.kind = g.kind => f = g
        /\ \A f \in found : f.job <= jobs
        /\ \A f \in found : \/ f \in folder /\ ~(f.job = jobs /\ f.kind = kind)
                            \/ f.job = jobs /\ f.kind = kind /\ f.body = "partial"
        /\ \A f \in folder : f.job # jobs \/ f.kind # kind => f \in found
        /\ kind = "raw" => Archived(found) = Archived(folder)
        /\ kind = "gz" => Archived(found) = Archived(folder) \cup {jobs}
    BY <1>2, <2>1, <2>2, WrittenFolder DEF RecoveryInv, Bodies
  <2>4. Archived(found) = Archived(folder)
    BY <2>1, <2>3 DEF RecoveryInv, JobIsExact
  <2>5. FileOf(best, "gz", "data") \in folder => FileOf(best, "gz", "data") \in found
    BY <2>2, <2>3 DEF FileOf
  <2>6. step \in {"copy", "verify", "compress"} =>
          \A f \in found : f.job = jobs => f.kind = "raw"
    BY <2>1, <2>3 DEF RecoveryInv, JobIsExact
  <2> QED BY <2>3, <2>4, <2>5, <2>6
<1> QED BY <1>1, <1>2 DEF Leavings

\* A job fails and removes its copy, or is killed: either nothing of it is
\* left, or it is marked as unfinished.
LEMMA InterruptedStep ==
  ASSUME RecoveryInv, JobStep, JobFails \/ JobDies
  PROVE  RecoveryInv'
<1>1. /\ step # "idle" /\ step' = "idle"
      /\ UNCHANGED <<jobs, misled, best, newer, unpruned>>
      /\ UNCHANGED <<replacementVars, choice, picked, held>>
      /\ unfinished' = unfinished \/ unfinished' = unfinished \cup {jobs}
  BY DEF JobFails, JobDies, JobStep, Steps
<1>2. PICK found \in Leavings :
        \/ /\ folder' = WithoutRaw(found)
           /\ step \in {"copy", "verify", "compress"} \/ jobs \in unfinished'
        \/ folder' = found /\ jobs \in unfinished'
  BY DEF JobFails, JobDies, Steps
<1>3. /\ folder' \subseteq found /\ Archived(folder') = Archived(found)
      /\ \A f \in found : f.kind = "gz" => f \in folder'
      /\ jobs \in unfinished' \/ \A f \in folder' : ~(f.kind = "raw" /\ f.job = jobs)
  BY <1>2, WithoutRawArchives
<1>4. /\ found \subseteq File
      /\ \A f, g \in found : f.job = g.job /\ f.kind = g.kind => f = g
      /\ \A f \in found : f.job <= jobs
      /\ \A f \in found : f.job # jobs => f \in folder
      /\ step \in {"copy", "verify", "compress"} =>
           \A f \in found : f.job = jobs => f.kind = "raw"
      /\ FileOf(best, "gz", "data") \in folder => FileOf(best, "gz", "data") \in found
      /\ Archived(found) = Archived(folder)
  BY <1>1, LeftFiles
<1>5. jobs \in unfinished' \/ \A f \in folder' : f.job # jobs
  BY <1>2, <1>3, <1>4
<1>6. RecoveryTypeOK' /\ NamesAreUnique'
  <2>1. folder' \subseteq File
    BY <1>3, <1>4
  <2>2. RecoveryTypeOK'
    BY <1>1, <2>1, TypesUntouched DEF RecoveryInv, RecoveryTypeOK
  <2> QED BY <1>1, <1>3, <1>4, <2>2 DEF NamesAreUnique
<1>7. JobIsExact'
  BY <1>1 DEF JobIsExact
<1>8. FinishedIsSound'
  <2>1. ASSUME NEW f \in folder', Settled(f.job)' PROVE f \in folder /\ Settled(f.job)
    BY <1>1, <1>3, <1>4, <1>5, <2>1 DEF Settled
  <2> QED BY <1>1, <2>1 DEF RecoveryInv, FinishedIsSound
<1>9. BestStands'
  <2>1. FileOf(best, "gz", "data") \in folder => FileOf(best, "gz", "data") \in folder'
    BY <1>3, <1>4 DEF FileOf
  <2> QED BY <1>1, <1>3, <1>4, <2>1, CountsUntouched, BackupAssumption
          DEF RecoveryInv, RecoveryTypeOK
<1>10. PickStands'
  BY <1>1, SettledStays, PickUntouched
<1> QED BY <1>6, <1>7, <1>8, <1>9, <1>10 DEF RecoveryInv

-----------------------------------------------------------------------------
(***************************************************************************)
(* The restore.                                                            *)
(***************************************************************************)
\* The latest file is one of the folder, of the last job that left any.
LEMMA LatestIsYoungest ==
  ASSUME RecoveryTypeOK, folder # {}
  PROVE  Latest \in folder /\ \A g \in folder : g.job <= Latest.job
<1> DEFINE S == {f.job : f \in folder}
<1>1. /\ S \in SUBSET (1..MaxJobs) /\ S # {}
      /\ \A f \in folder : f.job \in 1..MaxJobs /\ f.kind \in {"raw", "gz"}
  BY DEF RecoveryTypeOK, File
<1>2. PICK m \in S : \A j \in S : j <= m
  BY <1>1, FirstAndLastJob
<1>3. \E f \in folder : \A g \in folder : ~Older(f, g)
  <2>1. \A f, g \in folder : f.job = m => g.job <= f.job
    BY <1>2
  <2>2. CASE \E f \in folder : f.job = m /\ f.kind = "gz"
    <3>1. PICK f \in folder : f.job = m /\ f.kind = "gz"
      BY <2>2
    <3> QED BY <1>1, <2>1, <3>1 DEF Older
  <2>3. CASE ~\E f \in folder : f.job = m /\ f.kind = "gz"
    <3>1. PICK f \in folder : f.job = m
      OBVIOUS
    <3> QED BY <1>1, <2>1, <2>3, <3>1 DEF Older
  <2> QED BY <2>2, <2>3
<1>4. Latest \in folder /\ \A g \in folder : ~Older(Latest, g)
  BY <1>3 DEF Latest
<1> QED BY <1>1, <1>4 DEF Older

\* What a restore leaves alone.
LEMMA BackupUntouched ==
  ASSUME RecoveryInv, UNCHANGED backupVars
  PROVE  /\ NamesAreUnique' /\ JobIsExact' /\ FinishedIsSound' /\ BestStands'
         /\ \A j : Settled(j)' <=> Settled(j)
         /\ UNCHANGED <<folder, jobs, step, unfinished, misled, best, newer, unpruned>>
BY DEF RecoveryInv, backupVars, backupHistory, NamesAreUnique, JobIsExact, FinishedIsSound,
       BestStands, Settled, IsRaw, Archived

\* A restore picks its file: by default the latest, which is not older than
\* the best archive.
LEMMA PicksStep ==
  ASSUME RecoveryInv, NEW byDefault \in BOOLEAN, Picks(byDefault)
  PROVE  RecoveryInv'
<1>1. /\ UNCHANGED backupVars /\ held' = held /\ phase' = "preparing"
      /\ folder # {} /\ auto' = byDefault /\ expected' = best
      /\ doubtful' = (\/ picked'.job \in unfinished
                      \/ picked'.job = jobs /\ step # "idle")
      /\ picked' \in IF byDefault THEN {Latest} ELSE folder
  BY DEF Picks, Starts
<1>2. /\ NamesAreUnique' /\ JobIsExact' /\ FinishedIsSound' /\ BestStands'
      /\ \A j : Settled(j)' <=> Settled(j)
      /\ UNCHANGED <<folder, jobs, step, unfinished, misled, best, newer, unpruned>>
  BY <1>1, BackupUntouched
<1>3. Latest \in folder /\ \A g \in folder : g.job <= Latest.job
  BY <1>1, LatestIsYoungest DEF RecoveryInv
<1>4. /\ picked' \in folder /\ picked'.job \in 1..MaxJobs /\ picked'.job <= jobs
      /\ picked' \in File /\ best \in Nat /\ jobs \in Nat
  <2>1. picked' \in folder
    BY <1>1, <1>3
  <2> QED BY <2>1, BackupAssumption
             DEF RecoveryInv, RecoveryTypeOK, NamesAreUnique, File
<1>5. RecoveryTypeOK'
  <2>1. picked' \in [job : 0..MaxJobs, kind : {"raw", "gz"}, body : Bodies]
    BY <1>4 DEF File
  <2>2. doubtful' \in BOOLEAN /\ auto' \in BOOLEAN
    BY <1>1
  <2> QED BY <1>1, <1>2, <2>1, <2>2 DEF RecoveryInv, RecoveryTypeOK
<1>6. auto' => picked'.job >= best
  <2>1. ASSUME auto', best # 0 PROVE picked'.job >= best
    <3>1. PICK j \in Archived(folder) : j >= best
      BY <2>1 DEF RecoveryInv, BestStands
    <3>2. PICK f \in folder : f.job = j
      BY DEF Archived
    <3>3. j <= picked'.job /\ j \in 1..MaxJobs
      BY <1>1, <1>3, <2>1, <3>2 DEF Archived
    <3> QED BY <1>4, <3>1, <3>3
  <2> QED BY <1>4, <2>1
<1>7. ~doubtful' => Settled(picked'.job)
  BY <1>1, <1>4 DEF Settled
<1>8. ~doubtful' /\ ~misled => picked'.kind = "gz" /\ picked'.job <= best
  BY <1>4, <1>7 DEF RecoveryInv, FinishedIsSound
<1>9. PickStands'
  <2>1. ~doubtful' => Settled(picked.job)'
    BY <1>2, <1>7 DEF Settled
  <2>2. ~doubtful' /\ ~misled' => picked'.kind = "gz" /\ (auto' => picked'.job = expected')
    BY <1>1, <1>2, <1>4, <1>6, <1>8
  <2> QED BY <1>1, <1>6, <2>1, <2>2 DEF PickStands
<1> QED BY <1>2, <1>5, <1>9 DEF RecoveryInv

\* The file is unpacked: what a finished job left is what was picked.
LEMMA StagesStep ==
  ASSUME RecoveryInv, Stages
  PROVE  RecoveryInv'
<1>1. /\ UNCHANGED backupVars /\ UNCHANGED <<auto, expected, doubtful, held>>
      /\ phase = "preparing" /\ phase' = "replacing"
  BY DEF Stages, Swaps, choice
<1>a. PICK f \in folder :
        /\ f.job = picked.job /\ f.kind = picked.kind
        /\ \E body \in Content(f) \ {"partial"} : picked' = [f EXCEPT !.body = body]
  BY DEF Stages
<1>2. PICK body \in Content(f) \ {"partial"} :
        /\ f.job = picked.job /\ f.kind = picked.kind
        /\ picked' = [f EXCEPT !.body = body]
  BY <1>a
<1>3. /\ NamesAreUnique' /\ JobIsExact' /\ FinishedIsSound' /\ BestStands'
      /\ \A j : Settled(j)' <=> Settled(j)
      /\ UNCHANGED <<folder, jobs, step, unfinished, misled, best, newer, unpruned>>
  BY <1>1, BackupUntouched
<1>4. /\ f \in File /\ body \in Bodies
      /\ picked'.job = picked.job /\ picked'.kind = picked.kind /\ picked'.body = body
      /\ picked' \in [job : 0..MaxJobs, kind : {"raw", "gz"}, body : Bodies]
  <2>1. f \in File
    BY DEF RecoveryInv, RecoveryTypeOK
  <2>2. body \in Bodies
    BY <2>1 DEF Content, File, Bodies
  <2> QED BY <1>2, <2>1, <2>2 DEF File
<1>5. RecoveryTypeOK'
  BY <1>1, <1>3, <1>4 DEF RecoveryInv, RecoveryTypeOK
<1>6. ~doubtful /\ ~misled => body = "data"
  <2>1. ASSUME ~doubtful, ~misled PROVE body = "data"
    <3>1. Settled(f.job)
      BY <1>1, <1>2, <2>1 DEF RecoveryInv, PickStands
    <3>2. f.body = "data"
      BY <2>1, <3>1 DEF RecoveryInv, FinishedIsSound
    <3>3. Content(f) = {f.body}
      BY <3>1 DEF Content, Settled, Writing
    <3> QED BY <3>2, <3>3
  <2> QED BY <2>1
<1>7. PickStands'
  <2>1. Settled(picked.job)' <=> Settled(picked.job)
    BY <1>3, <1>4 DEF Settled
  <2> QED BY <1>1, <1>3, <1>4, <1>6, <2>1 DEF RecoveryInv, PickStands
<1> QED BY <1>3, <1>5, <1>7 DEF RecoveryInv

\* The database is rewritten, and the restore ends.
LEMMA ReplacesStep ==
  ASSUME RecoveryInv, RestoreRewrites \/ RestoreEnds
  PROVE  RecoveryInv'
<1>1. /\ UNCHANGED backupVars /\ UNCHANGED <<auto, expected, doubtful, picked>>
      /\ held' = held \/ held' = held \cup {picked.body}
      /\ \/ phase' = phase
         \/ phase' = "out"
         \/ phase = "replacing" /\ phase' = "restored"
  BY DEF RestoreRewrites, RestoreEnds, Rewrites, GivesUp, Succeeds, Fails, choice
<1>2. /\ NamesAreUnique' /\ JobIsExact' /\ FinishedIsSound' /\ BestStands'
      /\ \A j : Settled(j)' <=> Settled(j)
      /\ UNCHANGED <<folder, jobs, step, unfinished, misled, best, newer, unpruned>>
  BY <1>1, BackupUntouched
<1>3. RecoveryTypeOK'
  BY <1>1, <1>2 DEF RecoveryInv, RecoveryTypeOK
<1>4. PickStands'
  <2>1. Settled(picked.job)' <=> Settled(picked.job)
    BY <1>1, <1>2 DEF Settled
  <2> QED BY <1>1, <1>2, <2>1 DEF RecoveryInv, PickStands
<1> QED BY <1>2, <1>3, <1>4 DEF RecoveryInv

-----------------------------------------------------------------------------
\* The invariant holds of an empty folder.
LEMMA RecoveryInitInv == RecoveryInit => RecoveryInv
<1> SUFFICES ASSUME RecoveryInit PROVE RecoveryInv
  OBVIOUS
<1>1. /\ folder = {} /\ jobs = 0 /\ step = "idle" /\ misled = FALSE /\ best = 0
      /\ newer = 0 /\ unpruned = 0 /\ phase = "out" /\ picked = NoFile
      /\ auto = FALSE /\ held = {} /\ expected = 0 /\ doubtful = FALSE
  BY DEF RecoveryInit, BackupInit, ReplacementInit
<1>2. Archived(folder) = {} /\ {j \in Archived(folder) : j > best} = {}
  BY <1>1 DEF Archived
<1>3. Cardinality({}) = 0
  BY FS_EmptySet
<1>4. RecoveryTypeOK
  <2>1. 0 \in 0..MaxJobs
    BY BackupAssumption
  <2> QED BY <1>1, <2>1 DEF RecoveryTypeOK, NoFile, FileOf, Bodies
<1>5. NamesAreUnique /\ JobIsExact /\ FinishedIsSound /\ PickStands
  BY <1>1 DEF NamesAreUnique, JobIsExact, FinishedIsSound, PickStands
<1>6. BestStands
  <2>1. /\ Cardinality({j \in Archived(folder) : j > best}) <= newer
        /\ Cardinality(Archived(folder)) <= Retain + unpruned
    <3>1. 0 <= newer /\ 0 <= Retain + unpruned
      BY <1>1, BackupAssumption
    <3> QED BY <1>2, <1>3, <3>1
  <2> QED BY <1>1, <2>1 DEF BestStands
<1> QED BY <1>4, <1>5, <1>6 DEF RecoveryInv

\* Every step preserves it.
LEMMA RecoveryStepInv == RecoveryInv /\ [RecoveryNext]_recoveryVars => RecoveryInv'
<1> SUFFICES ASSUME RecoveryInv, [RecoveryNext]_recoveryVars PROVE RecoveryInv'
  OBVIOUS
<1>1. CASE UNCHANGED recoveryVars
  <2>1. UNCHANGED backupVars /\ UNCHANGED <<replacementVars, choice, picked, held>>
    BY <1>1 DEF recoveryVars
  <2>2. /\ NamesAreUnique' /\ JobIsExact' /\ FinishedIsSound' /\ BestStands'
        /\ \A j : Settled(j)' <=> Settled(j)
        /\ UNCHANGED <<folder, jobs, step, unfinished, misled, best, newer, unpruned>>
    BY <2>1, BackupUntouched
  <2>3. RecoveryTypeOK'
    BY <2>1, <2>2, TypesUntouched DEF RecoveryInv, RecoveryTypeOK
  <2>4. PickStands'
    BY <2>1, <2>2, PickUntouched
  <2> QED BY <2>2, <2>3, <2>4 DEF RecoveryInv
<1>2. CASE \E byDefault \in BOOLEAN : Picks(byDefault)
  BY <1>2, PicksStep
<1>3. CASE Stages
  BY <1>3, StagesStep
<1>4. CASE RestoreRewrites \/ RestoreEnds
  BY <1>4, ReplacesStep
<1>5. CASE TimerStartsJob \/ JobCopies
  BY <1>5, JobStartsStep, JobCopiesStep
<1>6. CASE JobStep
  BY <1>6, VerifiesStep, CompressBeginsStep, CompressEndsStep, RemovesRawStep,
     RotatesStep, InterruptedStep DEF JobStep, BackupInternal
<1> QED BY <1>1, <1>2, <1>3, <1>4, <1>5, <1>6 DEF RecoveryNext

\* The invariant holds for ever.
THEOREM RecoveryInvariance == RecoverySpec => []RecoveryInv
BY RecoveryInitInv, RecoveryStepInv, PTL DEF RecoverySpec

\* The last archive with data outlives the failed, killed and misled jobs after
\* it, while they have begun fewer archives than are retained; and the folder
\* has no more archives than those, and the ones begun since it was pruned.
THEOREM SoundBackupStays == RecoverySpec => []SoundBackupOutlives
<1>1. RecoveryInv => SoundBackupOutlives
  BY DEF RecoveryInv, SoundBackupOutlives, RetentionHolds, RecoveryTypeOK, NamesAreUnique,
         BestStands
<1> QED BY <1>1, RecoveryInvariance, PTL

\* A restore without an argument brings back the last archive with data, unless
\* the file it found is of a job that had not ended well or was misled.
THEOREM RestoreFindsTheBackup == RecoverySpec => []RestoresTheLastBackup
<1>1. RecoveryInv => RestoresTheLastBackup
  <2> SUFFICES ASSUME RecoveryInv, phase = "restored"
               PROVE  /\ auto => \/ picked = FileOf(expected, "gz", "data")
                                 \/ picked.job >= expected /\ (doubtful \/ misled)
                      /\ picked.body = "empty" => doubtful \/ misled
    BY DEF RestoresTheLastBackup
  <2>1. picked \in [job : 0..MaxJobs, kind : {"raw", "gz"}, body : Bodies]
    BY DEF RecoveryInv, RecoveryTypeOK
  <2>2. CASE doubtful \/ misled
    BY <2>2 DEF RecoveryInv, PickStands
  <2>3. CASE ~doubtful /\ ~misled
    <3>1. /\ picked.kind = "gz" /\ picked.body = "data"
          /\ auto => picked.job = expected
      BY <2>3 DEF RecoveryInv, PickStands
    <3> QED BY <2>1, <3>1 DEF FileOf
  <2> QED BY <2>2, <2>3
<1> QED BY <1>1, RecoveryInvariance, PTL
=============================================================================
