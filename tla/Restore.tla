------------------------------ MODULE Restore ------------------------------
(***************************************************************************)
(* scripts/restore_db.py: replacing the live SQLite database by a snapshot.*)
(* A run stages and verifies the snapshot, archives the database, keeps an *)
(* emergency copy of the main file, removes the write-ahead log, copies    *)
(* the snapshot over the main file, checks it and re-arms WAL mode; when a *)
(* step of the swap raises, it rolls back.  The process may die between    *)
(* any two steps, and the operator may run the script again on what is     *)
(* left.                                                                   *)
(*                                                                         *)
(* The agent is down.  It may have died with commits in the write-ahead    *)
(* log, and another process may hold the database open.                    *)
(***************************************************************************)
EXTENDS Naturals

CONSTANT MaxRuns      \* bound: how often the script is run

ASSUME RestoreAssumption == MaxRuns \in Nat \ {0}

VARIABLES
  target,     \* content of the main database file
  wal,        \* "commits" when the -wal file holds commits, else "none"
  emergency,  \* content of target.emergency_bak
  archives,   \* contents of the pre_restore_archive files
  options,    \* arguments and surroundings of this run
  archive,    \* content of the archive made by this run
  existed,    \* the main file existed when the swap began
  pc,
  runs,
  original,   \* history: what readers saw when this run began
  sound,      \* history: this run holds a complete copy taken without a WAL
  promised    \* history: the database had commits, and every run archived it

vars == <<target, wal, emergency, archives, options, archive, existed, pc, runs,
          original, sound, promised>>

files == <<target, wal, emergency, archives>>
history == <<original, sound, promised>>

(***************************************************************************)
(* "current" is a main file with every commit, "stale" one that lacks the  *)
(* commits of the write-ahead log, "torn" a copy that was not finished,    *)
(* "corrupt" what a log makes of a file it does not belong to.             *)
(***************************************************************************)
Contents == {"none", "current", "stale", "snapshot", "torn", "corrupt"}

\* What a reader sees: SQLite replays the log over whatever main file it finds.
View(t, w) ==
  IF w = "none" THEN t
  ELSE IF t \in {"current", "stale"} THEN "current" ELSE "corrupt"

InFlight == {"stage", "verify", "archive", "save", "saving", "unlink", "copy",
             "copying", "check", "rearm", "rescue", "rescuing"}
Finished == {"idle", "restored", "rolledback", "aborted", "unrescued", "crashed"}

Goto(place) == pc' = place /\ UNCHANGED <<options, runs>>

-----------------------------------------------------------------------------
\* The operator runs the script.
Begin(skip, good, shared) ==
  /\ pc \in Finished
  /\ runs < MaxRuns
  /\ runs' = runs + 1
  /\ options' = [skip |-> skip, good |-> good, shared |-> shared]
  /\ archive' = "none"
  /\ original' = View(target, wal)
  /\ sound' = FALSE
  /\ promised' = (promised /\ ~skip)
  /\ pc' = "stage"
  /\ UNCHANGED <<files, existed>>

Stage ==
  /\ pc = "stage"
  /\ Goto("verify")
  /\ UNCHANGED <<files, archive, existed, history>>

\* The snapshot is missing or cannot be unpacked.
StageFails ==
  /\ pc = "stage"
  /\ Goto("aborted")
  /\ UNCHANGED <<files, archive, existed, history>>

VerifyStaged ==
  /\ pc = "verify"
  /\ Goto(IF options.good THEN "archive" ELSE "aborted")
  /\ UNCHANGED <<files, archive, existed, history>>

\* The last connection that closes moves the log into the main file.
Checkpoint ==
  IF wal = "commits" /\ ~options.shared /\ View(target, wal) = "current"
  THEN target' = "current" /\ wal' = "none"
  ELSE UNCHANGED <<target, wal>>

\* Fault: the main file is copied instead of the database.
Archive_MainFileOnly ==
  /\ pc = "archive"
  /\ existed' = (target # "none")
  /\ IF options.skip \/ target = "none"
     THEN UNCHANGED <<target, wal, archives, archive>>
     ELSE /\ archive' = target
          /\ archives' = archives \cup {archive'}
          /\ UNCHANGED <<target, wal>>
  /\ Goto("save")
  /\ UNCHANGED <<emergency, history>>

\* archive_active_db, unless it is skipped or there is nothing to archive.
Archive ==
  /\ pc = "archive"
  /\ existed' = (target # "none")
  /\ IF options.skip \/ target = "none"
     THEN UNCHANGED <<target, wal, archives, archive>>
     ELSE /\ archive' = View(target, wal)
          /\ archives' = archives \cup {archive'}
          /\ Checkpoint
  /\ Goto("save")
  /\ UNCHANGED <<emergency, history>>

ArchiveFails ==
  /\ pc = "archive"
  /\ ~options.skip
  /\ target # "none"
  /\ Checkpoint \/ UNCHANGED <<target, wal>>
  /\ Goto("aborted")
  /\ UNCHANGED <<emergency, archives, archive, existed, history>>

-----------------------------------------------------------------------------
(***************************************************************************)
(* The swap.  Copying a file truncates the destination first.              *)
(***************************************************************************)
SaveBegins ==
  /\ pc = "save"
  /\ existed
  /\ emergency' = "torn"
  /\ Goto("saving")
  /\ UNCHANGED <<target, wal, archives, archive, existed, history>>

SaveEnds ==
  /\ pc = "saving"
  /\ emergency' = target
  /\ sound' = (wal = "none")
  /\ Goto("unlink")
  /\ UNCHANGED <<target, wal, archives, archive, existed, original, promised>>

NothingToSave ==
  /\ pc = "save"
  /\ ~existed
  /\ Goto("unlink")
  /\ UNCHANGED <<files, archive, existed, history>>

UnlinkWal ==
  /\ pc = "unlink"
  /\ wal' = "none"
  /\ Goto("copy")
  /\ UNCHANGED <<target, emergency, archives, archive, existed, history>>

CopyBegins ==
  /\ pc = "copy"
  /\ target' = "torn"
  /\ Goto("copying")
  /\ UNCHANGED <<wal, emergency, archives, archive, existed, history>>

\* Fault: the file is not checked again, and the script succeeds on a torn one.
CopyEnds_Short ==
  /\ pc = "copying"
  /\ Goto("rearm")
  /\ UNCHANGED <<files, archive, existed, history>>

CopyEnds ==
  /\ pc = "copying"
  /\ target' = "snapshot"
  /\ Goto("check")
  /\ UNCHANGED <<wal, emergency, archives, archive, existed, history>>

CheckTarget ==
  /\ pc = "check"
  /\ Goto("rearm")
  /\ UNCHANGED <<files, archive, existed, history>>

\* WAL mode is set again and the emergency copy is removed.
Rearm ==
  /\ pc = "rearm"
  /\ emergency' = IF existed THEN "none" ELSE emergency
  /\ Goto("restored")
  /\ UNCHANGED <<target, wal, archives, archive, existed, history>>

\* A step of the swap raises, the integrity check of the new file included.
SwapFails ==
  /\ pc \in {"save", "saving", "unlink", "copy", "copying", "check", "rearm"}
  /\ Goto("rescue")
  /\ UNCHANGED <<files, archive, existed, history>>

-----------------------------------------------------------------------------
\* The emergency copy is used when it exists, else the archive of this run.
HasEmergency == existed /\ emergency # "none"

RescueBegins ==
  /\ pc = "rescue"
  /\ HasEmergency \/ archive # "none"
  /\ target' = "torn"
  /\ Goto("rescuing")
  /\ UNCHANGED <<wal, emergency, archives, archive, existed, history>>

\* Fault: the copy that was just taken is not the one put back.
RescueEnds_ArchiveFirst ==
  /\ pc = "rescuing"
  /\ target' = archive
  /\ emergency' = "none"
  /\ Goto("rolledback")
  /\ UNCHANGED <<wal, archives, archive, existed, history>>

RescueEnds ==
  /\ pc = "rescuing"
  /\ target' = IF HasEmergency THEN emergency ELSE archive
  /\ emergency' = IF HasEmergency THEN "none" ELSE emergency
  /\ Goto("rolledback")
  /\ UNCHANGED <<wal, archives, archive, existed, history>>

\* There is nothing to roll back to, or putting it back raises.
RescueFails ==
  /\ \/ pc = "rescue"
     \/ pc = "rescuing"
  /\ Goto("unrescued")
  /\ UNCHANGED <<files, archive, existed, history>>

\* The process dies; the files stay as they are.
Crash ==
  /\ pc \in InFlight
  /\ Goto("crashed")
  /\ UNCHANGED <<files, archive, existed, history>>

Init ==
  /\ target \in {"none", "current", "stale"}
  /\ wal = IF target = "stale" THEN "commits" ELSE "none"
  /\ emergency = "none"
  /\ archives = {}
  /\ options = [skip |-> FALSE, good |-> TRUE, shared |-> FALSE]
  /\ archive = "none"
  /\ existed = FALSE
  /\ pc = "idle"
  /\ runs = 0
  /\ original = View(target, wal)
  /\ sound = FALSE
  /\ promised = (target # "none")

Prepare == Stage \/ StageFails \/ VerifyStaged \/ Archive \/ ArchiveFails

Swap ==
  \/ SaveBegins
  \/ SaveEnds
  \/ NothingToSave
  \/ UnlinkWal
  \/ CopyBegins
  \/ CopyEnds
  \/ CheckTarget
  \/ Rearm
  \/ SwapFails

Rescue == RescueBegins \/ RescueEnds \/ RescueFails

Next ==
  \/ \E skip, good, shared \in BOOLEAN : Begin(skip, good, shared)
  \/ Prepare
  \/ Swap
  \/ Rescue
  \/ Crash

Spec == Init /\ [][Next]_vars

-----------------------------------------------------------------------------
TypeOK ==
  /\ target \in Contents
  /\ wal \in {"none", "commits"}
  /\ emergency \in Contents
  /\ archives \subseteq Contents \ {"none"}
  /\ options \in [skip : BOOLEAN, good : BOOLEAN, shared : BOOLEAN]
  /\ archive \in Contents
  /\ existed \in BOOLEAN
  /\ pc \in InFlight \cup Finished
  /\ runs \in 0..MaxRuns
  /\ original \in Contents
  /\ sound \in BOOLEAN
  /\ promised \in BOOLEAN

\* As long as no run skips the archive, every commit the agent made can still
\* be read: from the database, or from an archive, whatever fails, wherever
\* the process dies and however often the script is run again.
NothingLost ==
  promised => View(target, wal) = "current" \/ "current" \in archives

\* The commits of the old database never stand beside the new one: SQLite
\* would replay them over the snapshot.
NoForeignLog == wal = "commits" => target # "snapshot"

\* Over failures, crashes and repeated runs the data stays readable, and no log
\* is replayed over a file it does not belong to.
DatabaseIsSafe ==
  /\ TypeOK
  /\ NothingLost
  /\ NoForeignLog

\* The script reports success only when readers see the snapshot, and leaves
\* no emergency copy for a later run to fall back to.
SuccessIsTheSnapshot ==
  pc = "restored" =>
    /\ View(target, wal) = "snapshot"
    /\ existed => emergency = "none"

\* A run that gives up before the swap leaves what readers see alone.
AbortLeavesDatabase == pc = "aborted" => View(target, wal) = original

\* A rollback from a complete copy of a database whose log was empty puts back
\* what readers saw, the log having been removed or not.
RollbackFromSoundCopy ==
  pc = "rolledback" /\ sound => View(target, wal) = original

\* The three ends of a run are what the script reports them to be.
OutcomesAreTrue ==
  /\ SuccessIsTheSnapshot
  /\ AbortLeavesDatabase
  /\ RollbackFromSoundCopy

\* The database and the phase of Replacement: what readers see, and where the
\* script stands.
Database ==
  CASE View(target, wal) \in {"current", "stale"} -> "data"
    [] View(target, wal) \in {"torn", "corrupt"} -> "unsound"
    [] OTHER -> View(target, wal)

Phase ==
  CASE pc \in {"stage", "verify", "archive"} -> "preparing"
    [] pc = "restored" -> "restored"
    [] pc \in Finished \ {"restored"} -> "out"
    [] OTHER -> "replacing"

\* Seen from outside a restore only replaces the database: what readers see
\* changes in the swap and at no other step, and a success is the snapshot.
Promise == INSTANCE Replacement WITH database <- Database, phase <- Phase

\* The script implements what Replacement promises.
ReplacesOnly == Promise!ReplacementSpec
=============================================================================
