------------------------------ MODULE Recovery ------------------------------
(***************************************************************************)
(* Backups and restores on one folder and one database: a restore picks a  *)
(* file of the folder (restore_db.py, get_latest_backup and main), jobs of *)
(* the timer run before, between and during restores, and copy what a      *)
(* restore has made of the database.  Of a restore only what Replacement   *)
(* promises is used, which Restore implements.                             *)
(***************************************************************************)
EXTENDS Backup, Replacement

CONSTANT MaxRestores   \* bound: how often the restore script is run

VARIABLES
  restores,
  picked,     \* the file this restore works from
  auto,       \* it was chosen by get_latest_backup and not with --source
  held,       \* bodies of the snapshots that restores put in place so far
  expected,   \* history: Backup!best when the restore began
  doubtful    \* history: the job of that file had not ended then, or never did

choice == <<restores, auto, expected, doubtful>>
recoveryVars == <<backupVars, replacementVars, choice, picked, held>>

NoFile == FileOf(0, "raw", "partial")

-----------------------------------------------------------------------------
\* Fault: the oldest file is taken.
Latest_Ascending == CHOOSE f \in folder : \A g \in folder : ~Older(g, f)

\* get_latest_backup: archives and raw copies alike, by modification time.
Latest == CHOOSE f \in folder : \A g \in folder : ~Older(f, g)

Picks(byDefault) ==
  /\ restores < MaxRestores
  /\ folder # {}
  /\ restores' = restores + 1
  /\ picked' \in IF byDefault THEN {Latest} ELSE folder
  /\ auto' = byDefault
  /\ expected' = best
  /\ doubtful' = (\/ picked'.job \in unfinished
                  \/ picked'.job = jobs /\ step # "idle")
  /\ Starts
  /\ UNCHANGED <<backupVars, held>>

\* What there is to read of a file, the one that is being written included.
Content(f) ==
  IF f.job = jobs /\ f.kind \in Writing THEN {"empty", "partial"} ELSE {f.body}

\* The file is still there, unpacks, and passes the integrity check.
Stages ==
  /\ \E f \in folder :
       /\ f.job = picked.job /\ f.kind = picked.kind
       /\ \E body \in Content(f) \ {"partial"} :
            picked' = [f EXCEPT !.body = body]
  /\ Swaps
  /\ UNCHANGED <<backupVars, choice, held>>

RestoreRewrites ==
  /\ Rewrites
  /\ held' = IF database' = "snapshot" THEN held \cup {picked.body} ELSE held
  /\ UNCHANGED <<backupVars, choice, picked>>

RestoreEnds ==
  /\ GivesUp \/ Succeeds \/ Fails
  /\ database' = "snapshot" => held # {}
  /\ UNCHANGED <<backupVars, choice, picked, held>>

-----------------------------------------------------------------------------
\* What sqlite3 copies: a file that was only truncated is an empty database.
\* Which of the snapshots put in place so far is there is not tracked.
Readable ==
  CASE database = "data" -> {"data"}
    [] database = "snapshot" -> held
    [] database = "none" -> {"empty"}
    [] OTHER -> {"empty", "partial"}

\* A job starts when there is a database file.
TimerStartsJob ==
  /\ database # "none"
  /\ JobStarts
  /\ UNCHANGED <<replacementVars, choice, picked, held>>

JobCopies ==
  /\ \E body \in Readable : Copies(body)
  /\ UNCHANGED <<replacementVars, choice, picked, held>>

JobStep ==
  /\ BackupInternal
  /\ UNCHANGED <<replacementVars, choice, picked, held>>

RecoveryInit ==
  /\ BackupInit
  /\ ReplacementInit
  /\ restores = 0
  /\ picked = NoFile
  /\ auto = FALSE
  /\ held = {}
  /\ expected = 0
  /\ doubtful = FALSE

RecoveryNext ==
  \/ \E byDefault \in BOOLEAN : Picks(byDefault)
  \/ Stages
  \/ RestoreRewrites
  \/ RestoreEnds
  \/ TimerStartsJob
  \/ JobCopies
  \/ JobStep

RecoverySpec == RecoveryInit /\ [][RecoveryNext]_recoveryVars

-----------------------------------------------------------------------------
\* A restore that was given no file and reports success has put back the last
\* archive with data there was when it began, or the file of a later job that
\* had not ended or never did, or that found no data to copy.  And whatever file
\* it was given, readers find an empty database afterwards only if the job of the
\* file had not ended or never did, or if a job ran while a restore had truncated
\* the database: the integrity check accepts a database without tables.
RestoresTheLastBackup ==
  phase = "restored" =>
    /\ auto => \/ picked = FileOf(expected, "gz", "data")
               \/ picked.job >= expected /\ (doubtful \/ misled)
    /\ picked.body = "empty" => doubtful \/ misled
=============================================================================
