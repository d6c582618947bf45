------------------------------- MODULE Backup -------------------------------
(***************************************************************************)
(* scripts/backup_db.py: the job that copies the database into the backup  *)
(* folder, checks and compresses the copy, and prunes the oldest archives. *)
(* The timer starts a oneshot service, so there is one job at a time; it   *)
(* may fail or be killed at any step.                                      *)
(*                                                                         *)
(* A file's body is "data" (a complete database), "empty" (nothing was     *)
(* written yet: SQLite opens it as a database without tables and gzip      *)
(* unpacks it to one) or "partial", which neither accepts.                 *)
(***************************************************************************)
EXTENDS Naturals, FiniteSets

CONSTANTS
  Retain,      \* MAX_BACKUPS_RETAINED
  MaxJobs      \* bound: how often the job runs

ASSUME BackupAssumption == Retain \in Nat \ {0} /\ MaxJobs \in Nat

VARIABLES
  folder,      \* the files of the backup folder
  jobs,        \* how many jobs were started; the name of a file is its job
  step,        \* where the running job is, or "idle"
  unfinished,  \* history: jobs that were killed, or failed while compressing
  misled,      \* history: a job copied something else than a database with data
  best,        \* history: the last job that archived a database with data
  newer,       \* history: archives begun after that one
  unpruned     \* history: archives begun since the folder was last pruned

backupHistory == <<unfinished, misled, best, newer, unpruned>>
backupVars == <<folder, jobs, step, backupHistory>>

Bodies == {"data", "empty", "partial"}
File == [job : 1..MaxJobs, kind : {"raw", "gz"}, body : Bodies]
Steps == {"copy", "verify", "compress", "compressing", "unlink", "rotate"}

FileOf(job, kind, body) == [job |-> job, kind |-> kind, body |-> body]

\* Modification times: a job writes its copy and then its archive.
Older(f, g) == f.job < g.job \/ (f.job = g.job /\ f.kind = "raw" /\ g.kind = "gz")

\* The jobs whose archive is among the files, complete or not.
Archived(files) == {j \in 1..MaxJobs : \E f \in files : f.kind = "gz" /\ f.job = j}

IsRaw(f) == f.kind = "raw" /\ f.job = jobs
WithoutRaw(files) == {f \in files : ~IsRaw(f)}

\* folder with a body given to the file of the running job.
Written(kind, body) ==
  {f \in folder : ~(f.job = jobs /\ f.kind = kind)} \cup {FileOf(jobs, kind, body)}

-----------------------------------------------------------------------------
\* The file of the copy is created.
JobStarts ==
  /\ step = "idle"
  /\ jobs < MaxJobs
  /\ jobs' = jobs + 1
  /\ folder' = folder \cup {FileOf(jobs', "raw", "empty")}
  /\ step' = "copy"
  /\ UNCHANGED backupHistory

\* source_conn.backup: SQLite starts over when another connection commits, so
\* the copy is what a reader sees when it ends.
Copies(body) ==
  /\ step = "copy"
  /\ folder' = Written("raw", body)
  /\ misled' = (misled \/ body # "data")
  /\ step' = "verify"
  /\ UNCHANGED <<jobs, unfinished, best, newer, unpruned>>

\* PRAGMA integrity_check.
Verifies ==
  /\ step = "verify"
  /\ \E raw \in folder : IsRaw(raw) /\ raw.body # "partial"
  /\ step' = "compress"
  /\ UNCHANGED <<folder, jobs, backupHistory>>

\* gzip.open(..., "wb")
CompressBegins ==
  /\ step = "compress"
  /\ folder' = Written("gz", "empty")
  /\ newer' = newer + 1
  /\ unpruned' = unpruned + 1
  /\ step' = "compressing"
  /\ UNCHANGED <<jobs, unfinished, misled, best>>

CompressEnds ==
  /\ step = "compressing"
  /\ \E raw \in folder :
       /\ IsRaw(raw)
       /\ folder' = Written("gz", raw.body)
       /\ IF raw.body = "data"
          THEN best' = jobs /\ newer' = 0
          ELSE UNCHANGED <<best, newer>>
  /\ step' = "unlink"
  /\ UNCHANGED <<jobs, unfinished, misled, unpruned>>

RemovesRaw ==
  /\ step = "unlink"
  /\ folder' = WithoutRaw(folder)
  /\ step' = "rotate"
  /\ UNCHANGED <<jobs, backupHistory>>

\* Fault: copies that were left behind are counted and pruned like archives.
Pruned_AllFiles(files) ==
  {f \in files : Cardinality({g \in files : Older(f, g)}) < Retain}

\* rotate_old_backups: the oldest archives, complete or not, beyond the limit go.
Pruned(files) ==
  {f \in files :
     f.kind = "gz" => Cardinality({j \in Archived(files) : j > f.job}) < Retain}

Rotates ==
  /\ step = "rotate"
  /\ folder' = Pruned(folder)
  /\ unpruned' = 0
  /\ step' = "idle"
  /\ UNCHANGED <<jobs, unfinished, misled, best, newer>>

-----------------------------------------------------------------------------
\* The kind of file that is being written.
Writing == CASE step = "copy" -> {"raw"} [] step = "compressing" -> {"gz"} [] OTHER -> {}

\* What a job leaves that is interrupted: of a write, nothing or a part.
Leavings == {folder} \cup {Written(kind, "partial") : kind \in Writing}

\* The raw copy is removed; an archive that was begun stays, and the folder is
\* not pruned.
JobFails ==
  /\ step \in Steps \ {"rotate"}
  /\ \E files \in Leavings : folder' = WithoutRaw(files)
  /\ unfinished' = IF step \in {"compressing", "unlink"}
                   THEN unfinished \cup {jobs} ELSE unfinished
  /\ step' = "idle"
  /\ UNCHANGED <<jobs, misled, best, newer, unpruned>>

\* The service is killed: nothing is tidied up.
JobDies ==
  /\ step \in Steps
  /\ folder' \in Leavings
  /\ unfinished' = unfinished \cup {jobs}
  /\ step' = "idle"
  /\ UNCHANGED <<jobs, misled, best, newer, unpruned>>

BackupInit ==
  /\ folder = {}
  /\ jobs = 0
  /\ step = "idle"
  /\ unfinished = {}
  /\ misled = FALSE
  /\ best = 0
  /\ newer = 0
  /\ unpruned = 0

\* The steps of a job that do not look at the database.
BackupInternal ==
  \/ Verifies
  \/ CompressBegins
  \/ CompressEnds
  \/ RemovesRaw
  \/ Rotates
  \/ JobFails
  \/ JobDies

-----------------------------------------------------------------------------
\* The folder holds well-formed files, and no more archives than are retained
\* besides those begun since it was last pruned (failed jobs do not prune).
RetentionHolds ==
  /\ folder \subseteq File
  /\ \A f, g \in folder : f.job = g.job /\ f.kind = g.kind => f = g
  /\ step \in Steps \cup {"idle"}
  /\ Cardinality(Archived(folder)) <= Retain + unpruned

\* The last archive with data goes only when as many archives as are retained
\* were begun after it: failing and killed jobs, and backups of a database that
\* lost its data, must be that many before they displace it; and what is retained
\* is bounded as RetentionHolds says.
SoundBackupOutlives ==
  /\ RetentionHolds
  /\ best # 0 /\ newer < Retain =>
       FileOf(best, "gz", "data") \in folder
=============================================================================
