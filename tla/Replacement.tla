---------------------------- MODULE Replacement ----------------------------
(***************************************************************************)
(* What a restore promises about the database, as a reader sees it: it     *)
(* touches nothing while it prepares, and when it reports success the      *)
(* snapshot is in place.  While it replaces the file, and after it failed  *)
(* or died doing so, anything may be there, but there is always a file.    *)
(* Restore implements this, and Recovery runs the backups against it.      *)
(***************************************************************************)
VARIABLES
  database,   \* what a reader sees
  phase       \* "out", "preparing", "replacing" or "restored"

replacementVars == <<database, phase>>

Views == {"none", "data", "snapshot", "unsound"}

Starts ==
  /\ phase \in {"out", "restored"}
  /\ phase' = "preparing"
  /\ UNCHANGED database

\* The snapshot is refused, or a step before the swap raises.
GivesUp ==
  /\ phase = "preparing"
  /\ phase' = "out"
  /\ UNCHANGED database

Swaps ==
  /\ phase = "preparing"
  /\ phase' = "replacing"
  /\ UNCHANGED database

Rewrites ==
  /\ phase = "replacing"
  /\ database' \in Views \ {"none"}
  /\ UNCHANGED phase

Succeeds ==
  /\ phase = "replacing"
  /\ database = "snapshot"
  /\ phase' = "restored"
  /\ UNCHANGED database

\* The swap failed, the end of a rollback included, or the process died.
Fails ==
  /\ phase = "replacing"
  /\ phase' = "out"
  /\ database' \in (Views \ {"none"}) \cup {database}

ReplacementInit == database \in {"none", "data"} /\ phase = "out"

ReplacementNext ==
  Starts \/ GivesUp \/ Swaps \/ Rewrites \/ Succeeds \/ Fails

ReplacementSpec == ReplacementInit /\ [][ReplacementNext]_replacementVars
=============================================================================
