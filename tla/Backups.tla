-------------------------------- MODULE Backups --------------------------------
(***************************************************************************)
(* Backups of a live brain (brain-store/src/backup.rs), their retention,   *)
(* and the restores and drills that read them.                             *)
(*                                                                         *)
(* The scheduled `brain backup maintain` and an operator's commands run at *)
(* the same time, and any of them may be killed between two steps.  Of the *)
(* brain's files the model keeps the ledger, by its number of events: the  *)
(* others may be missing from a backup, and then are not in its inventory. *)
(***************************************************************************)
EXTENDS Integers, FiniteSets

CONSTANTS
  Runs,        \* commands at work at the same time: "maintain", "operator"
  Policies,    \* retention policies: [hourly, daily, monthly]
  DayLength,   \* hours in a day of the model
  MonthLength, \* hours in a month of it
  StagingAge,  \* ABANDONED_STAGING_AGE, in hours
  RunLimit,    \* the task's execution limit, in hours
  MaxPoints,   \* bound: backups begun
  MaxCaptured, \* bound: events captured
  MaxHours,    \* bound: the clock
  MaxMishaps   \* bound: failures and kills

(* apply_retention refuses a policy with a count of zero, and the six hours *)
(* of ABANDONED_STAGING_AGE are "comfortably beyond" the two that a backup  *)
(* may take.                                                                *)
ASSUME PoliciesAssumption ==
  \A policy \in Policies : {policy.hourly, policy.daily, policy.monthly} \subseteq Nat \ {0}
ASSUME AgesAssumption == RunLimit \in Nat /\ StagingAge \in Nat /\ RunLimit < StagingAge
ASSUME LengthsAssumption == DayLength \in Nat \ {0} /\ MonthLength \in Nat \ {0}
ASSUME BackupBoundsAssumption ==
  MaxPoints \in Nat /\ MaxCaptured \in Nat /\ MaxHours \in Nat /\ MaxMishaps \in Nat

VARIABLES
  events,     \* events in the brain's ledger
  present,    \* the ledger's file can be opened
  points,     \* what is in the backup root
  run,        \* how far each command is
  restored,   \* the destination of a restore
  leftovers,  \* the `.restore-<id>` directories beside it
  hour,
  published,  \* history: a backup was published
  shadowed,   \* history: retention took a staging directory for a backup
  faults      \* bound

rootVars == <<points, published, shadowed>>
restoreVars == <<restored, leftovers>>
backupVars == <<events, present, rootVars, run, restoreVars, hour, faults>>

----------------------------------------------------------------------------
(* A directory under the backup root: where it is in its life, whether it   *)
(* has a backup.json, whether all its files are there, when its backup      *)
(* began, and what its copy of the ledger holds.                            *)
Ids == DOMAIN points

Point == [dir : {"staging", "published", "removed"}, json : BOOLEAN, whole : BOOLEAN,
          at : 0..MaxHours, began : 0..MaxCaptured, holds : 0..MaxCaptured]

NoRun == [at |-> "idle", point |-> 0, victims |-> {}, swept |-> {}]

Fault == faults < MaxMishaps /\ faults' = faults + 1

Goto(r, at) == run' = [run EXCEPT ![r].at = at]

----------------------------------------------------------------------------
(* create.                                                                 *)

BeginCreate(r) ==
  /\ run[r].at = "idle" /\ Cardinality(Ids) < MaxPoints
  /\ LET id == Cardinality(Ids) + 1
     IN /\ points' = [i \in Ids \cup {id} |->
                        IF i = id
                          THEN [dir |-> "staging", json |-> FALSE, whole |-> FALSE, at |-> hour,
                                began |-> events, holds |-> 0]
                          ELSE points[i]]
        /\ run' = [run EXCEPT ![r] = [NoRun EXCEPT !.at = "copy", !.point = id]]
  /\ UNCHANGED <<events, present, published, shadowed, restoreVars, hour, faults>>

(* copy_walked_file: a file that vanished or stays locked is omitted, a     *)
(* ledger never is.                                                         *)
CopyFiles(r) ==
  /\ run[r].at = "copy" /\ present
  /\ points' = [points EXCEPT ![run[r].point].whole = TRUE, ![run[r].point].holds = events]
  /\ Goto(r, "inventory")
  /\ UNCHANGED <<events, present, published, shadowed, restoreVars, hour, faults>>

(* backup.json is written last, into the staging directory.                 *)
WriteInventory(r) ==
  /\ run[r].at = "inventory"
  /\ points' = [points EXCEPT ![run[r].point].json = TRUE]
  /\ Goto(r, "publish")
  /\ UNCHANGED <<events, present, published, shadowed, restoreVars, hour, faults>>

(* verify_at, then the rename; `maintain` goes on to apply retention.       *)
Publish(r) ==
  /\ run[r].at = "publish"
  /\ points[run[r].point].whole /\ points[run[r].point].dir = "staging"
  /\ points' = [points EXCEPT ![run[r].point].dir = "published"]
  /\ published' = TRUE
  /\ run' = [run EXCEPT ![r] = IF r = "maintain" THEN [@ EXCEPT !.at = "retain"] ELSE NoRun]
  /\ UNCHANGED <<events, present, shadowed, restoreVars, hour, faults>>

Gone == [dir |-> "removed", json |-> FALSE, whole |-> FALSE, at |-> 0, began |-> 0, holds |-> 0]

Removed(i) == [points EXCEPT ![i] = Gone]

(* The copy, the verification or the rename fails: the staging directory    *)
(* is removed.                                                              *)
FailCreate(r) ==
  /\ \/ run[r].at = "copy" /\ ~present /\ UNCHANGED faults
     \/ run[r].at = "publish" /\ ~points[run[r].point].whole /\ UNCHANGED faults
     \/ run[r].at \in {"copy", "inventory", "publish"} /\ Fault
  /\ points' = Removed(run[r].point)
  /\ run' = [run EXCEPT ![r] = NoRun]
  /\ UNCHANGED <<events, present, published, shadowed, restoreVars, hour>>

----------------------------------------------------------------------------
(* apply_retention.                                                        *)

(* A directory with a sound backup.json is a point; staging directories are *)
(* left out only when they are old enough to be swept.                      *)
Abandoned(i) == points[i].dir = "staging" /\ points[i].at + StagingAge <= hour

ReadablePoints == {i \in Ids : points[i].json /\ ~Abandoned(i)}

Newer(i, j) == points[i].at > points[j].at \/ (points[i].at = points[j].at /\ i > j)

\* Mutant: a slot is counted before it is compared with the limit.
FirstOfItsCounting(ps, i, length, max) ==
  LET slot(j) == points[j].at \div length
      earlier == {j \in ps : Newer(j, i)}
  IN /\ \A j \in earlier : slot(j) # slot(i)
     /\ Cardinality({slot(j) : j \in earlier \cup {i}}) < max

(* retained_indexes: from the newest on, the first point of each hour, day  *)
(* and month, as long as the policy has hours, days and months left.        *)
FirstOfIts(ps, i, length, max) ==
  LET slot(j) == points[j].at \div length
      earlier == {j \in ps : Newer(j, i)}
  IN /\ \A j \in earlier : slot(j) # slot(i)
     /\ Cardinality({slot(j) : j \in earlier}) < max

Retained(ps, policy) ==
  {i \in ps : \/ FirstOfIts(ps, i, 1, policy.hourly)
              \/ FirstOfIts(ps, i, DayLength, policy.daily)
              \/ FirstOfIts(ps, i, MonthLength, policy.monthly)}

(* What the command found in the directory, and decided to remove.          *)
Plan(r, policy) ==
  /\ run' = [run EXCEPT ![r] =
       [NoRun EXCEPT !.at = "remove",
                    !.victims = ReadablePoints \ Retained(ReadablePoints, policy),
                    !.swept = {i \in Ids : Abandoned(i)}]]
  /\ shadowed' = (shadowed \/ \E i \in ReadablePoints : points[i].dir = "staging")
  /\ UNCHANGED <<events, present, points, published, restoreVars, hour, faults>>

Retain(r) == run[r].at = "retain" /\ \E policy \in Policies : Plan(r, policy)

(* `brain backup prune --apply`                                             *)
Prune(r) == r = "operator" /\ run[r].at = "idle" /\ \E policy \in Policies : Plan(r, policy)

(* remove_dir_within, one directory after another: what a plan still names  *)
(* may be gone, which ends the command.                                     *)
RemoveNext(r) ==
  /\ run[r].at = "remove"
  /\ IF run[r].victims \cup run[r].swept = {}
       THEN run' = [run EXCEPT ![r] = NoRun] /\ UNCHANGED points
       ELSE \E i \in IF run[r].victims # {} THEN run[r].victims ELSE run[r].swept :
              IF points[i].dir = "removed"
                THEN run' = [run EXCEPT ![r] = NoRun] /\ UNCHANGED points
                ELSE /\ points' = Removed(i)
                     /\ run' = [run EXCEPT ![r].victims = @ \ {i}, ![r].swept = @ \ {i}]
  /\ UNCHANGED <<events, present, published, shadowed, restoreVars, hour, faults>>

(* The command is killed in the middle of a removal, or a file is in use:   *)
(* part of the directory stays, with its backup.json or without.            *)
TearPoint(r) ==
  /\ run[r].at = "remove"
  /\ Fault
  /\ \E i \in run[r].victims \cup run[r].swept : \E json \in BOOLEAN :
       /\ points[i].dir # "removed"
       /\ points' = [points EXCEPT ![i].whole = FALSE, ![i].json = @ /\ json]
  /\ run' = [run EXCEPT ![r] = NoRun]
  /\ UNCHANGED <<events, present, published, shadowed, restoreVars, hour>>

----------------------------------------------------------------------------
(* restore_isolated, for `brain restore` and the drills.                    *)

Verified(i) == points[i].json /\ points[i].whole

(* What an operator names, or latest_verified_backup: both may be a staging *)
(* directory.  A copy that was left behind is in the way of the next one.   *)
BeginRestore(r, i) ==
  /\ r = "operator" /\ run[r].at = "idle"
  /\ Verified(i)
  /\ restored = "none" /\ i \notin leftovers
  /\ leftovers' = leftovers \cup {i}
  /\ run' = [run EXCEPT ![r] = [NoRun EXCEPT !.at = "restoring", !.point = i]]
  /\ UNCHANGED <<events, present, rootVars, restored, hour, faults>>

(* The files of the inventory are copied: all of them, or one of them badly.*)
CopyBack(r) ==
  /\ run[r].at = "restoring" /\ points[run[r].point].whole
  /\ \/ Goto(r, "verifying") /\ UNCHANGED faults
     \/ Goto(r, "torn") /\ Fault
  /\ UNCHANGED <<events, present, rootVars, restored, leftovers, hour>>

(* verify_tree of the copy, against the inventory that was read at first.   *)
TreeVerified(r) == run[r].at = "verifying"

(* The rename; a drill removes what it restored.                            *)
FinishRestore(r, drill) ==
  /\ run[r].at \in {"verifying", "torn"} /\ TreeVerified(r)
  /\ restored' = IF drill THEN "none" ELSE IF run[r].at = "torn" THEN "partial" ELSE "whole"
  /\ leftovers' = leftovers \ {run[r].point}
  /\ run' = [run EXCEPT ![r] = NoRun]
  /\ UNCHANGED <<events, present, rootVars, hour, faults>>

(* A file of the backup is gone, or the copy does not verify.               *)
FailRestore(r) ==
  /\ \/ run[r].at = "restoring" /\ ~points[run[r].point].whole
     \/ run[r].at = "torn" /\ ~TreeVerified(r)
  /\ leftovers' = leftovers \ {run[r].point}
  /\ run' = [run EXCEPT ![r] = NoRun]
  /\ UNCHANGED <<events, present, rootVars, restored, hour, faults>>

----------------------------------------------------------------------------
(* The brain, the scheduler and the clock.                                  *)

Capture ==
  /\ present /\ events < MaxCaptured
  /\ events' = events + 1
  /\ UNCHANGED <<present, rootVars, run, restoreVars, hour, faults>>

(* The ledger cannot be opened for a while.                                 *)
LoseLedger ==
  /\ present /\ Fault
  /\ present' = FALSE
  /\ UNCHANGED <<events, rootVars, run, restoreVars, hour>>

FindLedger ==
  /\ ~present /\ present' = TRUE
  /\ UNCHANGED <<events, rootVars, run, restoreVars, hour, faults>>

(* A command is killed: what it was writing stays where it is.              *)
Kill(r) ==
  /\ run[r].at # "idle" /\ Fault
  /\ run' = [run EXCEPT ![r] = NoRun]
  /\ UNCHANGED <<events, present, rootVars, restoreVars, hour>>

(* No backup outlives the execution limit of its task.                      *)
Tick ==
  /\ hour < MaxHours
  /\ \A r \in Runs : run[r].at \in {"copy", "inventory", "publish"}
                       => hour < points[run[r].point].at + RunLimit
  /\ hour' = hour + 1
  /\ UNCHANGED <<events, present, rootVars, run, restoreVars, faults>>

----------------------------------------------------------------------------
BackupInit ==
  /\ events = 0 /\ present = TRUE /\ hour = 0 /\ faults = 0
  /\ points = <<>> /\ published = FALSE /\ shadowed = FALSE
  /\ run = [r \in Runs |-> NoRun]
  /\ restored = "none" /\ leftovers = {}

Create(r) == BeginCreate(r) \/ CopyFiles(r) \/ WriteInventory(r) \/ Publish(r) \/ FailCreate(r)

Retention(r) == Retain(r) \/ Prune(r) \/ RemoveNext(r) \/ TearPoint(r)

Restore(r) ==
  \/ \E i \in Ids : BeginRestore(r, i)
  \/ CopyBack(r) \/ FailRestore(r) \/ \E drill \in BOOLEAN : FinishRestore(r, drill)

BackupNext ==
  \/ \E r \in Runs : Create(r) \/ Retention(r) \/ Restore(r) \/ Kill(r)
  \/ Capture \/ LoseLedger \/ FindLedger \/ Tick

BackupSpec == BackupInit /\ [][BackupNext]_backupVars

----------------------------------------------------------------------------
(* Properties.                                                             *)

(* A published backup holds every event that was in the ledger when it      *)
(* began, though the brain is written to, and files come and go, while it   *)
(* is copied.                                                               *)
BackupHoldsLedger ==
  \A i \in Ids : points[i].dir = "published" /\ points[i].whole =>
    points[i].holds >= points[i].began

(* Once there was a restore point there is one: retention may be killed     *)
(* anywhere, overlap another one with a policy of its own, or find what an  *)
(* earlier one tore.  Only a staging directory it takes for a backup may    *)
(* cost the last one.                                                       *)
RestorePointKept ==
  published /\ ~shadowed =>
    \E i \in Ids : points[i].dir = "published" /\ Verified(i) /\ points[i].holds >= points[i].began

(* Retention leaves alone what is still being copied: a directory without a *)
(* backup.json is swept only when no live backup can own it.                *)
UnfinishedKept ==
  \A r \in Runs : run[r].at \in {"copy", "inventory"} => points[run[r].point].dir = "staging"

(* A restore publishes what it has verified, or nothing, also when the      *)
(* backup is removed while it is copied.                                    *)
RestoredWhole == restored # "partial"

(* What is promised of a backup and of what is restored from it.            *)
BackupsKept == BackupHoldsLedger /\ RestorePointKept /\ UnfinishedKept /\ RestoredWhole
=============================================================================
