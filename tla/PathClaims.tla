------------------------------ MODULE PathClaims ------------------------------
(***************************************************************************)
(* Tasks with worktrees of their own, and the paths they claim             *)
(* (brain-coordination/src/worktree.rs, task.rs, claims.rs).               *)
(*                                                                         *)
(* Several commands run at the same time on connections of their own.      *)
(* claim_paths reads the task's status and the claims of others before its *)
(* transaction; the creation of a task takes a worktree from git, an alias *)
(* in the registry and a row in the ledger, and may end between any two.   *)
(***************************************************************************)
EXTENDS Integers, Sequences, FiniteSets, SequencesExt

CONSTANTS
  TaskIds,    \* tasks that may be created
  Callers,    \* commands at work at the same time
  Files,      \* files of the repository: sequences of names
  Ignored,    \* IGNORED_ROOTS
  Claimable,  \* what a command may claim, normalized: [kind, path, stem, symbol]
  Begins,     \* pairs of a name and a stem it begins with
  None,
  MaxClaims,  \* bound: claims made
  MaxFaults   \* bound: failed commands and crashes

ASSUME ClaimableAssumption ==
  \A what \in Claimable :
    /\ what.kind \in {"file", "directory", "glob", "symbol"}
    /\ what.path \in Seq(STRING) /\ what.path # <<>>

ASSUME FilesAssumption == Files \subseteq Seq(STRING)

VARIABLES
  taskStatus, \* coordination_tasks: "none", "active" or "closed"
  worktree,   \* tasks whose worktree is on disk
  alias,      \* tasks whose worktree is in the registry
  lost,       \* history: aliases an overlapping write of the registry took away
  pathClaims, \* path_claims, in the order of their insertion
  call,       \* what each command is in the middle of
  mishaps     \* bound

claimVars == <<taskStatus, worktree, alias, lost, pathClaims, call, mishaps>>

----------------------------------------------------------------------------
(* What two claims have to do with each other.                              *)

ChildOf(candidate, parent) == IsStrictPrefix(parent, candidate)

\* Mutant: only what is below the other claim is related to it.
RelatedBelow(l, r) == l = r \/ ChildOf(l, r)

Related(l, r) == l = r \/ ChildOf(l, r) \/ ChildOf(r, l)

(* static_prefix: a glob up to its first wildcard.  The stem of a component *)
(* that is cut there is taken for a whole name.                             *)
StaticPrefix(what) ==
  IF what.kind # "glob" THEN what.path
  ELSE Front(what.path) \o IF what.stem = None THEN <<>> ELSE <<what.stem>>

OverlapOfSymbols(l, r) ==
  IF l.path = r.path /\ l.symbol # None /\ l.symbol = r.symbol THEN "definite"
  ELSE IF Related(l.path, r.path) THEN "possible" ELSE "none"

OverlapOfGlobs(l, r) ==
  IF <<>> \in {StaticPrefix(l), StaticPrefix(r)} THEN "possible"
  ELSE IF Related(StaticPrefix(l), StaticPrefix(r)) THEN "probable" ELSE "none"

OverlapOfPaths(l, r) ==
  IF \/ l.path = r.path
     \/ l.kind = "directory" /\ ChildOf(r.path, l.path)
     \/ r.kind = "directory" /\ ChildOf(l.path, r.path)
  THEN "definite" ELSE "none"

IsIgnored(what) == Head(what.path) \in Ignored

Overlap(l, r) ==
  IF IsIgnored(l) \/ IsIgnored(r) THEN "ignored"
  ELSE IF "symbol" \in {l.kind, r.kind} THEN OverlapOfSymbols(l, r)
  ELSE IF "glob" \in {l.kind, r.kind} THEN OverlapOfGlobs(l, r)
  ELSE OverlapOfPaths(l, r)

Alerting == {"possible", "probable", "definite"}

----------------------------------------------------------------------------
(* Claims.                                                                 *)

NoCall == [at |-> "idle", task |-> None, what |-> None, seen |-> {}, read |-> 0]

Mishap == mishaps < MaxFaults /\ mishaps' = mishaps + 1

End(c) == call' = [call EXCEPT ![c] = NoCall]

(* active_claims: those that stand, of tasks that are active.               *)
ActiveClaims ==
  {i \in DOMAIN pathClaims : pathClaims[i].live /\ taskStatus[pathClaims[i].task] = "active"}

(* claim_paths, up to its transaction.                                      *)
ReadClaims(c, task, what) ==
  /\ call[c] = NoCall /\ taskStatus[task] = "active" /\ Len(pathClaims) < MaxClaims
  /\ call' = [call EXCEPT ![c] = [at |-> "insert", task |-> task, what |-> what,
                                  seen |-> ActiveClaims, read |-> Len(pathClaims)]]
  /\ UNCHANGED <<taskStatus, worktree, alias, lost, pathClaims, mishaps>>

Warnings(c) ==
  {i \in call[c].seen : /\ pathClaims[i].task # call[c].task
                        /\ Overlap(call[c].what, pathClaims[i].what) \in Alerting}

(* The transaction: the claim is stored, whatever it overlaps, and also if  *)
(* its task was closed meanwhile.                                           *)
InsertClaim(c) ==
  /\ call[c].at = "insert" /\ Len(pathClaims) < MaxClaims
  /\ pathClaims' =
                    Append(pathClaims, [task |-> call[c].task, what |-> call[c].what, live |-> TRUE,
                                        read |-> call[c].read, warned |-> Warnings(c)])
  /\ End(c)
  /\ UNCHANGED <<taskStatus, worktree, alias, lost, mishaps>>

ReleaseClaim(i) ==
  /\ pathClaims[i].live
  /\ pathClaims' = [pathClaims EXCEPT ![i].live = FALSE]
  /\ UNCHANGED <<taskStatus, worktree, alias, lost, call, mishaps>>

----------------------------------------------------------------------------
(* Tasks and their worktrees.                                               *)

(* create: the names of the branch and the directory are new.               *)
AddWorktree(c, task) ==
  /\ call[c] = NoCall /\ taskStatus[task] = "none" /\ task \notin worktree
  /\ \A other \in Callers : call[other].task # task
  /\ worktree' = worktree \cup {task}
  /\ call' = [call EXCEPT ![c] = [NoCall EXCEPT !.at = "alias", !.task = task]]
  /\ UNCHANGED <<taskStatus, alias, lost, pathClaims, mishaps>>

(* The registry is a file: it is read, and then written as a whole.         *)
ReadRegistry(c) ==
  /\ call[c].at = "alias"
  /\ call' = [call EXCEPT ![c].at = "save", ![c].seen = alias]
  /\ UNCHANGED <<taskStatus, worktree, alias, lost, pathClaims, mishaps>>

SaveAlias(c) ==
  /\ call[c].at = "save"
  /\ alias' = call[c].seen \cup {call[c].task}
  /\ lost' = lost \cup (alias \ alias')
  /\ call' = [call EXCEPT ![c].at = "record", ![c].seen = {}]
  /\ UNCHANGED <<taskStatus, worktree, pathClaims, mishaps>>

Recordable(c) == call[c].at = "record"

RecordTask(c) ==
  /\ Recordable(c)
  /\ taskStatus' = [taskStatus EXCEPT ![call[c].task] = "active"]
  /\ End(c)
  /\ UNCHANGED <<worktree, alias, lost, pathClaims, mishaps>>

(* The alias or the row cannot be stored: the worktree is removed again, if *)
(* git lets it be.  The alias and the branch stay.                          *)
FailTask(c) ==
  /\ call[c].at \in {"alias", "save", "record"} /\ Mishap
  /\ worktree' \in {worktree, worktree \ {call[c].task}}
  /\ End(c)
  /\ UNCHANGED <<taskStatus, alias, lost, pathClaims>>

(* close, after the lease: `git status` in a worktree that is gone fails.   *)
CloseWorktree(task) ==
  /\ taskStatus[task] = "active" /\ task \in worktree
  /\ taskStatus' = [taskStatus EXCEPT ![task] = "closed"]
  /\ UNCHANGED <<worktree, alias, lost, pathClaims, call, mishaps>>

(* The cleanup command of the report, which the agent runs.                 *)
RemoveWorktree(task) ==
  /\ taskStatus[task] = "closed" /\ task \in worktree
  /\ worktree' = worktree \ {task}
  /\ UNCHANGED <<taskStatus, alias, lost, pathClaims, call, mishaps>>

(* A command is killed.                                                     *)
Abort(c) ==
  /\ call[c].at \in {"alias", "save", "record"} /\ Mishap
  /\ End(c)
  /\ UNCHANGED <<taskStatus, worktree, alias, lost, pathClaims>>

----------------------------------------------------------------------------
ClaimsInit ==
  /\ taskStatus = [task \in TaskIds |-> "none"] /\ worktree = {} /\ alias = {} /\ lost = {}
  /\ pathClaims = <<>> /\ call = [c \in Callers |-> NoCall]
  /\ mishaps = 0

ClaimsNext ==
  \/ \E c \in Callers, task \in TaskIds :
       AddWorktree(c, task) \/ \E what \in Claimable : ReadClaims(c, task, what)
  \/ \E c \in Callers :
       \/ InsertClaim(c) \/ ReadRegistry(c) \/ SaveAlias(c) \/ RecordTask(c)
       \/ FailTask(c) \/ Abort(c)
  \/ \E task \in TaskIds : CloseWorktree(task) \/ RemoveWorktree(task)
  \/ \E i \in DOMAIN pathClaims : ReleaseClaim(i)

ClaimsSpec == ClaimsInit /\ [][ClaimsNext]_claimVars

----------------------------------------------------------------------------
(* Properties.                                                             *)

(* The files a claim is about.                                              *)
Covered(what) ==
  {file \in Files :
     CASE what.kind = "directory" -> file = what.path \/ ChildOf(file, what.path)
       [] what.kind = "glob" ->
            /\ Len(file) = Len(what.path) /\ Front(file) = Front(what.path)
            /\ what.stem = None \/ <<Last(file), what.stem>> \in Begins
       [] OTHER -> file = what.path}

(* What the comparison of prefixes cannot see: a wildcard within a name,    *)
(* and a symbol in a file that a glob covers.                               *)
Blurred(l, r) ==
  \/ \E what \in {l, r} : what.kind = "glob" /\ what.stem # None
  \/ {l.kind, r.kind} = {"glob", "symbol"}

(* Whoever claims what another active task has claimed is told so, whatever *)
(* kinds of claims they are and whatever was released and closed before:    *)
(* unless the other claim was stored while the caller was between reading   *)
(* and storing, or the overlap is one that Blurred names.                   *)
OverlapWarned ==
  \A i, j \in DOMAIN pathClaims :
    /\ i <= pathClaims[j].read /\ pathClaims[i].task # pathClaims[j].task
    /\ {i, j} \subseteq ActiveClaims
    /\ ~IsIgnored(pathClaims[i].what) /\ ~IsIgnored(pathClaims[j].what)
    /\ Covered(pathClaims[i].what) \cap Covered(pathClaims[j].what) # {}
    /\ ~Blurred(pathClaims[i].what, pathClaims[j].what)
    => i \in pathClaims[j].warned

(* The worktree of a task is known to the registry, so that what happens in *)
(* it belongs to the project, also after failed creations: unless another   *)
(* command wrote the registry it had read before the alias was there.       *)
TaskResolvable == \A task \in TaskIds : taskStatus[task] # "none" => task \in alias \cup lost

(* What of tasks and their claims is correct at every step, together.       *)
TasksSound == OverlapWarned /\ TaskResolvable
=============================================================================
