---------------------------- MODULE MergePreflight ----------------------------
(***************************************************************************)
(* The preflight of a merge (brain-coordination/src/preflight.rs): about   *)
(* ten git commands, one after another, in a repository whose branches     *)
(* move and whose files change meanwhile.                                  *)
(***************************************************************************)
EXTENDS Integers

CONSTANTS
  Commits,  \* commits a branch may be at
  Verdict,  \* what git says of a pair of commits: [base, whitespace, exit, named, source, target]
  Unasked

VARIABLES
  ref,      \* the commit of each branch
  dirty,    \* there are uncommitted changes
  asked,    \* how far the preflight is, and what it has found
  checked   \* the last report

preflightVars == <<ref, dirty, asked, checked>>

----------------------------------------------------------------------------
Branches == {"source", "target"}

NotAsked == [at |-> "idle", source |-> Unasked, target |-> Unasked, dirty |-> FALSE]

(* rev-parse, first of one branch and then of the other.                    *)
PinSource ==
  /\ asked = NotAsked
  /\ asked' = [NotAsked EXCEPT !.at = "target", !.source = ref["source"]]
  /\ UNCHANGED <<ref, dirty, checked>>

PinTarget ==
  /\ asked.at = "target"
  /\ asked' = [asked EXCEPT !.at = "status", !.target = ref["target"]]
  /\ UNCHANGED <<ref, dirty, checked>>

ReadStatus ==
  /\ asked.at = "status"
  /\ asked' = [asked EXCEPT !.at = "analyse", !.dirty = dirty]
  /\ UNCHANGED <<ref, dirty, checked>>

\* Mutant: the branches are named again, instead of the commits.
AnalysedByName == Verdict[<<ref["source"], ref["target"]>>]

(* merge-base, diff and merge-tree are asked about the pinned commits.      *)
Analysed == Verdict[<<asked.source, asked.target>>]

(* conflict_paths: the paths git names, or else those both sides changed.   *)
Conflicts(verdict) ==
  IF verdict.exit # 1 THEN {}
  ELSE IF verdict.named # {} THEN verdict.named
  ELSE verdict.source \cap verdict.target

(* Without a base nothing more is asked.                                    *)
Blockers(verdict) ==
  IF ~verdict.base THEN {"MissingMergeBase"}
  ELSE UNION {IF verdict.whitespace THEN {"UnresolvedWhitespaceError"} ELSE {},
              IF verdict.exit \notin {0, 1} THEN {"MergeAnalysisUnavailable"} ELSE {}}

Report ==
  /\ asked.at = "analyse"
  /\ checked' = [source |-> asked.source, target |-> asked.target,
                ready |-> ~asked.dirty /\ Blockers(Analysed) = {} /\ Conflicts(Analysed) = {}]
  /\ asked' = NotAsked
  /\ UNCHANGED <<ref, dirty>>

(* A git command fails: there is no report.                                 *)
FailPreflight ==
  /\ asked # NotAsked
  /\ asked' = NotAsked
  /\ UNCHANGED <<ref, dirty, checked>>

----------------------------------------------------------------------------
MoveBranch ==
  /\ \E b \in Branches, commit \in Commits : ref' = [ref EXCEPT ![b] = commit]
  /\ UNCHANGED <<dirty, asked, checked>>

EditFiles == dirty' = ~dirty /\ UNCHANGED <<ref, asked, checked>>

PreflightInit ==
  /\ ref \in [Branches -> Commits] /\ dirty = FALSE
  /\ asked = NotAsked /\ checked = Unasked

PreflightNext ==
  \/ PinSource \/ PinTarget \/ ReadStatus \/ Report \/ FailPreflight
  \/ MoveBranch \/ EditFiles

PreflightSpec == PreflightInit /\ [][PreflightNext]_preflightVars

----------------------------------------------------------------------------
(* A conflict that cannot be shown: git's messages name no path that        *)
(* conflict_paths can parse (a split directory rename), and the sides       *)
(* changed no path in common. The report then has no conflict.              *)
Unnamed(verdict) ==
  verdict.exit = 1 /\ verdict.named = {} /\ verdict.source \cap verdict.target = {}

(* "Ready" is said only of two commits that git merges without a conflict,  *)
(* an unnamed one excepted, whatever the branches were moved to while git   *)
(* was asked.                                                               *)
ReadyMerges ==
  checked # Unasked /\ checked.ready =>
    LET pair == <<checked.source, checked.target>>
    IN /\ pair \in Commits \X Commits
       /\ Verdict[pair].base /\ ~Verdict[pair].whitespace
       /\ Verdict[pair].exit = 0 \/ Unnamed(Verdict[pair])
=============================================================================
