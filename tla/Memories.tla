------------------------------ MODULE Memories ------------------------------
(***************************************************************************)
(* The memories of one project: append_memory and the reads of it          *)
(* (brain-store/src/memory.rs, search.rs), withdrawal and eviction         *)
(* (tombstone.rs, evict.rs, access.rs), and the commands that change       *)
(* memories: `brain remember`, `review`, `revise`, `reconcile`, `forget`   *)
(* and `evict` (brain-cli).                                                *)
(*                                                                         *)
(* A memory is a claim with its evidence; its versions differ in status    *)
(* and in what they supersede.  A command reads the ledger, decides, and   *)
(* makes its writes one statement at a time: the service, another shell    *)
(* or a crash may come between the read and a write, and between writes.   *)
(* Memories are numbered as they are created, and no two of them say the   *)
(* same thing.                                                             *)
(***************************************************************************)
EXTENDS Integers, Sequences, FiniteSets, SequencesExt

CONSTANTS
  Shells,           \* terminals in which commands run
  Evidence,         \* events a memory may cite
  Subjects,         \* kind and title of a memory (subject_key)
  Gated,            \* subjects of the kinds that wait for a review (gated_kinds)
  MinNewEvidence,   \* MIN_NEW_EVIDENCE
  MinGap,           \* DEFAULT_MIN_GAP_DAYS; `--all` sets it to 0
  Observation,      \* MINIMUM_OBSERVATION
  QuietFor,         \* QUIET_FOR
  MaxMemories,      \* bound: memories
  MaxVersions,      \* bound: versions of a memory
  MaxTime,          \* bound: the clock
  MaxCommands,      \* bound: commands begun
  Derivable,        \* bound: the claims consolidation derives
  Citations         \* bound: the evidence of what a person files or a merge drafts

ASSUME BoundsOfMemories ==
  MaxMemories \in Nat /\ MaxVersions \in Nat \ {0} /\ MaxTime \in Nat /\ MaxCommands \in Nat

VARIABLES
  memories,   \* memory_records, memory_versions, memory_evidence, memory_supersession
  withdrawn,  \* memory_tombstones: who withdrew a memory
  accessed,   \* memory_access
  sheet,      \* the review sheet on disk: pairs whose merge a person approved
  command,    \* what each shell is in the middle of
  today,      \* the clock; access counting began at 0
  begun,      \* bound: commands begun
  crossed     \* history: a claim was retired though it had a version since it was read

memVars == <<memories, withdrawn, accessed, sheet, command, today, begun, crossed>>

----------------------------------------------------------------------------
Filed == DOMAIN memories

Status == {"proposed", "current", "superseded", "invalid"}

(* authority_rank: what a person files outranks what is derived.            *)
Authority == {"derived_memory", "human_correction"}
Rank(authority) == IF authority = "human_correction" THEN 2 ELSE 1

VersionId == (1..MaxMemories) \X (1..MaxVersions)

Version == [status : Status, supersedes : SUBSET VersionId]

Claim == [authority : Authority, evidence : (SUBSET Evidence) \ {{}}, from : 0..MaxTime,
          subject : Subjects]

(* Nothing that is derived is a person's claim (validate_proposed_batch).    *)
ASSUME DerivableAssumption ==
  \A claim \in Derivable : claim \in Claim /\ claim.authority = "derived_memory"

ASSUME CitationsAssumption == Citations \subseteq SUBSET Evidence

(* One statement of a command: a new memory, a version that is a copy of    *)
(* one that was read, with another status, or a withdrawal.                 *)
Statement ==
  [kind : {"memory"}, claim : Claim, version : Version]
  \cup [kind : {"version"}, of : VersionId, version : Version]
  \cup [kind : {"withdrawal"}, memory : 1..MaxMemories, by : {"forget", "evict"}]

(* What a command still has to look at: drafts to ask for, drafts a person  *)
(* approved, contradictions to fold.                                        *)
Task ==
  [do : {"merge", "reviewed"}, older : 1..MaxMemories, newer : 1..MaxMemories]
  \cup [do : {"fold"}, keep : 1..MaxMemories, losers : SUBSET (1..MaxMemories)]

Idle == [todo |-> {}, writes |-> <<>>]

MemTypeOK ==
  /\ \A n \in Filed : /\ memories[n].claim \in Claim
                    /\ memories[n].versions # <<>>
                    /\ \A k \in DOMAIN memories[n].versions : memories[n].versions[k] \in Version
  /\ DOMAIN withdrawn = Filed
  /\ \A n \in Filed : withdrawn[n] \in {"no", "forget", "evict"}
  /\ accessed \subseteq Filed
  /\ sheet \subseteq Filed \X Filed
  /\ \A s \in Shells : /\ command[s].todo \subseteq Task
                       /\ \A i \in DOMAIN command[s].writes : command[s].writes[i] \in Statement
  /\ today \in 0..MaxTime /\ begun \in 0..MaxCommands /\ crossed \in BOOLEAN

----------------------------------------------------------------------------
(* Reads.                                                                  *)

(* current_memory: the latest version, whatever its status.                 *)
Latest(n) == Last(memories[n].versions)
LatestId(n) == <<n, Len(memories[n].versions)>>

Claimed(n) == memories[n].claim

Stands(n) == withdrawn[n] = "no"

(* memory_supersession                                                      *)
Edges ==
  UNION {UNION {v.supersedes : v \in ToSet(memories[n].versions)} : n \in Filed}

(* MemoryStatus::is_readable                                                *)
IsReadable(status) == status = "current"

(* current_project_memories: what orientation, projection, export, revise   *)
(* and reconcile read.                                                      *)
Projected == {n \in Filed : Stands(n) /\ IsReadable(Latest(n).status) /\ LatestId(n) \notin Edges}

(* search_memories: the versions a search without `as_of` may return.       *)
Found ==
  {v \in VersionId : /\ v[1] \in Filed /\ v[2] \in DOMAIN memories[v[1]].versions
                     /\ memories[v[1]].versions[v[2]].status \notin {"invalid", "superseded"}
                     /\ Stands(v[1])
                     /\ v \notin Edges}

(* CURRENT_CLAIM                                                            *)
CurrentClaim(n) == Latest(n).status = "current"

----------------------------------------------------------------------------
(* Writes.                                                                 *)

NewMemory(claim, status, supersedes) ==
  [kind |-> "memory", claim |-> claim,
   version |-> [status |-> status, supersedes |-> supersedes]]

NewVersion(n, status, supersedes) ==
  [kind |-> "version", of |-> LatestId(n),
   version |-> [status |-> status, supersedes |-> supersedes]]

Withdrawal(n, by) == [kind |-> "withdrawal", memory |-> n, by |-> by]

(* append_memory and forget_memory, one transaction each.                   *)
Apply(w) ==
  CASE w.kind = "memory" ->
         /\ Len(memories) < MaxMemories
         /\ memories' = Append(memories, [claim |-> w.claim, versions |-> <<w.version>>])
         /\ withdrawn' = Append(withdrawn, "no")
    [] w.kind = "version" ->
         /\ Len(memories[w.of[1]].versions) < MaxVersions
         /\ memories' = [memories EXCEPT ![w.of[1]].versions = Append(@, w.version)]
         /\ UNCHANGED withdrawn
    [] w.kind = "withdrawal" ->
         /\ withdrawn' = [withdrawn EXCEPT ![w.memory] = IF @ = "no" THEN w.by ELSE @]
         /\ UNCHANGED memories

Crosses(w) ==
  w.kind = "version" /\ w.version.status = "superseded" /\ w.of # LatestId(w.of[1])

(* The command of a shell does its next write.  It does not ask whether the *)
(* version that it read is still the latest.                                *)
WriteNext(s) ==
  /\ command[s].writes # <<>>
  /\ LET w == Head(command[s].writes)
     IN /\ Apply(w)
        /\ crossed' = (crossed \/ Crosses(w))
  /\ command' = [command EXCEPT ![s].writes = Tail(@)]
  /\ UNCHANGED <<accessed, sheet, today, begun>>

(* A command that has read and decided, and goes on with these writes.      *)
Decide(s, todo, writes) ==
  /\ command' = [command EXCEPT ![s] = [todo |-> todo, writes |-> writes]]
  /\ UNCHANGED <<memories, withdrawn, accessed, sheet, today, crossed>>

(* A command begins.                                                        *)
Begin(s) ==
  /\ command[s] = Idle
  /\ begun < MaxCommands
  /\ begun' = begun + 1

(* The process ends, or a statement of it fails and the error ends it.      *)
StopCommand(s) ==
  /\ command[s] # Idle
  /\ command' = [command EXCEPT ![s] = Idle]
  /\ UNCHANGED <<memories, withdrawn, accessed, sheet, today, begun, crossed>>

----------------------------------------------------------------------------
(* remember: the current versions of what it corrects are looked up first.  *)
Remember(s, subject, evidence, corrects) ==
  /\ Begin(s)
  /\ evidence # {}
  /\ \A n \in corrects : Stands(n)
  /\ Decide(s, {},
       <<NewMemory([authority |-> "human_correction", evidence |-> evidence, from |-> today,
                    subject |-> subject],
                   "current", {LatestId(n) : n \in corrects})>>)

(* rule, for `brain review --approve` and `--reject`.                       *)
Rule(s, n, status) ==
  /\ Begin(s)
  /\ Stands(n) /\ Latest(n).status = "proposed"
  /\ Decide(s, {}, <<NewVersion(n, status, {})>>)

Forget(s, n) ==
  /\ Begin(s)
  /\ Decide(s, {}, <<Withdrawal(n, "forget")>>)

----------------------------------------------------------------------------
(* revise: pairs of memories that share evidence, of which the newer one    *)
(* rests on events the older one never saw.                                 *)

Unseen(older, newer) == Claimed(newer).evidence \ Claimed(older).evidence

(* propose_revisions                                                        *)
Candidates(gap) ==
  {p \in Projected \X Projected :
     /\ p[1] # p[2]
     /\ Claimed(p[1]).evidence \cap Claimed(p[2]).evidence # {}
     /\ Claimed(p[1]).from + gap <= Claimed(p[2]).from
     /\ Cardinality(Unseen(p[1], p[2])) >= MinNewEvidence}

(* validate_merge: what the merged claim may cite.                          *)
Derived(older, newer, unseen, cited) ==
  /\ cited # {} /\ unseen \subseteq cited
  /\ cited \subseteq Claimed(older).evidence \cup Claimed(newer).evidence

(* A correction merged with a derived claim remains a correction.           *)
MergedAuthority(older, newer) ==
  IF Rank(Claimed(older).authority) >= Rank(Claimed(newer).authority)
    THEN Claimed(older).authority ELSE Claimed(newer).authority

\* Mutant: the pair is retired before the claim that replaces it is written.
MergeWritesRetiringFirst(older, newer, subject, cited) ==
  <<NewVersion(older, "superseded", {}), NewVersion(newer, "superseded", {}),
    NewMemory([authority |-> MergedAuthority(older, newer), evidence |-> cited,
               from |-> Claimed(newer).from, subject |-> subject],
              "current", {LatestId(older), LatestId(newer)})>>

(* A merged claim is of the newer side's kind; its title is drafted.        *)
SameKind(subject, n) == subject \in Gated <=> Claimed(n).subject \in Gated

(* write_merge: the claim that replaces the pair, then the retirement of    *)
(* either side.                                                             *)
MergeWrites(older, newer, subject, cited) ==
  <<NewMemory([authority |-> MergedAuthority(older, newer), evidence |-> cited,
               from |-> Claimed(newer).from, subject |-> subject],
              "current", {LatestId(older), LatestId(newer)}),
    NewVersion(older, "superseded", {}), NewVersion(newer, "superseded", {})>>

(* `revise --propose --apply` lists its candidates; `--review-sheet` writes *)
(* down those whose merge was drafted, and a person rules on each.          *)
ReviseNow(s, gap) ==
  /\ Begin(s) /\ Candidates(gap) # {}
  /\ Decide(s, {[do |-> "merge", older |-> p[1], newer |-> p[2]] : p \in Candidates(gap)}, <<>>)

WriteSheet(s, gap) ==
  /\ Begin(s)
  /\ \E approved \in (SUBSET Candidates(gap)) \ {{}} : sheet' = approved
  /\ UNCHANGED <<memories, withdrawn, accessed, command, today, crossed>>

ReviseReviewed(s) ==
  /\ Begin(s) /\ sheet # {}
  /\ Decide(s, {[do |-> "reviewed", older |-> p[1], newer |-> p[2]] : p \in sheet}, <<>>)

(* The next item of a command, when the writes of the last one are done.    *)
Turns(s, t) == t \in command[s].todo /\ command[s].writes = <<>> /\ UNCHANGED begun

(* merge_candidates: the latest versions are read, then the provider is     *)
(* asked; its draft is not checked against the ledger again.                *)
MergeProposed(s, t, subject, cited) ==
  /\ Turns(s, t) /\ t.do = "merge" /\ SameKind(subject, t.newer)
  /\ Stands(t.older) /\ Stands(t.newer)
  /\ Derived(t.older, t.newer, Unseen(t.older, t.newer), cited)
  /\ Decide(s, command[s].todo \ {t}, MergeWrites(t.older, t.newer, subject, cited))

(* apply_reviewed: both sides must still be current; the claim cites all    *)
(* the evidence of both.                                                    *)
MergeReviewed(s, t, subject) ==
  /\ Turns(s, t) /\ t.do = "reviewed" /\ SameKind(subject, t.newer)
  /\ \A n \in {t.older, t.newer} : Stands(n) /\ Latest(n).status = "current"
  /\ Decide(s, command[s].todo \ {t},
            MergeWrites(t.older, t.newer, subject,
                        Claimed(t.older).evidence \cup Claimed(t.newer).evidence))

(* A side that is gone, a draft that is refused, a provider that fails.     *)
SkipMerge(s, t) ==
  /\ Turns(s, t) /\ t.do # "fold"
  /\ Decide(s, command[s].todo \ {t}, <<>>)

----------------------------------------------------------------------------
(* reconcile.                                                              *)

(* resolve_candidates: the memories of a subject with the highest           *)
(* authority among them contradict each other if they are several.          *)
Contenders(subject) ==
  LET active == {n \in Projected : Claimed(n).subject = subject /\ Claimed(n).from <= today}
  IN {n \in active : \A m \in active : Rank(Claimed(m).authority) <= Rank(Claimed(n).authority)}

(* The memories with the highest score, of which one alone would win.       *)
Best(ns, score) == {n \in ns : \A m \in ns : score[m] <= score[n]}

Recency(ns) == [n \in ns |-> Claimed(n).from]
EvidenceWeight(ns) == [n \in ns |-> Cardinality(Claimed(n).evidence)]

(* propose_for: the first rule that has a single winner decides; each rule  *)
(* scores all the sides.  (By authority contenders never differ.)           *)
Winners(ns) ==
  IF Cardinality(Best(ns, Recency(ns))) = 1
    THEN Best(ns, Recency(ns)) ELSE Best(ns, EvidenceWeight(ns))

Folds ==
  LET sides == {ns \in {Contenders(subject) : subject \in Subjects} : Cardinality(ns) > 1}
      folded(ns) == {[do |-> "fold", keep |-> n, losers |-> ns \ {n}] :
                       n \in {m \in ns : Winners(ns) = {m}}}
  IN UNION {folded(ns) : ns \in sides}

(* `reconcile --apply` proposes for every subject, then folds one by one.   *)
Reconcile(s) ==
  /\ Begin(s) /\ Folds # {}
  /\ Decide(s, Folds, <<>>)

(* The versions of the sides are read again.                                *)
Fold(s, t) ==
  /\ Turns(s, t) /\ t.do = "fold"
  /\ LET losers == {n \in t.losers : Stands(n)}
     IN Decide(s, command[s].todo \ {t},
          IF ~Stands(t.keep) \/ losers = {} THEN <<>>
          ELSE <<NewVersion(t.keep, "current", {LatestId(n) : n \in losers})>>
               \o [i \in 1..Cardinality(losers) |->
                     NewVersion(SetToSeq(losers)[i], "superseded", {})])

----------------------------------------------------------------------------
(* evict --apply.                                                          *)

(* plan_eviction                                                            *)
Evictable(n) ==
  /\ CurrentClaim(n) /\ Stands(n) /\ n \notin accessed
  /\ Claimed(n).from < today - QuietFor
  /\ Claimed(n).authority # "human_correction"

(* apply_eviction plans again, then withdraws the candidates one by one.    *)
Evict(s) ==
  /\ Begin(s)
  /\ today >= Observation
  /\ LET plan == SetToSeq({n \in Filed : Evictable(n)})
     IN Decide(s, {}, [i \in DOMAIN plan |-> Withdrawal(plan[i], "evict")])

----------------------------------------------------------------------------
(* The service and the clock.                                              *)

(* Consolidation appends what it derived, to be reviewed or not.            *)
Consolidate(claim) ==
  /\ Apply(NewMemory(claim, IF claim.subject \in Gated THEN "proposed" ELSE "current", {}))
  /\ UNCHANGED <<accessed, sheet, command, today, begun, crossed>>

(* record_memory_access, at the end of a search.                            *)
Retrieve(n) ==
  /\ \E v \in Found : v[1] = n
  /\ accessed' = accessed \cup {n}
  /\ UNCHANGED <<memories, withdrawn, sheet, command, today, begun, crossed>>

NextDay ==
  /\ today < MaxTime
  /\ today' = today + 1
  /\ UNCHANGED <<memories, withdrawn, accessed, sheet, command, begun, crossed>>

----------------------------------------------------------------------------
MemInit ==
  /\ memories = <<>> /\ withdrawn = <<>> /\ accessed = {} /\ sheet = {}
  /\ command = [s \in Shells |-> Idle]
  /\ today = 0 /\ begun = 0 /\ crossed = FALSE

Service ==
  \/ \E claim \in Derivable : claim.from <= today /\ Consolidate(claim)
  \/ \E n \in Filed : Retrieve(n)

Shell(s) ==
  \/ WriteNext(s) \/ StopCommand(s)
  \/ \E subject \in Subjects, evidence \in Citations, corrects \in SUBSET Filed :
       Remember(s, subject, evidence, corrects)
  \/ \E n \in Filed : Forget(s, n) \/ \E status \in {"current", "invalid"} : Rule(s, n, status)
  \/ \E gap \in {0, MinGap} : ReviseNow(s, gap) \/ WriteSheet(s, gap)
  \/ ReviseReviewed(s) \/ Reconcile(s) \/ Evict(s)
  \/ \E t \in command[s].todo :
       \/ SkipMerge(s, t) \/ Fold(s, t)
       \/ \E subject \in Subjects :
            \/ MergeReviewed(s, t, subject)
            \/ \E cited \in Citations : MergeProposed(s, t, subject, cited)

MemNext == Service \/ NextDay \/ \E s \in Shells : Shell(s)

MemSpec == MemInit /\ [][MemNext]_memVars

----------------------------------------------------------------------------
(* Properties.                                                             *)

(* The memories that took the place of a memory, directly: one of their     *)
(* versions supersedes one of its versions.                                 *)
Successors(n) ==
  {m \in Filed : \E v \in ToSet(memories[m].versions) : \E e \in v.supersedes : e[1] = n}

(* The memories that stand for n now, through any number of replacements:   *)
(* the least set with n in it and the successors of each one in it.         *)
Heirs(n) ==
  {m \in Filed : \A S \in SUBSET Filed :
                   n \in S /\ (\A k \in S : Successors(k) \subseteq S) => m \in S}

(* A person, or disuse, took it away: no successor has to stand for it.     *)
Dismissed(n) == ~Stands(n) \/ Latest(n).status = "invalid"

InPlaceOf(n) == \E m \in Heirs(n) : m \in Projected \/ Dismissed(m)

(* "Nothing was deleted": whatever is replaced is replaced by something     *)
(* that is served in its place, or was dismissed on its own account.  No    *)
(* merge, fold or correction, and no crash among its writes, leaves a claim *)
(* without a successor, whatever runs beside it, as long as no command      *)
(* retired a claim that got a version between its read and its write.       *)
NoClaimLost ==
  ~crossed => \A n \in Filed : Latest(n).status \in {"current", "superseded"} => InPlaceOf(n)

(* "A merge of a human correction and a derived claim is still a corrected  *)
(* claim", disuse is no verdict on what a person filed, and contradictions  *)
(* are folded towards it: only a person's own command takes a correction    *)
(* out of what the project is told, under the same condition.               *)
CorrectionsKept ==
  ~crossed =>
    \A n \in Filed : Claimed(n).authority = "human_correction" =>
      \E m \in Heirs(n) : /\ Claimed(m).authority = "human_correction"
                          /\ m \in Projected \/ withdrawn[m] = "forget"

(* What the memories of a project keep, together.                           *)
ClaimsKept == MemTypeOK /\ NoClaimLost /\ CorrectionsKept

(* "Contradictions folded into one current claim" (reconcile.rs:175): when  *)
(* no command is at work, a claim that was folded has one in its place.     *)
FoldedIntoOne ==
  (\A s \in Shells : command[s] = Idle) =>
    \A n \in Filed : Latest(n).status = "superseded" => InPlaceOf(n)
=============================================================================
