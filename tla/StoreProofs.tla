------------------------------ MODULE StoreProofs ------------------------------
(***************************************************************************)
(* Proofs about what the brain keeps on disk: segments, for ledgers of any *)
(* length and any number of jobs, days and interruptions, and backups, for *)
(* any number of commands, backups, failures and kills; about what a       *)
(* search of it answers, whatever is written meanwhile; and about          *)
(* memories, whatever commands change them at once and wherever one ends.  *)
(*                                                                         *)
(* An event loses its payload only once the catalog names a segment that   *)
(* was read while it still had one.  What makes this inductive is that a   *)
(* seal in progress is of a range without a row, so that what it takes     *)
(* away again on failure is nobody's evidence, and that its blanks were    *)
(* archived already, so that their rows stop it at its commit.             *)
(*                                                                         *)
(* The restore point that retention keeps is the newest directory it can   *)
(* read.  It is inductive that this one is whole and in nobody's plan: a   *)
(* plan is made of what was older then, or of old staging directories, and *)
(* what is published later is newer or was in no plan either.              *)
(*                                                                         *)
(* A search keeps its answer under the version of the database it began    *)
(* with.  It is inductive that this is still the version only of a search  *)
(* that nobody disturbed, and that such a one has read the ledger as it is.*)
(*                                                                         *)
(* The best event and the best memory are among the first two of what is   *)
(* fused, and stay there: each leads a channel of its own, whose ranks are *)
(* scores of one channel and fall; a channel of the graph holds nothing    *)
(* that was asked for; and the first of a session is within its share.     *)
(* A list that is put in order is reasoned about by how many documents go  *)
(* before one, which is its place.                                         *)
(*                                                                         *)
(* What stands for a memory is any of its heirs: a fold or a merge names   *)
(* versions that may be superseded by the time it is written.  It is       *)
(* inductive that every memory that was ever believed has an heir which    *)
(* nothing supersedes and which is current, invalid or withdrawn, and that *)
(* a command retires only versions that it superseded before.              *)
(***************************************************************************)
EXTENDS Segments, Backups, Retrieval, Memories, FiniteSetTheorems, SequenceTheorems, TLAPS

----------------------------------------------------------------------------
(* Segments.                                                                *)

Sealing == seal.at \in {"data", "verify", "manifest", "rows"}

(* A seal at work, or none.                                                 *)
SealTyped ==
  /\ Sealing \/ seal = NoSeal
  /\ seal = [at |-> seal.at, segment |-> seal.segment]

(* The range of the seal has no row of its own ...                          *)
SealIsNew == Sealing => \A e \in Catalogued : catalog[e].range # seal.segment.range

(* ... what it found blank was archived ...                                 *)
BlanksArchived == Sealing => seal.segment.blank \subseteq archived

(* ... and its files are on disk when its rows are committed.               *)
SealWritten ==
  /\ seal.at \in {"verify", "manifest", "rows"} => seal.segment \in data
  /\ seal.at = "rows" => seal.segment \in manifests

(* The catalog names no segment for an event that is blank in it.           *)
RowsWhole == \A e \in Catalogued : e \notin catalog[e].blank

Inv == SealTyped /\ SealIsNew /\ BlanksArchived /\ SealWritten /\ RowsWhole /\ EvidenceReadable

----------------------------------------------------------------------------
LEMMA InvInit == SegmentInit => Inv
BY DEF SegmentInit, Inv, SealTyped, SealIsNew, BlanksArchived, SealWritten, RowsWhole,
       EvidenceReadable, Catalogued, Sealing, NoSeal, Readable

(* Steps of the ledger, of its jobs and of the clock.                       *)
LEMMA LedgerSteps ==
  ASSUME Inv, UNCHANGED <<archived, data, manifests, catalog, seal>>
  PROVE  Inv'
BY DEF Inv, SealTyped, SealIsNew, BlanksArchived, SealWritten, RowsWhole,
       EvidenceReadable, Catalogued, Sealing, NoSeal, Readable

LEMMA BeginSealStep ==
  ASSUME Inv, NEW range \in Ranges, BeginSeal(range)
  PROVE  Inv'
BY DEF BeginSeal, ledgerVars, Inv, SealTyped, SealIsNew, BlanksArchived, SealWritten, RowsWhole,
       EvidenceReadable, Catalogued, Sealing, NoSeal, Readable

(* A seal that goes on, having written what its next step relies on.        *)
LEMMA WriteStep ==
  ASSUME Inv, WriteData \/ WriteManifest
  PROVE  Inv'
<1>1. CASE WriteData
  BY <1>1 DEF WriteData, ledgerVars, Inv, SealTyped, SealIsNew, BlanksArchived, SealWritten,
              RowsWhole, EvidenceReadable, Catalogued, Sealing, NoSeal, Readable
<1>2. CASE WriteManifest
  BY <1>2 DEF WriteManifest, ledgerVars, Inv, SealTyped, SealIsNew, BlanksArchived, SealWritten,
              RowsWhole, EvidenceReadable, Catalogued, Sealing, NoSeal, Readable
<1> QED
  BY <1>1, <1>2

(* Data that cannot be verified is removed: no row names it.                *)
LEMMA VerifyStep ==
  ASSUME Inv, VerifyData
  PROVE  Inv'
<1>1. CASE seal' = [seal EXCEPT !.at = "manifest"] /\ UNCHANGED data
  BY <1>1 DEF VerifyData, ledgerVars, Inv, SealTyped, SealIsNew, BlanksArchived, SealWritten,
              RowsWhole, EvidenceReadable, Catalogued, Sealing, NoSeal, Readable
<1>2. CASE data' = data \ {seal.segment} /\ seal' = NoSeal
  <2>1. \A e \in Catalogued : catalog[e] # seal.segment
    BY DEF VerifyData, Inv, SealIsNew, Sealing
  <2>2. UNCHANGED <<archived, manifests, catalog>>
    BY DEF VerifyData, ledgerVars
  <2>3. EvidenceReadable'
    BY <1>2, <2>1, <2>2 DEF Inv, EvidenceReadable, Catalogued, Readable
  <2> QED
    BY <1>2, <2>2, <2>3 DEF Inv, SealTyped, SealIsNew, BlanksArchived, SealWritten, RowsWhole,
                            Catalogued, Sealing, NoSeal
<1> QED
  BY <1>1, <1>2 DEF VerifyData

(* Rows are added for events that have none: none of them was blank.        *)
LEMMA CommitStep ==
  ASSUME Inv, CommitRows
  PROVE  Inv'
<1> DEFINE segment == seal.segment
           added == EventsOf(segment.range)
<1>1. seal.at = "rows" /\ Sealing /\ seal' = NoSeal
  BY DEF CommitRows, CommitsAt, Sealing
<1>2. UNCHANGED <<archived, data, manifests>>
  BY DEF CommitRows, ledgerVars
<1>3. SealTyped' /\ SealIsNew' /\ BlanksArchived' /\ SealWritten'
  BY <1>1 DEF SealTyped, SealIsNew, BlanksArchived, SealWritten, Sealing, NoSeal
<1>4. CASE CataloguedIn(segment.range) # {}
  <2>1. catalog' = catalog
    BY <1>4 DEF CommitRows
  <2> QED
    BY <1>2, <1>3, <2>1 DEF Inv, RowsWhole, EvidenceReadable, Catalogued, Readable
<1>5. CASE CataloguedIn(segment.range) = {}
  <2>1. catalog' = [e \in Catalogued \cup added |-> IF e \in added THEN segment ELSE catalog[e]]
    BY <1>5 DEF CommitRows
  <2>2. \A e \in added : e \notin Catalogued
    BY <1>5 DEF CataloguedIn
  <2>3. \A e \in added : e \notin segment.blank
    BY <1>1, <2>2 DEF Inv, BlanksArchived, EvidenceReadable
  <2>4. Readable(segment)
    BY <1>1 DEF Inv, SealWritten, Readable
  <2>5. /\ Catalogued' = Catalogued \cup added
        /\ \A e \in added : catalog'[e] = segment
        /\ \A e \in Catalogued : catalog'[e] = catalog[e]
    BY <2>1, <2>2 DEF Catalogued
  <2> HIDE DEF segment, added
  <2>6. RowsWhole'
    BY <2>3, <2>5 DEF Inv, RowsWhole
  <2>7. EvidenceReadable'
    BY <1>2, <2>3, <2>4, <2>5 DEF Inv, EvidenceReadable, Readable
  <2> QED
    BY <1>3, <2>6, <2>7 DEF Inv
<1> QED
  BY <1>4, <1>5

LEMMA InterruptStep ==
  ASSUME Inv, Interrupt
  PROVE  Inv'
BY DEF Interrupt, ledgerVars, Inv, SealTyped, SealIsNew, BlanksArchived, SealWritten, RowsWhole,
       EvidenceReadable, Catalogued, Sealing, NoSeal, Readable

(* What is blanked now was in the segment it is blanked for.                *)
LEMMA CompactStep ==
  ASSUME Inv, NEW e \in Catalogued, Compact(catalog[e])
  PROVE  Inv'
<1> DEFINE replaced == {x \in Catalogued : catalog[x] = catalog[e]}
<1>1. archived' = archived \cup replaced
  BY DEF Compact
<1>2. UNCHANGED <<data, manifests, catalog, seal>>
  BY DEF Compact
<1>3. EvidenceReadable'
  BY <1>1, <1>2 DEF Inv, EvidenceReadable, RowsWhole, Catalogued, Readable
<1>4. BlanksArchived'
  BY <1>1, <1>2 DEF Inv, BlanksArchived, Sealing
<1> QED
  BY <1>2, <1>3, <1>4 DEF Inv, SealTyped, SealIsNew, SealWritten, RowsWhole, Catalogued, Sealing,
                          NoSeal

LEMMA InvStep == Inv /\ [SegmentNext]_segmentVars => Inv'
<1> SUFFICES ASSUME Inv, [SegmentNext]_segmentVars
             PROVE  Inv'
  OBVIOUS
<1>1. CASE AppendEvent \/ Tomorrow
  BY <1>1, LedgerSteps DEF AppendEvent, Tomorrow, ledgerVars
<1>2. ASSUME NEW range \in Ranges, Enqueue(range) \/ Finish(range)
      PROVE  Inv'
  BY <1>2, LedgerSteps DEF Enqueue, Finish
<1>3. ASSUME NEW range \in Ranges, BeginSeal(range)
      PROVE  Inv'
  BY <1>3, BeginSealStep
<1>4. CASE WriteData \/ WriteManifest
  BY <1>4, WriteStep
<1>5. CASE VerifyData
  BY <1>5, VerifyStep
<1>6. CASE CommitRows
  BY <1>6, CommitStep
<1>7. CASE Interrupt
  BY <1>7, InterruptStep
<1>8. ASSUME NEW e \in Catalogued, Compact(catalog[e])
      PROVE  Inv'
  BY <1>8, CompactStep
<1>9. CASE UNCHANGED segmentVars
  BY <1>9, LedgerSteps DEF segmentVars, ledgerVars
<1> QED
  BY <1>1, <1>2, <1>3, <1>4, <1>5, <1>6, <1>7, <1>8, <1>9 DEF SegmentNext

(* What an event says can be read, in the ledger or in the segment that the *)
(* catalog names for it, however seals and compactions are interrupted and  *)
(* repeated, for ledgers of any length.                                     *)
THEOREM EvidenceStaysReadable == SegmentSpec => []EvidenceReadable
<1>1. Inv => EvidenceReadable
  BY DEF Inv
<1> QED
  BY <1>1, InvInit, InvStep, PTL DEF SegmentSpec

----------------------------------------------------------------------------
(* Backups.                                                                 *)

RunState ==
  [at : {"idle", "copy", "inventory", "publish", "retain", "remove", "restoring", "verifying",
         "torn"},
   point : Nat, victims : SUBSET Nat, swept : SUBSET Nat]

BackupTyped ==
  /\ events \in 0..MaxCaptured /\ hour \in 0..MaxHours
  /\ published \in BOOLEAN /\ shadowed \in BOOLEAN
  /\ \E n \in Nat : points \in [1..n -> Point]
  /\ run \in [Runs -> RunState]
  /\ \A r \in Runs : run[r].victims \subseteq Ids /\ run[r].swept \subseteq Ids

Creating(r) == run[r].at \in {"copy", "inventory", "publish"}

CopyOf(r) == points[run[r].point]

Staged(r) == Creating(r) /\ CopyOf(r).dir = "staging"

(* A backup in progress has a directory of its own, which is younger than   *)
(* what is swept for as long as it is a staging directory.                  *)
OwnDirectory ==
  /\ \A r \in Runs : Creating(r) =>
       /\ run[r].point \in Ids /\ CopyOf(r).dir # "published"
       /\ CopyOf(r).dir = "staging" => hour <= CopyOf(r).at + RunLimit
  /\ \A r, q \in Runs : Creating(r) /\ Creating(q) /\ run[r].point = run[q].point => r = q

(* It has no backup.json before all its files are copied, and one after.    *)
InventoryLast ==
  \A r \in Runs :
    /\ run[r].at \in {"copy", "inventory"} => Staged(r) /\ ~CopyOf(r).json
    /\ run[r].at = "publish" /\ Staged(r) /\ CopyOf(r).whole => CopyOf(r).json

Planned(q) == run[q].victims \cup run[q].swept

(* No retention has planned to remove it, unless it took it for a backup.   *)
CopyNotPlanned ==
  \A r \in Runs :
    run[r].at \in {"copy", "inventory"} \/ (Staged(r) /\ ~shadowed)
      => \A q \in Runs : run[r].point \notin Planned(q)

(* What is whole holds the ledger as it was at the beginning, and what is   *)
(* gone has no backup.json.                                                 *)
WholeHolds ==
  \A i \in Ids :
    /\ points[i].began <= events
    /\ points[i].whole => points[i].holds >= points[i].began
    /\ points[i].dir = "removed" => ~points[i].json

(* The newest of the backups that retention can read: whole, and in no plan.*)
Newest(n) ==
  /\ points[n].dir = "published" /\ Verified(n)
  /\ \A j \in Ids \ {n} : points[j].dir = "published" /\ points[j].json => Newer(n, j)
  /\ \A q \in Runs : n \notin Planned(q)

NewestKept ==
  IF published THEN ~shadowed => \E n \in Ids : Newest(n)
               ELSE \A i \in Ids : points[i].dir # "published"

BackupInv ==
  /\ BackupTyped /\ OwnDirectory /\ InventoryLast /\ CopyNotPlanned /\ WholeHolds /\ NewestKept
  /\ RestoredWhole

LEMMA PointFields ==
  ASSUME BackupTyped, NEW i \in Ids
  PROVE  /\ points[i] \in Point /\ i \in Nat /\ points[i].at \in Nat
         /\ points[i].began \in Nat /\ points[i].holds \in Nat
  BY BackupBoundsAssumption DEF BackupTyped, Point, Ids

LEMMA RunFields ==
  ASSUME BackupTyped, NEW r \in Runs
  PROVE  run[r] \in RunState /\ Planned(r) \subseteq Ids
  BY DEF BackupTyped, Planned

LEMMA NoRunTyped ==
  /\ NoRun \in RunState /\ NoRun.at = "idle" /\ NoRun.victims = {} /\ NoRun.swept = {}
  BY DEF NoRun, RunState

(* Of two backups one is newer, and newer is transitive.                    *)
LEMMA NewerOrder ==
  ASSUME BackupTyped, NEW i \in Ids, NEW j \in Ids, NEW k \in Ids
  PROVE  /\ i = j \/ Newer(i, j) \/ Newer(j, i)
         /\ Newer(i, j) /\ Newer(j, k) => Newer(i, k)
         /\ ~(Newer(i, j) /\ Newer(j, i)) /\ ~Newer(i, i)
  BY PointFields DEF Newer

LEMMA BackupInit_Inv == BackupInit => BackupInv
<1> SUFFICES ASSUME BackupInit PROVE BackupInv
  OBVIOUS
<1>1. points = [i \in 1..0 |-> 0] /\ Ids = {} /\ DOMAIN points = {}
  BY DEF BackupInit, Ids
<1>2. \A r \in Runs : run[r] = NoRun
  BY DEF BackupInit
<1>3. BackupTyped
  <2>1. points \in [1..0 -> Point]
    BY <1>1
  <2>2. \E n \in Nat : points \in [1..n -> Point]
    BY <2>1
  <2>3. run \in [Runs -> RunState]
    BY NoRunTyped DEF BackupInit
  <2>4. \A r \in Runs : run[r].victims \subseteq Ids /\ run[r].swept \subseteq Ids
    BY <1>2, NoRunTyped
  <2>5. events \in 0..MaxCaptured /\ hour \in 0..MaxHours
    BY BackupBoundsAssumption DEF BackupInit
  <2>6. published \in BOOLEAN /\ shadowed \in BOOLEAN
    BY DEF BackupInit
  <2> QED BY <2>2, <2>3, <2>4, <2>5, <2>6 DEF BackupTyped
<1> QED
  BY <1>1, <1>2, <1>3, NoRunTyped
     DEF BackupInit, BackupInv, OwnDirectory, InventoryLast, CopyNotPlanned, WholeHolds,
         NewestKept, RestoredWhole, Creating, Staged, Planned

----------------------------------------------------------------------------
(* Steps of a command that leave the backup root as it is: it ends, or goes *)
(* on restoring.                                                            *)
LEMMA RunMovesOn ==
  ASSUME BackupInv, NEW r \in Runs, NEW x \in RunState, run' = [run EXCEPT ![r] = x],
         x.at \notin {"copy", "inventory", "publish"},
         x.victims \subseteq run[r].victims, x.swept \subseteq run[r].swept,
         UNCHANGED <<events, points, published, shadowed, hour>>, RestoredWhole'
  PROVE  BackupInv'
<1>1. run \in [Runs -> RunState] /\ Ids' = Ids
  BY DEF BackupInv, BackupTyped, Ids
<1>2. run'[r] = x /\ \A q \in Runs \ {r} : run'[q] = run[q]
  BY <1>1
<1>3. \A q \in Runs : Planned(q)' \subseteq Planned(q) /\ (Creating(q)' => q # r /\ Creating(q))
  BY <1>2 DEF Planned, Creating
<1>4. BackupTyped'
  BY <1>1, <1>2 DEF BackupInv, BackupTyped
<1>5. OwnDirectory'
  BY <1>1, <1>2, <1>3 DEF BackupInv, OwnDirectory, Creating, CopyOf
<1>6. InventoryLast'
  BY <1>2, <1>3 DEF BackupInv, InventoryLast, Creating, CopyOf, Staged
<1>7. CopyNotPlanned'
  BY <1>2, <1>3 DEF BackupInv, CopyNotPlanned, Creating, CopyOf, Staged
<1>8. WholeHolds'
  BY <1>1 DEF BackupInv, WholeHolds
<1>9. NewestKept'
  BY <1>1, <1>3 DEF BackupInv, NewestKept, Newest, Verified, Newer
<1> QED
  BY <1>4, <1>5, <1>6, <1>7, <1>8, <1>9 DEF BackupInv

(* A command that gives up a directory: the backup it was writing, or what  *)
(* its retention had planned to remove.  The newest backup is neither.      *)
LEMMA DirectoryLost ==
  ASSUME BackupInv, NEW r \in Runs, NEW x \in RunState, run' = [run EXCEPT ![r] = x],
         x.at \notin {"copy", "inventory", "publish"},
         x.victims \subseteq run[r].victims, x.swept \subseteq run[r].swept,
         NEW i \in Ids, NEW g \in Point, points' = [points EXCEPT ![i] = g],
         ~g.whole, g.began <= points[i].began, g.json => points[i].json,
         \/ g.dir = "removed" /\ ~g.json
         \/ g.dir = points[i].dir /\ points[i].dir # "removed" /\ g.at = points[i].at,
         i \in Planned(r) \/ (Creating(r) /\ run[r].point = i),
         UNCHANGED <<events, published, shadowed, hour, restored>>
  PROVE  BackupInv'
<1>1. /\ run \in [Runs -> RunState] /\ Ids' = Ids
      /\ \E n \in Nat : points \in [1..n -> Point] /\ points' \in [1..n -> Point]
  BY DEF BackupInv, BackupTyped, Ids
<1>2. /\ run'[r] = x /\ \A q \in Runs \ {r} : run'[q] = run[q]
      /\ points'[i] = g /\ \A j \in Ids \ {i} : points'[j] = points[j]
  BY <1>1 DEF Ids
<1>3. \A q \in Runs : Planned(q)' \subseteq Planned(q) /\ (Creating(q)' => q # r /\ Creating(q))
  BY <1>2 DEF Planned, Creating
<1>4. BackupTyped'
  BY <1>1, <1>2 DEF BackupInv, BackupTyped
<1>5. OwnDirectory'
  BY <1>1, <1>2, <1>3 DEF BackupInv, OwnDirectory, Creating, CopyOf
<1>6. \A q \in Runs \ {r} : run[q].at \in {"copy", "inventory"} => run[q].point # i
  BY DEF BackupInv, OwnDirectory, CopyNotPlanned, Creating
<1>7. \A q \in Runs : Staged(q)' => Staged(q) /\ q # r /\ run'[q] = run[q]
  BY <1>2, <1>3 DEF BackupInv, OwnDirectory, Staged, CopyOf
<1>8. InventoryLast'
  <2> SUFFICES ASSUME NEW q \in Runs, Creating(q)'
               PROVE  /\ run'[q].at \in {"copy", "inventory"} => Staged(q)' /\ ~CopyOf(q).json'
                      /\ run'[q].at = "publish" /\ Staged(q)' /\ CopyOf(q).whole'
                           => CopyOf(q).json'
    BY DEF InventoryLast, Creating
  <2>1. q # r /\ run'[q] = run[q] /\ run[q].point \in Ids
    BY <1>2, <1>3 DEF BackupInv, OwnDirectory
  <2>2. CASE run[q].point = i
    BY <1>2, <1>6, <2>1, <2>2 DEF Creating, CopyOf
  <2>3. CASE run[q].point # i
    <3>1. CopyOf(q)' = CopyOf(q)
      BY <1>2, <2>1, <2>3 DEF CopyOf
    <3> QED
      BY <2>1, <3>1 DEF BackupInv, InventoryLast, Staged, Creating
  <2> QED
    BY <2>2, <2>3
<1>9. CopyNotPlanned'
  <2>1. \A q \in Runs : run'[q].at \in {"copy", "inventory"} => run'[q] = run[q]
    BY <1>2
  <2> QED
    BY <1>3, <1>7, <2>1 DEF BackupInv, CopyNotPlanned
<1>10. WholeHolds'
  <2>1. g.began \in Nat /\ events \in Nat /\ points[i].began \in Nat
    <3>1. g.began \in 0..MaxCaptured
      BY DEF Point
    <3> QED
      BY <3>1, PointFields, BackupBoundsAssumption DEF BackupInv, BackupTyped
  <2>2. g.began <= events
    BY <2>1 DEF BackupInv, WholeHolds
  <2> QED
    BY <1>1, <1>2, <2>2 DEF BackupInv, WholeHolds
<1>11. NewestKept'
  <2>1. CASE ~published
    BY <1>1, <1>2, <2>1 DEF BackupInv, NewestKept
  <2>2. CASE published /\ shadowed
    BY <2>2 DEF NewestKept
  <2>3. CASE published /\ ~shadowed
    <3>1. PICK n \in Ids : Newest(n)
      BY <2>3 DEF BackupInv, NewestKept
    <3>2. n # i
      BY <3>1 DEF BackupInv, Newest, OwnDirectory, CopyOf
    <3>3. points'[n] = points[n] /\ Verified(n)'
      BY <1>2, <3>1, <3>2 DEF Newest, Verified
    <3>4. \A j \in Ids \ {n} : points'[j].dir = "published" /\ points'[j].json => Newer(n, j)'
      BY <1>2, <3>1, <3>3 DEF Newest, Newer
    <3>5. Newest(n)'
      BY <1>1, <1>3, <3>1, <3>3, <3>4 DEF Newest
    <3> QED
      BY <1>1, <2>3, <3>5 DEF NewestKept
  <2> QED
    BY <2>1, <2>2, <2>3
<1> QED
  BY <1>4, <1>5, <1>8, <1>9, <1>10, <1>11 DEF BackupInv, RestoredWhole

LEMMA GoneTyped == Gone \in Point
  BY BackupBoundsAssumption DEF Gone, Point

----------------------------------------------------------------------------
(* create.                                                                  *)

LEMMA CopyingRun ==
  ASSUME NEW p \in Nat
  PROVE  LET x == [NoRun EXCEPT !.at = "copy", !.point = p]
         IN x \in RunState /\ x.at = "copy" /\ x.point = p /\ x.victims = {} /\ x.swept = {}
<1> DEFINE x == [NoRun EXCEPT !.at = "copy", !.point = p]
<1>1. x \in RunState
  BY NoRunTyped DEF RunState
<1>2. x.at = "copy" /\ x.point = p /\ x.victims = {} /\ x.swept = {}
  BY DEF NoRun
<1> QED
  BY <1>1, <1>2

LEMMA BeginCreateKeeps ==
  ASSUME BackupInv, NEW r \in Runs, BeginCreate(r)
  PROVE  BackupInv'
<1>1. PICK n \in Nat : points \in [1..n -> Point]
  BY DEF BackupInv, BackupTyped
<1>2. Ids = 1..n /\ Cardinality(Ids) = n
  <2>1. Ids = 1..n
    BY <1>1 DEF Ids
  <2>2. Cardinality(1..n) = n
    BY FS_Interval
  <2> QED BY <2>1, <2>2
<1> DEFINE id == n + 1
           new == [dir |-> "staging", json |-> FALSE, whole |-> FALSE, at |-> hour,
                   began |-> events, holds |-> 0]
           x == [NoRun EXCEPT !.at = "copy", !.point = id]
<1>3. new \in Point /\ hour \in Nat /\ events \in Nat
  BY BackupBoundsAssumption DEF BackupInv, BackupTyped, Point
<1>4. /\ x \in RunState /\ x.at = "copy" /\ x.point = id /\ x.victims = {} /\ x.swept = {}
      /\ run' = [run EXCEPT ![r] = x]
      /\ points' = [i \in 1..(n + 1) |-> IF i = id THEN new ELSE points[i]]
      /\ UNCHANGED <<events, present, published, shadowed, restored, leftovers, hour, faults>>
  <2>1. Ids \cup {id} = 1..(n + 1)
    BY <1>2
  <2>2. x \in RunState /\ x.at = "copy" /\ x.point = id /\ x.victims = {} /\ x.swept = {}
    <3>1. id \in Nat
      OBVIOUS
    <3> HIDE DEF id
    <3> QED BY <3>1, CopyingRun
  <2>3. run' = [run EXCEPT ![r] = x]
    BY <1>2 DEF BeginCreate
  <2>4. points' = [i \in 1..(n + 1) |-> IF i = id THEN new ELSE points[i]]
    BY <1>2, <2>1 DEF BeginCreate
  <2> QED
    BY <2>2, <2>3, <2>4 DEF BeginCreate, restoreVars
<1>5. /\ id \notin Ids /\ Ids' = 1..(n + 1) /\ Ids' = Ids \cup {id}
      /\ points'[id] = new /\ \A i \in Ids : points'[i] = points[i]
  BY <1>2, <1>4 DEF Ids
<1>6. run \in [Runs -> RunState] /\ run'[r] = x /\ \A q \in Runs \ {r} : run'[q] = run[q]
  BY <1>4 DEF BackupInv, BackupTyped
<1>7. new.dir = "staging" /\ ~new.json /\ ~new.whole /\ new.at = hour /\ new.began = events
  OBVIOUS
<1> HIDE DEF id, new, x
<1>8. \A q \in Runs : Planned(q)' \subseteq Planned(q) /\ id \notin Planned(q)
  BY <1>4, <1>5, <1>6, RunFields DEF BackupInv, Planned
<1>9. BackupTyped'
  <2>1. n + 1 \in Nat /\ points' \in [1..(n + 1) -> Point]
    <3>1. \A i \in 1..(n + 1) : points'[i] \in Point
      BY <1>1, <1>2, <1>3, <1>5
    <3> QED BY <1>4, <3>1
  <2>2. \A q \in Runs : run'[q].victims \subseteq Ids' /\ run'[q].swept \subseteq Ids'
    BY <1>4, <1>5, <1>6 DEF BackupInv, BackupTyped
  <2> QED
    BY <1>4, <1>6, <2>1, <2>2 DEF BackupInv, BackupTyped
<1>10. OwnDirectory'
  <2>1. \A q \in Runs \ {r} : Creating(q)' => Creating(q) /\ run'[q].point = run[q].point
          /\ run[q].point \in Ids /\ CopyOf(q)' = CopyOf(q)
    BY <1>5, <1>6 DEF BackupInv, OwnDirectory, Creating, CopyOf
  <2>2. CopyOf(r)' = new /\ run'[r].point = id
    BY <1>4, <1>5, <1>6 DEF CopyOf
  <2>3. hour <= hour + RunLimit
    BY <1>3, AgesAssumption
  <2> QED
    BY <1>4, <1>5, <1>7, <2>1, <2>2, <2>3 DEF BackupInv, OwnDirectory
<1>11. InventoryLast' /\ CopyNotPlanned'
  <2>1. \A q \in Runs \ {r} : Creating(q)' => Creating(q) /\ run'[q] = run[q]
          /\ CopyOf(q)' = CopyOf(q)
    BY <1>5, <1>6 DEF BackupInv, OwnDirectory, Creating, CopyOf
  <2>2. CopyOf(r)' = new /\ run'[r].point = id /\ run'[r].at = "copy"
    BY <1>4, <1>5, <1>6 DEF CopyOf
  <2>3. InventoryLast'
    BY <1>6, <1>7, <2>1, <2>2 DEF BackupInv, InventoryLast, Staged, Creating
  <2>4. CopyNotPlanned'
    BY <1>4, <1>6, <1>8, <2>1, <2>2 DEF BackupInv, CopyNotPlanned, Staged, Creating
  <2> QED BY <2>3, <2>4
<1>12. WholeHolds'
  BY <1>3, <1>4, <1>5, <1>7 DEF BackupInv, WholeHolds
<1>13. NewestKept'
  <2>1. CASE ~published
    BY <1>4, <1>5, <1>7, <2>1 DEF BackupInv, NewestKept
  <2>2. CASE published /\ ~shadowed
    <3>1. PICK m \in Ids : Newest(m)
      BY <2>2 DEF BackupInv, NewestKept
    <3>2. Newest(m)'
      BY <1>5, <1>7, <1>8, <3>1 DEF Newest, Verified, Newer
    <3> QED
      BY <1>4, <1>5, <2>2, <3>2 DEF NewestKept
  <2> QED
    BY <1>4, <2>1, <2>2 DEF NewestKept
<1> QED
  BY <1>4, <1>9, <1>10, <1>11, <1>12, <1>13 DEF BackupInv, RestoredWhole

(* A backup that goes on: its own directory gains its files or its          *)
(* backup.json.                                                             *)
LEMMA CopyGoesOn ==
  ASSUME BackupInv, NEW r \in Runs, NEW x \in RunState, run' = [run EXCEPT ![r] = x],
         Creating(r), Staged(r), x.at \in {"inventory", "publish"}, x.point = run[r].point,
         x.victims = run[r].victims, x.swept = run[r].swept,
         NEW g \in Point, points' = [points EXCEPT ![run[r].point] = g],
         g.dir = "staging", g.at = CopyOf(r).at, g.began = CopyOf(r).began,
         g.whole => g.holds >= g.began,
         IF x.at = "inventory" THEN ~g.json ELSE g.json,
         run[r].at \in {"copy", "inventory"},
         UNCHANGED <<events, published, shadowed, hour, restored>>
  PROVE  BackupInv'
<1> DEFINE i == run[r].point
<1>1. i \in Ids
  BY DEF BackupInv, OwnDirectory
<1>2. /\ run \in [Runs -> RunState] /\ Ids' = Ids
      /\ \E n \in Nat : points \in [1..n -> Point] /\ points' \in [1..n -> Point]
  BY <1>1 DEF BackupInv, BackupTyped, Ids
<1>3. /\ run'[r] = x /\ \A q \in Runs \ {r} : run'[q] = run[q]
      /\ points'[i] = g /\ \A j \in Ids \ {i} : points'[j] = points[j]
  BY <1>1, <1>2 DEF Ids
<1>4. \A q \in Runs : Planned(q)' = Planned(q)
  BY <1>3 DEF Planned
<1>5. \A q \in Runs : Creating(q)' => Creating(q) /\ run'[q].point = run[q].point
  BY <1>3 DEF Creating
<1>6. \A q \in Runs \ {r} : Creating(q) => run[q].point # i /\ CopyOf(q)' = CopyOf(q)
  BY <1>3 DEF BackupInv, OwnDirectory, CopyOf
<1>7. CopyOf(r)' = g
  BY <1>3 DEF CopyOf
<1>8. BackupTyped'
  BY <1>2, <1>3 DEF BackupInv, BackupTyped
<1>9. OwnDirectory'
  <2>1. \A q \in Runs : Creating(q)' =>
          /\ run'[q].point \in Ids' /\ CopyOf(q)'.dir # "published"
          /\ CopyOf(q)'.dir = "staging" => hour <= CopyOf(q)'.at + RunLimit
    BY <1>1, <1>2, <1>5, <1>6, <1>7 DEF BackupInv, OwnDirectory, Staged
  <2> QED
    BY <1>5, <2>1 DEF BackupInv, OwnDirectory
<1>10. InventoryLast'
  BY <1>3, <1>5, <1>6, <1>7 DEF BackupInv, InventoryLast, Staged, Creating
<1>11. CopyNotPlanned'
  <2>1. \A q \in Runs : i \notin Planned(q)
    BY DEF BackupInv, CopyNotPlanned
  <2>2. \A q \in Runs \ {r} : Creating(q)' => (Staged(q)' <=> Staged(q))
    BY <1>3, <1>5, <1>6 DEF Staged
  <2> QED
    BY <1>3, <1>4, <1>5, <2>1, <2>2 DEF BackupInv, CopyNotPlanned, Creating, Staged
<1>12. WholeHolds'
  BY <1>1, <1>2, <1>3 DEF BackupInv, WholeHolds, CopyOf
<1>13. NewestKept'
  <2>1. CASE ~published
    BY <1>2, <1>3, <2>1 DEF BackupInv, NewestKept
  <2>2. CASE published /\ ~shadowed
    <3>1. PICK m \in Ids : Newest(m)
      BY <2>2 DEF BackupInv, NewestKept
    <3>2. m # i
      BY <3>1 DEF Newest, Staged, CopyOf
    <3>3. Newest(m)'
      BY <1>2, <1>3, <1>4, <3>1, <3>2 DEF Newest, Verified, Newer
    <3> QED
      BY <1>2, <2>2, <3>3 DEF NewestKept
  <2> QED
    BY <2>1, <2>2 DEF NewestKept
<1> QED
  BY <1>8, <1>9, <1>10, <1>11, <1>12, <1>13 DEF BackupInv, RestoredWhole

LEMMA CopyKeeps ==
  ASSUME BackupInv, NEW r \in Runs, CopyFiles(r) \/ WriteInventory(r)
  PROVE  BackupInv'
<1>1. /\ run[r].at \in {"copy", "inventory"} /\ Creating(r) /\ Staged(r) /\ ~CopyOf(r).json
      /\ run[r].point \in Ids
  BY DEF CopyFiles, WriteInventory, Creating, BackupInv, InventoryLast, OwnDirectory
<1>2. /\ run[r] \in RunState /\ CopyOf(r) \in Point /\ run \in [Runs -> RunState]
      /\ CopyOf(r).began <= events /\ (CopyOf(r).whole => CopyOf(r).holds >= CopyOf(r).began)
      /\ events \in 0..MaxCaptured
  BY <1>1, PointFields DEF BackupInv, BackupTyped, CopyOf, WholeHolds
<1>3. CASE CopyFiles(r)
  <2> DEFINE x == [run[r] EXCEPT !.at = "inventory"]
             g == [CopyOf(r) EXCEPT !.whole = TRUE, !.holds = events]
  <2>1. /\ run' = [run EXCEPT ![r] = x] /\ points' = [points EXCEPT ![run[r].point] = g]
        /\ UNCHANGED <<events, published, shadowed, hour, restored>>
    BY <1>3 DEF CopyFiles, Goto, CopyOf, restoreVars
  <2>2. /\ x \in RunState /\ x.at = "inventory" /\ x.point = run[r].point
        /\ x.victims = run[r].victims /\ x.swept = run[r].swept
    BY <1>2 DEF RunState
  <2>3. /\ g \in Point /\ g.dir = "staging" /\ g.at = CopyOf(r).at /\ g.began = CopyOf(r).began
        /\ g.holds >= g.began /\ ~g.json
    BY <1>1, <1>2, BackupBoundsAssumption DEF Point, Staged
  <2> HIDE DEF x, g
  <2> QED
    BY <1>1, <2>1, <2>2, <2>3, CopyGoesOn
<1>4. CASE WriteInventory(r)
  <2> DEFINE x == [run[r] EXCEPT !.at = "publish"]
             g == [CopyOf(r) EXCEPT !.json = TRUE]
  <2>1. /\ run' = [run EXCEPT ![r] = x] /\ points' = [points EXCEPT ![run[r].point] = g]
        /\ UNCHANGED <<events, published, shadowed, hour, restored>>
    BY <1>4 DEF WriteInventory, Goto, CopyOf, restoreVars
  <2>2. /\ x \in RunState /\ x.at = "publish" /\ x.point = run[r].point
        /\ x.victims = run[r].victims /\ x.swept = run[r].swept
    BY <1>2 DEF RunState
  <2>3. /\ g \in Point /\ g.dir = "staging" /\ g.at = CopyOf(r).at /\ g.began = CopyOf(r).began
        /\ (g.whole => g.holds >= g.began) /\ g.json
    BY <1>1, <1>2 DEF Point, Staged
  <2> HIDE DEF x, g
  <2> QED
    BY <1>1, <2>1, <2>2, <2>3, CopyGoesOn
<1> QED
  BY <1>3, <1>4

(* What is published is the newest, or the newest stays the newest.         *)
LEMMA PublishKeeps ==
  ASSUME BackupInv, NEW r \in Runs, Publish(r)
  PROVE  BackupInv'
<1>0. PICK i \in Ids : i = run[r].point
  BY DEF Publish, Creating, BackupInv, OwnDirectory
<1> DEFINE x == IF r = "maintain" THEN [run[r] EXCEPT !.at = "retain"] ELSE NoRun
           g == [CopyOf(r) EXCEPT !.dir = "published"]
<1>1. /\ run[r].at = "publish" /\ Creating(r) /\ Staged(r) /\ i \in Ids
      /\ CopyOf(r).whole /\ CopyOf(r).json
  BY <1>0 DEF Publish, Creating, Staged, CopyOf, BackupInv, InventoryLast, OwnDirectory
<1>2. /\ points' = [points EXCEPT ![i] = g] /\ published' = TRUE
      /\ run' = [run EXCEPT ![r] = x]
      /\ UNCHANGED <<events, shadowed, hour, restored>>
  BY <1>0 DEF Publish, CopyOf, restoreVars
<1>3. run[r] \in RunState /\ CopyOf(r) \in Point /\ run \in [Runs -> RunState]
  BY <1>0, <1>1, PointFields DEF BackupInv, BackupTyped, CopyOf
<1>4. /\ x \in RunState /\ x.at \in {"idle", "retain"}
      /\ x.victims \subseteq run[r].victims /\ x.swept \subseteq run[r].swept
  BY <1>3, NoRunTyped DEF RunState
<1>5. /\ g \in Point /\ g.dir = "published" /\ g.whole /\ g.json /\ g.at = CopyOf(r).at
      /\ g.began = CopyOf(r).began /\ g.holds = CopyOf(r).holds
  BY <1>0, <1>1, <1>3 DEF Point
<1> HIDE DEF x, g
<1>6. /\ Ids' = Ids
      /\ \E n \in Nat : points \in [1..n -> Point] /\ points' \in [1..n -> Point]
  BY <1>0, <1>1, <1>2, <1>5 DEF BackupInv, BackupTyped, Ids
<1>7. /\ run'[r] = x /\ \A q \in Runs \ {r} : run'[q] = run[q]
      /\ points'[i] = g /\ \A j \in Ids \ {i} : points'[j] = points[j]
  BY <1>0, <1>1, <1>2, <1>3, <1>6 DEF Ids
<1>8. \A q \in Runs : Planned(q)' \subseteq Planned(q) /\ (Creating(q)' => q # r /\ Creating(q))
  BY <1>4, <1>7 DEF Planned, Creating
<1>9. \A q \in Runs \ {r} : Creating(q) => run[q].point # i /\ CopyOf(q)' = CopyOf(q)
  BY <1>0, <1>1, <1>7 DEF BackupInv, OwnDirectory, CopyOf
<1>10. BackupTyped'
  BY <1>2, <1>3, <1>4, <1>6, <1>7 DEF BackupInv, BackupTyped
<1>11. OwnDirectory'
  BY <1>2, <1>6, <1>7, <1>8, <1>9 DEF BackupInv, OwnDirectory
<1>12. InventoryLast'
  BY <1>7, <1>8, <1>9 DEF BackupInv, InventoryLast, Staged, Creating
<1>13. CopyNotPlanned'
  BY <1>2, <1>7, <1>8, <1>9 DEF BackupInv, CopyNotPlanned, Staged, Creating
<1>14. WholeHolds'
  BY <1>0, <1>1, <1>2, <1>5, <1>6, <1>7 DEF BackupInv, WholeHolds, CopyOf
<1>15. NewestKept'
  <2> SUFFICES ASSUME ~shadowed PROVE \E n \in Ids : Newest(n)'
    BY <1>2, <1>6 DEF NewestKept
  <2>1. \A q \in Runs : i \notin Planned(q)'
    BY <1>0, <1>1, <1>8 DEF BackupInv, CopyNotPlanned
  <2>2. \A j, k \in Ids : Newer(j, k)' <=> Newer(j, k)
    BY <1>0, <1>5, <1>7 DEF Newer, CopyOf
  <2>3. Verified(i)' /\ points'[i].dir = "published"
    BY <1>0, <1>1, <1>5, <1>7 DEF Verified
  <2>4. CASE \A j \in Ids \ {i} : points[j].dir = "published" /\ points[j].json => Newer(i, j)
    <3>1. Newest(i)'
      BY <1>0, <1>1, <1>6, <1>7, <2>1, <2>2, <2>3, <2>4 DEF Newest
    <3> QED BY <1>0, <1>1, <3>1
  <2>5. CASE published /\ \E j \in Ids \ {i} :
               points[j].dir = "published" /\ points[j].json /\ ~Newer(i, j)
    <3>1. PICK n \in Ids : Newest(n)
      BY <2>5 DEF BackupInv, NewestKept
    <3>2. PICK j \in Ids \ {i} : points[j].dir = "published" /\ points[j].json /\ ~Newer(i, j)
      BY <2>5
    <3>3. n # i
      BY <1>0, <1>1, <3>1 DEF Newest, Staged, CopyOf
    <3>4. Newer(n, i)
      <4>1. Newer(j, i)
        BY <1>0, <1>1, <3>2, NewerOrder DEF BackupInv
      <4>2. n = j \/ Newer(n, j)
        BY <3>1, <3>2 DEF Newest
      <4> QED
        BY <1>0, <1>1, <3>2, <4>1, <4>2, NewerOrder DEF BackupInv
    <3>5. \A k \in Ids \ {n} : points'[k].dir = "published" /\ points'[k].json => Newer(n, k)'
      BY <1>7, <2>2, <3>1, <3>4 DEF Newest
    <3>6. Newest(n)'
      BY <1>6, <1>7, <1>8, <3>1, <3>3, <3>5 DEF Newest, Verified
    <3> QED BY <3>6
  <2>6. CASE ~published
    <3>1. \A j \in Ids : points[j].dir # "published"
      BY <2>6 DEF BackupInv, NewestKept
    <3> QED BY <2>4, <3>1
  <2> QED
    BY <2>4, <2>5, <2>6
<1> QED
  BY <1>2, <1>10, <1>11, <1>12, <1>13, <1>14, <1>15 DEF BackupInv, RestoredWhole

LEMMA FailCreateKeeps ==
  ASSUME BackupInv, NEW r \in Runs, FailCreate(r)
  PROVE  BackupInv'
<1>1. /\ Creating(r) /\ run[r].point \in Ids
      /\ points' = [points EXCEPT ![run[r].point] = Gone]
      /\ run' = [run EXCEPT ![r] = NoRun]
      /\ UNCHANGED <<events, published, shadowed, hour, restored>>
  BY DEF FailCreate, Creating, Removed, BackupInv, OwnDirectory, restoreVars
<1>2. Gone.began <= points[run[r].point].began
  BY <1>1, PointFields DEF Gone, BackupInv
<1>3. ~Gone.whole /\ ~Gone.json /\ Gone.dir = "removed"
  BY DEF Gone
<1> QED
  BY <1>1, <1>2, <1>3, GoneTyped, NoRunTyped, DirectoryLost

----------------------------------------------------------------------------
(* apply_retention.                                                         *)

(* The newest of the points is always among those it retains.               *)
LEMMA NewestRetained ==
  ASSUME NEW ps, NEW n \in ps, \A j \in ps : ~Newer(j, n), NEW policy \in Policies
  PROVE  n \in Retained(ps, policy)
<1>1. {j \in ps : Newer(j, n)} = {}
  OBVIOUS
<1>2. policy.hourly \in Nat \ {0}
  BY PoliciesAssumption
<1>3. FirstOfIts(ps, n, 1, policy.hourly)
  <2> DEFINE earlier == {j \in ps : Newer(j, n)}
             slots == {points[j].at \div 1 : j \in earlier}
  <2>1. slots = {} /\ earlier = {}
    BY <1>1
  <2>2. Cardinality(slots) = 0
    BY <2>1, FS_EmptySet
  <2>3. Cardinality(slots) < policy.hourly
    BY <1>2, <2>2
  <2> QED
    BY <2>1, <2>3 DEF FirstOfIts
<1> QED
  BY <1>3 DEF Retained

LEMMA PlanKeeps ==
  ASSUME BackupInv, NEW r \in Runs, NEW policy \in Policies, Plan(r, policy)
  PROVE  BackupInv'
<1> DEFINE victims == ReadablePoints \ Retained(ReadablePoints, policy)
           swept == {i \in Ids : Abandoned(i)}
           x == [NoRun EXCEPT !.at = "remove", !.victims = victims, !.swept = swept]
<1>1. /\ run' = [run EXCEPT ![r] = x]
      /\ shadowed' = (shadowed \/ \E i \in ReadablePoints : points[i].dir = "staging")
      /\ UNCHANGED <<events, points, published, hour, restored>>
  BY DEF Plan, restoreVars
<1>2. Ids' = Ids /\ run \in [Runs -> RunState] /\ Ids \subseteq Nat
  BY <1>1, PointFields DEF BackupInv, BackupTyped, Ids
<1>3. victims \subseteq Ids /\ swept \subseteq Ids
  BY DEF ReadablePoints
<1>4. x \in RunState /\ x.at = "remove" /\ x.victims = victims /\ x.swept = swept
  BY <1>2, <1>3 DEF RunState, NoRun
<1> HIDE DEF x, victims, swept
<1>5. run'[r] = x /\ \A q \in Runs \ {r} : run'[q] = run[q]
  BY <1>1, <1>2
<1>6. \A q \in Runs : Creating(q)' => q # r /\ Creating(q) /\ CopyOf(q)' = CopyOf(q)
  BY <1>1, <1>4, <1>5 DEF Creating, CopyOf
<1>7. BackupTyped'
  BY <1>1, <1>2, <1>3, <1>4, <1>5 DEF BackupInv, BackupTyped
<1>8. OwnDirectory'
  BY <1>1, <1>2, <1>5, <1>6 DEF BackupInv, OwnDirectory
<1>9. InventoryLast'
  BY <1>4, <1>5, <1>6 DEF BackupInv, InventoryLast, Staged, Creating
<1>10. CopyNotPlanned'
  <2> SUFFICES ASSUME NEW q \in Runs, NEW p \in Runs,
                      run'[q].at \in {"copy", "inventory"} \/ (Staged(q)' /\ ~shadowed')
               PROVE  run'[q].point \notin Planned(p)'
    BY DEF CopyNotPlanned
  <2> DEFINE i == run[q].point
  <2>1. /\ q # r /\ Creating(q) /\ run'[q] = run[q] /\ Staged(q) /\ i \in Ids
        /\ run[q].at \in {"copy", "inventory"} \/ (Staged(q) /\ ~shadowed)
    BY <1>1, <1>4, <1>5, <1>6 DEF BackupInv, InventoryLast, OwnDirectory, Creating, Staged
  <2>2. CASE p # r
    BY <1>5, <2>1, <2>2 DEF BackupInv, CopyNotPlanned, Planned
  <2>3. CASE p = r
    <3>1. hour <= points[i].at + RunLimit /\ points[i].at \in Nat /\ hour \in Nat
      BY <2>1, PointFields, BackupBoundsAssumption
         DEF BackupInv, BackupTyped, OwnDirectory, Staged, CopyOf
    <3>2. ~Abandoned(i)
      BY <3>1, AgesAssumption DEF Abandoned
    <3>3. i \notin swept
      BY <3>2 DEF swept
    <3>4. i \notin victims
      <4>1. CASE run[q].at \in {"copy", "inventory"}
        BY <4>1 DEF BackupInv, InventoryLast, CopyOf, victims, ReadablePoints
      <4>2. CASE ~shadowed'
        BY <1>1, <2>1, <4>2 DEF Staged, CopyOf, victims
      <4> QED
        BY <2>1, <1>5, <4>1, <4>2
    <3> QED
      BY <1>4, <1>5, <2>1, <2>3, <3>3, <3>4 DEF Planned
  <2> QED
    BY <2>2, <2>3
<1>11. WholeHolds'
  BY <1>1, <1>2 DEF BackupInv, WholeHolds
<1>12. NewestKept'
  <2>1. CASE ~published
    BY <1>1, <1>2, <2>1 DEF BackupInv, NewestKept
  <2>2. CASE published /\ ~shadowed'
    <3>1. PICK n \in Ids : Newest(n)
      BY <1>1, <2>2 DEF BackupInv, NewestKept
    <3>2. ReadablePoints \subseteq {j \in Ids : points[j].dir = "published" /\ points[j].json}
      <4> SUFFICES ASSUME NEW j \in ReadablePoints PROVE points[j].dir = "published"
        BY DEF ReadablePoints
      <4>1. j \in Ids /\ points[j].json /\ points[j].dir # "staging"
        BY <1>1, <2>2 DEF ReadablePoints
      <4>2. points[j].dir # "removed" /\ points[j] \in Point
        BY <4>1, PointFields DEF BackupInv, WholeHolds
      <4> QED
        BY <4>1, <4>2 DEF Point
    <3>3. n \in ReadablePoints /\ n \notin swept
      BY <3>1 DEF Newest, Verified, ReadablePoints, Abandoned, swept
    <3>4. \A j \in ReadablePoints : ~Newer(j, n)
      BY <3>1, <3>2, NewerOrder DEF Newest, BackupInv
    <3>5. n \notin victims
      BY <3>3, <3>4, NewestRetained DEF victims
    <3>6. \A q \in Runs : n \notin Planned(q)'
      BY <1>4, <1>5, <3>1, <3>3, <3>5 DEF Newest, Planned
    <3>7. Newest(n)'
      BY <1>1, <1>2, <3>1, <3>6 DEF Newest, Verified, Newer
    <3> QED
      BY <1>1, <1>2, <2>2, <3>7 DEF NewestKept
  <2> QED
    BY <1>1, <2>1, <2>2 DEF NewestKept
<1> QED
  BY <1>1, <1>7, <1>8, <1>9, <1>10, <1>11, <1>12 DEF BackupInv, RestoredWhole

LEMMA RemoveNextKeeps ==
  ASSUME BackupInv, NEW r \in Runs, RemoveNext(r)
  PROVE  BackupInv'
<1>1. /\ run[r].at = "remove" /\ UNCHANGED <<events, published, shadowed, hour, restored>>
      /\ run[r] \in RunState /\ run \in [Runs -> RunState] /\ Planned(r) \subseteq Ids
  BY RunFields DEF RemoveNext, restoreVars, BackupInv, BackupTyped
<1>2. CASE run' = [run EXCEPT ![r] = NoRun] /\ UNCHANGED points
  BY <1>1, <1>2, NoRunTyped, RunMovesOn DEF BackupInv, RestoredWhole
<1>3. ASSUME NEW i \in Planned(r), points[i].dir # "removed", points' = Removed(i),
             run' = [run EXCEPT ![r].victims = @ \ {i}, ![r].swept = @ \ {i}]
      PROVE  BackupInv'
  <2> DEFINE x == [run[r] EXCEPT !.victims = @ \ {i}, !.swept = @ \ {i}]
  <2>1. /\ run' = [run EXCEPT ![r] = x] /\ x \in RunState /\ x.at = "remove"
        /\ x.victims \subseteq run[r].victims /\ x.swept \subseteq run[r].swept
    BY <1>1, <1>3 DEF RunState
  <2>2. Gone.began <= points[i].began /\ ~Gone.whole /\ ~Gone.json /\ Gone.dir = "removed"
    BY <1>1, PointFields DEF Gone, BackupInv
  <2> HIDE DEF x
  <2> QED
    BY <1>1, <1>3, <2>1, <2>2, GoneTyped, DirectoryLost DEF Removed
<1> QED
  BY <1>2, <1>3 DEF RemoveNext, Planned

LEMMA TearKeeps ==
  ASSUME BackupInv, NEW r \in Runs, TearPoint(r)
  PROVE  BackupInv'
<1>1. PICK i \in Planned(r), json \in BOOLEAN :
        /\ points[i].dir # "removed"
        /\ points' = [points EXCEPT ![i].whole = FALSE, ![i].json = @ /\ json]
  BY DEF TearPoint, Planned
<1>2. i \in Ids /\ points[i] \in Point
  BY RunFields, PointFields DEF BackupInv
<1> DEFINE g == [points[i] EXCEPT !.whole = FALSE, !.json = @ /\ json]
<1>3. /\ g \in Point /\ ~g.whole /\ g.began = points[i].began /\ (g.json => points[i].json)
      /\ g.dir = points[i].dir /\ g.at = points[i].at
  BY <1>2 DEF Point
<1>4. points' = [points EXCEPT ![i] = g]
  BY <1>1, <1>2 DEF BackupInv, BackupTyped, Ids
<1>5. points[i].began \in Nat
  BY <1>2, PointFields DEF BackupInv
<1> HIDE DEF g
<1>6. run' = [run EXCEPT ![r] = NoRun] /\ UNCHANGED <<events, published, shadowed, hour, restored>>
  BY DEF TearPoint, restoreVars
<1>7. g.began <= points[i].began
  BY <1>3, <1>5
<1> QED
  BY <1>1, <1>2, <1>3, <1>4, <1>6, <1>7, NoRunTyped, DirectoryLost

----------------------------------------------------------------------------
(* Restores, kills, the brain and the clock.                                *)

LEMMA RestoreKeeps ==
  ASSUME BackupInv, NEW r \in Runs, Restore(r) \/ Kill(r)
  PROVE  BackupInv'
<1>1. run[r] \in RunState /\ run \in [Runs -> RunState] /\ restored # "partial"
  BY RunFields DEF BackupInv, BackupTyped, RestoredWhole
<1>2. ASSUME NEW i \in Ids, BeginRestore(r, i) PROVE BackupInv'
  <2> DEFINE x == [NoRun EXCEPT !.at = "restoring", !.point = i]
  <2>1. i \in Nat
    BY PointFields DEF BackupInv
  <2>2. /\ x \in RunState /\ x.at = "restoring" /\ x.victims = {} /\ x.swept = {}
        /\ run' = [run EXCEPT ![r] = x]
        /\ UNCHANGED <<events, points, published, shadowed, hour, restored>>
    BY <1>2, <2>1 DEF BeginRestore, RunState, NoRun, rootVars
  <2> HIDE DEF x
  <2> QED BY <1>1, <2>2, RunMovesOn DEF RestoredWhole
<1>3. CASE CopyBack(r)
  <2>1. PICK at \in {"verifying", "torn"} :
          /\ run' = [run EXCEPT ![r].at = at]
          /\ UNCHANGED <<events, points, published, shadowed, hour, restored>>
    BY <1>3 DEF CopyBack, Goto, rootVars
  <2> DEFINE x == [run[r] EXCEPT !.at = at]
  <2>2. /\ x \in RunState /\ x.at = at /\ x.victims = run[r].victims /\ x.swept = run[r].swept
        /\ run' = [run EXCEPT ![r] = x]
    BY <1>1, <2>1 DEF RunState
  <2> HIDE DEF x
  <2> QED BY <1>1, <2>1, <2>2, RunMovesOn DEF RestoredWhole
<1>4. ASSUME NEW drill \in BOOLEAN, FinishRestore(r, drill) PROVE BackupInv'
  <2>1. /\ run' = [run EXCEPT ![r] = NoRun] /\ RestoredWhole'
        /\ UNCHANGED <<events, points, published, shadowed, hour>>
    BY <1>4 DEF FinishRestore, TreeVerified, RestoredWhole, rootVars
  <2> QED BY <2>1, NoRunTyped, RunMovesOn
<1>5. CASE FailRestore(r) \/ Kill(r)
  <2>1. /\ run' = [run EXCEPT ![r] = NoRun]
        /\ UNCHANGED <<events, points, published, shadowed, hour, restored>>
    BY <1>5 DEF FailRestore, Kill, rootVars, restoreVars
  <2> QED BY <1>1, <2>1, NoRunTyped, RunMovesOn DEF RestoredWhole
<1> QED
  BY <1>2, <1>3, <1>4, <1>5 DEF Restore

(* Events come, the ledger's file comes and goes, and time passes only as   *)
(* long as no backup is past its limit.                                     *)
LEMMA WorldKeeps ==
  ASSUME BackupInv, Capture \/ LoseLedger \/ FindLedger \/ Tick \/ UNCHANGED backupVars
  PROVE  BackupInv'
<1>1. /\ UNCHANGED <<points, run, published, shadowed, restored>> /\ Ids' = Ids
      /\ events' \in {events, events + 1} /\ hour' \in {hour, hour + 1}
      /\ events' \in 0..MaxCaptured /\ hour' \in 0..MaxHours
  BY BackupBoundsAssumption
     DEF Capture, LoseLedger, FindLedger, Tick, backupVars, rootVars, restoreVars, Ids,
         BackupInv, BackupTyped
<1>2. \A r \in Runs : hour' # hour /\ Creating(r) => hour < CopyOf(r).at + RunLimit
  BY DEF Capture, LoseLedger, FindLedger, Tick, backupVars, Creating, CopyOf
<1>3. BackupTyped'
  BY <1>1 DEF BackupInv, BackupTyped
<1>4. OwnDirectory'
  <2>1. \A r \in Runs : Creating(r) =>
          (CopyOf(r).dir = "staging" => hour' <= CopyOf(r).at + RunLimit)
    <3> SUFFICES ASSUME NEW r \in Runs, Creating(r), CopyOf(r).dir = "staging"
                 PROVE  hour' <= CopyOf(r).at + RunLimit
      OBVIOUS
    <3>1. CopyOf(r).at \in Nat /\ hour \in Nat /\ RunLimit \in Nat
      BY PointFields, AgesAssumption, BackupBoundsAssumption
         DEF BackupInv, BackupTyped, OwnDirectory, CopyOf
    <3>2. hour <= CopyOf(r).at + RunLimit
      BY DEF BackupInv, OwnDirectory
    <3> QED BY <1>1, <1>2, <3>1, <3>2
  <2> QED
    BY <1>1, <2>1 DEF BackupInv, OwnDirectory, Creating, CopyOf
<1>5. InventoryLast' /\ CopyNotPlanned' /\ NewestKept' /\ RestoredWhole'
  BY <1>1 DEF BackupInv, InventoryLast, CopyNotPlanned, NewestKept, Newest, Newer, Verified,
              RestoredWhole, Creating, Staged, CopyOf, Planned
<1>6. WholeHolds'
  <2>1. events \in Nat /\ \A i \in Ids : points[i].began \in Nat
    BY PointFields, BackupBoundsAssumption DEF BackupInv, BackupTyped
  <2> QED
    BY <1>1, <2>1 DEF BackupInv, WholeHolds
<1> QED
  BY <1>3, <1>4, <1>5, <1>6 DEF BackupInv

LEMMA BackupNext_Inv == BackupInv /\ [BackupNext]_backupVars => BackupInv'
<1> SUFFICES ASSUME BackupInv, [BackupNext]_backupVars PROVE BackupInv'
  OBVIOUS
<1>1. ASSUME NEW r \in Runs, Create(r) PROVE BackupInv'
  BY <1>1, BeginCreateKeeps, CopyKeeps, PublishKeeps, FailCreateKeeps DEF Create
<1>2. ASSUME NEW r \in Runs, Retention(r) PROVE BackupInv'
  BY <1>2, PlanKeeps, RemoveNextKeeps, TearKeeps DEF Retention, Retain, Prune
<1> QED
  BY <1>1, <1>2, RestoreKeeps, WorldKeeps DEF BackupNext

(* A published backup holds the ledger as it was when it began; once there  *)
(* was a restore point there is one, whatever retentions overlap, fail or   *)
(* are killed, unless one of them took a staging directory for a backup;    *)
(* none sweeps a backup in progress; and no restore publishes a part.  For  *)
(* any number of commands and backups, any policies and any lengths of day  *)
(* and month.                                                               *)
THEOREM BackupsStayKept == BackupSpec => []BackupsKept
<1>1. BackupInv => BackupsKept
  <2> SUFFICES ASSUME BackupInv PROVE BackupsKept
    OBVIOUS
  <2>1. BackupHoldsLedger
    BY DEF BackupInv, WholeHolds, BackupHoldsLedger
  <2>2. RestorePointKept
    BY DEF BackupInv, WholeHolds, NewestKept, Newest, Verified, RestorePointKept
  <2>3. UnfinishedKept
    BY DEF BackupInv, InventoryLast, Staged, CopyOf, UnfinishedKept
  <2> QED
    BY <2>1, <2>2, <2>3 DEF BackupInv, BackupsKept
<1> QED
  BY <1>1, BackupInit_Inv, BackupNext_Inv, PTL DEF BackupSpec

----------------------------------------------------------------------------
(* Search.                                                                  *)

(* What a search that nobody disturbs, with its vectors or without, comes   *)
(* to now.                                                                  *)
Sound(query, hits) ==
  hits = Whole(query, visible, embedded) \/ hits = Whole(query, visible, {})

Stages == {"none", "events", "memories", "vectors", "rank"}

SearchTyped ==
  /\ version \in Nat /\ cached.version \in Nat /\ cached.version <= version
  /\ cached = [version |-> cached.version, answers |-> cached.answers]
  /\ search = [at |-> search.at, query |-> search.query, byEvents |-> search.byEvents,
               byClaims |-> search.byClaims, byMeaning |-> search.byMeaning,
               quiet |-> search.quiet]
  /\ search.at \in Stages /\ search.quiet \in BOOLEAN
  /\ search.at = "none" => search = NoSearch

(* What is kept of the ledger as it is now is what a search comes to ...    *)
CacheSound ==
  cached.version = version =>
    \A q \in DOMAIN cached.answers : Sound(q, cached.answers[q])

(* ... a search knows whether the version it will keep its answer under is  *)
(* still the ledger's ...                                                   *)
KeptUnder == search # NoSearch => (search.quiet <=> cached.version = version)

(* ... and one that nobody disturbed has read the ledger as it is now.      *)
ReadSoFar ==
  search.quiet =>
    /\ search.at \in {"memories", "vectors", "rank"} =>
         search.byEvents = Matches(corpus.plain, Events, visible, Depth(search.query.limit))
    /\ search.at \in {"vectors", "rank"} =>
         search.byClaims = Matches(corpus.plain, Claims, visible, Depth(search.query.limit))
    /\ search.at = "rank" =>
         \E vectors \in {embedded, {}} :
           search.byMeaning = Matches(corpus.meaning, Documents, visible \cap vectors,
                                      Depth(search.query.limit))

SearchInv ==
  SearchTyped /\ CacheSound /\ KeptUnder /\ ReadSoFar /\ AnswersAreCurrent

(* What a search comes to depends on the words and on what is shown alone.  *)
LEMMA WholeKept ==
  ASSUME UNCHANGED corpus, NEW query, NEW shown, NEW vectors
  PROVE  Whole(query, shown, vectors)' = Whole(query, shown, vectors)
BY DEF Whole, Ranked, Depth, Linked, ExpandedHits

LEMMA DepthKept ==
  ASSUME UNCHANGED corpus, NEW limit PROVE Depth(limit)' = Depth(limit)
BY DEF Depth

(* An answer stays what it was.                                             *)
LEMMA AnswerKept ==
  ASSUME AnswersAreCurrent, UNCHANGED <<corpus, answer>> PROVE AnswersAreCurrent'
<1> SUFFICES ASSUME answer # NoAnswer, answer.quiet
             PROVE  \E vectors \in {answer.embedded, {}} :
                      answer.hits = Whole(answer.query, answer.visible, vectors)'
  BY DEF AnswersAreCurrent
<1>1. PICK vectors \in {answer.embedded, {}} :
        answer.hits = Whole(answer.query, answer.visible, vectors)
  BY DEF AnswersAreCurrent
<1>2. Whole(answer.query, answer.visible, vectors)' = Whole(answer.query, answer.visible, vectors)
  BY WholeKept
<1> QED
  BY <1>1, <1>2

LEMMA CacheKept ==
  ASSUME CacheSound, UNCHANGED <<corpus, visible, embedded, version, cached>> PROVE CacheSound'
<1> SUFFICES ASSUME cached.version = version, NEW q \in DOMAIN cached.answers
             PROVE  Sound(q, cached.answers[q])'
  BY DEF CacheSound
<1>1. Sound(q, cached.answers[q])
  BY DEF CacheSound
<1>2. Whole(q, visible, embedded)' = Whole(q, visible, embedded)
  BY WholeKept
<1>3. Whole(q, visible, {})' = Whole(q, visible, {})
  BY WholeKept
<1> QED
  BY <1>1, <1>2, <1>3 DEF Sound

----------------------------------------------------------------------------
LEMMA SearchBegins == SearchInit => SearchInv
<1> SUFFICES ASSUME SearchInit PROVE SearchInv
  OBVIOUS
<1>1. SearchTyped
  BY DEF SearchInit, SearchTyped, NoSearch, Stages
<1>2. DOMAIN cached.answers = {}
  BY DEF SearchInit
<1> QED
  BY <1>1, <1>2 DEF SearchInit, SearchInv, CacheSound, KeptUnder, ReadSoFar, AnswersAreCurrent,
                    NoSearch

LEMMA SearchKeeps == ASSUME SearchInv, Search PROVE SearchInv'
<1>1. UNCHANGED <<corpus, visible, embedded, version>>
  BY DEF Search
<1>2. cached' = Consulted /\ search = NoSearch
  BY DEF Search
<1>3. cached'.version = version /\ cached' = [version |-> cached'.version, answers |-> cached'.answers]
  BY <1>2 DEF Consulted, Valid, SearchInv, SearchTyped
<1>4. cached' = cached \/ DOMAIN cached'.answers = {}
  BY <1>2 DEF Consulted
<1>5. CacheSound'
  <2>1. CASE cached' = cached
    BY <1>1, <2>1, CacheKept DEF SearchInv
  <2>2. CASE DOMAIN cached'.answers = {}
    BY <2>2 DEF CacheSound
  <2> QED
    BY <1>4, <2>1, <2>2
<1>6. PICK query \in Queries :
        IF query \in DOMAIN Consulted.answers
        THEN answer' = Answer(query, Consulted.answers[query], TRUE) /\ UNCHANGED search
        ELSE /\ search' = [NoSearch EXCEPT !.at = "events", !.query = query]
             /\ UNCHANGED answer
  BY DEF Search
<1>7. CASE query \in DOMAIN Consulted.answers
  <2>1. answer' = Answer(query, cached.answers[query], TRUE) /\ UNCHANGED search
        /\ cached.version = version /\ query \in DOMAIN cached.answers
    <3>1. CASE Valid(cached, version)
      BY <1>6, <1>7, <3>1 DEF Consulted, Valid
    <3>2. CASE ~Valid(cached, version)
      <4>1. DOMAIN Consulted.answers = {}
        BY <3>2 DEF Consulted
      <4> QED
        BY <1>7, <4>1
    <3> QED
      BY <3>1, <3>2
  <2>2. Sound(query, cached.answers[query])
    BY <2>1 DEF SearchInv, CacheSound
  <2>3. Whole(query, visible, embedded)' = Whole(query, visible, embedded)
    BY <1>1, WholeKept
  <2>4. Whole(query, visible, {})' = Whole(query, visible, {})
    BY <1>1, WholeKept
  <2>5. /\ answer'.query = query /\ answer'.hits = cached.answers[query]
        /\ answer'.visible = visible /\ answer'.embedded = embedded
    BY <2>1 DEF Answer
  <2>6. AnswersAreCurrent'
    BY <1>1, <2>2, <2>3, <2>4, <2>5 DEF Sound, AnswersAreCurrent
  <2>7. SearchTyped' /\ KeptUnder' /\ ReadSoFar'
    BY <1>1, <1>2, <1>3, <2>1 DEF SearchInv, SearchTyped, KeptUnder, ReadSoFar, NoSearch
  <2> QED
    BY <1>5, <2>6, <2>7 DEF SearchInv
<1>8. CASE query \notin DOMAIN Consulted.answers
  <2>1. search' = [NoSearch EXCEPT !.at = "events", !.query = query] /\ UNCHANGED answer
    BY <1>6, <1>8
  <2>2. AnswersAreCurrent'
    BY <1>1, <2>1, AnswerKept DEF SearchInv
  <2>3. search' = [at |-> "events", query |-> query, byEvents |-> <<>>, byClaims |-> <<>>,
                   byMeaning |-> <<>>, quiet |-> TRUE]
    BY <2>1 DEF NoSearch
  <2>4. /\ search'.at = "events" /\ search'.quiet
        /\ search' = [at |-> search'.at, query |-> search'.query, byEvents |-> search'.byEvents,
                      byClaims |-> search'.byClaims, byMeaning |-> search'.byMeaning,
                      quiet |-> search'.quiet]
    BY <2>3
  <2>5. SearchTyped' /\ KeptUnder' /\ ReadSoFar'
    BY <1>1, <1>3, <2>4 DEF SearchInv, SearchTyped, KeptUnder, ReadSoFar, Stages
  <2> QED
    BY <1>5, <2>2, <2>5 DEF SearchInv
<1> QED
  BY <1>7, <1>8

LEMMA EventsKeep == ASSUME SearchInv, SearchEvents PROVE SearchInv'
<1>1. UNCHANGED <<corpus, visible, embedded, version, cached, answer>>
  BY DEF SearchEvents
<1>2. CacheSound' /\ AnswersAreCurrent'
  BY <1>1, CacheKept, AnswerKept DEF SearchInv
<1>3. Depth(search.query.limit)' = Depth(search'.query.limit)
  BY <1>1 DEF Depth
<1> DEFINE hits == Matches(corpus.plain, Events, visible, Depth(search.query.limit))
<1>4. search.at = "events" /\ search' = [search EXCEPT !.at = "memories", !.byEvents = hits]
  BY DEF SearchEvents
<1> HIDE DEF hits
<1>a. search # NoSearch
  BY <1>4 DEF NoSearch
<1>b. search = [at |-> search.at, query |-> search.query, byEvents |-> search.byEvents,
                byClaims |-> search.byClaims, byMeaning |-> search.byMeaning,
                quiet |-> search.quiet]
  BY DEF SearchInv, SearchTyped
<1>5. /\ search'.at = "memories" /\ search'.byEvents = hits /\ search'.query = search.query
      /\ search'.quiet = search.quiet /\ search # NoSearch
      /\ search' = [at |-> search'.at, query |-> search'.query, byEvents |-> search'.byEvents,
                    byClaims |-> search'.byClaims, byMeaning |-> search'.byMeaning,
                    quiet |-> search'.quiet]
  BY <1>4, <1>a, <1>b
<1>6. SearchTyped' /\ KeptUnder'
  BY <1>1, <1>5 DEF SearchInv, SearchTyped, KeptUnder, Stages, NoSearch
<1>7. hits = Matches(corpus.plain, Events, visible, Depth(search.query.limit))'
  BY <1>1, <1>5 DEF hits, Depth
<1>8. ReadSoFar'
  BY <1>5, <1>7 DEF ReadSoFar
<1> QED
  BY <1>2, <1>6, <1>8 DEF SearchInv

LEMMA MemoriesKeep == ASSUME SearchInv, SearchMemories PROVE SearchInv'
<1>1. UNCHANGED <<corpus, visible, embedded, version, cached, answer>>
  BY DEF SearchMemories
<1>2. CacheSound' /\ AnswersAreCurrent'
  BY <1>1, CacheKept, AnswerKept DEF SearchInv
<1> DEFINE hits == Matches(corpus.plain, Claims, visible, Depth(search.query.limit))
<1>4. search.at = "memories" /\ search' = [search EXCEPT !.at = "vectors", !.byClaims = hits]
  BY DEF SearchMemories
<1> HIDE DEF hits
<1>a. search # NoSearch
  BY <1>4 DEF NoSearch
<1>b. search = [at |-> search.at, query |-> search.query, byEvents |-> search.byEvents,
                byClaims |-> search.byClaims, byMeaning |-> search.byMeaning,
                quiet |-> search.quiet]
  BY DEF SearchInv, SearchTyped
<1>5. /\ search'.at = "vectors" /\ search'.byClaims = hits /\ search'.query = search.query
      /\ search'.byEvents = search.byEvents /\ search'.quiet = search.quiet /\ search # NoSearch
      /\ search' = [at |-> search'.at, query |-> search'.query, byEvents |-> search'.byEvents,
                    byClaims |-> search'.byClaims, byMeaning |-> search'.byMeaning,
                    quiet |-> search'.quiet]
  BY <1>4, <1>a, <1>b
<1>6. SearchTyped' /\ KeptUnder'
  BY <1>1, <1>5 DEF SearchInv, SearchTyped, KeptUnder, Stages, NoSearch
<1>7. /\ hits = Matches(corpus.plain, Claims, visible, Depth(search.query.limit))'
      /\ Matches(corpus.plain, Events, visible, Depth(search.query.limit))' =
           Matches(corpus.plain, Events, visible, Depth(search.query.limit))
  BY <1>1, <1>5 DEF hits, Depth
<1>8. ReadSoFar'
  BY <1>4, <1>5, <1>7 DEF ReadSoFar, SearchInv
<1> QED
  BY <1>2, <1>6, <1>8 DEF SearchInv

LEMMA VectorsKeep == ASSUME SearchInv, VectorChannel PROVE SearchInv'
<1>1. UNCHANGED <<corpus, visible, embedded, version, cached, answer>>
  BY DEF VectorChannel
<1>2. CacheSound' /\ AnswersAreCurrent'
  BY <1>1, CacheKept, AnswerKept DEF SearchInv
<1>3. PICK vectors \in {embedded, {}} :
        search' = [search EXCEPT !.at = "rank",
          !.byMeaning = Matches(corpus.meaning, Documents, visible \cap vectors,
                                Depth(search.query.limit))]
  BY DEF VectorChannel
<1> DEFINE hits == Matches(corpus.meaning, Documents, visible \cap vectors,
                           Depth(search.query.limit))
<1>4. search.at = "vectors" /\ search' = [search EXCEPT !.at = "rank", !.byMeaning = hits]
  BY <1>3 DEF VectorChannel
<1> HIDE DEF hits
<1>a. search # NoSearch
  BY <1>4 DEF NoSearch
<1>b. search = [at |-> search.at, query |-> search.query, byEvents |-> search.byEvents,
                byClaims |-> search.byClaims, byMeaning |-> search.byMeaning,
                quiet |-> search.quiet]
  BY DEF SearchInv, SearchTyped
<1>5. /\ search'.at = "rank" /\ search'.byMeaning = hits /\ search'.query = search.query
      /\ search'.byEvents = search.byEvents /\ search'.byClaims = search.byClaims
      /\ search'.quiet = search.quiet /\ search # NoSearch
      /\ search' = [at |-> search'.at, query |-> search'.query, byEvents |-> search'.byEvents,
                    byClaims |-> search'.byClaims, byMeaning |-> search'.byMeaning,
                    quiet |-> search'.quiet]
  BY <1>4, <1>a, <1>b
<1>6. SearchTyped' /\ KeptUnder'
  BY <1>1, <1>5 DEF SearchInv, SearchTyped, KeptUnder, Stages, NoSearch
<1>7. /\ Matches(corpus.meaning, Documents, visible \cap vectors, Depth(search.query.limit))' = hits
      /\ Matches(corpus.plain, Events, visible, Depth(search.query.limit))' =
           Matches(corpus.plain, Events, visible, Depth(search.query.limit))
      /\ Matches(corpus.plain, Claims, visible, Depth(search.query.limit))' =
           Matches(corpus.plain, Claims, visible, Depth(search.query.limit))
  BY <1>1, <1>5 DEF hits, Depth
<1>8. vectors \in {embedded', {}}
  BY <1>1
<1>9. ReadSoFar'
  BY <1>4, <1>5, <1>7, <1>8 DEF ReadSoFar, SearchInv
<1> QED
  BY <1>2, <1>6, <1>9 DEF SearchInv

LEMMA FinishKeeps == ASSUME SearchInv, FinishSearch PROVE SearchInv'
<1>1. UNCHANGED <<corpus, visible, embedded, version>>
  BY DEF FinishSearch
<1> DEFINE query == search.query
           hits == Ranked(query, search.byEvents, search.byClaims, search.byMeaning, visible)
<1>2. /\ search.at = "rank" /\ search' = NoSearch
      /\ cached' = Keep(query, hits) /\ answer' = Answer(query, hits, search.quiet)
  BY DEF FinishSearch
<1>3. search.quiet => Sound(query, hits)
  <2> SUFFICES ASSUME search.quiet PROVE Sound(query, hits)
    OBVIOUS
  <2>1. PICK vectors \in {embedded, {}} :
          search.byMeaning = Matches(corpus.meaning, Documents, visible \cap vectors,
                                     Depth(query.limit))
    BY <1>2 DEF SearchInv, ReadSoFar
  <2>2. hits = Whole(query, visible, vectors)
    BY <1>2, <2>1 DEF SearchInv, ReadSoFar, Whole
  <2> QED
    BY <2>2 DEF Sound
<1> HIDE DEF query, hits
<1>4. /\ cached'.version = cached.version
      /\ cached'.answers = [q \in DOMAIN cached.answers \cup {query} |->
                              IF q = query THEN hits ELSE cached.answers[q]]
      /\ cached' = [version |-> cached'.version, answers |-> cached'.answers]
  BY <1>2 DEF Keep, SearchInv, SearchTyped
<1>5. \A q : /\ Whole(q, visible, embedded)' = Whole(q, visible, embedded)
             /\ Whole(q, visible, {})' = Whole(q, visible, {})
  <2> TAKE q
  <2> QED
    BY <1>1, WholeKept
<1>6. SearchTyped' /\ KeptUnder' /\ ReadSoFar'
  BY <1>1, <1>2, <1>4 DEF SearchInv, SearchTyped, KeptUnder, ReadSoFar, NoSearch, Stages
<1>7. CacheSound'
  <2> SUFFICES ASSUME cached'.version = version', NEW q \in DOMAIN cached'.answers
               PROVE  Sound(q, cached.answers[q])'
    BY DEF CacheSound
  <2>1. cached.version = version /\ search.quiet
    BY <1>1, <1>2, <1>4 DEF SearchInv, KeptUnder, NoSearch
  <2>2. Sound(q, cached'.answers[q])
    BY <1>3, <1>4, <2>1 DEF SearchInv, CacheSound
  <2> QED
    BY <1>1, <1>5, <2>2 DEF Sound
<1>8. AnswersAreCurrent'
  <2> SUFFICES ASSUME answer'.quiet
               PROVE  (\E vectors \in {answer.embedded, {}} :
                         answer.hits = Whole(answer.query, answer.visible, vectors))'
    BY DEF AnswersAreCurrent
  <2>1. /\ answer'.quiet = search.quiet /\ answer'.query = query /\ answer'.hits = hits
        /\ answer'.visible = visible /\ answer'.embedded = embedded
    BY <1>2 DEF Answer
  <2>2. Sound(query, hits)
    BY <1>3, <2>1
  <2> QED
    BY <1>1, <1>5, <2>1, <2>2 DEF Sound
<1> QED
  BY <1>6, <1>7, <1>8 DEF SearchInv

LEMMA HereKeeps == ASSUME SearchInv, WriteHere PROVE SearchInv'
<1>1. /\ UNCHANGED <<corpus, version, search, answer>> /\ search = NoSearch
      /\ cached' = [cached EXCEPT !.answers = << >>]
  BY DEF WriteHere, Cleared
<1>2. /\ cached'.version = cached.version /\ DOMAIN cached'.answers = {}
      /\ cached' = [version |-> cached'.version, answers |-> cached'.answers]
  BY <1>1 DEF SearchInv, SearchTyped
<1>3. AnswersAreCurrent'
  BY <1>1, AnswerKept DEF SearchInv
<1> QED
  BY <1>1, <1>2, <1>3 DEF SearchInv, SearchTyped, CacheSound, KeptUnder, ReadSoFar, NoSearch

LEMMA ElsewhereKeeps == ASSUME SearchInv, WriteElsewhere PROVE SearchInv'
<1>1. /\ UNCHANGED <<corpus, cached, answer>> /\ version' = version + 1
      /\ search' = [search EXCEPT !.quiet = (search = NoSearch)]
  BY DEF WriteElsewhere
<1>2. /\ search'.at = search.at /\ search'.quiet = (search = NoSearch)
      /\ search' = [at |-> search'.at, query |-> search'.query, byEvents |-> search'.byEvents,
                    byClaims |-> search'.byClaims, byMeaning |-> search'.byMeaning,
                    quiet |-> search'.quiet]
  BY <1>1 DEF SearchInv, SearchTyped
<1>3. ASSUME search = NoSearch PROVE search' = NoSearch
  <2>1. search' = [NoSearch EXCEPT !.quiet = TRUE]
    BY <1>1, <1>3
  <2> QED
    BY <2>1 DEF NoSearch
<1>4. AnswersAreCurrent'
  BY <1>1, AnswerKept DEF SearchInv
<1>5. SearchTyped' /\ CacheSound'
  BY <1>1, <1>2, <1>3 DEF SearchInv, SearchTyped, CacheSound
<1>6. CASE search = NoSearch
  <2>1. search'.at = "none"
    BY <1>3, <1>6 DEF NoSearch
  <2> QED
    BY <1>3, <1>4, <1>5, <1>6, <2>1 DEF SearchInv, KeptUnder, ReadSoFar
<1>7. CASE search # NoSearch
  <2>1. ~search'.quiet
    BY <1>2, <1>7
  <2>2. search'.at # "none"
    BY <1>2, <1>7 DEF SearchInv, SearchTyped
  <2>3. cached'.version # version'
    BY <1>1 DEF SearchInv, SearchTyped
  <2> QED
    BY <1>4, <1>5, <2>1, <2>2, <2>3 DEF SearchInv, KeptUnder, ReadSoFar
<1> QED
  BY <1>6, <1>7

LEMMA SearchStep == SearchInv /\ [SearchNext]_searchVars => SearchInv'
<1> SUFFICES ASSUME SearchInv, [SearchNext]_searchVars PROVE SearchInv'
  OBVIOUS
<1>1. CASE UNCHANGED searchVars
  <2>1. UNCHANGED <<corpus, visible, embedded, version, cached, search, answer>>
    BY <1>1 DEF searchVars
  <2>2. CacheSound' /\ AnswersAreCurrent'
    BY <2>1, CacheKept, AnswerKept DEF SearchInv
  <2>3. SearchTyped' /\ KeptUnder' /\ ReadSoFar'
    BY <2>1 DEF SearchInv, SearchTyped, KeptUnder, ReadSoFar, Depth
  <2> QED
    BY <2>2, <2>3 DEF SearchInv
<1> QED
  BY <1>1, SearchKeeps, EventsKeep, MemoriesKeep, VectorsKeep, FinishKeeps, HereKeeps,
     ElsewhereKeeps DEF SearchNext

(* An answer given while no other connection commits is what a search of    *)
(* the ledger as it is then comes to, out of the cache or not, for any      *)
(* ledger, words and number of connections that write.                      *)
THEOREM AnswersStayCurrent == SearchSpec => []AnswersAreCurrent
<1>1. SearchInv => AnswersAreCurrent
  BY DEF SearchInv
<1> QED
  BY <1>1, SearchBegins, SearchStep, PTL DEF SearchSpec

(* A finite set is put in order by what goes before each of its elements,   *)
(* each of them once, where that is a strict total order.                   *)
Orders(S, ahead) ==
  /\ \A d \in S : ahead[d] \subseteq S /\ d \notin ahead[d]
  /\ \A d, e \in S : d # e => d \in ahead[e] \/ e \in ahead[d]
  /\ \A d, e \in S : d \in ahead[e] => ahead[d] \subseteq ahead[e]

(* A list has every element of the set once, at the place that the number   *)
(* of those before it makes, each behind what goes before it.               *)
Ranks(list, S, ahead) ==
  /\ Cardinality(S) \in Nat /\ list \in [1..Cardinality(S) -> S]
  /\ \A d \in S : /\ Cardinality(ahead[d]) + 1 \in 1..Cardinality(S)
                  /\ list[Cardinality(ahead[d]) + 1] = d
  /\ \A i, j \in 1..Cardinality(S) : i < j => list[i] \in ahead[list[j]]

LEMMA OrderedPlaces ==
  ASSUME NEW S, IsFiniteSet(S), NEW ahead, Orders(S, ahead)
  PROVE  Ranks(Ordered(S, ahead), S, ahead)
<1> DEFINE n == Cardinality(S)
           place(d) == Cardinality(ahead[d]) + 1
           places == [d \in S |-> place(d)]
           placed == {<<place(d), d>> : d \in S}
           kth(k) == (CHOOSE p \in placed : p[1] = k)[2]
<1>1. n \in Nat
  BY FS_CardinalityType
<1>2. ASSUME NEW d \in S
      PROVE  place(d) \in 1..n /\ IsFiniteSet(ahead[d]) /\ Cardinality(ahead[d]) \in Nat
  <2>1. ahead[d] \subseteq S /\ ahead[d] # S
    BY DEF Orders
  <2>2. IsFiniteSet(ahead[d]) /\ Cardinality(ahead[d]) <= n /\ Cardinality(ahead[d]) # n
    BY <2>1, FS_Subset
  <2>3. Cardinality(ahead[d]) \in Nat
    BY <2>2, FS_CardinalityType
  <2> QED
    BY <1>1, <2>2, <2>3
<1>3. ASSUME NEW d \in S, NEW e \in S, d \in ahead[e] PROVE place(d) < place(e)
  <2>1. ahead[d] \subseteq ahead[e] /\ ahead[d] # ahead[e]
    BY <1>3 DEF Orders
  <2>2. /\ Cardinality(ahead[d]) <= Cardinality(ahead[e])
        /\ Cardinality(ahead[d]) # Cardinality(ahead[e])
    BY <1>2, <2>1, FS_Subset
  <2> QED
    BY <1>2, <2>2
<1>4. ASSUME NEW d \in S, NEW e \in S, place(d) = place(e) PROVE d = e
  <2>1. ~(place(d) < place(e)) /\ ~(place(e) < place(d))
    BY <1>2, <1>4
  <2> QED
    BY <1>3, <2>1 DEF Orders
<1>5. ASSUME NEW k \in 1..n PROVE \E d \in S : place(d) = k
  <2>1. places \in Injection(S, 1..n)
    BY <1>2, <1>4 DEF Injection, IsInjective
  <2>2. IsFiniteSet(1..n) /\ Cardinality(1..n) = n
    BY <1>1, FS_Interval
  <2>3. places \in Surjection(S, 1..n)
    BY <2>1, <2>2, FS_Injection
  <2> QED
    BY <2>3 DEF Surjection
<1>6. ASSUME NEW d \in S PROVE kth(place(d)) = d
  <2>1. <<place(d), d>> \in placed /\ <<place(d), d>>[1] = place(d)
    OBVIOUS
  <2>2. PICK e \in S : /\ (CHOOSE p \in placed : p[1] = place(d)) = <<place(e), e>>
                        /\ place(e) = place(d)
    BY <2>1
  <2> QED
    BY <1>4, <2>2
<1>7. ASSUME NEW k \in 1..n PROVE kth(k) \in S /\ place(kth(k)) = k
  BY <1>5, <1>6
<1>8. Ordered(S, ahead) = [k \in 1..n |-> kth(k)]
  BY DEF Ordered
<1>9. ASSUME NEW i \in 1..n, NEW j \in 1..n, i < j PROVE kth(i) \in ahead[kth(j)]
  <2>1. kth(i) # kth(j) /\ ~(place(kth(j)) < place(kth(i)))
    BY <1>1, <1>7, <1>9
  <2> QED
    BY <1>3, <1>7, <2>1 DEF Orders
<1> HIDE DEF place, kth
<1>10. \A d \in S : place(d) \in 1..n /\ Ordered(S, ahead)[place(d)] = d
  BY <1>2, <1>6, <1>8
<1>11. \A i, j \in 1..n : i < j => Ordered(S, ahead)[i] \in ahead[Ordered(S, ahead)[j]]
  BY <1>8, <1>9
<1>12. Ordered(S, ahead) \in [1..n -> S]
  BY <1>7, <1>8
<1> QED
  BY <1>1, <1>10, <1>11, <1>12 DEF Ranks, place

(* What a list has at some of its places, in the order it has them.         *)
TakenFrom(hits, places, list) ==
  /\ Cardinality(places) \in Nat /\ Len(list) = Cardinality(places)
  /\ \E at \in [1..Cardinality(places) -> places] :
       /\ \A k \in 1..Cardinality(places) : list[k] = hits[at[k]]
       /\ \A i, j \in 1..Cardinality(places) : i < j => at[i] < at[j]
       /\ \A i \in places : \E k \in 1..Cardinality(places) : at[k] = i

LEMMA PickedPlaces ==
  ASSUME NEW D, NEW hits \in Seq(D), NEW places \in SUBSET (DOMAIN hits)
  PROVE  Picked(hits, places) \in Seq(D) /\ TakenFrom(hits, places, Picked(hits, places))
<1> DEFINE ahead == [i \in places |-> {j \in places : j < i}]
           at == Ordered(places, ahead)
           n == Cardinality(places)
<1>1. DOMAIN hits = 1..Len(hits) /\ Len(hits) \in Nat /\ hits \in [1..Len(hits) -> D]
  BY LenProperties, ElementOfSeq
<1>2. IsFiniteSet(places) /\ places \subseteq Nat
  <2>1. IsFiniteSet(1..Len(hits))
    BY <1>1, FS_Interval
  <2> QED
    BY <1>1, <2>1, FS_Subset
<1>3. Orders(places, ahead)
  BY <1>2 DEF Orders
<1> HIDE DEF ahead
<1>4. /\ n \in Nat /\ at \in [1..n -> places]
      /\ \A i \in places : \E k \in 1..n : at[k] = i
      /\ \A i, j \in 1..n : i < j => at[i] \in ahead[at[j]]
  BY <1>2, <1>3, OrderedPlaces DEF Ranks
<1>5. \A i, j \in 1..n : i < j => at[i] < at[j]
  BY <1>4 DEF ahead
<1>6. Picked(hits, places) = [k \in 1..n |-> hits[at[k]]]
  <2>1. DOMAIN at = 1..n
    BY <1>4
  <2> QED
    BY <2>1 DEF Picked, ahead
<1> HIDE DEF at
<1>7. Picked(hits, places) \in [1..n -> D]
  BY <1>1, <1>4, <1>6
<1>8. Picked(hits, places) \in Seq(D) /\ Len(Picked(hits, places)) = n
  BY <1>4, <1>7, IsASeq, LenProperties
<1> HIDE DEF n
<1>9. /\ n \in Nat /\ at \in [1..n -> places]
      /\ \A k \in 1..n : Picked(hits, places)[k] = hits[at[k]]
      /\ \A i, j \in 1..n : i < j => at[i] < at[j]
      /\ \A i \in places : \E k \in 1..n : at[k] = i
  BY <1>4, <1>5, <1>6
<1> QED
  BY <1>8, <1>9, Zenon DEF TakenFrom, n

(* A list names nothing twice.                                              *)
Listed(list, D) ==
  list \in Seq(D) /\ \A i, j \in DOMAIN list : list[i] = list[j] => i = j

LEMMA CutPlaces ==
  ASSUME NEW D, NEW hits \in Seq(D), NEW n \in Nat
  PROVE  /\ Cut(hits, n) \in Seq(D) /\ Len(Cut(hits, n)) <= n
         /\ Len(Cut(hits, n)) = IF n <= Len(hits) THEN n ELSE Len(hits)
         /\ \A i \in 1..Len(Cut(hits, n)) : Cut(hits, n)[i] = hits[i]
<1> DEFINE least == Min({n, Len(hits)})
<1>1. Len(hits) \in Nat
  OBVIOUS
<1>2. least = IF n <= Len(hits) THEN n ELSE Len(hits)
  <2>1. \E x \in {n, Len(hits)} : \A y \in {n, Len(hits)} : x <= y
    BY <1>1
  <2>2. least \in {n, Len(hits)} /\ \A y \in {n, Len(hits)} : least <= y
    BY <2>1 DEF Min
  <2> HIDE DEF least
  <2> QED
    BY <1>1, <2>2
<1> HIDE DEF least
<1>3. least \in 0..Len(hits) /\ least <= n
  BY <1>1, <1>2
<1>4. Cut(hits, n) = SubSeq(hits, 1, least)
  BY DEF Cut, least
<1> QED
  BY <1>1, <1>2, <1>3, <1>4, SubSeqProperties

(* What matches is of a kind and shown, each of it once, and more depth     *)
(* does not change what is best.                                            *)
LEMMA MatchesListed ==
  ASSUME NEW list, Listed(list, Documents), NEW kind, NEW shown, NEW depth \in Nat \ {0}
  PROVE  /\ Listed(Matches(list, kind, shown, depth), kind \cap shown)
         /\ \A d \in ToSet(Matches(list, kind, shown, 1)) :
              /\ 1 \in DOMAIN Matches(list, kind, shown, depth)
              /\ Matches(list, kind, shown, depth)[1] = d
<1> DEFINE D == kind \cap shown
           places == {i \in DOMAIN list : list[i] \in D}
           kept == Picked(list, places)
           n == Cardinality(places)
<1>1. /\ n \in Nat /\ kept \in Seq(Documents) /\ Len(kept) = n
      /\ \E at \in [1..n -> places] :
           /\ \A k \in 1..n : kept[k] = list[at[k]]
           /\ \A i, j \in 1..n : i < j => at[i] < at[j]
  <2>1. list \in Seq(Documents) /\ places \in SUBSET (DOMAIN list)
    BY DEF Listed
  <2> HIDE DEF places
  <2>2. kept \in Seq(Documents) /\ TakenFrom(list, places, kept)
    BY <2>1, PickedPlaces
  <2> HIDE DEF kept
  <2> QED
    BY <2>2, Zenon DEF TakenFrom
<1> HIDE DEF n, kept
<1>2. PICK at \in [1..n -> places] : /\ \A k \in 1..n : kept[k] = list[at[k]]
                                     /\ \A i, j \in 1..n : i < j => at[i] < at[j]
  BY <1>1
<1>3. DOMAIN kept = 1..n
  BY <1>1, LenProperties
<1>4. \A k \in 1..n : kept[k] \in D
  BY <1>2
<1>5. kept \in Seq(D)
  <2>1. kept = [k \in 1..n |-> kept[k]]
    BY <1>1, <1>3, ElementOfSeq
  <2>2. kept \in [1..n -> D]
    BY <1>4, <2>1
  <2> QED
    BY <1>1, <2>2, IsASeq
<1> HIDE DEF D
<1>6. \A i, j \in 1..n : kept[i] = kept[j] => i = j
  <2>1. SUFFICES ASSUME NEW i \in 1..n, NEW j \in 1..n, kept[i] = kept[j] PROVE i = j
    OBVIOUS
  <2>2. at[i] = at[j]
    BY <1>2, <2>1 DEF Listed, places
  <2>3. at[i] \in Nat /\ at[j] \in Nat
    BY <1>2, LenProperties DEF Listed
  <2> QED
    BY <1>2, <2>1, <2>2, <2>3
<1>7. ASSUME NEW m \in Nat
      PROVE  /\ Matches(list, kind, shown, m) = Cut(kept, m)
             /\ Cut(kept, m) \in Seq(D) /\ DOMAIN Cut(kept, m) = 1..Len(Cut(kept, m))
             /\ Len(Cut(kept, m)) = IF m <= n THEN m ELSE n
             /\ \A i \in DOMAIN Cut(kept, m) : Cut(kept, m)[i] = kept[i]
  <2>1. Matches(list, kind, shown, m) = Cut(kept, m)
    BY DEF Matches, kept, places, D
  <2>2. /\ Cut(kept, m) \in Seq(D)
        /\ Len(Cut(kept, m)) = IF m <= n THEN m ELSE n
        /\ \A i \in 1..Len(Cut(kept, m)) : Cut(kept, m)[i] = kept[i]
    BY <1>1, <1>5, CutPlaces
  <2>3. DOMAIN Cut(kept, m) = 1..Len(Cut(kept, m))
    BY <2>2, LenProperties
  <2> QED
    BY <2>1, <2>2, <2>3
<1>8. Listed(Matches(list, kind, shown, depth), D)
  <2> DEFINE found == Cut(kept, depth)
  <2> HIDE DEF found
  <2>1. /\ found \in Seq(D) /\ DOMAIN found = 1..Len(found)
        /\ Len(found) = IF depth <= n THEN depth ELSE n
        /\ \A i \in DOMAIN found : found[i] = kept[i]
    BY <1>7 DEF found
  <2>2. found \in Seq(D) /\ DOMAIN found = 1..Len(found) /\ Len(found) \in Nat /\ Len(found) <= n
    BY <1>1, <2>1
  <2>3. \A i \in DOMAIN found : i \in 1..n /\ found[i] = kept[i]
    BY <1>1, <2>2, <2>1
  <2>4. Matches(list, kind, shown, depth) = found
    BY <1>7 DEF found
  <2> QED
    BY <1>6, <2>2, <2>3, <2>4 DEF Listed, D
<1>9. ASSUME NEW d \in ToSet(Matches(list, kind, shown, 1))
      PROVE  /\ 1 \in DOMAIN Matches(list, kind, shown, depth)
             /\ Matches(list, kind, shown, depth)[1] = d
  <2>1. PICK i \in DOMAIN Cut(kept, 1) : d = Cut(kept, 1)[i]
    BY <1>7 DEF ToSet
  <2>2. /\ DOMAIN Cut(kept, 1) = 1..Len(Cut(kept, 1)) /\ Len(Cut(kept, 1)) = IF 1 <= n THEN 1 ELSE n
        /\ Cut(kept, 1)[i] = kept[i]
    BY <1>7, <2>1
  <2>3. n >= 1 /\ d = kept[1]
    BY <1>1, <2>1, <2>2
  <2>4. 1 \in DOMAIN Cut(kept, depth)
    BY <1>1, <1>7, <2>3
  <2> QED
    BY <1>7, <2>3, <2>4
<1> QED
  BY <1>8, <1>9 DEF D

(* What channels have found, and what is ranked before a document.          *)
Finds(channels) == UNION {ToSet(channels[i].hits) : i \in DOMAIN channels}

Better(channels, d) ==
  {e \in Finds(channels) : \/ Score(channels, e) > Score(channels, d)
                           \/ Score(channels, e) = Score(channels, d) /\ e > d}

(* Channels of documents, each of which is in one of them.                  *)
Channels == Seq([weight : {Keyword, Graph}, hits : Seq(Documents)])

Apart(channels) ==
  /\ \A c \in DOMAIN channels : Listed(channels[c].hits, Documents)
  /\ \A b, c \in DOMAIN channels :
       ToSet(channels[b].hits) \cap ToSet(channels[c].hits) # {} => b = c

(* What one channel alone has found is scored by its place there.           *)
LEMMA SumOfOne ==
  ASSUME NEW channels, NEW d, NEW c,
         {i \in DOMAIN channels : d \in ToSet(channels[i].hits)} = {c},
         Reciprocal(channels[c].weight, PlaceOf(d, channels[c].hits)) \in Nat
  PROVE  Score(channels, d) = Reciprocal(channels[c].weight, PlaceOf(d, channels[c].hits))
<1> DEFINE pick(s) == CHOOSE i \in s : TRUE
           part(i) == Reciprocal(channels[i].weight, PlaceOf(d, channels[i].hits))
           Sums(it) == it = [s \in SUBSET {c} |->
                            IF s = {} THEN 0 ELSE part(pick(s)) + it[s \ {pick(s)}]]
           sums == [s \in SUBSET {c} |-> IF s = {} THEN 0 ELSE part(c)]
           iter == CHOOSE it : Sums(it)
<1>1. pick({c}) = c
  OBVIOUS
<1>2. part(c) \in Nat
  OBVIOUS
<1> HIDE DEF pick, part
<1>3. \A s \in SUBSET {c} : s = {} \/ s = {c}
  OBVIOUS
<1>4. \A s \in SUBSET {c} :
        sums[s] = IF s = {} THEN 0 ELSE part(pick(s)) + sums[s \ {pick(s)}]
  <2>1. sums[{}] = 0 /\ sums[{c}] = part(c) /\ {c} \ {c} = {}
    OBVIOUS
  <2> HIDE DEF sums
  <2>2. sums[{c}] = part(pick({c})) + sums[{c} \ {pick({c})}]
    <3>1. {c} \ {pick({c})} = {} /\ part(pick({c})) = part(c)
      BY <1>1, Zenon
    <3>2. sums[{c}] = part(c) + 0
      BY <1>2, <2>1
    <3> QED
      BY <2>1, <3>1, <3>2, Zenon
  <2>3. {c} # {}
    OBVIOUS
  <2> QED
    BY <1>3, <2>1, <2>2, <2>3, Zenon
<1>5. Sums(sums)
  BY <1>4
<1>6. Sums(iter)
  <2> HIDE DEF Sums, sums
  <2> QED
    BY <1>5
<1> HIDE DEF iter
<1>7. iter[{}] = 0 /\ iter[{c}] = part(c) + iter[{}]
  <2>1. {c} \ {pick({c})} = {} /\ {c} \in SUBSET {c} /\ {} \in SUBSET {c} /\ {c} # {}
    BY <1>1
  <2> QED
    BY <1>1, <1>6, <2>1
<1>8. Score(channels, d) = iter[{c}]
  BY Zenon DEF Score, MapThenSumSet, MapThenFoldSet, pick, part, iter
<1>9. iter[{c}] = part(c)
  BY <1>2, <1>7
<1> QED
  BY <1>8, <1>9 DEF part

LEMMA ReciprocalOrder ==
  /\ Reciprocal(Keyword, 1) \in Nat
  /\ \A weight \in {Keyword, Graph} : \A place \in Nat \ {0} :
       /\ Reciprocal(weight, place) \in Nat
       /\ weight = Graph \/ place # 1 => Reciprocal(weight, place) < Reciprocal(Keyword, 1)
<1>1. 40000000 \div (60 + 1) = 655737
  OBVIOUS
<1>2. \A place \in Nat \ {0} :
        20000000 \div (60 + place) \in Nat /\ 20000000 \div (60 + place) <= 333333
  OBVIOUS
<1>3. \A place \in Nat \ {0} : 40000000 \div (60 + place) \in Nat
  OBVIOUS
<1>4. \A place \in Nat \ {0} : place # 1 => 40000000 \div (60 + place) <= 645161
  OBVIOUS
<1> QED
  BY <1>1, <1>2, <1>3, <1>4 DEF Reciprocal, Keyword, Graph

LEMMA PlaceFound ==
  ASSUME NEW hits, Listed(hits, Documents), NEW i \in DOMAIN hits
  PROVE  PlaceOf(hits[i], hits) = i
BY DEF PlaceOf, Listed

LEMMA ScoreOfOne ==
  ASSUME NEW channels \in Channels, Apart(channels), NEW c \in DOMAIN channels,
         NEW i \in DOMAIN channels[c].hits
  PROVE  Score(channels, channels[c].hits[i]) = Reciprocal(channels[c].weight, i)
<1> DEFINE d == channels[c].hits[i]
<1>1. channels[c] \in [weight : {Keyword, Graph}, hits : Seq(Documents)]
  BY ElementOfSeq, LenProperties DEF Channels
<1>2. Listed(channels[c].hits, Documents) /\ i \in Nat \ {0}
  <2>1. Listed(channels[c].hits, Documents)
    BY DEF Apart
  <2> QED
    BY <2>1, LenProperties DEF Listed
<1>3. {b \in DOMAIN channels : d \in ToSet(channels[b].hits)} = {c}
  BY DEF Apart, ToSet
<1>4. PlaceOf(d, channels[c].hits) = i /\ Reciprocal(channels[c].weight, i) \in Nat
  BY <1>1, <1>2, PlaceFound, ReciprocalOrder
<1> HIDE DEF d
<1>5. Score(channels, d) = Reciprocal(channels[c].weight, PlaceOf(d, channels[c].hits))
  BY <1>3, <1>4, SumOfOne
<1> QED
  BY <1>4, <1>5 DEF d

(* What is fused has every document that was found, once, and before each   *)
(* of them the better ones.                                                 *)
LEMMA FusedInOrder ==
  ASSUME NEW channels \in Channels, Apart(channels)
  PROVE  /\ IsFiniteSet(Finds(channels)) /\ Finds(channels) \subseteq Documents
         /\ Orders(Finds(channels), [d \in Finds(channels) |-> Better(channels, d)])
         /\ Fuse(channels) =
              Ordered(Finds(channels), [d \in Finds(channels) |-> Better(channels, d)])
<1>1. Finds(channels) \subseteq Documents
  BY ElementOfSeq, LenProperties DEF Finds, ToSet, Apart, Listed
<1>2. IsFiniteSet(Documents) /\ Documents \subseteq Nat
  BY DocumentsAssumption, FS_Union DEF Documents
<1>3. IsFiniteSet(Finds(channels))
  BY <1>1, <1>2, FS_Subset
<1>4. ASSUME NEW d \in Finds(channels) PROVE Score(channels, d) \in Nat
  <2>1. PICK c \in DOMAIN channels : d \in ToSet(channels[c].hits)
    BY DEF Finds
  <2>2. PICK i \in DOMAIN channels[c].hits : d = channels[c].hits[i]
    BY <2>1 DEF ToSet
  <2>3. channels[c] \in [weight : {Keyword, Graph}, hits : Seq(Documents)]
    BY ElementOfSeq, LenProperties DEF Channels
  <2>4. i \in Nat \ {0}
    BY <2>3, LenProperties
  <2> QED
    BY <2>2, <2>3, <2>4, ScoreOfOne, ReciprocalOrder
<1>5. Orders(Finds(channels), [d \in Finds(channels) |-> Better(channels, d)])
  <2> DEFINE F == Finds(channels)
             ahead == [d \in F |-> Better(channels, d)]
             beats(e, d) == \/ Score(channels, e) > Score(channels, d)
                            \/ Score(channels, e) = Score(channels, d) /\ e > d
  <2>1. \A d \in F : \A e : e \in ahead[d] <=> e \in F /\ beats(e, d)
    BY DEF Better
  <2>2. \A d \in F : Score(channels, d) \in Nat /\ d \in Nat
    BY <1>1, <1>2, <1>4
  <2> HIDE DEF F, ahead
  <2>3. \A d \in F : ~beats(d, d)
    BY <2>2
  <2>4. \A d, e \in F : d # e => beats(d, e) \/ beats(e, d)
    BY <2>2
  <2>5. \A c, d, e \in F : beats(c, d) /\ beats(d, e) => beats(c, e)
    BY <2>2
  <2> HIDE DEF beats
  <2>6. Orders(F, ahead)
    BY <2>1, <2>3, <2>4, <2>5 DEF Orders
  <2> QED
    BY <2>6 DEF F, ahead
<1>6. Fuse(channels) = Ordered(Finds(channels), [d \in Finds(channels) |-> Better(channels, d)])
  BY Zenon DEF Fuse, Finds, Better
<1> QED
  BY <1>1, <1>3, <1>5, <1>6

(* What is fused is a list of documents, the ones that were found.          *)
LEMMA FusedListed ==
  ASSUME NEW channels \in Channels, Apart(channels)
  PROVE  /\ Fuse(channels) \in Seq(Documents) /\ ToSet(Fuse(channels)) = Finds(channels)
         /\ \A d \in Finds(channels) :
              /\ Cardinality(Better(channels, d)) + 1 \in DOMAIN Fuse(channels)
              /\ Fuse(channels)[Cardinality(Better(channels, d)) + 1] = d
         /\ \A i, j \in DOMAIN Fuse(channels) :
              i < j => Fuse(channels)[i] \in Better(channels, Fuse(channels)[j])
<1> DEFINE ahead == [d \in Finds(channels) |-> Better(channels, d)]
           n == Cardinality(Finds(channels))
<1>1. /\ IsFiniteSet(Finds(channels)) /\ Finds(channels) \subseteq Documents
      /\ Orders(Finds(channels), ahead) /\ Fuse(channels) = Ordered(Finds(channels), ahead)
  BY FusedInOrder
<1>2. \A d \in Finds(channels) : ahead[d] = Better(channels, d)
  OBVIOUS
<1> HIDE DEF ahead
<1>3. Ranks(Fuse(channels), Finds(channels), ahead)
  BY <1>1, OrderedPlaces
<1>4. /\ n \in Nat /\ Fuse(channels) \in [1..n -> Finds(channels)]
      /\ \A d \in Finds(channels) : /\ Cardinality(ahead[d]) + 1 \in 1..n
                                    /\ Fuse(channels)[Cardinality(ahead[d]) + 1] = d
      /\ \A i, j \in 1..n : i < j => Fuse(channels)[i] \in ahead[Fuse(channels)[j]]
  BY <1>3 DEF Ranks
<1> HIDE DEF n
<1>5. Fuse(channels) \in [1..n -> Documents] /\ DOMAIN Fuse(channels) = 1..n
  BY <1>1, <1>4
<1>6. Fuse(channels) \in Seq(Documents)
  BY <1>4, <1>5, IsASeq
<1>7. \A d \in Finds(channels) :
        /\ Cardinality(Better(channels, d)) + 1 \in DOMAIN Fuse(channels)
        /\ Fuse(channels)[Cardinality(Better(channels, d)) + 1] = d
  BY <1>2, <1>4, <1>5
<1>8. \A i, j \in DOMAIN Fuse(channels) :
        i < j => Fuse(channels)[i] \in Better(channels, Fuse(channels)[j])
  BY <1>2, <1>4, <1>5
<1>9. ToSet(Fuse(channels)) = Finds(channels)
  BY <1>4, <1>5, <1>7 DEF ToSet
<1> QED
  BY <1>6, <1>7, <1>8, <1>9

(* What the graph adds was not found before, and is no document twice.      *)
LEMMA LinkedListed ==
  ASSUME NEW seeds, NEW shown \in SUBSET Documents
  PROVE  /\ Listed(Linked(seeds, shown), Documents)
         /\ ToSet(Linked(seeds, shown)) \cap ToSet(seeds) = {}
<1> DEFINE S == {d \in shown \ ToSet(seeds) :
                   \E s \in ToSet(seeds) : <<s, d>> \in corpus.cites \/ <<d, s>> \in corpus.cites}
           ahead == [d \in S |-> {e \in S : e > d}]
           list == Ordered(S, ahead)
           n == Cardinality(S)
<1>1. IsFiniteSet(Documents) /\ Documents \subseteq Nat
  BY DocumentsAssumption, FS_Union DEF Documents
<1>2. S \subseteq Documents /\ S \cap ToSet(seeds) = {}
  OBVIOUS
<1>3. Linked(seeds, shown) = list
  BY Zenon DEF Linked, LatestFirst
<1> HIDE DEF S
<1>4. IsFiniteSet(S)
  BY <1>1, <1>2, FS_Subset
<1>5. \A d \in S : \A e : e \in ahead[d] <=> e \in S /\ e > d
  OBVIOUS
<1> HIDE DEF ahead
<1>6. Orders(S, ahead)
  <2>1. S \subseteq Nat
    BY <1>1, <1>2
  <2>2. \A d \in S : ahead[d] \subseteq S /\ d \notin ahead[d]
    BY <1>5, <2>1
  <2>3. \A d, e \in S : d # e => d \in ahead[e] \/ e \in ahead[d]
    BY <1>5, <2>1
  <2>4. \A d, e \in S : d \in ahead[e] => ahead[d] \subseteq ahead[e]
    <3>1. \A c, d, e \in S : c > d /\ d > e => c > e
      BY <2>1
    <3> QED
      BY <1>5, <3>1
  <2> QED
    BY <2>2, <2>3, <2>4 DEF Orders
<1>7. /\ n \in Nat /\ list \in [1..n -> S]
      /\ \A i, j \in 1..n : i < j => list[i] \in ahead[list[j]]
  <2>1. Ranks(list, S, ahead)
    BY <1>4, <1>6, OrderedPlaces
  <2> QED
    BY <2>1 DEF Ranks
<1> HIDE DEF list, n
<1>8. list \in [1..n -> Documents] /\ DOMAIN list = 1..n
  BY <1>2, <1>7
<1>9. list \in Seq(Documents)
  BY <1>7, <1>8, IsASeq
<1>10. \A i, j \in 1..n : i < j => list[i] # list[j]
  BY <1>5, <1>7, <1>6 DEF Orders
<1>11. \A i, j \in DOMAIN list : list[i] = list[j] => i = j
  BY <1>7, <1>8, <1>10
<1>12. ToSet(list) \subseteq S
  BY <1>7, <1>8 DEF ToSet
<1> QED
  BY <1>2, <1>3, <1>9, <1>11, <1>12 DEF Listed

(* What events and memories have for themselves, and what the graph adds to *)
(* them.                                                                    *)
Both(channels) ==
  /\ channels \in Channels /\ Apart(channels) /\ {1, 2} \subseteq DOMAIN channels
  /\ \A c \in DOMAIN channels : channels[c].weight = Keyword => c \in {1, 2}
  /\ channels[1].weight = Keyword /\ channels[2].weight = Keyword
  /\ ToSet(channels[1].hits) \subseteq Events /\ ToSet(channels[2].hits) \subseteq Claims

(* The best of one kind has nothing before it but the best of the other.    *)
LEMMA BestLead ==
  ASSUME NEW channels, Both(channels), NEW c \in {1, 2}, 1 \in DOMAIN channels[c].hits
  PROVE  \E k \in {1, 2} :
           /\ k \in DOMAIN Fuse(channels) /\ Fuse(channels)[k] = channels[c].hits[1]
           /\ k = 2 => ~(Fuse(channels)[1] \in Events /\ Fuse(channels)[2] \in Events)
<1> DEFINE d == channels[c].hits[1]
           o == channels[3 - c].hits[1]
<1>1. channels \in Channels /\ Apart(channels) /\ c \in DOMAIN channels /\ 3 - c \in {1, 2}
  BY DEF Both
<1>2. d \in Finds(channels) /\ Score(channels, d) = Reciprocal(Keyword, 1)
  BY <1>1, ScoreOfOne DEF Both, Finds, ToSet
<1>3. ASSUME NEW e \in Better(channels, d)
      PROVE  e = o /\ ~(d \in Events /\ e \in Events)
  <2>1. PICK b \in DOMAIN channels : e \in ToSet(channels[b].hits)
    BY DEF Better, Finds
  <2>2. PICK i \in DOMAIN channels[b].hits : e = channels[b].hits[i]
    BY <2>1 DEF ToSet
  <2>3. channels[b] \in [weight : {Keyword, Graph}, hits : Seq(Documents)]
    BY <1>1, ElementOfSeq, LenProperties DEF Channels
  <2>4. i \in Nat \ {0}
    BY <2>3, LenProperties
  <2>5. Score(channels, e) = Reciprocal(channels[b].weight, i)
    BY <1>1, <2>2, ScoreOfOne
  <2>6. ~(Score(channels, e) < Score(channels, d)) /\ e # d
    <3>1. Reciprocal(channels[b].weight, i) \in Nat /\ Reciprocal(Keyword, 1) \in Nat
      BY <2>3, <2>4, ReciprocalOrder
    <3>2. d \in Nat
      BY <1>1, <1>2, FusedInOrder, DocumentsAssumption DEF Documents
    <3> HIDE DEF d
    <3> QED
      BY <1>2, <2>5, <3>1, <3>2 DEF Better
  <2>7. channels[b].weight = Keyword /\ i = 1
    BY <1>2, <2>3, <2>4, <2>5, <2>6, ReciprocalOrder
  <2>8. b \in {1, 2} /\ b # c
    BY <2>2, <2>6, <2>7 DEF Both
  <2>9. b = 3 - c
    BY <2>8
  <2>10. d \in ToSet(channels[c].hits) /\ e \in ToSet(channels[b].hits)
    BY <2>1 DEF ToSet
  <2> HIDE DEF d
  <2>11. ~(d \in Events /\ e \in Events)
    <3>1. ToSet(channels[1].hits) \subseteq Events /\ ToSet(channels[2].hits) \subseteq Claims
      BY DEF Both
    <3>2. (c = 1 /\ b = 2) \/ (c = 2 /\ b = 1)
      BY <2>8
    <3> QED
      BY <2>10, <3>1, <3>2, DocumentsAssumption
  <2> QED
    BY <2>2, <2>7, <2>9, <2>11
<1> DEFINE k == Cardinality(Better(channels, d)) + 1
<1>4. k \in DOMAIN Fuse(channels) /\ Fuse(channels)[k] = d /\ Fuse(channels) \in Seq(Documents)
  BY <1>1, <1>2, FusedListed
<1>5. k \in {1, 2}
  <2>1. Better(channels, d) = {} \/ Better(channels, d) = {o}
    BY <1>3
  <2>2. CASE Better(channels, d) = {}
    BY <2>2, FS_EmptySet
  <2>3. CASE Better(channels, d) = {o}
    <3>1. Cardinality({o}) = 1
      BY FS_Singleton
    <3> QED
      BY <2>3, <3>1
  <2> QED
    BY <2>1, <2>2, <2>3
<1> HIDE DEF k, d
<1>6. ASSUME k = 2 PROVE ~(Fuse(channels)[1] \in Events /\ Fuse(channels)[2] \in Events)
  <2>1. 1 \in DOMAIN Fuse(channels)
    BY <1>4, <1>6, LenProperties
  <2>2. Fuse(channels)[1] \in Better(channels, Fuse(channels)[k])
    BY <1>1, <1>4, <1>6, <2>1, FusedListed
  <2> QED
    BY <1>3, <1>4, <1>6, <2>2
<1> QED
  BY <1>4, <1>5, <1>6 DEF d

(* What is within its session's share stays where it is, as long as all     *)
(* before it is.                                                            *)
LEMMA LeadStays ==
  ASSUME NEW hits \in Seq(Documents), NEW k \in {1, 2}, k \in DOMAIN hits,
         k = 2 => ~(hits[1] \in Events /\ hits[2] \in Events)
  PROVE  /\ Diversify(hits) \in Seq(Documents)
         /\ k \in DOMAIN Diversify(hits) /\ Diversify(hits)[k] = hits[k]
<1> DEFINE within ==
             {i \in DOMAIN hits :
                hits[i] \in Claims \/ Cardinality({j \in 1..i : hits[j] \in Events}) <= PerSession}
           first == Picked(hits, within)
           rest == Picked(hits, DOMAIN hits \ within)
           n == Cardinality(within)
<1>1. DOMAIN hits = 1..Len(hits) /\ Len(hits) \in Nat
  BY LenProperties
<1>2. PerSession \in Nat /\ PerSession >= 1
  BY LimitsAssumption
<1> DEFINE share(i) == {j \in 1..i : hits[j] \in Events}
<1>3. ASSUME NEW i \in 1..k PROVE Cardinality(share(i)) \in Nat /\ Cardinality(share(i)) <= 1
  <2>1. share(i) = {} \/ share(i) = {1} \/ share(i) = {2}
    <3>1. 1..i \subseteq {1, 2} /\ (2 \in 1..i => k = 2)
      OBVIOUS
    <3> QED
      BY <3>1
  <2> HIDE DEF share
  <2>2. Cardinality({}) = 0 /\ Cardinality({1}) = 1 /\ Cardinality({2}) = 1
    BY FS_EmptySet, FS_Singleton
  <2>3. Cardinality(share(i)) = 0 \/ Cardinality(share(i)) = 1
    BY <2>1, <2>2, Zenon
  <2> QED
    BY <2>3
<1>4. 1..k \subseteq within
  <2>1. 1..k \subseteq DOMAIN hits
    BY <1>1
  <2>2. \A i \in DOMAIN hits : Cardinality(share(i)) <= PerSession => i \in within
    OBVIOUS
  <2> HIDE DEF share, within
  <2>3. \A i \in 1..k : Cardinality(share(i)) <= PerSession
    BY <1>2, <1>3
  <2> QED
    BY <2>1, <2>2, <2>3
<1>5. Diversify(hits) = first \o rest
  BY Zenon DEF Diversify
<1> HIDE DEF within
<1>6. within \in SUBSET (DOMAIN hits) /\ DOMAIN hits \ within \in SUBSET (DOMAIN hits)
  BY DEF within
<1>7. /\ n \in Nat /\ first \in Seq(Documents) /\ Len(first) = n
      /\ \E at \in [1..n -> within] :
           /\ \A m \in 1..n : first[m] = hits[at[m]]
           /\ \A i, j \in 1..n : i < j => at[i] < at[j]
           /\ \A i \in within : \E m \in 1..n : at[m] = i
  <2>1. first \in Seq(Documents) /\ TakenFrom(hits, within, first)
    BY <1>6, PickedPlaces
  <2> HIDE DEF first
  <2> QED
    BY <2>1, Zenon DEF TakenFrom
<1>8. rest \in Seq(Documents)
  BY <1>6, PickedPlaces
<1> HIDE DEF first, rest, n
<1>9. PICK at \in [1..n -> within] :
        /\ \A m \in 1..n : first[m] = hits[at[m]]
        /\ \A i, j \in 1..n : i < j => at[i] < at[j]
        /\ \A i \in within : \E m \in 1..n : at[m] = i
  BY <1>7
<1>10. \A m \in 1..n : at[m] \in Nat \ {0}
  BY <1>1, <1>6, <1>9
<1>11. 1 \in 1..n /\ at[1] = 1
  <2>1. PICK m \in 1..n : at[m] = 1
    BY <1>4, <1>9
  <2>2. m = 1
    <3>1. 1 \in 1..n /\ (1 < m => at[1] < at[m])
      BY <1>7, <1>9
    <3> QED
      BY <1>10, <2>1, <3>1
  <2> QED
    BY <2>1, <2>2
<1>12. k \in 1..n /\ at[k] = k
  <2>1. CASE k = 1
    BY <1>11, <2>1
  <2>2. CASE k = 2
    <3>1. PICK m \in 1..n : at[m] = 2
      BY <1>4, <1>9, <2>2
    <3>2. m # 1
      BY <1>11, <3>1
    <3>3. 2 \in 1..n /\ m \in Nat
      BY <1>7, <3>2
    <3>4. (2 < m => at[2] < at[m]) /\ at[1] < at[2]
      BY <1>9, <1>11, <3>3
    <3>5. m = 2
      <4>1. at[2] \in Nat
        BY <1>10, <3>3
      <4> QED
        BY <1>11, <3>1, <3>2, <3>3, <3>4, <4>1
    <3> QED
      BY <2>2, <3>1, <3>3, <3>5
  <2> QED
    BY <2>1, <2>2
<1>13. first[k] = hits[k]
  BY <1>9, <1>12
<1>14. first \o rest \in Seq(Documents) /\ DOMAIN (first \o rest) = 1..(n + Len(rest))
  BY <1>7, <1>8, ConcatProperties, LenProperties
<1>15. k \in 1..(n + Len(rest)) /\ (first \o rest)[k] = first[k]
  <2>1. Len(rest) \in Nat /\ k \in 1..(n + Len(rest))
    BY <1>7, <1>8, <1>12, LenProperties
  <2> QED
    BY <1>7, <1>8, <1>12, <2>1, ConcatProperties
<1> QED
  BY <1>5, <1>13, <1>14, <1>15

LEMMA NothingMatches ==
  ASSUME NEW kind, NEW shown, NEW depth \in Nat PROVE Matches(<<>>, kind, shown, depth) = <<>>
<1> DEFINE kept == Picked(<<>>, {})
<1>1. <<>> \in Seq(Documents) /\ {} \in SUBSET (DOMAIN <<>>) /\ Cardinality({}) = 0
  BY FS_EmptySet
<1>2. kept \in Seq(Documents) /\ Len(kept) = 0
  BY <1>1, PickedPlaces DEF TakenFrom
<1>3. {i \in DOMAIN <<>> : <<>>[i] \in kind \cap shown} = {}
  OBVIOUS
<1>4. Matches(<<>>, kind, shown, depth) = Cut(kept, depth)
  BY <1>3, Zenon DEF Matches
<1> HIDE DEF kept
<1>5. Cut(kept, depth) \in Seq(Documents) /\ Len(Cut(kept, depth)) = 0
  <2>1. /\ Cut(kept, depth) \in Seq(Documents)
        /\ Len(Cut(kept, depth)) = IF depth <= Len(kept) THEN depth ELSE Len(kept)
    BY <1>2, CutPlaces
  <2> QED
    BY <1>2, <2>1
<1> QED
  BY <1>4, <1>5, EmptySeq

LEMMA ThirdAdded ==
  ASSUME NEW a, NEW b, NEW c PROVE <<a, b>> \o <<c>> = <<a, b, c>>
<1> DEFINE S == {a, b, c}
<1>1. <<a, b>> \in Seq(S) /\ <<c>> \in Seq(S) /\ <<a, b, c>> \in Seq(S)
  OBVIOUS
<1>2. Len(<<a, b>>) = 2 /\ Len(<<c>>) = 1 /\ Len(<<a, b, c>>) = 3
  OBVIOUS
<1> HIDE DEF S
<1>3. /\ <<a, b>> \o <<c>> \in Seq(S) /\ Len(<<a, b>> \o <<c>>) = 3
      /\ \A i \in 1..3 : (<<a, b>> \o <<c>>)[i] = IF i <= 2 THEN <<a, b>>[i] ELSE <<c>>[i - 2]
  BY <1>1, <1>2, ConcatProperties
<1>4. \A i \in 1..3 : (<<a, b>> \o <<c>>)[i] = <<a, b, c>>[i]
  BY <1>3
<1> QED
  BY <1>1, <1>2, <1>3, <1>4, SeqEqual

(* The answer of the words alone has the best event and the best memory.    *)
LEMMA BestFound ==
  ASSUME corpus \in Corpora, corpus.meaning = <<>>,
         NEW query \in Queries, ~query.expand, query.limit >= 2,
         NEW shown \in SUBSET Documents, NEW vectors, NEW kind \in {Events, Claims}
  PROVE  ToSet(Matches(corpus.plain, kind, shown, 1)) \subseteq ToSet(Whole(query, shown, vectors))
<1> DEFINE limit == query.limit
           byEvents == Matches(corpus.plain, Events, shown, limit)
           byClaims == Matches(corpus.plain, Claims, shown, limit)
           asked == Asked(byEvents, byClaims)
           linked == Linked(Fuse(asked), shown)
           all == asked \o Added(Graph, linked)
<1>1. limit \in Nat \ {0} /\ Depth(limit) = limit
  BY LimitsAssumption DEF Queries, Depth
<1>2. Listed(corpus.plain, Documents)
  BY CorporaAssumption DEF Listed, Documents
<1>3. /\ Listed(byEvents, Events \cap shown) /\ Listed(byClaims, Claims \cap shown)
      /\ \A d \in ToSet(Matches(corpus.plain, Events, shown, 1)) :
           1 \in DOMAIN byEvents /\ byEvents[1] = d
      /\ \A d \in ToSet(Matches(corpus.plain, Claims, shown, 1)) :
           1 \in DOMAIN byClaims /\ byClaims[1] = d
  BY <1>1, <1>2, MatchesListed
<1>4. Whole(query, shown, vectors) = Cut(Diversify(Fuse(all)), limit)
  <2>1. Matches(corpus.meaning, Documents, shown \cap vectors, Depth(limit)) = <<>>
    BY <1>1, NothingMatches
  <2>2. Asked(byEvents, byClaims) \o Added(Vector, <<>>) = asked
    BY DEF Asked, Added
  <2>3. asked \o <<>> = asked
    BY DEF Asked
  <2> HIDE DEF byEvents, byClaims
  <2>4. Whole(query, shown, vectors) = Ranked(query, byEvents, byClaims, <<>>, shown)
    BY <1>1, <2>1 DEF Whole, byEvents, byClaims
  <2> HIDE DEF asked
  <2> QED
    BY <2>2, <2>3, <2>4 DEF Ranked, asked
<1> HIDE DEF byEvents, byClaims, limit
<1>5. /\ Listed(byEvents, Documents) /\ Listed(byClaims, Documents)
      /\ ToSet(byEvents) \subseteq Events /\ ToSet(byClaims) \subseteq Claims
  BY <1>3, SeqMonotonic, ElementOfSeq, LenProperties DEF Listed, Documents, ToSet
<1>6. ToSet(byEvents) \cap ToSet(byClaims) = {}
  BY <1>5, DocumentsAssumption
<1>7. asked \in Channels /\ Apart(asked) /\ Finds(asked) = ToSet(byEvents) \cup ToSet(byClaims)
  <2>1. asked = <<Channel(Keyword, byEvents), Channel(Keyword, byClaims)>>
    BY DEF Asked
  <2> HIDE DEF asked
  <2>2. DOMAIN asked = {1, 2} /\ asked[1].hits = byEvents /\ asked[2].hits = byClaims
    BY <2>1 DEF Channel
  <2>3. asked \in Channels
    BY <1>5, <2>1 DEF Channel, Channels, Listed
  <2>4. Apart(asked)
    BY <1>5, <1>6, <2>2 DEF Apart
  <2>5. Finds(asked) = ToSet(byEvents) \cup ToSet(byClaims)
    BY <2>2 DEF Finds
  <2> QED
    BY <2>3, <2>4, <2>5
<1>8. ToSet(Fuse(asked)) = ToSet(byEvents) \cup ToSet(byClaims)
  BY <1>7, FusedListed
<1>9. Listed(linked, Documents) /\ ToSet(linked) \cap (ToSet(byEvents) \cup ToSet(byClaims)) = {}
  BY <1>8, LinkedListed
<1>10. Both(all) /\ all[1].hits = byEvents /\ all[2].hits = byClaims
  <2> DEFINE words == <<Channel(Keyword, byEvents), Channel(Keyword, byClaims)>>
             graph == Channel(Graph, linked)
  <2>1. asked = words
    BY DEF Asked
  <2> HIDE DEF linked, asked
  <2>2. CASE linked = <<>>
    <3>1. all = words
      BY <2>1, <2>2 DEF Added
    <3> HIDE DEF all
    <3>2. /\ DOMAIN all = {1, 2} /\ all[1] = Channel(Keyword, byEvents)
          /\ all[2] = Channel(Keyword, byClaims)
      BY <3>1
    <3>3. all \in Channels
      BY <1>5, <3>1 DEF Channel, Channels, Listed
    <3>4. Apart(all)
      BY <1>5, <1>6, <3>2 DEF Apart, Channel
    <3> QED
      BY <1>5, <3>2, <3>3, <3>4 DEF Both, Channel
  <2>3. CASE linked # <<>>
    <3>1. all = <<Channel(Keyword, byEvents), Channel(Keyword, byClaims), graph>>
      <4>1. Added(Graph, linked) = <<graph>>
        BY <2>3 DEF Added
      <4> QED
        BY <2>1, <4>1, ThirdAdded, Zenon
    <3> HIDE DEF all
    <3>2. /\ DOMAIN all = {1, 2, 3} /\ all[1] = Channel(Keyword, byEvents)
          /\ all[2] = Channel(Keyword, byClaims) /\ all[3] = graph
      BY <3>1
    <3>3. all \in Channels
      BY <1>5, <1>9, <3>1 DEF Channel, Channels, Listed
    <3>4. Apart(all)
      BY <1>5, <1>6, <1>9, <3>2 DEF Apart, Channel
    <3> QED
      BY <1>5, <3>2, <3>3, <3>4 DEF Both, Channel, Keyword, Graph
  <2> QED
    BY <2>2, <2>3
<1> HIDE DEF all
<1>11. ASSUME NEW c \in {1, 2}, 1 \in DOMAIN all[c].hits
       PROVE  all[c].hits[1] \in ToSet(Whole(query, shown, vectors))
  <2>1. PICK k \in {1, 2} :
          /\ k \in DOMAIN Fuse(all) /\ Fuse(all)[k] = all[c].hits[1]
          /\ k = 2 => ~(Fuse(all)[1] \in Events /\ Fuse(all)[2] \in Events)
    BY <1>10, <1>11, BestLead
  <2> DEFINE sorted == Diversify(Fuse(all))
  <2>2. Fuse(all) \in Seq(Documents)
    BY <1>10, FusedListed DEF Both
  <2>3. sorted \in Seq(Documents) /\ k \in DOMAIN sorted /\ sorted[k] = all[c].hits[1]
    BY <2>1, <2>2, LeadStays
  <2> HIDE DEF sorted
  <2>4. k \in 1..Len(sorted) /\ Len(sorted) \in Nat
    BY <2>3, LenProperties
  <2>5. /\ Cut(sorted, limit) \in Seq(Documents) 
        /\ Len(Cut(sorted, limit)) = IF limit <= Len(sorted) THEN limit ELSE Len(sorted)
        /\ \A i \in 1..Len(Cut(sorted, limit)) : Cut(sorted, limit)[i] = sorted[i]
    BY <1>1, <2>3, CutPlaces
  <2>6. k \in 1..Len(Cut(sorted, limit))
    BY <1>1, <2>4, <2>5 DEF limit
  <2>7. k \in DOMAIN Cut(sorted, limit) /\ Cut(sorted, limit)[k] = sorted[k]
    BY <2>5, <2>6, LenProperties
  <2> QED
    BY <1>4, <2>3, <2>7 DEF sorted, ToSet
<1> QED
  BY <1>3, <1>10, <1>11

(* The words of a ledger and what is written to it stay what they may be,   *)
(* and so does what is asked.                                               *)
AskedInv ==
  /\ corpus \in Corpora /\ visible \subseteq Documents
  /\ search.at # "none" => search.query \in Queries
  /\ answer # NoAnswer => answer.query \in Queries /\ answer.visible \subseteq Documents

LEMMA AskedBegins == SearchInit => AskedInv
BY DEF SearchInit, AskedInv, NoSearch

LEMMA AskedStep == AskedInv /\ [SearchNext]_searchVars => AskedInv'
<1> SUFFICES ASSUME AskedInv, [SearchNext]_searchVars PROVE AskedInv'
  OBVIOUS
<1>1. CASE Search
  <2>1. PICK query \in Queries :
          IF query \in DOMAIN Consulted.answers
          THEN answer' = Answer(query, Consulted.answers[query], TRUE) /\ UNCHANGED search
          ELSE search' = [NoSearch EXCEPT !.at = "events", !.query = query] /\ UNCHANGED answer
    BY <1>1 DEF Search
  <2>2. search.at = "none" /\ UNCHANGED <<corpus, visible>>
    BY <1>1 DEF Search, NoSearch
  <2>3. CASE query \in DOMAIN Consulted.answers
    <3>1. answer'.query = query /\ answer'.visible = visible /\ search' = search
      BY <2>1, <2>3 DEF Answer
    <3> QED
      BY <2>2, <3>1 DEF AskedInv
  <2>4. CASE query \notin DOMAIN Consulted.answers
    <3>1. search'.query = query /\ answer' = answer
      BY <2>1, <2>4 DEF NoSearch
    <3> QED
      BY <2>2, <3>1 DEF AskedInv
  <2> QED
    BY <2>3, <2>4
<1>2. CASE SearchEvents
  BY <1>2 DEF SearchEvents, AskedInv
<1>3. CASE SearchMemories
  BY <1>3 DEF SearchMemories, AskedInv
<1>4. CASE VectorChannel
  BY <1>4 DEF VectorChannel, AskedInv
<1>5. CASE FinishSearch
  BY <1>5 DEF FinishSearch, AskedInv, Answer, NoSearch
<1>6. CASE WriteHere
  BY <1>6 DEF WriteHere, Write, AskedInv, Documents
<1>7. CASE WriteElsewhere
  BY <1>7 DEF WriteElsewhere, Write, AskedInv, Documents
<1>8. CASE UNCHANGED searchVars
  BY <1>8 DEF searchVars, AskedInv
<1> QED
  BY <1>1, <1>2, <1>3, <1>4, <1>5, <1>6, <1>7, <1>8 DEF SearchNext

(* An answer of the words alone that has room for two names the best event  *)
(* and the best memory among them, in any ledger of any size: the keyword   *)
(* channels are ranked apart, what the graph adds is behind the first of    *)
(* both, and a session's share never costs the first event its place.       *)
THEOREM BestOfBothSurface == SearchSpec => []BestOfBoth
<1>1. AskedInv /\ AnswersAreCurrent => BestOfBoth
  <2> SUFFICES ASSUME AskedInv, AnswersAreCurrent, answer # NoAnswer, corpus.meaning = <<>>,
                      answer.quiet, ~answer.query.expand, answer.query.limit >= 2,
                      NEW kind \in {Events, Claims}
               PROVE  ToSet(Matches(corpus.plain, kind, answer.visible, 1))
                        \subseteq ToSet(answer.hits)
    BY DEF BestOfBoth
  <2>1. PICK vectors \in {answer.embedded, {}} :
          answer.hits = Whole(answer.query, answer.visible, vectors)
    BY DEF AnswersAreCurrent
  <2>2. corpus \in Corpora /\ answer.query \in Queries /\ answer.visible \in SUBSET Documents
    BY DEF AskedInv
  <2> QED
    BY <2>1, <2>2, BestFound
<1>2. SearchSpec => []AskedInv
  BY AskedBegins, AskedStep, PTL DEF SearchSpec
<1> QED
  BY <1>1, <1>2, AnswersStayCurrent, PTL

----------------------------------------------------------------------------
(* Memories.  What is said of them is said of any list ms of memories and   *)
(* any list wd of who withdrew them, those before a write and those after.  *)

Memo == [claim : Claim, versions : Seq(Version)]

MemosTyped(ms) ==
  /\ ms \in Seq(Memo) /\ Len(ms) <= MaxMemories
  /\ \A n \in DOMAIN ms : Len(ms[n].versions) \in 1..MaxVersions

KnownIn(ms, e) == e[1] \in DOMAIN ms /\ e[2] \in DOMAIN ms[e[1]].versions

HumanIn(ms, n) == ms[n].claim.authority = "human_correction"

EdgeIn(ms, e) ==
  \E n \in DOMAIN ms : \E k \in DOMAIN ms[n].versions : e \in ms[n].versions[k].supersedes

(* m is one of the Successors of n, and of its Heirs.                       *)
TakesPlace(ms, m, n) ==
  \E k \in DOMAIN ms[m].versions : \E e \in ms[m].versions[k].supersedes : e[1] = n

Heir(ms, m, n) ==
  /\ m \in DOMAIN ms
  /\ \A S \in SUBSET DOMAIN ms :
       n \in S /\ (\A k \in S : \A j \in DOMAIN ms : TakesPlace(ms, j, k) => j \in S) => m \in S

IdOf(ms, n) == <<n, Len(ms[n].versions)>>

StatusOf(ms, n) == ms[n].versions[Len(ms[n].versions)].status

(* A memory nobody has to stand for: it was withdrawn, or its latest        *)
(* version, by which it is current or invalid, was not superseded.          *)
RestsIn(ms, wd, n) ==
  wd[n] # "no" \/ (StatusOf(ms, n) \in {"current", "invalid"} /\ ~EdgeIn(ms, IdOf(ms, n)))

AllRest(ms, wd) ==
  \A n \in DOMAIN ms : StatusOf(ms, n) # "proposed" => \E m : Heir(ms, m, n) /\ RestsIn(ms, wd, m)

HumanRest(ms, wd) ==
  \A n \in DOMAIN ms : HumanIn(ms, n) =>
    \E m : Heir(ms, m, n) /\ HumanIn(ms, m) /\ RestsIn(ms, wd, m)

(* What a version supersedes is there; only derived claims are proposed, by *)
(* their first version, found invalid or evicted.                           *)
VersionsSound(ms, wd) ==
  \A n \in DOMAIN ms :
    /\ wd[n] = "evict" => ~HumanIn(ms, n)
    /\ \A k \in DOMAIN ms[n].versions :
         /\ \A e \in ms[n].versions[k].supersedes : KnownIn(ms, e)
         /\ ms[n].versions[k].status = "proposed" => k = 1 /\ ~HumanIn(ms, n)
         /\ ms[n].versions[k].supersedes # {} => ms[n].versions[k].status = "current"
         /\ HumanIn(ms, n) => ms[n].versions[k].status \in {"current", "superseded"}

(* ms2 is ms with a version v more of memory t, which may be new.           *)
Before(ms, t) == IF t \in DOMAIN ms THEN Len(ms[t].versions) ELSE 0

Grown(ms, ms2, t, v) ==
  /\ MemosTyped(ms) /\ MemosTyped(ms2)
  /\ DOMAIN ms2 = DOMAIN ms \cup {t}
  /\ \A n \in DOMAIN ms : ms2[n].claim = ms[n].claim
  /\ \A n \in DOMAIN ms \ {t} : ms2[n].versions = ms[n].versions
  /\ Len(ms2[t].versions) = Before(ms, t) + 1
  /\ ms2[t].versions[Before(ms, t) + 1] = v
  /\ \A k \in 1..Before(ms, t) : ms2[t].versions[k] = ms[t].versions[k]

----------------------------------------------------------------------------
LEMMA HeirOfItself == ASSUME NEW ms, NEW n \in DOMAIN ms PROVE Heir(ms, n, n)
BY DEF Heir

LEMMA HeirOfHeir ==
  ASSUME NEW ms, NEW n, NEW m, Heir(ms, m, n), NEW j \in DOMAIN ms, TakesPlace(ms, j, m)
  PROVE  Heir(ms, j, n)
BY DEF Heir

LEMMA HeirOfSuccessor ==
  ASSUME NEW ms, NEW n, NEW j \in DOMAIN ms, TakesPlace(ms, j, n), NEW m, Heir(ms, m, j)
  PROVE  Heir(ms, m, n)
BY DEF Heir

LEMMA HeirsStay ==
  ASSUME NEW ms, NEW ms2, DOMAIN ms \subseteq DOMAIN ms2,
         \A j, k \in DOMAIN ms : TakesPlace(ms, j, k) => TakesPlace(ms2, j, k),
         NEW n \in DOMAIN ms, NEW m, Heir(ms, m, n)
  PROVE  Heir(ms2, m, n)
<1>1. m \in DOMAIN ms2
  BY DEF Heir
<1>2. ASSUME NEW S \in SUBSET DOMAIN ms2, n \in S,
             \A k \in S : \A j \in DOMAIN ms2 : TakesPlace(ms2, j, k) => j \in S
      PROVE  m \in S
  <2> DEFINE old == S \cap DOMAIN ms
  <2>1. \A k \in old : \A j \in DOMAIN ms : TakesPlace(ms, j, k) => j \in old
    BY <1>2
  <2>2. old \in SUBSET DOMAIN ms /\ n \in old
    BY <1>2
  <2>3. m \in old
    BY <2>1, <2>2 DEF Heir
  <2> QED
    BY <2>3
<1> QED
  BY <1>1, <1>2 DEF Heir

(* The versions of a memory are numbered from 1.                            *)
LEMMA Numbered ==
  ASSUME NEW ms, MemosTyped(ms), NEW n \in DOMAIN ms
  PROVE  /\ DOMAIN ms = 1..Len(ms) /\ Len(ms) \in Nat
         /\ ms[n] \in Memo /\ ms[n].versions \in Seq(Version)
         /\ DOMAIN ms[n].versions = 1..Len(ms[n].versions)
         /\ Len(ms[n].versions) \in Nat \ {0}
         /\ \A k \in DOMAIN ms[n].versions : ms[n].versions[k] \in Version
<1>1. ms \in Seq(Memo) /\ DOMAIN ms = 1..Len(ms) /\ Len(ms) \in Nat
  BY DEF MemosTyped
<1>2. ms[n] \in Memo
  BY <1>1
<1>3. ms[n].versions \in Seq(Version)
  BY <1>2 DEF Memo
<1>4. Len(ms[n].versions) \in 1..MaxVersions
  BY DEF MemosTyped
<1> QED
  BY <1>1, <1>2, <1>3, <1>4, BoundsOfMemories

LEMMA GrownNumbers ==
  ASSUME NEW ms, NEW ms2, NEW t, NEW v, Grown(ms, ms2, t, v)
  PROVE  /\ Before(ms, t) \in Nat
         /\ DOMAIN ms2[t].versions = 1..(Before(ms, t) + 1)
         /\ t \in DOMAIN ms => DOMAIN ms[t].versions = 1..Before(ms, t)
<1>1. t \in DOMAIN ms2
  BY DEF Grown
<1>2. DOMAIN ms2[t].versions = 1..Len(ms2[t].versions)
  BY <1>1, Numbered DEF Grown
<1>3. t \in DOMAIN ms => DOMAIN ms[t].versions = 1..Len(ms[t].versions) /\ Len(ms[t].versions) \in Nat
  BY Numbered DEF Grown
<1> QED
  BY <1>2, <1>3 DEF Grown, Before

(* Every version there was is there.                                        *)
LEMMA VersionsStay ==
  ASSUME NEW ms, NEW ms2, NEW t, NEW v, Grown(ms, ms2, t, v),
         NEW n \in DOMAIN ms, NEW k \in DOMAIN ms[n].versions
  PROVE  n \in DOMAIN ms2 /\ k \in DOMAIN ms2[n].versions /\ ms2[n].versions[k] = ms[n].versions[k]
<1>1. CASE n = t
  <2>1. k \in 1..Before(ms, t) /\ Before(ms, t) \in Nat
    BY <1>1, GrownNumbers
  <2>2. t \in DOMAIN ms2 /\ ms2[t].versions[k] = ms[t].versions[k]
    BY <2>1 DEF Grown
  <2>3. DOMAIN ms2[t].versions = 1..(Before(ms, t) + 1)
    BY GrownNumbers
  <2>4. k \in 1..(Before(ms, t) + 1)
    BY <2>1
  <2> QED
    BY <1>1, <2>2, <2>3, <2>4
<1>2. CASE n # t
  BY <1>2 DEF Grown
<1> QED
  BY <1>1, <1>2

LEMMA OneVersionMore ==
  ASSUME NEW ms, NEW ms2, NEW t, NEW v, Grown(ms, ms2, t, v),
         NEW n \in DOMAIN ms2, NEW k \in DOMAIN ms2[n].versions
  PROVE  \/ n \in DOMAIN ms /\ k \in DOMAIN ms[n].versions /\ ms2[n].versions[k] = ms[n].versions[k]
         \/ n = t /\ k = Before(ms, t) + 1 /\ ms2[n].versions[k] = v
<1>1. CASE n # t
  BY <1>1 DEF Grown
<1>2. CASE n = t /\ k = Before(ms, t) + 1
  BY <1>2 DEF Grown
<1>3. CASE n = t /\ k # Before(ms, t) + 1
  <2>1. k \in 1..Before(ms, t) /\ Before(ms, t) \in Nat
    BY <1>3, GrownNumbers
  <2>2. t \in DOMAIN ms
    BY <2>1 DEF Before
  <2>3. ms2[t].versions[k] = ms[t].versions[k]
    BY <2>1 DEF Grown
  <2>4. k \in DOMAIN ms[t].versions
    BY <2>1, <2>2, GrownNumbers
  <2> QED
    BY <1>3, <2>2, <2>3, <2>4
<1> QED
  BY <1>1, <1>2, <1>3

LEMMA KnownStays ==
  ASSUME NEW ms, NEW ms2, NEW t, NEW v, Grown(ms, ms2, t, v), NEW e, KnownIn(ms, e)
  PROVE  KnownIn(ms2, e)
BY VersionsStay DEF KnownIn

LEMMA EdgesStay ==
  ASSUME NEW ms, NEW ms2, NEW t, NEW v, Grown(ms, ms2, t, v), NEW e, EdgeIn(ms, e)
  PROVE  EdgeIn(ms2, e)
BY VersionsStay DEF EdgeIn

LEMMA EdgesAdded ==
  ASSUME NEW ms, NEW ms2, NEW t, NEW v, Grown(ms, ms2, t, v), NEW e
  PROVE  /\ EdgeIn(ms2, e) => EdgeIn(ms, e) \/ e \in v.supersedes
         /\ e \in v.supersedes => EdgeIn(ms2, e) /\ TakesPlace(ms2, t, e[1])
<1>1. ASSUME EdgeIn(ms2, e) PROVE EdgeIn(ms, e) \/ e \in v.supersedes
  <2>1. PICK n \in DOMAIN ms2 : \E k \in DOMAIN ms2[n].versions : e \in ms2[n].versions[k].supersedes
    BY <1>1 DEF EdgeIn
  <2> QED
    BY <2>1, OneVersionMore DEF EdgeIn
<1>2. ASSUME e \in v.supersedes PROVE EdgeIn(ms2, e) /\ TakesPlace(ms2, t, e[1])
  <2>1. /\ t \in DOMAIN ms2 /\ Before(ms, t) + 1 \in DOMAIN ms2[t].versions
        /\ ms2[t].versions[Before(ms, t) + 1] = v
    BY GrownNumbers DEF Grown
  <2> QED
    BY <1>2, <2>1 DEF EdgeIn, TakesPlace
<1> QED
  BY <1>1, <1>2

LEMMA GrownHeirs ==
  ASSUME NEW ms, NEW ms2, NEW t, NEW v, Grown(ms, ms2, t, v),
         NEW n \in DOMAIN ms, NEW m, Heir(ms, m, n)
  PROVE  Heir(ms2, m, n)
<1>1. \A j, k \in DOMAIN ms : TakesPlace(ms, j, k) => TakesPlace(ms2, j, k)
  BY VersionsStay DEF TakesPlace
<1>2. DOMAIN ms \subseteq DOMAIN ms2
  BY DEF Grown
<1> QED
  BY <1>1, <1>2, HeirsStay

LEMMA LatestStays ==
  ASSUME NEW ms, NEW ms2, NEW t, NEW v, Grown(ms, ms2, t, v), NEW n \in DOMAIN ms, n # t
  PROVE  IdOf(ms2, n) = IdOf(ms, n) /\ StatusOf(ms2, n) = StatusOf(ms, n)
BY DEF Grown, IdOf, StatusOf

(* The version that was added is the latest one, and nothing supersedes it. *)
LEMMA LatestAdded ==
  ASSUME NEW ms, NEW ms2, NEW t, NEW v, Grown(ms, ms2, t, v), NEW wd, VersionsSound(ms, wd),
         \A e \in v.supersedes : KnownIn(ms, e)
  PROVE  StatusOf(ms2, t) = v.status /\ ~EdgeIn(ms2, IdOf(ms2, t))
<1>1. StatusOf(ms2, t) = v.status /\ IdOf(ms2, t) = <<t, Before(ms, t) + 1>>
  BY DEF StatusOf, IdOf, Grown
<1>2. ~KnownIn(ms, <<t, Before(ms, t) + 1>>)
  BY GrownNumbers DEF KnownIn
<1>3. \A e : EdgeIn(ms, e) => KnownIn(ms, e)
  BY DEF EdgeIn, VersionsSound
<1> QED
  BY <1>1, <1>2, <1>3, EdgesAdded

----------------------------------------------------------------------------
(* A version v of memory t that the code may append, by what is known of it *)
(* when it is decided on, and a retirement of the version that is latest.   *)
Fits(ms, ms2, t, v) ==
  /\ \A e \in v.supersedes : KnownIn(ms, e)
  /\ v.supersedes # {} => v.status = "current"
  /\ (\E e \in v.supersedes : HumanIn(ms, e[1])) => HumanIn(ms2, t)
  /\ IF t \in DOMAIN ms THEN v.status \in {"current", "invalid", "superseded"}
                        ELSE v.status \in {"current", "proposed"}
  /\ v.status \in {"proposed", "invalid"} => ~HumanIn(ms2, t)

InTurn(ms, t, v) == v.status = "superseded" => EdgeIn(ms, IdOf(ms, t))

(* wd2 is wd, with a place for a memory that is new.                        *)
Noted(ms, ms2, wd, wd2) ==
  \A n \in DOMAIN ms2 : wd2[n] = IF n \in DOMAIN ms THEN wd[n] ELSE "no"

LEMMA VersionsStaySound ==
  ASSUME NEW ms, NEW ms2, NEW t, NEW v, Grown(ms, ms2, t, v), NEW wd, NEW wd2,
         Noted(ms, ms2, wd, wd2), VersionsSound(ms, wd), Fits(ms, ms2, t, v)
  PROVE  VersionsSound(ms2, wd2)
<1> SUFFICES ASSUME NEW n \in DOMAIN ms2
             PROVE  /\ wd2[n] = "evict" => ~HumanIn(ms2, n)
                    /\ \A k \in DOMAIN ms2[n].versions :
                         /\ \A e \in ms2[n].versions[k].supersedes : KnownIn(ms2, e)
                         /\ ms2[n].versions[k].status = "proposed" => k = 1 /\ ~HumanIn(ms2, n)
                         /\ ms2[n].versions[k].supersedes # {} => ms2[n].versions[k].status = "current"
                         /\ HumanIn(ms2, n) => ms2[n].versions[k].status \in {"current", "superseded"}
  BY DEF VersionsSound
<1>1. n \in DOMAIN ms => (HumanIn(ms2, n) <=> HumanIn(ms, n))
  BY DEF Grown, HumanIn
<1>2. wd2[n] = "evict" => ~HumanIn(ms2, n)
  BY <1>1 DEF VersionsSound, Noted
<1>3. ASSUME NEW k \in DOMAIN ms2[n].versions
      PROVE  /\ \A e \in ms2[n].versions[k].supersedes : KnownIn(ms2, e)
             /\ ms2[n].versions[k].status = "proposed" => k = 1 /\ ~HumanIn(ms2, n)
             /\ ms2[n].versions[k].supersedes # {} => ms2[n].versions[k].status = "current"
             /\ HumanIn(ms2, n) => ms2[n].versions[k].status \in {"current", "superseded"}
  <2>1. CASE n \in DOMAIN ms /\ k \in DOMAIN ms[n].versions /\ ms2[n].versions[k] = ms[n].versions[k]
    <3>1. /\ \A e \in ms[n].versions[k].supersedes : KnownIn(ms, e)
          /\ ms[n].versions[k].status = "proposed" => k = 1 /\ ~HumanIn(ms, n)
          /\ ms[n].versions[k].supersedes # {} => ms[n].versions[k].status = "current"
          /\ HumanIn(ms, n) => ms[n].versions[k].status \in {"current", "superseded"}
      BY <2>1 DEF VersionsSound
    <3>2. \A e \in ms[n].versions[k].supersedes : KnownIn(ms2, e)
      BY <3>1, KnownStays
    <3> QED
      BY <1>1, <2>1, <3>1, <3>2
  <2>2. CASE n = t /\ k = Before(ms, t) + 1 /\ ms2[n].versions[k] = v
    <3>1. \A e \in v.supersedes : KnownIn(ms2, e)
      BY KnownStays DEF Fits
    <3>2. v.status = "proposed" => t \notin DOMAIN ms
      BY DEF Fits
    <3>3. t \notin DOMAIN ms => k = 1
      BY <2>2 DEF Before
    <3>4. v.status \in {"current", "superseded", "proposed", "invalid"}
      BY DEF Fits
    <3> QED
      BY <2>2, <3>1, <3>2, <3>3, <3>4 DEF Fits
  <2> QED
    BY <2>1, <2>2, OneVersionMore
<1> QED
  BY <1>2, <1>3

(* Where an heir of n rested there is one that rests, and a person's claim  *)
(* has given way to a person's claim only.                                  *)
LEMMA Replaced ==
  ASSUME NEW ms, NEW ms2, NEW t, NEW v, Grown(ms, ms2, t, v), NEW wd, NEW wd2,
         Noted(ms, ms2, wd, wd2), VersionsSound(ms, wd), Fits(ms, ms2, t, v), InTurn(ms, t, v),
         NEW n \in DOMAIN ms, NEW m, Heir(ms, m, n), RestsIn(ms, wd, m)
  PROVE  \E j : /\ Heir(ms2, j, n) /\ RestsIn(ms2, wd2, j)
                /\ HumanIn(ms, m) => HumanIn(ms2, j)
<1>1. m \in DOMAIN ms /\ m \in DOMAIN ms2
  BY DEF Heir, Grown
<1>2. Heir(ms2, m, n)
  BY GrownHeirs
<1>3. wd2[m] = wd[m] /\ (HumanIn(ms2, m) <=> HumanIn(ms, m))
  BY <1>1 DEF Noted, Grown, HumanIn
<1>4. StatusOf(ms2, t) = v.status /\ ~EdgeIn(ms2, IdOf(ms2, t))
  BY LatestAdded DEF Fits
<1>5. CASE wd[m] # "no"
  BY <1>2, <1>3, <1>5 DEF RestsIn
<1>6. CASE wd[m] = "no" /\ m = t
  <2>1. ~EdgeIn(ms, IdOf(ms, t))
    BY <1>6 DEF RestsIn
  <2>2. v.status \in {"current", "invalid"}
    BY <1>1, <1>6, <2>1 DEF InTurn, Fits
  <2>3. RestsIn(ms2, wd2, m)
    BY <1>4, <1>6, <2>2 DEF RestsIn
  <2> QED
    BY <1>2, <1>3, <2>3
<1>7. CASE wd[m] = "no" /\ m # t
  <2>1. IdOf(ms2, m) = IdOf(ms, m) /\ StatusOf(ms2, m) = StatusOf(ms, m)
    BY <1>1, <1>7, LatestStays
  <2>2. StatusOf(ms, m) \in {"current", "invalid"} /\ ~EdgeIn(ms, IdOf(ms, m))
    BY <1>7 DEF RestsIn
  <2>3. CASE IdOf(ms, m) \notin v.supersedes
    <3>1. ~EdgeIn(ms2, IdOf(ms, m))
      BY <2>2, <2>3, EdgesAdded
    <3>2. RestsIn(ms2, wd2, m)
      BY <2>1, <2>2, <3>1 DEF RestsIn
    <3> QED
      BY <1>2, <1>3, <3>2
  <2>4. CASE IdOf(ms, m) \in v.supersedes
    <3>1. IdOf(ms, m)[1] = m
      BY DEF IdOf
    <3>2. TakesPlace(ms2, t, m)
      BY <2>4, <3>1, EdgesAdded
    <3>3. t \in DOMAIN ms2
      BY DEF Grown
    <3>4. Heir(ms2, t, n)
      BY <1>2, <3>2, <3>3, HeirOfHeir
    <3>5. RestsIn(ms2, wd2, t)
      BY <1>4, <2>4 DEF RestsIn, Fits
    <3>6. HumanIn(ms, m) => HumanIn(ms2, t)
      BY <2>4, <3>1 DEF Fits
    <3> QED
      BY <3>4, <3>5, <3>6
  <2> QED
    BY <2>3, <2>4
<1> QED
  BY <1>5, <1>6, <1>7

(* The version of t rests where it is not a retirement.                     *)
LEMMA AddedRests ==
  ASSUME NEW ms, NEW ms2, NEW t, NEW v, Grown(ms, ms2, t, v), NEW wd, NEW wd2,
         VersionsSound(ms, wd), Fits(ms, ms2, t, v), v.status \in {"current", "invalid"}
  PROVE  Heir(ms2, t, t) /\ RestsIn(ms2, wd2, t)
<1>1. StatusOf(ms2, t) = v.status /\ ~EdgeIn(ms2, IdOf(ms2, t))
  BY LatestAdded DEF Fits
<1>2. t \in DOMAIN ms2
  BY DEF Grown
<1> QED
  BY <1>1, <1>2, HeirOfItself DEF RestsIn

LEMMA AllStillRest ==
  ASSUME NEW ms, NEW ms2, NEW t, NEW v, Grown(ms, ms2, t, v), NEW wd, NEW wd2,
         Noted(ms, ms2, wd, wd2), VersionsSound(ms, wd), Fits(ms, ms2, t, v), InTurn(ms, t, v),
         AllRest(ms, wd)
  PROVE  AllRest(ms2, wd2)
<1> SUFFICES ASSUME NEW n \in DOMAIN ms2, StatusOf(ms2, n) # "proposed"
             PROVE  \E m : Heir(ms2, m, n) /\ RestsIn(ms2, wd2, m)
  BY DEF AllRest
<1>1. ASSUME n \in DOMAIN ms, StatusOf(ms, n) # "proposed"
      PROVE  \E m : Heir(ms2, m, n) /\ RestsIn(ms2, wd2, m)
  <2>1. PICK m : Heir(ms, m, n) /\ RestsIn(ms, wd, m)
    BY <1>1 DEF AllRest
  <2> QED
    BY <1>1, <2>1, Replaced
<1>2. CASE n # t
  <2>1. n \in DOMAIN ms
    BY <1>2 DEF Grown
  <2> QED
    BY <1>1, <1>2, <2>1, LatestStays
<1>3. CASE n = t /\ v.status \in {"current", "invalid"}
  BY <1>3, AddedRests
<1>4. CASE n = t /\ v.status \notin {"current", "invalid"}
  <2>1. StatusOf(ms2, t) = v.status
    BY LatestAdded DEF Fits
  <2>2. t \in DOMAIN ms /\ v.status = "superseded"
    BY <1>4, <2>1 DEF Fits
  <2>3. CASE StatusOf(ms, t) # "proposed"
    BY <1>1, <1>4, <2>2, <2>3
  <2>4. CASE StatusOf(ms, t) = "proposed"
    <3>1. PICK j \in DOMAIN ms : \E k \in DOMAIN ms[j].versions : IdOf(ms, t) \in ms[j].versions[k].supersedes
      BY <2>2 DEF InTurn, EdgeIn
    <3>2. PICK k \in DOMAIN ms[j].versions : IdOf(ms, t) \in ms[j].versions[k].supersedes
      BY <3>1
    <3>3. IdOf(ms, t)[1] = t
      BY DEF IdOf
    <3>4. TakesPlace(ms, j, t)
      BY <3>2, <3>3 DEF TakesPlace
    <3>5. ms[j].versions[k].status = "current"
      BY <3>2 DEF VersionsSound
    <3>6. /\ DOMAIN ms[j].versions = 1..Len(ms[j].versions) /\ Len(ms[j].versions) \in Nat \ {0}
      BY Numbered DEF Grown
    <3>7. StatusOf(ms, j) = "proposed" => Len(ms[j].versions) = 1
      <4>1. Len(ms[j].versions) \in DOMAIN ms[j].versions
        BY <3>6
      <4> QED
        BY <4>1 DEF StatusOf, VersionsSound
    <3>8. StatusOf(ms, j) # "proposed"
      <4>1. ASSUME Len(ms[j].versions) = 1 PROVE k = 1
        BY <3>6, <4>1
      <4> QED
        BY <3>5, <3>7, <4>1 DEF StatusOf
    <3>9. PICK m : Heir(ms, m, j) /\ RestsIn(ms, wd, m)
      BY <3>8 DEF AllRest
    <3>10. Heir(ms, m, t)
      BY <3>4, <3>9, HeirOfSuccessor
    <3> QED
      BY <1>4, <2>2, <3>9, <3>10, Replaced
  <2> QED
    BY <2>3, <2>4
<1> QED
  BY <1>2, <1>3, <1>4

LEMMA HumansStillRest ==
  ASSUME NEW ms, NEW ms2, NEW t, NEW v, Grown(ms, ms2, t, v), NEW wd, NEW wd2,
         Noted(ms, ms2, wd, wd2), VersionsSound(ms, wd), Fits(ms, ms2, t, v), InTurn(ms, t, v),
         HumanRest(ms, wd)
  PROVE  HumanRest(ms2, wd2)
<1> SUFFICES ASSUME NEW n \in DOMAIN ms2, HumanIn(ms2, n)
             PROVE  \E m : Heir(ms2, m, n) /\ HumanIn(ms2, m) /\ RestsIn(ms2, wd2, m)
  BY DEF HumanRest
<1>1. CASE n \in DOMAIN ms
  <2>1. HumanIn(ms, n)
    BY <1>1 DEF Grown, HumanIn
  <2>2. PICK m : Heir(ms, m, n) /\ HumanIn(ms, m) /\ RestsIn(ms, wd, m)
    BY <1>1, <2>1 DEF HumanRest
  <2> QED
    BY <1>1, <2>2, Replaced
<1>2. CASE n \notin DOMAIN ms
  <2>1. n = t
    BY <1>2 DEF Grown
  <2>2. v.status = "current"
    BY <1>2, <2>1 DEF Fits
  <2> QED
    BY <2>1, <2>2, AddedRests
<1> QED
  BY <1>1, <1>2

(* A withdrawal only lets more of them rest.                                *)
LEMMA WithdrawalsLetRest ==
  ASSUME NEW ms, NEW wd, NEW wd2, \A m \in DOMAIN ms : wd[m] # "no" => wd2[m] # "no"
  PROVE  /\ AllRest(ms, wd) => AllRest(ms, wd2)
         /\ HumanRest(ms, wd) => HumanRest(ms, wd2)
<1>1. \A m \in DOMAIN ms : RestsIn(ms, wd, m) => RestsIn(ms, wd2, m)
  BY DEF RestsIn
<1>2. \A m, k : Heir(ms, m, k) => m \in DOMAIN ms
  BY DEF Heir
<1>3. ASSUME AllRest(ms, wd) PROVE AllRest(ms, wd2)
  BY <1>1, <1>2, <1>3 DEF AllRest
<1>4. ASSUME HumanRest(ms, wd) PROVE HumanRest(ms, wd2)
  BY <1>1, <1>2, <1>4 DEF HumanRest
<1> QED
  BY <1>3, <1>4

----------------------------------------------------------------------------
(* What a command has read and decided, as far as its writes rest on it.    *)

Supers(w) == IF w.kind = "withdrawal" THEN {} ELSE w.version.supersedes
Retires(w) == w.kind = "version" /\ w.version.status = "superseded"

WriteSound(ms, w) ==
  /\ \A e \in Supers(w) : KnownIn(ms, e)
  /\ w.kind = "memory" =>
       /\ w.version.status \in {"proposed", "current"}
       /\ w.version.status = "proposed" =>
            w.version.supersedes = {} /\ w.claim.authority # "human_correction"
       /\ (\E e \in w.version.supersedes : HumanIn(ms, e[1])) => w.claim.authority = "human_correction"
  /\ w.kind = "version" =>
       /\ w.of[1] \in DOMAIN ms
       /\ w.version.status \in {"current", "invalid", "superseded"}
       /\ w.version.status # "current" => w.version.supersedes = {}
       /\ w.version.status = "invalid" => ~HumanIn(ms, w.of[1])
       /\ (\E e \in w.version.supersedes : HumanIn(ms, e[1])) => HumanIn(ms, w.of[1])
  /\ w.kind = "withdrawal" =>
       w.memory \in DOMAIN ms /\ (w.by = "evict" => ~HumanIn(ms, w.memory))

(* What a statement retires is superseded already, or by an earlier one.    *)
QueueSound(ms, ws) ==
  \A i \in DOMAIN ws :
    /\ WriteSound(ms, ws[i])
    /\ Retires(ws[i]) => EdgeIn(ms, ws[i].of) \/ \E j \in 1..(i - 1) : ws[i].of \in Supers(ws[j])

TodoSound(ms, ts) ==
  \A t \in ts :
    /\ t.do # "fold" => {t.older, t.newer} \subseteq DOMAIN ms
    /\ t.do = "fold" => /\ t.keep \in DOMAIN ms /\ t.losers \subseteq DOMAIN ms
                        /\ (\E n \in t.losers : HumanIn(ms, n)) => HumanIn(ms, t.keep)

(* Apply, between any two ledgers.                                          *)
Applied(ms, ms2, wd, wd2, w) ==
  \/ /\ w.kind = "memory" /\ Len(ms) < MaxMemories
     /\ ms2 = Append(ms, [claim |-> w.claim, versions |-> <<w.version>>])
     /\ wd2 = Append(wd, "no")
  \/ /\ w.kind = "version" /\ Len(ms[w.of[1]].versions) < MaxVersions
     /\ ms2 = [ms EXCEPT ![w.of[1]].versions = Append(@, w.version)]
     /\ wd2 = wd
  \/ /\ w.kind = "withdrawal"
     /\ wd2 = [wd EXCEPT ![w.memory] = IF @ = "no" THEN w.by ELSE @]
     /\ ms2 = ms

LedgerSound(ms, wd) ==
  /\ MemosTyped(ms)
  /\ wd \in Seq({"no", "forget", "evict"}) /\ Len(wd) = Len(ms)
  /\ VersionsSound(ms, wd)

(* What every write leaves as it was.                                       *)
Kept(ms, ms2) ==
  /\ DOMAIN ms \subseteq DOMAIN ms2
  /\ \A ws : QueueSound(ms, ws) => QueueSound(ms2, ws)
  /\ \A ts : TodoSound(ms, ts) => TodoSound(ms2, ts)

InOrder(ms, w) == Retires(w) => w.of = IdOf(ms, w.of[1]) /\ EdgeIn(ms, w.of)

LEMMA GrowthKeeps ==
  ASSUME NEW ms, NEW ms2, NEW t, NEW v, Grown(ms, ms2, t, v)
  PROVE  Kept(ms, ms2)
<1>1. DOMAIN ms \subseteq DOMAIN ms2 /\ \A n \in DOMAIN ms : HumanIn(ms2, n) <=> HumanIn(ms, n)
  BY DEF Grown, HumanIn
<1>2. \A e : KnownIn(ms, e) => KnownIn(ms2, e) /\ (HumanIn(ms2, e[1]) <=> HumanIn(ms, e[1]))
  BY <1>1, KnownStays DEF KnownIn
<1>3. ASSUME NEW w, WriteSound(ms, w) PROVE WriteSound(ms2, w)
  <2>1. \A e \in Supers(w) : KnownIn(ms, e) /\ KnownIn(ms2, e) /\ (HumanIn(ms2, e[1]) <=> HumanIn(ms, e[1]))
    BY <1>2, <1>3 DEF WriteSound
  <2>2. CASE w.kind = "memory"
    BY <1>3, <2>1, <2>2 DEF WriteSound, Supers
  <2>3. CASE w.kind = "version"
    BY <1>1, <1>3, <2>1, <2>3 DEF WriteSound, Supers
  <2>4. CASE w.kind = "withdrawal"
    BY <1>1, <1>3, <2>1, <2>4 DEF WriteSound
  <2>5. CASE w.kind \notin {"memory", "version", "withdrawal"}
    BY <2>1, <2>5 DEF WriteSound
  <2> QED
    BY <2>2, <2>3, <2>4, <2>5
<1>4. ASSUME NEW ws, QueueSound(ms, ws) PROVE QueueSound(ms2, ws)
  BY <1>3, <1>4, EdgesStay DEF QueueSound
<1>5. ASSUME NEW ts, TodoSound(ms, ts) PROVE TodoSound(ms2, ts)
  BY <1>1, <1>5 DEF TodoSound
<1> QED
  BY <1>1, <1>4, <1>5 DEF Kept

(* What is left of a queue when its first statement was done.               *)
LEMMA QueueAdvances ==
  ASSUME NEW ms, NEW ws \in Seq(Statement), ws # <<>>, QueueSound(ms, ws),
         \A e \in Supers(Head(ws)) : EdgeIn(ms, e)
  PROVE  Tail(ws) \in Seq(Statement) /\ QueueSound(ms, Tail(ws))
<1>1. /\ Tail(ws) \in Seq(Statement) /\ Head(ws) = ws[1]
      /\ \A i \in DOMAIN Tail(ws) : i \in Nat \ {0} /\ i + 1 \in DOMAIN ws /\ Tail(ws)[i] = ws[i + 1]
  BY HeadTailProperties
<1>2. ASSUME NEW i \in DOMAIN Tail(ws)
      PROVE  /\ WriteSound(ms, Tail(ws)[i])
             /\ Retires(Tail(ws)[i]) => \/ EdgeIn(ms, Tail(ws)[i].of)
                                        \/ \E j \in 1..(i - 1) : Tail(ws)[i].of \in Supers(Tail(ws)[j])
  <2>1. /\ WriteSound(ms, ws[i + 1])
        /\ Retires(ws[i + 1]) => EdgeIn(ms, ws[i + 1].of) \/ \E j \in 1..((i + 1) - 1) : ws[i + 1].of \in Supers(ws[j])
    BY <1>1 DEF QueueSound
  <2>2. ASSUME NEW j \in 1..((i + 1) - 1), ws[i + 1].of \in Supers(ws[j])
        PROVE  EdgeIn(ms, ws[i + 1].of) \/ \E k \in 1..(i - 1) : ws[i + 1].of \in Supers(Tail(ws)[k])
    <3>1. CASE j = 1
      BY <1>1, <2>2, <3>1
    <3>2. CASE j # 1
      <4>1. j - 1 \in 1..(i - 1) /\ j - 1 \in DOMAIN Tail(ws) /\ (j - 1) + 1 = j
        BY <1>1, <3>2
      <4> QED
        BY <1>1, <2>2, <4>1
    <3> QED
      BY <3>1, <3>2
  <2> QED
    BY <1>1, <2>1, <2>2
<1> QED
  BY <1>1, <1>2 DEF QueueSound

(* A new memory, as one version more.                                       *)
LEMMA FiledGrows ==
  ASSUME NEW ms, NEW ms2, NEW wd, NEW wd2, NEW w \in Statement, LedgerSound(ms, wd),
         w.kind = "memory", Applied(ms, ms2, wd, wd2, w), WriteSound(ms, w)
  PROVE  /\ Grown(ms, ms2, Len(ms) + 1, w.version)
         /\ Fits(ms, ms2, Len(ms) + 1, w.version)
         /\ Noted(ms, ms2, wd, wd2)
         /\ wd2 \in Seq({"no", "forget", "evict"}) /\ Len(wd2) = Len(ms2)
<1> DEFINE t == Len(ms) + 1
           memo == [claim |-> w.claim, versions |-> <<w.version>>]
<1>1. w.claim \in Claim /\ w.version \in Version
  BY DEF Statement
<1>2. memo \in Memo
  BY <1>1 DEF Memo
<1>3. /\ ms2 = Append(ms, memo) /\ wd2 = Append(wd, "no") /\ Len(ms) < MaxMemories
  BY DEF Applied
<1>4. ms \in Seq(Memo) /\ Len(ms) \in Nat /\ DOMAIN ms = 1..Len(ms)
  BY DEF LedgerSound, MemosTyped
<1>5. /\ ms2 \in Seq(Memo) /\ Len(ms2) = t /\ DOMAIN ms2 = 1..t
      /\ ms2[t] = memo /\ \A n \in DOMAIN ms : ms2[n] = ms[n]
  BY <1>2, <1>3, <1>4, AppendProperties
<1>6. /\ DOMAIN ms2 = DOMAIN ms \cup {t} /\ t \notin DOMAIN ms
  BY <1>4, <1>5
<1>7. Len(ms2[t].versions) = 1 /\ ms2[t].versions[1] = w.version
  BY <1>5
<1>8. MemosTyped(ms2)
  <2>1. Len(ms2) <= MaxMemories
    BY <1>3, <1>4, <1>5, BoundsOfMemories
  <2>2. \A n \in DOMAIN ms : Len(ms2[n].versions) \in 1..MaxVersions
    BY <1>5 DEF LedgerSound, MemosTyped
  <2>3. Len(ms2[t].versions) \in 1..MaxVersions
    BY <1>7, BoundsOfMemories
  <2> QED
    BY <1>5, <1>6, <2>1, <2>2, <2>3 DEF MemosTyped
<1>9. Before(ms, t) = 0
  BY <1>6 DEF Before
<1>10. Grown(ms, ms2, t, w.version)
  BY <1>5, <1>6, <1>7, <1>8, <1>9 DEF Grown, LedgerSound
<1>11. HumanIn(ms2, t) <=> w.claim.authority = "human_correction"
  BY <1>5 DEF HumanIn
<1>12. Fits(ms, ms2, t, w.version)
  <2>1. Supers(w) = w.version.supersedes
    BY DEF Supers
  <2>2. w.version.status \in {"current", "proposed"}
    BY DEF WriteSound
  <2> QED
    BY <1>6, <1>11, <2>1, <2>2 DEF Fits, WriteSound
<1>13. /\ wd2 \in Seq({"no", "forget", "evict"}) /\ Len(wd2) = t
       /\ wd2[t] = "no" /\ \A n \in DOMAIN ms : wd2[n] = wd[n]
  BY <1>3, <1>4, AppendProperties DEF LedgerSound
<1>14. Noted(ms, ms2, wd, wd2)
  BY <1>6, <1>13 DEF Noted
<1> QED
  BY <1>5, <1>10, <1>12, <1>13, <1>14

(* A version of a memory there is.                                          *)
LEMMA VersionGrows ==
  ASSUME NEW ms, NEW ms2, NEW wd, NEW wd2, NEW w \in Statement, LedgerSound(ms, wd),
         w.kind = "version", Applied(ms, ms2, wd, wd2, w), WriteSound(ms, w)
  PROVE  /\ Grown(ms, ms2, w.of[1], w.version)
         /\ Fits(ms, ms2, w.of[1], w.version)
         /\ Noted(ms, ms2, wd, wd2)
         /\ wd2 = wd /\ Len(ms2) = Len(ms)
<1> DEFINE t == w.of[1]
<1>1. w.version \in Version /\ t \in DOMAIN ms
  BY DEF Statement, WriteSound
<1>2. /\ Len(ms[t].versions) < MaxVersions /\ wd2 = wd
      /\ ms2 = [ms EXCEPT ![t].versions = Append(@, w.version)]
  BY DEF Applied
<1>3. ms \in Seq(Memo) /\ Len(ms) \in Nat /\ DOMAIN ms = 1..Len(ms) /\ ms[t] \in Memo
  BY <1>1 DEF LedgerSound, MemosTyped
<1>4. ms[t].versions \in Seq(Version) /\ ms[t].claim \in Claim
  BY <1>3 DEF Memo
<1> DEFINE after == Append(ms[t].versions, w.version)
<1>5. /\ after \in Seq(Version) /\ Len(after) = Len(ms[t].versions) + 1
      /\ after[Len(ms[t].versions) + 1] = w.version
      /\ \A k \in 1..Len(ms[t].versions) : after[k] = ms[t].versions[k]
  BY <1>1, <1>4, AppendProperties
<1>6. ms[t] = [claim |-> ms[t].claim, versions |-> ms[t].versions]
  BY <1>3 DEF Memo
<1>7. /\ DOMAIN ms2 = DOMAIN ms /\ \A n \in DOMAIN ms \ {t} : ms2[n] = ms[n]
      /\ ms2[t] = [ms[t] EXCEPT !.versions = after]
  BY <1>1, <1>2
<1>8. ms2[t] = [claim |-> ms[t].claim, versions |-> after]
  BY <1>6, <1>7
<1>9. ms2[t].claim = ms[t].claim /\ ms2[t].versions = after /\ ms2[t] \in Memo
  BY <1>4, <1>5, <1>8 DEF Memo
<1>10. ms2 \in Seq(Memo) /\ Len(ms2) = Len(ms)
  <2>1. \A n \in 1..Len(ms) : ms2[n] \in Memo
    BY <1>3, <1>7, <1>9
  <2>2. ms2 = [n \in 1..Len(ms) |-> ms2[n]]
    BY <1>2, <1>3
  <2> QED
    BY <1>3, <2>1, <2>2
<1>11. MemosTyped(ms2)
  <2>1. Len(after) \in 1..MaxVersions
    BY <1>1, <1>2, <1>5, BoundsOfMemories DEF LedgerSound, MemosTyped
  <2>2. \A n \in DOMAIN ms2 : Len(ms2[n].versions) \in 1..MaxVersions
    BY <1>7, <1>9, <2>1 DEF LedgerSound, MemosTyped
  <2> QED
    BY <1>10, <2>2 DEF MemosTyped, LedgerSound
<1>12. Before(ms, t) = Len(ms[t].versions)
  BY <1>1 DEF Before
<1>13. Grown(ms, ms2, t, w.version)
  <2>1. DOMAIN ms2 = DOMAIN ms \cup {t}
    BY <1>1, <1>7
  <2>2. \A n \in DOMAIN ms : ms2[n].claim = ms[n].claim
    BY <1>7, <1>9
  <2> QED
    BY <1>5, <1>7, <1>9, <1>11, <1>12, <2>1, <2>2 DEF Grown, LedgerSound
<1>14. HumanIn(ms2, t) <=> HumanIn(ms, t)
  BY <1>9 DEF HumanIn
<1>15. Fits(ms, ms2, t, w.version)
  <2>1. Supers(w) = w.version.supersedes
    BY DEF Supers
  <2>2. w.version.status \in {"current", "invalid", "superseded"}
    BY DEF WriteSound
  <2> QED
    BY <1>1, <1>14, <2>1, <2>2 DEF Fits, WriteSound
<1>16. Noted(ms, ms2, wd, wd2)
  BY <1>2, <1>7 DEF Noted
<1> QED
  BY <1>2, <1>10, <1>13, <1>15, <1>16

(* A statement, of whichever kind: the ledger it leaves is sound, what it   *)
(* supersedes is superseded there, and what was decided on still rests.     *)
LEMMA Written ==
  ASSUME NEW ms, NEW ms2, NEW wd, NEW wd2, NEW w \in Statement, LedgerSound(ms, wd),
         Applied(ms, ms2, wd, wd2, w), WriteSound(ms, w)
  PROVE  /\ LedgerSound(ms2, wd2) /\ Kept(ms, ms2)
         /\ \A e \in Supers(w) : EdgeIn(ms2, e)
         /\ InOrder(ms, w) /\ AllRest(ms, wd) /\ HumanRest(ms, wd) =>
              AllRest(ms2, wd2) /\ HumanRest(ms2, wd2)
<1>1. ASSUME NEW t, Grown(ms, ms2, t, w.version), Fits(ms, ms2, t, w.version),
             Noted(ms, ms2, wd, wd2), wd2 \in Seq({"no", "forget", "evict"}), Len(wd2) = Len(ms2),
             InOrder(ms, w) => InTurn(ms, t, w.version), Supers(w) = w.version.supersedes
      PROVE  /\ LedgerSound(ms2, wd2) /\ Kept(ms, ms2)
             /\ \A e \in Supers(w) : EdgeIn(ms2, e)
             /\ InOrder(ms, w) /\ AllRest(ms, wd) /\ HumanRest(ms, wd) =>
                  AllRest(ms2, wd2) /\ HumanRest(ms2, wd2)
  <2>1. VersionsSound(ms, wd)
    BY DEF LedgerSound
  <2>2. VersionsSound(ms2, wd2)
    BY <1>1, <2>1, VersionsStaySound
  <2>3. LedgerSound(ms2, wd2)
    BY <1>1, <2>2 DEF LedgerSound, Grown
  <2>4. Kept(ms, ms2)
    BY <1>1, GrowthKeeps
  <2>5. \A e \in Supers(w) : EdgeIn(ms2, e)
    BY <1>1, EdgesAdded
  <2>6. ASSUME InOrder(ms, w), AllRest(ms, wd), HumanRest(ms, wd)
        PROVE  AllRest(ms2, wd2) /\ HumanRest(ms2, wd2)
    BY <1>1, <2>1, <2>6, AllStillRest, HumansStillRest
  <2> QED
    BY <2>3, <2>4, <2>5, <2>6
<1>2. CASE w.kind = "memory"
  <2>1. /\ Grown(ms, ms2, Len(ms) + 1, w.version)
        /\ Fits(ms, ms2, Len(ms) + 1, w.version)
        /\ Noted(ms, ms2, wd, wd2)
        /\ wd2 \in Seq({"no", "forget", "evict"}) /\ Len(wd2) = Len(ms2)
    BY <1>2, FiledGrows
  <2>2. InTurn(ms, Len(ms) + 1, w.version) /\ Supers(w) = w.version.supersedes
    BY <1>2 DEF InTurn, WriteSound, Supers
  <2> QED
    BY <1>1, <2>1, <2>2
<1>3. CASE w.kind = "version"
  <2>1. /\ Grown(ms, ms2, w.of[1], w.version)
        /\ Fits(ms, ms2, w.of[1], w.version)
        /\ Noted(ms, ms2, wd, wd2)
        /\ wd2 = wd /\ Len(ms2) = Len(ms)
    BY <1>3, VersionGrows
  <2>2. InOrder(ms, w) => InTurn(ms, w.of[1], w.version)
    BY <1>3 DEF InOrder, InTurn, Retires
  <2>3. Supers(w) = w.version.supersedes /\ wd2 \in Seq({"no", "forget", "evict"}) /\ Len(wd2) = Len(ms2)
    BY <1>3, <2>1 DEF Supers, LedgerSound
  <2> QED
    BY <1>1, <2>1, <2>2, <2>3
<1>4. CASE w.kind = "withdrawal"
  <2>1. ms2 = ms /\ wd2 = [wd EXCEPT ![w.memory] = IF @ = "no" THEN w.by ELSE @]
    BY <1>4 DEF Applied
  <2>2. w.by \in {"forget", "evict"} /\ w.memory \in DOMAIN ms /\ (w.by = "evict" => ~HumanIn(ms, w.memory))
    BY <1>4 DEF Statement, WriteSound
  <2>3. wd \in Seq({"no", "forget", "evict"}) /\ DOMAIN wd = DOMAIN ms /\ DOMAIN wd = 1..Len(wd) /\ Len(wd) \in Nat
    BY DEF LedgerSound, MemosTyped
  <2>4. /\ wd2[w.memory] = IF wd[w.memory] = "no" THEN w.by ELSE wd[w.memory]
        /\ \A n \in DOMAIN ms \ {w.memory} : wd2[n] = wd[n]
        /\ DOMAIN wd2 = 1..Len(wd)
    BY <2>1, <2>2, <2>3
  <2>5. wd2 \in Seq({"no", "forget", "evict"}) /\ Len(wd2) = Len(wd)
    <3>1. \A n \in 1..Len(wd) : wd2[n] \in {"no", "forget", "evict"}
      BY <2>2, <2>3, <2>4
    <3>2. wd2 = [n \in 1..Len(wd) |-> wd2[n]]
      BY <2>1, <2>3
    <3> QED
      BY <2>3, <3>1, <3>2
  <2>6. VersionsSound(ms2, wd2)
    BY <2>1, <2>2, <2>4 DEF LedgerSound, VersionsSound
  <2>7. LedgerSound(ms2, wd2)
    BY <2>1, <2>5, <2>6 DEF LedgerSound
  <2>8. Kept(ms, ms2) /\ Supers(w) = {}
    BY <1>4, <2>1 DEF Kept, Supers
  <2>9. \A m \in DOMAIN ms : wd[m] # "no" => wd2[m] # "no"
    BY <2>2, <2>4
  <2>10. (AllRest(ms, wd) => AllRest(ms, wd2)) /\ (HumanRest(ms, wd) => HumanRest(ms, wd2))
    BY <2>9, WithdrawalsLetRest
  <2> QED
    BY <2>1, <2>7, <2>8, <2>10
<1>5. w.kind \in {"memory", "version", "withdrawal"}
  BY DEF Applied
<1> QED
  BY <1>2, <1>3, <1>4, <1>5

----------------------------------------------------------------------------
CommandsTyped ==
  /\ accessed \subseteq Filed /\ sheet \subseteq Filed \X Filed
  /\ command \in [Shells -> [todo : SUBSET Task, writes : Seq(Statement)]]
  /\ today \in 0..MaxTime /\ begun \in 0..MaxCommands /\ crossed \in BOOLEAN

CommandsSound ==
  \A s \in Shells : QueueSound(memories, command[s].writes) /\ TodoSound(memories, command[s].todo)

ClaimsRest == ~crossed => AllRest(memories, withdrawn) /\ HumanRest(memories, withdrawn)

ClaimsInv ==
  CommandsTyped /\ LedgerSound(memories, withdrawn) /\ CommandsSound /\ ClaimsRest

LEMMA ClaimsBegin == MemInit => ClaimsInv
<1> SUFFICES ASSUME MemInit PROVE ClaimsInv
  OBVIOUS
<1>1. memories = <<>> /\ withdrawn = <<>> /\ DOMAIN memories = {} /\ Len(memories) = 0 /\ Len(withdrawn) = 0
  BY DEF MemInit
<1>2. LedgerSound(memories, withdrawn)
  BY <1>1, BoundsOfMemories DEF LedgerSound, MemosTyped, VersionsSound
<1>3. ClaimsRest
  BY <1>1 DEF ClaimsRest, AllRest, HumanRest
<1>4. \A s \in Shells : command[s].todo = {} /\ command[s].writes = <<>>
  BY DEF MemInit, Idle
<1>5. CommandsSound
  BY <1>4 DEF CommandsSound, QueueSound, TodoSound
<1>6. Idle \in [todo : SUBSET Task, writes : Seq(Statement)]
  BY DEF Idle
<1>7. CommandsTyped
  <2>1. command \in [Shells -> [todo : SUBSET Task, writes : Seq(Statement)]]
    BY <1>6 DEF MemInit
  <2>2. accessed \subseteq Filed /\ sheet \subseteq Filed \X Filed /\ crossed \in BOOLEAN
    BY DEF MemInit
  <2>3. today \in 0..MaxTime /\ begun \in 0..MaxCommands
    BY BoundsOfMemories DEF MemInit
  <2> QED
    BY <2>1, <2>2, <2>3 DEF CommandsTyped
<1> QED
  BY <1>2, <1>3, <1>5, <1>7 DEF ClaimsInv

(* Edges and the latest version, as the ledger is read.                     *)
LEMMA EdgesRead ==
  ASSUME LedgerSound(memories, withdrawn)
  PROVE  /\ \A e : e \in Edges <=> EdgeIn(memories, e)
         /\ \A n \in Filed : /\ LatestId(n) = IdOf(memories, n) /\ Latest(n).status = StatusOf(memories, n)
                             /\ LatestId(n) \in VersionId /\ KnownIn(memories, LatestId(n)) /\ LatestId(n)[1] = n
                             /\ Len(memories[n].versions) \in DOMAIN memories[n].versions
<1>1. \A n \in Filed : /\ DOMAIN memories = 1..Len(memories) /\ Len(memories) \in Nat
                       /\ DOMAIN memories[n].versions = 1..Len(memories[n].versions)
                       /\ Len(memories[n].versions) \in Nat \ {0}
  BY Numbered DEF LedgerSound, Filed
<1>2. Len(memories) <= MaxMemories /\ \A n \in Filed : Len(memories[n].versions) \in 1..MaxVersions
  BY DEF LedgerSound, MemosTyped, Filed
<1>3. ASSUME NEW n \in Filed
      PROVE  /\ LatestId(n) = IdOf(memories, n) /\ Latest(n).status = StatusOf(memories, n)
             /\ LatestId(n) \in VersionId /\ KnownIn(memories, LatestId(n)) /\ LatestId(n)[1] = n
             /\ Len(memories[n].versions) \in DOMAIN memories[n].versions
  <2>1. LatestId(n) = <<n, Len(memories[n].versions)>>
    BY DEF LatestId
  <2>2. n \in 1..MaxMemories
    BY <1>1, <1>2, BoundsOfMemories DEF Filed
  <2>3. LatestId(n) \in VersionId
    BY <1>2, <2>1, <2>2 DEF VersionId
  <2>4. Len(memories[n].versions) \in DOMAIN memories[n].versions
    BY <1>1
  <2>5. KnownIn(memories, LatestId(n))
    BY <2>1, <2>4 DEF KnownIn, Filed
  <2>6. Latest(n).status = StatusOf(memories, n)
    BY DEF Latest, StatusOf, Last
  <2> QED
    BY <2>1, <2>3, <2>4, <2>5, <2>6 DEF IdOf
<1>4. ASSUME NEW e PROVE e \in Edges <=> EdgeIn(memories, e)
  BY DEF Edges, EdgeIn, ToSet, Filed
<1> QED
  BY <1>3, <1>4

(* A write, whoever makes it, of which it is known what ClaimsRest asks.    *)
LEMMA WriteKeepsLedger ==
  ASSUME ClaimsInv, NEW w \in Statement, WriteSound(memories, w), Apply(w),
         crossed' \in BOOLEAN, ~crossed' => ~crossed /\ InOrder(memories, w)
  PROVE  /\ LedgerSound(memories', withdrawn') /\ Kept(memories, memories')
         /\ \A e \in Supers(w) : EdgeIn(memories', e)
         /\ ~crossed' => AllRest(memories', withdrawn') /\ HumanRest(memories', withdrawn')
<1>1. w.kind \in {"memory", "version", "withdrawal"}
  BY DEF Statement
<1>2. Applied(memories, memories', withdrawn, withdrawn', w)
  <2>1. CASE w.kind = "memory"
    BY <2>1 DEF Apply, Applied
  <2>2. CASE w.kind = "version"
    BY <2>2 DEF Apply, Applied
  <2>3. CASE w.kind = "withdrawal"
    BY <2>3 DEF Apply, Applied
  <2> QED
    BY <1>1, <2>1, <2>2, <2>3
<1>3. LedgerSound(memories, withdrawn)
  BY DEF ClaimsInv
<1>4. /\ LedgerSound(memories', withdrawn') /\ Kept(memories, memories')
      /\ \A e \in Supers(w) : EdgeIn(memories', e)
      /\ InOrder(memories, w) /\ AllRest(memories, withdrawn) /\ HumanRest(memories, withdrawn) =>
           AllRest(memories', withdrawn') /\ HumanRest(memories', withdrawn')
  BY <1>2, <1>3, Written
<1> QED
  BY <1>4 DEF ClaimsInv, ClaimsRest

LEMMA WriteNextKeeps ==
  ASSUME ClaimsInv, NEW s \in Shells, WriteNext(s)
  PROVE  ClaimsInv'
<1> DEFINE ws == command[s].writes
           w == Head(ws)
<1>1. command[s] \in [todo : SUBSET Task, writes : Seq(Statement)]
  BY DEF ClaimsInv, CommandsTyped
<1>2. ws \in Seq(Statement) /\ ws # <<>> /\ w \in Statement /\ w = ws[1] /\ 1 \in DOMAIN ws
  BY <1>1, HeadTailProperties DEF WriteNext
<1>3. QueueSound(memories, ws) /\ WriteSound(memories, w) /\ (Retires(w) => EdgeIn(memories, w.of))
  BY <1>2 DEF ClaimsInv, CommandsSound, QueueSound
<1>4. Apply(w) /\ crossed' = (crossed \/ Crosses(w))
  BY DEF WriteNext
<1>5. crossed' \in BOOLEAN
  BY <1>4 DEF ClaimsInv, CommandsTyped, Crosses
<1>6. ASSUME ~crossed' PROVE ~crossed /\ InOrder(memories, w)
  BY <1>3, <1>4, <1>6 DEF Crosses, InOrder, Retires, LatestId, IdOf
<1>7. /\ LedgerSound(memories', withdrawn') /\ Kept(memories, memories')
      /\ \A e \in Supers(w) : EdgeIn(memories', e)
      /\ ~crossed' => AllRest(memories', withdrawn') /\ HumanRest(memories', withdrawn')
  BY <1>2, <1>3, <1>4, <1>5, <1>6, WriteKeepsLedger
<1>8. Tail(ws) \in Seq(Statement) /\ QueueSound(memories', Tail(ws))
  BY <1>2, <1>3, <1>7, QueueAdvances DEF Kept
<1>9. /\ command' = [command EXCEPT ![s].writes = Tail(ws)]
      /\ UNCHANGED <<accessed, sheet, today, begun>>
  BY DEF WriteNext
<1>10. /\ command[s] = [todo |-> command[s].todo, writes |-> ws]
       /\ command' = [command EXCEPT ![s] = [command[s] EXCEPT !.writes = Tail(ws)]]
  BY <1>1, <1>9 DEF ClaimsInv, CommandsTyped
<1>11. command' = [command EXCEPT ![s] = [todo |-> command[s].todo, writes |-> Tail(ws)]]
  <2>1. ASSUME NEW c, NEW q, NEW r, c = [todo |-> c.todo, writes |-> q]
        PROVE  [c EXCEPT !.writes = r] = [todo |-> c.todo, writes |-> r]
    BY <2>1
  <2>2. [command[s] EXCEPT !.writes = Tail(ws)] = [todo |-> command[s].todo, writes |-> Tail(ws)]
    BY <1>10, <2>1
  <2> QED
    BY <1>10, <2>2
<1>12. [todo |-> command[s].todo, writes |-> Tail(ws)] \in [todo : SUBSET Task, writes : Seq(Statement)]
  BY <1>1, <1>8
<1>13. Filed \subseteq Filed'
  BY <1>7 DEF Kept, Filed
<1>14. CommandsTyped'
  <2>1. command' \in [Shells -> [todo : SUBSET Task, writes : Seq(Statement)]]
    BY <1>11, <1>12 DEF ClaimsInv, CommandsTyped
  <2> QED
    BY <1>5, <1>9, <1>13, <2>1 DEF ClaimsInv, CommandsTyped
<1>15. CommandsSound'
  <2>1. ASSUME NEW r \in Shells
        PROVE  QueueSound(memories', command'[r].writes) /\ TodoSound(memories', command'[r].todo)
    <3>1. QueueSound(memories', command[r].writes) /\ TodoSound(memories', command[r].todo)
      BY <1>7 DEF ClaimsInv, CommandsSound, Kept
    <3>2. CASE r = s
      <4>1. command'[r].writes = Tail(ws) /\ command'[r].todo = command[r].todo
        BY <1>11, <3>2 DEF ClaimsInv, CommandsTyped
      <4> QED
        BY <1>8, <3>1, <4>1
    <3>3. CASE r # s
      BY <1>11, <3>1, <3>3 DEF ClaimsInv, CommandsTyped
    <3> QED
      BY <3>2, <3>3
  <2> QED
    BY <2>1 DEF CommandsSound
<1> QED
  BY <1>7, <1>14, <1>15 DEF ClaimsInv, ClaimsRest

LEMMA ConsolidateKeeps ==
  ASSUME ClaimsInv, NEW claim \in Derivable, Consolidate(claim)
  PROVE  ClaimsInv'
<1> DEFINE status == IF claim.subject \in Gated THEN "proposed" ELSE "current"
           w == NewMemory(claim, status, {})
<1>1. claim \in Claim /\ claim.authority = "derived_memory" /\ status \in {"proposed", "current"}
  BY DerivableAssumption
<1>2. /\ w.kind = "memory" /\ w.claim = claim
      /\ w.version = [status |-> status, supersedes |-> {}]
      /\ w.version.status = status /\ w.version.supersedes = {}
  BY DEF NewMemory
<1>3. w.version \in Version
  BY <1>1, <1>2 DEF Version, Status
<1>4. w \in Statement
  <2>1. w \in [kind : {"memory"}, claim : Claim, version : Version]
    BY <1>1, <1>2, <1>3 DEF NewMemory
  <2> QED
    BY <2>1 DEF Statement
<1>5. WriteSound(memories, w) /\ InOrder(memories, w)
  BY <1>1, <1>2 DEF WriteSound, Supers, InOrder, Retires
<1>6. Apply(w) /\ UNCHANGED <<accessed, sheet, command, today, begun, crossed>>
  BY DEF Consolidate
<1>7. /\ LedgerSound(memories', withdrawn') /\ Kept(memories, memories')
      /\ ~crossed' => AllRest(memories', withdrawn') /\ HumanRest(memories', withdrawn')
  BY <1>4, <1>5, <1>6, WriteKeepsLedger DEF ClaimsInv, CommandsTyped
<1>8. CommandsTyped'
  BY <1>6, <1>7 DEF ClaimsInv, CommandsTyped, Kept, Filed
<1>9. CommandsSound'
  <2>1. \A s \in Shells : QueueSound(memories', command[s].writes) /\ TodoSound(memories', command[s].todo)
    BY <1>7 DEF ClaimsInv, CommandsSound, Kept
  <2> QED
    BY <1>6, <2>1 DEF CommandsSound
<1> QED
  BY <1>7, <1>8, <1>9 DEF ClaimsInv, ClaimsRest

(* A command that goes on with writes that what it has read bears out.      *)
LEMMA DecideKeeps ==
  ASSUME ClaimsInv, NEW s \in Shells, NEW todo \in SUBSET Task, NEW writes \in Seq(Statement),
         TodoSound(memories, todo), QueueSound(memories, writes),
         Decide(s, todo, writes), Begin(s) \/ begun' = begun
  PROVE  ClaimsInv'
<1>1. /\ command' = [command EXCEPT ![s] = [todo |-> todo, writes |-> writes]]
      /\ UNCHANGED <<memories, withdrawn, accessed, sheet, today, crossed>>
  BY DEF Decide
<1>2. begun' \in 0..MaxCommands
  BY BoundsOfMemories DEF ClaimsInv, CommandsTyped, Begin
<1>3. command' \in [Shells -> [todo : SUBSET Task, writes : Seq(Statement)]]
  BY <1>1 DEF ClaimsInv, CommandsTyped
<1>4. CommandsTyped'
  BY <1>1, <1>2, <1>3 DEF ClaimsInv, CommandsTyped, Filed
<1>5. \A r \in Shells : QueueSound(memories, command'[r].writes) /\ TodoSound(memories, command'[r].todo)
  BY <1>1 DEF ClaimsInv, CommandsTyped, CommandsSound
<1>6. CommandsSound'
  BY <1>1, <1>5 DEF CommandsSound
<1>7. LedgerSound(memories', withdrawn') /\ ClaimsRest'
  BY <1>1 DEF ClaimsInv, ClaimsRest
<1> QED
  BY <1>4, <1>6, <1>7 DEF ClaimsInv

(* A finite set, put in an order.                                           *)
LEMMA SetInOrder ==
  ASSUME NEW S, IsFiniteSet(S)
  PROVE  /\ SetToSeq(S) \in Seq(S) /\ Len(SetToSeq(S)) = Cardinality(S)
         /\ Cardinality(S) \in Nat
<1>1. Cardinality(S) \in Nat /\ ExistsBijection(1..Cardinality(S), S)
  BY FS_CardinalityType
<1>2. \E f \in [1..Cardinality(S) -> S] : IsInjective(f)
  BY <1>1 DEF ExistsBijection, Bijection, Injection, IsInjective
<1>3. SetToSeq(S) \in [1..Cardinality(S) -> S]
  BY <1>2 DEF SetToSeq
<1> QED
  BY <1>1, <1>3

(* A version that a command would append, from what it read.                *)
LEMMA VersionDrafted ==
  ASSUME ClaimsInv, NEW n \in Filed, NEW status \in {"current", "invalid", "superseded"},
         NEW replaced \in SUBSET Filed,
         status # "current" => replaced = {},
         status = "invalid" => ~HumanIn(memories, n),
         (\E m \in replaced : HumanIn(memories, m)) => HumanIn(memories, n)
  PROVE  LET w == NewVersion(n, status, {LatestId(m) : m \in replaced})
         IN  /\ w \in Statement /\ WriteSound(memories, w)
             /\ w.of = LatestId(n) /\ Supers(w) = {LatestId(m) : m \in replaced}
             /\ Retires(w) <=> status = "superseded"
<1> DEFINE edges == {LatestId(m) : m \in replaced}
           w == NewVersion(n, status, edges)
<1>1. /\ w = [kind |-> "version", of |-> LatestId(n),
              version |-> [status |-> status, supersedes |-> edges]]
      /\ w.kind = "version" /\ w.of = LatestId(n)
      /\ w.version = [status |-> status, supersedes |-> edges]
      /\ w.version.status = status /\ w.version.supersedes = edges
  BY DEF NewVersion
<1>2. \A m \in Filed : LatestId(m) \in VersionId /\ KnownIn(memories, LatestId(m)) /\ LatestId(m)[1] = m
  BY EdgesRead DEF ClaimsInv
<1>3. edges \subseteq VersionId /\ w.version \in Version
  <2>1. edges \subseteq VersionId
    BY <1>2
  <2> HIDE DEF edges
  <2> QED
    BY <1>1, <2>1 DEF Version, Status
<1>4. w \in Statement
  <2>1. w \in [kind : {"version"}, of : VersionId, version : Version]
    BY <1>1, <1>2, <1>3
  <2> QED
    BY <2>1 DEF Statement
<1>5. /\ \A e \in edges : KnownIn(memories, e)
      /\ (\E e \in edges : HumanIn(memories, e[1])) => HumanIn(memories, n)
      /\ status # "current" => edges = {}
  BY <1>2
<1>6. Supers(w) = edges
  BY <1>1 DEF Supers
<1>7. WriteSound(memories, w)
  BY <1>1, <1>2, <1>5, <1>6 DEF WriteSound, Filed
<1> HIDE DEF w
<1> QED
  BY <1>1, <1>4, <1>6, <1>7 DEF Retires, w

LEMMA MemoryDrafted ==
  ASSUME ClaimsInv, NEW claim \in Claim, NEW replaced \in SUBSET Filed,
         (\E m \in replaced : HumanIn(memories, m)) => claim.authority = "human_correction"
  PROVE  LET w == NewMemory(claim, "current", {LatestId(m) : m \in replaced})
         IN  /\ w \in Statement /\ WriteSound(memories, w) /\ ~Retires(w)
             /\ Supers(w) = {LatestId(m) : m \in replaced}
<1> DEFINE edges == {LatestId(m) : m \in replaced}
           w == NewMemory(claim, "current", edges)
<1>1. /\ w = [kind |-> "memory", claim |-> claim,
              version |-> [status |-> "current", supersedes |-> edges]]
      /\ w.kind = "memory" /\ w.claim = claim
      /\ w.version = [status |-> "current", supersedes |-> edges]
      /\ w.version.status = "current" /\ w.version.supersedes = edges
  BY DEF NewMemory
<1>2. \A m \in Filed : LatestId(m) \in VersionId /\ KnownIn(memories, LatestId(m)) /\ LatestId(m)[1] = m
  BY EdgesRead DEF ClaimsInv
<1>3. edges \subseteq VersionId /\ w.version \in Version
  <2>1. edges \subseteq VersionId
    BY <1>2
  <2> HIDE DEF edges
  <2> QED
    BY <1>1, <2>1 DEF Version, Status
<1>4. w \in Statement
  <2>1. w \in [kind : {"memory"}, claim : Claim, version : Version]
    BY <1>1, <1>3
  <2> QED
    BY <2>1 DEF Statement
<1>5. /\ \A e \in edges : KnownIn(memories, e)
      /\ (\E e \in edges : HumanIn(memories, e[1])) => claim.authority = "human_correction"
  BY <1>2
<1>6. Supers(w) = edges
  BY <1>1 DEF Supers
<1>7. WriteSound(memories, w)
  BY <1>1, <1>5, <1>6 DEF WriteSound
<1> QED
  BY <1>1, <1>4, <1>6, <1>7 DEF Retires

LEMMA NoWrites == QueueSound(memories, <<>>) /\ <<>> \in Seq(Statement)
BY DEF QueueSound

LEMMA OneWrite ==
  ASSUME NEW w \in Statement, WriteSound(memories, w), ~Retires(w)
  PROVE  QueueSound(memories, <<w>>) /\ <<w>> \in Seq(Statement)
BY DEF QueueSound

LEMMA NothingLeft == TodoSound(memories, {}) /\ {} \in SUBSET Task
BY DEF TodoSound

LEMMA RememberKeeps ==
  ASSUME ClaimsInv, NEW s \in Shells, NEW subject \in Subjects, NEW evidence \in Citations,
         NEW corrects \in SUBSET Filed, Remember(s, subject, evidence, corrects)
  PROVE  ClaimsInv'
<1> DEFINE claim == [authority |-> "human_correction", evidence |-> evidence, from |-> today,
                     subject |-> subject]
           w == NewMemory(claim, "current", {LatestId(n) : n \in corrects})
<1>1. evidence \in (SUBSET Evidence) \ {{}}
  BY CitationsAssumption DEF Remember
<1>2. claim \in Claim /\ claim.authority = "human_correction"
  BY <1>1 DEF Claim, Authority, ClaimsInv, CommandsTyped
<1>3. w \in Statement /\ WriteSound(memories, w) /\ ~Retires(w)
  BY <1>2, MemoryDrafted
<1>4. Begin(s) /\ Decide(s, {}, <<w>>)
  BY DEF Remember
<1> HIDE DEF w
<1> QED
  BY <1>3, <1>4, OneWrite, NothingLeft, DecideKeeps

LEMMA RuleKeeps ==
  ASSUME ClaimsInv, NEW s \in Shells, NEW n \in Filed, NEW status \in {"current", "invalid"},
         Rule(s, n, status)
  PROVE  ClaimsInv'
<1> DEFINE w == NewVersion(n, status, {})
<1>1. Latest(n).status = "proposed" /\ Begin(s) /\ Decide(s, {}, <<w>>)
  BY DEF Rule
<1>2. /\ Latest(n).status = StatusOf(memories, n)
      /\ Len(memories[n].versions) \in DOMAIN memories[n].versions
  BY EdgesRead DEF ClaimsInv
<1>3. ~HumanIn(memories, n)
  BY <1>1, <1>2 DEF ClaimsInv, LedgerSound, VersionsSound, StatusOf, Filed
<1>4. w = NewVersion(n, status, {LatestId(m) : m \in {}})
  OBVIOUS
<1>5. w \in Statement /\ WriteSound(memories, w) /\ ~Retires(w)
  <2> DEFINE nothing == {LatestId(m) : m \in {}}
             u == NewVersion(n, status, nothing)
  <2>1. u \in Statement /\ WriteSound(memories, u) /\ (Retires(u) <=> status = "superseded")
    BY <1>3, VersionDrafted
  <2> HIDE DEF u, w
  <2> QED
    BY <1>4, <2>1 DEF u, w
<1> HIDE DEF w
<1> QED
  BY <1>1, <1>5, OneWrite, NothingLeft, DecideKeeps

(* A withdrawal, of a claim that is not a person's if it is an eviction.    *)
LEMMA WithdrawalDrafted ==
  ASSUME ClaimsInv, NEW n \in Filed, NEW by \in {"forget", "evict"},
         by = "evict" => ~HumanIn(memories, n)
  PROVE  /\ Withdrawal(n, by) \in Statement /\ WriteSound(memories, Withdrawal(n, by))
         /\ ~Retires(Withdrawal(n, by))
<1> DEFINE w == Withdrawal(n, by)
<1>1. /\ w = [kind |-> "withdrawal", memory |-> n, by |-> by]
      /\ w.kind = "withdrawal" /\ w.memory = n /\ w.by = by
  BY DEF Withdrawal
<1>2. n \in 1..MaxMemories
  <2>1. LatestId(n) \in VersionId /\ LatestId(n)[1] = n
    BY EdgesRead DEF ClaimsInv
  <2> QED
    BY <2>1 DEF VersionId
<1>3. w \in Statement
  <2>1. w \in [kind : {"withdrawal"}, memory : 1..MaxMemories, by : {"forget", "evict"}]
    BY <1>1, <1>2
  <2> QED
    BY <2>1 DEF Statement
<1>4. WriteSound(memories, w)
  BY <1>1 DEF WriteSound, Supers, Filed
<1> QED
  BY <1>1, <1>3, <1>4 DEF Retires

LEMMA ForgetKeeps ==
  ASSUME ClaimsInv, NEW s \in Shells, NEW n \in Filed, Forget(s, n)
  PROVE  ClaimsInv'
<1> DEFINE w == Withdrawal(n, "forget")
<1>1. w \in Statement /\ WriteSound(memories, w) /\ ~Retires(w)
  BY WithdrawalDrafted
<1>2. Begin(s) /\ Decide(s, {}, <<w>>)
  BY DEF Forget
<1> HIDE DEF w
<1> QED
  BY <1>1, <1>2, OneWrite, NothingLeft, DecideKeeps

LEMMA EvictKeeps ==
  ASSUME ClaimsInv, NEW s \in Shells, Evict(s)
  PROVE  ClaimsInv'
<1> DEFINE gone == {n \in Filed : Evictable(n)}
           plan == SetToSeq(gone)
           writes == [i \in DOMAIN plan |-> Withdrawal(plan[i], "evict")]
<1>1. IsFiniteSet(gone)
  <2>1. Filed = 1..Len(memories) /\ Len(memories) \in Nat
    BY DEF ClaimsInv, LedgerSound, MemosTyped, Filed
  <2>2. IsFiniteSet(Filed)
    BY <2>1, FS_Interval
  <2> QED
    BY <2>2, FS_Subset
<1>2. plan \in Seq(gone)
  BY <1>1, SetInOrder
<1>3. \A i \in DOMAIN plan : /\ plan[i] \in Filed /\ ~HumanIn(memories, plan[i])
  BY <1>2 DEF Evictable, Claimed, HumanIn
<1>4. \A i \in DOMAIN plan : /\ writes[i] \in Statement /\ WriteSound(memories, writes[i])
                             /\ ~Retires(writes[i])
  BY <1>3, WithdrawalDrafted
<1>5. writes \in Seq(Statement)
  <2>1. DOMAIN plan = 1..Len(plan) /\ Len(plan) \in Nat
    BY <1>2
  <2>2. writes = [i \in 1..Len(plan) |-> writes[i]] /\ \A i \in 1..Len(plan) : writes[i] \in Statement
    BY <1>4, <2>1
  <2> HIDE DEF writes
  <2> QED
    BY <2>1, <2>2
<1>6. QueueSound(memories, writes)
  BY <1>4 DEF QueueSound
<1>7. Begin(s) /\ Decide(s, {}, writes)
  BY DEF Evict
<1> HIDE DEF writes
<1> QED
  BY <1>5, <1>6, <1>7, NothingLeft, DecideKeeps

(* Every memory the ledger has is of a claim.                               *)
LEMMA ClaimsFiled ==
  ASSUME ClaimsInv
  PROVE  \A n \in Filed : /\ n \in 1..MaxMemories /\ Claimed(n) \in Claim
                          /\ HumanIn(memories, n) <=> Claimed(n).authority = "human_correction"
<1> SUFFICES ASSUME NEW n \in Filed
             PROVE  /\ n \in 1..MaxMemories /\ Claimed(n) \in Claim
                    /\ HumanIn(memories, n) <=> Claimed(n).authority = "human_correction"
  OBVIOUS
<1>1. LatestId(n) \in VersionId /\ LatestId(n)[1] = n
  BY EdgesRead DEF ClaimsInv
<1>2. memories[n] \in Memo
  BY Numbered DEF ClaimsInv, LedgerSound, Filed
<1> QED
  BY <1>1, <1>2 DEF VersionId, Memo, Claimed, HumanIn

LEMMA ReviseNowKeeps ==
  ASSUME ClaimsInv, NEW s \in Shells, NEW gap, ReviseNow(s, gap)
  PROVE  ClaimsInv'
<1> DEFINE todo == {[do |-> "merge", older |-> p[1], newer |-> p[2]] : p \in Candidates(gap)}
<1>1. \A p \in Candidates(gap) : p[1] \in Filed /\ p[2] \in Filed
  BY DEF Candidates, Projected
<1>2. \A t \in todo : t.do = "merge" /\ t.older \in Filed /\ t.newer \in Filed
  BY <1>1
<1>3. TodoSound(memories, todo)
  BY <1>2 DEF TodoSound, Filed
<1>4. todo \in SUBSET Task
  BY <1>1, ClaimsFiled DEF Task
<1>5. Begin(s) /\ Decide(s, todo, <<>>)
  BY DEF ReviseNow
<1> HIDE DEF todo
<1> QED
  BY <1>3, <1>4, <1>5, NoWrites, DecideKeeps

LEMMA ReviseReviewedKeeps ==
  ASSUME ClaimsInv, NEW s \in Shells, ReviseReviewed(s)
  PROVE  ClaimsInv'
<1> DEFINE todo == {[do |-> "reviewed", older |-> p[1], newer |-> p[2]] : p \in sheet}
<1>1. \A p \in sheet : p[1] \in Filed /\ p[2] \in Filed
  BY DEF ClaimsInv, CommandsTyped
<1>2. \A t \in todo : t.do = "reviewed" /\ t.older \in Filed /\ t.newer \in Filed
  BY <1>1
<1>3. TodoSound(memories, todo)
  BY <1>2 DEF TodoSound, Filed
<1>4. todo \in SUBSET Task
  BY <1>1, ClaimsFiled DEF Task
<1>5. Begin(s) /\ Decide(s, todo, <<>>)
  BY DEF ReviseReviewed
<1> HIDE DEF todo
<1> QED
  BY <1>3, <1>4, <1>5, NoWrites, DecideKeeps

(* What is left of a list of tasks.                                         *)
LEMMA TasksLeft ==
  ASSUME ClaimsInv, NEW s \in Shells, NEW t \in command[s].todo
  PROVE  /\ command[s].todo \ {t} \in SUBSET Task /\ TodoSound(memories, command[s].todo \ {t})
         /\ t \in Task
         /\ t.do # "fold" => t.older \in Filed /\ t.newer \in Filed
         /\ t.do = "fold" => /\ t.keep \in Filed /\ t.losers \in SUBSET Filed
                             /\ (\E n \in t.losers : HumanIn(memories, n)) => HumanIn(memories, t.keep)
<1>1. command[s].todo \in SUBSET Task
  BY DEF ClaimsInv, CommandsTyped
<1>2. TodoSound(memories, command[s].todo)
  BY DEF ClaimsInv, CommandsSound
<1> QED
  BY <1>1, <1>2 DEF TodoSound, Filed

LEMMA SkipMergeKeeps ==
  ASSUME ClaimsInv, NEW s \in Shells, NEW t \in command[s].todo, SkipMerge(s, t)
  PROVE  ClaimsInv'
<1>1. Decide(s, command[s].todo \ {t}, <<>>) /\ begun' = begun
  BY DEF SkipMerge, Turns
<1> QED
  BY <1>1, TasksLeft, NoWrites, DecideKeeps

LEMMA RetirementDrafted ==
  ASSUME ClaimsInv, NEW n \in Filed
  PROVE  /\ NewVersion(n, "superseded", {}) \in Statement
         /\ WriteSound(memories, NewVersion(n, "superseded", {}))
         /\ NewVersion(n, "superseded", {}).of = LatestId(n)
<1> DEFINE nothing == {LatestId(m) : m \in {}}
           u == NewVersion(n, "superseded", nothing)
<1>1. u \in Statement /\ WriteSound(memories, u) /\ u.of = LatestId(n)
  BY VersionDrafted
<1>2. u = NewVersion(n, "superseded", {})
  OBVIOUS
<1> HIDE DEF u
<1> QED
  BY <1>1, <1>2

(* The claim that replaces a pair, then the retirement of either side.      *)
LEMMA MergeDrafted ==
  ASSUME ClaimsInv, NEW older \in Filed, NEW newer \in Filed, NEW subject \in Subjects, NEW cited,
         cited # {}, cited \subseteq Claimed(older).evidence \cup Claimed(newer).evidence
  PROVE  /\ MergeWrites(older, newer, subject, cited) \in Seq(Statement)
         /\ QueueSound(memories, MergeWrites(older, newer, subject, cited))
<1> DEFINE claim == [authority |-> MergedAuthority(older, newer), evidence |-> cited,
                     from |-> Claimed(newer).from, subject |-> subject]
           w1 == NewMemory(claim, "current", {LatestId(older), LatestId(newer)})
           w2 == NewVersion(older, "superseded", {})
           w3 == NewVersion(newer, "superseded", {})
<1>1. /\ Claimed(older) \in Claim /\ Claimed(newer) \in Claim
      /\ HumanIn(memories, older) <=> Claimed(older).authority = "human_correction"
      /\ HumanIn(memories, newer) <=> Claimed(newer).authority = "human_correction"
  BY ClaimsFiled
<1>2. MergedAuthority(older, newer) \in Authority
  BY <1>1 DEF MergedAuthority, Claim
<1>3. HumanIn(memories, older) \/ HumanIn(memories, newer) =>
        MergedAuthority(older, newer) = "human_correction"
  BY <1>1 DEF MergedAuthority, Claim, Authority, Rank
<1>4. cited \in (SUBSET Evidence) \ {{}}
  BY <1>1 DEF Claim
<1>5. claim \in Claim /\ claim.authority = MergedAuthority(older, newer)
  BY <1>1, <1>2, <1>4 DEF Claim
<1>6. {LatestId(older), LatestId(newer)} = {LatestId(m) : m \in {older, newer}}
  OBVIOUS
<1>7. w1 \in Statement /\ WriteSound(memories, w1) /\ ~Retires(w1) /\ Supers(w1) = {LatestId(older), LatestId(newer)}
  <2> DEFINE u == NewMemory(claim, "current", {LatestId(m) : m \in {older, newer}})
  <2>1. /\ u \in Statement /\ WriteSound(memories, u) /\ ~Retires(u)
        /\ Supers(u) = {LatestId(m) : m \in {older, newer}}
    <3> HIDE DEF claim
    <3>1. (\E m \in {older, newer} : HumanIn(memories, m)) => claim.authority = "human_correction"
      BY <1>3, <1>5
    <3> QED
      BY <1>5, <3>1, MemoryDrafted
  <2>2. u = w1
    BY <1>6
  <2> HIDE DEF u, w1
  <2> QED
    BY <1>6, <2>1, <2>2
<1>8. ASSUME NEW n \in {older, newer}
      PROVE  /\ NewVersion(n, "superseded", {}) \in Statement
             /\ WriteSound(memories, NewVersion(n, "superseded", {}))
             /\ NewVersion(n, "superseded", {}).of = LatestId(n)
  BY <1>8, RetirementDrafted
<1>9. w2 \in Statement /\ WriteSound(memories, w2) /\ w2.of \in Supers(w1)
  BY <1>7, <1>8
<1>10. w3 \in Statement /\ WriteSound(memories, w3) /\ w3.of \in Supers(w1)
  BY <1>7, <1>8
<1>11. MergeWrites(older, newer, subject, cited) = <<w1, w2, w3>>
  BY DEF MergeWrites
<1> HIDE DEF w1, w2, w3
<1> DEFINE ws == <<w1, w2, w3>>
<1>12. ws \in Seq(Statement) /\ DOMAIN ws = 1..3 /\ ws[1] = w1 /\ ws[2] = w2 /\ ws[3] = w3
  BY <1>7, <1>9, <1>10
<1> HIDE DEF ws
<1>13. QueueSound(memories, ws)
  <2> SUFFICES ASSUME NEW i \in 1..3
               PROVE  /\ WriteSound(memories, ws[i])
                      /\ Retires(ws[i]) => EdgeIn(memories, ws[i].of) \/ \E j \in 1..(i - 1) : ws[i].of \in Supers(ws[j])
    BY <1>12 DEF QueueSound
  <2>1. CASE i = 1
    BY <1>7, <1>12, <2>1
  <2>2. CASE i = 2
    <3>1. 1 \in 1..(i - 1)
      BY <2>2
    <3> QED
      BY <1>9, <1>12, <2>2, <3>1
  <2>3. CASE i = 3
    <3>1. 1 \in 1..(i - 1)
      BY <2>3
    <3> QED
      BY <1>10, <1>12, <2>3, <3>1
  <2> QED
    BY <2>1, <2>2, <2>3
<1> QED
  BY <1>11, <1>12, <1>13 DEF ws

LEMMA MergeProposedKeeps ==
  ASSUME ClaimsInv, NEW s \in Shells, NEW t \in command[s].todo, NEW subject \in Subjects, NEW cited,
         MergeProposed(s, t, subject, cited)
  PROVE  ClaimsInv'
<1>1. /\ Decide(s, command[s].todo \ {t}, MergeWrites(t.older, t.newer, subject, cited))
      /\ begun' = begun /\ t.do # "fold"
      /\ cited # {} /\ cited \subseteq Claimed(t.older).evidence \cup Claimed(t.newer).evidence
  BY DEF MergeProposed, Turns, Derived
<1>2. /\ t.older \in Filed /\ t.newer \in Filed
      /\ command[s].todo \ {t} \in SUBSET Task /\ TodoSound(memories, command[s].todo \ {t})
  BY <1>1, TasksLeft
<1> QED
  BY <1>1, <1>2, MergeDrafted, DecideKeeps

LEMMA MergeReviewedKeeps ==
  ASSUME ClaimsInv, NEW s \in Shells, NEW t \in command[s].todo, NEW subject \in Subjects,
         MergeReviewed(s, t, subject)
  PROVE  ClaimsInv'
<1> DEFINE cited == Claimed(t.older).evidence \cup Claimed(t.newer).evidence
<1>1. /\ Decide(s, command[s].todo \ {t}, MergeWrites(t.older, t.newer, subject, cited))
      /\ begun' = begun /\ t.do # "fold"
  BY DEF MergeReviewed, Turns
<1>2. /\ t.older \in Filed /\ t.newer \in Filed
      /\ command[s].todo \ {t} \in SUBSET Task /\ TodoSound(memories, command[s].todo \ {t})
  BY <1>1, TasksLeft
<1>3. Claimed(t.older).evidence # {}
  BY <1>2, ClaimsFiled DEF Claim
<1>4. cited # {} /\ cited \subseteq Claimed(t.older).evidence \cup Claimed(t.newer).evidence
  BY <1>3
<1> HIDE DEF cited
<1> QED
  BY <1>1, <1>2, <1>4, MergeDrafted, DecideKeeps

LEMMA ReconcileKeeps ==
  ASSUME ClaimsInv, NEW s \in Shells, Reconcile(s)
  PROVE  ClaimsInv'
<1>1. ASSUME NEW t \in Folds
      PROVE  /\ t \in Task /\ t.do = "fold" /\ t.keep \in Filed /\ t.losers \subseteq Filed
             /\ (\E n \in t.losers : HumanIn(memories, n)) => HumanIn(memories, t.keep)
  <2>1. PICK subject \in Subjects :
          \E n \in Contenders(subject) :
            t = [do |-> "fold", keep |-> n, losers |-> Contenders(subject) \ {n}]
    BY DEF Folds
  <2>2. /\ t = [do |-> "fold", keep |-> t.keep, losers |-> t.losers] /\ t.do = "fold"
        /\ t.keep \in Contenders(subject) /\ t.losers = Contenders(subject) \ {t.keep}
    BY <2>1
  <2>3. Contenders(subject) \subseteq Filed
    BY DEF Contenders, Projected
  <2>4. t.keep \in Filed /\ t.losers \subseteq Filed
    BY <2>2, <2>3
  <2>5. t \in Task
    <3>1. Filed \subseteq 1..MaxMemories
      BY ClaimsFiled
    <3>2. t \in [do : {"fold"}, keep : 1..MaxMemories, losers : SUBSET (1..MaxMemories)]
      BY <2>2, <2>4, <3>1
    <3> QED
      BY <3>2 DEF Task
  <2>6. \A n \in t.losers : Rank(Claimed(n).authority) <= Rank(Claimed(t.keep).authority)
    BY <2>2 DEF Contenders
  <2>7. ASSUME NEW n \in t.losers, HumanIn(memories, n)
        PROVE  HumanIn(memories, t.keep)
    <3>1. /\ Claimed(n).authority = "human_correction" /\ Claimed(t.keep).authority \in Authority
          /\ HumanIn(memories, t.keep) <=> Claimed(t.keep).authority = "human_correction"
      BY <2>4, <2>7, ClaimsFiled DEF Claim
    <3> QED
      BY <2>6, <3>1 DEF Rank, Authority
  <2> QED
    BY <2>2, <2>4, <2>5, <2>7
<1>2. TodoSound(memories, Folds) /\ Folds \in SUBSET Task
  BY <1>1 DEF TodoSound, Filed
<1>3. Begin(s) /\ Decide(s, Folds, <<>>)
  BY DEF Reconcile
<1> QED
  BY <1>2, <1>3, NoWrites, DecideKeeps

LEMMA FoldKeeps ==
  ASSUME ClaimsInv, NEW s \in Shells, NEW t \in command[s].todo, Fold(s, t)
  PROVE  ClaimsInv'
<1> DEFINE losers == {n \in t.losers : Stands(n)}
           size == Cardinality(losers)
           first == NewVersion(t.keep, "current", {LatestId(n) : n \in losers})
           rest == [i \in 1..size |-> NewVersion(SetToSeq(losers)[i], "superseded", {})]
           ws == <<first>> \o rest
<1>1. /\ t.do = "fold" /\ begun' = begun
      /\ Decide(s, command[s].todo \ {t}, IF ~Stands(t.keep) \/ losers = {} THEN <<>> ELSE ws)
  BY DEF Fold, Turns
<1>2. /\ t.keep \in Filed /\ t.losers \in SUBSET Filed
      /\ (\E n \in t.losers : HumanIn(memories, n)) => HumanIn(memories, t.keep)
      /\ command[s].todo \ {t} \in SUBSET Task /\ TodoSound(memories, command[s].todo \ {t})
  BY <1>1, TasksLeft
<1>3. /\ losers \in SUBSET Filed
      /\ (\E n \in losers : HumanIn(memories, n)) => HumanIn(memories, t.keep)
  BY <1>2
<1> HIDE DEF losers
<1>4. IsFiniteSet(losers)
  <2>1. Filed = 1..Len(memories) /\ Len(memories) \in Nat
    BY DEF ClaimsInv, LedgerSound, MemosTyped, Filed
  <2>2. IsFiniteSet(Filed)
    BY <2>1, FS_Interval
  <2> QED
    BY <1>3, <2>2, FS_Subset
<1>5. size \in Nat /\ \A i \in 1..size : SetToSeq(losers)[i] \in losers
  <2>1. SetToSeq(losers) \in Seq(losers) /\ Len(SetToSeq(losers)) = size /\ size \in Nat
    BY <1>4, SetInOrder
  <2> QED
    BY <2>1
<1>6. /\ first \in Statement /\ WriteSound(memories, first)
      /\ Supers(first) = {LatestId(n) : n \in losers} /\ ~Retires(first)
  BY <1>2, <1>3, VersionDrafted
<1>7. ASSUME NEW i \in 1..size
      PROVE  rest[i] \in Statement /\ WriteSound(memories, rest[i]) /\ rest[i].of \in Supers(first)
  <2>1. SetToSeq(losers)[i] \in losers /\ SetToSeq(losers)[i] \in Filed
    BY <1>3, <1>5
  <2>2. rest[i] = NewVersion(SetToSeq(losers)[i], "superseded", {})
    OBVIOUS
  <2> HIDE DEF first, rest
  <2> QED
    BY <1>6, <2>1, <2>2, RetirementDrafted
<1>8. rest = [i \in 1..size |-> rest[i]]
  OBVIOUS
<1> HIDE DEF first, rest, size
<1>9. rest \in Seq(Statement) /\ Len(rest) = size
  BY <1>5, <1>7, <1>8
<1>10. <<first>> \in Seq(Statement) /\ Len(<<first>>) = 1 /\ <<first>>[1] = first
  BY <1>6
<1>11. /\ ws \in Seq(Statement) /\ Len(ws) = 1 + size /\ DOMAIN ws = 1..(1 + size)
       /\ ws[1] = first /\ \A i \in 2..(1 + size) : ws[i] = rest[i - 1]
  BY <1>5, <1>9, <1>10, ConcatProperties
<1> HIDE DEF ws
<1>12. QueueSound(memories, ws)
  <2> SUFFICES ASSUME NEW i \in 1..(1 + size)
               PROVE  /\ WriteSound(memories, ws[i])
                      /\ Retires(ws[i]) => EdgeIn(memories, ws[i].of) \/ \E j \in 1..(i - 1) : ws[i].of \in Supers(ws[j])
    BY <1>11 DEF QueueSound
  <2>1. CASE i = 1
    BY <1>6, <1>11, <2>1
  <2>2. CASE i # 1
    <3>1. i \in 2..(1 + size) /\ i - 1 \in 1..size /\ 1 \in 1..(i - 1)
      BY <1>5, <2>2
    <3> QED
      BY <1>7, <1>11, <3>1
  <2> QED
    BY <2>1, <2>2
<1>13. CASE ~Stands(t.keep) \/ losers = {}
  BY <1>1, <1>2, <1>13, NoWrites, DecideKeeps
<1>14. CASE ~(~Stands(t.keep) \/ losers = {})
  BY <1>1, <1>2, <1>11, <1>12, <1>14, DecideKeeps
<1> QED
  BY <1>13, <1>14

(* The clock, the searches, the sheet and a command that ends: the ledger   *)
(* is as it was, and no command has more to write.                          *)
LEMMA AsideKeeps ==
  ASSUME ClaimsInv, UNCHANGED <<memories, withdrawn, crossed>>,
         accessed' \subseteq Filed, sheet' \subseteq Filed \X Filed,
         today' \in 0..MaxTime, begun' \in 0..MaxCommands,
         command' = command \/ \E s \in Shells : command' = [command EXCEPT ![s] = Idle]
  PROVE  ClaimsInv'
<1>1. Idle \in [todo : SUBSET Task, writes : Seq(Statement)] /\ Idle.todo = {} /\ Idle.writes = <<>>
  BY DEF Idle
<1>2. command' \in [Shells -> [todo : SUBSET Task, writes : Seq(Statement)]]
  BY <1>1 DEF ClaimsInv, CommandsTyped
<1>3. CommandsTyped'
  BY <1>2 DEF ClaimsInv, CommandsTyped, Filed
<1>4. \A r \in Shells : QueueSound(memories, command'[r].writes) /\ TodoSound(memories, command'[r].todo)
  <2> SUFFICES ASSUME NEW r \in Shells
               PROVE  QueueSound(memories, command'[r].writes) /\ TodoSound(memories, command'[r].todo)
    OBVIOUS
  <2>1. command'[r] = command[r] \/ command'[r] = Idle
    BY DEF ClaimsInv, CommandsTyped
  <2> QED
    BY <1>1, <2>1, NoWrites, NothingLeft DEF ClaimsInv, CommandsSound
<1>5. CommandsSound'
  BY <1>4 DEF CommandsSound
<1>6. LedgerSound(memories', withdrawn') /\ ClaimsRest'
  BY DEF ClaimsInv, ClaimsRest
<1> QED
  BY <1>3, <1>5, <1>6 DEF ClaimsInv

LEMMA ClaimsNext == ClaimsInv /\ [MemNext]_memVars => ClaimsInv'
<1> SUFFICES ASSUME ClaimsInv, [MemNext]_memVars PROVE ClaimsInv'
  OBVIOUS
<1> USE DEF Filed
<1>1. ASSUME UNCHANGED memVars PROVE ClaimsInv'
  BY <1>1, AsideKeeps DEF memVars, ClaimsInv, CommandsTyped
<1>2. ASSUME NEW claim \in Derivable, Consolidate(claim) PROVE ClaimsInv'
  BY <1>2, ConsolidateKeeps
<1>3. ASSUME NEW n \in Filed, Retrieve(n) PROVE ClaimsInv'
  BY <1>3, AsideKeeps DEF Retrieve, ClaimsInv, CommandsTyped
<1>4. ASSUME NextDay PROVE ClaimsInv'
  <2>1. today' \in 0..MaxTime
    BY <1>4, BoundsOfMemories DEF NextDay, ClaimsInv, CommandsTyped
  <2> QED
    BY <1>4, <2>1, AsideKeeps DEF NextDay, ClaimsInv, CommandsTyped
<1>5. ASSUME NEW s \in Shells, StopCommand(s) PROVE ClaimsInv'
  BY <1>5, AsideKeeps DEF StopCommand, ClaimsInv, CommandsTyped
<1>6. ASSUME NEW s \in Shells, NEW gap, WriteSheet(s, gap) PROVE ClaimsInv'
  <2>1. sheet' \subseteq Filed \X Filed
    BY <1>6 DEF WriteSheet, Candidates, Projected
  <2>2. begun' \in 0..MaxCommands
    BY <1>6, BoundsOfMemories DEF WriteSheet, Begin, ClaimsInv, CommandsTyped
  <2> QED
    BY <1>6, <2>1, <2>2, AsideKeeps DEF WriteSheet, ClaimsInv, CommandsTyped
<1>7. ASSUME NEW s \in Shells, Shell(s) PROVE ClaimsInv'
  <2>1. CASE WriteNext(s)
    BY <2>1, WriteNextKeeps
  <2>2. CASE StopCommand(s)
    BY <1>5, <2>2
  <2>3. CASE \E subject \in Subjects, evidence \in Citations, corrects \in SUBSET Filed :
               Remember(s, subject, evidence, corrects)
    BY <2>3, RememberKeeps
  <2>4. CASE \E n \in Filed : Forget(s, n) \/ \E status \in {"current", "invalid"} : Rule(s, n, status)
    BY <2>4, ForgetKeeps, RuleKeeps
  <2>5. CASE \E gap \in {0, MinGap} :
               ReviseNow(s, gap) \/ WriteSheet(s, gap)
    BY <1>6, <2>5, ReviseNowKeeps
  <2>6. CASE ReviseReviewed(s)
    BY <2>6, ReviseReviewedKeeps
  <2>7. CASE Reconcile(s)
    BY <2>7, ReconcileKeeps
  <2>8. CASE Evict(s)
    BY <2>8, EvictKeeps
  <2>9. ASSUME NEW t \in command[s].todo,
               \/ SkipMerge(s, t) \/ Fold(s, t)
               \/ \E subject \in Subjects :
                    \/ MergeReviewed(s, t, subject)
                    \/ \E cited \in Citations : MergeProposed(s, t, subject, cited)
        PROVE  ClaimsInv'
    <3>1. CASE SkipMerge(s, t)
      BY <3>1, SkipMergeKeeps
    <3>2. CASE Fold(s, t)
      BY <3>2, FoldKeeps
    <3>3. CASE \E subject \in Subjects : MergeReviewed(s, t, subject)
      BY <3>3, MergeReviewedKeeps
    <3>4. CASE \E subject \in Subjects, cited \in Citations : MergeProposed(s, t, subject, cited)
      BY <3>4, MergeProposedKeeps
    <3> QED
      BY <2>9, <3>1, <3>2, <3>3, <3>4
  <2> QED
    BY <1>7, <2>1, <2>2, <2>3, <2>4, <2>5, <2>6, <2>7, <2>8, <2>9 DEF Shell
<1> QED
  BY <1>1, <1>2, <1>3, <1>4, <1>7 DEF MemNext, Service

(* The heirs of a memory, as the properties name them.                      *)
LEMMA HeirsRead ==
  ASSUME NEW n \in Filed, NEW m
  PROVE  m \in Heirs(n) <=> Heir(memories, m, n)
<1>1. \A k, j : j \in Successors(k) <=> j \in DOMAIN memories /\ TakesPlace(memories, j, k)
  BY DEF Successors, TakesPlace, ToSet, Filed
<1>2. \A S \in SUBSET DOMAIN memories :
        (\A k \in S : Successors(k) \subseteq S) <=>
        (\A k \in S : \A j \in DOMAIN memories : TakesPlace(memories, j, k) => j \in S)
  BY <1>1
<1> QED
  BY <1>2 DEF Heirs, Heir, Filed

(* A memory that rests is served, or was dismissed.                         *)
LEMMA RestRead ==
  ASSUME ClaimsInv, NEW m \in Filed, RestsIn(memories, withdrawn, m)
  PROVE  m \in Projected \/ Dismissed(m)
<1>1. /\ \A e : e \in Edges <=> EdgeIn(memories, e)
      /\ LatestId(m) = IdOf(memories, m) /\ Latest(m).status = StatusOf(memories, m)
  BY EdgesRead DEF ClaimsInv
<1> QED
  BY <1>1 DEF RestsIn, Projected, Dismissed, Stands, IsReadable

LEMMA ClaimsInvHolds == ClaimsInv => ClaimsKept
<1> SUFFICES ASSUME ClaimsInv PROVE ClaimsKept
  OBVIOUS
<1>1. MemTypeOK
  <2>1. \A n \in Filed : /\ memories[n].claim \in Claim /\ memories[n].versions # <<>>
                         /\ \A k \in DOMAIN memories[n].versions : memories[n].versions[k] \in Version
    <3> SUFFICES ASSUME NEW n \in Filed
                 PROVE  /\ memories[n].claim \in Claim /\ memories[n].versions # <<>>
                        /\ \A k \in DOMAIN memories[n].versions : memories[n].versions[k] \in Version
      OBVIOUS
    <3>1. /\ memories[n] \in Memo /\ Len(memories[n].versions) \in Nat \ {0}
          /\ memories[n].versions \in Seq(Version)
          /\ \A k \in DOMAIN memories[n].versions : memories[n].versions[k] \in Version
      BY Numbered DEF ClaimsInv, LedgerSound, Filed
    <3> QED
      BY <3>1 DEF Memo
  <2>2. /\ DOMAIN withdrawn = Filed
        /\ \A n \in Filed : withdrawn[n] \in {"no", "forget", "evict"}
    BY DEF ClaimsInv, LedgerSound, MemosTyped, Filed
  <2>3. \A s \in Shells : /\ command[s].todo \subseteq Task
                          /\ \A i \in DOMAIN command[s].writes : command[s].writes[i] \in Statement
    <3> SUFFICES ASSUME NEW s \in Shells
                 PROVE  /\ command[s].todo \subseteq Task
                        /\ \A i \in DOMAIN command[s].writes : command[s].writes[i] \in Statement
      OBVIOUS
    <3>1. command[s].todo \in SUBSET Task /\ command[s].writes \in Seq(Statement)
      BY DEF ClaimsInv, CommandsTyped
    <3> QED
      BY <3>1
  <2> QED
    BY <2>1, <2>2, <2>3 DEF MemTypeOK, ClaimsInv, CommandsTyped
<1>2. \A n \in Filed : /\ Latest(n).status = StatusOf(memories, n)
                       /\ Len(memories[n].versions) \in DOMAIN memories[n].versions
  BY EdgesRead DEF ClaimsInv
<1>3. \A n \in Filed : \A m : m \in Heirs(n) <=> Heir(memories, m, n)
  BY HeirsRead
<1>4. NoClaimLost
  <2> SUFFICES ASSUME ~crossed, NEW n \in Filed, Latest(n).status \in {"current", "superseded"}
               PROVE  InPlaceOf(n)
    BY DEF NoClaimLost
  <2>1. PICK m : Heir(memories, m, n) /\ RestsIn(memories, withdrawn, m)
    BY <1>2 DEF ClaimsInv, ClaimsRest, AllRest, Filed
  <2>2. m \in Filed
    BY <2>1 DEF Heir, Filed
  <2> QED
    BY <1>3, <2>1, <2>2, RestRead DEF InPlaceOf
<1>5. CorrectionsKept
  <2> SUFFICES ASSUME ~crossed, NEW n \in Filed, Claimed(n).authority = "human_correction"
               PROVE  \E m \in Heirs(n) : /\ Claimed(m).authority = "human_correction"
                                          /\ m \in Projected \/ withdrawn[m] = "forget"
    BY DEF CorrectionsKept
  <2>1. HumanIn(memories, n)
    BY ClaimsFiled
  <2>2. PICK m : Heir(memories, m, n) /\ HumanIn(memories, m) /\ RestsIn(memories, withdrawn, m)
    BY <2>1 DEF ClaimsInv, ClaimsRest, HumanRest, Filed
  <2>3. m \in Filed
    BY <2>2 DEF Heir, Filed
  <2>4. Claimed(m).authority = "human_correction"
    BY <2>2, <2>3, ClaimsFiled
  <2>5. m \in Projected \/ Dismissed(m)
    BY <2>2, <2>3, RestRead
  <2>6. Latest(m).status # "invalid"
    BY <1>2, <2>2, <2>3 DEF ClaimsInv, LedgerSound, VersionsSound, StatusOf, Filed
  <2>7. withdrawn[m] \in {"no", "forget", "evict"} /\ withdrawn[m] # "evict"
    BY <2>2, <2>3 DEF ClaimsInv, LedgerSound, VersionsSound, MemosTyped, Filed
  <2>8. m \in Projected \/ withdrawn[m] = "forget"
    BY <2>5, <2>6, <2>7 DEF Dismissed, Stands
  <2> QED
    BY <1>3, <2>2, <2>4, <2>8
<1> QED
  BY <1>1, <1>4, <1>5 DEF ClaimsKept

(* No merge, fold, correction, ruling or eviction, and no crash among the   *)
(* writes of one, leaves a claim without a claim that is served in its      *)
(* place or was dismissed, nor takes a person's claim out of what the       *)
(* project is told, unless a command retired a claim whose latest version   *)
(* it had not read (write_merge, fold_into_winner, append_memory).          *)
THEOREM ClaimsStayKept == MemSpec => []ClaimsKept
<1>1. MemSpec => []ClaimsInv
  BY ClaimsBegin, ClaimsNext, PTL DEF MemSpec
<1> QED
  BY <1>1, ClaimsInvHolds, PTL
=============================================================================
