--------------------------------- MODULE Vault ---------------------------------
(***************************************************************************)
(* What is derived from a project's memories on disk, and what people      *)
(* write back: the scan of correction notes and global preferences         *)
(* (brain-service/src/note_watcher.rs, brain-store/src/notes.rs), the      *)
(* Markdown projection (markdown.rs), the subject paragraphs               *)
(* (synthesis_store.rs) and the view Basic Memory indexes                  *)
(* (basic_memory.rs).                                                      *)
(*                                                                         *)
(* Every memory of the model is the one a note stands for, by its path or  *)
(* by the memory_id in its front matter.  The service scans notes and      *)
(* projects in one loop; `brain rebuild` projects in a shell beside it.    *)
(***************************************************************************)
EXTENDS Integers, Sequences, FiniteSets, SequencesExt

CONSTANTS
  Notes,        \* notes of the project and global preferences
  Global,       \* those under global-preferences/notes
  Contents,     \* what a note may say
  Refused,      \* contents that do not parse or cite foreign evidence
  Builders,     \* "service", "shell"
  Rank,         \* their order by path
  None,
  MaxEdits,     \* bound: edits of notes by a person
  MaxChanges,   \* bound: memories derived, withdrawn and paragraphs drafted
  MaxFaults     \* bound: failed reads, statements and renames, pauses and crashes

ASSUME NotesAssumption ==
  /\ IsFiniteSet(Notes) /\ Global \subseteq Notes /\ Rank \in [Notes -> Nat]
  /\ Refused \subseteq Contents

ASSUME BuildersAssumption == "service" \in Builders /\ Builders \subseteq {"service", "shell"}

VARIABLES
  note,        \* the notes on disk
  locked,      \* those that cannot be read
  paused,      \* markdown_projection_paused, which the pressure on the disks decides
  imported,    \* note_imports: the content last imported of a note
  queued,      \* note_review_queue
  resolved,    \* the rows of it that are resolved
  audited,     \* audit events and global_preference_audit
  versions,    \* the versions of the memory of a note
  withdrawn,   \* memories withdrawn by `brain forget`
  scan,        \* the root that is scanned, what is left of it, and the import
  remembered,  \* projected_versions, in the service's memory
  paragraph,   \* subject_synthesis: the versions it describes
  drafting,    \* the versions `brain synthesize` shows to the provider
  builder,     \* how far each rebuild_project is
  generations, \* generations on disk
  manifest,    \* current.json
  view,        \* the basic-memory directory, and where it is put aside
  overlapped,  \* history: two rebuilds of the projection overlapped
  counts       \* bounds: edits, changes and faults so far

noteVars == <<note, imported, queued, resolved, audited>>
memoryVars == <<versions, withdrawn, paragraph, drafting>>
hindrances == <<locked, paused>>
diskVars == <<generations, manifest, view, overlapped>>
vaultVars == <<noteVars, hindrances, memoryVars, diskVars, scan, remembered, builder, counts>>

----------------------------------------------------------------------------
(* A version is derived by consolidation, or is what a note said.           *)
Version == {[by |-> who, says |-> c] : who \in {"service", "note"}, c \in Contents}

Claim == Notes \X Version

(* What a generation is rendered from; its name is a hash of that.          *)
Rendering == [claims : SUBSET Claim, paragraph : (SUBSET Claim) \cup {None}]

Import == [of : Notes, says : Contents, step : {"event", "memory", "record"}]

VaultTypeOK ==
  /\ note \in [Notes -> Contents \cup {None}] /\ imported \in [Notes -> Contents \cup {None}]
  /\ locked \subseteq Notes /\ paused \in BOOLEAN
  /\ queued \subseteq Notes \X Contents /\ resolved \subseteq queued
  /\ audited \subseteq Notes \X Contents
  /\ \A p \in Notes : \A i \in DOMAIN versions[p] : versions[p][i] \in Version
  /\ withdrawn \subseteq Notes
  /\ scan.left \subseteq Notes /\ scan.import \in Import \cup {None}
  /\ remembered \in Nat \cup {None}
  /\ paragraph \in (SUBSET Claim) \cup {None} /\ drafting \in (SUBSET Claim) \cup {None}
  /\ \A b \in Builders : builder[b].rendering \in Rendering \cup {None}
  /\ DOMAIN generations \subseteq Rendering
  /\ \A g \in DOMAIN generations : generations[g] \in {"whole", "partial"}
  /\ manifest \in Rendering \cup {None}
  /\ view \in [live : {"none", "whole", "partial"}, aside : {"none", "whole", "partial"}]

Bounded(what, max) == counts[what] < max /\ counts' = [counts EXCEPT ![what] = @ + 1]

Fault == Bounded("faults", MaxFaults)

----------------------------------------------------------------------------
(* People and the rest of the service.                                     *)

(* A note is written, or removed (c is None).                               *)
Edit(p, c) ==
  /\ note[p] # c
  /\ note' = [note EXCEPT ![p] = c]
  /\ Bounded("edits", MaxEdits)
  /\ UNCHANGED <<hindrances, imported, queued, resolved, audited, memoryVars, diskVars, scan,
                 remembered, builder>>

(* Another program holds a note, or a disk is short of space, for a while.  *)
Hinder ==
  /\ Fault
  /\ \/ \E p \in Notes \ locked : locked' = locked \cup {p} /\ UNCHANGED paused
     \/ ~paused /\ paused' = TRUE /\ UNCHANGED locked
  /\ UNCHANGED <<noteVars, memoryVars, diskVars, scan, remembered, builder>>

Ease ==
  /\ \/ \E p \in locked : locked' = locked \ {p} /\ UNCHANGED paused
     \/ paused /\ paused' = FALSE /\ UNCHANGED locked
  /\ UNCHANGED <<noteVars, memoryVars, diskVars, scan, remembered, builder, counts>>

Projected == {p \in Notes \ Global : versions[p] # <<>> /\ p \notin withdrawn}
Claims == {<<p, Last(versions[p])>> : p \in Projected}

(* Consolidation derives a memory, which a note may correct by its id.      *)
Derive(p, c) ==
  /\ versions[p] = <<>> /\ p \notin Global
  /\ versions' = [versions EXCEPT ![p] = <<[by |-> "service", says |-> c]>>]
  /\ Bounded("changes", MaxChanges)
  /\ UNCHANGED <<hindrances, noteVars, withdrawn, paragraph, drafting, diskVars, scan,
                 remembered, builder>>

Withdraw(p) ==
  /\ p \in Projected
  /\ withdrawn' = withdrawn \cup {p}
  /\ Bounded("changes", MaxChanges)
  /\ UNCHANGED <<hindrances, noteVars, versions, paragraph, drafting, diskVars, scan,
                 remembered, builder>>

(* subject_synthesis: the paragraph is shown if it was stored under the ids *)
(* of the very memories the page lists.                                     *)
Shown == IF paragraph # None /\ {v[1] : v \in paragraph} = Projected THEN paragraph ELSE None

(* `brain synthesize`: the memories are read, the provider is asked, then   *)
(* the paragraph is stored under the hash of the memories' ids.             *)
Survey ==
  /\ drafting = None /\ Claims # {} /\ Shown = None
  /\ drafting' = Claims
  /\ Bounded("changes", MaxChanges)
  /\ UNCHANGED <<hindrances, noteVars, versions, withdrawn, paragraph, diskVars, scan,
                 remembered, builder>>

StoreParagraph ==
  /\ drafting # None
  /\ paragraph' = drafting /\ drafting' = None
  /\ UNCHANGED <<hindrances, noteVars, versions, withdrawn, diskVars, scan, remembered, builder,
                 counts>>

----------------------------------------------------------------------------
(* The scan of notes.                                                      *)

Quiet == [root |-> "none", left |-> {}, import |-> None]

Root(p) == IF p \in Global THEN "global" ELSE "project"

(* discover_notes, of one root.                                             *)
Discovered(root) ==
  [root |-> root, left |-> {p \in Notes : Root(p) = root /\ note[p] # None}, import |-> None]

ScanRest == [scan EXCEPT !.import = None]

(* queue_note_review: INSERT OR IGNORE, one row for a path and a content.   *)
Queue(p, c) == queued' = queued \cup {<<p, c>>} /\ UNCHANGED <<resolved, imported>>

\* Mutant: the first note that is refused ends the scan.
AfterRefusalEnding(p) == [scan EXCEPT !.left = {}]

(* What is left to scan after a note that is refused.                       *)
AfterRefusal(p) == [scan EXCEPT !.left = @ \ {p}]

(* The notes that are left are looked at in the order of their paths.       *)
First(p) == p \in scan.left /\ \A q \in scan.left : Rank[p] <= Rank[q]

(* The next note is imported already, refused, or its import begins.  A     *)
(* note that cannot be read, or is gone, ends the scan of its root.         *)
ScanNote(p) ==
  /\ scan.import = None /\ First(p)
  /\ LET rest == [scan EXCEPT !.left = @ \ {p}]
     IN \/ /\ p \in locked \/ note[p] = None
           /\ scan' = [scan EXCEPT !.left = {}] /\ UNCHANGED <<imported, queued, resolved>>
        \/ /\ p \notin locked /\ note[p] \in Contents \cap {imported[p]}
           /\ scan' = rest /\ UNCHANGED <<imported, queued, resolved>>
        \/ /\ p \notin locked /\ note[p] \in Refused \ {imported[p]}
           /\ Queue(p, note[p]) /\ scan' = AfterRefusal(p)
        \/ /\ p \notin locked /\ note[p] \in Contents \ (Refused \cup {imported[p]})
           /\ scan' = [rest EXCEPT !.import =
                         [of |-> p, says |-> note[p],
                          step |-> IF p \in Global THEN "memory" ELSE "event"]]
           /\ UNCHANGED <<imported, queued, resolved>>
  /\ UNCHANGED <<hindrances, note, audited, memoryVars, diskVars, remembered, builder, counts>>

(* A store cannot be opened or read: the scan of its root ends, and with a  *)
(* ledger that cannot be opened the tick.                                   *)
FailScan ==
  /\ scan.root # "none" /\ scan.import = None /\ builder["service"].at = "idle"
  /\ Fault
  /\ \/ scan' = [scan EXCEPT !.left = {}]
     \/ scan.root = "project" /\ scan' = Quiet
  /\ UNCHANGED <<hindrances, noteVars, memoryVars, diskVars, remembered, builder>>

Importing(step) == scan.import # None /\ scan.import.step = step

\* Mutant: the import is on record before its memory.
AppendAuditRecording ==
  /\ Importing("event")
  /\ audited' = audited \cup {<<scan.import.of, scan.import.says>>}
  /\ imported' = [imported EXCEPT ![scan.import.of] = scan.import.says]
  /\ scan' = [scan EXCEPT !.import.step = "memory"]
  /\ UNCHANGED <<hindrances, note, queued, resolved, memoryVars, diskVars, remembered, builder,
                 counts>>

(* append_batch of the audit event.                                         *)
AppendAudit ==
  /\ Importing("event")
  /\ audited' = audited \cup {<<scan.import.of, scan.import.says>>}
  /\ scan' = [scan EXCEPT !.import.step = "memory"]
  /\ UNCHANGED <<hindrances, note, imported, queued, resolved, memoryVars, diskVars, remembered,
                 builder, counts>>

(* append_memory and append_preference: a version that is there already is  *)
(* a replay.                                                                *)
Corrected(p, c) ==
  LET v == [by |-> "note", says |-> c]
  IN IF v \in ToSet(versions[p]) THEN versions[p] ELSE Append(versions[p], v)

AppendCorrection ==
  /\ Importing("memory")
  /\ versions' = [versions EXCEPT ![scan.import.of] = Corrected(scan.import.of, scan.import.says)]
  /\ scan' = [scan EXCEPT !.import.step = "record"]
  /\ UNCHANGED <<hindrances, noteVars, withdrawn, paragraph, drafting, diskVars, remembered,
                 builder, counts>>

(* Every row of the path is resolved.                                       *)
Resolves(p) == {row \in queued : row[1] = p}

(* record_note_import and record_note_promotion, which writes the audit row *)
(* of a preference in the same transaction.                                 *)
RecordImport ==
  /\ Importing("record")
  /\ LET p == scan.import.of
     IN /\ imported' = [imported EXCEPT ![p] = scan.import.says]
        /\ resolved' = resolved \cup Resolves(p)
        /\ audited' = IF p \in Global THEN audited \cup {<<p, scan.import.says>>} ELSE audited
  /\ scan' = ScanRest
  /\ UNCHANGED <<hindrances, note, queued, memoryVars, diskVars, remembered, builder, counts>>

(* A statement of the import fails, or it would change the memory's kind:   *)
(* the note is queued, and tried again at the next scan.  If that statement *)
(* fails as well the scan ends.                                             *)
FailImport ==
  /\ scan.import # None
  /\ Fault
  /\ \/ Queue(scan.import.of, scan.import.says) /\ scan' = ScanRest
     \/ /\ scan' = [scan EXCEPT !.left = {}, !.import = None]
        /\ UNCHANGED <<imported, queued, resolved>>
  /\ UNCHANGED <<hindrances, note, audited, memoryVars, diskVars, remembered, builder>>

----------------------------------------------------------------------------
(* rebuild_project.                                                        *)

Idle == [at |-> "idle", rendering |-> None, counted |-> 0]

(* memory_version_count: the rows of memory_versions.                       *)
VersionCount == Cardinality(UNION {{p} \X DOMAIN versions[p] : p \in Notes \ Global})

(* The memories are read and rendered.                                      *)
Render(b) ==
  /\ builder' = [builder EXCEPT ![b].at = "publish",
                               ![b].rendering = [claims |-> Claims, paragraph |-> Shown]]
  /\ overlapped' = (overlapped \/ \E a \in Builders : builder[a].at \notin {"idle", "count"})
  /\ UNCHANGED <<hindrances, noteVars, memoryVars, generations, manifest, view, remembered>>

(* A tick of the service: global preferences, then the notes of the         *)
(* project, then the projection if the number of versions is another.  The  *)
(* map is lost with the process.                                            *)
BeginScan ==
  /\ scan.root = "none" /\ ~paused
  /\ scan' = Discovered("global")
  /\ UNCHANGED <<hindrances, noteVars, memoryVars, diskVars, remembered, builder, counts>>

ScanProject ==
  /\ scan.root = "global" /\ scan.left = {} /\ scan.import = None
  /\ scan' = Discovered("project")
  /\ UNCHANGED <<hindrances, noteVars, memoryVars, diskVars, remembered, builder, counts>>

Scanned ==
  /\ scan.root = "project" /\ scan.left = {} /\ scan.import = None
  /\ builder["service"].at = "idle"

CountVersions ==
  /\ Scanned /\ remembered # VersionCount
  /\ builder' = [builder EXCEPT !["service"].at = "count", !["service"].counted = VersionCount]
  /\ UNCHANGED <<hindrances, noteVars, memoryVars, diskVars, scan, remembered, counts>>

SkipProjection ==
  /\ Scanned /\ remembered = VersionCount
  /\ scan' = Quiet
  /\ UNCHANGED <<hindrances, noteVars, memoryVars, diskVars, remembered, builder, counts>>

(* Versions may arrive after they were counted.                             *)
RenderChanged ==
  /\ builder["service"].at = "count"
  /\ Render("service")
  /\ UNCHANGED <<scan, counts>>

RebuildByHand ==
  /\ "shell" \in Builders /\ builder["shell"].at = "idle"
  /\ Render("shell") /\ Bounded("changes", MaxChanges) /\ UNCHANGED scan

(* The directory is there: its files are verified.                          *)
Present(b) ==
  /\ builder[b].rendering \in DOMAIN generations
  /\ generations[builder[b].rendering] = "whole"

Goto(b, at) == builder' = [builder EXCEPT ![b].at = at]

(* publish_generation, from a staging directory of its own.                 *)
Publish(b) ==
  /\ builder[b].at = "publish"
  /\ LET g == builder[b].rendering
     IN \/ Present(b) /\ UNCHANGED generations
        \/ /\ g \notin DOMAIN generations
           /\ generations' = [h \in DOMAIN generations \cup {g} |->
                                IF h = g THEN "whole" ELSE generations[h]]
  /\ Goto(b, "manifest")
  /\ UNCHANGED <<hindrances, noteVars, memoryVars, manifest, view, overlapped, scan, remembered,
                 counts>>

WriteManifest(b) ==
  /\ builder[b].at = "manifest"
  /\ manifest' = builder[b].rendering
  /\ Goto(b, "prune")
  /\ UNCHANGED <<hindrances, noteVars, memoryVars, generations, view, overlapped, scan,
                 remembered, counts>>

(* prune_superseded_generations: each of the others is removed, and what    *)
(* cannot be removed stays, or part of it.                                  *)
Prune(b) ==
  /\ builder[b].at = "prune"
  /\ LET g == builder[b].rendering
         others == DOMAIN generations \ {g}
     IN \/ generations' = [h \in DOMAIN generations \cap {g} |-> generations[h]] /\ UNCHANGED counts
        \/ /\ Fault
           /\ \E kept \in SUBSET others : \E torn \in SUBSET kept :
                generations' = [h \in (DOMAIN generations \cap {g}) \cup kept |->
                                  IF h \in torn THEN "partial" ELSE generations[h]]
  /\ Goto(b, "done")
  /\ UNCHANGED <<hindrances, noteVars, memoryVars, manifest, view, overlapped, scan,
                 remembered>>

\* Mutant: the count is read when the rebuild is done.
RemembersLater == VersionCount

(* projected_versions is set to the count that was read before the rebuild. *)
Remembers == builder["service"].counted

FinishTick ==
  /\ builder["service"].at = "done"
  /\ remembered' = Remembers
  /\ builder' = [builder EXCEPT !["service"] = Idle]
  /\ scan' = Quiet
  /\ UNCHANGED <<hindrances, noteVars, memoryVars, diskVars, counts>>

(* A file cannot be written, or the rename fails five times, or the         *)
(* directory of that name does not verify: the rebuild fails.               *)
FailRebuild(b) ==
  /\ \/ builder[b].at \in {"count", "publish", "manifest"} /\ Fault
     \/ /\ builder[b].at = "publish" /\ ~Present(b)
        /\ builder[b].rendering \in DOMAIN generations /\ UNCHANGED counts
  /\ builder' = [builder EXCEPT ![b] = Idle]
  /\ scan' = IF b = "service" THEN Quiet ELSE scan
  /\ UNCHANGED <<hindrances, noteVars, memoryVars, diskVars, remembered>>

----------------------------------------------------------------------------
(* `brain rebuild basic-memory`: materialize_view, once the shell's own     *)
(* rebuild of the projection is done.                                       *)

(* copy_tree copies what is there, while the service may be removing it.    *)
CopyView ==
  /\ "shell" \in Builders /\ builder["shell"].at = "done"
  /\ builder["shell"].rendering \in DOMAIN generations
  /\ \/ generations[builder["shell"].rendering] = "whole" /\ Goto("shell", "copied")
     \/ /\ \/ generations[builder["shell"].rendering] = "partial"
           \/ /\ builder["service"].at = "prune"
              /\ builder["service"].rendering # builder["shell"].rendering
        /\ Goto("shell", "torn")
  /\ UNCHANGED <<hindrances, noteVars, memoryVars, diskVars, scan, remembered, counts>>

PutAside ==
  /\ "shell" \in Builders /\ builder["shell"].at \in {"copied", "torn"}
  /\ view' = [live |-> "none", aside |-> view.live]
  /\ Goto("shell", IF builder["shell"].at = "copied" THEN "aside" ELSE "aside torn")
  /\ UNCHANGED <<hindrances, noteVars, memoryVars, generations, manifest, overlapped, scan,
                 remembered, counts>>

PutInPlace ==
  /\ "shell" \in Builders /\ builder["shell"].at \in {"aside", "aside torn"}
  /\ \/ /\ view' = [live |-> IF builder["shell"].at = "aside" THEN "whole" ELSE "partial",
                    aside |-> "none"]
        /\ UNCHANGED counts
     \/ view' = [live |-> view.aside, aside |-> "none"] /\ Fault
  /\ builder' = [builder EXCEPT !["shell"] = Idle]
  /\ UNCHANGED <<hindrances, noteVars, memoryVars, generations, manifest, overlapped, scan,
                 remembered>>

(* `brain rebuild markdown` ends with the projection; a copy fails.         *)
EndShell ==
  /\ "shell" \in Builders /\ builder["shell"].at = "done"
  /\ builder' = [builder EXCEPT !["shell"] = Idle]
  /\ UNCHANGED <<hindrances, noteVars, memoryVars, diskVars, scan, remembered, counts>>

(* The process stops.  A backup of the view that was put aside stays there. *)
Crash(b) ==
  /\ Fault
  /\ builder' = [builder EXCEPT ![b] = Idle]
  /\ IF b = "service"
       THEN scan' = Quiet /\ remembered' = None /\ UNCHANGED view
       ELSE view' = [view EXCEPT !.aside = "none"] /\ UNCHANGED <<scan, remembered>>
  /\ UNCHANGED <<hindrances, noteVars, memoryVars, generations, manifest, overlapped>>

----------------------------------------------------------------------------
VaultInit ==
  /\ note = [p \in Notes |-> None] /\ imported = [p \in Notes |-> None]
  /\ locked = {} /\ paused = FALSE
  /\ queued = {} /\ resolved = {} /\ audited = {}
  /\ versions = [p \in Notes |-> <<>>] /\ withdrawn = {}
  /\ paragraph = None /\ drafting = None
  /\ scan = Quiet /\ remembered = None
  /\ builder = [b \in Builders |-> Idle]
  /\ generations = <<>> /\ manifest = None
  /\ view = [live |-> "none", aside |-> "none"]
  /\ overlapped = FALSE
  /\ counts = [edits |-> 0, changes |-> 0, faults |-> 0]

Scan == (\E p \in Notes : ScanNote(p)) \/ AppendAudit \/ AppendCorrection \/ RecordImport

Rebuild(b) == Publish(b) \/ WriteManifest(b) \/ Prune(b) \/ FailRebuild(b)

ServiceStep ==
  \/ BeginScan \/ ScanProject \/ Scan
  \/ CountVersions \/ SkipProjection \/ RenderChanged \/ Rebuild("service") \/ FinishTick

ShellStep ==
  \/ RebuildByHand \/ ("shell" \in Builders /\ Rebuild("shell"))
  \/ CopyView \/ PutAside \/ PutInPlace \/ EndShell

VaultNext ==
  \/ ServiceStep \/ ShellStep \/ FailScan \/ FailImport \/ Hinder \/ Ease
  \/ \E b \in Builders : Crash(b)
  \/ \E p \in Notes, c \in Contents \cup {None} : Edit(p, c)
  \/ \E p \in Notes, c \in Contents \ Refused : Derive(p, c)
  \/ \E p \in Notes : Withdraw(p)
  \/ Survey \/ StoreParagraph

VaultSpec == VaultInit /\ [][VaultNext]_vaultVars

(* The service's loop goes on, one step after another.                      *)
VaultFair == VaultSpec /\ WF_vaultVars(ServiceStep)

----------------------------------------------------------------------------
(* Properties.                                                             *)

(* record_note_import comes last: a note counts as imported only when its   *)
(* audit event and the version of its memory are stored, wherever an import *)
(* failed or the process stopped before.                                    *)
ImportBacked ==
  \A p \in Notes : imported[p] # None =>
    /\ <<p, imported[p]>> \in audited
    /\ [by |-> "note", says |-> imported[p]] \in ToSet(versions[p])

(* "A content-addressed generation is written and verified before           *)
(* current.json is atomically replaced": what it names is there, whole,     *)
(* whatever was removed, torn by a failed removal or left by a crash; two   *)
(* rebuilds that overlap may take it from each other.                       *)
ManifestWhole ==
  overlapped \/ manifest = None
    \/ (manifest \in DOMAIN generations /\ generations[manifest] = "whole")

(* Basic Memory never indexes a part of a generation, though the copy is    *)
(* not verified: only an overlapping rebuild removes what is being copied.  *)
ViewComplete == overlapped \/ view.live # "partial"

(* What of the notes and the vault is correct at every step, together.      *)
VaultSound == VaultTypeOK /\ ImportBacked /\ ManifestWhole /\ ViewComplete

(* Every note before this one in its root can be read, and so can it.       *)
Reached(p) == \A q \in locked : Root(q) # Root(p) \/ Rank[q] > Rank[p]

Settled(p) == note[p] \in {None, imported[p]} \/ <<p, note[p]>> \in queued \ resolved

(* The note was put back to what it had been queued for before another      *)
(* content of it was imported: that resolved the row, and INSERT OR IGNORE  *)
(* does not open it again.                                                  *)
PutBack(p) == <<p, note[p]>> \in resolved

(* A note that is left alone is imported or in the review queue in the end, *)
(* whatever the notes beside it say and whatever failed before, unless the  *)
(* projection stays paused, a note at or before it stays unreadable, or it  *)
(* was put back.                                                            *)
NotesSettle ==
  \A p \in Notes : <>[](~paused /\ Reached(p)) => <>[](Settled(p) \/ PutBack(p))

(* What a project's memories say is in the vault in the end, unless the     *)
(* projection stays paused, although the service looks at the number of     *)
(* versions only, reads it before they are read themselves, and a rebuild   *)
(* may fail: no version is left out for good.                               *)
ClaimsPublished ==
  <>[]~paused =>
    <>[](overlapped \/ (manifest # None /\ Claims \subseteq manifest.claims))

=============================================================================
