------------------------------- MODULE Segments -------------------------------
(***************************************************************************)
(* Sealing a range of events into an immutable segment, and compacting     *)
(* the ledger's copies of them (brain-store/src/segment.rs, catalog.rs).   *)
(*                                                                         *)
(* A seal writes the data, then the manifest, then the rows of the         *)
(* catalog; it may be interrupted between any two of them, and be run      *)
(* again, on another day, for the same range or for another one.  Capture  *)
(* and consolidation go on beside it.                                      *)
(***************************************************************************)
EXTENDS Integers, FiniteSets

CONSTANTS
  None,
  MaxEvents,  \* bound: events in the ledger
  MaxJobs,    \* bound: consolidation jobs
  MaxDays,    \* bound: the clock
  MaxFaults   \* bound: interruptions

VARIABLES
  count,      \* rows of events, in canonical order
  archived,   \* those whose payload was replaced by '{}'
  jobs,       \* consolidation_jobs that are not completed: ranges of events
  enqueued,   \* bound
  data,       \* .jsonl.zst files
  manifests,  \* .manifest.json files
  catalog,    \* event_segment_catalog and sealed_segments: the segment of an event
  seal,       \* the seal in progress
  day, interrupted

ledgerVars == <<count, archived, jobs, enqueued>>
segmentVars == <<ledgerVars, data, manifests, catalog, seal, day, interrupted>>

----------------------------------------------------------------------------
Ranges == {r \in (1..MaxEvents) \X (1..MaxEvents) : r[1] <= r[2]}

(* A file is named by the day and a hash of what it holds: the events of    *)
(* the range, some of them as the '{}' they were compacted to.              *)
Segment == [range : Ranges, blank : SUBSET (1..MaxEvents), day : 0..MaxDays]

EventsOf(range) == range[1]..range[2]

Catalogued == DOMAIN catalog

----------------------------------------------------------------------------
NoSeal == [at |-> "idle", segment |-> None]

AppendEvent ==
  /\ count < MaxEvents
  /\ count' = count + 1
  /\ UNCHANGED <<archived, jobs, enqueued, data, manifests, catalog, seal, day, interrupted>>

Enqueue(range) ==
  /\ range[2] <= count /\ enqueued < MaxJobs
  /\ jobs' = jobs \cup {range} /\ enqueued' = enqueued + 1
  /\ UNCHANGED <<count, archived, data, manifests, catalog, seal, day, interrupted>>

Finish(range) ==
  /\ range \in jobs
  /\ jobs' = jobs \ {range}
  /\ UNCHANGED <<count, archived, enqueued, data, manifests, catalog, seal, day, interrupted>>

(* seal: a range that has a row is answered from it, another one is read    *)
(* from the ledger as it is now.                                            *)
BeginSeal(range) ==
  /\ seal = NoSeal /\ range[2] <= count
  /\ \A e \in Catalogued : catalog[e].range # range
  /\ seal' = [at |-> "data",
              segment |-> [range |-> range, blank |-> archived \cap EventsOf(range), day |-> day]]
  /\ UNCHANGED <<ledgerVars, data, manifests, catalog, day, interrupted>>

(* write_create_new: what is there already is left as it is.                *)
WriteData ==
  /\ seal.at = "data"
  /\ data' = data \cup {seal.segment}
  /\ seal' = [seal EXCEPT !.at = "verify"]
  /\ UNCHANGED <<ledgerVars, manifests, catalog, day, interrupted>>

(* verify_data: the data is removed if it cannot be verified.               *)
VerifyData ==
  /\ seal.at = "verify"
  /\ \/ seal' = [seal EXCEPT !.at = "manifest"] /\ UNCHANGED <<data, interrupted>>
     \/ /\ interrupted < MaxFaults /\ interrupted' = interrupted + 1
        /\ data' = data \ {seal.segment} /\ seal' = NoSeal
  /\ UNCHANGED <<ledgerVars, manifests, catalog, day>>

WriteManifest ==
  /\ seal.at = "manifest"
  /\ manifests' = manifests \cup {seal.segment}
  /\ seal' = [seal EXCEPT !.at = "rows"]
  /\ UNCHANGED <<ledgerVars, data, catalog, day, interrupted>>

\* Mutant: the rows are committed as soon as the data is written.
CommitsAtVerify == {"verify", "rows"}
CommitsAt == {"rows"}

(* The rows another segment has for events of the range.                    *)
CataloguedIn(range) == Catalogued \cap EventsOf(range)

(* One transaction: it fails if an event of the range has a row.            *)
CommitRows ==
  /\ seal.at \in CommitsAt
  /\ catalog' = IF CataloguedIn(seal.segment.range) # {} THEN catalog
                ELSE [e \in Catalogued \cup EventsOf(seal.segment.range) |->
                        IF e \in EventsOf(seal.segment.range) THEN seal.segment ELSE catalog[e]]
  /\ seal' = NoSeal
  /\ UNCHANGED <<ledgerVars, data, manifests, day, interrupted>>

(* The process stops, or a write of the seal fails.                         *)
Interrupt ==
  /\ seal # NoSeal /\ interrupted < MaxFaults
  /\ interrupted' = interrupted + 1
  /\ seal' = NoSeal
  /\ UNCHANGED <<ledgerVars, data, manifests, catalog, day>>

(* SegmentStore::read                                                       *)
Readable(segment) == segment \in data \cap manifests

(* compact: the segment is read and verified again; none of its events may  *)
(* be in the range of an unfinished job.                                    *)
Compact(segment) ==
  /\ Readable(segment)
  /\ LET replaced == {e \in Catalogued : catalog[e] = segment}
     IN /\ \A job \in jobs : replaced \cap EventsOf(job) = {}
        /\ replaced # {}
        /\ archived' = archived \cup replaced
  /\ UNCHANGED <<count, jobs, enqueued, data, manifests, catalog, seal, day, interrupted>>

Tomorrow ==
  /\ day < MaxDays
  /\ day' = day + 1
  /\ UNCHANGED <<ledgerVars, data, manifests, catalog, seal, interrupted>>

----------------------------------------------------------------------------
SegmentInit ==
  /\ count = 0 /\ archived = {} /\ jobs = {} /\ enqueued = 0
  /\ data = {} /\ manifests = {} /\ catalog = <<>>
  /\ seal = NoSeal /\ day = 0 /\ interrupted = 0

SegmentNext ==
  \/ AppendEvent \/ Tomorrow
  \/ \E range \in Ranges : Enqueue(range) \/ Finish(range) \/ BeginSeal(range)
  \/ WriteData \/ VerifyData \/ WriteManifest \/ CommitRows \/ Interrupt
  \/ \E e \in Catalogued : Compact(catalog[e])

SegmentSpec == SegmentInit /\ [][SegmentNext]_segmentVars

----------------------------------------------------------------------------
(* Properties.                                                             *)

(* "An interruption before manifest/catalog publication leaves every hot    *)
(* row queryable": what an event says is in the ledger, or can be read from *)
(* the segment the catalog names for it, however seals of overlapping       *)
(* ranges were interrupted, repeated and compacted.  And since a seal       *)
(* "publishes the manifest last, and then commits catalog locators", every  *)
(* locator leads to a segment that can be read, also when an earlier        *)
(* attempt left files behind or took them away.                             *)
EvidenceReadable ==
  /\ \A e \in archived : e \in Catalogued /\ e \notin catalog[e].blank
  /\ \A e \in Catalogued : Readable(catalog[e])
=============================================================================
