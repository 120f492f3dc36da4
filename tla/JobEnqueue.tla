----------------------------- MODULE JobEnqueue -----------------------------
(***************************************************************************)
(* How the events of one project's ledger are cut into consolidation jobs: *)
(* the enqueue half of crates/brain-store/src/jobs.rs and its callers in   *)
(* crates/brain-service, each on a SQLite connection of its own:           *)
(*                                                                         *)
(*   Capture   capture.rs, capture_once: appends a batch, then enqueues    *)
(*             through a boundary event or by threshold, and by inactivity *)
(*             at the end of a pass;                                       *)
(*   Hooks     hook_handler.rs, record_session_end: appends a SessionEnded *)
(*             event, then enqueues through it;                            *)
(*   Drain     consolidation.rs, drain_project: enqueues whatever is left. *)
(*                                                                         *)
(* An enqueue reads where the last job ends, chooses its window and only   *)
(* then inserts the job: the statements are not one transaction, so the    *)
(* window may be stale when the job is inserted.  Rows are numbered 1, 2,  *)
(* ... as they are appended: no code deletes an event.                     *)
(*                                                                         *)
(* An event is its size in bytes (payload and raw).  Its age, on which     *)
(* enqueue_inactivity_job decides, is abstracted to either answer.         *)
(***************************************************************************)
EXTENDS Integers, Sequences, FiniteSets, Functions

CONSTANTS
  Capture, Drain, Hooks,  \* connections
  MaxJobEvents,           \* MAX_JOB_EVENTS
  MaxJobBytes,            \* MAX_JOB_PAYLOAD_BYTES
  Threshold,              \* capture's event threshold
  Sizes,                  \* sizes an event may have
  Boundaries,             \* reasons of a job that ends at a boundary event
  SessionStopped,         \* the reason of a session's end
  MaxEvents,              \* bound: events in the ledger
  MaxBatch,               \* bound: events in a captured batch
  MaxFailures             \* bound: crashes and failed statements

Connections == {Capture, Drain} \cup Hooks

Windows == {"event_threshold", "inactivity"}

ASSUME WindowAssumption == /\ MaxJobEvents \in Nat \ {0}
                           /\ MaxJobBytes \in Nat
                           /\ Threshold \in Nat \ {0}
ASSUME SizesAssumption == Sizes \subseteq Nat
ASSUME BoundaryAssumption == SessionStopped \in Boundaries /\ Boundaries \cap Windows = {}
ASSUME HooksAssumption == IsFiniteSet(Hooks)
ASSUME BoundsAssumption == /\ MaxEvents \in Nat
                           /\ MaxBatch \in Nat
                           /\ MaxFailures \in Nat

VARIABLES
  events,    \* the events table, in row order
  jobs,      \* consolidation_jobs, by what their idempotency key is made of
  conn,      \* what each connection is in the middle of
  failures   \* bound: crashes and failures so far

vars == <<events, jobs, conn, failures>>

----------------------------------------------------------------------------
Job == [first : Nat, last : Nat, reason : Boundaries \cup Windows]

Idle == [step |-> "idle"]

(* A connection that has appended its batch and will enqueue through the    *)
(* boundary event it holds ("through"), or by threshold, or has chosen a    *)
(* job to insert.                                                           *)
Connection ==
  {Idle} \cup [step : {"through"}, row : Nat, reason : Boundaries]
         \cup [step : {"threshold"}]
         \cup [step : {"insert"}, job : Job]

TypeOK ==
  /\ events \in Seq(Sizes)
  /\ jobs \subseteq Job
  /\ \A j \in jobs : j.first > 0 /\ j.last \in j.first..Len(events)
  /\ conn \in [Connections -> Connection]
  /\ failures \in Nat

Becomes(c, state) == conn' = [conn EXCEPT ![c] = state]

RowsOf(j) == j.first..j.last

Scheduled == UNION {RowsOf(j) : j \in jobs}

----------------------------------------------------------------------------
(* Where the next job starts.                                               *)

\* Mutant: the last job's first event is taken for its last.
CoveredToFirst(c) ==
  /\ c \in {0} \cup {j.first : j \in jobs}
  /\ \A j \in jobs : j.first <= c

(* COALESCE(MAX(e.rowid), 0) over the last events of all jobs.              *)
LastCovered(c) ==
  /\ c \in {0} \cup {j.last : j \in jobs}
  /\ \A j \in jobs : j.last <= c

Bytes(first, last) == SumFunction(SubSeq(events, first, last))

\* Mutant: an event larger than the bound is not let through alone.
FitsStrictly(c, last) ==
  /\ last - c <= MaxJobEvents
  /\ Bytes(c + 1, last) <= MaxJobBytes

(* Rows c+1..last fit one window: position = 1 OR running_bytes <= bound.   *)
Fits(c, last) ==
  /\ last - c <= MaxJobEvents
  /\ last = c + 1 \/ Bytes(c + 1, last) <= MaxJobBytes

(* unqueued_event_range: the longest window after what is covered.          *)
UnqueuedRange(c, last) ==
  /\ LastCovered(c)
  /\ last \in (c + 1)..Len(events)
  /\ Fits(c, last)
  /\ \A r \in (last + 1)..Len(events) : ~Fits(c, r)

NothingUnqueued == \A covered, last \in 0..Len(events) : ~UnqueuedRange(covered, last)

----------------------------------------------------------------------------
(* The enqueue operations of connection c: read, then insert.               *)

Chooses(c, first, last, reason) ==
  Becomes(c, [step |-> "insert",
              job |-> [first |-> first, last |-> last, reason |-> reason]])

(* enqueue_event_threshold_job up to its insert.                            *)
ReadThreshold(c, threshold) ==
  \/ NothingUnqueued /\ Becomes(c, Idle)
  \/ \E covered, last \in 0..Len(events) :
       /\ UnqueuedRange(covered, last)
       /\ IF last - covered < threshold
            THEN Becomes(c, Idle)
            ELSE Chooses(c, covered + 1, last, "event_threshold")

(* enqueue_inactivity_job up to its insert.                                 *)
ReadInactivity(c) ==
  \E covered, last \in 0..Len(events) :
    /\ UnqueuedRange(covered, last)
    /\ Chooses(c, covered + 1, last, "inactivity")

\* Mutant: the job holds the boundary event only.
ThroughBoundaryOnly(c, row, reason) ==
  \E covered \in 0..Len(events) :
    /\ LastCovered(covered)
    /\ IF covered >= row THEN Becomes(c, Idle) ELSE Chooses(c, row, row, reason)

(* enqueue_through_event_job up to its insert: everything not covered yet,  *)
(* up to the boundary event, whatever its size.                             *)
ReadThrough(c, row, reason) ==
  \E covered \in 0..Len(events) :
    /\ LastCovered(covered)
    /\ IF covered >= row
         THEN Becomes(c, Idle)
         ELSE Chooses(c, covered + 1, row, reason)

(* enqueue_consolidation_job: ON CONFLICT(idempotency_key) DO NOTHING.      *)
Insert(c) ==
  /\ conn[c].step = "insert"
  /\ jobs' = jobs \cup {conn[c].job}
  /\ Becomes(c, Idle)
  /\ UNCHANGED <<events, failures>>

----------------------------------------------------------------------------
(* The callers.                                                             *)

(* capture_once commits a batch.  Its last event may be one the ledger      *)
(* already had: the fresh identifier capture gave it is then in no row, and *)
(* enqueueing through it fails, which ends the pass.                        *)
CaptureAppends(batch, reason, lastIsNew) ==
  /\ conn[Capture] = Idle
  /\ Len(events) + Len(batch) <= MaxEvents
  /\ lastIsNew => Len(batch) > 0
  /\ events' = events \o batch
  /\ Becomes(Capture, [step |-> "through", row |-> IF lastIsNew THEN Len(events') ELSE 0,
                       reason |-> reason])
  /\ UNCHANGED <<jobs, failures>>

CaptureAppendsPlain(batch) ==
  /\ conn[Capture] = Idle
  /\ Len(events) + Len(batch) <= MaxEvents
  /\ events' = events \o batch
  /\ Becomes(Capture, [step |-> "threshold"])
  /\ UNCHANGED <<jobs, failures>>

CaptureInactivity ==
  /\ conn[Capture] = Idle
  /\ ReadInactivity(Capture)
  /\ UNCHANGED <<events, jobs, failures>>

CaptureThreshold ==
  /\ conn[Capture].step = "threshold"
  /\ ReadThreshold(Capture, Threshold)
  /\ UNCHANGED <<events, jobs, failures>>

(* record_session_end.  A second SessionEnd of the same session inserts no  *)
(* row and enqueues nothing.                                                *)
HookAppends(h, size) ==
  /\ conn[h] = Idle
  /\ Len(events) < MaxEvents
  /\ events' = Append(events, size)
  /\ Becomes(h, [step |-> "through", row |-> Len(events'), reason |-> SessionStopped])
  /\ UNCHANGED <<jobs, failures>>

(* Row 0 stands for an identifier that is in no row.                        *)
Through(c) ==
  /\ conn[c].step = "through"
  /\ \/ conn[c].row = 0 /\ Becomes(c, Idle)
     \/ conn[c].row > 0 /\ ReadThrough(c, conn[c].row, conn[c].reason)
  /\ UNCHANGED <<events, jobs, failures>>

(* drain_project tops up the backlog before it runs jobs.                   *)
DrainReads ==
  /\ conn[Drain] = Idle
  /\ ReadThreshold(Drain, 1)
  /\ UNCHANGED <<events, jobs, failures>>

(* One connection's statement fails (the database stays busy), or the whole *)
(* service dies.                                                            *)
StatementFails(c) ==
  /\ conn[c] # Idle /\ failures < MaxFailures
  /\ Becomes(c, Idle)
  /\ failures' = failures + 1
  /\ UNCHANGED <<events, jobs>>

ServiceCrash ==
  /\ failures < MaxFailures
  /\ conn' = [c \in Connections |-> Idle]
  /\ failures' = failures + 1
  /\ UNCHANGED <<events, jobs>>

----------------------------------------------------------------------------
Init ==
  /\ events = <<>>
  /\ jobs = {}
  /\ conn = [c \in Connections |-> Idle]
  /\ failures = 0

Batches == UNION {[1..n -> Sizes] : n \in 0..MaxBatch}

CaptureNext ==
  \/ \E batch \in Batches :
       \/ CaptureAppendsPlain(batch)
       \/ \E reason \in Boundaries, lastIsNew \in BOOLEAN :
            CaptureAppends(batch, reason, lastIsNew)
  \/ CaptureThreshold
  \/ CaptureInactivity

HookNext == \E h \in Hooks, size \in Sizes : HookAppends(h, size)

Next ==
  \/ CaptureNext
  \/ HookNext
  \/ DrainReads
  \/ \E c \in Connections : Through(c) \/ Insert(c) \/ StatementFails(c)
  \/ ServiceCrash

(* The drain loop ticks forever and reopens the ledger on each tick; only   *)
(* its own failures, which are bounded, keep it from inserting.             *)
Fairness == WF_vars(DrainReads) /\ WF_vars(Insert(Drain))

Spec == Init /\ [][Next]_vars /\ Fairness

----------------------------------------------------------------------------
(* Properties.                                                              *)

(* No event is skipped: every row up to the end of any job lies in a job,   *)
(* although windows are chosen from a stale end of the last job.  A gap     *)
(* would never be filled, because the next window starts after the last     *)
(* job.                                                                     *)
NoGap == \A j \in jobs : 1..j.last \subseteq Scheduled

(* Jobs of racing connections may overlap, but an event is never in more    *)
(* jobs than there are connections: once a job holding it is inserted,      *)
(* nobody chooses it again.                                                 *)
OverlapBounded ==
  \A r \in 1..Len(events) :
    Cardinality({j \in jobs : r \in RowsOf(j)}) <= Cardinality(Connections)

Bounded(j) ==
  /\ j.last - j.first < MaxJobEvents
  /\ j.first = j.last \/ Bytes(j.first, j.last) <= MaxJobBytes

(* A job whose end the queue chose is an API request of bounded size, and a *)
(* single event above the bound goes alone.                                 *)
WindowJobsBounded == \A j \in jobs : j.reason \in Windows => Bounded(j)

JobsBounded == OverlapBounded /\ WindowJobsBounded

(* The same of every job: "Most events a single consolidation job may span" *)
(* (jobs.rs) and "it respects MAX_JOB_EVENTS and MAX_JOB_PAYLOAD_BYTES"     *)
(* (hook_handler.rs) say it of jobs that end at a boundary event too.       *)
EveryJobBounded == \A j \in jobs : Bounded(j)

(* The queue implements the abstract schedule, liveness included: a crash   *)
(* or an error between an append and its enqueue loses no event.            *)
Abstract == INSTANCE EventSchedule
              WITH Rows <- 1..MaxEvents, appended <- Len(events), scheduled <- Scheduled

ImplementsSchedule == Abstract!Spec
=============================================================================
