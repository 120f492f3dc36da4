-------------------------- MODULE JobEnqueueProofs --------------------------
(***************************************************************************)
(* For every number of hook connections and every window bound: no event   *)
(* is skipped by the job queue (NoGap), every step of the queue is a step  *)
(* of the abstract schedule or a stutter (ImplementsSafety), and overlaps  *)
(* and windows are bounded (JobsBounded).                                  *)
(*                                                                         *)
(* NoGap alone is not inductive: a connection inserts a job it chose when  *)
(* the queue ended earlier.  The strengthening is that whatever precedes a *)
(* job about to be inserted is already scheduled (ChosenAdjacent).  For    *)
(* the overlaps it is that the jobs which hold an event and the            *)
(* connections about to insert one that does are together no more than the *)
(* connections (OverlapInv).                                               *)
(***************************************************************************)
EXTENDS JobEnqueue, SequenceTheorems, FiniteSetTheorems, TLAPS

(* A job that a connection has chosen lies within the ledger, and every row *)
(* before it is in a job already.                                           *)
ChosenAdjacent ==
  \A c \in Connections : conn[c].step = "insert" =>
    /\ conn[c].job \in Job /\ conn[c].job.first > 0
    /\ conn[c].job.first <= conn[c].job.last
    /\ conn[c].job.last \in 1..Len(events)
    /\ \A r \in 1..(conn[c].job.first - 1) : r \in Scheduled

(* A boundary event that a connection holds is a row of the ledger.         *)
BoundaryStored ==
  \A c \in Connections : conn[c].step = "through" =>
    conn[c].row \in 0..Len(events) /\ conn[c].reason \in Boundaries

Contiguous ==
  /\ jobs \subseteq Job
  /\ \A j \in jobs : j.first > 0 /\ j.first <= j.last /\ j.last \in 1..Len(events)
  /\ \A j \in jobs : \A r \in 1..j.last : r \in Scheduled

Typed == events \in Seq(Sizes) /\ conn \in [Connections -> Connection]

IInv == Typed /\ Contiguous /\ ChosenAdjacent /\ BoundaryStored

(* The rows up to where the queue ends are scheduled.                       *)
LEMMA CoveredScheduled ==
  ASSUME IInv, NEW c \in Nat, LastCovered(c)
  PROVE  \A r \in 1..c : r \in Scheduled
  BY DEF IInv, Contiguous, LastCovered

(* An enqueue that reads leaves the invariant: what it chose starts right   *)
(* after what was covered.                                                  *)
LEMMA ChoiceKeeps ==
  ASSUME IInv, NEW c \in Connections, NEW first \in Nat \ {0}, NEW last \in Nat,
         NEW reason \in Boundaries \cup Windows,
         last \in 1..Len(events), first <= last, \A r \in 1..(first - 1) : r \in Scheduled,
         Chooses(c, first, last, reason), UNCHANGED <<events, jobs>>
  PROVE  IInv'
<1> DEFINE j == [first |-> first, last |-> last, reason |-> reason]
           new == [step |-> "insert", job |-> j]
<1>1. j \in Job /\ new \in Connection
  BY DEF Job, Connection
<1>2. conn' = [conn EXCEPT ![c] = new]
  BY DEF Chooses, Becomes
<1>3. Typed' /\ Contiguous' /\ Scheduled' = Scheduled
  BY <1>1, <1>2 DEF IInv, Typed, Contiguous, Scheduled
<1>4. ChosenAdjacent'
  <2> SUFFICES ASSUME NEW d \in Connections, conn'[d].step = "insert"
               PROVE  /\ conn'[d].job \in Job /\ conn'[d].job.first > 0
                      /\ conn'[d].job.first <= conn'[d].job.last
                      /\ conn'[d].job.last \in 1..Len(events)
                      /\ \A r \in 1..(conn'[d].job.first - 1) : r \in Scheduled
    BY <1>3 DEF ChosenAdjacent
  <2>1. CASE d = c
    <3>1. conn'[d].job = j
      BY <1>2, <2>1 DEF IInv, Typed
    <3>2. j.first = first /\ j.last = last
      OBVIOUS
    <3> QED BY <3>1, <3>2, <1>1
  <2>2. CASE d # c
    BY <1>2, <2>2 DEF IInv, Typed, ChosenAdjacent
  <2> QED BY <2>1, <2>2
<1>5. BoundaryStored'
  BY <1>2 DEF IInv, Typed, BoundaryStored
<1> QED BY <1>3, <1>4, <1>5 DEF IInv

(* A connection that drops what it was doing leaves the invariant.          *)
LEMMA IdleKeeps ==
  ASSUME IInv, NEW c \in Connections, Becomes(c, Idle), UNCHANGED <<events, jobs>>
  PROVE  IInv'
<1>1. Idle \in Connection /\ Idle.step = "idle"
  BY DEF Idle, Connection
<1>2. conn' = [conn EXCEPT ![c] = Idle]
  BY DEF Becomes
<1>3. Typed' /\ Contiguous'
  BY <1>1, <1>2 DEF IInv, Typed, Contiguous, Scheduled
<1>4. ChosenAdjacent' /\ BoundaryStored'
  BY <1>1, <1>2 DEF IInv, Typed, ChosenAdjacent, BoundaryStored, Scheduled
<1> QED BY <1>3, <1>4 DEF IInv

(* A window after what is covered may be chosen.                            *)
LEMMA WindowKeeps ==
  ASSUME IInv, NEW c \in Connections, NEW covered \in 0..Len(events),
         NEW last \in 0..Len(events), NEW reason \in Windows,
         UnqueuedRange(covered, last), Chooses(c, covered + 1, last, reason),
         UNCHANGED <<events, jobs>>
  PROVE  IInv'
<1>1. Len(events) \in Nat
  BY DEF IInv, Typed
<1>2. covered \in Nat /\ last \in Nat /\ covered + 1 \in Nat \ {0} /\ last \in 1..Len(events)
      /\ covered + 1 <= last
  BY <1>1 DEF UnqueuedRange
<1>3. \A r \in 1..((covered + 1) - 1) : r \in Scheduled
  BY <1>2, CoveredScheduled DEF UnqueuedRange
<1> QED BY <1>2, <1>3, ChoiceKeeps

LEMMA ThresholdKeeps ==
  ASSUME IInv, NEW c \in Connections, NEW n, ReadThreshold(c, n), UNCHANGED <<events, jobs>>
  PROVE  IInv'
<1>1. CASE NothingUnqueued /\ Becomes(c, Idle)
  BY <1>1, IdleKeeps
<1>2. ASSUME NEW covered \in 0..Len(events), NEW last \in 0..Len(events),
             UnqueuedRange(covered, last),
             IF last - covered < n
               THEN Becomes(c, Idle)
               ELSE Chooses(c, covered + 1, last, "event_threshold")
      PROVE  IInv'
  <2>1. CASE Becomes(c, Idle)
    BY <2>1, IdleKeeps
  <2>2. CASE Chooses(c, covered + 1, last, "event_threshold")
    <3>1. "event_threshold" \in Windows
      BY DEF Windows
    <3> QED BY <3>1, <2>2, <1>2, WindowKeeps
  <2> QED BY <1>2, <2>1, <2>2
<1> QED BY <1>1, <1>2 DEF ReadThreshold

LEMMA InactivityKeeps ==
  ASSUME IInv, NEW c \in Connections, ReadInactivity(c), UNCHANGED <<events, jobs>>
  PROVE  IInv'
<1>1. PICK covered \in 0..Len(events), last \in 0..Len(events) :
        UnqueuedRange(covered, last) /\ Chooses(c, covered + 1, last, "inactivity")
  BY DEF ReadInactivity
<1>2. "inactivity" \in Windows
  BY DEF Windows
<1> QED BY <1>1, <1>2, WindowKeeps

LEMMA ThroughKeeps ==
  ASSUME IInv, NEW c \in Connections, Through(c)
  PROVE  IInv'
<1>1. UNCHANGED <<events, jobs>> /\ conn[c].step = "through"
  BY DEF Through
<1>2. CASE Becomes(c, Idle)
  BY <1>1, <1>2, IdleKeeps
<1>3. CASE conn[c].row > 0 /\ ReadThrough(c, conn[c].row, conn[c].reason)
  <2>1. PICK covered \in 0..Len(events) :
          /\ LastCovered(covered)
          /\ IF covered >= conn[c].row
               THEN Becomes(c, Idle)
               ELSE Chooses(c, covered + 1, conn[c].row, conn[c].reason)
    BY <1>3 DEF ReadThrough
  <2>2. Len(events) \in Nat /\ conn[c].row \in 0..Len(events) /\ conn[c].reason \in Boundaries
    BY <1>1 DEF IInv, Typed, BoundaryStored
  <2>3. covered \in Nat /\ covered + 1 \in Nat \ {0} /\ conn[c].row \in Nat /\ conn[c].row \in 1..Len(events)
    BY <1>3, <2>2
  <2>4. \A r \in 1..((covered + 1) - 1) : r \in Scheduled
    BY <2>1, <2>3, CoveredScheduled
  <2>5. CASE Chooses(c, covered + 1, conn[c].row, conn[c].reason)
    <3>1. CASE covered >= conn[c].row
      BY <1>2, <2>1, <3>1
    <3>2. CASE covered + 1 <= conn[c].row
      BY <1>1, <2>2, <2>3, <2>4, <2>5, <3>2, ChoiceKeeps
    <3> QED BY <2>3, <3>1, <3>2
  <2> QED BY <1>2, <2>1, <2>5
<1> QED BY <1>2, <1>3 DEF Through

(* The job inserted is adjacent to, or overlaps, what is scheduled.         *)
LEMMA InsertKeeps ==
  ASSUME IInv, NEW c \in Connections, Insert(c)
  PROVE  IInv'
<1> DEFINE j == conn[c].job
<1>1. /\ j \in Job /\ j.first > 0 /\ j.first <= j.last /\ j.last \in 1..Len(events)
      /\ \A r \in 1..(j.first - 1) : r \in Scheduled
  BY DEF IInv, ChosenAdjacent, Insert
<1>2. jobs' = jobs \cup {j} /\ events' = events /\ conn' = [conn EXCEPT ![c] = Idle]
  BY DEF Insert, Becomes
<1> HIDE DEF j
<1>3. Scheduled' = Scheduled \cup RowsOf(j)
  BY <1>2 DEF Scheduled
<1>4. Idle \in Connection /\ Idle.step = "idle"
  BY DEF Idle, Connection
<1>5. Typed'
  BY <1>2, <1>4 DEF IInv, Typed
<1>6. Contiguous'
  <2>1. \A r \in 1..j.last : r \in Scheduled'
    BY <1>1, <1>3 DEF RowsOf, Job
  <2>2. \A k \in jobs' : \A r \in 1..k.last : r \in Scheduled'
    BY <1>2, <1>3, <2>1 DEF IInv, Contiguous
  <2>3. jobs' \subseteq Job /\ \A k \in jobs' : k.first > 0 /\ k.first <= k.last /\ k.last \in 1..Len(events')
    BY <1>1, <1>2 DEF IInv, Contiguous
  <2> QED BY <2>2, <2>3 DEF Contiguous
<1>7. ChosenAdjacent' /\ BoundaryStored'
  BY <1>2, <1>3, <1>4 DEF IInv, Typed, ChosenAdjacent, BoundaryStored
<1> QED BY <1>5, <1>6, <1>7 DEF IInv

(* Events are only ever added behind what the connections hold.             *)
LEMMA AppendKeeps ==
  ASSUME IInv, NEW c \in Connections, NEW batch \in Seq(Sizes), NEW new \in Connection,
         events' = events \o batch, UNCHANGED jobs, Becomes(c, new),
         new.step # "insert",
         new.step = "through" => new.row \in 0..Len(events') /\ new.reason \in Boundaries
  PROVE  IInv'
<1>1. events' \in Seq(Sizes) /\ Len(events) \in Nat /\ Len(events') \in Nat
      /\ Len(events) <= Len(events')
  BY DEF IInv, Typed
<1>2. conn' = [conn EXCEPT ![c] = new] /\ Scheduled' = Scheduled
  BY DEF Becomes, Scheduled
<1>3. Typed'
  BY <1>1, <1>2 DEF IInv, Typed
<1>4. Contiguous'
  BY <1>1, <1>2 DEF IInv, Contiguous
<1>5. ChosenAdjacent'
  BY <1>1, <1>2 DEF IInv, Typed, ChosenAdjacent
<1>6. BoundaryStored'
  BY <1>1, <1>2 DEF IInv, Typed, BoundaryStored
<1> QED BY <1>3, <1>4, <1>5, <1>6 DEF IInv

LEMMA BatchesAreSequences ==
  ASSUME NEW batch \in Batches
  PROVE  batch \in Seq(Sizes)
<1>1. PICK n \in 0..MaxBatch : batch \in [1..n -> Sizes]
  BY DEF Batches
<1>2. n \in Nat
  BY <1>1, BoundsAssumption
<1> QED BY <1>1, <1>2

LEMMA CaptureKeeps ==
  ASSUME IInv, CaptureNext
  PROVE  IInv'
<1>1. Capture \in Connections
  BY DEF Connections
<1>2. ASSUME NEW batch \in Batches, CaptureAppendsPlain(batch)
      PROVE  IInv'
  <2> DEFINE new == [step |-> "threshold"]
  <2>1. new \in Connection /\ new.step = "threshold"
    BY DEF Connection
  <2>2. events' = events \o batch /\ UNCHANGED jobs /\ Becomes(Capture, new)
    BY <1>2 DEF CaptureAppendsPlain
  <2> HIDE DEF new
  <2> QED BY <1>1, <2>1, <2>2, BatchesAreSequences, AppendKeeps
<1>3. ASSUME NEW batch \in Batches, NEW reason \in Boundaries, NEW lastIsNew \in BOOLEAN,
             CaptureAppends(batch, reason, lastIsNew)
      PROVE  IInv'
  <2> DEFINE row == IF lastIsNew THEN Len(events') ELSE 0
             new == [step |-> "through", row |-> row, reason |-> reason]
  <2>1. events' = events \o batch /\ UNCHANGED jobs /\ Becomes(Capture, new)
    BY <1>3 DEF CaptureAppends
  <2>2. batch \in Seq(Sizes)
    BY BatchesAreSequences
  <2>3. Len(events') \in Nat
    BY <2>1, <2>2 DEF IInv, Typed
  <2>4. row \in 0..Len(events')
    BY <2>3
  <2>5. new \in Connection /\ new.step = "through" /\ new.row = row /\ new.reason = reason
    BY <2>3, <2>4 DEF Connection
  <2> HIDE DEF new, row
  <2> QED BY <1>1, <2>1, <2>2, <2>4, <2>5, AppendKeeps
<1>4. CASE CaptureThreshold
  BY <1>1, <1>4, ThresholdKeeps DEF CaptureThreshold
<1>5. CASE CaptureInactivity
  BY <1>1, <1>5, InactivityKeeps DEF CaptureInactivity
<1> QED BY <1>2, <1>3, <1>4, <1>5 DEF CaptureNext

LEMMA HookKeeps ==
  ASSUME IInv, NEW h \in Hooks, NEW size \in Sizes, HookAppends(h, size)
  PROVE  IInv'
<1> DEFINE new == [step |-> "through", row |-> Len(events'), reason |-> SessionStopped]
<1>1. events \in Seq(Sizes) /\ events' = Append(events, size)
  BY DEF HookAppends, IInv, Typed
<1>2. <<size>> \in Seq(Sizes) /\ events' = events \o <<size>> /\ Len(events') \in Nat
  BY <1>1
<1>3. new \in Connection /\ new.step = "through" /\ new.row = Len(events')
      /\ new.reason = SessionStopped
  BY <1>2, BoundaryAssumption DEF Connection
<1>4. UNCHANGED jobs /\ Becomes(h, new)
  BY DEF HookAppends
<1>5. h \in Connections /\ Len(events') \in 0..Len(events')
  BY <1>2 DEF Connections
<1> HIDE DEF new
<1> QED BY <1>2, <1>3, <1>4, <1>5, BoundaryAssumption, AppendKeeps

LEMMA InitIInv == Init => IInv
<1> SUFFICES ASSUME Init PROVE IInv
  OBVIOUS
<1>1. Idle \in Connection /\ Idle.step = "idle"
  BY DEF Idle, Connection
<1>2. conn \in [Connections -> Connection] /\ \A c \in Connections : conn[c].step = "idle"
  BY <1>1 DEF Init
<1>3. events \in Seq(Sizes) /\ Len(events) = 0 /\ jobs = {}
  BY DEF Init
<1> QED BY <1>2, <1>3 DEF IInv, Typed, Contiguous, ChosenAdjacent, BoundaryStored

LEMMA NextIInv == IInv /\ [Next]_vars => IInv'
<1> SUFFICES ASSUME IInv, [Next]_vars PROVE IInv'
  OBVIOUS
<1>1. CASE CaptureNext
  BY <1>1, CaptureKeeps
<1>2. CASE HookNext
  BY <1>2, HookKeeps DEF HookNext
<1>3. CASE DrainReads
  BY <1>3, ThresholdKeeps DEF DrainReads, Connections
<1>4. ASSUME NEW c \in Connections, Through(c) PROVE IInv'
  BY <1>4, ThroughKeeps
<1>5. ASSUME NEW c \in Connections, Insert(c) PROVE IInv'
  BY <1>5, InsertKeeps
<1>6. ASSUME NEW c \in Connections, StatementFails(c) PROVE IInv'
  BY <1>6, IdleKeeps DEF StatementFails
<1>7. CASE ServiceCrash
  <2>1. Idle \in Connection /\ Idle.step = "idle"
    BY DEF Idle, Connection
  <2>2. UNCHANGED <<events, jobs>> /\ conn' = [c \in Connections |-> Idle]
    BY <1>7 DEF ServiceCrash
  <2>3. Typed' /\ Contiguous'
    BY <2>1, <2>2 DEF IInv, Typed, Contiguous, Scheduled
  <2>4. ChosenAdjacent' /\ BoundaryStored'
    BY <2>1, <2>2 DEF ChosenAdjacent, BoundaryStored
  <2> QED BY <2>3, <2>4 DEF IInv
<1>8. CASE UNCHANGED vars
  BY <1>8 DEF vars, IInv, Typed, Contiguous, ChosenAdjacent, BoundaryStored, Scheduled
<1> QED BY <1>1, <1>2, <1>3, <1>4, <1>5, <1>6, <1>7, <1>8 DEF Next

LEMMA InvariantHolds == Spec => []IInv
<1> QED BY InitIInv, NextIInv, PTL DEF Spec

(* The rows, the jobs and what the connections hold keep their shape: a job *)
(* starts no later than it ends, and ends in the ledger.                    *)
THEOREM TypeCorrect == Spec => []TypeOK
<1> DEFINE Counted == failures \in Nat
<1>1. IInv /\ Counted => TypeOK
  BY DEF IInv, Typed, Contiguous, Job, TypeOK
<1>2. Init => Counted
  BY DEF Init
<1>3. Counted /\ [Next]_vars => Counted'
  <2> SUFFICES ASSUME Counted, [Next]_vars PROVE Counted'
    OBVIOUS
  <2>1. CASE UNCHANGED failures
    BY <2>1
  <2>2. CASE failures' = failures + 1
    BY <2>2
  <2>3. CaptureNext => UNCHANGED failures
    BY DEF CaptureNext, CaptureAppendsPlain, CaptureAppends, CaptureThreshold, CaptureInactivity
  <2>4. HookNext => UNCHANGED failures
    BY DEF HookNext, HookAppends
  <2>5. ASSUME NEW c \in Connections, Through(c) \/ Insert(c) \/ StatementFails(c)
        PROVE  Counted'
    BY <2>1, <2>2, <2>5 DEF Through, Insert, StatementFails
  <2> QED
    BY <2>1, <2>2, <2>3, <2>4, <2>5 DEF Next, DrainReads, ServiceCrash, vars
<1> HIDE DEF Counted
<1> QED BY <1>1, <1>2, <1>3, InvariantHolds, PTL DEF Spec

(* No event is ever skipped by the job queue, whatever connections race.    *)
THEOREM NothingSkipped == Spec => []NoGap
<1>1. IInv => NoGap
  BY DEF IInv, Contiguous, NoGap
<1> QED BY <1>1, InvariantHolds, PTL

----------------------------------------------------------------------------
(* Refinement of the abstract schedule.                                     *)

(* What is scheduled is a prefix of the ledger: it holds, with a row, every *)
(* row before it.                                                           *)
LEMMA ScheduledPrefix ==
  ASSUME IInv, NEW r \in Scheduled
  PROVE  r \in Nat \ {0} /\ \A q \in 1..r : q \in Scheduled
<1>1. PICK k \in jobs : r \in RowsOf(k)
  BY DEF Scheduled
<1>2. k \in Job /\ k.first > 0 /\ \A q \in 1..k.last : q \in Scheduled
  BY <1>1 DEF IInv, Contiguous
<1>3. k.first \in Nat /\ k.last \in Nat
  BY <1>2 DEF Job
<1>4. r \in k.first..k.last
  BY <1>1 DEF RowsOf
<1> QED BY <1>2, <1>3, <1>4

(* Inserting a job extends the scheduled prefix to the job's end, or        *)
(* changes nothing when a racing connection was ahead.                      *)
LEMMA InsertSchedules ==
  ASSUME IInv, NEW c \in Connections, Insert(c)
  PROVE  Abstract!Schedule \/ UNCHANGED <<Len(events), Scheduled>>
<1> DEFINE j == conn[c].job
<1>1. /\ j \in Job /\ j.first > 0 /\ j.first <= j.last /\ j.last \in 1..Len(events)
      /\ \A r \in 1..(j.first - 1) : r \in Scheduled
  BY DEF IInv, ChosenAdjacent, Insert
<1>2. jobs' = jobs \cup {j} /\ events' = events
  BY DEF Insert
<1> HIDE DEF j
<1>3. Scheduled' = Scheduled \cup RowsOf(j)
  BY <1>2 DEF Scheduled
<1>4. j.first \in Nat /\ j.last \in Nat /\ RowsOf(j) = j.first..j.last
  BY <1>1 DEF Job, RowsOf
<1>5. CASE j.last \in Scheduled
  <2>1. RowsOf(j) \subseteq Scheduled
    BY <1>1, <1>4, <1>5, ScheduledPrefix
  <2> QED BY <1>2, <1>3, <2>1
<1>6. CASE j.last \notin Scheduled
  <2>1. \A r \in Scheduled : r \in 1..j.last
    <3> TAKE r \in Scheduled
    <3>1. r \in Nat \ {0} /\ \A q \in 1..r : q \in Scheduled
      BY ScheduledPrefix
    <3>2. ~(j.last \in 1..r)
      BY <1>6, <3>1
    <3> QED BY <1>1, <1>4, <3>1, <3>2
  <2>2. \A r \in 1..j.last : r \in Scheduled \cup RowsOf(j)
    BY <1>1, <1>4
  <2>3. \A r \in RowsOf(j) : r \in 1..j.last
    BY <1>1, <1>4
  <2>4. Scheduled' = 1..j.last
    BY <1>3, <2>1, <2>2, <2>3
  <2> QED BY <1>1, <1>2, <1>6, <2>4 DEF Abstract!Schedule
<1> QED BY <1>5, <1>6

LEMMA AppendAppends ==
  ASSUME IInv, NEW batch \in Seq(Sizes), events' = events \o batch, UNCHANGED jobs,
         Len(events) + Len(batch) <= MaxEvents
  PROVE  Abstract!Append \/ UNCHANGED <<Len(events), Scheduled>>
<1>1. Len(events) \in Nat /\ Len(batch) \in Nat /\ Len(events') = Len(events) + Len(batch)
  BY DEF IInv, Typed
<1>2. Scheduled' = Scheduled
  BY DEF Scheduled
<1>3. CASE Len(batch) = 0
  BY <1>1, <1>2, <1>3
<1>4. CASE Len(batch) > 0
  <2>1. Len(events') \in 1..MaxEvents /\ Len(events') > Len(events)
    BY <1>1, <1>4, BoundsAssumption
  <2> QED BY <1>2, <2>1 DEF Abstract!Append
<1> QED BY <1>1, <1>3, <1>4

LEMMA NextImplements ==
  IInv /\ [Next]_vars => [Abstract!Next]_<<Len(events), Scheduled>>
<1> SUFFICES ASSUME IInv, [Next]_vars
             PROVE  Abstract!Next \/ UNCHANGED <<Len(events), Scheduled>>
  OBVIOUS
<1>1. ASSUME UNCHANGED <<events, jobs>>
      PROVE  UNCHANGED <<Len(events), Scheduled>>
  BY <1>1 DEF Scheduled
<1>2. CASE CaptureNext
  <2>1. ASSUME NEW batch \in Batches, CaptureAppendsPlain(batch)
        PROVE  Abstract!Next \/ UNCHANGED <<Len(events), Scheduled>>
    BY <2>1, BatchesAreSequences, AppendAppends DEF CaptureAppendsPlain, Abstract!Next
  <2>2. ASSUME NEW batch \in Batches, NEW reason \in Boundaries, NEW new \in BOOLEAN,
               CaptureAppends(batch, reason, new)
        PROVE  Abstract!Next \/ UNCHANGED <<Len(events), Scheduled>>
    BY <2>2, BatchesAreSequences, AppendAppends DEF CaptureAppends, Abstract!Next
  <2> QED BY <1>1, <1>2, <2>1, <2>2 DEF CaptureNext, CaptureThreshold, CaptureInactivity
<1>3. CASE HookNext
  <2>1. PICK h \in Hooks, size \in Sizes : HookAppends(h, size)
    BY <1>3 DEF HookNext
  <2>2. <<size>> \in Seq(Sizes) /\ Len(<<size>>) = 1 /\ events' = events \o <<size>>
    BY <2>1 DEF HookAppends, IInv, Typed
  <2>3. Len(events) + Len(<<size>>) <= MaxEvents
    BY <2>1, <2>2, BoundsAssumption DEF HookAppends, IInv, Typed
  <2> QED BY <2>1, <2>2, <2>3, AppendAppends DEF HookAppends, Abstract!Next
<1>4. ASSUME NEW c \in Connections, Insert(c)
      PROVE  Abstract!Next \/ UNCHANGED <<Len(events), Scheduled>>
  BY <1>4, InsertSchedules DEF Abstract!Next
<1>5. ASSUME NEW c \in Connections, Through(c) \/ StatementFails(c)
      PROVE  UNCHANGED <<Len(events), Scheduled>>
  BY <1>1, <1>5 DEF Through, StatementFails
<1>6. CASE DrainReads \/ ServiceCrash \/ UNCHANGED vars
  BY <1>1, <1>6 DEF DrainReads, ServiceCrash, vars
<1> QED BY <1>2, <1>3, <1>4, <1>5, <1>6 DEF Next

(* The job queue implements the safety part of the abstract schedule: what  *)
(* is handed to consolidation is a prefix of the ledger that only grows.    *)
THEOREM ImplementsSafety == Spec => Abstract!SafetySpec
<1>1. Init => Abstract!Init
  BY DEF Init, Scheduled, Abstract!Init
<1>2. IInv /\ [Next]_vars => [Abstract!Next]_<<Len(events), Scheduled>>
  BY NextImplements
<1> QED BY <1>1, <1>2, InvariantHolds, PTL DEF Spec, Abstract!SafetySpec
----------------------------------------------------------------------------
(* Jobs are bounded.  An event that is in no job may be in the choice of    *)
(* every connection, but once it is in one nobody chooses it again: the     *)
(* jobs that hold it and the connections that are about to insert such a    *)
(* job are together never more than the connections.                        *)

Holding(r) == {j \in jobs : r \in RowsOf(j)}

Chosen(c, r) == conn[c].step = "insert" /\ r \in RowsOf(conn[c].job)

Choosing(r) == {c \in Connections : Chosen(c, r)}

OverlapInv ==
  /\ IsFiniteSet(jobs)
  /\ \A r \in Nat :
       Cardinality(Holding(r)) + Cardinality(Choosing(r)) <= Cardinality(Connections)

(* A window is bounded when it is chosen.                                   *)
ChosenBounded ==
  \A c \in Connections :
    conn[c].step = "insert" /\ conn[c].job.reason \in Windows => Bounded(conn[c].job)

BInv == OverlapInv /\ WindowJobsBounded /\ ChosenBounded

LEMMA ConnectionsFinite == IsFiniteSet(Connections)
<1>1. IsFiniteSet(Hooks \cup {Capture})
  BY HooksAssumption, FS_AddElement
<1>2. IsFiniteSet((Hooks \cup {Capture}) \cup {Drain})
  BY <1>1, FS_AddElement
<1>3. Connections = (Hooks \cup {Capture}) \cup {Drain}
  BY DEF Connections
<1> QED
  BY <1>2, <1>3

LEMMA Counts ==
  ASSUME IsFiniteSet(jobs), NEW r \in Nat
  PROVE  /\ IsFiniteSet(Holding(r)) /\ Cardinality(Holding(r)) \in Nat
         /\ IsFiniteSet(Choosing(r)) /\ Cardinality(Choosing(r)) \in Nat
         /\ Cardinality(Connections) \in Nat
<1>1. Holding(r) \in SUBSET jobs /\ Choosing(r) \in SUBSET Connections
  BY DEF Holding, Choosing
<1>2. IsFiniteSet(Holding(r)) /\ IsFiniteSet(Choosing(r))
  BY <1>1, ConnectionsFinite, FS_Subset
<1> QED
  BY <1>2, ConnectionsFinite, FS_CardinalityType

(* What a job holds does not change when events are added behind it.        *)
LEMMA BoundedLater ==
  ASSUME Typed, NEW batch \in Seq(Sizes), events' = events \o batch,
         NEW j \in Job, j.first > 0, j.last \in 1..Len(events)
  PROVE  Bounded(j)' <=> Bounded(j)
<1> DEFINE a == j.first
           b == j.last
<1>1. a \in Nat \ {0} /\ b \in Nat /\ b <= Len(events) /\ Len(events) \in Nat
  BY DEF Job, Typed
<1>2. events \in Seq(Sizes) /\ Len(batch) \in Nat
  BY DEF Typed
<1> HIDE DEF a, b
<1>3. \A i \in a..b : events[i] \in Sizes /\ events'[i] = events[i]
  BY <1>1, <1>2, ConcatProperties, ElementOfSeq
<1>4. SubSeq(events', a, b) = SubSeq(events, a, b)
  <2>1. /\ SubSeq(events, a, b) \in Seq(Sizes)
        /\ Len(SubSeq(events, a, b)) = IF a <= b THEN b - a + 1 ELSE 0
        /\ \A i \in 1..(b - a + 1) : SubSeq(events, a, b)[i] = events[a + i - 1]
    BY <1>1, <1>3, SubSeqProperties
  <2>2. /\ SubSeq(events', a, b) \in Seq(Sizes)
        /\ Len(SubSeq(events', a, b)) = IF a <= b THEN b - a + 1 ELSE 0
        /\ \A i \in 1..(b - a + 1) : SubSeq(events', a, b)[i] = events'[a + i - 1]
    BY <1>1, <1>3, SubSeqProperties
  <2>3. \A i \in 1..(b - a + 1) : a + i - 1 \in a..b
    BY <1>1
  <2>4. \A i \in 1..Len(SubSeq(events, a, b)) :
          SubSeq(events', a, b)[i] = SubSeq(events, a, b)[i]
    BY <1>1, <1>3, <2>1, <2>2, <2>3
  <2> QED
    BY <2>1, <2>2, <2>4, SeqEqual
<1> QED
  BY <1>4 DEF Bounded, Bytes, a, b

LEMMA BInvInit == Init => BInv
<1> SUFFICES ASSUME Init PROVE BInv
  OBVIOUS
<1>1. jobs = {} /\ \A c \in Connections : conn[c].step = "idle"
  BY DEF Init, Idle
<1>2. \A r \in Nat : Holding(r) = {} /\ Choosing(r) = {}
  BY <1>1 DEF Holding, Choosing, Chosen
<1>3. Cardinality(Connections) \in Nat /\ Cardinality({}) = 0 /\ IsFiniteSet({})
  BY ConnectionsFinite, FS_CardinalityType, FS_EmptySet
<1>4. OverlapInv
  BY <1>1, <1>2, <1>3 DEF OverlapInv
<1> QED
  BY <1>1, <1>4 DEF BInv, WindowJobsBounded, ChosenBounded

(* Steps that choose and insert nothing, whatever they append or drop.      *)
LEMMA NothingChosen ==
  ASSUME IInv, BInv, UNCHANGED jobs, NEW batch \in Seq(Sizes), events' = events \o batch,
         \A c \in Connections : conn'[c].step = "insert" => conn'[c] = conn[c]
  PROVE  BInv'
<1>1. OverlapInv'
  <2> SUFFICES ASSUME NEW r \in Nat
               PROVE  Cardinality(Holding(r)') + Cardinality(Choosing(r)')
                        <= Cardinality(Connections)
    BY DEF BInv, OverlapInv
  <2>1. Holding(r)' = Holding(r) /\ Choosing(r)' \in SUBSET Choosing(r)
    BY DEF Holding, Choosing, Chosen
  <2>2. /\ Cardinality(Holding(r)) \in Nat /\ Cardinality(Choosing(r)) \in Nat
        /\ IsFiniteSet(Choosing(r)) /\ Cardinality(Connections) \in Nat
    BY Counts DEF BInv, OverlapInv
  <2>3. Cardinality(Choosing(r)') \in Nat /\ Cardinality(Choosing(r)') <= Cardinality(Choosing(r))
    BY <2>1, <2>2, FS_Subset, FS_CardinalityType
  <2>4. Cardinality(Holding(r)) + Cardinality(Choosing(r)) <= Cardinality(Connections)
    BY DEF BInv, OverlapInv
  <2> QED
    BY <2>1, <2>2, <2>3, <2>4
<1>2. WindowJobsBounded'
  <2>1. \A j \in jobs : j \in Job /\ j.first > 0 /\ j.last \in 1..Len(events)
    BY DEF IInv, Contiguous
  <2>2. \A j \in jobs : Bounded(j)' <=> Bounded(j)
    BY <2>1, BoundedLater DEF IInv
  <2> QED
    BY <2>2 DEF BInv, WindowJobsBounded
<1>3. ChosenBounded'
  <2> SUFFICES ASSUME NEW c \in Connections, conn'[c].step = "insert",
                      conn'[c].job.reason \in Windows
               PROVE  Bounded(conn[c].job)'
    BY DEF ChosenBounded
  <2>1. conn'[c] = conn[c]
    OBVIOUS
  <2> DEFINE j == conn[c].job
  <2>2. j \in Job /\ j.first > 0 /\ j.last \in 1..Len(events)
    BY <2>1 DEF IInv, ChosenAdjacent
  <2>3. Bounded(j)
    BY <2>1 DEF BInv, ChosenBounded
  <2>4. conn'[c].job = j
    BY <2>1
  <2> QED
    BY <2>1, <2>2, <2>3, <2>4, BoundedLater DEF IInv
<1> QED
  BY <1>1, <1>2, <1>3 DEF BInv

(* A choice starts behind every job: no event of it is in one.              *)
LEMMA ChoiceBounded ==
  ASSUME IInv, BInv, UNCHANGED <<events, jobs>>, NEW c \in Connections,
         NEW first \in Nat \ {0}, NEW last \in Nat, NEW reason,
         \A j \in jobs : j.last < first,
         Chooses(c, first, last, reason),
         reason \in Windows => Fits(first - 1, last) /\ first <= last
  PROVE  BInv'
<1> DEFINE job == [first |-> first, last |-> last, reason |-> reason]
           new == [step |-> "insert", job |-> job]
<1>1. conn' = [conn EXCEPT ![c] = new]
  BY DEF Chooses, Becomes
<1>2. conn'[c] = new /\ \A d \in Connections : d # c => conn'[d] = conn[d]
  BY <1>1 DEF IInv, Typed
<1>3. OverlapInv'
  <2> SUFFICES ASSUME NEW r \in Nat
               PROVE  Cardinality(Holding(r)') + Cardinality(Choosing(r)')
                        <= Cardinality(Connections)
    BY DEF BInv, OverlapInv
  <2>1. Holding(r)' = Holding(r)
    BY DEF Holding
  <2>2. /\ Cardinality(Holding(r)) \in Nat /\ Cardinality(Choosing(r)) \in Nat
        /\ IsFiniteSet(Choosing(r)) /\ Cardinality(Connections) \in Nat
    BY Counts DEF BInv, OverlapInv
  <2>3. CASE r \in first..last
    <3>1. Holding(r) = {}
      <4> SUFFICES ASSUME NEW j \in jobs, r \in RowsOf(j) PROVE FALSE
        BY DEF Holding
      <4>1. j \in Job /\ j.last < first
        BY DEF IInv, Contiguous
      <4> QED
        BY <2>3, <4>1 DEF RowsOf, Job
    <3>2. Choosing(r)' \in SUBSET Connections
      BY DEF Choosing
    <3>3. Cardinality(Choosing(r)') \in Nat /\ Cardinality(Choosing(r)') <= Cardinality(Connections)
      BY <3>2, ConnectionsFinite, FS_Subset, FS_CardinalityType
    <3> QED
      BY <2>1, <2>2, <3>1, <3>3, FS_EmptySet
  <2>4. CASE r \notin first..last
    <3>1. ~Chosen(c, r)'
      BY <1>2, <2>4 DEF Chosen, RowsOf
    <3>2. Choosing(r)' \in SUBSET Choosing(r)
      BY <1>2, <3>1 DEF Choosing, Chosen
    <3>3. Cardinality(Choosing(r)') \in Nat /\ Cardinality(Choosing(r)') <= Cardinality(Choosing(r))
      BY <3>2, <2>2, FS_Subset, FS_CardinalityType
    <3>4. Cardinality(Holding(r)) + Cardinality(Choosing(r)) <= Cardinality(Connections)
      BY DEF BInv, OverlapInv
    <3> QED
      BY <2>1, <2>2, <3>3, <3>4
  <2> QED
    BY <2>3, <2>4
<1>4. \A j : Bounded(j)' <=> Bounded(j)
  BY DEF Bounded, Bytes
<1>5. WindowJobsBounded'
  BY <1>4 DEF BInv, WindowJobsBounded
<1>6. ChosenBounded'
  <2>1. reason \in Windows => Bounded(job)
    <3> SUFFICES ASSUME reason \in Windows PROVE Bounded(job)
      OBVIOUS
    <3>1. /\ last - (first - 1) <= MaxJobEvents
          /\ last = (first - 1) + 1 \/ Bytes((first - 1) + 1, last) <= MaxJobBytes
          /\ first <= last
      BY DEF Fits
    <3>2. (first - 1) + 1 = first /\ MaxJobEvents \in Nat
      BY WindowAssumption
    <3> QED
      BY <3>1, <3>2 DEF Bounded
  <2>2. new.job = job /\ job.reason = reason
    OBVIOUS
  <2> HIDE DEF job
  <2> SUFFICES ASSUME NEW d \in Connections, conn'[d].step = "insert",
                      conn'[d].job.reason \in Windows
               PROVE  Bounded(conn'[d].job)
    BY <1>4 DEF ChosenBounded
  <2>3. CASE d = c
    BY <1>2, <2>1, <2>2, <2>3
  <2>4. CASE d # c
    BY <1>2, <2>4 DEF BInv, ChosenBounded
  <2> QED
    BY <2>3, <2>4
<1> QED
  BY <1>3, <1>5, <1>6 DEF BInv

(* An insert trades a choice for a job.                                     *)
LEMMA InsertBounded ==
  ASSUME IInv, BInv, NEW c \in Connections, Insert(c)
  PROVE  BInv'
<1> DEFINE j == conn[c].job
<1>1. /\ conn[c].step = "insert" /\ jobs' = jobs \cup {j} /\ events' = events
      /\ conn' = [conn EXCEPT ![c] = Idle]
  BY DEF Insert, Becomes
<1>2. conn'[c].step = "idle" /\ \A d \in Connections : d # c => conn'[d] = conn[d]
  BY <1>1 DEF IInv, Typed, Idle
<1>3. OverlapInv'
  <2>1. IsFiniteSet(jobs')
    BY <1>1, FS_AddElement DEF BInv, OverlapInv
  <2> SUFFICES ASSUME NEW r \in Nat
               PROVE  Cardinality(Holding(r)') + Cardinality(Choosing(r)')
                        <= Cardinality(Connections)
    BY <2>1 DEF OverlapInv
  <2>2. /\ Cardinality(Holding(r)) \in Nat /\ Cardinality(Choosing(r)) \in Nat
        /\ IsFiniteSet(Holding(r)) /\ IsFiniteSet(Choosing(r))
        /\ Cardinality(Connections) \in Nat
    BY Counts DEF BInv, OverlapInv
  <2>3. Choosing(r)' = Choosing(r) \ {c}
    BY <1>2 DEF Choosing, Chosen
  <2>4. Cardinality(Holding(r)) + Cardinality(Choosing(r)) <= Cardinality(Connections)
    BY DEF BInv, OverlapInv
  <2>5. CASE r \in RowsOf(j)
    <3>1. Holding(r)' = Holding(r) \cup {j}
      BY <1>1, <2>5 DEF Holding, RowsOf
    <3>2. c \in Choosing(r)
      BY <1>1, <2>5 DEF Choosing, Chosen
    <3>3. /\ Cardinality(Holding(r)') <= Cardinality(Holding(r)) + 1
          /\ Cardinality(Holding(r)') \in Nat
      <4> DEFINE H == Holding(r)
      <4>1. Cardinality(H \cup {j}) = IF j \in H THEN Cardinality(H) ELSE Cardinality(H) + 1
        BY <2>2, FS_AddElement
      <4> QED
        BY <2>2, <3>1, <4>1
    <3>4. Cardinality(Choosing(r)') = Cardinality(Choosing(r)) - 1
      BY <2>2, <2>3, <3>2, FS_RemoveElement
    <3> QED
      BY <2>2, <2>4, <3>3, <3>4
  <2>6. CASE r \notin RowsOf(j)
    <3>1. Holding(r)' = Holding(r)
      BY <1>1, <2>6 DEF Holding, RowsOf
    <3>2. Choosing(r)' = Choosing(r)
      BY <2>3, <2>6 DEF Choosing, Chosen
    <3> QED
      BY <2>4, <3>1, <3>2
  <2> QED
    BY <2>5, <2>6
<1>4. \A k : Bounded(k)' <=> Bounded(k)
  BY <1>1 DEF Bounded, Bytes
<1>5. WindowJobsBounded'
  BY <1>1, <1>4 DEF BInv, WindowJobsBounded, ChosenBounded
<1>6. ChosenBounded'
  BY <1>2, <1>4 DEF BInv, ChosenBounded
<1> QED
  BY <1>3, <1>5, <1>6 DEF BInv

(* Steps that touch neither the events nor the jobs, and choose nothing.    *)
LEMMA DropBounded ==
  ASSUME IInv, BInv, UNCHANGED <<events, jobs>>,
         \A c \in Connections : conn'[c].step = "insert" => conn'[c] = conn[c]
  PROVE  BInv'
<1>1. <<>> \in Seq(Sizes) /\ events' = events \o <<>>
  BY ConcatEmptySeq DEF IInv, Typed
<1> QED
  BY <1>1, NothingChosen

LEMMA IdleBounded ==
  ASSUME IInv, BInv, UNCHANGED <<events, jobs>>, NEW c \in Connections, Becomes(c, Idle)
  PROVE  BInv'
<1>1. \A d \in Connections : conn'[d].step = "insert" => conn'[d] = conn[d]
  BY DEF Becomes, IInv, Typed, Idle
<1> QED
  BY <1>1, DropBounded

LEMMA CoveredBefore ==
  ASSUME IInv, NEW covered \in 0..Len(events), LastCovered(covered)
  PROVE  /\ covered + 1 \in Nat \ {0} /\ (covered + 1) - 1 = covered
         /\ \A j \in jobs : j.last < covered + 1
<1>1. covered \in Nat
  BY DEF IInv, Typed
<1>2. \A j \in jobs : j.last \in Nat /\ j.last <= covered
  BY DEF IInv, Contiguous, Job, LastCovered
<1> QED
  BY <1>1, <1>2

LEMMA WindowBounded ==
  ASSUME IInv, BInv, UNCHANGED <<events, jobs>>, NEW c \in Connections,
         NEW covered \in 0..Len(events), NEW last \in 0..Len(events), NEW reason,
         UnqueuedRange(covered, last), Chooses(c, covered + 1, last, reason)
  PROVE  BInv'
<1>1. Len(events) \in Nat /\ covered \in Nat /\ last \in Nat /\ covered + 1 <= last
  BY DEF IInv, Typed, UnqueuedRange
<1>2. LastCovered(covered) /\ Fits(covered, last)
  BY DEF UnqueuedRange
<1> QED
  BY <1>1, <1>2, CoveredBefore, ChoiceBounded

LEMMA ThresholdBounded ==
  ASSUME IInv, BInv, NEW c \in Connections, NEW n, ReadThreshold(c, n), UNCHANGED <<events, jobs>>
  PROVE  BInv'
<1>1. CASE Becomes(c, Idle)
  BY <1>1, IdleBounded
<1>2. ASSUME NEW covered \in 0..Len(events), NEW last \in 0..Len(events),
             UnqueuedRange(covered, last), Chooses(c, covered + 1, last, "event_threshold")
      PROVE  BInv'
  BY <1>2, WindowBounded
<1> QED
  BY <1>1, <1>2 DEF ReadThreshold

LEMMA ThroughBounded ==
  ASSUME IInv, BInv, NEW c \in Connections, Through(c)
  PROVE  BInv'
<1>1. UNCHANGED <<events, jobs>> /\ conn[c].step = "through"
  BY DEF Through
<1>2. CASE Becomes(c, Idle)
  BY <1>1, <1>2, IdleBounded
<1>3. ASSUME NEW covered \in 0..Len(events), LastCovered(covered),
             Chooses(c, covered + 1, conn[c].row, conn[c].reason)
      PROVE  BInv'
  <2>1. conn[c].row \in Nat /\ conn[c].reason \in Boundaries
    BY <1>1 DEF IInv, Typed, BoundaryStored
  <2>2. conn[c].reason \notin Windows
    BY <2>1, BoundaryAssumption
  <2> QED
    BY <1>1, <1>3, <2>1, <2>2, CoveredBefore, ChoiceBounded
<1> QED
  BY <1>1, <1>2, <1>3 DEF Through, ReadThrough

(* A connection that has appended holds no job.                             *)
LEMMA AppendBounded ==
  ASSUME IInv, BInv, NEW c \in Connections, NEW batch \in Seq(Sizes), NEW new,
         events' = events \o batch, UNCHANGED jobs, Becomes(c, new), new.step # "insert"
  PROVE  BInv'
<1>1. \A d \in Connections : conn'[d].step = "insert" => conn'[d] = conn[d]
  BY DEF Becomes, IInv, Typed
<1> QED
  BY <1>1, NothingChosen

LEMMA CaptureBounded ==
  ASSUME IInv, BInv, CaptureNext
  PROVE  BInv'
<1>1. Capture \in Connections
  BY DEF Connections
<1>2. ASSUME NEW batch \in Batches, CaptureAppendsPlain(batch)
      PROVE  BInv'
  BY <1>1, <1>2, BatchesAreSequences, AppendBounded DEF CaptureAppendsPlain
<1>3. ASSUME NEW batch \in Batches, NEW reason \in Boundaries, NEW lastIsNew \in BOOLEAN,
             CaptureAppends(batch, reason, lastIsNew)
      PROVE  BInv'
  BY <1>1, <1>3, BatchesAreSequences, AppendBounded DEF CaptureAppends
<1>4. CASE CaptureThreshold
  BY <1>1, <1>4, ThresholdBounded DEF CaptureThreshold
<1>5. CASE CaptureInactivity
  BY <1>1, <1>5, WindowBounded DEF CaptureInactivity, ReadInactivity
<1> QED
  BY <1>2, <1>3, <1>4, <1>5 DEF CaptureNext

LEMMA HookBounded ==
  ASSUME IInv, BInv, HookNext
  PROVE  BInv'
<1>1. PICK h \in Hooks, size \in Sizes : HookAppends(h, size)
  BY DEF HookNext
<1>2. events \in Seq(Sizes) /\ events' = Append(events, size)
  BY <1>1 DEF HookAppends, IInv, Typed
<1>3. <<size>> \in Seq(Sizes) /\ events' = events \o <<size>>
  BY <1>2
<1> QED
  BY <1>1, <1>3, AppendBounded DEF HookAppends, Connections

LEMMA BInvStep == IInv /\ BInv /\ [Next]_vars => BInv'
<1> SUFFICES ASSUME IInv, BInv, [Next]_vars PROVE BInv'
  OBVIOUS
<1>1. CASE CaptureNext
  BY <1>1, CaptureBounded
<1>2. CASE HookNext
  BY <1>2, HookBounded
<1>3. CASE DrainReads
  BY <1>3, ThresholdBounded DEF DrainReads, Connections
<1>4. ASSUME NEW c \in Connections, Through(c) PROVE BInv'
  BY <1>4, ThroughBounded
<1>5. ASSUME NEW c \in Connections, Insert(c) PROVE BInv'
  BY <1>5, InsertBounded
<1>6. ASSUME NEW c \in Connections, StatementFails(c) PROVE BInv'
  BY <1>6, IdleBounded DEF StatementFails
<1>7. CASE ServiceCrash
  <2>1. \A c \in Connections : conn'[c].step = "idle"
    BY <1>7 DEF ServiceCrash, Idle
  <2> QED
    BY <1>7, <2>1, DropBounded DEF ServiceCrash
<1>8. CASE UNCHANGED vars
  BY <1>8, DropBounded DEF vars
<1> QED
  BY <1>1, <1>2, <1>3, <1>4, <1>5, <1>6, <1>7, <1>8 DEF Next

(* However many connections enqueue from stale reads, an event is in no     *)
(* more jobs than there are connections, and a job whose end the queue      *)
(* chose spans no more than a request may hold.                             *)
THEOREM BoundsHold == Spec => []JobsBounded
<1>1. IInv /\ BInv => JobsBounded
  <2> SUFFICES ASSUME IInv, BInv, NEW r \in 1..Len(events)
               PROVE  Cardinality({j \in jobs : r \in RowsOf(j)}) <= Cardinality(Connections)
    BY DEF JobsBounded, OverlapBounded, BInv
  <2>1. r \in Nat
    BY DEF IInv, Typed
  <2>2. /\ Cardinality(Holding(r)) \in Nat /\ Cardinality(Choosing(r)) \in Nat
        /\ Cardinality(Connections) \in Nat
    BY <2>1, Counts DEF BInv, OverlapInv
  <2>3. Cardinality(Holding(r)) + Cardinality(Choosing(r)) <= Cardinality(Connections)
    BY <2>1 DEF BInv, OverlapInv
  <2>4. Cardinality(Holding(r)) <= Cardinality(Connections)
    BY <2>2, <2>3
  <2> QED
    BY <2>4 DEF Holding
<1> QED
  BY <1>1, BInvInit, BInvStep, InvariantHolds, InitIInv, PTL DEF Spec
=============================================================================
