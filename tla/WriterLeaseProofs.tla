------------------------- MODULE WriterLeaseProofs -------------------------
(***************************************************************************)
(* Proofs about WriterLease for every set of tasks, sessions and handoffs, *)
(* every duration and every bound.                                         *)
(*                                                                         *)
(* Inv is the inductive invariant: what a session was told is honoured     *)
(* only because a hook never acts at a time in the future (HookTimesPast)  *)
(* and because a takeover needs the row, which outlives every belief in    *)
(* it, to have expired.  Each store operation has one lemma for its types  *)
(* and one for the beliefs; the callers only cite them.  RowChange is what *)
(* any step may do to a row, from which the bound of a tenure and the      *)
(* action property LeaseStepsSound follow; CheckpointFirst is the order of *)
(* a handoff's two commits, from which TransferCheckpointed follows.  What *)
(* a merge preflight has pinned (PinsTyped) is all that its report is of.  *)
(***************************************************************************)
EXTENDS WriterLease, MergePreflight, TLAPS

(* The variables the store operations write, after a step.                  *)
RowsTyped ==
  /\ lease \in [Tasks -> LeaseOrNone]
  /\ audit \in [Tasks -> CoordinationEvent \cup {NoEvent}]
  /\ view \in [Sessions -> [Tasks -> Belief \cup {NoLease}]]

----------------------------------------------------------------------------
(* Rows.                                                                    *)

LEMMA GrantedType ==
  ASSUME NEW s \in Sessions, NEW at \in Nat, NEW g \in Nat
  PROVE  Granted(s, at, g) \in Lease
BY DurationAssumption DEF Granted, Lease

LEMMA RenewedType ==
  ASSUME NEW l \in Lease, NEW at \in Nat
  PROVE  /\ Renewed(l, at) \in Lease
         /\ Renewed(l, at).owner = l.owner
         /\ Renewed(l, at).generation = l.generation
         /\ Renewed(l, at).renewed_at = MaxOf(at, l.renewed_at)
         /\ Renewed(l, at).expires_at = MaxOf(at, l.renewed_at) + Duration
<1> DEFINE m == MaxOf(at, l.renewed_at)
<1>1. m \in Nat
  BY DEF MaxOf, Lease
<1>2. Renewed(l, at) = [l EXCEPT !.renewed_at = m, !.expires_at = m + Duration]
  BY DEF Renewed
<1>3. m + Duration \in Nat
  BY <1>1, DurationAssumption
<1> HIDE DEF m
<1>4. /\ Renewed(l, at) \in Lease
      /\ Renewed(l, at).owner = l.owner
      /\ Renewed(l, at).generation = l.generation
      /\ Renewed(l, at).renewed_at = m
      /\ Renewed(l, at).expires_at = m + Duration
  BY <1>1, <1>2, <1>3 DEF Lease
<1> QED
  BY <1>4 DEF m

LEMMA BeliefType ==
  ASSUME NEW l \in Lease
  PROVE  BeliefIn(l) \in Belief
BY DEF BeliefIn, Belief, Lease

LEMMA HeldType ==
  ASSUME TypeOK, NEW t \in Tasks, NEW s, NEW g, Held(lease[t], s, g)
  PROVE  lease[t] \in Lease /\ s \in Sessions /\ g \in Nat
BY DEF Held, TypeOK, LeaseOrNone, Lease

----------------------------------------------------------------------------
(* Every store operation preserves the types of what it writes.             *)

LEMMA GrantType ==
  ASSUME TypeOK, NEW t \in Tasks, NEW l \in Lease,
         NEW action \in {"acquire", "takeover", "handoff"},
         NEW prior \in Sessions \cup {NoSession},
         Grant(t, action, l, prior)
  PROVE  /\ lease' \in [Tasks -> LeaseOrNone]
         /\ audit' \in [Tasks -> CoordinationEvent \cup {NoEvent}]
BY DEF Grant, StoreLease, AppendEvent, MaxOf, TypeOK, LeaseOrNone, Lease, CoordinationEvent

LEMMA ProlongType ==
  ASSUME TypeOK, NEW t \in Tasks, NEW l \in Lease, Prolong(t, l)
  PROVE  /\ lease' \in [Tasks -> LeaseOrNone]
         /\ audit' \in [Tasks -> CoordinationEvent \cup {NoEvent}]
BY DEF Prolong, StoreLease, AppendEvent, TypeOK, LeaseOrNone, Lease, CoordinationEvent

LEMMA DeleteType ==
  ASSUME TypeOK, NEW t \in Tasks, lease[t] # NoLease, Delete(t)
  PROVE  /\ lease' \in [Tasks -> LeaseOrNone]
         /\ audit' \in [Tasks -> CoordinationEvent \cup {NoEvent}]
BY DEF Delete, StoreLease, AppendEvent, TypeOK, LeaseOrNone, Lease, CoordinationEvent

LEMMA ToldType ==
  ASSUME TypeOK, NEW s \in Sessions, NEW t \in Tasks, NEW b \in Belief \cup {NoLease},
         Told(s, t, b)
  PROVE  view' \in [Sessions -> [Tasks -> Belief \cup {NoLease}]]
BY DEF Told, TypeOK

LEMMA RefusedType ==
  ASSUME TypeOK, NEW s \in Sessions, NEW t \in Tasks, Refused(s, t)
  PROVE  RowsTyped'
BY DEF Refused, Told, TypeOK, RowsTyped

LEMMA AcquireLeaseType ==
  ASSUME TypeOK, NEW s \in Sessions, NEW t \in Tasks, NEW at \in Nat,
         AcquireLease(t, s, at)
  PROVE  RowsTyped'
<1>1. CASE AcquireRefused(t, s, at)
  BY <1>1, RefusedType DEF AcquireRefused
<1>2. CASE AcquireRenews(t, s, at)
  <2>1. lease[t] \in Lease
    BY <1>2 DEF AcquireRenews, LiveAt, TypeOK, LeaseOrNone
  <2> QED
    BY <1>2, <2>1, RenewedType, BeliefType, ProlongType, ToldType DEF AcquireRenews, RowsTyped
<1>3. CASE AcquireTakesOver(t, s, at)
  <2> DEFINE l == Granted(s, at, lease[t].generation + 1)
  <2>1. lease[t] \in Lease
    BY <1>3 DEF AcquireTakesOver, TypeOK, LeaseOrNone
  <2>2. lease[t].generation + 1 \in Nat /\ lease[t].owner \in Sessions
    BY <2>1 DEF Lease
  <2>3. l \in Lease
    BY <2>2, GrantedType
  <2>4. Grant(t, "takeover", l, lease[t].owner) /\ Told(s, t, BeliefIn(l))
    BY <1>3 DEF AcquireTakesOver
  <2> HIDE DEF l
  <2> QED
    BY <2>2, <2>3, <2>4, BeliefType, GrantType, ToldType DEF RowsTyped
<1>4. CASE AcquireFirst(t, s, at)
  <2> DEFINE l == Granted(s, at, 1)
  <2>1. l \in Lease
    BY GrantedType
  <2>2. Grant(t, "acquire", l, NoSession) /\ Told(s, t, BeliefIn(l))
    BY <1>4 DEF AcquireFirst
  <2> HIDE DEF l
  <2> QED
    BY <2>1, <2>2, BeliefType, GrantType, ToldType DEF RowsTyped
<1> QED
  BY <1>1, <1>2, <1>3, <1>4 DEF AcquireLease

LEMMA RenewLeaseType ==
  ASSUME TypeOK, NEW s \in Sessions, NEW t \in Tasks, NEW g, NEW at \in Nat,
         RenewLease(t, s, g, at)
  PROVE  RowsTyped'
<1>1. CASE ~Held(lease[t], s, g) /\ Refused(s, t)
  BY <1>1, RefusedType
<1>2. CASE /\ Held(lease[t], s, g)
           /\ Prolong(t, Renewed(lease[t], at))
           /\ Told(s, t, BeliefIn(Renewed(lease[t], at)))
  BY <1>2, HeldType, RenewedType, BeliefType, ProlongType, ToldType DEF RowsTyped
<1> QED
  BY <1>1, <1>2 DEF RenewLease

LEMMA ReleaseLeaseType ==
  ASSUME TypeOK, NEW s \in Sessions, NEW t \in Tasks, NEW g, ReleaseLease(t, s, g)
  PROVE  RowsTyped'
<1>1. view' \in [Sessions -> [Tasks -> Belief \cup {NoLease}]]
  BY ToldType DEF ReleaseLease
<1>2. CASE UNCHANGED <<lease, audit>>
  BY <1>1, <1>2 DEF RowsTyped, TypeOK
<1>3. CASE Held(lease[t], s, g) /\ Delete(t)
  BY <1>1, <1>3, DeleteType DEF RowsTyped, Held
<1> QED
  BY <1>2, <1>3 DEF ReleaseLease

LEMMA HandoffLeaseType ==
  ASSUME TypeOK, NEW s \in Sessions, NEW t \in Tasks, NEW g, NEW next \in Sessions,
         NEW at \in Nat, HandoffLease(t, s, g, next, at)
  PROVE  RowsTyped'
<1> DEFINE l == Granted(next, at, g + 1)
<1>1. g \in Nat
  BY HeldType DEF HandoffLease
<1>2. l \in Lease
  BY <1>1, GrantedType
<1>3. /\ Grant(t, "handoff", l, s)
      /\ view' = [[view EXCEPT ![s][t] = NoLease] EXCEPT ![next][t] = BeliefIn(l)]
  BY DEF HandoffLease
<1> HIDE DEF l
<1>4. BeliefIn(l) \in Belief
  BY <1>2, BeliefType
<1>5. view' \in [Sessions -> [Tasks -> Belief \cup {NoLease}]]
  BY <1>3, <1>4 DEF TypeOK
<1> QED
  BY <1>2, <1>3, <1>5, GrantType DEF RowsTyped

(* What a hook leaves in the set of hooks being served.                     *)
LEMMA InflightType ==
  ASSUME TypeOK, NEW r \in inflight,
         \/ Served(r)
         \/ \E step \in {"acquire", "renew", "release"}, g \in Nat : Chooses(r, step, g)
  PROVE  /\ inflight' \subseteq Hook
         /\ \A q \in inflight' : q \in inflight \/ q.at = r.at
<1>1. inflight \subseteq Hook /\ r \in Hook
  BY DEF TypeOK
<1>2. CASE Served(r)
  BY <1>1, <1>2 DEF Served
<1>3. ASSUME NEW step \in {"acquire", "renew", "release"}, NEW g \in Nat, Chooses(r, step, g)
      PROVE  /\ inflight' \subseteq Hook
             /\ \A q \in inflight' : q \in inflight \/ q.at = r.at
  <2> DEFINE n == [r EXCEPT !.step = step, !.generation = g]
  <2>1. n \in Hook /\ n.at = r.at
    BY <1>1 DEF Hook
  <2>2. inflight' = (inflight \ {r}) \cup {n}
    BY <1>3 DEF Chooses
  <2> HIDE DEF n
  <2> QED
    BY <1>1, <2>1, <2>2
<1> QED
  BY <1>2, <1>3

(* The read half of a hook ends it or chooses one of the three operations.  *)
LEMMA HookReads ==
  ASSUME TypeOK, NEW r \in inflight, HookReadsToEnd(r) \/ HookReadsToWork(r)
  PROVE  \/ Served(r)
         \/ \E step \in {"acquire", "renew", "release"}, g \in Nat : Chooses(r, step, g)
<1>1. r.task \in Tasks /\ (lease[r.task] # NoLease => lease[r.task].generation \in Nat)
  BY DEF TypeOK, Hook, LeaseOrNone, Lease
<1>2. CASE HookReadsToEnd(r)
  BY <1>1, <1>2 DEF HookReadsToEnd
<1>3. CASE HookReadsToWork(r)
  BY <1>1, <1>3 DEF HookReadsToWork, LiveAt
<1> QED
  BY <1>2, <1>3

----------------------------------------------------------------------------
(* Type correctness.                                                        *)

LEMMA TypeStep ==
  ASSUME TypeOK, HookTimesPast, [Next]_vars
  PROVE  TypeOK'
<1> USE DEF TypeOK
<1>1. ASSUME NEW t \in Tasks,
             CreateTask(t) \/ CloseRead(t) \/ CloseRelease(t) \/ CloseGitFails(t) \/ CloseTask(t)
      PROVE  TypeOK'
  <2>1. CASE CreateTask(t)
    BY <2>1 DEF CreateTask
  <2>2. CASE CloseRead(t)
    <3>1. closer' \in [Tasks -> Closer]
      BY <2>2 DEF CloseRead, Closer, LeaseOrNone, Lease
    <3> QED
      BY <2>2, <3>1 DEF CloseRead, store
  <2>3. CASE CloseRelease(t)
    <3>1. closer' \in [Tasks -> Closer] /\ revoked' \subseteq Tasks
      BY <2>3 DEF CloseRelease, Closer, Idle
    <3>2. /\ lease' \in [Tasks -> LeaseOrNone]
          /\ audit' \in [Tasks -> CoordinationEvent \cup {NoEvent}]
      BY <2>3, DeleteType DEF CloseRelease, Held
    <3> QED
      BY <2>3, <3>1, <3>2 DEF CloseRelease
  <2>4. CASE CloseGitFails(t)
    BY <2>4 DEF CloseGitFails, Closer, store
  <2>5. CASE CloseTask(t)
    BY <2>5 DEF CloseTask, Closer
  <2> QED
    BY <1>1, <2>1, <2>2, <2>3, <2>4, <2>5
<1>2. ASSUME NEW s \in Sessions, NEW t \in Tasks, ApiAcquire(s, t)
      PROVE  TypeOK'
  BY <1>2, AcquireLeaseType DEF ApiAcquire, RowsTyped
<1>3. ASSUME NEW s \in Sessions, NEW t \in Tasks, NEW g \in 1..MaxGeneration,
             ApiRenew(s, t, g) \/ ApiRelease(s, t, g)
      PROVE  TypeOK'
  BY <1>3, RenewLeaseType, ReleaseLeaseType DEF ApiRenew, ApiRelease, RowsTyped
<1>4. ASSUME NEW h \in HandoffIds, NEW s \in Sessions, NEW next \in Sessions,
             NEW t \in Tasks, NEW g \in 1..MaxGeneration,
             HandoffRequested(h, s, t, next, g)
      PROVE  TypeOK'
  <2>1. g \in Nat
    BY BoundsAssumption
  <2> QED
    BY <1>4, <2>1 DEF HandoffRequested, HandoffRequest, store
<1>5. ASSUME NEW h \in HandoffIds,
             HandoffRetried(h) \/ HandoffChecked(h) \/ HandoffRecorded(h) \/ HandoffTransferred(h)
      PROVE  TypeOK'
  <2>1. handoff[h] \in HandoffRequest
    BY <1>5 DEF HandoffRetried, HandoffChecked, HandoffRecorded, HandoffTransferred, Idle
  <2>2. handoff' \in [HandoffIds -> {Idle} \cup HandoffRequest]
    <3>1. \A stage \in {"requested", "replayed", "checked", "recorded", "transferred", "refused"} :
            [handoff[h] EXCEPT !.stage = stage] \in HandoffRequest
      BY <2>1 DEF HandoffRequest
    <3>2. \E stage \in {"requested", "replayed", "checked", "recorded", "transferred", "refused"} :
            handoff' = [handoff EXCEPT ![h] = [handoff[h] EXCEPT !.stage = stage]]
      <4>1. CASE HandoffRetried(h)
        BY <4>1 DEF HandoffRetried
      <4>2. CASE HandoffChecked(h)
        BY <4>2 DEF HandoffChecked
      <4>3. CASE HandoffRecorded(h)
        BY <4>3 DEF HandoffRecorded
      <4>4. CASE HandoffTransferred(h)
        BY <4>4 DEF HandoffTransferred
      <4> QED
        BY <1>5, <4>1, <4>2, <4>3, <4>4
    <3> QED
      BY <3>1, <3>2
  <2>3. CASE HandoffRetried(h)
    BY <2>2, <2>3 DEF HandoffRetried, store
  <2>4. CASE HandoffChecked(h)
    BY <2>2, <2>4 DEF HandoffChecked, store
  <2>5. CASE HandoffRecorded(h)
    BY <2>2, <2>5 DEF HandoffRecorded
  <2>6. CASE HandoffTransferred(h)
    <3> DEFINE r == handoff[h]
    <3>1. r.task \in Tasks /\ r.from \in Sessions /\ r.to \in Sessions
      BY <2>1 DEF HandoffRequest
    <3>2. RowsTyped'
      BY <2>6, <3>1, HandoffLeaseType, RefusedType DEF HandoffTransferred
    <3> QED
      BY <2>2, <2>6, <3>2 DEF HandoffTransferred, RowsTyped
  <2> QED
    BY <1>5, <2>3, <2>4, <2>5, <2>6
<1>6. ASSUME NEW s \in Sessions, NEW t \in Tasks, NEW kind \in HookKinds,
             HookReceived(s, t, kind)
      PROVE  TypeOK'
  BY <1>6 DEF HookReceived, HookKinds, Hook, store
<1>7. ASSUME NEW r \in inflight, HookReadsToEnd(r)
      PROVE  TypeOK'
  <2>1. r \in Hook /\ r.session \in Sessions /\ r.task \in Tasks
    BY DEF Hook
  <2>2. inflight' \subseteq Hook
    BY <1>7, HookReads, InflightType
  <2>3. view' \in [Sessions -> [Tasks -> Belief \cup {NoLease}]]
    BY <1>7, <2>1, ToldType DEF HookReadsToEnd
  <2> QED
    BY <1>7, <2>2, <2>3 DEF HookReadsToEnd, store
<1>8. ASSUME NEW r \in inflight, HookReadsToWork(r)
      PROVE  TypeOK'
  <2>1. inflight' \subseteq Hook
    BY <1>8, HookReads, InflightType
  <2> QED
    BY <1>8, <2>1 DEF HookReadsToWork, store
<1>9. ASSUME NEW r \in inflight, HookActs(r)
      PROVE  TypeOK'
  <2>1. r.session \in Sessions /\ r.task \in Tasks /\ r.at \in Nat
    BY DEF Hook
  <2>2. RowsTyped'
    BY <1>9, <2>1, AcquireLeaseType, RenewLeaseType, ReleaseLeaseType DEF HookActs
  <2> QED
    BY <1>9, <2>2 DEF HookActs, Served, RowsTyped
<1>10. CASE ServiceCrash
  BY <1>10 DEF ServiceCrash, store
<1>11. CASE Tick
  BY <1>11 DEF Tick, store
<1>12. CASE UNCHANGED vars
  BY <1>12 DEF vars
<1> QED
  BY <1>1, <1>2, <1>3, <1>4, <1>5, <1>6, <1>7, <1>8, <1>9, <1>10, <1>11, <1>12
  DEF Next, TaskNext, ApiNext, HandoffNext, HookNext

LEMMA HookTimesStep ==
  ASSUME TypeOK, HookTimesPast, [Next]_vars
  PROVE  HookTimesPast'
<1>1. now \in Nat /\ \A r \in inflight : r \in Hook /\ r.at \in Nat
  BY DEF TypeOK, Hook
<1>2. CASE Tick
  BY <1>1, <1>2 DEF Tick, HookTimesPast
<1>3. ASSUME NEW s \in Sessions, NEW t \in Tasks, NEW kind \in HookKinds,
             HookReceived(s, t, kind)
      PROVE  HookTimesPast'
  BY <1>1, <1>3 DEF HookReceived, HookTimesPast
<1>4. ASSUME NEW r \in inflight,
             HookReadsToEnd(r) \/ HookReadsToWork(r) \/ HookActs(r)
      PROVE  HookTimesPast'
  <2>1. \A q \in inflight' : q \in inflight \/ q.at = r.at
    BY <1>4, HookReads, InflightType DEF HookActs
  <2>2. now' = now
    BY <1>4 DEF HookReadsToEnd, HookReadsToWork, HookActs
  <2> QED
    BY <2>1, <2>2 DEF HookTimesPast
<1>5. CASE UNCHANGED <<now, inflight>>
  BY <1>5 DEF HookTimesPast
<1>6. CASE TaskNext
  BY <1>5, <1>6 DEF TaskNext, CreateTask, CloseRead, CloseRelease, CloseGitFails, CloseTask
<1>7. CASE ApiNext
  BY <1>5, <1>7 DEF ApiNext, ApiAcquire, ApiRenew, ApiRelease
<1>8. CASE HandoffNext
  BY <1>5, <1>8 DEF HandoffNext, HandoffRequested, HandoffRetried, HandoffChecked,
                    HandoffRecorded, HandoffTransferred
<1>9. CASE ServiceCrash
  BY <1>9 DEF ServiceCrash, HookTimesPast
<1>10. CASE UNCHANGED vars
  BY <1>5, <1>10 DEF vars
<1> QED
  BY <1>2, <1>3, <1>4, <1>6, <1>7, <1>8, <1>9, <1>10 DEF Next, HookNext

(* A task's rows, beliefs and hooks always have their types, and no hook    *)
(* acts at a time the service's clock has not reached.                      *)
THEOREM TypeCorrect == Spec => [](TypeOK /\ HookTimesPast)
<1>1. Init => TypeOK /\ HookTimesPast
  BY DEF Init, TypeOK, HookTimesPast, Closer, LeaseOrNone, Idle
<1>2. TypeOK /\ HookTimesPast /\ [Next]_vars => (TypeOK /\ HookTimesPast)'
  BY TypeStep, HookTimesStep
<1> QED
  BY <1>1, <1>2, PTL DEF Spec

----------------------------------------------------------------------------
(* Beliefs.  Trust(s, t) is LiveBeliefHonoured for one session and task.    *)

Trust(s, t) ==
  LiveAt(view[s][t], now) /\ t \notin revoked =>
    /\ lease[t] # NoLease
    /\ lease[t].owner = s /\ lease[t].generation = view[s][t].generation
    /\ lease[t].expires_at >= view[s][t].expires_at

(* A session that was refused, or gave the lease up, trusts nothing; the    *)
(* others are not concerned as long as the row stays.                       *)
LEMMA RefusedTrust ==
  ASSUME TypeOK, LiveBeliefHonoured, NEW s \in Sessions, NEW t \in Tasks, Refused(s, t),
         UNCHANGED <<now, revoked>>
  PROVE  LiveBeliefHonoured'
<1> SUFFICES ASSUME NEW s1 \in Sessions, NEW t1 \in Tasks
             PROVE  Trust(s1, t1)'
  BY DEF LiveBeliefHonoured, Trust
<1>1. Trust(s1, t1)
  BY DEF LiveBeliefHonoured, Trust
<1>2. lease' = lease /\ (view'[s1][t1] = view[s1][t1] \/ view'[s1][t1] = NoLease)
  BY DEF Refused, Told, TypeOK
<1> QED
  BY <1>1, <1>2 DEF Trust, LiveAt

(* A step that writes a new row for t, tells the row to its owner s, and    *)
(* leaves no other session with a live belief in t, keeps every belief      *)
(* honoured.                                                                *)
LEMMA WriteTrust ==
  ASSUME TypeOK, LiveBeliefHonoured, NEW s \in Sessions, NEW t \in Tasks, NEW l \in Lease,
         l.owner = s, StoreLease(t, l), UNCHANGED <<now, revoked>>,
         view'[s][t] = BeliefIn(l),
         \A s1 \in Sessions, t1 \in Tasks : t1 # t => view'[s1][t1] = view[s1][t1],
         \A s1 \in Sessions \ {s} : ~LiveAt(view'[s1][t], now) \/ t \in revoked
  PROVE  LiveBeliefHonoured'
<1> SUFFICES ASSUME NEW s1 \in Sessions, NEW t1 \in Tasks
             PROVE  Trust(s1, t1)'
  BY DEF LiveBeliefHonoured, Trust
<1>1. CASE t1 # t
  <2>1. Trust(s1, t1)
    BY DEF LiveBeliefHonoured, Trust
  <2> QED
    BY <1>1, <2>1 DEF Trust, LiveAt, StoreLease, TypeOK
<1>2. CASE t1 = t /\ s1 # s
  BY <1>2 DEF Trust, LiveAt
<1>3. CASE t1 = t /\ s1 = s
  <2>1. lease'[t] = l /\ l # NoLease
    BY NoLeaseAssumption DEF StoreLease, TypeOK
  <2>2. l.expires_at >= l.expires_at
    BY DEF Lease
  <2> QED
    BY <1>3, <2>1, <2>2 DEF Trust, BeliefIn
<1> QED
  BY <1>1, <1>2, <1>3

(* While the row is s's, or has expired, no other session has a live belief.*)
LEMMA OthersExpired ==
  ASSUME TypeOK, LiveBeliefHonoured, NEW t \in Tasks, NEW s \in Sessions,
         NEW s1 \in Sessions \ {s},
         \/ lease[t] = NoLease
         \/ lease[t] # NoLease /\ lease[t].owner = s
         \/ \E at \in Nat : at <= now /\ ~LiveAt(lease[t], at)
  PROVE  ~LiveAt(view[s1][t], now) \/ t \in revoked
<1> SUFFICES ASSUME LiveAt(view[s1][t], now), t \notin revoked
             PROVE  FALSE
  OBVIOUS
<1>1. /\ lease[t] # NoLease /\ lease[t].owner = s1
      /\ lease[t].expires_at >= view[s1][t].expires_at
  BY DEF LiveBeliefHonoured
<1>2. view[s1][t] \in Belief /\ lease[t] \in Lease /\ now \in Nat
  BY <1>1 DEF TypeOK, LiveAt, LeaseOrNone
<1>3. ASSUME NEW at \in Nat, at <= now, ~LiveAt(lease[t], at)
      PROVE  FALSE
  <2>1. lease[t].expires_at <= at
    BY <1>1, <1>2, <1>3 DEF LiveAt, Lease
  <2>2. view[s1][t].expires_at > now
    BY DEF LiveAt
  <2>3. view[s1][t].expires_at \in Nat /\ lease[t].expires_at \in Nat
    BY <1>2 DEF Belief, Lease
  <2> QED
    BY <1>1, <1>2, <1>3, <2>1, <2>2, <2>3
<1> QED
  BY <1>1, <1>3

(* Told(s, t, b) is the only change of a belief.                            *)
LEMMA ToldView ==
  ASSUME TypeOK, NEW s \in Sessions, NEW t \in Tasks, NEW b, Told(s, t, b)
  PROVE  /\ view'[s][t] = b
         /\ \A s1 \in Sessions, t1 \in Tasks :
              s1 # s \/ t1 # t => view'[s1][t1] = view[s1][t1]
BY DEF Told, TypeOK

LEMMA AcquireTrust ==
  ASSUME TypeOK, LiveBeliefHonoured, NEW s \in Sessions, NEW t \in Tasks, NEW at \in Nat,
         at <= now, AcquireLease(t, s, at), UNCHANGED <<now, revoked>>
  PROVE  LiveBeliefHonoured'
<1>1. CASE AcquireRefused(t, s, at)
  BY <1>1, RefusedTrust DEF AcquireRefused
<1>2. ASSUME NEW l \in Lease, l.owner = s, StoreLease(t, l), Told(s, t, BeliefIn(l)),
             \/ lease[t] = NoLease
             \/ lease[t] # NoLease /\ lease[t].owner = s
             \/ ~LiveAt(lease[t], at)
      PROVE  LiveBeliefHonoured'
  BY <1>2, OthersExpired, ToldView, WriteTrust
<1>3. CASE AcquireRenews(t, s, at)
  <2>1. lease[t] \in Lease /\ lease[t].owner = s
    BY <1>3 DEF AcquireRenews, LiveAt, TypeOK, LeaseOrNone
  <2>2. Renewed(lease[t], at) \in Lease /\ Renewed(lease[t], at).owner = s
    BY <2>1, RenewedType
  <2> QED
    BY <1>2, <1>3, <2>1, <2>2 DEF AcquireRenews, Prolong, LiveAt
<1>4. CASE AcquireTakesOver(t, s, at)
  <2> DEFINE l == Granted(s, at, lease[t].generation + 1)
  <2>1. lease[t].generation + 1 \in Nat
    BY <1>4 DEF AcquireTakesOver, TypeOK, LeaseOrNone, Lease
  <2>2. l \in Lease /\ l.owner = s
    BY <2>1, GrantedType DEF Granted
  <2>3. StoreLease(t, l) /\ Told(s, t, BeliefIn(l)) /\ ~LiveAt(lease[t], at)
    BY <1>4 DEF AcquireTakesOver, Grant
  <2> HIDE DEF l
  <2> QED
    BY <1>2, <2>2, <2>3
<1>5. CASE AcquireFirst(t, s, at)
  <2> DEFINE l == Granted(s, at, 1)
  <2>1. l \in Lease /\ l.owner = s
    BY GrantedType DEF Granted
  <2>2. StoreLease(t, l) /\ Told(s, t, BeliefIn(l)) /\ lease[t] = NoLease
    BY <1>5 DEF AcquireFirst, Grant
  <2> HIDE DEF l
  <2> QED
    BY <1>2, <2>1, <2>2
<1> QED
  BY <1>1, <1>3, <1>4, <1>5 DEF AcquireLease

LEMMA RenewTrust ==
  ASSUME TypeOK, LiveBeliefHonoured, NEW s \in Sessions, NEW t \in Tasks, NEW g,
         NEW at \in Nat, RenewLease(t, s, g, at), UNCHANGED <<now, revoked>>
  PROVE  LiveBeliefHonoured'
<1> DEFINE l == Renewed(lease[t], at)
<1>1. CASE ~Held(lease[t], s, g) /\ Refused(s, t)
  BY <1>1, RefusedTrust
<1>2. CASE Held(lease[t], s, g) /\ Prolong(t, l) /\ Told(s, t, BeliefIn(l))
  <2>1. lease[t] \in Lease /\ lease[t].owner = s /\ lease[t] # NoLease
    BY <1>2, HeldType DEF Held
  <2>2. l \in Lease /\ l.owner = s
    BY <2>1, RenewedType
  <2>3. StoreLease(t, l) /\ Told(s, t, BeliefIn(l))
    BY <1>2 DEF Prolong
  <2> HIDE DEF l
  <2> QED
    BY <2>1, <2>2, <2>3, OthersExpired, ToldView, WriteTrust
<1> QED
  BY <1>1, <1>2 DEF RenewLease

LEMMA ReleaseTrust ==
  ASSUME TypeOK, LiveBeliefHonoured, NEW s \in Sessions, NEW t \in Tasks, NEW g,
         ReleaseLease(t, s, g), UNCHANGED <<now, revoked>>
  PROVE  LiveBeliefHonoured'
<1>1. CASE ~Held(lease[t], s, g) /\ UNCHANGED <<lease, audit>>
  BY <1>1, RefusedTrust DEF ReleaseLease, Refused
<1>2. CASE Held(lease[t], s, g) /\ Delete(t)
  <2> SUFFICES ASSUME NEW s1 \in Sessions, NEW t1 \in Tasks
               PROVE  Trust(s1, t1)'
    BY DEF LiveBeliefHonoured, Trust
  <2>1. Told(s, t, NoLease) /\ Trust(s1, t1)
    BY DEF ReleaseLease, LiveBeliefHonoured, Trust
  <2>2. CASE t1 # t
    BY <1>2, <2>1, <2>2, ToldView DEF Trust, LiveAt, Delete, StoreLease, TypeOK
  <2>3. CASE t1 = t /\ s1 = s
    BY <2>1, <2>3, ToldView DEF Trust, LiveAt
  <2>4. CASE t1 = t /\ s1 # s
    <3>1. ~LiveAt(view[s1][t], now) \/ t \in revoked
      BY <1>2, <2>4, OthersExpired DEF Held
    <3> QED
      BY <2>1, <2>4, <3>1, ToldView DEF Trust, LiveAt
  <2> QED
    BY <2>2, <2>3, <2>4
<1> QED
  BY <1>1, <1>2 DEF ReleaseLease

LEMMA HandoffTrust ==
  ASSUME TypeOK, LiveBeliefHonoured, NEW s \in Sessions, NEW t \in Tasks, NEW g,
         NEW next \in Sessions, NEW at \in Nat, HandoffLease(t, s, g, next, at),
         UNCHANGED <<now, revoked>>
  PROVE  LiveBeliefHonoured'
<1> DEFINE l == Granted(next, at, g + 1)
<1>1. g \in Nat /\ lease[t] # NoLease /\ lease[t].owner = s
  BY HeldType DEF HandoffLease, Held
<1>2. l \in Lease /\ l.owner = next
  BY <1>1, GrantedType DEF Granted
<1>3. /\ StoreLease(t, l)
      /\ view' = [[view EXCEPT ![s][t] = NoLease] EXCEPT ![next][t] = BeliefIn(l)]
  BY DEF HandoffLease, Grant
<1> HIDE DEF l
<1>4. /\ view'[next][t] = BeliefIn(l)
      /\ s # next => view'[s][t] = NoLease
      /\ \A s1 \in Sessions, t1 \in Tasks :
           t1 # t \/ s1 \notin {s, next} => view'[s1][t1] = view[s1][t1]
  BY <1>3 DEF TypeOK
<1>5. \A s1 \in Sessions \ {s} : ~LiveAt(view[s1][t], now) \/ t \in revoked
  BY <1>1, OthersExpired
<1>6. \A s1 \in Sessions \ {next} : ~LiveAt(view'[s1][t], now) \/ t \in revoked
  BY <1>4, <1>5 DEF LiveAt
<1>7. \A s1 \in Sessions, t1 \in Tasks : t1 # t => view'[s1][t1] = view[s1][t1]
  BY <1>4
<1> QED
  BY <1>2, <1>3, <1>4, <1>6, <1>7, WriteTrust

LEMMA BeliefStep ==
  ASSUME TypeOK, HookTimesPast, LiveBeliefHonoured, [Next]_vars
  PROVE  LiveBeliefHonoured'
<1>1. CASE UNCHANGED <<lease, view, revoked>> /\ now' \in Nat /\ now' >= now
  <2> SUFFICES ASSUME NEW s \in Sessions, NEW t \in Tasks
               PROVE  Trust(s, t)'
    BY DEF LiveBeliefHonoured, Trust
  <2>1. Trust(s, t) /\ now \in Nat
    BY DEF LiveBeliefHonoured, Trust, TypeOK
  <2>2. view[s][t] \in Belief \cup {NoLease}
    BY DEF TypeOK
  <2>3. LiveAt(view[s][t], now') => LiveAt(view[s][t], now)
    BY <1>1, <2>1, <2>2 DEF LiveAt, Belief
  <2> QED
    BY <1>1, <2>1, <2>3 DEF Trust, LiveAt
<1>2. now \in Nat /\ now >= now
  BY DEF TypeOK
<1>3. ASSUME NEW t \in Tasks, CloseRelease(t)
      PROVE  LiveBeliefHonoured'
  <2>1. CASE UNCHANGED <<lease, revoked>>
    BY <1>1, <1>2, <1>3, <2>1 DEF CloseRelease
  <2>2. CASE /\ Delete(t) /\ lease[t] # NoLease
             /\ revoked' = IF LiveAt(lease[t], now) THEN revoked \cup {t} ELSE revoked
    <3> SUFFICES ASSUME NEW s1 \in Sessions, NEW t1 \in Tasks
                 PROVE  Trust(s1, t1)'
      BY DEF LiveBeliefHonoured, Trust
    <3>1. Trust(s1, t1) /\ now' = now /\ view' = view /\ revoked \subseteq revoked'
      BY <1>3, <2>2 DEF CloseRelease, LiveBeliefHonoured, Trust
    <3>2. CASE t1 # t
      BY <2>2, <3>1, <3>2 DEF Trust, LiveAt, Delete, StoreLease, TypeOK
    <3>3. CASE t1 = t
      <4> SUFFICES ASSUME LiveAt(view[s1][t], now), t \notin revoked'
                   PROVE  FALSE
        BY <3>1, <3>3 DEF Trust, LiveAt
      <4>1. ~LiveAt(lease[t], now) /\ lease[t].expires_at >= view[s1][t].expires_at
        BY <2>2, <3>1, <3>3 DEF Trust
      <4>2. view[s1][t] \in Belief /\ lease[t] \in Lease
        BY <2>2 DEF TypeOK, LiveAt, LeaseOrNone
      <4> QED
        BY <1>2, <2>2, <4>1, <4>2 DEF LiveAt, Belief, Lease
    <3> QED
      BY <3>2, <3>3
  <2> QED
    BY <1>3, <2>1, <2>2 DEF CloseRelease, Held
<1>4. ASSUME NEW t \in Tasks,
             CreateTask(t) \/ CloseRead(t) \/ CloseGitFails(t) \/ CloseTask(t)
      PROVE  LiveBeliefHonoured'
  BY <1>1, <1>2, <1>4 DEF CreateTask, CloseRead, CloseGitFails, CloseTask, store
<1>5. ASSUME NEW s \in Sessions, NEW t \in Tasks, ApiAcquire(s, t)
      PROVE  LiveBeliefHonoured'
  BY <1>2, <1>5, AcquireTrust DEF ApiAcquire
<1>6. ASSUME NEW s \in Sessions, NEW t \in Tasks, NEW g \in 1..MaxGeneration,
             ApiRenew(s, t, g) \/ ApiRelease(s, t, g)
      PROVE  LiveBeliefHonoured'
  BY <1>2, <1>6, RenewTrust, ReleaseTrust DEF ApiRenew, ApiRelease
<1>7. ASSUME NEW h \in HandoffIds, HandoffTransferred(h)
      PROVE  LiveBeliefHonoured'
  <2> DEFINE r == handoff[h]
  <2>1. r.task \in Tasks /\ r.from \in Sessions /\ r.to \in Sessions
    BY <1>7 DEF HandoffTransferred, TypeOK, Idle, HandoffRequest
  <2> QED
    BY <1>2, <1>7, <2>1, HandoffTrust, RefusedTrust DEF HandoffTransferred
<1>8. ASSUME NEW h \in HandoffIds,
             \/ HandoffRetried(h) \/ HandoffChecked(h) \/ HandoffRecorded(h)
             \/ \E s, next \in Sessions, t \in Tasks, g \in 1..MaxGeneration :
                  HandoffRequested(h, s, t, next, g)
      PROVE  LiveBeliefHonoured'
  BY <1>1, <1>2, <1>8
  DEF HandoffRetried, HandoffChecked, HandoffRecorded, HandoffRequested, store
<1>9. ASSUME NEW r \in inflight, HookReadsToEnd(r)
      PROVE  LiveBeliefHonoured'
  <2>1. r.session \in Sessions /\ r.task \in Tasks
    BY DEF TypeOK, Hook
  <2>2. CASE Told(r.session, r.task, NoLease)
    BY <1>9, <2>1, <2>2, RefusedTrust DEF HookReadsToEnd, Refused, store
  <2>3. CASE UNCHANGED view
    BY <1>1, <1>2, <1>9, <2>3 DEF HookReadsToEnd, store
  <2> QED
    BY <1>9, <2>2, <2>3 DEF HookReadsToEnd
<1>10. ASSUME NEW r \in inflight, HookActs(r)
      PROVE  LiveBeliefHonoured'
  <2>1. r.session \in Sessions /\ r.task \in Tasks /\ r.at \in Nat /\ r.at <= now
    BY DEF TypeOK, Hook, HookTimesPast
  <2> QED
    BY <1>10, <2>1, AcquireTrust, RenewTrust, ReleaseTrust DEF HookActs
<1>11. ASSUME \/ \E r \in inflight : HookReadsToWork(r)
              \/ \E s \in Sessions, t \in Tasks, kind \in HookKinds : HookReceived(s, t, kind)
              \/ ServiceCrash
       PROVE  LiveBeliefHonoured'
  BY <1>1, <1>2, <1>11 DEF HookReadsToWork, HookReceived, ServiceCrash, store
<1>12. CASE Tick
  BY <1>1, <1>2, <1>12 DEF Tick, store
<1>13. CASE UNCHANGED vars
  BY <1>1, <1>2, <1>13 DEF vars
<1> QED
  BY <1>3, <1>4, <1>5, <1>6, <1>7, <1>8, <1>9, <1>10, <1>11, <1>12, <1>13
  DEF Next, TaskNext, ApiNext, HandoffNext, HookNext

(* Whatever stale or delayed requests the callers send, the lease a session *)
(* was told of stays its own until it expires, unless a close takes it.     *)
THEOREM BeliefsHonoured == Spec => []LiveBeliefHonoured
<1>1. Init => LiveBeliefHonoured
  BY DEF Init, LiveBeliefHonoured, LiveAt
<1>2. TypeOK /\ HookTimesPast /\ LiveBeliefHonoured /\ [Next]_vars => LiveBeliefHonoured'
  BY BeliefStep
<1> QED
  BY <1>1, <1>2, TypeCorrect, PTL DEF Spec

(* Mutual exclusion of the writers of a task.                               *)
THEOREM WritersExclusive == Spec => []ExclusiveWriter
<1>1. LiveBeliefHonoured => ExclusiveWriter
  BY DEF LiveBeliefHonoured, ExclusiveWriter
<1> QED
  BY <1>1, BeliefsHonoured, PTL

----------------------------------------------------------------------------
(* What a step does to a task's row and to its newest audit row: one of six *)
(* things.  The properties of steps and of tenures follow from them.        *)

Kept(t) == lease'[t] = lease[t] /\ audit'[t] = audit[t]

Ended(t) == lease'[t] = NoLease /\ audit'[t].action = "release"

Prolonged(t) ==
  /\ lease[t] # NoLease /\ audit'[t].action = "renew"
  /\ \E at \in Nat : at <= now /\ lease'[t] = Renewed(lease[t], at)

Begun(t) ==
  /\ lease[t] = NoLease /\ status[t] = "active" /\ audit'[t].action = "acquire"
  /\ \E s \in Sessions, at \in Nat : at <= now /\ lease'[t] = Granted(s, at, 1)

TakenOver(t) ==
  /\ lease[t] # NoLease
  /\ \E s \in Sessions, at \in Nat :
       /\ at <= now /\ lease'[t] = Granted(s, at, lease[t].generation + 1)
       /\ audit'[t] = [action |-> "takeover", owner |-> s, prior |-> lease[t].owner,
                       generation |-> lease[t].generation + 1]

HandedOver(t) ==
  \E h \in HandoffIds :
    LET r == handoff[h] IN
    /\ r \in HandoffRequest /\ r.stage = "recorded" /\ r.task = t
    /\ Held(lease[t], r.from, r.generation)
    /\ lease'[t] = Granted(r.to, now, r.generation + 1)
    /\ audit'[t] = [action |-> "handoff", owner |-> r.to, prior |-> r.from,
                    generation |-> r.generation + 1]

RowChange(t) ==
  Kept(t) \/ Ended(t) \/ Prolonged(t) \/ Begun(t) \/ TakenOver(t) \/ HandedOver(t)

LEMMA StoredRow ==
  ASSUME TypeOK, NEW t \in Tasks, NEW l, NEW action, NEW owner, NEW prior,
         StoreLease(t, l), AppendEvent(t, action, owner, prior)
  PROVE  /\ lease'[t] = l
         /\ audit'[t] = [action |-> action, owner |-> owner.owner, prior |-> prior,
                         generation |-> owner.generation]
         /\ audit'[t].action = action
         /\ \A u \in Tasks \ {t} : Kept(u)
BY DEF StoreLease, AppendEvent, Kept, TypeOK

LEMMA AcquireRow ==
  ASSUME TypeOK, NEW t \in Tasks, NEW s \in Sessions, NEW at \in Nat, at <= now,
         AcquireLease(t, s, at), NEW u \in Tasks
  PROVE  RowChange(u)
<1>1. CASE AcquireRefused(t, s, at)
  BY <1>1 DEF AcquireRefused, Refused, RowChange, Kept
<1>2. CASE AcquireRenews(t, s, at)
  <2> DEFINE l == Renewed(lease[t], at)
  <2>1. StoreLease(t, l) /\ AppendEvent(t, "renew", l, NoSession) /\ lease[t] # NoLease
    BY <1>2 DEF AcquireRenews, Prolong, LiveAt
  <2> HIDE DEF l
  <2>2. /\ lease'[t] = l /\ audit'[t].action = "renew"
        /\ \A v \in Tasks \ {t} : Kept(v)
    BY <2>1, StoredRow
  <2> QED
    BY <2>1, <2>2 DEF l, RowChange, Prolonged
<1>3. CASE AcquireTakesOver(t, s, at)
  <2> DEFINE l == Granted(s, at, lease[t].generation + 1)
  <2>1. StoreLease(t, l) /\ AppendEvent(t, "takeover", l, lease[t].owner) /\ lease[t] # NoLease
    BY <1>3 DEF AcquireTakesOver, Grant
  <2>2. l.owner = s /\ l.generation = lease[t].generation + 1
    BY DEF Granted
  <2> HIDE DEF l
  <2>3. /\ lease'[t] = l
        /\ audit'[t] = [action |-> "takeover", owner |-> l.owner, prior |-> lease[t].owner,
                        generation |-> l.generation]
        /\ \A v \in Tasks \ {t} : Kept(v)
    BY <2>1, StoredRow
  <2>4. u = t => TakenOver(u)
    BY <2>1, <2>2, <2>3 DEF l, TakenOver
  <2> QED
    BY <2>3, <2>4 DEF RowChange
<1>4. CASE AcquireFirst(t, s, at)
  <2> DEFINE l == Granted(s, at, 1)
  <2>1. /\ StoreLease(t, l) /\ AppendEvent(t, "acquire", l, NoSession)
        /\ lease[t] = NoLease /\ status[t] = "active"
    BY <1>4 DEF AcquireFirst, Grant
  <2> HIDE DEF l
  <2>2. /\ lease'[t] = l /\ audit'[t].action = "acquire"
        /\ \A v \in Tasks \ {t} : Kept(v)
    BY <2>1, StoredRow
  <2> QED
    BY <2>1, <2>2 DEF l, RowChange, Begun
<1> QED
  BY <1>1, <1>2, <1>3, <1>4 DEF AcquireLease

LEMMA RenewRow ==
  ASSUME TypeOK, NEW t \in Tasks, NEW s \in Sessions, NEW g, NEW at \in Nat, at <= now,
         RenewLease(t, s, g, at), NEW u \in Tasks
  PROVE  RowChange(u)
<1> DEFINE l == Renewed(lease[t], at)
<1>1. CASE ~Held(lease[t], s, g) /\ Refused(s, t)
  BY <1>1 DEF Refused, RowChange, Kept
<1>2. CASE Held(lease[t], s, g) /\ Prolong(t, l)
  <2>1. StoreLease(t, l) /\ AppendEvent(t, "renew", l, NoSession) /\ lease[t] # NoLease
    BY <1>2 DEF Prolong, Held
  <2> HIDE DEF l
  <2>2. /\ lease'[t] = l /\ audit'[t].action = "renew"
        /\ \A v \in Tasks \ {t} : Kept(v)
    BY <2>1, StoredRow
  <2> QED
    BY <2>1, <2>2 DEF l, RowChange, Prolonged
<1> QED
  BY <1>1, <1>2 DEF RenewLease

LEMMA DeleteRow ==
  ASSUME TypeOK, NEW t \in Tasks, Delete(t), NEW u \in Tasks
  PROVE  RowChange(u)
<1>1. /\ lease'[t] = NoLease /\ audit'[t].action = "release"
      /\ \A v \in Tasks \ {t} : Kept(v)
  BY StoredRow DEF Delete
<1> QED
  BY <1>1 DEF RowChange, Ended

LEMMA ReleaseRow ==
  ASSUME TypeOK, NEW t \in Tasks, NEW s \in Sessions, NEW g, ReleaseLease(t, s, g),
         NEW u \in Tasks
  PROVE  RowChange(u)
<1>1. CASE UNCHANGED <<lease, audit>>
  BY <1>1 DEF RowChange, Kept
<1> QED
  BY <1>1, DeleteRow DEF ReleaseLease

LEMMA TransferRow ==
  ASSUME TypeOK, NEW h \in HandoffIds, HandoffTransferred(h), NEW u \in Tasks
  PROVE  RowChange(u)
<1> DEFINE r == handoff[h]
           l == Granted(r.to, now, r.generation + 1)
<1>1. r \in HandoffRequest /\ r.stage = "recorded" /\ r.task \in Tasks
  BY DEF HandoffTransferred, TypeOK, Idle, HandoffRequest
<1>2. CASE Refused(r.from, r.task)
  BY <1>2 DEF Refused, RowChange, Kept
<1>3. CASE HandoffLease(r.task, r.from, r.generation, r.to, now)
  <2>1. /\ StoreLease(r.task, l) /\ AppendEvent(r.task, "handoff", l, r.from)
        /\ Held(lease[r.task], r.from, r.generation)
    BY <1>3 DEF HandoffLease, Grant
  <2>2. l.owner = r.to /\ l.generation = r.generation + 1
    BY DEF Granted
  <2> HIDE DEF l
  <2>3. /\ lease'[r.task] = l
        /\ audit'[r.task] = [action |-> "handoff", owner |-> l.owner, prior |-> r.from,
                             generation |-> l.generation]
        /\ \A v \in Tasks \ {r.task} : Kept(v)
    BY <1>1, <2>1, StoredRow
  <2>4. u = r.task => HandedOver(u)
    BY <1>1, <2>1, <2>2, <2>3 DEF l, HandedOver
  <2> QED
    BY <2>3, <2>4 DEF RowChange
<1> QED
  BY <1>2, <1>3 DEF HandoffTransferred

LEMMA RowStep ==
  ASSUME TypeOK, HookTimesPast, [Next]_vars, NEW u \in Tasks
  PROVE  RowChange(u)
<1>1. CASE UNCHANGED <<lease, audit>>
  BY <1>1 DEF RowChange, Kept
<1>2. now \in Nat /\ now <= now
  BY DEF TypeOK
<1>3. ASSUME NEW t \in Tasks, CloseRelease(t)
      PROVE  RowChange(u)
  BY <1>1, <1>3, DeleteRow DEF CloseRelease
<1>4. ASSUME NEW t \in Tasks,
             CreateTask(t) \/ CloseRead(t) \/ CloseGitFails(t) \/ CloseTask(t)
      PROVE  RowChange(u)
  BY <1>1, <1>4 DEF CreateTask, CloseRead, CloseGitFails, CloseTask, store
<1>5. ASSUME NEW s \in Sessions, NEW t \in Tasks, ApiAcquire(s, t)
      PROVE  RowChange(u)
  BY <1>2, <1>5, AcquireRow DEF ApiAcquire
<1>6. ASSUME NEW s \in Sessions, NEW t \in Tasks, NEW g \in 1..MaxGeneration,
             ApiRenew(s, t, g) \/ ApiRelease(s, t, g)
      PROVE  RowChange(u)
  BY <1>2, <1>6, RenewRow, ReleaseRow DEF ApiRenew, ApiRelease
<1>7. ASSUME NEW h \in HandoffIds, HandoffTransferred(h)
      PROVE  RowChange(u)
  BY <1>7, TransferRow
<1>8. ASSUME NEW h \in HandoffIds,
             \/ HandoffRetried(h) \/ HandoffChecked(h) \/ HandoffRecorded(h)
             \/ \E s, next \in Sessions, t \in Tasks, g \in 1..MaxGeneration :
                  HandoffRequested(h, s, t, next, g)
      PROVE  RowChange(u)
  BY <1>1, <1>8 DEF HandoffRetried, HandoffChecked, HandoffRecorded, HandoffRequested, store
<1>9. ASSUME NEW r \in inflight, HookReadsToEnd(r) \/ HookReadsToWork(r)
      PROVE  RowChange(u)
  BY <1>1, <1>9 DEF HookReadsToEnd, HookReadsToWork, store
<1>10. ASSUME NEW r \in inflight, HookActs(r)
       PROVE  RowChange(u)
  <2>1. r.session \in Sessions /\ r.task \in Tasks /\ r.at \in Nat /\ r.at <= now
    BY DEF TypeOK, Hook, HookTimesPast
  <2> QED
    BY <1>10, <2>1, AcquireRow, RenewRow, ReleaseRow DEF HookActs
<1>11. CASE \/ \E s \in Sessions, t \in Tasks, kind \in HookKinds : HookReceived(s, t, kind)
            \/ ServiceCrash \/ Tick \/ UNCHANGED vars
  BY <1>1, <1>11 DEF HookReceived, ServiceCrash, Tick, store, vars
<1> QED
  BY <1>3, <1>4, <1>5, <1>6, <1>7, <1>8, <1>9, <1>10, <1>11
  DEF Next, TaskNext, ApiNext, HandoffNext, HookNext

----------------------------------------------------------------------------
(* Tenures.                                                                 *)

LEMMA TenureStep ==
  ASSUME TypeOK, HookTimesPast, BoundedTenure, [Next]_vars
  PROVE  BoundedTenure'
<1> SUFFICES ASSUME NEW t \in Tasks, lease'[t] # NoLease
             PROVE  /\ lease'[t].renewed_at <= now'
                    /\ lease'[t].expires_at = lease'[t].renewed_at + Duration
  BY DEF BoundedTenure
<1>1. now \in Nat /\ now' \in Nat /\ now <= now'
  <2>1. CASE Tick
    BY <2>1 DEF Tick, TypeOK
  <2>2. CASE UNCHANGED now
    BY <2>2 DEF TypeOK
  <2> QED
    BY <2>1, <2>2 DEF Next, TaskNext, ApiNext, HandoffNext, HookNext, CreateTask, CloseRead,
         CloseRelease, CloseGitFails, CloseTask, ApiAcquire, ApiRenew, ApiRelease,
         HandoffRequested, HandoffRetried, HandoffChecked, HandoffRecorded, HandoffTransferred,
         HookReceived, HookReadsToEnd, HookReadsToWork, HookActs, ServiceCrash, vars
<1>2. RowChange(t)
  BY RowStep
<1>3. \A s, g : \A at \in Nat :
        at <= now /\ lease'[t] = Granted(s, at, g)
          => /\ lease'[t].renewed_at <= now'
             /\ lease'[t].expires_at = lease'[t].renewed_at + Duration
  BY <1>1 DEF Granted
<1>4. CASE Kept(t)
  <2>1. lease[t] # NoLease /\ lease[t] \in Lease
    BY <1>4 DEF Kept, TypeOK, LeaseOrNone
  <2> QED
    BY <1>1, <1>4, <2>1 DEF Kept, BoundedTenure, Lease
<1>5. CASE Ended(t)
  BY <1>5 DEF Ended
<1>6. CASE Prolonged(t)
  <2>1. PICK at \in Nat : at <= now /\ lease'[t] = Renewed(lease[t], at)
    BY <1>6 DEF Prolonged
  <2>2. lease[t] \in Lease /\ lease[t].renewed_at \in Nat /\ lease[t].renewed_at <= now
    BY <1>6 DEF Prolonged, TypeOK, LeaseOrNone, Lease, BoundedTenure
  <2>3. MaxOf(at, lease[t].renewed_at) \in Nat /\ MaxOf(at, lease[t].renewed_at) <= now
    BY <2>1, <2>2 DEF MaxOf
  <2>4. /\ Renewed(lease[t], at).renewed_at = MaxOf(at, lease[t].renewed_at)
        /\ Renewed(lease[t], at).expires_at = MaxOf(at, lease[t].renewed_at) + Duration
    BY <2>2, RenewedType
  <2> QED
    BY <1>1, <2>1, <2>3, <2>4
<1>7. CASE Begun(t) \/ TakenOver(t)
  BY <1>3, <1>7 DEF Begun, TakenOver
<1>8. CASE HandedOver(t)
  BY <1>1, <1>3, <1>8 DEF HandedOver
<1> QED
  BY <1>2, <1>4, <1>5, <1>6, <1>7, <1>8 DEF RowChange

(* No row outlives its last renewal by more than the duration, and no       *)
(* renewal is of a time the service's clock has not reached.                *)
THEOREM TenuresBounded == Spec => []BoundedTenure
<1>1. Init => BoundedTenure
  BY DEF Init, BoundedTenure
<1>2. TypeOK /\ HookTimesPast /\ BoundedTenure /\ [Next]_vars => BoundedTenure'
  BY TenureStep
<1> QED
  BY <1>1, <1>2, TypeCorrect, PTL DEF Spec

----------------------------------------------------------------------------
(* What no step does to a lease.                                            *)

LEMMA SoundChange ==
  ASSUME TypeOK, BoundedTenure, NEW t \in Tasks, RowChange(t)
  PROVE  NeverShortens(t) /\ TransferAudited(t) /\ StaysUnleased(t)
<1>1. lease[t] # NoLease =>
        /\ lease[t] \in Lease /\ lease[t].expires_at \in Nat /\ lease[t].generation \in Nat
        /\ lease[t].renewed_at \in Nat /\ lease[t].expires_at = lease[t].renewed_at + Duration
  BY DEF TypeOK, LeaseOrNone, Lease, BoundedTenure
<1>2. CASE Kept(t)
  BY <1>1, <1>2 DEF Kept, NeverShortens, TransferAudited, StaysUnleased
<1>3. CASE Ended(t)
  BY <1>3 DEF Ended, NeverShortens, TransferAudited, StaysUnleased
<1>4. CASE Prolonged(t)
  <2>1. PICK at \in Nat : lease'[t] = Renewed(lease[t], at)
    BY <1>4 DEF Prolonged
  <2>2. lease[t] # NoLease
    BY <1>4 DEF Prolonged
  <2>3. /\ Renewed(lease[t], at).owner = lease[t].owner
        /\ Renewed(lease[t], at).expires_at = MaxOf(at, lease[t].renewed_at) + Duration
    BY <1>1, <2>2, RenewedType
  <2>4. lease'[t].expires_at >= lease[t].expires_at
    BY <1>1, <2>1, <2>2, <2>3, DurationAssumption DEF MaxOf
  <2> QED
    BY <2>1, <2>2, <2>3, <2>4 DEF NeverShortens, TransferAudited, StaysUnleased
<1>5. CASE Begun(t)
  BY <1>5 DEF Begun, NeverShortens, TransferAudited, StaysUnleased
<1>6. CASE TakenOver(t)
  BY <1>1, <1>6 DEF TakenOver, Granted, NeverShortens, TransferAudited, StaysUnleased
<1>7. CASE HandedOver(t)
  BY <1>1, <1>7 DEF HandedOver, Held, Granted, NeverShortens, TransferAudited, StaysUnleased
<1> QED
  BY <1>2, <1>3, <1>4, <1>5, <1>6, <1>7 DEF RowChange

(* However late a hook or a request comes, it moves no expiry backwards,    *)
(* passes no lease on without its audit row and revives no closed task.     *)
THEOREM StepsSound == Spec => LeaseStepsSound
<1>1. TypeOK /\ HookTimesPast /\ BoundedTenure /\ [Next]_vars =>
        \A t \in Tasks : NeverShortens(t) /\ TransferAudited(t) /\ StaysUnleased(t)
  BY RowStep, SoundChange
<1> QED
  BY <1>1, TypeCorrect, TenuresBounded, PTL DEF Spec, LeaseStepsSound

----------------------------------------------------------------------------
(* Handoffs and their checkpoints.                                          *)

(* A request passes its checkpoint before it can transfer the lease.        *)
CheckpointFirst ==
  /\ \A h \in HandoffIds : handoff[h].stage \in {"recorded", "transferred"} => h \in checkpoints
  /\ \A h \in checkpoints : handoff[h] # Idle

SameRequest(q, r) ==
  q.task = r.task /\ q.from = r.from /\ q.to = r.to /\ q.generation = r.generation

(* What a step does to a request: it begins one, or moves one on without    *)
(* changing what it asks for.                                               *)
RequestChange(h) ==
  \/ handoff'[h] = handoff[h]
  \/ handoff[h] = Idle /\ handoff'[h] # Idle /\ handoff'[h].stage = "requested"
  \/ /\ handoff[h] # Idle /\ handoff'[h] # Idle /\ SameRequest(handoff'[h], handoff[h])
     /\ handoff'[h].stage = "recorded" => h \in checkpoints'
     /\ handoff'[h].stage = "transferred" => handoff[h].stage = "recorded"

LEMMA RequestMoved ==
  ASSUME TypeOK, NEW h \in HandoffIds, NEW stage, handoff[h] # Idle,
         handoff' = [handoff EXCEPT ![h].stage = stage]
  PROVE  /\ handoff'[h].stage = stage /\ SameRequest(handoff'[h], handoff[h])
         /\ stage # "idle" => handoff'[h] # Idle
         /\ \A g \in HandoffIds \ {h} : handoff'[g] = handoff[g]
<1>1. handoff[h] \in HandoffRequest
  BY DEF TypeOK
<1>2. handoff'[h] = [handoff[h] EXCEPT !.stage = stage]
  BY DEF TypeOK
<1>3. handoff'[h].stage = stage /\ SameRequest(handoff'[h], handoff[h])
  BY <1>1, <1>2 DEF HandoffRequest, SameRequest
<1> QED
  BY <1>3 DEF TypeOK, Idle

LEMMA RequestStep ==
  ASSUME TypeOK, [Next]_vars, NEW h \in HandoffIds
  PROVE  RequestChange(h) /\ checkpoints \subseteq checkpoints'
                          /\ (h \in checkpoints' => h \in checkpoints \/ handoff[h] # Idle)
<1>1. CASE UNCHANGED <<handoff, checkpoints>>
  BY <1>1 DEF RequestChange
<1>2. ASSUME NEW g \in HandoffIds, NEW s \in Sessions, NEW next \in Sessions,
             NEW t \in Tasks, NEW n \in 1..MaxGeneration, HandoffRequested(g, s, t, next, n)
      PROVE  RequestChange(h) /\ checkpoints' = checkpoints
  BY <1>2 DEF HandoffRequested, store, RequestChange, TypeOK, Idle
<1>3. ASSUME NEW g \in HandoffIds, HandoffRetried(g)
      PROVE  RequestChange(h) /\ checkpoints' = checkpoints
  <2>1. handoff[g] # Idle /\ handoff' = [handoff EXCEPT ![g].stage = "requested"]
    BY <1>3 DEF HandoffRetried, Idle
  <2>2. /\ handoff'[g].stage = "requested" /\ SameRequest(handoff'[g], handoff[g])
        /\ handoff'[g] # Idle
        /\ \A i \in HandoffIds \ {g} : handoff'[i] = handoff[i]
    BY <2>1, RequestMoved
  <2>3. checkpoints' = checkpoints
    BY <1>3 DEF HandoffRetried, store
  <2>4. CASE h = g
    BY <2>1, <2>4, <2>2, <2>3 DEF RequestChange
  <2>5. CASE h # g
    BY <2>5, <2>2, <2>3 DEF RequestChange
  <2> QED
    BY <2>4, <2>5
<1>4. ASSUME NEW g \in HandoffIds, HandoffChecked(g)
      PROVE  RequestChange(h) /\ checkpoints' = checkpoints
  <2>1. handoff[g] # Idle
    BY <1>4 DEF HandoffChecked, Idle
  <2>2. \E stage \in {"replayed", "checked"} : handoff' = [handoff EXCEPT ![g].stage = stage]
    BY <1>4 DEF HandoffChecked
  <2>3. PICK stage \in {"replayed", "checked"} :
          handoff[g] # Idle /\ handoff' = [handoff EXCEPT ![g].stage = stage]
    BY <2>1, <2>2
  <2>4. CASE h = g
    BY <1>4, <2>3, <2>4, RequestMoved DEF HandoffChecked, store, RequestChange
  <2>5. CASE h # g
    BY <1>4, <2>3, <2>5, RequestMoved DEF HandoffChecked, store, RequestChange
  <2> QED
    BY <2>4, <2>5
<1>5. ASSUME NEW g \in HandoffIds, HandoffRecorded(g)
      PROVE  /\ RequestChange(h) /\ checkpoints \subseteq checkpoints'
             /\ h \in checkpoints' => h \in checkpoints \/ handoff[h] # Idle
  <2>1. handoff[g] # Idle
    BY <1>5 DEF HandoffRecorded, Idle
  <2>2. CASE /\ checkpoints' = checkpoints \cup {g}
             /\ handoff' = [handoff EXCEPT ![g].stage = "recorded"]
    <3>1. CASE h = g
      BY <2>1, <2>2, <3>1, RequestMoved DEF RequestChange
    <3>2. CASE h # g
      BY <2>1, <2>2, <3>2, RequestMoved DEF RequestChange
    <3> QED
      BY <3>1, <3>2
  <2>3. CASE checkpoints' = checkpoints /\ handoff' = [handoff EXCEPT ![g].stage = "refused"]
    <3>1. CASE h = g
      BY <2>1, <2>3, <3>1, RequestMoved DEF RequestChange
    <3>2. CASE h # g
      BY <2>1, <2>3, <3>2, RequestMoved DEF RequestChange
    <3> QED
      BY <2>3, <3>1, <3>2
  <2> QED
    BY <1>5, <2>2, <2>3 DEF HandoffRecorded
<1>6. ASSUME NEW g \in HandoffIds, HandoffTransferred(g)
      PROVE  RequestChange(h) /\ checkpoints' = checkpoints
  <2>1. PICK stage \in {"transferred", "refused"} :
          /\ handoff[g] # Idle /\ handoff[g].stage = "recorded"
          /\ handoff' = [handoff EXCEPT ![g].stage = stage]
    BY <1>6 DEF HandoffTransferred, Idle
  <2>2. CASE h = g
    BY <1>6, <2>1, <2>2, RequestMoved DEF HandoffTransferred, RequestChange
  <2>3. CASE h # g
    BY <1>6, <2>1, <2>3, RequestMoved DEF HandoffTransferred, RequestChange
  <2> QED
    BY <2>2, <2>3
<1>7. CASE TaskNext \/ ApiNext \/ HookNext \/ Tick \/ UNCHANGED vars
  <2>1. UNCHANGED <<handoff, checkpoints>>
    BY <1>7 DEF TaskNext, ApiNext, HookNext, CreateTask, CloseRead, CloseRelease, CloseGitFails,
         CloseTask, ApiAcquire, ApiRenew, ApiRelease, HookReceived, HookReadsToEnd,
         HookReadsToWork, HookActs, ServiceCrash, Tick, store, vars
  <2> QED
    BY <1>1, <2>1
<1> QED
  BY <1>2, <1>3, <1>4, <1>5, <1>6, <1>7 DEF Next, HandoffNext

LEMMA CheckpointFirstStep ==
  ASSUME TypeOK, CheckpointFirst, [Next]_vars
  PROVE  CheckpointFirst'
<1>1. \A h \in HandoffIds :
        /\ RequestChange(h) /\ checkpoints \subseteq checkpoints'
        /\ h \in checkpoints' => h \in checkpoints \/ handoff[h] # Idle
  BY RequestStep
<1>2. checkpoints' \subseteq HandoffIds
  BY TypeStep DEF TypeOK, Next, HandoffNext, TaskNext, ApiNext, HookNext, HandoffRequested,
     HandoffRetried, HandoffChecked, HandoffRecorded, HandoffTransferred, CreateTask, CloseRead,
     CloseRelease, CloseGitFails, CloseTask, ApiAcquire, ApiRenew, ApiRelease, HookReceived,
     HookReadsToEnd, HookReadsToWork, HookActs, ServiceCrash, Tick, store, vars
<1> QED
  BY <1>1, <1>2 DEF CheckpointFirst, RequestChange

LEMMA CheckpointStep ==
  ASSUME TypeOK, HookTimesPast, CheckpointFirst, TransferCheckpointed, [Next]_vars
  PROVE  TransferCheckpointed'
<1> SUFFICES ASSUME NEW t \in Tasks, audit'[t] # NoEvent, audit'[t].action = "handoff"
             PROVE  \E h \in checkpoints' :
                      /\ handoff'[h].task = t
                      /\ handoff'[h].from = audit'[t].prior /\ handoff'[h].to = audit'[t].owner
                      /\ handoff'[h].generation + 1 = audit'[t].generation
  BY DEF TransferCheckpointed
<1>1. ASSUME NEW h \in HandoffIds, h \in checkpoints
      PROVE  h \in checkpoints' /\ SameRequest(handoff'[h], handoff[h])
  BY <1>1, RequestStep DEF RequestChange, CheckpointFirst, SameRequest
<1>2. RowChange(t)
  BY RowStep
<1>3. CASE Kept(t)
  <2>1. PICK h \in checkpoints :
          /\ handoff[h].task = t
          /\ handoff[h].from = audit[t].prior /\ handoff[h].to = audit[t].owner
          /\ handoff[h].generation + 1 = audit[t].generation
    BY <1>3 DEF Kept, TransferCheckpointed
  <2> QED
    BY <1>1, <1>3, <2>1 DEF Kept, SameRequest, TypeOK
<1>4. CASE HandedOver(t)
  <2>1. PICK h \in HandoffIds :
          /\ handoff[h].stage = "recorded" /\ handoff[h].task = t
          /\ audit'[t] = [action |-> "handoff", owner |-> handoff[h].to,
                          prior |-> handoff[h].from, generation |-> handoff[h].generation + 1]
    BY <1>4 DEF HandedOver
  <2>2. h \in checkpoints
    BY <2>1 DEF CheckpointFirst
  <2> QED
    BY <1>1, <2>1, <2>2 DEF SameRequest
<1>5. CASE Ended(t) \/ Prolonged(t) \/ Begun(t)
  BY <1>5 DEF Ended, Prolonged, Begun
<1>6. CASE TakenOver(t)
  <2>1. audit'[t].action = "takeover"
    BY <1>6 DEF TakenOver
  <2> QED
    BY <2>1
<1> QED
  BY <1>2, <1>3, <1>4, <1>5, <1>6 DEF RowChange

(* A handoff is in the audit only after its checkpoint is in the ledger,    *)
(* whatever requests are repeated, refused or overtaken.                    *)
THEOREM TransfersCheckpointed == Spec => []TransferCheckpointed
<1>1. Init => CheckpointFirst /\ TransferCheckpointed
  BY DEF Init, CheckpointFirst, TransferCheckpointed, Idle
<1>2. TypeOK /\ HookTimesPast /\ CheckpointFirst /\ TransferCheckpointed /\ [Next]_vars
        => (CheckpointFirst /\ TransferCheckpointed)'
  BY CheckpointFirstStep, CheckpointStep
<1> QED
  BY <1>1, <1>2, TypeCorrect, PTL DEF Spec

----------------------------------------------------------------------------
(* The preflight of a merge.                                                *)

(* What is pinned are commits, whatever the branches are at by now.         *)
PinsTyped ==
  /\ ref \in [Branches -> Commits]
  /\ asked.at \in {"target", "status", "analyse"} => asked.source \in Commits
  /\ asked.at \in {"status", "analyse"} => asked.target \in Commits

LEMMA PinsStep == PinsTyped /\ [PreflightNext]_preflightVars => PinsTyped'
<1> SUFFICES ASSUME PinsTyped, [PreflightNext]_preflightVars PROVE PinsTyped'
  OBVIOUS
<1> USE DEF PinsTyped
<1>1. NotAsked.at = "idle" /\ ref["source"] \in Commits /\ ref["target"] \in Commits
  BY DEF NotAsked, Branches
<1>2. CASE PinSource
  <2>1. asked'.at = "target" /\ asked'.source = ref["source"] /\ ref' = ref
    BY <1>2 DEF PinSource, NotAsked
  <2> QED
    BY <1>1, <2>1
<1>3. CASE PinTarget
  <2>1. asked.at = "target" /\ asked' = [asked EXCEPT !.at = "status", !.target = ref["target"]]
    BY <1>3 DEF PinTarget
  <2> QED
    BY <1>1, <1>3, <2>1 DEF PinTarget
<1>4. CASE ReadStatus
  BY <1>4 DEF ReadStatus
<1>5. CASE Report \/ FailPreflight
  BY <1>1, <1>5 DEF Report, FailPreflight
<1>6. CASE MoveBranch
  BY <1>6 DEF MoveBranch
<1>7. CASE EditFiles \/ UNCHANGED preflightVars
  BY <1>7 DEF EditFiles, preflightVars
<1> QED
  BY <1>2, <1>3, <1>4, <1>5, <1>6, <1>7 DEF PreflightNext

(* A report says "ready" of two commits with a base, no blocker and no      *)
(* conflict that it could name.                                             *)
LEMMA ReportStep ==
  PinsTyped /\ ReadyMerges /\ [PreflightNext]_preflightVars => ReadyMerges'
<1> SUFFICES ASSUME PinsTyped, ReadyMerges, [PreflightNext]_preflightVars PROVE ReadyMerges'
  OBVIOUS
<1>1. CASE Report
  <2>1. <<asked.source, asked.target>> \in Commits \X Commits
    BY <1>1 DEF PinsTyped, Report
  <2>2. /\ checked'.source = asked.source /\ checked'.target = asked.target
        /\ checked'.ready => Blockers(Analysed) = {} /\ Conflicts(Analysed) = {}
    BY <1>1 DEF Report
  <2>3. Blockers(Analysed) = {} =>
          Analysed.base /\ ~Analysed.whitespace /\ Analysed.exit \in {0, 1}
    BY DEF Blockers
  <2>4. Analysed.exit = 1 /\ Conflicts(Analysed) = {} => Unnamed(Analysed)
    BY DEF Conflicts, Unnamed
  <2> QED
    BY <2>1, <2>2, <2>3, <2>4 DEF ReadyMerges, Analysed
<1>2. CASE UNCHANGED checked
  BY <1>2 DEF ReadyMerges
<1> QED
  BY <1>1, <1>2 DEF PreflightNext, preflightVars, PinSource, PinTarget, ReadStatus, FailPreflight,
     MoveBranch, EditFiles

(* A preflight says "ready" only of two commits that git merges without a   *)
(* conflict, one it cannot name excepted, whatever the branches are moved   *)
(* to while git is asked and whatever git says of any two commits.          *)
THEOREM ReadyIsMergeable == PreflightSpec => []ReadyMerges
<1>1. PreflightInit => PinsTyped /\ ReadyMerges
  BY DEF PreflightInit, PinsTyped, ReadyMerges, NotAsked
<1> QED
  BY <1>1, PinsStep, ReportStep, PTL DEF PreflightSpec
============================================================================
