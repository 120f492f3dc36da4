---------------------------- MODULE WriterLease ----------------------------
(***************************************************************************)
(* Task writer leases of one project: the coordination tables of           *)
(* crates/brain-coordination (lease.rs, task.rs, worktree.rs), driven by   *)
(* the three callers that reach them concurrently, each on a SQLite        *)
(* connection of its own:                                                  *)
(*                                                                         *)
(*   - agent hooks served by the pipe (hook_handler.rs,                    *)
(*     manage_lease_lifecycle), one blocking task per request;             *)
(*   - the query API behind the CLI and the MCP server (query_api.rs);     *)
(*   - `brain task close` (worktree.rs, TaskWorktreeManager::close).       *)
(*                                                                         *)
(* Every CoordinationStore operation is one IMMEDIATE transaction and is   *)
(* one atomic step here.  What a caller does around it (read a lease, then *)
(* renew or release what it read) is several steps, and other callers run  *)
(* in between.  A hook carries the time at which the shim built its        *)
(* envelope (received_at), which is never later than the service's clock   *)
(* and may lag it.                                                         *)
(*                                                                         *)
(* Left out: acquired_at (never read by a decision), the title, path and   *)
(* branch of a task, and the UNIQUE index on worktree_id (a task created   *)
(* by TaskWorktreeManager has a worktree of its own).                      *)
(***************************************************************************)
EXTENDS Integers, FiniteSets

CONSTANTS
  Tasks,            \* task identifiers
  Sessions,         \* agent sessions (harness, native_session_id)
  HandoffIds,       \* identifiers of handoff requests
  Duration,         \* DEFAULT_LEASE_DURATION, in clock ticks
  RenewalInterval,  \* RENEWAL_INTERVAL, in clock ticks
  NoLease,          \* "no row in writer_leases"
  NoSession,        \* NULL prior_owner of an audit row
  NoEvent,          \* a task without an audit row
  MaxTime,          \* bound: last value of the clock
  MaxInflight,      \* bound: hooks being served at once
  MaxGeneration     \* bound: generations a request may name

Lease == [owner : Sessions, renewed_at : Nat, expires_at : Nat, generation : Nat]

ASSUME DurationAssumption == Duration \in Nat \ {0}
ASSUME RenewalAssumption == RenewalInterval \in Nat
ASSUME NoLeaseAssumption == NoLease \notin Lease
ASSUME NoSessionAssumption == NoSession \notin Sessions
ASSUME BoundsAssumption == /\ MaxTime \in Nat
                           /\ MaxInflight \in Nat
                           /\ MaxGeneration \in Nat

VARIABLES
  now,          \* the service's clock
  status,       \* coordination_tasks.status, "absent" before the row exists
  lease,        \* writer_leases, one row per task or NoLease
  audit,        \* coordination_events (append-only): each task's newest row
  checkpoints,  \* handoff checkpoints appended to the event ledger
  inflight,     \* hook requests being served
  handoff,      \* progress of each handoff request
  closer,       \* progress of `brain task close` on each task
  view,         \* what each session was last told about its own lease
  revoked       \* history: tasks whose live lease a close has deleted

store == <<status, lease, audit, checkpoints>>
vars == <<now, status, lease, audit, checkpoints, inflight, handoff, closer,
          view, revoked>>

----------------------------------------------------------------------------
(* Types.                                                                  *)

LeaseOrNone == Lease \cup {NoLease}

CoordinationEvent ==
  [action : {"acquire", "renew", "takeover", "release", "handoff"},
   owner : Sessions, prior : Sessions \cup {NoSession}, generation : Nat]

(* What a session remembers of a lease it was told it holds.                *)
Belief == [generation : Nat, expires_at : Nat]

HookKinds == {"SessionStart", "SessionEnd", "Activity"}

(* A hook being served: not looked at the lease yet (its kind), or about to *)
(* run the operation it chose from what it read.                            *)
Hook == [session : Sessions, task : Tasks, at : Nat, generation : Nat,
         step : {"SessionEnd", "Activity", "acquire", "renew", "release"}]

Idle == [stage |-> "idle"]

HandoffRequest ==
  [stage : {"requested", "checked", "recorded", "transferred", "replayed", "refused"},
   task : Tasks, from : Sessions, to : Sessions, generation : Nat]

Closer == {Idle} \cup [stage : {"released"}]
                \cup [stage : {"read"}, owner : Sessions, generation : Nat]

TypeOK ==
  /\ now \in Nat
  /\ status \in [Tasks -> {"absent", "active", "completed"}]
  /\ lease \in [Tasks -> LeaseOrNone]
  /\ audit \in [Tasks -> CoordinationEvent \cup {NoEvent}]
  /\ checkpoints \subseteq HandoffIds
  /\ inflight \subseteq Hook
  /\ handoff \in [HandoffIds -> {Idle} \cup HandoffRequest]
  /\ closer \in [Tasks -> Closer]
  /\ view \in [Sessions -> [Tasks -> Belief \cup {NoLease}]]
  /\ revoked \subseteq Tasks

----------------------------------------------------------------------------
(* The store's operations (lease.rs).  Each is one IMMEDIATE transaction:   *)
(* the guards of its alternatives exclude one another.                      *)

LiveAt(l, at) == l # NoLease /\ l.expires_at > at

\* Mutant: the owner is not compared.
HeldIgnoringOwner(l, s, g) == l # NoLease /\ l.generation = g

Held(l, s, g) == l # NoLease /\ l.owner = s /\ l.generation = g

MaxOf(a, b) == IF a >= b THEN a ELSE b

\* Mutant: the clock of the request is trusted.
RenewedWithoutMax(l, at) ==
  [l EXCEPT !.renewed_at = at, !.expires_at = at + Duration]

\* Mutant: a renewal adds to what is left.
RenewedCumulatively(l, at) ==
  [l EXCEPT !.renewed_at = MaxOf(at, l.renewed_at), !.expires_at = l.expires_at + Duration]

(* An owner's row after a renewal at time at.  A delayed request never      *)
(* moves renewed_at, and hence expires_at, backwards.                       *)
Renewed(l, at) ==
  [l EXCEPT !.renewed_at = MaxOf(at, l.renewed_at),
            !.expires_at = MaxOf(at, l.renewed_at) + Duration]

Granted(s, at, g) ==
  [owner |-> s, renewed_at |-> at, expires_at |-> at + Duration, generation |-> g]

(* store_lease: the upsert of the row.                                      *)
StoreLease(t, l) == lease' = [lease EXCEPT ![t] = l]

(* append_event: the audit row of the same transaction.                     *)
AppendEvent(t, action, l, prior) ==
  audit' = [audit EXCEPT ![t] =
    [action |-> action, owner |-> l.owner, prior |-> prior, generation |-> l.generation]]

(* A row that starts a tenure, as opposed to prolonging or ending one.      *)
Grant(t, action, l, prior) ==
  /\ StoreLease(t, l)
  /\ AppendEvent(t, action, l, prior)

Prolong(t, l) ==
  StoreLease(t, l) /\ AppendEvent(t, "renew", l, NoSession)

Delete(t) ==
  /\ StoreLease(t, NoLease)
  /\ AppendEvent(t, "release", lease[t], NoSession)
 

BeliefIn(l) == [generation |-> l.generation, expires_at |-> l.expires_at]

(* What session s now believes about task t.                                *)
Told(s, t, b) == view' = [view EXCEPT ![s][t] = b]

Refused(s, t) == Told(s, t, NoLease) /\ UNCHANGED <<lease, audit>>

(* acquire_lease                                                            *)
AcquireRefused(t, s, at) ==
  /\ \/ status[t] # "active"
     \/ LiveAt(lease[t], at) /\ lease[t].owner # s
  /\ Refused(s, t)

AcquireRenews(t, s, at) ==
  LET l == Renewed(lease[t], at) IN
  /\ status[t] = "active"
  /\ LiveAt(lease[t], at) /\ lease[t].owner = s
  /\ Prolong(t, l) /\ Told(s, t, BeliefIn(l))

\* Mutant: the expiry is not checked.
TakeoverOfLiveLease(t, s, at) ==
  LET l == Granted(s, at, lease[t].generation + 1) IN
  /\ status[t] = "active" /\ lease[t] # NoLease
  /\ Grant(t, "takeover", l, lease[t].owner)
  /\ Told(s, t, BeliefIn(l))

AcquireTakesOver(t, s, at) ==
  LET l == Granted(s, at, lease[t].generation + 1) IN
  /\ status[t] = "active"
  /\ lease[t] # NoLease /\ ~LiveAt(lease[t], at)
  /\ Grant(t, "takeover", l, lease[t].owner)
  /\ Told(s, t, BeliefIn(l))

AcquireFirst(t, s, at) ==
  LET l == Granted(s, at, 1) IN
  /\ status[t] = "active"
  /\ lease[t] = NoLease
  /\ Grant(t, "acquire", l, NoSession) /\ Told(s, t, BeliefIn(l))

AcquireLease(t, s, at) ==
  \/ AcquireRefused(t, s, at)
  \/ AcquireRenews(t, s, at)
  \/ AcquireTakesOver(t, s, at)
  \/ AcquireFirst(t, s, at)

(* renew_lease: neither the expiry nor the task's status is looked at.      *)
RenewLease(t, s, g, at) ==
  \/ ~Held(lease[t], s, g) /\ Refused(s, t)
  \/ LET l == Renewed(lease[t], at) IN
     /\ Held(lease[t], s, g)
     /\ Prolong(t, l) /\ Told(s, t, BeliefIn(l))

(* release_lease.  The releasing session stops writing either way.          *)
ReleaseLease(t, s, g) ==
  /\ Told(s, t, NoLease)
  /\ \/ ~Held(lease[t], s, g) /\ UNCHANGED <<lease, audit>>
     \/ /\ Held(lease[t], s, g)
        /\ Delete(t)

(* handoff_lease: the row changes owner in one step; neither the expiry nor *)
(* the task's status is looked at.                                          *)
HandoffLease(t, s, g, next, at) ==
  LET l == Granted(next, at, g + 1) IN
  /\ Held(lease[t], s, g)
  /\ Grant(t, "handoff", l, s)
  /\ view' = [[view EXCEPT ![s][t] = NoLease] EXCEPT ![next][t] = BeliefIn(l)]

----------------------------------------------------------------------------
(* Tasks.                                                                   *)

(* TaskWorktreeManager::create ending in create_task.                       *)
CreateTask(t) ==
  /\ status[t] = "absent"
  /\ status' = [status EXCEPT ![t] = "active"]
  /\ UNCHANGED <<now, lease, audit, checkpoints, inflight, handoff, closer, view, revoked>>

(* TaskWorktreeManager::close, first half: read the task and its lease.     *)
CloseRead(t) ==
  /\ status[t] # "absent" /\ closer[t] = Idle
  /\ closer' = [closer EXCEPT ![t] =
       IF lease[t] = NoLease
         THEN [stage |-> "released"]
         ELSE [stage |-> "read", owner |-> lease[t].owner,
               generation |-> lease[t].generation]]
  /\ UNCHANGED <<now, store, inflight, handoff, view, revoked>>

(* close releases what it read in the owner's name; the owner is not told.  *)
(* If the row has changed since, release_lease fails and close gives up.    *)
CloseRelease(t) ==
  LET seen == closer[t] IN
  /\ seen.stage = "read"
  /\ \/ /\ Held(lease[t], seen.owner, seen.generation)
        /\ Delete(t)
        /\ closer' = [closer EXCEPT ![t] = [stage |-> "released"]]
        /\ revoked' = IF LiveAt(lease[t], now) THEN revoked \cup {t} ELSE revoked
     \/ /\ ~Held(lease[t], seen.owner, seen.generation)
        /\ closer' = [closer EXCEPT ![t] = Idle]
        /\ UNCHANGED <<lease, audit, revoked>>
  /\ UNCHANGED <<now, status, checkpoints, inflight, handoff, view>>

(* `git status` in the worktree fails: close returns the error.             *)
CloseGitFails(t) ==
  /\ closer[t].stage = "released"
  /\ closer' = [closer EXCEPT ![t] = Idle]
  /\ UNCHANGED <<now, store, inflight, handoff, view, revoked>>

(* close_task: only an active task changes; a closed one is an error.       *)
CloseTask(t) ==
  /\ closer[t].stage = "released"
  /\ closer' = [closer EXCEPT ![t] = Idle]
  /\ status' = [status EXCEPT ![t] = "completed"]
  /\ UNCHANGED <<now, lease, audit, checkpoints, inflight, handoff, view, revoked>>

----------------------------------------------------------------------------
(* Query API: the request names the session and, except for an acquisition, *)
(* the generation it believes in, which may be stale.  A request about a    *)
(* task that was never created finds no row.                                *)

ApiAcquire(s, t) ==
  /\ AcquireLease(t, s, now)
  /\ UNCHANGED <<now, status, checkpoints, inflight, handoff, closer, revoked>>

ApiRenew(s, t, g) ==
  /\ RenewLease(t, s, g, now)
  /\ UNCHANGED <<now, status, checkpoints, inflight, handoff, closer, revoked>>

ApiRelease(s, t, g) ==
  /\ ReleaseLease(t, s, g)
  /\ UNCHANGED <<now, status, checkpoints, inflight, handoff, closer, revoked>>

(* handoff_lease of query_api.rs.  The request is the current owner's, with *)
(* the generation it believes in; a client that got no answer sends the     *)
(* same request, with the same identifier, again.                           *)
HandoffRequested(h, s, t, next, g) ==
  /\ handoff[h] = Idle /\ s # next
  /\ handoff' = [handoff EXCEPT ![h] =
       [stage |-> "requested", task |-> t, from |-> s, to |-> next, generation |-> g]]
  /\ UNCHANGED <<now, store, inflight, closer, view, revoked>>

HandoffRetried(h) ==
  /\ handoff[h].stage \in {"transferred", "replayed", "refused"}
  /\ handoff' = [handoff EXCEPT ![h].stage = "requested"]
  /\ UNCHANGED <<now, store, inflight, closer, view, revoked>>

(* "Already done": the row has the requested owner and the next generation. *)
LooksReplayed(r) == Held(lease[r.task], r.to, r.generation + 1)

\* Mutant: the checkpoint is skipped.
HandoffCheckedOnly(h) ==
  LET r == handoff[h] IN
  /\ r.stage = "requested"
  /\ handoff' = [handoff EXCEPT ![h].stage = IF LooksReplayed(r) THEN "replayed" ELSE "recorded"]
  /\ UNCHANGED <<now, store, inflight, closer, view, revoked>>

HandoffChecked(h) ==
  LET r == handoff[h] IN
  /\ r.stage = "requested"
  /\ handoff' = [handoff EXCEPT ![h].stage = IF LooksReplayed(r) THEN "replayed" ELSE "checked"]
  /\ UNCHANGED <<now, store, inflight, closer, view, revoked>>

(* The CheckpointAuthored event, idempotent by the handoff's identifier.    *)
(* Without the task's row there is no event: "handoff task does not exist". *)
HandoffRecorded(h) ==
  LET r == handoff[h] IN
  /\ r.stage = "checked"
  /\ \/ /\ status[r.task] # "absent"
        /\ checkpoints' = checkpoints \cup {h}
        /\ handoff' = [handoff EXCEPT ![h].stage = "recorded"]
     \/ /\ status[r.task] = "absent"
        /\ handoff' = [handoff EXCEPT ![h].stage = "refused"]
        /\ UNCHANGED checkpoints
  /\ UNCHANGED <<now, status, lease, audit, inflight, closer, view, revoked>>

HandoffTransferred(h) ==
  LET r == handoff[h] IN
  /\ r.stage = "recorded"
  /\ \/ /\ HandoffLease(r.task, r.from, r.generation, r.to, now)
        /\ handoff' = [handoff EXCEPT ![h].stage = "transferred"]
     \/ /\ ~Held(lease[r.task], r.from, r.generation)
        /\ Refused(r.from, r.task)
        /\ handoff' = [handoff EXCEPT ![h].stage = "refused"]
  /\ UNCHANGED <<now, status, checkpoints, inflight, closer, revoked>>

----------------------------------------------------------------------------
(* Hooks: manage_lease_lifecycle.                                           *)

(* The shim builds an envelope and the pipe accepts it.  A task that does   *)
(* not exist, or a session outside the task's worktree, gets a warning and  *)
(* nothing else happens.                                                    *)
HookReceived(s, t, kind) ==
  /\ status[t] # "absent"
  /\ Cardinality(inflight) < MaxInflight
  /\ inflight' = inflight \cup
       {[session |-> s, task |-> t, at |-> now, generation |-> 0,
         step |-> IF kind = "SessionStart" THEN "acquire" ELSE kind]}
  /\ UNCHANGED <<now, store, handoff, closer, view, revoked>>

Served(r) == inflight' = inflight \ {r}

Chooses(r, step, g) ==
  inflight' = (inflight \ {r}) \cup {[r EXCEPT !.step = step, !.generation = g]}

(* Every hook but SessionStart reads the lease in one statement and runs    *)
(* the operation it chose in another.  SessionEnd will release, in its own  *)
(* name, the generation it read; without a lease it has nothing to do.      *)
HookReadsToEnd(r) ==
  /\ r.step = "SessionEnd"
  /\ \/ /\ lease[r.task] = NoLease
        /\ Served(r) /\ Told(r.session, r.task, NoLease)
     \/ /\ lease[r.task] # NoLease
        /\ Chooses(r, "release", lease[r.task].generation) /\ UNCHANGED view
  /\ UNCHANGED <<now, store, handoff, closer, revoked>>

(* Activity renews an own live lease, at most once per RenewalInterval, and *)
(* otherwise tries to acquire.                                              *)
HookReadsToWork(r) ==
  LET l == lease[r.task]
      ownLive == LiveAt(l, r.at) /\ l.owner = r.session
      fresh == ownLive /\ l.renewed_at + RenewalInterval > r.at
  IN
  /\ r.step = "Activity"
  /\ \/ fresh /\ Served(r)
     \/ ownLive /\ ~fresh /\ Chooses(r, "renew", l.generation)
     \/ ~ownLive /\ Chooses(r, "acquire", 0)
  /\ UNCHANGED <<now, store, handoff, closer, view, revoked>>

HookActs(r) ==
  /\ \/ r.step = "acquire" /\ AcquireLease(r.task, r.session, r.at)
     \/ r.step = "renew" /\ RenewLease(r.task, r.session, r.generation, r.at)
     \/ r.step = "release" /\ ReleaseLease(r.task, r.session, r.generation)
  /\ Served(r)
  /\ UNCHANGED <<now, status, checkpoints, handoff, closer, revoked>>

(* The service dies: requests being served are lost, rows are not.          *)
ServiceCrash ==
  /\ inflight # {}
  /\ inflight' = {}
  /\ UNCHANGED <<now, store, handoff, closer, view, revoked>>

Tick ==
  /\ now < MaxTime
  /\ now' = now + 1
  /\ UNCHANGED <<store, inflight, handoff, closer, view, revoked>>

----------------------------------------------------------------------------
Init ==
  /\ now = 0
  /\ status = [t \in Tasks |-> "absent"]
  /\ lease = [t \in Tasks |-> NoLease]
  /\ audit = [t \in Tasks |-> NoEvent]
  /\ checkpoints = {} /\ inflight = {} /\ revoked = {}
  /\ handoff = [h \in HandoffIds |-> Idle]
  /\ closer = [t \in Tasks |-> Idle]
  /\ view = [s \in Sessions |-> [t \in Tasks |-> NoLease]]

TaskNext == \E t \in Tasks :
  CreateTask(t) \/ CloseRead(t) \/ CloseRelease(t) \/ CloseGitFails(t) \/ CloseTask(t)

ApiNext == \E s \in Sessions, t \in Tasks :
  \/ ApiAcquire(s, t)
  \/ \E g \in 1..MaxGeneration : ApiRenew(s, t, g) \/ ApiRelease(s, t, g)

HandoffNext == \E h \in HandoffIds :
  \/ \E s, next \in Sessions, t \in Tasks, g \in 1..MaxGeneration :
       HandoffRequested(h, s, t, next, g)
  \/ HandoffRetried(h) \/ HandoffChecked(h) \/ HandoffRecorded(h) \/ HandoffTransferred(h)

HookNext ==
  \/ \E s \in Sessions, t \in Tasks, kind \in HookKinds : HookReceived(s, t, kind)
  \/ \E r \in inflight : HookReadsToEnd(r) \/ HookReadsToWork(r) \/ HookActs(r)
  \/ ServiceCrash

Next == TaskNext \/ ApiNext \/ HandoffNext \/ HookNext \/ Tick

Spec == Init /\ [][Next]_vars

----------------------------------------------------------------------------
(* Properties.                                                              *)

(* A hook acts at the time its envelope was built, never in the future of   *)
(* the service's clock (received_at is taken before the pipe is opened).    *)
HookTimesPast == \A r \in inflight : r.at <= now

(* What a session was told is honoured until it expires: while the lease it *)
(* was told of is live, the row is still that session's, in that            *)
(* generation, and expires no earlier, whatever stale renewals, releases,   *)
(* handoffs and takeovers other callers send.  Only `brain task close`      *)
(* takes a live lease away behind its owner's back.                         *)
LiveBeliefHonoured ==
  \A s \in Sessions, t \in Tasks :
    LiveAt(view[s][t], now) /\ t \notin revoked =>
      /\ lease[t] # NoLease
      /\ lease[t].owner = s /\ lease[t].generation = view[s][t].generation
      /\ lease[t].expires_at >= view[s][t].expires_at

(* No two sessions are both told they are the live writer of a task that    *)
(* was not closed under one of them: "A second live writer for a worktree   *)
(* is refused" (docs/operations/concurrent-agent-workflow.md).              *)
ExclusiveWriter ==
  \A t \in Tasks \ revoked : \A s1, s2 \in Sessions :
    LiveAt(view[s1][t], now) /\ LiveAt(view[s2][t], now) => s1 = s2

(* The same without the exemption: what the document promises of every      *)
(* task.  close releases a live lease before it knows that it can close.    *)
OneLiveWriter ==
  \A t \in Tasks : \A s1, s2 \in Sessions :
    LiveAt(view[s1][t], now) /\ LiveAt(view[s2][t], now) => s1 = s2

(* A lease never outlives its last renewal by more than the duration, nor   *)
(* was that renewal in the future: a session that dies, or a hook served    *)
(* after its session ended, blocks the task for one duration at most.       *)
BoundedTenure ==
  \A t \in Tasks : lease[t] # NoLease =>
    /\ lease[t].renewed_at <= now
    /\ lease[t].expires_at = lease[t].renewed_at + Duration

(* A handoff is in the audit only after its checkpoint is in the ledger:    *)
(* the receiving agent always finds the summary it takes over from.         *)
TransferCheckpointed ==
  \A t \in Tasks : audit[t] # NoEvent /\ audit[t].action = "handoff" =>
    \E h \in checkpoints :
      /\ handoff[h].task = t
      /\ handoff[h].from = audit[t].prior /\ handoff[h].to = audit[t].owner
      /\ handoff[h].generation + 1 = audit[t].generation

(* A delayed or repeated request never moves an expiry backwards within a   *)
(* tenure.                                                                  *)
NeverShortens(t) ==
  /\ lease[t] # NoLease /\ lease'[t] # NoLease
  /\ lease'[t].owner = lease[t].owner /\ lease'[t].generation = lease[t].generation
  => lease'[t].expires_at >= lease[t].expires_at

(* Ownership passes from one session to another only with the next          *)
(* generation and an audit row naming both owners.                          *)
TransferAudited(t) ==
  lease[t] # NoLease /\ lease'[t] # NoLease /\ lease'[t].owner # lease[t].owner
    => /\ lease'[t].generation = lease[t].generation + 1
       /\ audit'[t].action \in {"takeover", "handoff"}
       /\ audit'[t].owner = lease'[t].owner /\ audit'[t].prior = lease[t].owner
       /\ audit'[t].generation = lease'[t].generation

(* Once a task is closed and has no lease, it never has one again: a hook   *)
(* or a request that was on its way when the task was closed is refused.    *)
StaysUnleased(t) == status[t] = "completed" /\ lease[t] = NoLease => lease'[t] = NoLease

(* What no step of a hook, a request or a command does to a lease, however  *)
(* late it comes.                                                           *)
LeaseStepsSound ==
  [][\A t \in Tasks : NeverShortens(t) /\ TransferAudited(t) /\ StaysUnleased(t)]_vars
=============================================================================
