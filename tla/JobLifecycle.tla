---------------------------- MODULE JobLifecycle ----------------------------
(***************************************************************************)
(* The life of the consolidation jobs of one project, from enqueued to     *)
(* completed or dead-lettered: the lease half of                           *)
(* crates/brain-store/src/jobs.rs and ConsolidationWorker::run_once of     *)
(* crates/brain-service/src/consolidation.rs.                              *)
(*                                                                         *)
(* A worker is a service process, named after its pid.  It runs one job of *)
(* the project at a time; a process started after a crash, or beside       *)
(* another one, is another worker.  Each statement on the ledger is one    *)
(* step; other workers, the clock, a crash and the operator's              *)
(* `brain jobs --retry-dead` come in between.                              *)
(*                                                                         *)
(* Times are offsets from the present, and a tick of the clock moves them  *)
(* all: available_at and lease_until are positive in the future.  Jobs are *)
(* numbered as they are created.  A provider's answer gives a content to   *)
(* each accepted memory of the batch, by its index in the batch, which     *)
(* (with the job) determines the memory's identifiers.                     *)
(***************************************************************************)
EXTENDS Integers, FiniteSets

CONSTANTS
  Workers,
  Jobs,           \* job numbers, in the order of their creation
  Indices,        \* positions in a proposed batch
  Contents,       \* contents of a memory
  NoWorker,       \* lease_owner IS NULL
  LeaseDuration,  \* the worker's lease_duration, in ticks
  MaxAttempts,    \* attempts after which a failure is final (5)
  Horizon,        \* bound: older times are not told apart
  MaxMishaps,     \* bound: crashes, abandoned runs and overrun leases
  MaxRearms       \* bound: uses of `brain jobs --retry-dead`

ASSUME JobsAssumption == Jobs \subseteq Nat /\ Indices \subseteq Nat
ASSUME WorkersAssumption == NoWorker \notin Workers
ASSUME DurationAssumption == LeaseDuration \in Nat \ {0} /\ MaxAttempts \in Nat \ {0}
ASSUME BoundsAssumption == Horizon \in Nat /\ MaxMishaps \in Nat /\ MaxRearms \in Nat

VARIABLES
  status,     \* "absent" before the row exists
  attempt,
  available,  \* available_at_ns
  owner,      \* lease_owner
  expires,    \* lease_until_ns
  error,      \* last_error IS NOT NULL
  memories,   \* memory versions written for the jobs
  run,        \* what each worker is in the middle of
  mishaps,    \* bound: mishaps so far
  rearms,     \* bound: re-arms so far
  failures,   \* history: settled failures of each job since it was last armed
  losses      \* history: expired leases taken over since then

job == <<status, attempt, available, owner, expires, error, failures, losses>>
vars == <<job, memories, run, mishaps, rearms>>

----------------------------------------------------------------------------
(* Types.                                                                  *)

Answers == UNION {[accepted -> Contents] : accepted \in SUBSET Indices}

Idle == [stage |-> "idle"]
Dead == [stage |-> "dead"]

(* A run: the job, the offset of the time it was leased at, and             *)
(*   - waiting for the provider ("asking");                                 *)
(*   - the answer and the memories of it still to append ("appending");     *)
(*   - an error to record ("failing"), and the attempt then read            *)
(*     ("recording").                                                       *)
Run ==
  {Idle, Dead}
  \cup [stage : {"asking", "failing"}, job : Jobs, start : Int]
  \cup [stage : {"appending"}, job : Jobs, start : Int, answer : Answers, left : SUBSET Indices]
  \cup [stage : {"recording"}, job : Jobs, start : Int, seen : Nat]

Memory == [job : Jobs, index : Indices, content : Contents]

TypeOK ==
  /\ status \in [Jobs -> {"absent", "pending", "leased", "completed", "dead_letter"}]
  /\ attempt \in [Jobs -> Nat]
  /\ available \in [Jobs -> Int] /\ expires \in [Jobs -> Int]
  /\ owner \in [Jobs -> Workers \cup {NoWorker}]
  /\ error \in [Jobs -> BOOLEAN]
  /\ memories \subseteq Memory
  /\ run \in [Workers -> Run]
  /\ mishaps \in Nat /\ rearms \in Nat
  /\ failures \in [Jobs -> Nat] /\ losses \in [Jobs -> Nat]
  /\ \A j \in Jobs : owner[j] # NoWorker <=> status[j] = "leased"

----------------------------------------------------------------------------
(* The job store.                                                          *)

(* enqueue_consolidation_job                                                *)
Enqueue(j) ==
  /\ status[j] = "absent"
  /\ \A k \in Jobs : k < j => status[k] # "absent"
  /\ status' = [status EXCEPT ![j] = "pending"]
  /\ available' = [available EXCEPT ![j] = 0]
  /\ UNCHANGED <<attempt, owner, expires, error, failures, losses,
                 memories, run, mishaps, rearms>>

\* Mutant: a lease is up for grabs while it is live.
EligibleWhileLeased(j) ==
  \/ status[j] = "pending" /\ available[j] <= 0
  \/ status[j] = "leased"

\* Mutant: an expired lease is not reclaimed.
EligiblePending(j) == status[j] = "pending" /\ available[j] <= 0

Eligible(j) ==
  \/ status[j] = "pending" /\ available[j] <= 0
  \/ status[j] = "leased" /\ expires[j] <= 0

(* ORDER BY available_at_ns, created_at_ns LIMIT 1                          *)
NextJob(j) ==
  /\ Eligible(j)
  /\ \A k \in Jobs : Eligible(k) =>
       available[j] < available[k] \/ (available[j] = available[k] /\ j <= k)

(* lease_consolidation_job, the first step of run_once.                     *)
LeaseJob(w, j) ==
  /\ run[w] = Idle
  /\ NextJob(j)
  /\ status' = [status EXCEPT ![j] = "leased"]
  /\ attempt' = [attempt EXCEPT ![j] = @ + 1]
  /\ owner' = [owner EXCEPT ![j] = w]
  /\ expires' = [expires EXCEPT ![j] = LeaseDuration]
  /\ error' = [error EXCEPT ![j] = FALSE]
  /\ losses' = IF status[j] = "leased" THEN [losses EXCEPT ![j] = @ + 1] ELSE losses
  /\ run' = [run EXCEPT ![w] = [stage |-> "asking", job |-> j, start |-> 0]]
  /\ UNCHANGED <<available, failures, memories, mishaps, rearms>>

Owns(w, j) == owner[j] = w /\ status[j] = "leased"

(* The row after its lease is given up: the columns every release writes.   *)
Settle(j, s, withError) ==
  /\ status' = [status EXCEPT ![j] = s]
  /\ owner' = [owner EXCEPT ![j] = NoWorker]
  /\ expires' = [expires EXCEPT ![j] = 0]
  /\ error' = [error EXCEPT ![j] = withError]

GoesIdle(w) == run' = [run EXCEPT ![w] = Idle]

(* Nothing was updated: the lease is not this worker's any more.            *)
FindsNothing(w) == GoesIdle(w) /\ UNCHANGED job

(* retry_dead_letter_jobs                                                   *)
RetryDeadLetterJobs ==
  LET dead == {j \in Jobs : status[j] = "dead_letter"} IN
  /\ dead # {} /\ rearms < MaxRearms
  /\ status' = [j \in Jobs |-> IF j \in dead THEN "pending" ELSE status[j]]
  /\ attempt' = [j \in Jobs |-> IF j \in dead THEN 0 ELSE attempt[j]]
  /\ available' = [j \in Jobs |-> IF j \in dead THEN 0 ELSE available[j]]
  /\ failures' = [j \in Jobs |-> IF j \in dead THEN 0 ELSE failures[j]]
  /\ losses' = [j \in Jobs |-> IF j \in dead THEN 0 ELSE losses[j]]
  /\ rearms' = rearms + 1
  /\ UNCHANGED <<owner, expires, error, memories, run, mishaps>>

----------------------------------------------------------------------------
(* A run.                                                                  *)

Asking(w) == run[w].stage = "asking"

(* The provider answers with a batch that validates, memory by memory.      *)
ProviderAnswers(w, answer) ==
  /\ Asking(w)
  /\ run' = [run EXCEPT ![w] = [stage |-> "appending", job |-> run[w].job,
                                start |-> run[w].start, answer |-> answer,
                                left |-> DOMAIN answer]]
  /\ UNCHANGED <<job, memories, mishaps, rearms>>

Fails(w) ==
  run' = [run EXCEPT ![w] = [stage |-> "failing", job |-> run[w].job, start |-> run[w].start]]

(* It answers with something else, or fails in a way that is not an outage. *)
ProviderErrs(w) ==
  /\ Asking(w)
  /\ Fails(w)
  /\ UNCHANGED <<job, memories, mishaps, rearms>>

\* Mutant: the attempt stays charged.
DeferKeepingAttempt(w) ==
  LET j == run[w].job IN
  /\ Asking(w)
  /\ GoesIdle(w)
  /\ \/ /\ Owns(w, j)
        /\ Settle(j, "pending", TRUE)
        /\ available' = [available EXCEPT ![j] = run[w].start + LeaseDuration]
        /\ UNCHANGED <<attempt, failures, losses>>
     \/ ~Owns(w, j) /\ UNCHANGED job
  /\ UNCHANGED <<memories, mishaps, rearms>>

(* The provider is unavailable: defer_consolidation_job.                    *)
ProviderUnavailable(w) ==
  LET j == run[w].job IN
  /\ Asking(w)
  /\ \/ /\ Owns(w, j)
        /\ Settle(j, "pending", TRUE)
        /\ attempt' = [attempt EXCEPT ![j] = IF @ > 0 THEN @ - 1 ELSE 0]
        /\ available' = [available EXCEPT ![j] = run[w].start + LeaseDuration]
        /\ GoesIdle(w)
        /\ UNCHANGED <<failures, losses>>
     \/ ~Owns(w, j) /\ FindsNothing(w)
  /\ UNCHANGED <<memories, mishaps, rearms>>

Stored(j, i) == {m \in memories : m.job = j /\ m.index = i}

NextToAppend(w, i) ==
  /\ run[w].stage = "appending"
  /\ i \in run[w].left /\ \A k \in run[w].left : i <= k

(* append_memory: a version that is already there with the same content is  *)
(* a replay; with another content it is a collision.                        *)
AppendMemory(w, i) ==
  LET j == run[w].job
      m == [job |-> j, index |-> i, content |-> run[w].answer[i]]
  IN
  /\ NextToAppend(w, i)
  /\ \/ /\ Stored(j, i) \subseteq {m}
        /\ memories' = memories \cup {m}
        /\ run' = [run EXCEPT ![w].left = @ \ {i}]
     \/ /\ ~ Stored(j, i) \subseteq {m}
        /\ Fails(w) /\ UNCHANGED memories
  /\ UNCHANGED <<job, mishaps, rearms>>

(* append_memory fails for another reason (evidence, supersession, a busy   *)
(* database).                                                               *)
AppendErrs(w) ==
  /\ run[w].stage = "appending" /\ run[w].left # {}
  /\ Fails(w)
  /\ UNCHANGED <<job, memories, mishaps, rearms>>

\* Mutant: the job is acknowledged before its memories are written.
CompleteEarly(w) ==
  LET j == run[w].job IN
  /\ run[w].stage = "appending"
  /\ GoesIdle(w)
  /\ \/ Owns(w, j) /\ Settle(j, "completed", FALSE)
        /\ UNCHANGED <<attempt, available, failures, losses>>
     \/ ~Owns(w, j) /\ UNCHANGED job
  /\ UNCHANGED <<memories, mishaps, rearms>>

(* complete_consolidation_job: the expiry of the lease is not looked at.    *)
Complete(w) ==
  LET j == run[w].job IN
  /\ run[w].stage = "appending" /\ run[w].left = {}
  /\ \/ /\ Owns(w, j)
        /\ Settle(j, "completed", FALSE)
        /\ GoesIdle(w)
        /\ UNCHANGED <<attempt, available, failures, losses>>
     \/ ~Owns(w, j) /\ FindsNothing(w)
  /\ UNCHANGED <<memories, mishaps, rearms>>

(* fail_consolidation_job reads the job ...                                 *)
FailReads(w) ==
  LET j == run[w].job IN
  /\ run[w].stage = "failing"
  /\ run' = [run EXCEPT ![w] =
       IF Owns(w, j)
         THEN [stage |-> "recording", job |-> j, start |-> run[w].start, seen |-> attempt[j]]
         ELSE Idle]
  /\ UNCHANGED <<job, memories, mishaps, rearms>>

\* Mutant: a job is given up one attempt early.
FailRecordsEarly(w) ==
  LET j == run[w].job
      final == run[w].seen + 1 >= MaxAttempts
  IN
  /\ run[w].stage = "recording"
  /\ owner[j] = w
  /\ Settle(j, IF final THEN "dead_letter" ELSE "pending", TRUE)
  /\ available' = [available EXCEPT ![j] = run[w].start + (IF final THEN 0 ELSE 2 ^ run[w].seen)]
  /\ failures' = [failures EXCEPT ![j] = @ + 1]
  /\ GoesIdle(w)
  /\ UNCHANGED <<attempt, losses, memories, mishaps, rearms>>

(* ... and then updates it where this worker still owns it.                 *)
FailRecords(w) ==
  LET j == run[w].job
      final == run[w].seen >= MaxAttempts
  IN
  /\ run[w].stage = "recording"
  /\ \/ /\ owner[j] = w
        /\ Settle(j, IF final THEN "dead_letter" ELSE "pending", TRUE)
        /\ available' = [available EXCEPT ![j] =
             run[w].start + (IF final THEN 0 ELSE 2 ^ run[w].seen)]
        /\ failures' = [failures EXCEPT ![j] = @ + 1]
        /\ GoesIdle(w)
        /\ UNCHANGED <<attempt, losses>>
     \/ owner[j] # w /\ FindsNothing(w)
  /\ UNCHANGED <<memories, mishaps, rearms>>

----------------------------------------------------------------------------
(* Mishaps and the clock.                                                  *)

Running(w) == run[w] \notin {Idle, Dead}

Mishap == mishaps < MaxMishaps /\ mishaps' = mishaps + 1

(* A statement of the run fails and the error leaves run_once: the job      *)
(* stays leased until its lease expires.                                    *)
Abandon(w) ==
  /\ Running(w)
  /\ Mishap
  /\ GoesIdle(w)
  /\ UNCHANGED <<job, memories, rearms>>

Crash(w) ==
  /\ run[w] # Dead
  /\ \E other \in Workers \ {w} : run[other] # Dead
  /\ Mishap
  /\ run' = [run EXCEPT ![w] = Dead]
  /\ UNCHANGED <<job, memories, rearms>>

Older(t) == IF t > -Horizon THEN t - 1 ELSE t

(* A lease runs out although its worker is still on the job.                *)
Overrun == \E j \in Jobs : expires[j] = 1 /\ owner[j] # NoWorker
                             /\ Running(owner[j]) /\ run[owner[j]].job = j

Tick ==
  /\ IF Overrun THEN Mishap ELSE UNCHANGED mishaps
  /\ available' = [j \in Jobs |-> Older(available[j])]
  /\ expires' = [j \in Jobs |-> IF expires[j] > 0 THEN expires[j] - 1 ELSE 0]
  /\ run' = [w \in Workers |->
       IF Running(w) THEN [run[w] EXCEPT !.start = Older(@)] ELSE run[w]]
  /\ UNCHANGED <<status, attempt, owner, error, failures, losses, memories, rearms>>

----------------------------------------------------------------------------
Init ==
  /\ status = [j \in Jobs |-> "absent"]
  /\ attempt = [j \in Jobs |-> 0]
  /\ available = [j \in Jobs |-> 0] /\ expires = [j \in Jobs |-> 0]
  /\ owner = [j \in Jobs |-> NoWorker]
  /\ error = [j \in Jobs |-> FALSE]
  /\ memories = {}
  /\ run = [w \in Workers |-> Idle]
  /\ mishaps = 0 /\ rearms = 0
  /\ failures = [j \in Jobs |-> 0] /\ losses = [j \in Jobs |-> 0]

Responds(w) == ProviderErrs(w) \/ \E answer \in Answers : ProviderAnswers(w, answer)

Proceeds(w) ==
  \/ \E j \in Jobs : LeaseJob(w, j)
  \/ \E i \in Indices : AppendMemory(w, i)
  \/ Complete(w) \/ FailReads(w) \/ FailRecords(w)

Next ==
  \/ \E j \in Jobs : Enqueue(j)
  \/ \E w \in Workers :
       \/ Responds(w) \/ Proceeds(w)
       \/ ProviderUnavailable(w) \/ AppendErrs(w) \/ Abandon(w) \/ Crash(w)
  \/ RetryDeadLetterJobs
  \/ Tick

Spec == Init /\ [][Next]_vars

(* A worker that lives takes its next step: the drain loop ticks forever,   *)
(* and every call has a timeout.  SF on Responds assumes that no outage     *)
(* lasts forever; it is not the code's to give.                             *)
FairSpec ==
  /\ Spec
  /\ WF_vars(Tick)
  /\ \A w \in Workers : WF_vars(Proceeds(w)) /\ SF_vars(Responds(w))

----------------------------------------------------------------------------
(* Properties.                                                              *)

(* Every attempt charged to a job is accounted for by a recorded failure, a *)
(* lease that was lost, or the run in progress: an outage, however often it *)
(* defers the job, and a stale worker charge nothing.                       *)
AttemptAccounting ==
  \A j \in Jobs :
    attempt[j] = failures[j] + losses[j]
                   + (IF status[j] \in {"leased", "completed"} THEN 1 ELSE 0)

(* A job is given up only after MaxAttempts runs that failed or were lost.  *)
DeadLetterEarned ==
  \A j \in Jobs :
    status[j] = "dead_letter" => failures[j] + losses[j] >= MaxAttempts

(* While a worker's lease is live, only that worker ends it: a stale run    *)
(* whose job was taken over never completes, fails or defers it under the   *)
(* new owner.                                                               *)
LiveLeaseHonoured ==
  [][\A j \in Jobs :
       status[j] = "leased" /\ expires[j] > 0 /\ owner'[j] # owner[j]
       => run[owner[j]].stage # "idle" /\ run[owner[j]] # run'[owner[j]]
          /\ run[owner[j]].job = j]_vars

(* A job is acknowledged only when the ledger holds every memory of the     *)
(* answer it is acknowledged for, though other workers may have written     *)
(* memories of the same job under the same identifiers.                     *)
CompletionStoresAnswer ==
  [][\A j \in Jobs :
       status[j] # "completed" /\ status'[j] = "completed" =>
       \E w \in Workers :
         /\ run[w].stage = "appending" /\ run[w].job = j
         /\ \A i \in DOMAIN run[w].answer :
              [job |-> j, index |-> i, content |-> run[w].answer[i]] \in memories]_vars

(* A completed job is never run or reopened, whatever stale workers and     *)
(* operators do.                                                            *)
CompletedIsFinal ==
  [][\A j \in Jobs : status[j] = "completed" => status'[j] = "completed"]_vars

(* What is acknowledged is in the ledger, once and for all.                 *)
CompletionSound == CompletionStoresAnswer /\ CompletedIsFinal

(* Every enqueued job is eventually completed or given up.                  *)
EveryJobSettles ==
  \A j \in Jobs : status[j] = "pending" ~> status[j] \in {"completed", "dead_letter"}
=============================================================================
