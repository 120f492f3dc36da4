------------------------- MODULE JobLifecycleProofs -------------------------
(***************************************************************************)
(* For every number of workers, jobs, attempts and lease durations: the    *)
(* types are respected, attempts are accounted for, jobs are given up only *)
(* after as many runs as they are due, completed jobs stay completed and   *)
(* stand for a stored answer, and a live lease is ended by its owner only. *)
(*                                                                         *)
(* The strengthening DeadLetterEarned needs is SeenFresh: a worker that    *)
(* read a job to record a failure and still owns it read the attempt it    *)
(* has now, because only a lease by another worker could have changed it.  *)
(***************************************************************************)
EXTENDS JobLifecycle, TLAPS

SeenFresh ==
  \A w \in Workers :
    run[w].stage = "recording" /\ owner[run[w].job] = w => run[w].seen = attempt[run[w].job]

IInv == TypeOK /\ AttemptAccounting /\ SeenFresh /\ DeadLetterEarned

LEMMA RunTyped ==
  ASSUME TypeOK, NEW w \in Workers,
         run[w].stage \in {"asking", "failing", "appending", "recording"}
  PROVE  run[w].job \in Jobs /\ run[w].start \in Int
  BY DEF TypeOK, Run, Idle, Dead

LEMMA IdleTyped == Idle \in Run /\ Idle.stage = "idle" /\ Dead \in Run /\ Dead.stage = "dead"
  BY DEF Idle, Dead, Run

(* A step that leaves the jobs alone, and gives a worker a state that is    *)
(* not about to record a failure.                                           *)
LEMMA RunStepKeeps ==
  ASSUME IInv, NEW w \in Workers, NEW r \in Run, r.stage # "recording",
         run' = [run EXCEPT ![w] = r], UNCHANGED job,
         memories' \subseteq Memory, mishaps' \in Nat, rearms' \in Nat
  PROVE  IInv'
<1>1. TypeOK'
  BY DEF IInv, TypeOK, job
<1>2. AttemptAccounting' /\ DeadLetterEarned'
  BY DEF IInv, AttemptAccounting, DeadLetterEarned, job
<1>3. SeenFresh'
  BY DEF IInv, TypeOK, SeenFresh, job
<1> QED BY <1>1, <1>2, <1>3 DEF IInv

LEMMA EnqueueKeeps ==
  ASSUME IInv, NEW j \in Jobs, Enqueue(j)
  PROVE  IInv'
<1>1. TypeOK'
  BY DEF IInv, TypeOK, Enqueue
<1>2. AttemptAccounting'
  BY DEF IInv, TypeOK, AttemptAccounting, Enqueue
<1>3. DeadLetterEarned' /\ SeenFresh'
  BY DEF IInv, TypeOK, DeadLetterEarned, SeenFresh, Enqueue
<1> QED BY <1>1, <1>2, <1>3 DEF IInv

(* A lease charges one attempt, and one loss when it takes a job over.      *)
LEMMA LeaseKeeps ==
  ASSUME IInv, NEW w \in Workers, NEW j \in Jobs, LeaseJob(w, j)
  PROVE  IInv'
<1> DEFINE r == [stage |-> "asking", job |-> j, start |-> 0]
<1>1. r \in Run /\ r.stage = "asking"
  BY DEF Run
<1>2. run' = [run EXCEPT ![w] = r]
  BY DEF LeaseJob
<1>3. status[j] \in {"pending", "leased"} /\ run[w] = Idle /\ LeaseDuration \in Int
  BY DurationAssumption DEF LeaseJob, NextJob, Eligible
<1>4. TypeOK'
  BY <1>1, <1>2, <1>3, WorkersAssumption DEF IInv, TypeOK, LeaseJob
<1>5. AttemptAccounting'
  <2> SUFFICES ASSUME NEW k \in Jobs
               PROVE  attempt'[k] = failures'[k] + losses'[k]
                        + (IF status'[k] \in {"leased", "completed"} THEN 1 ELSE 0)
    BY DEF AttemptAccounting
  <2>1. attempt[k] \in Nat /\ failures[k] \in Nat /\ losses[k] \in Nat
    BY DEF IInv, TypeOK
  <2>2. attempt[k] = failures[k] + losses[k]
                       + (IF status[k] \in {"leased", "completed"} THEN 1 ELSE 0)
    BY DEF IInv, AttemptAccounting
  <2>3. CASE k = j /\ status[j] = "leased"
    BY <2>1, <2>2, <2>3 DEF IInv, TypeOK, LeaseJob
  <2>4. CASE k = j /\ status[j] = "pending"
    BY <2>1, <2>2, <2>4 DEF IInv, TypeOK, LeaseJob
  <2>5. CASE k # j
    BY <2>1, <2>2, <2>5 DEF IInv, TypeOK, LeaseJob
  <2> QED BY <1>3, <2>3, <2>4, <2>5
<1>6. SeenFresh'
  <2> SUFFICES ASSUME NEW v \in Workers, run'[v].stage = "recording",
                      owner'[run'[v].job] = v
               PROVE  run'[v].seen = attempt'[run'[v].job]
    BY DEF SeenFresh
  <2>1. v # w /\ run'[v] = run[v]
    BY <1>1, <1>2 DEF IInv, TypeOK
  <2>2. run[v].job \in Jobs
    BY <2>1, RunTyped DEF IInv
  <2>3. run[v].job # j
    BY <2>1, <2>2 DEF IInv, TypeOK, LeaseJob
  <2>4. owner[run[v].job] = v /\ attempt'[run[v].job] = attempt[run[v].job]
    BY <2>1, <2>2, <2>3 DEF IInv, TypeOK, LeaseJob
  <2> QED BY <2>1, <2>4 DEF IInv, SeenFresh
<1>7. DeadLetterEarned'
  <2> SUFFICES ASSUME NEW k \in Jobs, status'[k] = "dead_letter"
               PROVE  failures'[k] + losses'[k] >= MaxAttempts
    BY DEF DeadLetterEarned
  <2>1. k # j /\ status[k] = "dead_letter"
    BY DEF IInv, TypeOK, LeaseJob
  <2>2. failures'[k] = failures[k] /\ losses'[k] = losses[k]
    BY <2>1 DEF IInv, TypeOK, LeaseJob
  <2> QED BY <2>1, <2>2 DEF IInv, DeadLetterEarned
<1> QED BY <1>4, <1>5, <1>6, <1>7 DEF IInv

(* An owner that gives up its lease: what is left of the attempt is a       *)
(* failure, nothing (a deferral), or the completed run itself.              *)
LEMMA SettleKeeps ==
  ASSUME IInv, NEW w \in Workers, NEW j \in Jobs, NEW s, NEW e \in BOOLEAN,
         owner[j] = w, Settle(j, s, e), GoesIdle(w),
         UNCHANGED <<losses, memories, mishaps, rearms>>,
         available' \in [Jobs -> Int],
         \/ /\ s = "completed" /\ UNCHANGED <<attempt, failures>>
         \/ /\ s = "pending" /\ UNCHANGED failures
            /\ attempt' = [attempt EXCEPT ![j] = IF @ > 0 THEN @ - 1 ELSE 0]
         \/ /\ \/ s = "pending"
               \/ s = "dead_letter" /\ attempt[j] >= MaxAttempts
            /\ failures' = [failures EXCEPT ![j] = @ + 1] /\ UNCHANGED attempt
  PROVE  IInv'
<1>1. status[j] = "leased" /\ w # NoWorker
  BY WorkersAssumption DEF IInv, TypeOK
<1>2. run' = [run EXCEPT ![w] = Idle]
  BY DEF GoesIdle
<1>3. s \in {"pending", "completed", "dead_letter"}
  OBVIOUS
<1>4. /\ attempt[j] \in Nat /\ failures[j] \in Nat /\ losses[j] \in Nat
      /\ attempt[j] = failures[j] + losses[j] + 1
  BY <1>1 DEF IInv, TypeOK, AttemptAccounting
<1>5. attempt' \in [Jobs -> Nat] /\ failures' \in [Jobs -> Nat]
  BY <1>4 DEF IInv, TypeOK
<1>6. /\ status' = [status EXCEPT ![j] = s] /\ owner' = [owner EXCEPT ![j] = NoWorker]
      /\ expires' = [expires EXCEPT ![j] = 0] /\ error' = [error EXCEPT ![j] = e]
  BY DEF Settle
<1>7. TypeOK'
  BY <1>2, <1>3, <1>5, <1>6, IdleTyped DEF IInv, TypeOK
<1>8. AttemptAccounting'
  <2> SUFFICES ASSUME NEW k \in Jobs
               PROVE  attempt'[k] = failures'[k] + losses'[k]
                        + (IF status'[k] \in {"leased", "completed"} THEN 1 ELSE 0)
    BY DEF AttemptAccounting
  <2>1. CASE k # j
    BY <1>6, <2>1 DEF IInv, TypeOK, AttemptAccounting
  <2>2. CASE k = j
    <3>1. status'[k] = s
      BY <1>6, <2>2 DEF IInv, TypeOK
    <3>2. CASE s = "completed" /\ UNCHANGED <<attempt, failures>>
      BY <1>4, <2>2, <3>1, <3>2
    <3>3. CASE /\ s = "pending" /\ UNCHANGED failures
               /\ attempt' = [attempt EXCEPT ![j] = IF @ > 0 THEN @ - 1 ELSE 0]
      BY <1>4, <2>2, <3>1, <3>3 DEF IInv, TypeOK
    <3>4. CASE /\ s \in {"pending", "dead_letter"}
               /\ failures' = [failures EXCEPT ![j] = @ + 1] /\ UNCHANGED attempt
      BY <1>4, <2>2, <3>1, <3>4 DEF IInv, TypeOK
    <3> QED BY <3>2, <3>3, <3>4
  <2> QED BY <2>1, <2>2
<1>9. SeenFresh'
  <2> SUFFICES ASSUME NEW v \in Workers, run'[v].stage = "recording",
                      owner'[run'[v].job] = v
               PROVE  run'[v].seen = attempt'[run'[v].job]
    BY DEF SeenFresh
  <2>1. v # w /\ run'[v] = run[v]
    BY <1>2, IdleTyped DEF IInv, TypeOK
  <2>2. run[v].job \in Jobs
    BY <2>1, RunTyped DEF IInv
  <2>3. run[v].job # j
    BY <1>6, <2>1, <2>2, WorkersAssumption DEF IInv, TypeOK
  <2>4. owner[run[v].job] = v /\ attempt'[run[v].job] = attempt[run[v].job]
    BY <1>6, <2>1, <2>2, <2>3 DEF IInv, TypeOK
  <2> QED BY <2>1, <2>4 DEF IInv, SeenFresh
<1>10. DeadLetterEarned'
  <2> SUFFICES ASSUME NEW k \in Jobs, status'[k] = "dead_letter"
               PROVE  failures'[k] + losses'[k] >= MaxAttempts
    BY DEF DeadLetterEarned
  <2>1. CASE k # j
    BY <1>6, <2>1 DEF IInv, TypeOK, DeadLetterEarned
  <2>2. CASE k = j
    <3>1. s = "dead_letter"
      BY <1>6, <2>2 DEF IInv, TypeOK
    <3>2. failures'[j] = failures[j] + 1 /\ attempt[j] >= MaxAttempts
      BY <3>1 DEF IInv, TypeOK
    <3> QED BY <1>4, <2>2, <3>2, DurationAssumption
  <2> QED BY <2>1, <2>2
<1> QED BY <1>7, <1>8, <1>9, <1>10 DEF IInv

(* The re-arm of dead jobs resets what was charged with what is charged.    *)
LEMMA RearmKeeps ==
  ASSUME IInv, RetryDeadLetterJobs
  PROVE  IInv'
<1> DEFINE dead == {j \in Jobs : status[j] = "dead_letter"}
<1>1. TypeOK'
  BY DEF IInv, TypeOK, RetryDeadLetterJobs
<1>2. AttemptAccounting'
  BY DEF IInv, TypeOK, AttemptAccounting, RetryDeadLetterJobs
<1>3. SeenFresh'
  <2> SUFFICES ASSUME NEW v \in Workers, run[v].stage = "recording", owner[run[v].job] = v
               PROVE  attempt'[run[v].job] = attempt[run[v].job]
    BY DEF IInv, SeenFresh, RetryDeadLetterJobs
  <2>1. run[v].job \in Jobs
    BY RunTyped DEF IInv
  <2>2. status[run[v].job] = "leased"
    BY <2>1, WorkersAssumption DEF IInv, TypeOK
  <2> QED BY <2>1, <2>2 DEF RetryDeadLetterJobs
<1>4. DeadLetterEarned'
  BY DEF IInv, TypeOK, DeadLetterEarned, RetryDeadLetterJobs
<1> QED BY <1>1, <1>2, <1>3, <1>4 DEF IInv

LEMMA OlderTyped ==
  ASSUME NEW t \in Int
  PROVE  Older(t) \in Int
  BY BoundsAssumption DEF Older

LEMMA TickKeeps ==
  ASSUME IInv, Tick
  PROVE  IInv'
<1>1. mishaps' \in Nat
  BY DEF IInv, TypeOK, Tick, Mishap
<1>2. available' \in [Jobs -> Int] /\ expires' \in [Jobs -> Int]
  BY OlderTyped DEF IInv, TypeOK, Tick
<1>3. \A w \in Workers :
        run'[w] \in Run /\ run'[w].stage = run[w].stage
        /\ (run[w].stage = "recording" => run'[w].job = run[w].job /\ run'[w].seen = run[w].seen)
  <2> TAKE w \in Workers
  <2>1. run'[w] = IF Running(w) THEN [run[w] EXCEPT !.start = Older(@)] ELSE run[w]
    BY DEF Tick
  <2>2. run[w] \in Run
    BY DEF IInv, TypeOK
  <2>3. CASE ~Running(w)
    BY <2>1, <2>2, <2>3
  <2>4. CASE Running(w)
    <3>1. run[w].start \in Int /\ Older(run[w].start) \in Int
      BY <2>2, <2>4, OlderTyped DEF Running, Run
    <3>2. run'[w] = [run[w] EXCEPT !.start = Older(run[w].start)]
      BY <2>1, <2>4
    <3>3. CASE run[w] \in [stage : {"asking", "failing"}, job : Jobs, start : Int]
      BY <3>1, <3>2, <3>3 DEF Run
    <3>4. CASE run[w] \in [stage : {"appending"}, job : Jobs, start : Int,
                           answer : Answers, left : SUBSET Indices]
      BY <3>1, <3>2, <3>4 DEF Run
    <3>5. CASE run[w] \in [stage : {"recording"}, job : Jobs, start : Int, seen : Nat]
      BY <3>1, <3>2, <3>5 DEF Run
    <3> QED BY <2>2, <2>4, <3>3, <3>4, <3>5 DEF Running, Run
  <2> QED BY <2>3, <2>4
<1>4. run' \in [Workers -> Run]
  BY <1>3 DEF Tick
<1>5. TypeOK'
  BY <1>1, <1>2, <1>4 DEF IInv, TypeOK, Tick
<1>6. AttemptAccounting' /\ DeadLetterEarned'
  BY DEF IInv, AttemptAccounting, DeadLetterEarned, Tick
<1>7. SeenFresh'
  BY <1>3 DEF IInv, SeenFresh, Tick
<1> QED BY <1>5, <1>6, <1>7 DEF IInv

(* The attempt read to record a failure is the one the job has.             *)
LEMMA FailReadsKeeps ==
  ASSUME IInv, NEW w \in Workers, FailReads(w)
  PROVE  IInv'
<1> DEFINE j == run[w].job
           r == [stage |-> "recording", job |-> j, start |-> run[w].start, seen |-> attempt[j]]
<1>1. run[w].stage = "failing" /\ j \in Jobs /\ run[w].start \in Int
  BY RunTyped DEF IInv, FailReads
<1>2. UNCHANGED <<job, memories, mishaps, rearms>>
  BY DEF FailReads
<1>3. memories \subseteq Memory /\ mishaps \in Nat /\ rearms \in Nat /\ attempt[j] \in Nat
  BY <1>1 DEF IInv, TypeOK
<1>4. CASE ~Owns(w, j)
  <2>1. run' = [run EXCEPT ![w] = Idle]
    BY <1>4 DEF FailReads
  <2> QED BY <1>2, <1>3, <2>1, IdleTyped, RunStepKeeps
<1>5. CASE Owns(w, j)
  <2>1. run' = [run EXCEPT ![w] = r]
    BY <1>5 DEF FailReads
  <2>2. r \in Run /\ r.job = j /\ r.seen = attempt[j]
    BY <1>1, <1>3 DEF Run
  <2> HIDE DEF r
  <2>3. TypeOK'
    BY <1>2, <2>1, <2>2 DEF IInv, TypeOK, job
  <2>4. AttemptAccounting' /\ DeadLetterEarned'
    BY <1>2 DEF IInv, AttemptAccounting, DeadLetterEarned, job
  <2>5. SeenFresh'
    BY <1>2, <2>1, <2>2 DEF IInv, TypeOK, SeenFresh, job
  <2> QED BY <2>3, <2>4, <2>5 DEF IInv
<1> QED BY <1>4, <1>5

LEMMA FailRecordsKeeps ==
  ASSUME IInv, NEW w \in Workers, FailRecords(w)
  PROVE  IInv'
<1> DEFINE j == run[w].job
           final == run[w].seen >= MaxAttempts
           s == IF final THEN "dead_letter" ELSE "pending"
<1>1. run[w].stage = "recording" /\ j \in Jobs /\ run[w].start \in Int /\ run[w].seen \in Nat
  BY RunTyped DEF IInv, TypeOK, FailRecords, Run, Idle, Dead
<1>2. CASE owner[j] # w /\ FindsNothing(w)
  BY <1>2, IdleTyped, RunStepKeeps DEF FailRecords, FindsNothing, GoesIdle, IInv, TypeOK
<1>3. CASE owner[j] = w /\ Settle(j, s, TRUE)
  <2>1. run[w].seen = attempt[j]
    BY <1>1, <1>3 DEF IInv, SeenFresh
  <2>2. /\ GoesIdle(w) /\ UNCHANGED <<attempt, losses, memories, mishaps, rearms>>
        /\ failures' = [failures EXCEPT ![j] = @ + 1]
        /\ available' = [available EXCEPT ![j] =
             run[w].start + (IF final THEN 0 ELSE 2 ^ run[w].seen)]
    BY <1>1, <1>3, WorkersAssumption DEF FailRecords, FindsNothing
  <2>3. run[w].start + (IF final THEN 0 ELSE 2 ^ run[w].seen) \in Int
    <3>1. 2 ^ run[w].seen \in Int
      BY <1>1
    <3> QED BY <1>1, <3>1
  <2>4. available' \in [Jobs -> Int]
    BY <2>2, <2>3 DEF IInv, TypeOK
  <2>5. s = "pending" \/ (s = "dead_letter" /\ attempt[j] >= MaxAttempts)
    BY <2>1
  <2> HIDE DEF s, final
  <2> QED BY <1>1, <1>3, <2>2, <2>4, <2>5, SettleKeeps
<1> QED BY <1>2, <1>3 DEF FailRecords

LEMMA UnavailableKeeps ==
  ASSUME IInv, NEW w \in Workers, ProviderUnavailable(w)
  PROVE  IInv'
<1> DEFINE j == run[w].job
<1>1. j \in Jobs /\ run[w].start \in Int /\ UNCHANGED <<memories, mishaps, rearms>>
  BY RunTyped DEF IInv, ProviderUnavailable, Asking
<1>2. CASE ~Owns(w, j) /\ FindsNothing(w)
  BY <1>1, <1>2, IdleTyped, RunStepKeeps DEF FindsNothing, GoesIdle, IInv, TypeOK
<1>3. CASE Owns(w, j) /\ Settle(j, "pending", TRUE)
  <2>1. /\ GoesIdle(w) /\ UNCHANGED <<failures, losses>>
        /\ attempt' = [attempt EXCEPT ![j] = IF @ > 0 THEN @ - 1 ELSE 0]
        /\ available' = [available EXCEPT ![j] = run[w].start + LeaseDuration]
    BY <1>3 DEF ProviderUnavailable, FindsNothing
  <2>2. available' \in [Jobs -> Int]
    BY <1>1, <2>1, DurationAssumption DEF IInv, TypeOK
  <2> QED BY <1>1, <1>3, <2>1, <2>2, SettleKeeps DEF Owns
<1> QED BY <1>2, <1>3 DEF ProviderUnavailable

LEMMA CompleteKeeps ==
  ASSUME IInv, NEW w \in Workers, Complete(w)
  PROVE  IInv'
<1> DEFINE j == run[w].job
<1>1. j \in Jobs /\ UNCHANGED <<memories, mishaps, rearms>>
  BY RunTyped DEF IInv, Complete
<1>2. CASE ~Owns(w, j) /\ FindsNothing(w)
  BY <1>1, <1>2, IdleTyped, RunStepKeeps DEF FindsNothing, GoesIdle, IInv, TypeOK
<1>3. CASE Owns(w, j) /\ Settle(j, "completed", FALSE)
  <2>1. GoesIdle(w) /\ UNCHANGED <<attempt, available, failures, losses>>
    BY <1>3 DEF Complete, FindsNothing
  <2>2. available' \in [Jobs -> Int]
    BY <2>1 DEF IInv, TypeOK
  <2> QED BY <1>1, <1>3, <2>1, <2>2, SettleKeeps DEF Owns
<1> QED BY <1>2, <1>3 DEF Complete

(* A run that waits, appends or turns to an error leaves the jobs alone.    *)
LEMMA FailsKeeps ==
  ASSUME IInv, NEW w \in Workers, run[w].stage \in {"asking", "appending"}, Fails(w),
         UNCHANGED <<job, memories, mishaps, rearms>>
  PROVE  IInv'
<1> DEFINE r == [stage |-> "failing", job |-> run[w].job, start |-> run[w].start]
<1>1. run[w].job \in Jobs /\ run[w].start \in Int
  BY RunTyped DEF IInv
<1>2. r \in Run /\ r.stage = "failing" /\ run' = [run EXCEPT ![w] = r]
  BY <1>1 DEF Run, Fails
<1> HIDE DEF r
<1> QED BY <1>2, RunStepKeeps DEF IInv, TypeOK

LEMMA AnswersKeeps ==
  ASSUME IInv, NEW w \in Workers, NEW answer \in Answers, ProviderAnswers(w, answer)
  PROVE  IInv'
<1> DEFINE r == [stage |-> "appending", job |-> run[w].job, start |-> run[w].start,
                 answer |-> answer, left |-> DOMAIN answer]
<1>1. run[w].job \in Jobs /\ run[w].start \in Int
  BY RunTyped DEF IInv, ProviderAnswers, Asking
<1>2. DOMAIN answer \subseteq Indices
  BY DEF Answers
<1>3. r \in Run /\ r.stage = "appending"
  BY <1>1, <1>2 DEF Run
<1>4. run' = [run EXCEPT ![w] = r] /\ UNCHANGED <<job, memories, mishaps, rearms>>
  BY DEF ProviderAnswers
<1> HIDE DEF r
<1> QED BY <1>3, <1>4, RunStepKeeps DEF IInv, TypeOK

LEMMA AppendKeeps ==
  ASSUME IInv, NEW w \in Workers, NEW i \in Indices, AppendMemory(w, i),
         run[w].left \subseteq DOMAIN run[w].answer
  PROVE  IInv'
<1> DEFINE j == run[w].job
           m == [job |-> j, index |-> i, content |-> run[w].answer[i]]
           r == [run[w] EXCEPT !.left = @ \ {i}]
<1>1. run[w].stage = "appending" /\ i \in run[w].left /\ UNCHANGED <<job, mishaps, rearms>>
  BY DEF AppendMemory, NextToAppend
<1>2. run[w] \in [stage : {"appending"}, job : Jobs, start : Int,
                  answer : Answers, left : SUBSET Indices]
  BY <1>1 DEF IInv, TypeOK, Run, Idle, Dead
<1>3. CASE Fails(w) /\ UNCHANGED memories
  BY <1>1, <1>3, FailsKeeps
<1>4. CASE memories' = memories \cup {m} /\ run' = [run EXCEPT ![w].left = @ \ {i}]
  <2>1. run[w].answer[i] \in Contents
    BY <1>1, <1>2 DEF Answers
  <2>2. m \in Memory
    BY <1>2, <2>1 DEF Memory
  <2>3. r \in Run /\ r.stage = "appending"
    BY <1>1, <1>2 DEF Run
  <2>4. run' = [run EXCEPT ![w] = r]
    BY <1>4 DEF IInv, TypeOK
  <2>5. memories' \subseteq Memory
    BY <1>4, <2>2 DEF IInv, TypeOK
  <2> HIDE DEF r
  <2> QED BY <1>1, <2>3, <2>4, <2>5, RunStepKeeps DEF IInv, TypeOK
<1> QED BY <1>3, <1>4 DEF AppendMemory

(* What is left to append is part of the answer.                            *)
LeftInAnswer ==
  \A w \in Workers : run[w].stage = "appending" => run[w].left \subseteq DOMAIN run[w].answer

LEMMA WorkerKeeps ==
  ASSUME IInv, LeftInAnswer, NEW w \in Workers,
         \/ Responds(w) \/ Proceeds(w)
         \/ ProviderUnavailable(w) \/ AppendErrs(w) \/ Abandon(w) \/ Crash(w)
  PROVE  IInv'
<1>1. CASE Responds(w)
  <2>1. CASE ProviderErrs(w)
    BY <2>1, FailsKeeps DEF ProviderErrs, Asking
  <2> QED BY <1>1, <2>1, AnswersKeeps DEF Responds
<1>2. ASSUME NEW j \in Jobs, LeaseJob(w, j) PROVE IInv'
  BY <1>2, LeaseKeeps
<1>3. ASSUME NEW i \in Indices, AppendMemory(w, i) PROVE IInv'
  <2>1. run[w].left \subseteq DOMAIN run[w].answer
    BY <1>3 DEF AppendMemory, NextToAppend, LeftInAnswer
  <2> QED BY <1>3, <2>1, AppendKeeps
<1>4. CASE Complete(w) \/ FailReads(w) \/ FailRecords(w)
  BY <1>4, CompleteKeeps, FailReadsKeeps, FailRecordsKeeps
<1>5. CASE ProviderUnavailable(w)
  BY <1>5, UnavailableKeeps
<1>6. CASE AppendErrs(w)
  BY <1>6, FailsKeeps DEF AppendErrs
<1>7. CASE Abandon(w) \/ Crash(w)
  <2>1. mishaps' \in Nat /\ memories' \subseteq Memory /\ rearms' \in Nat
    BY <1>7 DEF IInv, TypeOK, Abandon, Crash, Mishap
  <2> QED BY <1>7, <2>1, IdleTyped, RunStepKeeps DEF Abandon, Crash, GoesIdle
<1> QED BY <1>1, <1>2, <1>3, <1>4, <1>5, <1>6, <1>7 DEF Proceeds

LEMMA LeftKeeps ==
  ASSUME IInv, LeftInAnswer, [Next]_vars
  PROVE  LeftInAnswer'
<1> USE DEF LeftInAnswer
<1> SUFFICES ASSUME NEW v \in Workers, run'[v].stage = "appending"
             PROVE  run'[v].left \subseteq DOMAIN run'[v].answer
  OBVIOUS
<1>1. CASE UNCHANGED run
  BY <1>1
<1>2. ASSUME NEW w \in Workers, NEW r, r.stage # "appending", run' = [run EXCEPT ![w] = r]
      PROVE  run'[v].left \subseteq DOMAIN run'[v].answer
  BY <1>2 DEF IInv, TypeOK
<1>3. ASSUME NEW w \in Workers, NEW answer \in Answers, ProviderAnswers(w, answer)
      PROVE  run'[v].left \subseteq DOMAIN run'[v].answer
  BY <1>3 DEF IInv, TypeOK, ProviderAnswers
<1>4. ASSUME NEW w \in Workers, NEW i \in Indices, AppendMemory(w, i)
      PROVE  run'[v].left \subseteq DOMAIN run'[v].answer
  <2>1. CASE Fails(w)
    BY <1>2, <2>1 DEF Fails
  <2>2. CASE run' = [run EXCEPT ![w].left = @ \ {i}]
    <3>1. run[w] \in [stage : {"appending"}, job : Jobs, start : Int,
                      answer : Answers, left : SUBSET Indices]
      BY <1>4 DEF IInv, TypeOK, AppendMemory, NextToAppend, Run, Idle, Dead
    <3> QED BY <2>2, <3>1 DEF IInv, TypeOK
  <2> QED BY <1>4, <2>1, <2>2 DEF AppendMemory
<1>5. CASE Tick
  <2>1. run'[v] = IF Running(v) THEN [run[v] EXCEPT !.start = Older(@)] ELSE run[v]
    BY <1>5 DEF Tick
  <2>2. run[v] \in Run
    BY DEF IInv, TypeOK
  <2>3. CASE ~Running(v)
    BY <2>1, <2>3
  <2>4. CASE Running(v) /\ run[v] \in [stage : {"appending"}, job : Jobs, start : Int,
                                       answer : Answers, left : SUBSET Indices]
    BY <2>1, <2>4
  <2>5. CASE Running(v) /\ run[v].stage # "appending"
    <3>1. run'[v].stage = run[v].stage
      BY <2>1, <2>2, <2>5 DEF Run, Running
    <3> QED BY <3>1, <2>5
  <2> QED BY <2>2, <2>3, <2>4, <2>5 DEF Run, Running
<1>6. ASSUME NEW w \in Workers,
             \/ ProviderErrs(w) \/ ProviderUnavailable(w) \/ AppendErrs(w) \/ Abandon(w)
             \/ Crash(w) \/ Complete(w) \/ FailReads(w) \/ FailRecords(w)
             \/ \E j \in Jobs : LeaseJob(w, j)
      PROVE  run'[v].left \subseteq DOMAIN run'[v].answer
  <2>1. \/ run' = [run EXCEPT ![w] = Idle]
        \/ run' = [run EXCEPT ![w] = Dead]
        \/ Fails(w)
        \/ \E j \in Jobs : run' = [run EXCEPT ![w] = [stage |-> "asking", job |-> j, start |-> 0]]
        \/ run' = [run EXCEPT ![w] = [stage |-> "recording", job |-> run[w].job,
                                      start |-> run[w].start, seen |-> attempt[run[w].job]]]
    BY <1>6 DEF ProviderErrs, ProviderUnavailable, AppendErrs, Abandon, Crash, Complete,
                FailReads, FailRecords, LeaseJob, FindsNothing, GoesIdle
  <2> QED BY <2>1, <1>2, IdleTyped DEF Fails
<1>7. CASE RetryDeadLetterJobs \/ (\E j \in Jobs : Enqueue(j)) \/ UNCHANGED vars
  BY <1>1, <1>7 DEF RetryDeadLetterJobs, Enqueue, vars
<1> QED BY <1>3, <1>4, <1>5, <1>6, <1>7 DEF Next, Responds, Proceeds

LEMMA InitIInv == Init => IInv /\ LeftInAnswer
<1> SUFFICES ASSUME Init PROVE IInv /\ LeftInAnswer
  OBVIOUS
<1>1. \A w \in Workers : run[w] = Idle
  BY DEF Init
<1>2. TypeOK
  BY IdleTyped, WorkersAssumption DEF Init, TypeOK
<1> QED BY <1>1, <1>2, IdleTyped
    DEF Init, IInv, AttemptAccounting, SeenFresh, DeadLetterEarned, LeftInAnswer

LEMMA NextIInv == IInv /\ LeftInAnswer /\ [Next]_vars => IInv' /\ LeftInAnswer'
<1> SUFFICES ASSUME IInv, LeftInAnswer, [Next]_vars PROVE IInv'
  BY LeftKeeps
<1>1. CASE UNCHANGED vars
  BY <1>1 DEF vars, job, IInv, TypeOK, AttemptAccounting, SeenFresh, DeadLetterEarned
<1> QED BY <1>1, EnqueueKeeps, WorkerKeeps, RearmKeeps, TickKeeps DEF Next

LEMMA InvariantHolds == Spec => [](IInv /\ LeftInAnswer)
<1> QED BY InitIInv, NextIInv, PTL DEF Spec

(* The variables keep their types, and a job has an owner exactly while it  *)
(* is leased.                                                               *)
THEOREM TypeCorrect == Spec => []TypeOK
<1>1. IInv => TypeOK
  BY DEF IInv
<1> QED BY <1>1, InvariantHolds, PTL

(* Outages and stale workers never charge an attempt to a job.              *)
THEOREM AttemptsAccounted == Spec => []AttemptAccounting
<1>1. IInv => AttemptAccounting
  BY DEF IInv
<1> QED BY <1>1, InvariantHolds, PTL

(* A job is given up only after MaxAttempts runs that failed or were lost.  *)
THEOREM DeathEarned == Spec => []DeadLetterEarned
<1>1. IInv => DeadLetterEarned
  BY DEF IInv
<1> QED BY <1>1, InvariantHolds, PTL

(* A completed job has no owner, so no step finds it to update: not a stale *)
(* worker's, nor a re-arm.                                                  *)
LEMMA CompletedKeeps ==
  ASSUME TypeOK, NEW j \in Jobs, status[j] = "completed", [Next]_vars
  PROVE  status'[j] = "completed"
<1>1. /\ owner[j] = NoWorker /\ status \in [Jobs -> {"absent", "pending", "leased", "completed", "dead_letter"}]
      /\ \A w \in Workers : w # NoWorker
  BY WorkersAssumption DEF TypeOK
<1>2. ASSUME NEW k \in Jobs, Enqueue(k) PROVE status'[j] = "completed"
  BY <1>1, <1>2 DEF Enqueue
<1>3. ASSUME NEW w \in Workers, NEW k \in Jobs, LeaseJob(w, k) PROVE status'[j] = "completed"
  BY <1>1, <1>3 DEF LeaseJob, NextJob, Eligible
<1>4. ASSUME NEW w \in Workers, Complete(w) \/ FailRecords(w) \/ ProviderUnavailable(w)
      PROVE  status'[j] = "completed"
  <2>1. owner[j] # w
    BY <1>1
  <2> QED
    BY <1>1, <1>4, <2>1 DEF Complete, FailRecords, ProviderUnavailable, Owns, Settle,
                            FindsNothing, job
<1>5. ASSUME NEW w \in Workers,
             Responds(w) \/ FailReads(w) \/ AppendErrs(w) \/ Abandon(w) \/ Crash(w)
               \/ \E i \in Indices : AppendMemory(w, i)
      PROVE  status'[j] = "completed"
  BY <1>5 DEF Responds, ProviderErrs, ProviderAnswers, FailReads, AppendErrs, Abandon, Crash,
              AppendMemory, job
<1>6. CASE RetryDeadLetterJobs
  BY <1>1, <1>6 DEF RetryDeadLetterJobs
<1>7. CASE Tick \/ UNCHANGED vars
  BY <1>7 DEF Tick, vars, job
<1> QED
  BY <1>2, <1>3, <1>4, <1>5, <1>6, <1>7 DEF Next, Proceeds

(* No stale worker, clock or operator runs or reopens a completed job.      *)
THEOREM CompletionFinal == Spec => CompletedIsFinal
<1>1. IInv /\ [Next]_vars
        => [\A j \in Jobs : status[j] = "completed" => status'[j] = "completed"]_vars
  BY CompletedKeeps DEF IInv
<1> QED BY <1>1, InvariantHolds, PTL DEF Spec, CompletedIsFinal
----------------------------------------------------------------------------
(* What is acknowledged is stored, and who ends a live lease.              *)

(* The memories of an answer that are not left to append are in the ledger. *)
AppendedStored ==
  \A w \in Workers : run[w].stage = "appending" =>
    \A i \in DOMAIN run[w].answer \ run[w].left :
      [job |-> run[w].job, index |-> i, content |-> run[w].answer[i]] \in memories

LEMMA AppendingTyped ==
  ASSUME TypeOK, NEW w \in Workers, run[w].stage = "appending"
  PROVE  run[w] \in [stage : {"appending"}, job : Jobs, start : Int,
                     answer : Answers, left : SUBSET Indices]
  BY DEF TypeOK, Run, Idle, Dead

(* No step takes a memory away.                                             *)
LEMMA MemoriesGrow ==
  ASSUME [Next]_vars
  PROVE  memories \subseteq memories'
<1>1. ASSUME NEW w \in Workers, NEW i \in Indices, AppendMemory(w, i)
      PROVE  memories \subseteq memories'
  BY <1>1 DEF AppendMemory
<1>2. ASSUME NEW w \in Workers, NEW j \in Jobs, LeaseJob(w, j)
      PROVE  memories' = memories
  BY <1>2 DEF LeaseJob
<1>3. ASSUME NEW w \in Workers,
             \/ Responds(w) \/ Complete(w) \/ FailReads(w) \/ FailRecords(w)
             \/ ProviderUnavailable(w) \/ AppendErrs(w) \/ Abandon(w) \/ Crash(w)
      PROVE  memories' = memories
  BY <1>3 DEF Responds, ProviderErrs, ProviderAnswers, Complete, FailReads, FailRecords,
              ProviderUnavailable, AppendErrs, Abandon, Crash
<1>4. CASE RetryDeadLetterJobs \/ Tick \/ (\E j \in Jobs : Enqueue(j)) \/ UNCHANGED vars
  BY <1>4 DEF RetryDeadLetterJobs, Tick, Enqueue, vars
<1> QED BY <1>1, <1>2, <1>3, <1>4 DEF Next, Proceeds

(* A run is in the middle of an answer because it was, or because the       *)
(* answer has just come and all of it is left, or because it has just       *)
(* stored one more memory of it.                                            *)
OneMoreStored(v) ==
  \E i \in Indices :
    /\ run[v].stage = "appending" /\ run'[v].job = run[v].job
    /\ run'[v].answer = run[v].answer /\ run'[v].left = run[v].left \ {i}
    /\ [job |-> run[v].job, index |-> i, content |-> run[v].answer[i]] \in memories'

StillAppending(v) ==
  \/ /\ run[v].stage = "appending" /\ run'[v].job = run[v].job
     /\ run'[v].answer = run[v].answer /\ run'[v].left = run[v].left
  \/ run'[v].left = DOMAIN run'[v].answer
  \/ OneMoreStored(v)

LEMMA AppendingStep ==
  ASSUME TypeOK, [Next]_vars, NEW v \in Workers, run'[v].stage = "appending"
  PROVE  StillAppending(v)
<1>1. ASSUME run'[v] = run[v] PROVE StillAppending(v)
  BY <1>1 DEF StillAppending
<1>2. ASSUME NEW w \in Workers, NEW r, r.stage # "appending", run' = [run EXCEPT ![w] = r]
      PROVE  StillAppending(v)
  BY <1>1, <1>2 DEF TypeOK
<1>3. ASSUME NEW w \in Workers, NEW answer \in Answers, ProviderAnswers(w, answer)
      PROVE  StillAppending(v)
  <2>1. CASE v = w
    BY <1>3, <2>1 DEF TypeOK, ProviderAnswers, StillAppending
  <2>2. CASE v # w
    BY <1>1, <1>3, <2>2 DEF TypeOK, ProviderAnswers
  <2> QED BY <2>1, <2>2
<1>4. ASSUME NEW w \in Workers, NEW i \in Indices, AppendMemory(w, i)
      PROVE  StillAppending(v)
  <2>1. CASE Fails(w)
    BY <1>2, <2>1 DEF Fails
  <2>2. CASE run' = [run EXCEPT ![w].left = @ \ {i}] /\ v # w
    BY <1>1, <2>2 DEF TypeOK
  <2>3. CASE /\ run' = [run EXCEPT ![w].left = @ \ {i}] /\ v = w
             /\ memories' = memories \cup
                  {[job |-> run[w].job, index |-> i, content |-> run[w].answer[i]]}
    <3>1. run[w].stage = "appending"
      BY <1>4 DEF AppendMemory, NextToAppend
    <3>2. run[w] \in [stage : {"appending"}, job : Jobs, start : Int,
                      answer : Answers, left : SUBSET Indices]
      BY <3>1, AppendingTyped
    <3>3. /\ run'[v].job = run[v].job /\ run'[v].answer = run[v].answer
          /\ run'[v].left = run[v].left \ {i}
      BY <2>3, <3>2 DEF TypeOK
    <3> QED BY <2>3, <3>1, <3>3 DEF StillAppending, OneMoreStored
  <2> QED BY <1>4, <2>1, <2>2, <2>3 DEF AppendMemory
<1>5. CASE Tick
  <2>1. run'[v] = IF Running(v) THEN [run[v] EXCEPT !.start = Older(@)] ELSE run[v]
    BY <1>5 DEF Tick
  <2>2. run[v] \in Run
    BY DEF TypeOK
  <2>3. CASE ~Running(v)
    BY <1>1, <2>1, <2>3
  <2>4. CASE Running(v) /\ run[v] \in [stage : {"appending"}, job : Jobs, start : Int,
                                       answer : Answers, left : SUBSET Indices]
    BY <2>1, <2>4 DEF StillAppending
  <2>5. CASE Running(v) /\ run[v].stage # "appending"
    <3>1. run'[v].stage = run[v].stage
      BY <2>1, <2>2, <2>5 DEF Run, Running
    <3> QED BY <3>1, <2>5
  <2> QED BY <2>2, <2>3, <2>4, <2>5 DEF Run, Running
<1>6. ASSUME NEW w \in Workers,
             \/ ProviderErrs(w) \/ ProviderUnavailable(w) \/ AppendErrs(w) \/ Abandon(w)
             \/ Crash(w) \/ Complete(w) \/ FailReads(w) \/ FailRecords(w)
             \/ \E j \in Jobs : LeaseJob(w, j)
      PROVE  StillAppending(v)
  <2>1. \/ run' = [run EXCEPT ![w] = Idle]
        \/ run' = [run EXCEPT ![w] = Dead]
        \/ Fails(w)
        \/ \E j \in Jobs : run' = [run EXCEPT ![w] = [stage |-> "asking", job |-> j, start |-> 0]]
        \/ run' = [run EXCEPT ![w] = [stage |-> "recording", job |-> run[w].job,
                                      start |-> run[w].start, seen |-> attempt[run[w].job]]]
    BY <1>6 DEF ProviderErrs, ProviderUnavailable, AppendErrs, Abandon, Crash, Complete,
                FailReads, FailRecords, LeaseJob, FindsNothing, GoesIdle
  <2> QED BY <2>1, <1>2, IdleTyped DEF Fails
<1>7. CASE RetryDeadLetterJobs \/ (\E j \in Jobs : Enqueue(j)) \/ UNCHANGED vars
  BY <1>1, <1>7 DEF RetryDeadLetterJobs, Enqueue, vars
<1>8. ASSUME NEW w \in Workers,
             \/ Responds(w) \/ Proceeds(w)
             \/ ProviderUnavailable(w) \/ AppendErrs(w) \/ Abandon(w) \/ Crash(w)
      PROVE  StillAppending(v)
  BY <1>3, <1>4, <1>6, <1>8 DEF Responds, Proceeds
<1> QED BY <1>5, <1>7, <1>8 DEF Next

LEMMA StoredKeeps ==
  ASSUME TypeOK, AppendedStored, [Next]_vars
  PROVE  AppendedStored'
<1> USE DEF AppendedStored
<1> SUFFICES ASSUME NEW v \in Workers, run'[v].stage = "appending",
                    NEW i \in DOMAIN run'[v].answer \ run'[v].left
             PROVE  [job |-> run'[v].job, index |-> i, content |-> run'[v].answer[i]]
                      \in memories'
  OBVIOUS
<1>1. memories \subseteq memories'
  BY MemoriesGrow
<1> QED BY <1>1, AppendingStep DEF StillAppending, OneMoreStored

LEMMA StoredHolds == Spec => []AppendedStored
<1>1. Init => AppendedStored
  BY IdleTyped DEF Init, AppendedStored
<1>2. IInv /\ AppendedStored /\ [Next]_vars => AppendedStored'
  BY StoredKeeps DEF IInv
<1> QED BY <1>1, <1>2, InvariantHolds, PTL DEF Spec

(* A job becomes completed in no step but Complete, by the worker that owns *)
(* it.                                                                      *)
LEMMA CompletedByOwner ==
  ASSUME TypeOK, NEW j \in Jobs, [Next]_vars,
         status[j] # "completed", status'[j] = "completed"
  PROVE  \E w \in Workers : Complete(w) /\ run[w].job = j
<1> USE DEF TypeOK
<1>1. ASSUME NEW k \in Jobs, Enqueue(k) PROVE FALSE
  BY <1>1 DEF Enqueue
<1>2. ASSUME NEW w \in Workers, NEW k \in Jobs, LeaseJob(w, k) PROVE FALSE
  BY <1>2 DEF LeaseJob
<1>3. ASSUME NEW w \in Workers, FailRecords(w) \/ ProviderUnavailable(w) PROVE FALSE
  BY <1>3 DEF FailRecords, ProviderUnavailable, Settle, FindsNothing, job
<1>4. ASSUME NEW w \in Workers,
             Responds(w) \/ FailReads(w) \/ AppendErrs(w) \/ Abandon(w) \/ Crash(w)
               \/ \E i \in Indices : AppendMemory(w, i)
      PROVE  FALSE
  BY <1>4 DEF Responds, ProviderErrs, ProviderAnswers, FailReads, AppendErrs, Abandon, Crash,
              AppendMemory, job
<1>5. CASE RetryDeadLetterJobs \/ Tick \/ UNCHANGED vars
  BY <1>5 DEF RetryDeadLetterJobs, Tick, vars, job
<1>6. ASSUME NEW w \in Workers, Complete(w) PROVE Complete(w) /\ run[w].job = j
  BY <1>6 DEF Complete, Settle, FindsNothing, job
<1> QED BY <1>1, <1>2, <1>3, <1>4, <1>5, <1>6 DEF Next, Proceeds

(* Whatever order workers append in, and however often a batch is answered  *)
(* again with other contents, a job is acknowledged only for an answer the  *)
(* ledger holds whole.                                                      *)
THEOREM CompletionStored == Spec => CompletionStoresAnswer
<1> DEFINE Answered(j) ==
      \E w \in Workers :
        /\ run[w].stage = "appending" /\ run[w].job = j
        /\ \A i \in DOMAIN run[w].answer :
             [job |-> j, index |-> i, content |-> run[w].answer[i]] \in memories
<1>1. ASSUME IInv, AppendedStored, [Next]_vars, NEW j \in Jobs,
             status[j] # "completed", status'[j] = "completed"
      PROVE  Answered(j)
  <2>1. PICK w \in Workers : Complete(w) /\ run[w].job = j
    BY <1>1, CompletedByOwner DEF IInv
  <2>2. run[w].stage = "appending" /\ run[w].left = {}
    BY <2>1 DEF Complete
  <2> QED BY <1>1, <2>1, <2>2 DEF AppendedStored
<1>2. IInv /\ AppendedStored /\ [Next]_vars
        => [\A j \in Jobs : status[j] # "completed" /\ status'[j] = "completed" => Answered(j)]_vars
  BY <1>1
<1> QED BY <1>2, InvariantHolds, StoredHolds, PTL DEF Spec, CompletionStoresAnswer

(* An acknowledged job stays acknowledged, and its answer is in the ledger. *)
THEOREM CompletionsHold == Spec => CompletionSound
BY CompletionStored, CompletionFinal, PTL DEF CompletionSound

(* The lease of a job changes hands only when it is released by the owner,  *)
(* in a run on that job, or taken over after it expired.                    *)
LEMMA OwnerStep ==
  ASSUME TypeOK, NEW j \in Jobs, [Next]_vars,
         status[j] = "leased", expires[j] > 0, owner'[j] # owner[j]
  PROVE  /\ owner[j] \in Workers /\ run[owner[j]].job = j
         /\ run[owner[j]].stage \in {"asking", "appending", "recording"}
         /\ run' = [run EXCEPT ![owner[j]] = Idle]
<1> USE DEF TypeOK
<1>1. ASSUME NEW k \in Jobs, Enqueue(k) PROVE FALSE
  BY <1>1 DEF Enqueue
<1>2. ASSUME NEW w \in Workers, NEW k \in Jobs, LeaseJob(w, k) PROVE FALSE
  BY <1>2 DEF LeaseJob, NextJob, Eligible
<1>3. ASSUME NEW w \in Workers,
             Responds(w) \/ FailReads(w) \/ AppendErrs(w) \/ Abandon(w) \/ Crash(w)
               \/ \E i \in Indices : AppendMemory(w, i)
      PROVE  FALSE
  BY <1>3 DEF Responds, ProviderErrs, ProviderAnswers, FailReads, AppendErrs, Abandon, Crash,
              AppendMemory, job
<1>4. CASE RetryDeadLetterJobs \/ Tick \/ UNCHANGED vars
  BY <1>4 DEF RetryDeadLetterJobs, Tick, vars, job
<1>5. ASSUME NEW w \in Workers, Complete(w) \/ FailRecords(w) \/ ProviderUnavailable(w)
      PROVE  /\ owner[j] = w /\ run[w].job = j
             /\ run[w].stage \in {"asking", "appending", "recording"}
             /\ run' = [run EXCEPT ![w] = Idle]
  BY <1>5 DEF Complete, FailRecords, ProviderUnavailable, Asking, Owns, Settle, FindsNothing,
              GoesIdle, job
<1> QED BY <1>1, <1>2, <1>3, <1>4, <1>5 DEF Next, Proceeds

(* A stale run never completes, fails or defers a job under the worker that *)
(* took it over: a live lease ends in its owner's own step on that job.     *)
THEOREM LeaseHonoured == Spec => LiveLeaseHonoured
<1>1. ASSUME IInv, [Next]_vars, NEW j \in Jobs,
             status[j] = "leased", expires[j] > 0, owner'[j] # owner[j]
      PROVE  /\ run[owner[j]].stage # "idle" /\ run[owner[j]] # run'[owner[j]]
             /\ run[owner[j]].job = j
  BY <1>1, OwnerStep, IdleTyped DEF IInv, TypeOK
<1>2. IInv /\ [Next]_vars =>
        [\A j \in Jobs :
           status[j] = "leased" /\ expires[j] > 0 /\ owner'[j] # owner[j]
           => run[owner[j]].stage # "idle" /\ run[owner[j]] # run'[owner[j]]
              /\ run[owner[j]].job = j]_vars
  BY <1>1
<1> QED BY <1>2, InvariantHolds, PTL DEF Spec, LiveLeaseHonoured
=============================================================================
