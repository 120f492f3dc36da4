------------------------------ MODULE Pressure ------------------------------
(***************************************************************************)
(* Disk pressure: PressureController::evaluate                             *)
(* (crates/brain-service/src/backpressure.rs) and the capture pass that    *)
(* feeds it, CaptureSupervisor::evaluate_pressure (capture.rs).            *)
(*                                                                         *)
(* Every capture pass samples the disks below the ledgers, hands the       *)
(* fullest of them to the controller, and reads its sources only if the    *)
(* state that comes back does not block capture.  The other loops of the   *)
(* service see the state through a watch channel.                          *)
(***************************************************************************)
EXTENDS Integers

CONSTANTS
  Roots,            \* storage_roots: the directories of the ledgers
  Levels,           \* free space, in bytes and in percent
  Emergency,        \* emergency_free_bytes
  Critical,         \* critical_free_bytes and critical_free_percent
  Warning,          \* warning_free_bytes and warning_free_percent
  Recovery,         \* recovery_free_bytes and recovery_free_percent
  RecoveryChecks,   \* recovery_checks
  MaxRestarts       \* bound: restarts of the service

ASSUME LevelsAssumption == Levels \subseteq Nat

(* PressurePolicy::validate.                                                *)
ASSUME PolicyAssumption ==
  /\ {Emergency, Critical, Warning, Recovery} \subseteq Nat
  /\ Emergency <= Critical /\ Critical <= Warning /\ Warning <= Recovery
  /\ RecoveryChecks \in 1..255

ASSUME BoundsAssumption == MaxRestarts \in Nat

VARIABLES
  disk,       \* free space of the disk of each root
  readable,   \* roots whose disk can be sampled
  state,      \* the DegradationState
  checks,     \* healthy_recovery_checks
  capturing,  \* whether the last pass went on to its sources
  restarts,   \* bound: restarts so far
  streak      \* history: healthy samples in a row, up to RecoveryChecks

vars == <<disk, readable, state, checks, capturing, restarts, streak>>

----------------------------------------------------------------------------
DiskSample == [bytes : Levels, percent : Levels]

(* What is paused, in the order in which it is to be given up.              *)
Derived == {"provider_refresh", "basic_memory", "markdown_projection", "consolidation",
            "cold_cache"}

Work == Derived \cup {"capture"}

DegradationState == [Work -> BOOLEAN]

NothingPaused == [w \in Work |-> FALSE]

TypeOK ==
  /\ disk \in [Roots -> DiskSample]
  /\ readable \subseteq Roots
  /\ state \in DegradationState
  /\ checks \in 0..(RecoveryChecks - 1)
  /\ capturing \in BOOLEAN
  /\ restarts \in Nat
  /\ streak \in 0..RecoveryChecks

----------------------------------------------------------------------------
(* The controller.                                                         *)

(* Reaching the threshold counts as pressure.                               *)
IsEmergency(d) == d.bytes <= Emergency

IsCritical(d) == d.bytes <= Critical \/ d.percent <= Critical

IsWarning(d) == d.bytes <= Warning \/ d.percent <= Warning

IsHealthy(d) ==
  /\ ~IsEmergency(d) /\ ~IsCritical(d) /\ ~IsWarning(d)
  /\ d.bytes >= Recovery /\ d.percent >= Recovery

\* Mutant: capture is the only thing a warning does not start again.
WarnedKeepingCapture ==
  [w \in Work |-> w \in {"provider_refresh", "basic_memory"} \/ (w = "capture" /\ state[w])]

(* A warning pauses two more, lets capture go on, and leaves the rest.      *)
Warned ==
  [state EXCEPT !["provider_refresh"] = TRUE, !["basic_memory"] = TRUE, !["capture"] = FALSE]

(* The state after a sample that is no healthy one.                         *)
Degraded(d) ==
  IF IsEmergency(d) THEN [w \in Work |-> TRUE]
  ELSE IF IsCritical(d) THEN [w \in Work |-> w # "capture"]
  ELSE IF IsWarning(d) THEN Warned
  ELSE state

\* Mutant: the checks of a recovery do not add up.
CheckedAgain ==
  IF checks + 1 >= RecoveryChecks
    THEN state' = NothingPaused /\ checks' = 0
    ELSE UNCHANGED <<state, checks>>

(* One more healthy sample, which may be the one that ends the degradation. *)
Checked ==
  IF checks + 1 >= RecoveryChecks
    THEN state' = NothingPaused /\ checks' = 0
    ELSE checks' = checks + 1 /\ UNCHANGED state

\* Mutant: the count of healthy samples outlives a relapse.
ChecksAfterRelapse == checks

(* A sample that is not healthy starts the count again.                     *)
Relapsed == 0

Sampled(d) ==
  \/ IsHealthy(d) /\ Checked
  \/ ~IsHealthy(d) /\ state' = Degraded(d) /\ checks' = Relapsed

----------------------------------------------------------------------------
(* A capture pass.                                                         *)

(* The disk with the smallest percentage free, and among those the one with *)
(* the fewest bytes.                                                        *)
Fullest ==
  CHOOSE d \in {disk[r] : r \in readable} :
    \A r \in readable : \/ d.percent < disk[r].percent
                        \/ d.percent = disk[r].percent /\ d.bytes <= disk[r].bytes

(* If no disk can be sampled the state stays as it is.                      *)
Evaluate ==
  /\ IF readable = {}
       THEN UNCHANGED <<state, checks, streak>>
       ELSE /\ Sampled(Fullest)
            /\ streak' = IF ~IsHealthy(Fullest) THEN 0
                         ELSE IF streak < RecoveryChecks THEN streak + 1 ELSE streak
  /\ capturing' = ~state'["capture"]
  /\ UNCHANGED <<disk, readable, restarts>>

(* The controller is rebuilt with the service.                              *)
Restart ==
  /\ restarts < MaxRestarts
  /\ restarts' = restarts + 1
  /\ state' = NothingPaused /\ checks' = 0
  /\ capturing' = FALSE /\ streak' = 0
  /\ UNCHANGED <<disk, readable>>

----------------------------------------------------------------------------
(* The disks (external).                                                   *)

DiskChanges(r, d) ==
  /\ disk' = [disk EXCEPT ![r] = d]
  /\ UNCHANGED <<readable, state, checks, capturing, restarts, streak>>

ProbeChanges(r) ==
  /\ readable' = IF r \in readable THEN readable \ {r} ELSE readable \cup {r}
  /\ UNCHANGED <<disk, state, checks, capturing, restarts, streak>>

----------------------------------------------------------------------------
Init ==
  /\ disk \in [Roots -> DiskSample]
  /\ readable = Roots
  /\ state = NothingPaused /\ checks = 0
  /\ capturing = FALSE /\ restarts = 0 /\ streak = 0

Next ==
  \/ Evaluate \/ Restart
  \/ \E r \in Roots : ProbeChanges(r) \/ \E d \in DiskSample : DiskChanges(r, d)

Spec == Init /\ [][Next]_vars

(* The reconciliation loop makes a pass on every tick.                      *)
FairSpec == Spec /\ WF_vars(Evaluate)

----------------------------------------------------------------------------
(* Properties.                                                             *)

(* "Degrade in order: optional provider refresh, Basic Memory projection,   *)
(* Markdown projection, consolidation, cold cache; protect capture" (the    *)
(* plan of operations): whatever the samples were, nothing is given up      *)
(* while something that goes before it is still at work.                    *)
DegradedInOrder ==
  /\ state["capture"] => \A w \in Derived : state[w]
  /\ \E w \in {"markdown_projection", "consolidation", "cold_cache"} : state[w]
       => state["provider_refresh"] /\ state["basic_memory"]

(* Derived work that was paused is started again only after RecoveryChecks  *)
(* samples in a row at or above the recovery threshold, so that one that    *)
(* relapses in between counts for nothing.                                  *)
RecoveryEarned ==
  [][Evaluate =>
       \A w \in Derived : state[w] /\ ~state'[w] => streak' = RecoveryChecks]_vars

(* "Capture remains protected until the emergency threshold, where it is    *)
(* visibly blocked before reading a source"                                 *)
(* (docs/operations/health-and-alerts.md): no pass reads its sources while  *)
(* a disk that it can sample is at the emergency threshold.  Only the       *)
(* fullest disk by percentage is looked at.                                 *)
EmergencyBlocksCapture ==
  [][Evaluate /\ (\E r \in readable : IsEmergency(disk[r])) => ~capturing']_vars

(* Once every disk stays above the recovery threshold and can be sampled,   *)
(* everything that was paused is at work again, for good.                   *)
EverythingResumes ==
  <>[](readable = Roots /\ \A r \in Roots : IsHealthy(disk[r])) => <>[](state = NothingPaused)
=============================================================================
