---------------------------- MODULE BenchmarkMatrix ----------------------------
(***************************************************************************)
(* The paired token benchmark (brain-cli/src/token_benchmark): a preflight *)
(* pins what is to be measured and plans a matrix of samples; `run` works  *)
(* through the matrix with paid sessions, each against a fresh copy of the *)
(* brain, and is resumed after a crash; the answers are exported, graded   *)
(* and imported; a report says whether the run supports a claim.  One      *)
(* `run` works on a matrix at a time; the code does not enforce that.      *)
(***************************************************************************)
EXTENDS Naturals, Sequences, FiniteSets, SequencesExt

CONSTANTS
  Matrix,       \* the planned samples, in order: [id, block, condition]
  Endings,      \* how a session may end: [exit, usage, turns, over, trace]
  MaxAttempts,  \* attempts of a sample
  MaxLaunches,  \* bound: paid sessions
  MaxCrashes,   \* bound: crashes of the orchestrator
  MaxDrifts,    \* bound: changes of what the preflight pinned
  Nothing

ASSUME MatrixAssumption ==
  Matrix \in Seq([id : STRING, block : STRING, condition : {"C0", "C1", "C2", "C3", "C4"}])
ASSUME EndingsAssumption ==
  Endings \subseteq [exit : STRING, usage : BOOLEAN, turns : Nat, over : BOOLEAN, trace : BOOLEAN]
ASSUME AttemptsAssumption == MaxAttempts \in Nat

VARIABLES
  plan,      \* what the preflight has left behind
  drift,     \* what changed since the preflight
  samples,   \* samples.jsonl
  torn,      \* its last line is half of a record
  runner,    \* the `run` command, or AtRest
  serving,   \* which copy of the brain answers the pipe of an attempt
  launches,  \* paid sessions so far
  sheet,     \* the rows exported for grading, or Nothing
  grades,    \* grades.jsonl
  report,    \* the last report, or Nothing
  retired,
  benchFaults

benchVars == <<plan, drift, samples, torn, runner, serving, launches, sheet, grades,
               report, retired, benchFaults>>

----------------------------------------------------------------------------
(* Conditions: each adds one capability to the one before it.              *)

Position(condition) == CHOOSE i \in 0..4 : <<"C0", "C1", "C2", "C3", "C4">>[i + 1] = condition

RequiresBrain(condition) == Position(condition) >= 2

(* What the launcher installs in the home of a sample.                     *)
Installed(condition) ==
  {capability \in {"codegraph", "boundaries", "prompt", "mcp"} :
     Position(condition) >= CASE capability = "codegraph" -> 1
                              [] capability = "boundaries" -> 2
                              [] capability = "prompt" -> 3
                              [] OTHER -> 4}

(* The receipts a session leaves in the ledger that serves it.             *)
Receipts(condition) ==
  UNION {CASE capability = "boundaries" -> {"start", "flushed", "orientation", "end"}
           [] capability = "prompt" -> {"prompt", "push"}
           [] capability = "mcp" -> {"request", "answer"}
           [] OTHER -> {} : capability \in Installed(condition)}

(* Mutant: a session is taken for exposed to the brain unseen.             *)
ExposedUnseen(condition, found) == TRUE

(* validate_condition_exposure, on the receipts found in the sample's own  *)
(* copy of the brain.                                                      *)
Exposed(condition, found) ==
  ~RequiresBrain(condition) \/
    /\ {"start", "flushed", "orientation", "end"} \subseteq found
    /\ condition \in {"C3", "C4"} => {"prompt", "push"} \subseteq found
    /\ condition = "C2" => "prompt" \notin found
    /\ condition # "C4" => {"request", "answer"} \cap found = {}
    /\ "request" \in found => "answer" \in found

(* The tokens are only read from the output of a session that exited well. *)
UsageKnown(session) == session.exit = "zero" /\ session.usage

(* enforce_sample_limits: a session without a trace cannot be audited.     *)
WithinLimits(session) == session.trace /\ ~session.over

(* normalize_process_output, and the limits.                               *)
Status(session) ==
  CASE session.exit # "zero" -> "HarnessFailure"
    [] session.exit = "zero" /\ ~UsageKnown(session) -> "InvalidUsage"
    [] UsageKnown(session) -> IF WithinLimits(session) THEN "Completed" ELSE "HarnessFailure"

----------------------------------------------------------------------------
(* The preflight                                                           *)

Pinned == {"templates", "executables", "isolation", "snapshot", "config"}

(* The manifest is written some way before the report of the preflight: a  *)
(* preflight that fails between leaves a run that cannot be executed.      *)
PlanWritten == {"partial", "invalid", "valid"}

(* The suite, the templates, the snapshot and the condition profiles are   *)
(* read and checked before anything is written of the plan.                *)
Preflight ==
  /\ plan = "none"
  /\ plan' \in PlanWritten
  /\ UNCHANGED <<drift, samples, torn, runner, serving, launches, sheet, grades, report,
                 retired, benchFaults>>

Drift ==
  /\ plan = "valid" /\ Cardinality(drift) < MaxDrifts
  /\ \E what \in Pinned \ drift : drift' = drift \cup {what}
  /\ UNCHANGED <<plan, samples, torn, runner, serving, launches, sheet, grades, report,
                 retired, benchFaults>>

----------------------------------------------------------------------------
(* A run                                                                   *)

AtRest == [at |-> "rest", index |-> 0, attempt |-> 0, launch |-> 0, known |-> <<>>,
           record |-> Nothing]

(* Where the records of a sample stand.                                    *)
RecordsOf(known, id) == {i \in DOMAIN known : known[i].sample = id}

HasCompleted(known, id) == \E r \in ToSet(known) : r.sample = id /\ r.status = "Completed"

LastAttempt(known, id) ==
  IF RecordsOf(known, id) = {} THEN 0
  ELSE Max({known[i].attempt : i \in RecordsOf(known, id)})

(* Every attempt failed without using a token or taking a turn.            *)
InfrastructureDown(known, id) ==
  /\ Cardinality(RecordsOf(known, id)) >= MaxAttempts
  /\ \A i \in RecordsOf(known, id) :
       known[i].status # "Completed" /\ ~known[i].usage /\ known[i].turns = 0

(* What is verified before the first sample, and again after each.         *)
CheckedAtStart == Pinned

CheckedAfterSample == {"config", "snapshot"}

StartRun ==
  /\ runner = AtRest /\ plan = "valid" /\ ~torn
  /\ drift \cap CheckedAtStart = {}
  /\ runner' = [AtRest EXCEPT !.at = "next", !.index = 1, !.known = samples]
  /\ UNCHANGED <<plan, drift, samples, torn, serving, launches, sheet, grades, report,
                 retired, benchFaults>>

Planned == Matrix[runner.index]

(* The loop turns to the next sample: this one is done, or out of attempts *)
(* for a reason that is its own.                                           *)
NextSample ==
  /\ runner.at = "next" /\ runner.index <= Len(Matrix)
  /\ \/ HasCompleted(runner.known, Planned.id)
     \/ LastAttempt(runner.known, Planned.id) >= MaxAttempts
        /\ ~InfrastructureDown(runner.known, Planned.id)
  /\ runner' = [runner EXCEPT !.index = @ + 1]
  /\ UNCHANGED <<plan, drift, samples, torn, serving, launches, sheet, grades, report,
                 retired, benchFaults>>

(* The matrix is finished, or the infrastructure stop ends the run.        *)
EndRun ==
  /\ runner.at = "next"
  /\ runner.index <= Len(Matrix) =>
       ~HasCompleted(runner.known, Planned.id) /\ InfrastructureDown(runner.known, Planned.id)
  /\ runner' = AtRest
  /\ UNCHANGED <<plan, drift, samples, torn, serving, launches, sheet, grades, report,
                 retired, benchFaults>>

(* The copy of the brain made for the next session is served on the pipe,  *)
(* unless a service that an interrupted run left there keeps it: that one  *)
(* answers the probe.                                                      *)
ServedAt(pipe) ==
  IF RequiresBrain(Planned.condition) /\ serving[pipe] = Nothing
  THEN [serving EXCEPT ![pipe] = launches + 1] ELSE serving

(* A checkout and, if the condition wants one, a brain; then the session.  *)
Launch ==
  /\ runner.at = "next" /\ runner.index <= Len(Matrix)
  /\ ~HasCompleted(runner.known, Planned.id)
  /\ LastAttempt(runner.known, Planned.id) < MaxAttempts
  /\ launches < MaxLaunches
  /\ LET attempt == LastAttempt(runner.known, Planned.id) + 1
     IN /\ runner' = [runner EXCEPT !.at = "running", !.attempt = attempt, !.launch = launches + 1]
        /\ serving' = ServedAt(<<Planned.id, attempt>>)
  /\ launches' = launches + 1
  /\ UNCHANGED <<plan, drift, samples, torn, sheet, grades, report, retired, benchFaults>>

(* The checkout, the copy or the service fails: nothing was paid for, and  *)
(* the run ends.                                                           *)
FailToPrepare ==
  /\ runner.at = "next" /\ runner.index <= Len(Matrix)
  /\ ~HasCompleted(runner.known, Planned.id)
  /\ LastAttempt(runner.known, Planned.id) < MaxAttempts
  /\ benchFaults < MaxCrashes
  /\ benchFaults' = benchFaults + 1
  /\ runner' = AtRest
  /\ UNCHANGED <<plan, drift, samples, torn, serving, launches, sheet, grades, report, retired>>

(* The session ends, having left its receipts with the brain that served   *)
(* it, save perhaps one; the credentials are removed, the receipts are     *)
(* looked for in the sample's own copy, and its service is stopped.        *)
EndSession ==
  /\ runner.at = "running"
  /\ \E session \in Endings,
        missing \in {{}} \cup {{receipt} : receipt \in Receipts(Planned.condition)} :
       LET pipe == <<Planned.id, runner.attempt>>
           own == ~RequiresBrain(Planned.condition) \/ serving[pipe] = runner.launch
           found == IF own THEN Receipts(Planned.condition) \ missing ELSE {}
       IN /\ runner' = [runner EXCEPT
               !.at = "ended",
               !.record = [sample |-> Planned.id, attempt |-> runner.attempt,
                           launch |-> runner.launch, own |-> own,
                           status |-> IF Exposed(Planned.condition, found)
                                      THEN Status(session) ELSE "HarnessFailure",
                           usage |-> UsageKnown(session),
                           turns |-> session.turns, drifted |-> FALSE]]
          /\ serving' = IF own THEN [serving EXCEPT ![pipe] = Nothing] ELSE serving
  /\ UNCHANGED <<plan, drift, samples, torn, launches, sheet, grades, report, retired, benchFaults>>

(* append_sample, which refuses a second record of an attempt and so ends  *)
(* the run; then the configuration and the frozen brain are verified       *)
(* again, and a change ends the run.                                       *)
RecordSample ==
  /\ runner.at = "ended"
  /\ LET found == drift \cap {"config", "snapshot"} # {}
         taken == \E r \in ToSet(samples) :
                    r.sample = Planned.id /\ r.attempt = runner.attempt
     IN /\ samples' = IF taken THEN samples
                      ELSE Append(samples, [runner.record EXCEPT !.drifted = found])
        /\ runner' = IF taken \/ drift \cap CheckedAfterSample # {} THEN AtRest
                     ELSE [runner EXCEPT !.at = "next", !.record = Nothing,
                                         !.known = Append(@, runner.record)]
  /\ UNCHANGED <<plan, drift, torn, serving, launches, sheet, grades, report, retired, benchFaults>>

(* The orchestrator dies; a service it started lives on.  A line it was    *)
(* writing is left as it is, and no command reads the file again.          *)
CrashRun ==
  /\ runner # AtRest /\ benchFaults < MaxCrashes
  /\ benchFaults' = benchFaults + 1
  /\ runner' = AtRest
  /\ torn' \in (IF runner.at = "ended" THEN BOOLEAN ELSE {FALSE})
  /\ UNCHANGED <<plan, drift, samples, serving, launches, sheet, grades, report, retired>>

----------------------------------------------------------------------------
(* Grades and the report                                                   *)

(* One row of the sheet for every record, under the opaque name of its     *)
(* sample.                                                                 *)
ExportGrading ==
  /\ plan # "none" /\ sheet = Nothing /\ ~torn
  /\ sheet' = samples
  /\ UNCHANGED <<plan, drift, samples, torn, runner, serving, launches, grades, report,
                 retired, benchFaults>>

(* append_grade refuses another grade for a name, and a grade imported by  *)
(* another command differs in its date.  The rows before the first refusal *)
(* are kept.                                                               *)
ImportGrades ==
  /\ sheet # Nothing
  /\ \E verdict \in [1..Len(sheet) -> {"pass", "fail"}] :
       LET refused(i) ==
             \/ \E g \in grades : g.sample = sheet[i].sample
             \/ \E j \in 1..(i - 1) : sheet[j].sample = sheet[i].sample /\ verdict[j] # verdict[i]
           kept == {i \in 1..Len(sheet) : \A j \in 1..i : ~refused(j)}
       IN /\ kept # {}
          /\ grades' = grades \cup {[sample |-> sheet[i].sample, verdict |-> verdict[i]] : i \in kept}
  /\ UNCHANGED <<plan, drift, samples, torn, runner, serving, launches, sheet, report,
                 retired, benchFaults>>

(* The record a report takes for a sample: the last one of the file.       *)
Reported(id) ==
  IF RecordsOf(samples, id) = {} THEN Nothing ELSE samples[Max(RecordsOf(samples, id))]

MatrixComplete == \A p \in ToSet(Matrix) : Reported(p.id) # Nothing

UsageComplete ==
  \A p \in ToSet(Matrix) :
    Reported(p.id) # Nothing /\ Reported(p.id).status = "Completed" /\ Reported(p.id).usage

GradingComplete == \A p \in ToSet(Matrix) : \E g \in grades : g.sample = p.id

(* The blocks of which both the control and the treatment can be compared. *)
Pairs ==
  {block \in {p.block : p \in ToSet(Matrix)} :
     \A condition \in {"C0", "C4"} : \E p \in ToSet(Matrix) :
       /\ p.block = block /\ p.condition = condition
       /\ Reported(p.id) # Nothing /\ Reported(p.id).usage
       /\ \E g \in grades : g.sample = p.id}

MakeReport ==
  /\ plan \in {"valid", "invalid"} /\ ~torn
  /\ report' = [supported |-> /\ plan = "valid" /\ MatrixComplete /\ UsageComplete
                              /\ GradingComplete
                              /\ Pairs = {p.block : p \in ToSet(Matrix)},
                used |-> {Reported(p.id) : p \in ToSet(Matrix)} \ {Nothing}]
  /\ UNCHANGED <<plan, drift, samples, torn, runner, serving, launches, sheet, grades,
                 retired, benchFaults>>

Retire ==
  /\ plan # "none" /\ ~retired
  /\ retired' = TRUE
  /\ UNCHANGED <<plan, drift, samples, torn, runner, serving, launches, sheet, grades,
                 report, benchFaults>>

(* The newest summary of a run that was not retired: what is shown.        *)
Shown == IF retired THEN Nothing ELSE report

----------------------------------------------------------------------------
BenchInit ==
  /\ plan = "none" /\ drift = {} /\ samples = <<>> /\ torn = FALSE
  /\ runner = AtRest
  /\ serving = [pipe \in {p.id : p \in ToSet(Matrix)} \X (1..MaxAttempts) |-> Nothing]
  /\ launches = 0 /\ sheet = Nothing /\ grades = {} /\ report = Nothing /\ retired = FALSE
  /\ benchFaults = 0

BenchNext ==
  \/ Preflight \/ Drift
  \/ StartRun \/ NextSample \/ EndRun \/ Launch \/ FailToPrepare \/ EndSession \/ RecordSample
  \/ CrashRun \/ ExportGrading \/ ImportGrades \/ MakeReport \/ Retire

BenchSpec == BenchInit /\ [][BenchNext]_benchVars

----------------------------------------------------------------------------
(* An attempt that counts was served by the copy of the brain made for it, *)
(* although a service of an interrupted run may still hold its pipe.       *)
OwnBrain == \A r \in ToSet(samples) : r.status = "Completed" => r.own

(* A sample is not paid for again once an answer of it is recorded, and    *)
(* has at most MaxAttempts attempts on record, whatever the interruptions. *)
NoPaidRepeat ==
  \A i, j \in 1..Len(samples) :
    i < j /\ samples[i].sample = samples[j].sample =>
      samples[i].status # "Completed" /\ samples[i].attempt < samples[j].attempt
                                      /\ samples[j].attempt <= MaxAttempts

(* Nothing is measured after a change of the configuration or of the       *)
(* frozen brain came to light: the record taken across it is the last.     *)
DriftEndsRun == \A i \in 1..Len(samples) : samples[i].drifted => i = Len(samples)

(* A summary that is shown supports a claim only with a completed answer   *)
(* of every planned sample, its usage known, given by its own brain.       *)
ClaimSupported ==
  Shown # Nothing /\ Shown.supported =>
    \A p \in ToSet(Matrix) : \E r \in Shown.used :
      r.sample = p.id /\ r.status = "Completed" /\ r.usage /\ r.own

(* What of a run of the benchmark, and of what it is said to show, is       *)
(* correct at every step, together.                                         *)
BenchmarkSound == OwnBrain /\ NoPaidRepeat /\ DriftEndsRun /\ ClaimSupported
================================================================================
