------------------------------ MODULE NotesProofs ------------------------------
(***************************************************************************)
(* Proofs about disk pressure, for every set of disks, every ordered       *)
(* policy and every number of recovery checks, and about notes and what is *)
(* derived from memories, for any notes, contents and number of edits,     *)
(* rebuilds, failures and kills.                                           *)
(*                                                                         *)
(* The controller keeps a count of its own (checks); the argument is that  *)
(* it never runs ahead of the healthy samples there really were in a row   *)
(* (streak), through relapses, recoveries, samples that fail and restarts. *)
(*                                                                         *)
(* An import knows what it stored already, by the step it is at.  While    *)
(* only one rebuild is under way, the generation it has published stays    *)
(* whole until it is done: every removal is its own, and spares it.        *)
(***************************************************************************)
EXTENDS Pressure, Vault, FiniteSetTheorems, SequenceTheorems, TLAPS

----------------------------------------------------------------------------
(* Disk pressure.                                                           *)

(* What the controller knows, and that its count is an honest one.          *)
Inv ==
  /\ state \in DegradationState
  /\ checks \in 0..(RecoveryChecks - 1)
  /\ streak \in 0..RecoveryChecks
  /\ checks <= streak
  /\ DegradedInOrder

(* A sample of any disk: the state stays in order, and the count honest.    *)
LEMMA SampledKeeps ==
  ASSUME Inv, NEW d, Sampled(d),
         streak' = IF ~IsHealthy(d) THEN 0
                   ELSE IF streak < RecoveryChecks THEN streak + 1 ELSE streak
  PROVE  /\ Inv'
         /\ \A w \in Derived : state[w] /\ ~state'[w] => streak' = RecoveryChecks
<1>1. /\ state \in [Work -> BOOLEAN] /\ DegradedInOrder
      /\ checks \in 0..(RecoveryChecks - 1) /\ streak \in 0..RecoveryChecks /\ checks <= streak
      /\ RecoveryChecks \in Nat /\ RecoveryChecks > 0
  BY PolicyAssumption DEF Inv, DegradationState
<1>2. CASE IsHealthy(d) /\ checks + 1 >= RecoveryChecks
  <2>1. state' = NothingPaused /\ checks' = 0 /\ streak' = RecoveryChecks
    BY <1>1, <1>2 DEF Sampled, Checked
  <2> QED
    BY <1>1, <2>1 DEF Inv, NothingPaused, DegradationState, DegradedInOrder, Work, Derived
<1>3. CASE IsHealthy(d) /\ ~(checks + 1 >= RecoveryChecks)
  <2>1. state' = state /\ checks' = checks + 1
    BY <1>3 DEF Sampled, Checked
  <2>2. streak' \in 0..RecoveryChecks /\ checks' <= streak' /\ checks' \in 0..(RecoveryChecks - 1)
    BY <1>1, <1>3, <2>1
  <2> QED
    BY <1>1, <2>1, <2>2 DEF Inv, DegradationState, DegradedInOrder
<1>4. CASE ~IsHealthy(d)
  <2>1. state' = Degraded(d) /\ checks' = 0 /\ streak' = 0
    BY <1>4 DEF Sampled, Relapsed
  <2>2. Degraded(d) \in {[w \in Work |-> TRUE], [w \in Work |-> w # "capture"], Warned, state}
    BY DEF Degraded
  <2>3. /\ Warned \in [Work -> BOOLEAN]
        /\ Warned["provider_refresh"] /\ Warned["basic_memory"] /\ ~Warned["capture"]
        /\ \A w \in Derived : state[w] => Warned[w]
    BY <1>1 DEF Warned, Work, Derived
  <2>4. /\ state' \in DegradationState /\ DegradedInOrder'
        /\ \A w \in Derived : state[w] => state'[w]
    <3>1. CASE state' = [w \in Work |-> TRUE]
      BY <3>1 DEF DegradationState, DegradedInOrder, Work, Derived
    <3>2. CASE state' = [w \in Work |-> w # "capture"]
      BY <3>2 DEF DegradationState, DegradedInOrder, Work, Derived
    <3>3. CASE state' = Warned
      BY <3>3, <2>3 DEF DegradationState, DegradedInOrder, Work, Derived
    <3>4. CASE state' = state
      BY <3>4, <1>1 DEF DegradationState, DegradedInOrder
    <3> QED
      BY <2>1, <2>2, <3>1, <3>2, <3>3, <3>4
  <2> QED
    BY <1>1, <2>1, <2>4 DEF Inv
<1> QED
  BY <1>2, <1>3, <1>4

LEMMA InvInit == Init => Inv
BY PolicyAssumption
   DEF Init, Inv, NothingPaused, DegradationState, DegradedInOrder, Work, Derived

LEMMA EvaluateKeeps ==
  ASSUME Inv, Evaluate
  PROVE  /\ Inv'
         /\ \A w \in Derived : state[w] /\ ~state'[w] => streak' = RecoveryChecks
<1>1. CASE readable = {}
  BY <1>1 DEF Evaluate, Inv, DegradedInOrder
<1>2. CASE readable # {}
  BY <1>2, SampledKeeps DEF Evaluate
<1> QED
  BY <1>1, <1>2

LEMMA InvNext == Inv /\ [Next]_vars => Inv'
<1> SUFFICES ASSUME Inv, [Next]_vars PROVE Inv'
  OBVIOUS
<1>1. CASE Evaluate
  BY <1>1, EvaluateKeeps
<1>2. CASE Restart
  BY <1>2, PolicyAssumption
     DEF Restart, Inv, NothingPaused, DegradationState, DegradedInOrder, Work, Derived
<1>3. CASE UNCHANGED <<state, checks, streak>>
  BY <1>3 DEF Inv, DegradedInOrder
<1> QED
  BY <1>1, <1>2, <1>3 DEF Next, ProbeChanges, DiskChanges, vars

LEMMA Invariant == Spec => []Inv
BY InvInit, InvNext, PTL DEF Spec

(* Whatever the samples of however many disks were, work is given up in     *)
(* order: capture last, and nothing critical before the provider refresh.   *)
THEOREM OrderKept == Spec => []DegradedInOrder
<1>1. Inv => DegradedInOrder
  BY DEF Inv
<1> QED
  BY <1>1, Invariant, PTL

(* Derived work starts again only after as many healthy samples in a row as *)
(* the policy asks for.                                                     *)
THEOREM RecoveryIsEarned == Spec => RecoveryEarned
<1>1. Inv /\ [Next]_vars =>
        [Evaluate =>
           \A w \in Derived : state[w] /\ ~state'[w] => streak' = RecoveryChecks]_vars
  BY EvaluateKeeps
<1> QED
  BY <1>1, Invariant, PTL DEF Spec, RecoveryEarned

----------------------------------------------------------------------------
(* Notes and their imports.                                                 *)

ScanState ==
  [root : {"none", "global", "project"}, left : SUBSET Notes, import : Import \cup {None}]

NotesTyped ==
  /\ note \in [Notes -> Contents \cup {None}] /\ imported \in [Notes -> Contents \cup {None}]
  /\ queued \subseteq Notes \X Contents /\ resolved \subseteq queued
  /\ audited \subseteq Notes \X Contents
  /\ versions \in [Notes -> Seq(Version)] /\ withdrawn \subseteq Notes
  /\ paragraph \in (SUBSET Claim) \cup {None} /\ drafting \in (SUBSET Claim) \cup {None}
  /\ scan \in ScanState

(* What of a note is stored before it counts as imported.                   *)
VersionStored(p, c) == [by |-> "note", says |-> c] \in ToSet(versions[p])

(* An import past a step has stored what the step stores; the audit row of  *)
(* a preference comes with its record.                                      *)
ImportGoes ==
  scan.import # None =>
    LET p == scan.import.of
        c == scan.import.says
    IN /\ scan.import.step # "event" => p \in Global \/ <<p, c>> \in audited
       /\ scan.import.step = "record" => VersionStored(p, c)

NotesOK == NotesTyped /\ ImportGoes /\ ImportBacked

LEMMA NotesInitially == VaultInit => NotesOK
<1> SUFFICES ASSUME VaultInit PROVE NotesOK
  OBVIOUS
<1>1. NotesTyped
  <2>1. <<>> \in Seq(Version)
    OBVIOUS
  <2>2. versions \in [Notes -> Seq(Version)]
    BY <2>1 DEF VaultInit
  <2>3. note \in [Notes -> Contents \cup {None}] /\ imported \in [Notes -> Contents \cup {None}]
    BY DEF VaultInit
  <2>4. scan \in ScanState
    BY DEF VaultInit, Quiet, ScanState
  <2> QED
    BY <2>2, <2>3, <2>4 DEF VaultInit, NotesTyped
<1>2. ImportGoes /\ ImportBacked
  BY DEF VaultInit, ImportGoes, ImportBacked, Quiet
<1> QED
  BY <1>1, <1>2 DEF NotesOK

(* Steps that leave the notes and the memories alone, and begin no import.  *)
LEMMA ScanGoes ==
  ASSUME NotesOK, UNCHANGED <<noteVars, memoryVars>>,
         scan' \in ScanState, scan'.import = None \/ scan' = scan
  PROVE  NotesOK'
<1>1. ImportBacked'
  BY DEF NotesOK, ImportBacked, noteVars, memoryVars
<1>2. NotesTyped'
  BY DEF NotesOK, NotesTyped, noteVars, memoryVars
<1>3. ImportGoes'
  BY DEF NotesOK, ImportGoes, VersionStored, noteVars, memoryVars
<1> QED
  BY <1>1, <1>2, <1>3 DEF NotesOK

LEMMA NotesIdle ==
  ASSUME NotesOK, UNCHANGED <<noteVars, memoryVars>>, scan' \in {scan, Quiet}
  PROVE  NotesOK'
<1>1. scan \in ScanState /\ Quiet \in ScanState /\ Quiet.import = None
  BY DEF NotesOK, NotesTyped, Quiet, ScanState
<1> QED
  BY <1>1, ScanGoes

LEMMA DiscoveredTyped ==
  ASSUME NEW root \in {"global", "project"}
  PROVE  Discovered(root) \in ScanState /\ Discovered(root).import = None
BY DEF Discovered, ScanState

LEMMA ScanEnds ==
  ASSUME NotesOK, UNCHANGED <<noteVars, memoryVars>>, scan.import = None,
         scan' = [scan EXCEPT !.left = {}]
  PROVE  NotesOK'
<1>1. scan' \in ScanState /\ scan'.import = None
  BY DEF NotesOK, NotesTyped, ScanState
<1> QED
  BY <1>1, ScanGoes

(* The import that is under way.                                            *)
LEMMA ImportTyped ==
  ASSUME NotesOK, scan.import # None
  PROVE  scan.import \in Import /\ scan.import.of \in Notes /\ scan.import.says \in Contents
BY DEF NotesOK, NotesTyped, ScanState, Import

LEMMA EditKeeps ==
  ASSUME NotesOK, NEW p \in Notes, NEW c \in Contents \cup {None}, Edit(p, c)
  PROVE  NotesOK'
<1>1. NotesTyped'
  BY DEF Edit, NotesOK, NotesTyped, noteVars, memoryVars
<1>2. ImportBacked' /\ ImportGoes'
  BY DEF Edit, NotesOK, ImportBacked, ImportGoes, VersionStored, memoryVars
<1> QED
  BY <1>1, <1>2 DEF NotesOK

(* Versions that are added to: what was stored stays stored.                *)
LEMMA VersionsGrow ==
  ASSUME NotesOK, NEW p \in Notes, NEW s \in Seq(Version), versions' = [versions EXCEPT ![p] = s],
         ToSet(versions[p]) \subseteq ToSet(s), UNCHANGED <<imported, audited>>
  PROVE  /\ versions' \in [Notes -> Seq(Version)]
         /\ ImportBacked'
         /\ \A q \in Notes, c \in Contents : VersionStored(q, c) => VersionStored(q, c)'
<1>1. versions \in [Notes -> Seq(Version)] /\ imported \in [Notes -> Contents \cup {None}]
  BY DEF NotesOK, NotesTyped
<1>2. versions' \in [Notes -> Seq(Version)]
  BY <1>1
<1>3. \A q \in Notes : ToSet(versions[q]) \subseteq ToSet(versions'[q])
  BY <1>1
<1>4. \A q \in Notes, c \in Contents : VersionStored(q, c) => VersionStored(q, c)'
  BY <1>3 DEF VersionStored
<1>5. ImportBacked'
  BY <1>3 DEF NotesOK, ImportBacked
<1> QED
  BY <1>2, <1>4, <1>5

LEMMA DeriveKeeps ==
  ASSUME NotesOK, NEW p \in Notes, NEW c \in Contents, Derive(p, c)
  PROVE  NotesOK'
<1> DEFINE v == [by |-> "service", says |-> c]
<1>1. v \in Version /\ <<v>> \in Seq(Version) /\ versions[p] = <<>>
      /\ versions' = [versions EXCEPT ![p] = <<v>>]
      /\ UNCHANGED <<noteVars, withdrawn, paragraph, drafting, scan>>
  BY DEF Derive, Version
<1>2. ToSet(versions[p]) \subseteq ToSet(<<v>>)
  BY <1>1 DEF ToSet
<1> HIDE DEF v
<1>3. /\ versions' \in [Notes -> Seq(Version)]
      /\ ImportBacked'
      /\ \A q \in Notes, d \in Contents : VersionStored(q, d) => VersionStored(q, d)'
  BY <1>1, <1>2, VersionsGrow DEF noteVars
<1>4. NotesTyped'
  BY <1>1, <1>3 DEF NotesOK, NotesTyped, noteVars
<1>5. ImportGoes'
  BY <1>1, <1>3, ImportTyped DEF NotesOK, ImportGoes, noteVars
<1> QED
  BY <1>3, <1>4, <1>5 DEF NotesOK

LEMMA WithdrawKeeps ==
  ASSUME NotesOK, NEW p \in Notes, Withdraw(p)
  PROVE  NotesOK'
BY DEF Withdraw, NotesOK, NotesTyped, ImportGoes, ImportBacked, VersionStored, noteVars

(* The latest versions are claims.                                          *)
LEMMA ClaimsTyped ==
  ASSUME NotesTyped
  PROVE  Claims \subseteq Claim /\ Shown \in (SUBSET Claim) \cup {None}
<1>1. \A p \in Projected : <<p, Last(versions[p])>> \in Claim
  <2> TAKE p \in Projected
  <2>1. p \in Notes /\ versions[p] \in Seq(Version) /\ versions[p] # <<>>
    BY DEF Projected, NotesTyped
  <2>2. Last(versions[p]) \in Version
    BY <2>1 DEF Last
  <2> QED
    BY <2>1, <2>2 DEF Claim
<1>2. Claims \subseteq Claim
  BY <1>1 DEF Claims
<1>3. Shown \in (SUBSET Claim) \cup {None}
  BY DEF Shown, NotesTyped
<1> QED
  BY <1>2, <1>3

LEMMA DraftKeeps ==
  ASSUME NotesOK, Survey \/ StoreParagraph
  PROVE  NotesOK'
<1>1. NotesTyped'
  <2>1. CASE Survey
    BY <2>1, ClaimsTyped DEF Survey, NotesOK, NotesTyped, noteVars
  <2>2. CASE StoreParagraph
    BY <2>2 DEF StoreParagraph, NotesOK, NotesTyped, noteVars
  <2> QED
    BY <2>1, <2>2
<1>2. ImportGoes' /\ ImportBacked'
  BY DEF Survey, StoreParagraph, NotesOK, ImportGoes, ImportBacked, VersionStored, noteVars
<1> QED
  BY <1>1, <1>2 DEF NotesOK

LEMMA ScanNoteKeeps ==
  ASSUME NotesOK, NEW p \in Notes, ScanNote(p)
  PROVE  NotesOK'
<1>1. NotesTyped
  BY DEF NotesOK
<1>2. UNCHANGED <<note, imported, resolved, audited, memoryVars>>
  BY DEF ScanNote, Queue
<1>3. ImportBacked'
  BY <1>2 DEF NotesOK, ImportBacked, memoryVars
<1>4. CASE scan' \in {[scan EXCEPT !.left = @ \ {p}], [scan EXCEPT !.left = {}]}
           /\ UNCHANGED queued /\ scan.import = None
  <2>1. scan' \in ScanState /\ scan'.import = None
    BY <1>1, <1>4 DEF NotesTyped, ScanState
  <2>2. ImportGoes' /\ NotesTyped'
    BY <1>1, <1>2, <1>4, <2>1 DEF NotesTyped, ImportGoes, memoryVars
  <2> QED
    BY <1>3, <2>2 DEF NotesOK
<1>5. CASE note[p] \in Refused /\ queued' = queued \cup {<<p, note[p]>>}
           /\ scan' = [scan EXCEPT !.left = @ \ {p}] /\ scan.import = None
  <2>1. scan' \in ScanState /\ scan'.import = None
    BY <1>1, <1>5 DEF NotesTyped, ScanState
  <2>2. queued' \subseteq Notes \X Contents /\ queued \subseteq queued'
    BY <1>1, <1>5, NotesAssumption DEF NotesTyped
  <2>3. ImportGoes' /\ NotesTyped'
    BY <1>1, <1>2, <2>1, <2>2 DEF NotesTyped, ImportGoes, memoryVars
  <2> QED
    BY <1>3, <2>3 DEF NotesOK
<1>6. ASSUME NEW begun \in Import, note[p] \in Contents, begun.of = p, begun.says = note[p],
             begun.step = IF p \in Global THEN "memory" ELSE "event",
             scan' = [[scan EXCEPT !.left = @ \ {p}] EXCEPT !.import = begun], UNCHANGED queued
      PROVE  NotesOK'
  <2>1. scan' \in ScanState /\ scan'.import = begun
    BY <1>1, <1>6 DEF NotesTyped, ScanState
  <2>2. NotesTyped'
    BY <1>1, <1>2, <1>6, <2>1 DEF NotesTyped, memoryVars
  <2>3. ImportGoes'
    BY <2>1, <1>6 DEF ImportGoes
  <2> QED
    BY <1>3, <2>2, <2>3 DEF NotesOK
<1>7. CASE note[p] \in Contents \ (Refused \cup {imported[p]})
           /\ scan' = [[scan EXCEPT !.left = @ \ {p}] EXCEPT !.import =
                         [of |-> p, says |-> note[p],
                          step |-> IF p \in Global THEN "memory" ELSE "event"]]
           /\ UNCHANGED queued
  <2> DEFINE begun == [of |-> p, says |-> note[p],
                       step |-> IF p \in Global THEN "memory" ELSE "event"]
  <2>1. begun \in Import /\ begun.of = p /\ begun.says = note[p]
        /\ begun.step = IF p \in Global THEN "memory" ELSE "event"
    BY <1>7 DEF Import
  <2>2. scan' = [[scan EXCEPT !.left = @ \ {p}] EXCEPT !.import = begun]
    BY <1>7
  <2> HIDE DEF begun
  <2> QED
    BY <1>6, <1>7, <2>1, <2>2
<1> QED
  BY <1>4, <1>5, <1>7 DEF ScanNote, Queue, AfterRefusal

(* An import goes on to a step.                                             *)
LEMMA ImportStepped ==
  ASSUME NotesOK, scan.import # None, NEW step \in {"event", "memory", "record"},
         scan' = [scan EXCEPT !.import.step = step]
  PROVE  /\ scan' \in ScanState
         /\ scan'.import.of = scan.import.of /\ scan'.import.says = scan.import.says
         /\ scan'.import.step = step
<1>1. scan \in ScanState
      /\ scan.import \in Import
  BY ImportTyped DEF NotesOK, NotesTyped
<1> DEFINE import == [scan.import EXCEPT !.step = step]
<1>2. import \in Import /\ import.of = scan.import.of /\ import.says = scan.import.says
      /\ import.step = step
  BY <1>1 DEF Import
<1>3. scan' = [scan EXCEPT !.import = import]
  OBVIOUS
<1> HIDE DEF import
<1> QED
  BY <1>1, <1>2, <1>3 DEF ScanState

LEMMA AppendAuditKeeps ==
  ASSUME NotesOK, AppendAudit
  PROVE  NotesOK'
<1>1. scan.import # None /\ scan' = [scan EXCEPT !.import.step = "memory"]
      /\ audited' = audited \cup {<<scan.import.of, scan.import.says>>}
      /\ UNCHANGED <<note, imported, queued, resolved, memoryVars>>
  BY DEF AppendAudit, Importing
<1>2. scan.import.of \in Notes /\ scan.import.says \in Contents
  BY <1>1, ImportTyped
<1>3. /\ scan' \in ScanState
      /\ scan'.import.of = scan.import.of /\ scan'.import.says = scan.import.says
      /\ scan'.import.step = "memory"
  BY <1>1, ImportStepped
<1>4. NotesTyped'
  <2>1. audited' \subseteq Notes \X Contents
    BY <1>1, <1>2 DEF NotesOK, NotesTyped
  <2> QED
    BY <1>1, <2>1, <1>3 DEF NotesOK, NotesTyped, memoryVars
<1>5. ImportGoes' /\ ImportBacked'
  BY <1>1, <1>3 DEF NotesOK, ImportGoes, ImportBacked, memoryVars
<1> QED
  BY <1>4, <1>5 DEF NotesOK

LEMMA AppendCorrectionKeeps ==
  ASSUME NotesOK, AppendCorrection
  PROVE  NotesOK'
<1>1. PICK p \in Notes, c \in Contents : p = scan.import.of /\ c = scan.import.says
  BY ImportTyped DEF AppendCorrection, Importing
<1>2. scan.import # None /\ scan' = [scan EXCEPT !.import.step = "record"]
      /\ scan.import.step = "memory"
      /\ versions' = [versions EXCEPT ![p] = Corrected(p, c)]
      /\ UNCHANGED <<noteVars, withdrawn, paragraph, drafting>>
  BY <1>1 DEF AppendCorrection, Importing
<1> DEFINE v == [by |-> "note", says |-> c]
<1>3. versions[p] \in Seq(Version) /\ v \in Version
  BY DEF NotesOK, NotesTyped, Version
<1>4. /\ Corrected(p, c) \in Seq(Version)
      /\ ToSet(versions[p]) \subseteq ToSet(Corrected(p, c))
      /\ v \in ToSet(Corrected(p, c))
  <2>1. CASE v \in ToSet(versions[p])
    BY <1>3, <2>1 DEF Corrected
  <2>2. CASE v \notin ToSet(versions[p])
    <3>1. Corrected(p, c) = Append(versions[p], v)
      BY <2>2 DEF Corrected
    <3> HIDE DEF v
    <3> QED
      BY <1>3, <3>1 DEF ToSet
  <2> QED
    BY <2>1, <2>2
<1>5. /\ versions' \in [Notes -> Seq(Version)]
      /\ ImportBacked'
      /\ \A q \in Notes, d \in Contents : VersionStored(q, d) => VersionStored(q, d)'
  BY <1>2, <1>4, VersionsGrow DEF noteVars
<1>6. VersionStored(p, c)'
  BY <1>2, <1>4 DEF NotesOK, NotesTyped, VersionStored
<1>7. /\ scan' \in ScanState
      /\ scan'.import.of = p /\ scan'.import.says = c
      /\ scan'.import.step = "record"
  BY <1>1, <1>2, ImportStepped
<1>8. NotesTyped'
  BY <1>2, <1>5, <1>7 DEF NotesOK, NotesTyped, noteVars
<1>9. p \in Global \/ <<p, c>> \in audited'
  BY <1>1, <1>2 DEF NotesOK, ImportGoes, noteVars
<1>10. ImportGoes'
  BY <1>6, <1>7, <1>9 DEF ImportGoes
<1> QED
  BY <1>5, <1>8, <1>10 DEF NotesOK

LEMMA RecordImportKeeps ==
  ASSUME NotesOK, RecordImport
  PROVE  NotesOK'
<1>1. PICK p \in Notes, c \in Contents : p = scan.import.of /\ c = scan.import.says
  BY ImportTyped DEF RecordImport, Importing
<1>2. /\ scan.import # None /\ scan.import.step = "record"
      /\ imported' = [imported EXCEPT ![p] = c]
      /\ resolved' = resolved \cup Resolves(p)
      /\ audited' = IF p \in Global THEN audited \cup {<<p, c>>} ELSE audited
      /\ scan' = [scan EXCEPT !.import = None]
      /\ UNCHANGED <<note, queued, memoryVars>>
  BY <1>1 DEF RecordImport, Importing, ScanRest
<1>3. NotesTyped'
  <2>1. imported' \in [Notes -> Contents \cup {None}] /\ audited' \subseteq Notes \X Contents
    BY <1>2 DEF NotesOK, NotesTyped
  <2>2. resolved' \subseteq queued
    BY <1>2 DEF NotesOK, NotesTyped, Resolves
  <2>3. scan' \in ScanState
    BY <1>2 DEF NotesOK, NotesTyped, ScanState
  <2> QED
    BY <1>2, <2>1, <2>2, <2>3 DEF NotesOK, NotesTyped, memoryVars
<1>4. scan'.import = None
  BY <1>2 DEF NotesOK, NotesTyped, ScanState
<1>5. ImportGoes'
  BY <1>4 DEF ImportGoes
<1>6. <<p, c>> \in audited' /\ VersionStored(p, c)' /\ audited \subseteq audited'
  BY <1>1, <1>2 DEF NotesOK, ImportGoes, VersionStored, memoryVars
<1>7. ImportBacked'
  <2> SUFFICES ASSUME NEW q \in Notes, imported'[q] # None
               PROVE  /\ <<q, imported'[q]>> \in audited'
                      /\ [by |-> "note", says |-> imported'[q]] \in ToSet(versions'[q])
    BY DEF ImportBacked
  <2>1. CASE q = p
    BY <1>2, <1>6, <2>1 DEF NotesOK, NotesTyped, VersionStored
  <2>2. CASE q # p
    BY <1>2, <1>6, <2>2 DEF NotesOK, NotesTyped, ImportBacked, memoryVars
  <2> QED
    BY <2>1, <2>2
<1> QED
  BY <1>3, <1>5, <1>7 DEF NotesOK

LEMMA FailImportKeeps ==
  ASSUME NotesOK, FailImport
  PROVE  NotesOK'
<1>1. scan.import.of \in Notes /\ scan.import.says \in Contents
  BY ImportTyped DEF FailImport
<1>2. /\ queued' \in {queued, queued \cup {<<scan.import.of, scan.import.says>>}}
      /\ scan' \in {[scan EXCEPT !.import = None], [scan EXCEPT !.left = {}, !.import = None]}
      /\ UNCHANGED <<note, imported, resolved, audited, memoryVars>>
  BY DEF FailImport, Queue, ScanRest
<1>3. NotesTyped'
  <2>1. queued' \subseteq Notes \X Contents /\ queued \subseteq queued'
    BY <1>1, <1>2 DEF NotesOK, NotesTyped
  <2>2. scan' \in ScanState
    BY <1>2 DEF NotesOK, NotesTyped, ScanState
  <2> QED
    BY <1>2, <2>1, <2>2 DEF NotesOK, NotesTyped, memoryVars
<1>4. scan'.import = None
  BY <1>2 DEF NotesOK, NotesTyped, ScanState
<1>5. ImportGoes' /\ ImportBacked'
  BY <1>2, <1>4 DEF NotesOK, ImportGoes, ImportBacked, memoryVars
<1> QED
  BY <1>3, <1>5 DEF NotesOK

----------------------------------------------------------------------------
(* Generations, the manifest and the view.                                  *)

Stages ==
  {"idle", "count", "publish", "manifest", "prune", "done", "copied", "torn", "aside",
   "aside torn"}

(* Nothing is rendered yet.                                                 *)
Rests == {"idle", "count"}

BuilderState == [at : Stages, rendering : Rendering \cup {None}, counted : Nat]

DiskTyped ==
  /\ builder \in [Builders -> BuilderState]
  /\ \A b \in Builders : builder[b].at \notin Rests => builder[b].rendering \in Rendering
  /\ DOMAIN generations \subseteq Rendering
  /\ \A g \in DOMAIN generations : generations[g] \in {"whole", "partial"}
  /\ manifest \in Rendering \cup {None}
  /\ view \in [live : {"none", "whole", "partial"}, aside : {"none", "whole", "partial"}]
  /\ remembered \in Nat \cup {None}

Whole(g, on) == g \in DOMAIN on /\ on[g] = "whole"

(* A rebuild that has published finds what it published, until it is done,  *)
(* and prunes what current.json does not name.                              *)
Holds(r, on, named) ==
  /\ r.at \in {"manifest", "prune", "done"} => Whole(r.rendering, on)
  /\ r.at = "prune" => named = r.rendering
  /\ r.at \notin {"torn", "aside torn"}

(* Only one rebuild is under way.                                           *)
Sole == \A a, b \in Builders : builder[a].at \notin Rests /\ builder[b].at \notin Rests => a = b

ViewWhole == view.live # "partial" /\ view.aside # "partial"

DiskOK ==
  /\ DiskTyped
  /\ ~overlapped =>
       /\ Sole
       /\ \A b \in Builders : Holds(builder[b], generations, manifest)
       /\ ManifestWhole /\ ViewWhole

LEMMA DiskInitially == VaultInit => DiskOK
<1> SUFFICES ASSUME VaultInit PROVE DiskOK
  OBVIOUS
<1>1. DiskTyped
  <2>1. Idle \in BuilderState
    BY DEF Idle, BuilderState, Stages
  <2>2. DOMAIN generations = {}
    BY DEF VaultInit
  <2>3. \A b \in Builders : builder[b].at = "idle"
    BY DEF VaultInit, Idle
  <2> QED
    BY <2>1, <2>2, <2>3 DEF VaultInit, DiskTyped, Rests
<1>2. Sole /\ (\A b \in Builders : Holds(builder[b], generations, manifest))
  BY DEF VaultInit, Sole, Holds, Idle, Rests
<1>3. ManifestWhole /\ ViewWhole
  BY DEF VaultInit, ManifestWhole, ViewWhole
<1> QED
  BY <1>1, <1>2, <1>3 DEF DiskOK

(* Steps of people, of the scan and of the memories.                        *)
LEMMA DiskIdle ==
  ASSUME DiskOK, UNCHANGED <<diskVars, remembered, builder>>
  PROVE  DiskOK'
BY DEF DiskOK, DiskTyped, Sole, ManifestWhole, ViewWhole, diskVars

(* A step of one rebuild, after which it is the only one as it was before.  *)
LEMMA RebuildSteps ==
  ASSUME DiskOK, NEW b \in Builders, NEW r \in BuilderState,
         builder' = [builder EXCEPT ![b] = r],
         DiskTyped', overlapped' = overlapped,
         builder[b].at \in Rests => r.at \in Rests /\ UNCHANGED <<generations, manifest>>,
         ~overlapped => Holds(r, generations', manifest') /\ ManifestWhole' /\ ViewWhole'
  PROVE  DiskOK'
<1> SUFFICES ASSUME ~overlapped
             PROVE  Sole' /\ \A a \in Builders : Holds(builder'[a], generations', manifest')
  BY DEF DiskOK
<1>1. builder \in [Builders -> BuilderState] /\ Sole
      /\ \A a \in Builders : Holds(builder[a], generations, manifest)
  BY DEF DiskOK, DiskTyped
<1>2. builder'[b] = r /\ \A a \in Builders \ {b} : builder'[a] = builder[a]
  BY <1>1
<1>3. Sole'
  BY <1>1, <1>2 DEF Sole
<1>4. ASSUME NEW a \in Builders
      PROVE  Holds(builder'[a], generations', manifest')
  <2>1. CASE a = b
    BY <1>2, <2>1
  <2>2. CASE a # b /\ builder[b].at \in Rests
    BY <1>1, <1>2, <2>2
  <2>3. CASE a # b /\ builder[b].at \notin Rests
    BY <1>1, <1>2, <2>3 DEF Sole, Holds, Rests
  <2> QED
    BY <2>1, <2>2, <2>3
<1> QED
  BY <1>3, <1>4

(* How far a rebuild is, when it goes on or ends.                           *)
LEMMA StageTyped ==
  ASSUME DiskTyped, NEW b \in Builders, NEW at \in Stages
  PROVE  /\ builder[b] \in BuilderState /\ Idle \in BuilderState
         /\ [builder[b] EXCEPT !.at = at] \in BuilderState
         /\ [builder[b] EXCEPT !.at = at].at = at
         /\ [builder[b] EXCEPT !.at = at].rendering = builder[b].rendering
         /\ [builder EXCEPT ![b].at = at] = [builder EXCEPT ![b] = [builder[b] EXCEPT !.at = at]]
<1>1. builder[b] \in BuilderState
  BY DEF DiskTyped
<1>2. Idle \in BuilderState
  BY DEF Idle, BuilderState, Stages
<1>3. /\ [builder[b] EXCEPT !.at = at] \in BuilderState
      /\ [builder[b] EXCEPT !.at = at].at = at
      /\ [builder[b] EXCEPT !.at = at].rendering = builder[b].rendering
  BY <1>1 DEF BuilderState
<1> QED
  BY <1>1, <1>2, <1>3

(* The rows are finitely many, whatever the versions are.                   *)
LEMMA VersionCounted ==
  ASSUME NotesTyped
  PROVE  VersionCount \in Nat
<1> DEFINE Rows(p) == {p} \X DOMAIN versions[p]
           Of == [p \in Notes \ Global |-> Rows(p)]
           All == {Rows(p) : p \in Notes \ Global}
<1>1. IsFiniteSet(Notes \ Global)
  BY NotesAssumption, FS_Subset
<1>2. Of \in Surjection(Notes \ Global, All)
  BY DEF Surjection
<1>3. IsFiniteSet(All)
  <2> HIDE DEF Of, All
  <2> QED
    BY <1>1, <1>2, FS_Surjection
<1>4. \A T \in All : IsFiniteSet(T)
  <2> SUFFICES ASSUME NEW p \in Notes \ Global PROVE IsFiniteSet(Rows(p))
    OBVIOUS
  <2>1. versions[p] \in Seq(Version)
    BY DEF NotesTyped
  <2>2. DOMAIN versions[p] = 1..Len(versions[p]) /\ Len(versions[p]) \in Nat
    BY <2>1
  <2>3. IsFiniteSet(DOMAIN versions[p])
    BY <2>2, FS_Interval
  <2>4. IsFiniteSet({p})
    BY FS_Singleton
  <2> QED
    BY <2>3, <2>4, FS_Product
<1>5. IsFiniteSet(UNION All)
  <2> HIDE DEF All
  <2> QED
    BY <1>3, <1>4, FS_UNION
<1>6. Cardinality(UNION All) \in Nat
  BY <1>5, FS_CardinalityType
<1> QED
  BY <1>6 DEF VersionCount

(* A rebuild begins: beside another one, it overlaps.                       *)
LEMMA RenderKeeps ==
  ASSUME NotesTyped, DiskOK, NEW b \in Builders, builder[b].at \in Rests, Render(b)
  PROVE  DiskOK'
<1>1. DiskTyped
  BY DEF DiskOK
<1> DEFINE shown == [claims |-> Claims, paragraph |-> Shown]
           r == [builder[b] EXCEPT !.at = "publish", !.rendering = shown]
<1>2. r \in BuilderState /\ r.at = "publish" /\ r.rendering \in Rendering
  <2>1. shown \in Rendering
    BY ClaimsTyped DEF Rendering
  <2> HIDE DEF shown
  <2> QED
    BY <1>1, <2>1 DEF DiskTyped, BuilderState, Stages
<1>3. /\ builder[b].at \in Rests /\ builder' = [builder EXCEPT ![b] = r]
      /\ overlapped' = (overlapped \/ \E a \in Builders : builder[a].at \notin Rests)
      /\ UNCHANGED <<generations, manifest, view, remembered>>
  BY <1>1 DEF Render, Rests, DiskTyped
<1> HIDE DEF r
<1>4. DiskTyped'
  BY <1>1, <1>2, <1>3 DEF DiskTyped
<1> SUFFICES ASSUME ~overlapped'
             PROVE  /\ Sole'
                    /\ \A a \in Builders : Holds(builder'[a], generations', manifest')
                    /\ ManifestWhole' /\ ViewWhole'
  BY <1>4 DEF DiskOK
<1>5. ~overlapped /\ \A a \in Builders : builder[a].at \in Rests
  BY <1>3
<1>6. builder'[b] = r /\ \A a \in Builders \ {b} : builder'[a] = builder[a]
  BY <1>1, <1>3 DEF DiskTyped
<1>7. Sole'
  BY <1>5, <1>6 DEF Sole
<1>8. \A a \in Builders : Holds(builder'[a], generations', manifest')
  BY <1>2, <1>5, <1>6 DEF Holds, Rests
<1>9. ManifestWhole' /\ ViewWhole'
  BY <1>3, <1>5 DEF DiskOK, ManifestWhole, ViewWhole
<1> QED
  BY <1>7, <1>8, <1>9

(* The versions are counted: nothing is rendered yet.                       *)
LEMMA CountKeeps ==
  ASSUME NotesTyped, DiskOK, CountVersions
  PROVE  DiskOK'
<1>1. DiskTyped /\ "service" \in Builders
  BY BuildersAssumption DEF DiskOK
<1> DEFINE r == [builder["service"] EXCEPT !.at = "count", !.counted = VersionCount]
<1>2. r \in BuilderState /\ r.at = "count"
  BY <1>1, VersionCounted DEF DiskTyped, BuilderState, Stages
<1>3. /\ builder["service"].at = "idle" /\ builder' = [builder EXCEPT !["service"] = r]
      /\ UNCHANGED <<generations, manifest, view, overlapped, remembered>>
  BY <1>1 DEF CountVersions, Scanned, diskVars, DiskTyped
<1> HIDE DEF r
<1>4. DiskTyped'
  BY <1>1, <1>2, <1>3 DEF DiskTyped, Rests
<1>5. ~overlapped => Holds(r, generations', manifest') /\ ManifestWhole' /\ ViewWhole'
  BY <1>2, <1>3 DEF DiskOK, Holds, ManifestWhole, ViewWhole
<1> QED
  BY <1>1, <1>2, <1>3, <1>4, <1>5, RebuildSteps DEF Rests

(* What a rebuild that is not idle holds.                                   *)
LEMMA Held ==
  ASSUME DiskOK, NEW b \in Builders
  PROVE  ~overlapped => Holds(builder[b], generations, manifest) /\ ManifestWhole /\ ViewWhole
BY DEF DiskOK

LEMMA PublishKeeps ==
  ASSUME DiskOK, NEW b \in Builders, Publish(b)
  PROVE  DiskOK'
<1>1. DiskTyped
  BY DEF DiskOK
<1>2. PICK r \in BuilderState :
        /\ builder' = [builder EXCEPT ![b] = r]
        /\ r.at = "manifest" /\ r.rendering = builder[b].rendering
  BY <1>1, StageTyped DEF Publish, Goto, Stages
<1>3. builder[b].at = "publish" /\ UNCHANGED <<manifest, view, overlapped, remembered>>
  BY DEF Publish
<1>4. PICK g : g = builder[b].rendering
  OBVIOUS
<1>5. /\ Whole(g, generations')
      /\ DOMAIN generations' \subseteq DOMAIN generations \cup {g}
      /\ \A h \in DOMAIN generations : h \in DOMAIN generations' /\ generations'[h] = generations[h]
  <2>1. CASE Present(b) /\ UNCHANGED generations
    BY <1>4, <2>1 DEF Present, Whole
  <2>2. CASE /\ g \notin DOMAIN generations
             /\ generations' = [h \in DOMAIN generations \cup {g} |->
                                  IF h = g THEN "whole" ELSE generations[h]]
    BY <2>2 DEF Whole
  <2> QED
    BY <1>4, <2>1, <2>2 DEF Publish
<1>6. DiskTyped'
  <2>1. builder' \in [Builders -> BuilderState]
    BY <1>1, <1>2 DEF DiskTyped
  <2>2. g \in Rendering
    BY <1>1, <1>3, <1>4 DEF DiskTyped, Rests
  <2>3. \A a \in Builders : builder'[a].at \notin Rests => builder'[a].rendering \in Rendering
    BY <1>1, <1>2, <1>3, <1>4, <2>2 DEF DiskTyped, Rests
  <2>4. \A h \in DOMAIN generations' : generations'[h] \in {"whole", "partial"}
    BY <1>1, <1>5 DEF DiskTyped, Whole
  <2>5. DOMAIN generations' \subseteq Rendering
    BY <1>1, <1>5, <2>2 DEF DiskTyped
  <2> QED
    BY <1>1, <1>3, <2>1, <2>3, <2>4, <2>5 DEF DiskTyped
<1>7. ~overlapped => Holds(r, generations', manifest') /\ ManifestWhole' /\ ViewWhole'
  BY <1>2, <1>3, <1>4, <1>5, Held DEF Holds, ManifestWhole, ViewWhole
<1> QED
  BY <1>2, <1>3, <1>6, <1>7, RebuildSteps DEF Rests

LEMMA WriteManifestKeeps ==
  ASSUME DiskOK, NEW b \in Builders, WriteManifest(b)
  PROVE  DiskOK'
<1>1. DiskTyped
  BY DEF DiskOK
<1>2. PICK r \in BuilderState :
        /\ builder' = [builder EXCEPT ![b] = r]
        /\ r.at = "prune" /\ r.rendering = builder[b].rendering
  BY <1>1, StageTyped DEF WriteManifest, Goto, Stages
<1>3. /\ builder[b].at = "manifest" /\ manifest' = builder[b].rendering
      /\ UNCHANGED <<generations, view, overlapped, remembered>>
  BY DEF WriteManifest
<1>4. DiskTyped'
  BY <1>1, <1>2, <1>3 DEF DiskTyped, Rests, BuilderState
<1>5. ~overlapped => Holds(r, generations', manifest') /\ ManifestWhole' /\ ViewWhole'
  BY <1>2, <1>3, Held DEF Holds, ManifestWhole, ViewWhole, Whole
<1> QED
  BY <1>2, <1>3, <1>4, <1>5, RebuildSteps DEF Rests

LEMMA PruneKeeps ==
  ASSUME DiskOK, NEW b \in Builders, Prune(b)
  PROVE  DiskOK'
<1>1. DiskTyped
  BY DEF DiskOK
<1>2. PICK r \in BuilderState :
        /\ builder' = [builder EXCEPT ![b] = r]
        /\ r.at = "done" /\ r.rendering = builder[b].rendering
  BY <1>1, StageTyped DEF Prune, Goto, Stages
<1>3. builder[b].at = "prune" /\ UNCHANGED <<manifest, view, overlapped, remembered>>
  BY DEF Prune
<1>4. PICK g : g = builder[b].rendering
  OBVIOUS
<1>5. /\ DOMAIN generations' \subseteq DOMAIN generations
      /\ \A h \in DOMAIN generations' : generations'[h] \in {generations[h], "partial"}
      /\ g \in DOMAIN generations => g \in DOMAIN generations' /\ generations'[g] = generations[g]
  <2>1. CASE generations' = [h \in DOMAIN generations \cap {g} |-> generations[h]]
    BY <2>1
  <2>2. ASSUME NEW kept \in SUBSET (DOMAIN generations \ {g}), NEW torn \in SUBSET kept,
               generations' = [h \in (DOMAIN generations \cap {g}) \cup kept |->
                                 IF h \in torn THEN "partial" ELSE generations[h]]
        PROVE  /\ DOMAIN generations' \subseteq DOMAIN generations
               /\ \A h \in DOMAIN generations' : generations'[h] \in {generations[h], "partial"}
               /\ g \in DOMAIN generations =>
                    g \in DOMAIN generations' /\ generations'[g] = generations[g]
    BY <2>2
  <2> QED
    BY <1>4, <2>1, <2>2 DEF Prune
<1>6. DiskTyped'
  BY <1>1, <1>2, <1>3, <1>5 DEF DiskTyped, Rests
<1>7. ~overlapped => Holds(r, generations', manifest') /\ ManifestWhole' /\ ViewWhole'
  BY <1>2, <1>3, <1>4, <1>5, Held DEF Holds, ManifestWhole, ViewWhole, Whole
<1> QED
  BY <1>2, <1>3, <1>6, <1>7, RebuildSteps DEF Rests

(* A rebuild is over, or gives up.                                          *)
LEMMA EndKeeps ==
  ASSUME DiskOK, NEW b \in Builders, builder' = [builder EXCEPT ![b] = Idle],
         UNCHANGED <<generations, manifest, overlapped>>,
         \/ view' = view
         \/ view' = [view EXCEPT !.aside = "none"]
         \/ view' = [live |-> view.aside, aside |-> "none"]
         \/ view' = [live |-> "whole", aside |-> "none"]
         \/ view' = [live |-> "partial", aside |-> "none"] /\ builder[b].at = "aside torn",
         remembered' \in Nat \cup {None}
  PROVE  DiskOK'
<1>1. DiskTyped
  BY DEF DiskOK
<1>2. Idle \in BuilderState /\ Idle.at = "idle"
  BY DEF Idle, BuilderState, Stages
<1>3. /\ view' \in [live : {"none", "whole", "partial"}, aside : {"none", "whole", "partial"}]
      /\ ~overlapped => ViewWhole'
  <2>1. /\ view \in [live : {"none", "whole", "partial"}, aside : {"none", "whole", "partial"}]
        /\ ~overlapped => ViewWhole /\ builder[b].at # "aside torn"
    BY <1>1, Held DEF DiskTyped, Holds
  <2>2. CASE view' = view
    BY <2>1, <2>2 DEF ViewWhole
  <2>3. CASE view' = [view EXCEPT !.aside = "none"]
    BY <2>1, <2>3 DEF ViewWhole
  <2>4. CASE view' = [live |-> view.aside, aside |-> "none"]
    BY <2>1, <2>4 DEF ViewWhole
  <2>5. CASE view' = [live |-> "whole", aside |-> "none"]
    BY <2>5 DEF ViewWhole
  <2>6. CASE view' = [live |-> "partial", aside |-> "none"] /\ builder[b].at = "aside torn"
    BY <2>1, <2>6
  <2> QED
    BY <2>2, <2>3, <2>4, <2>5, <2>6
<1>4. DiskTyped'
  BY <1>1, <1>2, <1>3 DEF DiskTyped, Rests
<1>5. ~overlapped => Holds(Idle, generations', manifest') /\ ManifestWhole' /\ ViewWhole'
  BY <1>2, <1>3, Held DEF Holds, ManifestWhole
<1> QED
  BY <1>2, <1>4, <1>5, RebuildSteps DEF Rests

LEMMA CopyViewKeeps ==
  ASSUME DiskOK, CopyView
  PROVE  DiskOK'
<1>1. DiskTyped /\ "shell" \in Builders
  BY DEF DiskOK, CopyView
<1>2. PICK at \in {"copied", "torn"} :
        /\ builder' = [builder EXCEPT !["shell"].at = at]
        /\ at = "torn" => \/ generations[builder["shell"].rendering] = "partial"
                          \/ builder["service"].at = "prune"
  BY DEF CopyView, Goto
<1>3. PICK r \in BuilderState :
        /\ builder' = [builder EXCEPT !["shell"] = r]
        /\ r.at = at /\ r.rendering = builder["shell"].rendering
  <2>1. at \in Stages
    BY DEF Stages
  <2> QED
    BY <1>1, <1>2, <2>1, StageTyped
<1>4. builder["shell"].at = "done" /\ UNCHANGED <<diskVars, remembered>>
  BY DEF CopyView
<1>5. DiskTyped'
  BY <1>1, <1>3, <1>4 DEF DiskTyped, Rests, diskVars
<1>6. ~overlapped => Holds(r, generations', manifest') /\ ManifestWhole' /\ ViewWhole'
  <2> SUFFICES ASSUME ~overlapped
               PROVE  Holds(r, generations', manifest') /\ ManifestWhole' /\ ViewWhole'
    OBVIOUS
  <2>1. Whole(builder["shell"].rendering, generations)
    BY <1>1, <1>4, Held DEF Holds
  <2>2. builder["service"].at # "prune"
    BY <1>1, <1>4, BuildersAssumption DEF DiskOK, Sole, Rests
  <2>3. at = "copied"
    BY <1>2, <2>1, <2>2 DEF Whole
  <2> QED
    BY <1>1, <1>3, <1>4, <2>3, Held DEF Holds, ManifestWhole, ViewWhole, diskVars
<1> QED
  BY <1>1, <1>3, <1>4, <1>5, <1>6, RebuildSteps DEF diskVars, Rests

LEMMA PutAsideKeeps ==
  ASSUME DiskOK, PutAside
  PROVE  DiskOK'
<1>1. DiskTyped /\ "shell" \in Builders
  BY DEF DiskOK, PutAside
<1>2. PICK at \in {"aside", "aside torn"} :
        /\ builder' = [builder EXCEPT !["shell"].at = at]
        /\ at = "aside torn" => builder["shell"].at = "torn"
  BY DEF PutAside, Goto
<1>3. PICK r \in BuilderState :
        /\ builder' = [builder EXCEPT !["shell"] = r]
        /\ r.at = at /\ r.rendering = builder["shell"].rendering
  <2>1. at \in Stages
    BY DEF Stages
  <2> QED
    BY <1>1, <1>2, <2>1, StageTyped
<1>4. /\ builder["shell"].at \in {"copied", "torn"} /\ view' = [live |-> "none", aside |-> view.live]
      /\ UNCHANGED <<generations, manifest, overlapped, remembered>>
  BY DEF PutAside
<1>5. DiskTyped'
  BY <1>1, <1>3, <1>4 DEF DiskTyped, Rests
<1>6. ~overlapped => Holds(r, generations', manifest') /\ ManifestWhole' /\ ViewWhole'
  BY <1>1, <1>2, <1>3, <1>4, Held DEF Holds, ManifestWhole, ViewWhole
<1> QED
  BY <1>1, <1>3, <1>4, <1>5, <1>6, RebuildSteps DEF Rests

----------------------------------------------------------------------------
VaultInv == NotesOK /\ DiskOK

LEMMA VaultNextKeeps == VaultInv /\ [VaultNext]_vaultVars => VaultInv'
<1> SUFFICES ASSUME VaultInv, [VaultNext]_vaultVars PROVE VaultInv'
  OBVIOUS
<1>1. NotesOK /\ DiskOK /\ NotesTyped /\ DiskTyped
  BY DEF VaultInv, NotesOK, DiskOK
<1>2. CASE UNCHANGED vaultVars
  BY <1>1, <1>2, NotesIdle, DiskIdle DEF VaultInv, vaultVars
<1>3. CASE BeginScan
  BY <1>1, <1>3, DiscoveredTyped, ScanGoes, DiskIdle DEF VaultInv, BeginScan
<1>4. ASSUME NEW p \in Notes, ScanNote(p) PROVE VaultInv'
  BY <1>1, <1>4, ScanNoteKeeps, DiskIdle DEF VaultInv, ScanNote
<1>5. CASE AppendAudit
  BY <1>1, <1>5, AppendAuditKeeps, DiskIdle DEF VaultInv, AppendAudit
<1>6. CASE AppendCorrection
  BY <1>1, <1>6, AppendCorrectionKeeps, DiskIdle DEF VaultInv, AppendCorrection
<1>7. CASE RecordImport
  BY <1>1, <1>7, RecordImportKeeps, DiskIdle DEF VaultInv, RecordImport
<1>8. CASE RenderChanged
  BY <1>1, <1>8, NotesIdle, RenderKeeps, BuildersAssumption
     DEF VaultInv, RenderChanged, Render, Rests
<1>9. CASE SkipProjection
  BY <1>1, <1>9, NotesIdle, DiskIdle DEF VaultInv, SkipProjection
<1>10. CASE FinishTick
  <2>1. remembered' \in Nat \cup {None}
    BY <1>1, <1>10, BuildersAssumption DEF FinishTick, Remembers, DiskTyped, BuilderState
  <2> QED
    BY <1>1, <1>10, <2>1, NotesIdle, EndKeeps, BuildersAssumption DEF VaultInv, FinishTick, diskVars
<1>11. ASSUME NEW b \in Builders, Rebuild(b) PROVE VaultInv'
  <2>1. CASE Publish(b)
    BY <1>1, <2>1, NotesIdle, PublishKeeps DEF VaultInv, Publish
  <2>2. CASE WriteManifest(b)
    BY <1>1, <2>2, NotesIdle, WriteManifestKeeps DEF VaultInv, WriteManifest
  <2>3. CASE Prune(b)
    BY <1>1, <2>3, NotesIdle, PruneKeeps DEF VaultInv, Prune
  <2>4. CASE FailRebuild(b)
    <3>1. scan' \in {scan, Quiet}
      BY <2>4 DEF FailRebuild
    <3>2. /\ builder' = [builder EXCEPT ![b] = Idle]
          /\ UNCHANGED <<noteVars, memoryVars, diskVars, remembered>>
      BY <2>4 DEF FailRebuild
    <3>3. remembered' \in Nat \cup {None}
      BY <1>1, <3>2 DEF DiskTyped
    <3> QED
      BY <1>1, <3>1, <3>2, <3>3, NotesIdle, EndKeeps DEF VaultInv, diskVars
  <2> QED
    BY <1>11, <2>1, <2>2, <2>3, <2>4 DEF Rebuild
<1>12. CASE RebuildByHand
  BY <1>1, <1>12, NotesIdle, RenderKeeps DEF VaultInv, RebuildByHand, Render, Rests
<1>13. CASE CopyView
  BY <1>1, <1>13, NotesIdle, CopyViewKeeps DEF VaultInv, CopyView
<1>14. CASE PutAside
  BY <1>1, <1>14, NotesIdle, PutAsideKeeps DEF VaultInv, PutAside
<1>15. CASE PutInPlace
  <2>1. \/ view' = [live |-> view.aside, aside |-> "none"]
        \/ view' = [live |-> "whole", aside |-> "none"]
        \/ view' = [live |-> "partial", aside |-> "none"] /\ builder["shell"].at = "aside torn"
    BY <1>15 DEF PutInPlace
  <2>2. /\ "shell" \in Builders /\ builder' = [builder EXCEPT !["shell"] = Idle]
        /\ UNCHANGED <<noteVars, memoryVars, generations, manifest, overlapped, scan, remembered>>
    BY <1>15 DEF PutInPlace
  <2>3. remembered' \in Nat \cup {None}
    BY <1>1, <2>2 DEF DiskTyped
  <2> QED
    BY <1>1, <2>1, <2>2, <2>3, NotesIdle, EndKeeps DEF VaultInv
<1>16. CASE EndShell
  <2>1. remembered' \in Nat \cup {None}
    BY <1>1, <1>16 DEF DiskTyped, EndShell
  <2> QED
    BY <1>1, <1>16, <2>1, NotesIdle, EndKeeps DEF VaultInv, EndShell, diskVars
<1>17. CASE FailImport
  BY <1>1, <1>17, FailImportKeeps, DiskIdle DEF VaultInv, FailImport
<1>18. ASSUME NEW b \in Builders, Crash(b) PROVE VaultInv'
  <2>1. /\ scan' \in {scan, Quiet} /\ view' \in {view, [view EXCEPT !.aside = "none"]}
        /\ remembered' \in {remembered, None}
        /\ builder' = [builder EXCEPT ![b] = Idle]
        /\ UNCHANGED <<noteVars, memoryVars, generations, manifest, overlapped>>
    BY <1>18 DEF Crash
  <2>2. remembered' \in Nat \cup {None}
    BY <1>1, <2>1 DEF DiskTyped
  <2> QED
    BY <1>1, <2>1, <2>2, NotesIdle, EndKeeps DEF VaultInv
<1>19. ASSUME NEW p \in Notes, NEW c \in Contents \cup {None}, Edit(p, c) PROVE VaultInv'
  BY <1>1, <1>19, EditKeeps, DiskIdle DEF VaultInv, Edit
<1>20. ASSUME NEW p \in Notes, NEW c \in Contents, Derive(p, c) PROVE VaultInv'
  BY <1>1, <1>20, DeriveKeeps, DiskIdle DEF VaultInv, Derive
<1>21. ASSUME NEW p \in Notes, Withdraw(p) PROVE VaultInv'
  BY <1>1, <1>21, WithdrawKeeps, DiskIdle DEF VaultInv, Withdraw
<1>22. CASE Survey \/ StoreParagraph
  BY <1>1, <1>22, DraftKeeps, DiskIdle DEF VaultInv, Survey, StoreParagraph
<1>25. CASE ScanProject
  BY <1>1, <1>25, DiscoveredTyped, ScanGoes, DiskIdle DEF VaultInv, ScanProject
<1>26. CASE CountVersions
  BY <1>1, <1>26, NotesIdle, CountKeeps DEF VaultInv, CountVersions
<1>27. CASE FailScan
  BY <1>1, <1>27, NotesIdle, ScanEnds, DiskIdle DEF VaultInv, FailScan
<1>28. CASE Hinder \/ Ease
  BY <1>1, <1>28, NotesIdle, DiskIdle DEF VaultInv, Hinder, Ease
<1>23. CASE ServiceStep
  BY <1>23, <1>25, <1>26, <1>3, <1>4, <1>5, <1>6, <1>7, <1>8, <1>9, <1>10, <1>11, BuildersAssumption
     DEF ServiceStep, Scan
<1>24. CASE ShellStep
  BY <1>24, <1>11, <1>12, <1>13, <1>14, <1>15, <1>16 DEF ShellStep
<1> QED
  BY <1>2, <1>17, <1>18, <1>19, <1>20, <1>21, <1>22, <1>23, <1>24, <1>27, <1>28 DEF VaultNext

(* What hinders the service comes and goes by itself.                       *)
HindrancesTyped == locked \subseteq Notes /\ paused \in BOOLEAN

LEMMA HindrancesKept == HindrancesTyped /\ [VaultNext]_vaultVars => HindrancesTyped'
<1> SUFFICES ASSUME HindrancesTyped, [VaultNext]_vaultVars PROVE HindrancesTyped'
  OBVIOUS
<1>1. UNCHANGED hindrances => HindrancesTyped'
  BY DEF hindrances, HindrancesTyped
<1>2. CASE Hinder \/ Ease
  BY <1>2 DEF Hinder, Ease, HindrancesTyped
<1>3. ASSUME NEW b, Rebuild(b) \/ Crash(b) PROVE UNCHANGED hindrances
  BY <1>3 DEF Rebuild, Publish, WriteManifest, Prune, FailRebuild, Crash
<1>4. CASE BeginScan \/ ScanProject \/ CountVersions \/ SkipProjection \/ RenderChanged
           \/ FinishTick \/ FailScan \/ FailImport \/ AppendAudit \/ AppendCorrection \/ RecordImport
  BY <1>1, <1>4
     DEF BeginScan, ScanProject, CountVersions, SkipProjection, RenderChanged, Render, FinishTick,
         FailScan, FailImport, AppendAudit, AppendCorrection, RecordImport
<1>5. CASE \E p \in Notes : ScanNote(p) \/ Withdraw(p)
  BY <1>1, <1>5 DEF ScanNote, Withdraw
<1>6. CASE \E p \in Notes, c \in Contents \cup {None} : Edit(p, c) \/ Derive(p, c)
  BY <1>1, <1>6 DEF Edit, Derive
<1>7. CASE RebuildByHand \/ CopyView \/ PutAside \/ PutInPlace \/ EndShell \/ Survey \/ StoreParagraph
  BY <1>1, <1>7
     DEF RebuildByHand, Render, CopyView, PutAside, PutInPlace, EndShell, Survey, StoreParagraph
<1>8. CASE UNCHANGED vaultVars
  BY <1>1, <1>8 DEF vaultVars
<1> QED
  BY <1>1, <1>2, <1>3, <1>4, <1>5, <1>6, <1>7, <1>8 DEF VaultNext, ServiceStep, ShellStep, Scan

LEMMA VaultInvariant == VaultSpec => [](VaultInv /\ HindrancesTyped)
<1>1. VaultInit => VaultInv /\ HindrancesTyped
  BY NotesInitially, DiskInitially DEF VaultInv, VaultInit, HindrancesTyped
<1> QED
  BY <1>1, VaultNextKeeps, HindrancesKept, PTL DEF VaultSpec

(* Whatever people write into the notes and whenever an import fails or the *)
(* service stops, a note counts as imported only with its audit event and   *)
(* its version; and unless two rebuilds overlap, current.json leads to a    *)
(* whole generation and the view is whole.                                  *)
THEOREM NotesStayBacked == VaultSpec => []VaultSound
<1>1. VaultInv /\ HindrancesTyped => VaultSound
  <2> SUFFICES ASSUME VaultInv, HindrancesTyped PROVE VaultSound
    OBVIOUS
  <2>1. NotesTyped /\ DiskTyped /\ ImportBacked
    BY DEF VaultInv, NotesOK, DiskOK
  <2>2. ManifestWhole /\ ViewComplete
    BY DEF VaultInv, DiskOK, ManifestWhole, ViewWhole, ViewComplete
  <2>3. \A p \in Notes : \A i \in DOMAIN versions[p] : versions[p][i] \in Version
    BY <2>1 DEF NotesTyped
  <2>4. \A b \in Builders : builder[b].rendering \in Rendering \cup {None}
    BY <2>1 DEF DiskTyped, BuilderState
  <2>5. VaultTypeOK
    BY <2>1, <2>3, <2>4 DEF VaultTypeOK, NotesTyped, DiskTyped, ScanState, HindrancesTyped
  <2> QED
    BY <2>1, <2>2, <2>5 DEF VaultSound
<1> QED
  BY <1>1, VaultInvariant, PTL
=============================================================================
