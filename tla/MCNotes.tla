------------------------------ MODULE MCNotes -------------------------------
(* Instances for TLC of Pressure and Vault: a behaviour plays disks that    *)
(* fill and empty ("pressure"), two notes of a project and a global         *)
(* preference that are edited, locked and imported ("edits"), or one note   *)
(* and what is derived, withdrawn and projected beside it ("changes").      *)
EXTENDS Pressure, Vault

CONSTANTS project, other, global, good, bad

VARIABLE scene

MCNotesSet == {project, other, global}
MCGlobal == {global}
MCRank == [n \in MCNotesSet |-> IF n = other THEN 1 ELSE 0]
MCContents == {good, bad}
MCRefused == {bad}

(* Three notes and nothing beside them; one note, and memories and rebuilds *)
(* beside it.                                                               *)
Edited == INSTANCE Vault WITH Builders <- {"service"}, MaxEdits <- 3, MaxChanges <- 0
Changed == INSTANCE Vault WITH MaxEdits <- 1, MaxChanges <- 2

notesVars == <<vars, vaultVars, scene>>

(* A disk is short of bytes, of percent, or as short of both.               *)
Samples ==
  {d \in DiskSample : d.bytes = d.percent \/ d.bytes = Recovery \/ d.percent = Recovery}

Presses(action) ==
  scene = "pressure" /\ action /\ disk' \in [Roots -> Samples] /\ UNCHANGED <<vaultVars, scene>>
Edits(action) == scene = "edits" /\ action /\ UNCHANGED <<vars, scene>>
Changes(action) ==
  /\ scene = "changes" /\ action /\ UNCHANGED <<vars, scene>>
  /\ \A p \in {other, global} : note'[p] = None /\ versions'[p] = <<>>

NotesInit ==
  /\ scene \in {"pressure", "edits", "changes"} /\ Init /\ VaultInit
  /\ disk \in [Roots -> Samples]
  /\ scene # "pressure" => disk = CHOOSE d \in [Roots -> Samples] : TRUE

NotesNext == Presses(Next) \/ Edits(Edited!VaultNext) \/ Changes(Changed!VaultNext)

(* The fairness of both modules.                                            *)
NotesSpec ==
  /\ NotesInit /\ [][NotesNext]_notesVars
  /\ WF_notesVars(Presses(Evaluate))
  /\ WF_notesVars(Edits(Edited!ServiceStep)) /\ WF_notesVars(Changes(Changed!ServiceStep))

(* Vault: what the memories say is in the vault in the end.                 *)
ClaimsInVault == scene # "pressure" => ClaimsPublished
=============================================================================
