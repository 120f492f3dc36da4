------------------------------- MODULE Deployment -------------------------------
(***************************************************************************)
(* Deployment: scripts/deploy.ps1 builds the source and replaces the       *)
(* installed binaries; brain-cli/src/deployment.rs tells whether they are  *)
(* those of the source; install_mcp.rs wires Claude's MCP server to them.  *)
(* A deploy can fail or be killed between two steps, and a binary be       *)
(* locked, or copied by hand.                                              *)
(*                                                                         *)
(* The content of a file is the version of the source it was built from.   *)
(***************************************************************************)
EXTENDS Naturals

CONSTANTS
  Binaries,  \* DEPLOYED_BINARIES
  MaxEdits,  \* bound: versions of the source
  Absent

VARIABLES
  source,    \* [tree, head]: the version on disk and the last committed one
  target,    \* target/release
  bin,       \* <brain home>/bin
  deployed,  \* deploy.json
  deploy,    \* the running deploy
  mcp        \* the MCP server named brain: its owner, or Absent

deployVars == <<source, target, bin, deployed, deploy, mcp>>

----------------------------------------------------------------------------
Edit ==
  /\ source.tree < MaxEdits
  /\ source' = [source EXCEPT !.tree = @ + 1]
  /\ UNCHANGED <<target, bin, deployed, deploy, mcp>>

Commit ==
  /\ source.head # source.tree
  /\ source' = [source EXCEPT !.head = source.tree]
  /\ UNCHANGED <<target, bin, deployed, deploy, mcp>>

NoDeploy == [at |-> "none"]
Manifest(status, commit, fingerprint, binaries) ==
  [status |-> status, commit |-> commit, fingerprint |-> fingerprint, binaries |-> binaries]
(* The binaries of a manifest: what was in place after the deploy, for each *)
(* one that it came to.                                                     *)
Unrecorded == [b \in {} |-> Absent]
Recorded(binaries, b, sha, replaced) ==
  [c \in DOMAIN binaries \cup {b} |->
     IF c = b THEN [sha |-> sha, replaced |-> replaced] ELSE binaries[c]]

(* The lock: a deploy that finds another at work is skipped.               *)
BeginDeploy ==
  /\ deploy.at = "none"
  /\ deployed' = Manifest("running", source.head, Absent, Unrecorded)
  /\ deploy' = [at |-> "building"]
  /\ UNCHANGED <<source, target, bin, mcp>>

Build ==
  /\ deploy.at = "building"
  /\ \/ /\ target' = [b \in Binaries |-> source.tree]
        /\ deploy' = [at |-> "built"]
        /\ UNCHANGED deployed
     \/ /\ deployed' = [deployed EXCEPT !.status = "failed"]
        /\ deploy' = NoDeploy
        /\ UNCHANGED target
  /\ UNCHANGED <<source, bin, mcp>>

(* source-fingerprint, by the binary just built; it may be unavailable.    *)
Fingerprint ==
  /\ deploy.at = "built"
  /\ \E fingerprint \in {source.tree, Absent} :
       deploy' = [at |-> "installing", left |-> Binaries, fingerprint |-> fingerprint,
                  binaries |-> Unrecorded]
  /\ UNCHANGED <<source, target, bin, deployed, mcp>>

(* Install-Binary: replaced, or locked and left as it was.                 *)
InstallBinary(b) ==
  /\ deploy.at = "installing" /\ b \in deploy.left
  /\ \E replaced \in BOOLEAN :
       /\ bin' = IF replaced THEN [bin EXCEPT ![b] = target[b]] ELSE bin
       /\ deploy' = [deploy EXCEPT !.left = @ \ {b},
                       !.binaries = Recorded(@, b, bin'[b], replaced)]
  /\ UNCHANGED <<source, target, deployed, mcp>>

FinishDeploy ==
  /\ deploy.at = "installing" /\ deploy.left = {}
  /\ deployed' = Manifest("succeeded", deployed.commit, deploy.fingerprint, deploy.binaries)
  /\ deploy' = NoDeploy
  /\ UNCHANGED <<source, target, bin, mcp>>

(* The script fails, or its process is killed; its lock is gone with it.   *)
StopDeploy ==
  /\ deploy.at # "none"
  /\ deployed' \in {deployed, [deployed EXCEPT !.status = "failed"]}
  /\ deploy' = NoDeploy
  /\ UNCHANGED <<source, target, bin, mcp>>

(* A binary put in place without a deploy.                                 *)
CopyByHand(b) ==
  /\ target[b] # Absent /\ bin[b] # target[b] /\ deploy.at = "none"
  /\ bin' = [bin EXCEPT ![b] = target[b]]
  /\ UNCHANGED <<source, target, deployed, deploy, mcp>>

(* read_deployment.                                                        *)
Drifted == {b \in DOMAIN deployed.binaries : deployed.binaries[b].sha # bin[b]}
Unreplaced == {b \in DOMAIN deployed.binaries : ~deployed.binaries[b].replaced}

SourceChanged ==
  IF deployed.fingerprint # Absent THEN deployed.fingerprint # source.tree
  ELSE deployed.commit # source.head

(* Mutant: a deploy that was cut short is not told from one that finished. *)
UpToDateWhateverStatus ==
  deployed # Absent /\ ~SourceChanged /\ Drifted = {} /\ Unreplaced = {}

UpToDate ==
  /\ deployed # Absent /\ deployed.status = "succeeded"
  /\ ~SourceChanged /\ Drifted = {} /\ Unreplaced = {}

(* The MCP server: never another's, and only while the binaries are those  *)
(* of the source, once there was a deploy.                                 *)
InstallMcp ==
  /\ mcp = Absent /\ (\E b \in Binaries : bin[b] # Absent)
  /\ deployed = Absent \/ UpToDate
  /\ mcp' = "brain"
  /\ UNCHANGED <<source, target, bin, deployed, deploy>>

UninstallMcp ==
  /\ mcp = "brain"
  /\ mcp' = Absent
  /\ UNCHANGED <<source, target, bin, deployed, deploy>>

----------------------------------------------------------------------------
DeployInit ==
  /\ source = [tree |-> 0, head |-> 0]
  /\ target = [b \in Binaries |-> Absent] /\ bin = [b \in Binaries |-> Absent]
  /\ deployed = Absent /\ deploy = NoDeploy /\ mcp \in {Absent, "another"}

DeployNext ==
  \/ Edit \/ Commit \/ BeginDeploy \/ Build \/ Fingerprint \/ FinishDeploy \/ StopDeploy
  \/ \E b \in Binaries : InstallBinary(b) \/ CopyByHand(b)
  \/ InstallMcp \/ UninstallMcp

DeploySpec == DeployInit /\ [][DeployNext]_deployVars

----------------------------------------------------------------------------
(* When the dashboard says up to date, the installed binaries are all of   *)
(* one build: not some of a deploy that was cut short, not one that was    *)
(* locked, not one copied by hand (deployment.rs:17-24, 229-232).          *)
NoMixedBuild == UpToDate => \A b, c \in Binaries : bin[b] = bin[c]

============================================================================
