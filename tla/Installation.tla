------------------------------ MODULE Installation ------------------------------
(***************************************************************************)
(* Installation of the service: its scheduled tasks and install manifest   *)
(* (brain-cli/src/service.rs) and the hooks in the settings of the         *)
(* harnesses (install_hooks.rs).  The installer can fail or be killed      *)
(* between two steps; the settings are also edited by other tools.         *)
(***************************************************************************)
EXTENDS Naturals, FiniteSets

CONSTANTS
  Scheduled,   \* the scheduled tasks
  Harnesses,
  HookEvents,  \* BRAIN_HOOK_EVENTS
  Paths,       \* executables hooks are installed for
  MaxSteps,    \* bound: commands of the installer and edits of the settings
  Missing

VARIABLES
  tasks,     \* tasks in the scheduler
  installed, \* the install manifest: the path of the hooks, or Missing
  hooked,    \* the hooks of each harness: records [event, tool, path]
  installer, \* the running command: install, uninstall or install-hooks
  steps

installVars == <<tasks, installed, hooked, installer, steps>>

----------------------------------------------------------------------------
(* The hooks in the settings of a harness: the file is read, changed and   *)
(* replaced whole.                                                         *)
Brain(path) == {[event |-> e, tool |-> "brain", path |-> path] : e \in HookEvents}
OfBrain(hooks) == {h \in hooks : h.tool = "brain"}

\* Mutant: hooks are recognized by the path that is installed.
StrippedOfPath(hooks, path) == {h \in hooks : ~(h.tool = "brain" /\ h.path = path)}

(* Hooks are recognized by the name of the binary, whatever its path.      *)
Stripped(hooks, path) == hooks \ OfBrain(hooks)

CurrentOnly(hooks, path) == OfBrain(hooks) = Brain(path)
WithHooks(hooks, path) ==
  IF CurrentOnly(hooks, path) THEN hooks ELSE Stripped(hooks, path) \cup Brain(path)

EditSettings(h) ==
  /\ steps < MaxSteps /\ steps' = steps + 1
  /\ \E e \in HookEvents :
       LET entry == [event |-> e, tool |-> "other", path |-> "other"]
       IN hooked' = [hooked EXCEPT ![h] = IF entry \in @ THEN @ \ {entry} ELSE @ \cup {entry}]
  /\ UNCHANGED <<tasks, installed, installer>>

----------------------------------------------------------------------------
(* The installer.  command: "install", "uninstall" or "hooks"; left: the   *)
(* tasks and the harnesses still to do; read: the settings last read.      *)
NoInstaller == [command |-> "none"]
Running(command, path, todo, harnesses) ==
  [command |-> command, path |-> path, todo |-> todo, created |-> {},
   harnesses |-> harnesses, read |-> Missing]

(* Tasks of the same names without a manifest are someone else's.          *)
BeginInstall(path) ==
  /\ installed # Missing \/ tasks = {}
  /\ installer' = Running("install", path, Scheduled, Harnesses)

BeginUninstall ==
  /\ installed # Missing
  /\ installer' = Running("uninstall", installed, Scheduled, Harnesses)

BeginHooks(path) == \E h \in Harnesses : installer' = Running("hooks", path, {}, {h})

BeginCommand ==
  /\ installer.command = "none" /\ steps < MaxSteps /\ steps' = steps + 1
  /\ (\E path \in Paths : BeginInstall(path) \/ BeginHooks(path)) \/ BeginUninstall
  /\ UNCHANGED <<tasks, installed, hooked>>

(* The tasks created so far are deleted; one that cannot be is left.        *)
TakeBackTasks == \E deleted \in SUBSET installer.created : tasks' = tasks \ deleted

(* A task that cannot be created takes back the ones created so far.       *)
RegisterTask(t) ==
  /\ installer.command = "install" /\ t \in installer.todo
  /\ \/ /\ tasks' = tasks \cup {t}
        /\ installer' = [installer EXCEPT !.todo = @ \ {t}, !.created = @ \cup {t}]
     \/ TakeBackTasks /\ installer' = NoInstaller
  /\ UNCHANGED <<installed, hooked, steps>>

DeleteTask(t) ==
  /\ installer.command = "uninstall" /\ t \in installer.todo
  /\ \/ tasks' = tasks \ {t} /\ installer' = [installer EXCEPT !.todo = @ \ {t}]
     \/ t \in tasks /\ installer' = NoInstaller /\ UNCHANGED tasks
  /\ UNCHANGED <<installed, hooked, steps>>

ReadSettings(h) ==
  /\ installer.command # "none" /\ installer.todo = {}
  /\ installer.read = Missing /\ h \in installer.harnesses
  /\ installer' = [installer EXCEPT !.read = [harness |-> h, hooks |-> hooked[h]]]
  /\ UNCHANGED <<tasks, installed, hooked, steps>>

WriteSettings ==
  /\ installer.command # "none" /\ installer.read # Missing
  /\ LET h     == installer.read.harness
         hooks == installer.read.hooks
     IN /\ hooked' = [hooked EXCEPT ![h] =
                          IF installer.command = "uninstall" THEN Stripped(hooks, installer.path)
                          ELSE WithHooks(hooks, installer.path)]
        /\ installer' = [installer EXCEPT !.harnesses = @ \ {h}, !.read = Missing]
  /\ UNCHANGED <<tasks, installed, steps>>

(* Settings that cannot be read, parsed or written.  An install takes back *)
(* its tasks and the hooks of every harness, earlier ones too; where that  *)
(* fails, as it does if the settings stay unreadable, they are left.       *)
FailSettings ==
  /\ installer.command # "none" /\ installer.read # Missing
  /\ IF installer.command = "install"
     THEN /\ TakeBackTasks
          /\ \E taken \in SUBSET Harnesses :
               hooked' = [h \in Harnesses |->
                            IF h \in taken THEN Stripped(hooked[h], installer.path) ELSE hooked[h]]
     ELSE UNCHANGED <<tasks, hooked>>
  /\ installer' = NoInstaller
  /\ UNCHANGED <<installed, steps>>

(* The manifest is written last, and removed last.                         *)
Finish ==
  /\ installer.command # "none" /\ installer.todo = {} /\ installer.harnesses = {}
  /\ installed' = CASE installer.command = "install"   -> installer.path
                    [] installer.command = "uninstall" -> Missing
                    [] OTHER                           -> installed
  /\ installer' = NoInstaller
  /\ UNCHANGED <<tasks, hooked, steps>>

KillInstaller ==
  /\ installer.command # "none"
  /\ installer' = NoInstaller
  /\ UNCHANGED <<tasks, installed, hooked, steps>>

(* status_with.                                                            *)
StatusInstalled == installed # Missing /\ Scheduled \subseteq tasks

----------------------------------------------------------------------------
(* A settings file may hold hooks of an earlier version: another path, and *)
(* not every event.                                                        *)
InstallationInit ==
  /\ tasks = {} /\ installed = Missing /\ steps = 0
  /\ \E earlier \in SUBSET HookEvents, path \in Paths :
       hooked = [h \in Harnesses |->
                     {[event |-> e, tool |-> "brain", path |-> path] : e \in earlier}]
  /\ installer = NoInstaller

InstallationNext ==
  \/ BeginCommand \/ WriteSettings \/ FailSettings \/ Finish \/ KillInstaller
  \/ \E t \in Scheduled : RegisterTask(t) \/ DeleteTask(t)
  \/ \E h \in Harnesses : EditSettings(h) \/ ReadSettings(h)

InstallationSpec == InstallationInit /\ [][InstallationNext]_installVars

----------------------------------------------------------------------------
(* An event never runs two hooks of the brain, whichever paths they were   *)
(* installed for and whatever is killed or edited on the way               *)
(* (install_hooks.rs:85-89).                                               *)
HookedOnce ==
  \A h \in Harnesses : \A p, q \in OfBrain(hooked[h]) : p.event = q.event => p = q
============================================================================
