------------------------------ MODULE Registration ------------------------------
(***************************************************************************)
(* Registration, source rediscovery and the start of the service:          *)
(* brain-domain/src/{project,registry}.rs, brain-cli/src/register.rs and   *)
(* brain-service/src/{config,rediscover,runtime,main}.rs.  projects.json   *)
(* and service.json are read whole and written whole, each by one atomic   *)
(* replacement and without a lock, by `brain register` and by the service. *)
(*                                                                         *)
(* A path is the sequence of its characters.                               *)
(***************************************************************************)
EXTENDS Naturals, Sequences, FiniteSets, SequencesExt

CONSTANTS
  Roots,        \* directories that are registered
  Cwds,         \* directories sessions run in
  CommonDir,    \* a function: the git common dir of a root, should it be in a repository
  Transcripts,
  Registrars,   \* `brain register` processes
  MaxIds,       \* bound: project ids drawn
  MaxRestarts   \* bound: starts of the service

ASSUME PathsAssumption == \A path \in Roots \cup Cwds : path \in Seq(STRING)

VARIABLES
  registry,   \* projects.json: records [id, key, aliases]
  launch,     \* service.json: a function from project ids to [root, sources]
  git,        \* the roots that are in a git repository
  files,      \* a function: the cwds the first lines of a transcript name
  idsUsed,
  cli,        \* what each `brain register` is about
  pass,       \* the rediscovery pass of the service
  service,    \* [up, starts, hooks, stores, bindings]
  stored,     \* <<id, transcript>>: evidence in the ledger of a project
  raced       \* history: a registration was saved over another one's

regVars == <<registry, launch, git, files, idsUsed, cli, pass, service, stored, raced>>

----------------------------------------------------------------------------
(* Ownership: a working directory inside the root, at a separator.         *)

Within(cwd, root) ==
  \/ cwd = root
  \/ IsStrictPrefix(root, cwd) /\ cwd[Len(root) + 1] = "/"

Owned(root) == {t \in Transcripts : \E cwd \in files[t] : Within(cwd, root)}

(* Registration decides the same, in a copy of its own.                    *)
Discovered(root) == Owned(root)

(* What a session writes to its transcript, and a root that becomes a      *)
(* repository.                                                             *)
WriteTranscript ==
  /\ \E t \in Transcripts, cwd \in Cwds :
       files[t] = {} /\ files' = [files EXCEPT ![t] = {cwd}]
  /\ UNCHANGED <<registry, launch, git, idsUsed, cli, pass, service, stored, raced>>

InitRepository ==
  /\ \E root \in Roots \ git : git' = git \cup {r \in Roots : CommonDir[r] = CommonDir[root]}
  /\ UNCHANGED <<registry, launch, files, idsUsed, cli, pass, service, stored, raced>>

ProjectKey(root) ==
  IF root \in git THEN <<"git-common-dir", CommonDir[root]>> ELSE <<"path", root>>

----------------------------------------------------------------------------
(* `brain register`.                                                       *)
NoCommand == [at |-> "none"]
Command(at, root, id, held) == [at |-> at, root |-> root, id |-> id, held |-> held]

OpenRegistry(c) ==
  /\ cli[c].at = "none"
  /\ \E root \in Roots : cli' = [cli EXCEPT ![c] = Command("opened", root, 0, registry)]
  /\ UNCHANGED <<registry, launch, git, files, idsUsed, pass, service, stored, raced>>

ByKey(held, root)   == {p \in held : p.key = ProjectKey(root)}
ByAlias(held, root) == {p \in held : root \in p.aliases}

(* Mutant: a project is found by the identity of the repository alone.     *)
MatchByKey(held, root) == ByKey(held, root)

(* The entry a root belongs to: the one it is an alias of, else the one of *)
(* its repository.                                                         *)
Match(held, root) ==
  IF ByAlias(held, root) # {} THEN ByAlias(held, root) ELSE ByKey(held, root)

Conflicting(held, root) ==
  /\ ByAlias(held, root) # {} /\ ByKey(held, root) # {}
  /\ ByAlias(held, root) # ByKey(held, root)

SaveRegistry(c) ==
  LET held == cli[c].held
      root == cli[c].root
      entry == IF Match(held, root) = {}
               THEN [id |-> idsUsed + 1, key |-> ProjectKey(root), aliases |-> {}]
               ELSE CHOOSE p \in Match(held, root) : TRUE
  IN /\ cli[c].at = "opened"
     /\ \/ /\ Conflicting(held, root)
           /\ cli' = [cli EXCEPT ![c] = NoCommand]
           /\ UNCHANGED <<registry, idsUsed, raced>>
        \/ /\ ~Conflicting(held, root)
           /\ idsUsed' = IF Match(held, root) = {} THEN idsUsed + 1 ELSE idsUsed
           /\ idsUsed' <= MaxIds
           /\ registry' = (held \ {entry}) \cup {[entry EXCEPT !.aliases = @ \cup {root}]}
           /\ raced' = (raced \/ held # registry)
           /\ cli' = [cli EXCEPT ![c] = Command("scanning", root, entry.id, {})]
     /\ UNCHANGED <<launch, git, files, pass, service, stored>>

(* The sources of the project are those found now: nothing of its previous *)
(* entry remains.                                                          *)
Scan(c) ==
  /\ cli[c].at = "scanning"
  /\ cli' = [cli EXCEPT ![c] = Command("scanned", @.root, @.id, Discovered(@.root))]
  /\ UNCHANGED <<registry, launch, git, files, idsUsed, pass, service, stored, raced>>

ReadLaunch(c) ==
  /\ cli[c].at = "scanned"
  /\ cli' = [cli EXCEPT ![c] =
               [at |-> "writing", config |-> [p \in DOMAIN launch \cup {@.id} |->
                  IF p = @.id THEN [root |-> @.root, sources |-> @.held] ELSE launch[p]]]]
  /\ UNCHANGED <<registry, launch, git, files, idsUsed, pass, service, stored, raced>>

WriteLaunch(c) ==
  /\ cli[c].at = "writing"
  /\ launch' = cli[c].config
  /\ cli' = [cli EXCEPT ![c] = NoCommand]
  /\ UNCHANGED <<registry, git, files, idsUsed, pass, service, stored, raced>>

----------------------------------------------------------------------------
(* The rediscovery pass: load, scan every project, save what was added;    *)
(* then load again and activate.  A start of the service saves in the same *)
(* way and builds everything from what it then loads.                      *)
Between(at) == [at |-> at, config |-> <<>>, added |-> FALSE]

(* What a scan adds: owned by the project and not among its sources.       *)
Rediscovered(config) ==
  [p \in DOMAIN config |->
     [config[p] EXCEPT !.sources = @ \cup Owned(config[p].root)]]

Scanned(at) ==
  [at |-> at, config |-> Rediscovered(launch), added |-> Rediscovered(launch) # launch]

BeginPass ==
  /\ service.up /\ pass.at = "waiting"
  /\ pass' = Scanned("scanned")
  /\ UNCHANGED <<registry, launch, git, files, idsUsed, cli, service, stored, raced>>

StartService ==
  /\ ~service.up /\ pass.at = "waiting" /\ service.starts < MaxRestarts
  /\ launch # <<>>
  /\ pass' = Scanned("starting")
  /\ service' = [service EXCEPT !.starts = @ + 1]
  /\ UNCHANGED <<registry, launch, git, files, idsUsed, cli, stored, raced>>

Loaded(at) == IF at = "starting" THEN "loading" ELSE "activating"

(* The file is written only when something was added; it is not loaded     *)
(* again first.                                                            *)
SavePass ==
  /\ pass.at \in {"scanned", "starting"}
  /\ launch' = IF pass.added THEN pass.config ELSE launch
  /\ pass' = Between(Loaded(pass.at))
  /\ UNCHANGED <<registry, git, files, idsUsed, cli, service, stored, raced>>

Bindings(config) == {b \in (DOMAIN config) \X Transcripts : b[2] \in config[b[1]].sources}

(* Hooks are bound to the projects of that moment.                         *)
HookBindings(config) == DOMAIN config

(* CaptureSupervisor::new opens a ledger for each project with a source.   *)
BuildService ==
  /\ pass.at = "loading"
  /\ service' = [service EXCEPT !.up = TRUE,
                                !.hooks = HookBindings(launch),
                                !.bindings = Bindings(launch),
                                !.stores = {b[1] : b \in Bindings(launch)}]
  /\ pass' = Between("waiting")
  /\ UNCHANGED <<registry, launch, git, files, idsUsed, cli, stored, raced>>

Additions == Bindings(launch) \ service.bindings

(* Mutant: what a pass found waits for the next start of the service.      *)
ActivatedAtRestart == service.bindings

(* Sources are added to those in use, never withdrawn.                     *)
Activated == service.bindings \cup Additions

(* One addition whose project has no ledger in this process refuses all.   *)
Activatable == \A b \in Additions : b[1] \in service.stores

Activate ==
  /\ pass.at = "activating" /\ service.up
  /\ pass' = Between("waiting")
  /\ service' = IF Activatable THEN [service EXCEPT !.bindings = Activated] ELSE service
  /\ UNCHANGED <<registry, launch, git, files, idsUsed, cli, stored, raced>>

(* A capture pass reads every source in use (Capture models what it does). *)
CapturePass ==
  /\ service.up /\ ~(service.bindings \subseteq stored)
  /\ stored' = stored \cup service.bindings
  /\ UNCHANGED <<registry, launch, git, files, idsUsed, cli, pass, service, raced>>

StopService ==
  /\ service.up /\ service.starts < MaxRestarts
  /\ service' = [service EXCEPT !.up = FALSE, !.hooks = {}, !.stores = {}, !.bindings = {}]
  /\ pass' = Between("waiting")
  /\ UNCHANGED <<registry, launch, git, files, idsUsed, cli, stored, raced>>

----------------------------------------------------------------------------
RegInit ==
  /\ registry = {} /\ launch = <<>> /\ idsUsed = 0
  /\ git = {}
  /\ files = [t \in Transcripts |-> {}]
  /\ cli = [c \in Registrars |-> NoCommand]
  /\ pass = Between("waiting")
  /\ service = [up |-> FALSE, starts |-> 0, hooks |-> {}, stores |-> {}, bindings |-> {}]
  /\ stored = {} /\ raced = FALSE

Register(c) == OpenRegistry(c) \/ SaveRegistry(c) \/ Scan(c) \/ ReadLaunch(c) \/ WriteLaunch(c)

Rediscovery == BeginPass \/ SavePass \/ BuildService \/ Activate

RegNext ==
  \/ WriteTranscript \/ InitRepository \/ (\E c \in Registrars : Register(c))
  \/ StartService \/ Rediscovery \/ CapturePass \/ StopService

(* The interval of the service's two loops.                                *)
RegFairness == WF_regVars(Rediscovery) /\ WF_regVars(CapturePass)

RegSpec == RegInit /\ [][RegNext]_regVars /\ RegFairness

----------------------------------------------------------------------------
(* Isolation: the evidence of a project comes from sessions that ran       *)
(* inside a directory registered as that project, whatever the paths look  *)
(* like (rediscover.rs:215-221, 300-305); unless two registrations wrote   *)
(* projects.json from the same reading, and one took the other's away.     *)
EvidenceOwned ==
  raced \/ \A b \in stored : \E p \in registry :
    /\ p.id = b[1]
    /\ \E cwd \in files[b[2]], root \in p.aliases :
         cwd = root \/ IsPrefix(Append(root, "/"), cwd)

(* No directory belongs to two projects of the registry, also when it      *)
(* becomes a repository between two registrations (registry.rs:50-68).     *)
OneProjectPerPath ==
  \A p, q \in registry : p # q => p.id # q.id /\ p.aliases \cap q.aliases = {}

(* Whose evidence is whose, and whose directories, together.               *)
SourcesOwned == EvidenceOwned /\ OneProjectPerPath

(* t is a session of a project the running service was started with.       *)
Reachable(t) ==
  service.up /\ \E p \in DOMAIN launch \cap service.hooks : t \in Owned(launch[p].root)

Captured(t) == \E b \in stored : b[2] = t

(* A session is captured without a restart while every configured project  *)
(* had a source when the service started (rediscover.rs:195-211).          *)
SessionsCaptured ==
  \A t \in Transcripts :
    (Reachable(t) /\ DOMAIN launch \subseteq service.stores)
      ~> (Captured(t) \/ ~Reachable(t) \/ ~(DOMAIN launch \subseteq service.stores))

(* "a session opened after registration is found without any action"       *)
(* (docs/registering-a-project.md:101-103), "the running supervisor must   *)
(* capture the newly discovered transcript" (source_rediscovery.rs:267).   *)
NewSessionsFound ==
  \A t \in Transcripts : Reachable(t) ~> (Captured(t) \/ ~Reachable(t))
============================================================================
