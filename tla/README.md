# A verification development for the secondary brain

This directory holds TLA+ models of the program in `src/`, the TLC configurations
that check them on small instances, and theorems about them that TLAPS proves for
every value of the constants. The program is a Rust workspace: a background service
captures the transcripts of coding agents into one SQLite ledger per project, a
language model distils the events into memories, hooks hand context back to the
agents, and a small coordination layer keeps agents that work side by side out of
each other's worktrees.

Run everything from this directory: `tlc -workers 2 -config X.cfg MCModule.tla` for
a run, `tlapm ModuleProofs.tla` for the proofs. `PROJECT.json` lists the runs, the
mutants that show each property can fail, the lines every definition stands for, the
hazards and the theorems.

## 1. The system

Four binaries: `brain` (CLI), `brain-service` (the background service), `brain-hook`
(the shim an agent runs on each hook) and `brain-mcp` (an MCP server over the query
API). State lives in one SQLite database per project (WAL, busy timeout one second),
in segment, backup and vault files beside it, in `projects.json` and `service.json`,
which name the projects and their sources, and in the settings of the agents' harnesses.

| Component | State | Operations | Hard because | What makes it correct |
|---|---|---|---|---|
| Writer leases (`brain-coordination/lease.rs`) | a row per task, an append-only audit | acquire, renew, release, handoff | hooks, API and CLI interleave; hooks carry an old clock; handoffs are retried | one live writer; a lease that was granted is honoured; transfers are audited and checkpointed |
| Tasks, worktrees, claims (`task.rs`, `worktree.rs`, `claims.rs`) | rows, git worktrees, aliases | create, close, claim, release | three steps per creation; reads outside the transaction | a worktree is known to the registry; overlaps are told |
| Merge preflight (`preflight.rs`) | none | about ten git commands | branches move meanwhile | "ready" is said of two pinned commits that merge, or whose conflict git names no path of |
| Capture (`capture.rs`, `reconcile.rs`, `jsonl.rs`, `hermes.rs`, `ledger.rs`) | events, cursors, gaps, quarantine, drifts | read, normalize, commit, enqueue | the file changes during the read; offsets are bytes of whatever file is there | everything complete is captured, and nothing torn but the first piece of a file that was swapped or regrown |
| Registration and rediscovery (`register.rs`, `registry.rs`, `rediscover.rs`, `config.rs`) | two JSON files, bindings in memory | register, scan, save, activate | files are rewritten whole by several processes | one owner per directory and session; new sessions are captured |
| Adapters (`claude.rs`, `codex.rs`, ...) | none | record to events | vendor formats | deterministic idempotency keys |
| Consolidation queue (`jobs.rs`) | a row per job | four enqueues; lease, complete, fail, defer, re-arm | enqueues are not transactions; leases expire under a run | no event skipped; attempts accounted; jobs settle |
| Consolidation worker (`consolidation.rs`, `llm_judge.rs`) | runs in flight | ask, validate, append, acknowledge | crashes, outages, answers that differ | an acknowledged job has its memories |
| Memories (`memory.rs`, `tombstone.rs`, `evict.rs`, `supersession.rs`, `merge.rs`) | versions, tombstones, evidence | append, rule, correct, withdraw, evict, merge, fold | a command is several writes; shells race | what is replaced has a successor; corrections stay |
| Search (`search.rs`, `vector.rs`) | a cache per connection | rank, fuse, cache | other connections commit between channels | an answer is that of the ledger |
| Segments (`segment.rs`, `catalog.rs`) | sealed files, a catalog | seal, compact | files and rows are not one transaction | an event is readable from somewhere |
| Backup (`backup.rs`, `upgrade.rs`) | staged and published backups | create, retain, restore, drill | kills between the steps | a published backup is whole, and there is one |
| Notes and vault (`note_watcher.rs`, `markdown.rs`, `basic_memory.rs`) | note imports, Markdown generations, a pointer | scan, import, project, copy | two rebuilders; edits and locks during a scan | the vault and the notes follow the memories |
| Disk pressure (`backpressure.rs`) | what is paused, healthy checks | evaluate | hysteresis, several disks | degrade in order, recover for good |
| Hooks (`brain-hook`, `pipe.rs`, `hook_handler.rs`, `lifecycle.rs`) | spool files, pushes, receipts | send, serve, push, count | client timeout against service answer | handed once, counted when sent |
| Providers (`provider_cache.rs`, `llm_wiki.rs`, `codegraph.rs`) | cache, first-prompt claims, an index | ask, search, cache, configure | prompts race; the vault changes | one live search; nothing stale is served |
| Deployment and installation (`deploy.ps1`, `deployment.rs`, `service.rs`, `install_hooks.rs`) | binaries, manifests, tasks, settings | deploy, install, uninstall | cut short anywhere; settings shared with others | "up to date" is one build; one hook per event |
| Paired benchmark (`token_benchmark/`) | records of samples and grades on disk | preflight, run, resume, grade, report | crashes in a paid session | a claim rests on complete pairs |
| Query API, MCP, CLI (`query_api.rs`, `brain-mcp`, `brain-cli`) | none of their own | translate requests | retries | idempotent requests |

How the parts meet: capture appends events and enqueues jobs; the session-end hook
appends and enqueues too; the drain enqueues what is left and runs a worker per project;
the worker writes memories; searches and hooks read them back, the vault publishes them,
and the commands of people rule over them. Hooks keep their session's lease alive;
the query API and `brain task close` change leases as well. The controller of disk
pressure runs at the head of every capture pass. `brain register` and the rediscovery
decide what capture reads. Most of them meet in the ledger, each on a connection of its
own, so that the atomic steps are SQLite transactions (or single statements where the
code opens none); the others meet in files that are read and replaced whole. Everything
between two such steps can interleave.

## 2. The modules

| Module | Models | Checked in |
|---|---|---|
| `WriterLease` | leases, tasks, handoffs and hooks of one project | `MCPlatform` |
| `MergePreflight` | the git commands of a preflight | `MCPlatform` |
| `EventSchedule` | the abstract promise of the enqueue half | by refinement |
| `JobEnqueue` | how events are cut into jobs; implements `EventSchedule` | `MCJobEnqueue` |
| `JobLifecycle` | a job from enqueued to settled, with its workers | `MCJobLifecycle` |
| `Capture` | passes over the sources of one project | `MCAgents`, `MCSources` |
| `Registration` | registration, rediscovery, activation and restarts | `MCRegistration`, `MCSources` |
| `Pressure` | the pressure controller, its samples and the capture gate | `MCNotes` |
| `Vault` | notes, imports, the Markdown projection and the Basic Memory view | `MCNotes` |
| `Memories` | memories and the commands that change them | `MCStore` |
| `Segments` | sealing and compaction | `MCStore` |
| `Backups` | creation, retention, restore and drills | `MCStore` |
| `Retrieval` | the channels of a search, their fusion and the answer cache | `MCStore` |
| `PromptContext` | providers, their cache and first-prompt claims | `MCAgents` |
| `HookDelivery` | the shim, the pipe, the spool, pushes and receipts | `MCAgents` |
| `PathClaims` | creation of tasks, path claims and their overlaps | `MCPlatform` |
| `BenchmarkMatrix` | the paired token benchmark | `MCPlatform` |
| `Deployment` | the deploy script, its manifest and the MCP entry | `MCPlatform` |
| `Installation` | the scheduled tasks, the hooks in settings, the manifest | `MCPlatform` |
| `JobEnqueueProofs`, `JobLifecycleProofs`, `CaptureProofs` | theorems about the module of that name | `TLAPS` |
| `WriterLeaseProofs` | theorems about `WriterLease` and `MergePreflight` | `TLAPS` |
| `StoreProofs` | theorems about `Segments`, `Backups`, `Retrieval` and `Memories` | `TLAPS` |
| `HookProofs` | theorems about `PromptContext` and `HookDelivery` | `TLAPS` |
| `NotesProofs` | theorems about `Pressure` and `Vault` | `TLAPS` |
| `CommandProofs` | theorems about `Registration`, `PathClaims`, `Deployment`, `Installation` and `BenchmarkMatrix` | `TLAPS` |

An `MC` module may hold several *scenes*: a behaviour chooses one at the start and plays
one module (or one instance of it) to its end, while the variables of the others stand
still. Components that share state are one module; scenes only put side by side what
shares none that the models keep. A property that ends in `Sound` or `Kept` (`ClaimsKept`,
`HooksSound`, `BenchmarkSound`, ...) is a conjunction of properties of the same module, each
stated there with its comment.

**WriterLease.** `lease` is `writer_leases`, `status` the status column of
`coordination_tasks`, `audit` each task's newest row of `coordination_events`. Every
`CoordinationStore` operation is one IMMEDIATE transaction and one operator
(`AcquireLease`, `RenewLease`, `ReleaseLease`, `HandoffLease`); each caller is a
sequence of actions around them. `inflight` are hooks being served: `HookReadsToEnd`
and `HookReadsToWork` are the read in `manage_lease_lifecycle`, `HookActs` is the
operation it chose, at the time of the envelope. `closer` is `TaskWorktreeManager::close`
between its three steps, `handoff` a handoff request between the replay check, the
checkpoint and the transfer. `view` is what a session was last told about its lease:
it is what an agent goes on believing, and what the properties are about. `revoked`
is history.

**MergePreflight.** `asked` is how far the preflight is and what it has pinned; `ref` and
`dirty` move under it. What git says of a pair of commits is the constant `Verdict`, any
function: nothing is assumed of how an exit code goes with the paths git names. A conflict of
which no path can be parsed and whose sides changed no path in common is reported as none
(`Conflicts`), as in the code, and `ReadyMerges` exempts it by name (`Unnamed`).

**JobEnqueue.** `events` and `jobs` are the tables; `conn` is what capture, a hook and
the drain have read and not yet acted on. A job's insert is a statement of its own, so
the window chosen may be stale. An event is its size in bytes. `EventSchedule` knows
only how much of the ledger is scheduled; the refinement maps `appended` to the length
of `events` and `scheduled` to the rows that lie in a job.

**JobLifecycle.** The columns of `consolidation_jobs` are one function each; `run` is
where each worker is in `run_once`. Times are offsets from the present, which `Tick`
moves, so that no clock grows. `fail_consolidation_job` is two steps (`FailReads`,
`FailRecords`), as its two statements are; `Complete` and `ProviderUnavailable` are one.
`failures` and `losses` are history: why attempts were charged.

**Capture.** `pass` is where each service process is in `capture_once`: `LoadCursor`,
`CompareSchema`, `Inspect` (the size), `Identify` (the identity), `Read`, `Commit`
(`append_batch`, one transaction). A file is its bytes, each with the content of its line and
how many bytes of the line are left; lines of different contents differ in width, so that an
offset which ended a line of one file may lie inside a line of the next. Sizes, cursors and
offsets count bytes; a read starts at its offset whatever is there (`RecordsRead`), and what is
between two newlines or after an offset in the middle of a line is a record, `Torn` if it is not
a line. A SQLite source has rows of one byte, since its cursor is a row's identifier. The agents
are external: they write byte by byte, replace the file (an empty one or a copy), truncate it
after a line, and change a SQLite source's schema between any two steps. `written`, `cut`,
`shadowed`, `shifted` and `lost` are history; `shifted` are the offsets at which a pass may go on
in another file's bytes. One read of the file is one step.

**Registration.** `registry` is `projects.json`, `launch` is `service.json`; `cli` is what
each `brain register` has read and not yet written, `pass` the same of the rediscovery and
of a starting service. `service` is what the process was started with: the projects hooks
are bound for, the ledgers it opened and the sources it reads. Paths are sequences of
characters, because the ownership of a session is decided by a prefix at a separator.

**Pressure.** `Evaluate` is the head of a capture pass: sample every root, choose the
fullest disk, call the controller, go on to the sources or not. The controller is
`Sampled`, made of `Degraded`, `Checked` and `Relapsed`. Free bytes and free percent
move independently. `streak` is history.

**Vault.** The service's tick is `BeginScan` (not while the projection is `paused`), `Scan` of the
global notes (a note read, refused or imported in the steps of `import_note`), `ScanProject` and
`Scan` of the project's, then `SkipProjection`, or `CountVersions` and `RenderChanged`, the steps
of `rebuild_project`, and `FinishTick`. Notes are looked at in the order of their paths (`Rank`);
one that is `locked` or gone ends the scan of its root, and so does a statement that fails
(`FailScan`). A note above the size limit is one of the refused; that its metadata is read even
when it is locked is left out. The paragraph of a subject is read together with the memories.
`versions`, `audited`, `imported` and `queued` are the tables an import
writes, `generations` and `manifest` the directories and `current.json`, `view` what Basic
Memory indexes while it is copied, put aside and put in place. A second builder is `brain
rebuild` in a shell.

**Memories.** A command is `Begin` (read the ledger, decide), `WriteNext` (one
`append_memory` or `forget_memory`, a transaction each) for every write, or `StopCommand`.
The service's derivations come in one step each: their crashes are `JobLifecycle`'s. A
memory's versions differ in status and in what they supersede; what is served (`Projected`,
`Found`) is computed from the tables as `current_project_memories` and `search_memories`
do.

**Segments.** A file is named by the day and by what it holds, so a repeated seal may
find files of an earlier attempt. `seal` is between the data, its verification, the
manifest and the transaction of rows; `Compact` replaces payloads in one transaction.

**Backups.** `points` are the directories of the backup root: staging, published or
removed, with or without `backup.json`, whole or torn. `run` is how far each command is:
copying, writing the inventory, publishing, removing one victim after another, restoring.

**Retrieval.** `search` is a search between its statements, each a snapshot of its own;
`visible` and `embedded` change between them. Ranks are fused in fixed point with the
weights of the code, the word matches and similarities are orders of documents
(`corpus`), and a list is put in order by the place that the number of those before an element
makes (`Ordered`, `Picked`). `cached` is the answer cache with the `data_version` it is of.

**PromptContext.** A prompt is `Ask` (the configuration and the first-prompt claim),
`ReadVersion`, `LookUp`, `SearchVault`, `PutCache`, and the three steps of the code index.
The world (`edits`, `head`, `release`, `index`) changes between any two; a command of
`brain providers` is a read, a change and a write of `providers.json`.

**HookDelivery.** A call is the shim's side (`waiting`, `answered`, `gave up`) and the
service's (`at`), which goes on when the shim is gone. `pushed`, `receipts`, `decisions`
and `deliveries` are the tables; `received` is history: what a session really was handed.

**PathClaims.** `call` is what each command is in the middle of: a claim between its
reads and its insert, a creation between git, the registry's alias and the row, and
what is undone when one of them fails. A path is a sequence of names; a glob is its
static prefix with an optional stem.

**BenchmarkMatrix.** `samples` and `grades` are the append-only files, `torn` a half
written last line; `runner` is the `run` command from sample to sample, `serving` which
copy of the brain answers the pipe of an attempt, also after a crash of the runner.

**Deployment, Installation.** The content of a binary is the version of the source it was
built from; a deploy is the script's steps up to its manifest, and `UpToDate` what
`read_deployment` makes of it. An installer's steps are the scheduled tasks, the settings
of each harness (read, then replaced whole) and the manifest. An installation that fails takes
back its tasks and its hooks one by one and ignores what it cannot take back (`TakeBackTasks`,
`FailSettings`).

## 3. The runs

Each property of a passing run has a mutant of the code that breaks it: a dropped
ownership check, a reset that is missing, two writes in the other order.

| Run | Scenes | Shows |
|---|---|---|
| `lease_one_live_writer` (violated) | | section 5 |
| `job_enqueue` | capture, a hook and the drain, a failed statement or a crash | no event is skipped, overlaps and windows are bounded, `EventSchedule` is implemented, its liveness included |
| `job_boundary_unbounded` (violated) | | section 5 |
| `job_lifecycle` | answers that differ; two jobs; two mishaps | attempts are accounted for, death is earned, a live lease is ended by its owner, a completed job has its answer stored and stays completed (`CompletionSound`), every job settles |
| `agents` | replacements; a truncation; two services; schema drift; prompts; hooks | no cursor passes an uncaptured record, nothing torn becomes an event but the first piece of a file changed under its cursor, a loss or a cursor that goes back is on record, a drift holds its cursor; one live search per first prompt, nothing stale served; memories handed once and counted |
| `sources` | registration; two registrations together; schema drift; replaced files | what is stored is in the ledger of its session's owner, no directory has two owners, sessions are captured without a restart, everything is captured |
| `new_sessions_found` (violated) | | section 5 |
| `store` | memories; folds; segments; backups; copies; search | what is replaced has a successor that is served and corrections stay (`ClaimsKept`); every event is readable; published backups hold the ledger and one is kept; answers are those of the ledger (`AnswersAreCurrent`), with the best event and the best memory (`BestOfBoth`) |
| `folded_into_one` (violated) | folds | section 5 |
| `notes` | disk pressure; edited, removed and locked notes; changed memories | degradation in order and recovery earned; imported notes are stored; the manifest leads to a whole vault; notes and memories are published in the end, once the projection is not paused and no note before them is locked (`NotesSettle`, `ClaimsInVault`) |
| `pressure_emergency` (violated) | | section 5 |
| `platform` | renewals; requests; handoff; merge; tasks; claims; benchmark; drift; deploy; install | a lease a session was told of is honoured, nobody else is told they write, a tenure is bounded by one duration, ownership moves with an audit row and a checkpoint, no late request moves an expiry back or revives a closed task; "ready" is said of commits that merge, or whose conflict git does not name; worktrees known, overlaps told; a benchmark's claim rests on complete pairs (`BenchmarkSound`); "up to date" is one build (`NoMixedBuild`), an event runs one hook (`HookedOnce`) |

### Bounds, and why they are enough

- *platform*, leases: a duration of two ticks and a clock to 3 give a live lease, an expired one and
  its takeover, with hooks whose time lies before, in and after the tenure. Two sessions
  are the smallest race, and every decision compares one caller with one row. Hooks name
  no generation, so the scenes with hooks stop at generation 1 (`MaxGeneration`, a guard on
  the handoffs that raise it), and the handoff scene goes to 2 with no hook in flight.
  One task: rows of different tasks share nothing. Sessions are symmetric.
- *job_enqueue*: windows of two events or two bytes and events of one or three bytes give a
  window ended by count, by bytes, and an event larger than a window. Three events and
  three connections give a stale read on each; one failure covers each place it can be.
- *job_lifecycle*: two attempts give a retry and a death, `Horizon` is beyond the longest
  backoff used. The answers scene has one job with two possible answers, one mishap and one
  re-arm; the settle scene two jobs, one of which could starve the other; the crash scene
  two mishaps, for a lost lease after a lost lease.
- *agents*, transcripts: lines of two bytes and of one (malformed) in files of two or three bytes
  give an unfinished line, a cursor between lines, and one that lies inside a line of the file
  that is there next, with a line behind it. Three identities give a replacement after a
  replacement, one cut a truncation, with growth beyond the cursor in a scene of its own
  ("regrown", three bytes). Two services need no failure: each is the other's. `MaxRows = 1` makes
  a SQLite source need several visits.
- *sources*: one root's path begins with the other's characters without being below it
  (the prefix must end at a separator), and both are in one repository. Two transcripts,
  one `brain register` and two starts give a registration before, during and after a
  rediscovery. Three schemas are a drift, its rollback and another; two identities and one
  failure are a replacement that is met by a failing pass.
- *store*: two shells with two commands and three memories give a merge of what the other one
  withdraws, and three claims of a subject a fold beside a command that corrects one of them; two
  events and two faults give overlapping seals, each interrupted once. Three backups under a
  policy of one each per hour, day and month make retention choose; events come in a scene of
  their own, with two backups and one fault. Three events and a claim, with limits below what is
  found (`FusionDepth`, `PerSession`, an answer of two), make every channel leave something out;
  the words match the claim before, between or after the events.
- *notes*: levels 0, 2, 4, 6 and 8 with thresholds 1, 3, 5 and 8 put one level in each
  pressure band and one on the recovery threshold; two checks tell a relapse from a
  recovery. Of a sample, bytes and percent are at the same level or one of them is at the recovery
  threshold, which leaves each of them alone to decide. Two notes of a project, of which one comes
  first, and one of the other root are edited three times (a note refused, corrected and put back)
  while one fault hits: a note locked, a pause, a statement or a crash. In the scene of changing
  memories a single note is edited once, memories change twice and a shell rebuilds beside the
  service. The run has about 257,000 states.
- *agents*, prompts and hooks: two prompts of one session and one tree are the race for the first
  prompt; three commands of `brain providers` with a configured second vault give one that is
  removed while a search is under way and one that comes back. One session, two calls, three
  memories and two faults: a shim that gives up while it is served, and what the second call is
  then handed.
- *platform*, the rest: three commits whose pairs conflict, conflict without a path git names,
  have whitespace errors or make git fail. Two tasks, two callers: two creations cut short, then in a scene of its own two
  claims over a file, its directory, a glob, a symbol and an ignored file. Two samples with two
  attempts and a crash; two drifts without a session's outcomes. Two binaries and two edits put an
  edit before, in and after a build; two scheduled tasks and two harnesses let an install stop
  half way at each.

`CHECK_DEADLOCK FALSE` stands in seven configurations (`Agents`, `Sources`, `NewSessionsFound`,
`Store`, `FoldedIntoOne`, `Notes`, `Platform`), where a scene is over once its bounded commands,
faults and edits are used up and nothing more can happen. In the other runs some step is always
possible (the clock, a disk, a read of the drain), and deadlock is checked.

### Fairness, and what in the code justifies it

- `JobEnqueue`: weak fairness of the drain's read and insert. The drain loop ticks every
  two seconds and reopens the ledger each time (`consolidation.rs`). Capture and hooks get
  none: the drain alone has to make up for what they leave. This assumes a configured provider
  and no lasting pressure: without one the drain returns at its start
  (`consolidation.rs:243-250`), and under pressure it skips its ticks (`:278`), so for as long
  as either lasts nothing is scheduled by it or settled.
- `JobLifecycle`: weak fairness of the clock and of a living worker's next step, since
  every call has a timeout. Strong fairness of `Responds` assumes that outages end; the
  code cannot give that, it defers the job for as long as one lasts.
- `Capture`: weak fairness of a pass. `reconcile.rs` runs one on every tick and
  `capture_without_stopping` survives an error. Nothing is assumed of the watcher.
- `Registration`: weak fairness of the rediscovery, a loop of its own interval, and of the
  capture pass. Nothing is assumed of `brain register` or of restarts.
- `Pressure`: weak fairness of `Evaluate`, the head of the capture pass.
- `Vault`: weak fairness of the note watcher's next step, a loop in the service that goes on after
  an error. A tick does not begin while the projection is paused (`note_watcher.rs:159`) and
  nothing says that a pause or a lock ever ends: both properties are about behaviours in which it
  does (`<>[]~paused`, and for a note that no note at or before it in its root stays locked).
  Builders in a shell get none.
- The other modules claim no liveness: a lease ends by its expiry alone, and commands of
  people, deploys, backups and benchmark runs may stop for ever.

## 4. The proofs

Eight modules hold theorems; tlapm checks all of them with its SMT, Zenon and LS4
backends, from the assumptions on the constants in each module and nothing else. The
bounds that TLC needs are constants in `Nat` there, so a theorem holds for every bound.
Theorems are about a module's own `Spec`; the scenes of an `MC` module are instances of it.
Every safety property that a passing run checks, invariant or action property, is a theorem
here too: the run shows it on its scenes, the theorem for every value of the constants.

- `WriterLeaseProofs`: `TypeCorrect` proves `TypeOK` with `HookTimesPast` (a hook's time
  is never in the service's future), which the renewal needs. `BeliefsHonoured` is
  inductive on top of it: for each store operation one lemma says that the caller's
  belief becomes the row and that every other live belief is about a row the operation
  may not touch. `OthersExpired` is the heart: an acquisition that takes over finds an
  expired row, so nobody else believes in it any more, even at a hook's older time.
  `WritersExclusive` follows: two live beliefs would name the owner of one row.
  `TenuresBounded` needs `HookTimesPast` alone. `StepsSound` goes over `RowChange`, which
  names the only ways a row changes; each of the three parts of `LeaseStepsSound` is then a
  case split on it. `TransfersCheckpointed` needs `CheckpointFirst`: a handoff request
  that is about to transfer has its checkpoint already, and no step takes one away.
  `ReadyIsMergeable` says of any branches that a preflight's verdict is about the commits it
  pinned; what git says of two commits is any function, of which nothing is assumed.
- `JobEnqueueProofs`: `NothingSkipped` needs more than `NoGap`. The invariant `IInv` says
  that the scheduled rows are contiguous, that a connection which has chosen a window
  starts it no later than right after what is scheduled (`ChosenAdjacent`; stale reads can
  only be too early), and that a boundary row a connection holds exists. `ImplementsSafety`
  maps every step to an `Append`, a `Schedule` or a stutter of `EventSchedule`. `BoundsHold`
  counts: `OverlapInv` says that the jobs that hold an event and the connections about to insert
  such a job (`Holding`, `Choosing`) are together no more than the connections, because an event
  that is in a job is chosen by nobody again.
- `JobLifecycleProofs`: `IInv` adds to accounting that a worker about to record a failure
  as the owner has seen the job's current attempt (`SeenFresh`): its two statements may
  be split by others, but not by a change of owner and back, because a re-lease is by a
  worker that is idle. `DeathEarned` and `AttemptsAccounted` follow. `CompletionsHold` is of two
  halves: a completed job has no owner, so no guarded update finds it, and whoever completes a
  job as its owner has stored the answer before, which no step takes away. `LeaseHonoured`
  goes over what each step may do to a row whose lease is live.
- `CaptureProofs`: what a read makes of a file depends on where it begins. `TInv` says of every
  offset that is stored, loaded or about to be stored that it is `Placed`: a boundary of the file
  now there, or beyond its end after a cut, or left behind by a file that changed under it
  (`shifted`); and that every batch that was read holds only written lines, or a torn record at
  such an offset. That makes `NoTornRecord` inductive, by lemmas about texts: what is read from a
  boundary is lines (`LinesAgree`), and lines stay lines when a text grows or is cut.
  `NothingSkipped` rests on `SInv`: the cursor in the ledger and the one each pass has loaded are
  behind captured records only, and so is the one a pass is about to commit, once its own batch is
  counted. That holds for every service by itself, so it does not matter which of them writes the
  cursor last. `TypeCorrect` needs that every file's identity differs from that of no file
  (`IdsPositive`): a cursor without an identity is the initial one. `LossesOnRecord`,
  `DriftsHoldCursors` and `CursorForward` are of one service at a time (`overlap`): its cursor in
  memory is then the one in the ledger, or a pass behind it that will notice the file it was made
  for is gone.
- `NotesProofs`: `DegradedInOrder` is inductive together with the count of checks never
  exceeding the streak; `RecoveryIsEarned` is the step that needs it. `NotesStayBacked` is
  `VaultSound` from `VaultInv`: by the step an import is at, it knows which of its rows are
  stored; and while only one builder is at work, the generation it has published stays whole until
  its view is in place, since every removal is its own and spares what the manifest names.
  What hinders a scan keeps its type and touches nothing of this (`HindrancesKept`), and a scan
  that is cut short leaves rests of notes only (`ScanEnds`).
- `StoreProofs`: `EvidenceStaysReadable` is inductive with three facts about the seal in progress
  (its range has no row yet, `SealIsNew`; what it found blank was archived before,
  `BlanksArchived`; its files are there when its rows are committed, `SealWritten`) and one about
  the catalog: it names for no event a segment in which that event is blank (`RowsWhole`).
  `BackupsStayKept` says of the point that retention keeps that it is whole and in the plan of no
  removal, because a plan is made of what was older than it, or of staging directories past their
  age. `AnswersStayCurrent` rests on `SearchInv`: the version a search began with is still the
  version only if nobody disturbed it, and then what its statements read is the ledger.
  `BestOfBothSurface` is about that list alone, so its invariant (`AskedInv`) only says what is
  asked of which ledger; the rest is lemmas about the operators. `Ordered` puts each element at
  the place that the number of those before it makes, which a counting argument (an injection of
  a finite set into as many places) shows to be a list of all of them in order (`OrderedPlaces`),
  with no induction; `Matches`, `Fuse`, `Linked` and `Diversify` are lists made by it. Events and
  memories have a channel each, so a document has the score of one channel (`ScoreOfOne`, a sum
  of one), and those fall with the place (`ReciprocalOrder`); what the graph adds weighs half
  as much and holds nothing that matched. So only the first of the one kind can be before the first
  of the other (`BestLead`), the first event is within its session's share (`LeadStays`), and the
  cut leaves two places (`CutPlaces`).
  `ClaimsStayKept` is about `Memories`. `NoClaimLost` is not inductive: a fold may name a version
  that another command has superseded, so that it is an heir of it that stands for the claim, and
  the heir may change again. The invariant `ClaimsInv` says that every memory that was ever
  believed has an heir that *rests* (withdrawn, or current or invalid and superseded by nothing;
  `AllRest`), a person's claim one that is a person's (`HumanRest`); that what a version
  supersedes exists (`VersionsSound`), and that a statement which retires a version comes after
  the one that supersedes it, in the ledger or in the same queue (`QueueSound`). One lemma
  (`Replaced`) says of any version that is added where the claims of its predecessors go; every
  command only has to show that what it decides on is such a version. That a command retires
  nothing it has not read (`crossed`) is a condition, and `folded_into_one` shows what happens
  without it.
- `HookProofs`: `WonOnce` says that at most one prompt of a session has
  won the first-prompt claim, `SearchersWon` that whoever searches live has won it. The claim is
  never given back, whatever fails, expires or is configured meanwhile. `AnswersCurrent` needs
  that a row of the cache is no older than the version in its key (`VersionsKept`, `HeadsKept`).
  `HooksStaySound` needs that of a session's calls one is waited for (`OneWaits`), so that what it
  read as pushed is all that was handed (`BringsNew`).
- `CommandProofs`: `PathsHaveOneProject` by `OwnersInv` (an id is drawn once, and a reading is of
  ids that were drawn before), `SourcesStayOwned` by `EvidenceInv`: whatever a file or the service
  knows comes from a directory that was registered under that id. `TasksStaySound` by `TasksInv`:
  a creation is alone with its task (`CreationAlone`, `AliasFirst`), and of what a claim has read
  nothing is active that it has not seen (`ReadSeen`). `HooksRunOnce` and `UpToDateIsOneBuild` by
  `HooksInv` and `DeployInv`: what is written back was made from a reading with at most one hook,
  and a manifest says "succeeded" after the last binary. `BenchmarkStaysSound` by `BenchInv`: the
  run at work knows every record (`KnowsAll`), so that its attempt is a later one of a sample
  without an answer (`LaterAttempt`), and a report that supports a claim has a record of every
  sample.

Only model-checked, because liveness under fairness and ENABLED are out of these provers' reach:
`EverythingCaptured`, `SessionsCaptured`, `FairJobsSettle`, `EverythingResumes`, `NotesSettle`,
`ClaimsInVault` and the liveness half of `ImplementsSchedule`. No module here uses RECURSIVE, and
where an order or a filter matters to a proof it is written by ranks and places (`Ordered` and
`Picked` in `Retrieval`), since the library's `SetToSortSeq` and `SelectSeq` are recursions that
only induction over data opens. For the same reason no lemma is about a score that several
channels add up to; `BestOfBoth`, of answers of the words alone, needs none. Assumed of the
constants of `Retrieval` (`DocumentsAssumption`, `LimitsAssumption`, `CorporaAssumption`):
finitely many documents, numbered in the order they happened, of one kind each; limits of at least
one (a search with limit 0 returns before any statement); and a statement that returns no row
twice.

## 5. Where code and documents disagree

Five runs check what a document or comment says and find it violated:

- `lease_one_live_writer`: `brain task close` releases a live lease in its owner's name
  before `git status`. When that fails, the task stays active, the owner is not told and
  writes on, and another session acquires the lease.
- `job_boundary_unbounded`: a job through a boundary event takes the whole backlog,
  although `jobs.rs` and `hook_handler.rs` say that it respects the bounds.
- `new_sessions_found`: a project without a source when the service starts is given no
  ledger, so that the activation of a session found for it later is refused, with all
  other sources of that pass, until a restart.
- `pressure_emergency`: only the disk with the smallest percentage free is evaluated, so
  one with fewer bytes than the emergency threshold does not block capture.
- `folded_into_one`: a fold retires each loser, whatever version it has by then. Of two `reconcile
  --apply`, of which the second has met a claim more, each retires the keeper of the other, and no
  claim of the subject is current any more.

Further behaviour that a reader of the documents may not expect, seen in the code while
modelling it and stated by no run:

*Leases and tasks.* A release deletes the row and the next lease has generation 1 again, where
`docs/schemas/task-and-lease.md` says "monotonically increasing". An ordinary takeover by the
intended receiver passes for a replay of a handoff, which is then answered as done without a
checkpoint; a checkpoint is kept when the transfer that follows it is refused. A hook of activity
served after its session's end acquires the lease again and blocks the task for one duration
(`BoundedTenure`). Two claims of which one has a wildcard within a name and the other is a file
are told not to overlap. So may be a glob and a symbol in a file it covers (`TasksSound` exempts
both kinds, `Blurred`, a claim stored between another one's read and its insert, and a worktree
whose alias was lost). A task whose worktree was removed by hand can never be closed. A preflight
says ready when `git merge-tree` exits with 1, its messages name no path that `conflict_paths` can
parse and the two sides changed no path in common (`preflight.rs:143`, `197-231`), as with a
directory rename that git splits, although `docs/operations/merge-preflight.md:21` promises no
"predicted Git conflict". The registry of aliases loses one of two updates.

*Queue.* A lost lease is charged as an attempt, so fewer than five failures can be final
(`jobs.rs:512` says five failures). A run repeated after a crash between two memories may
get another answer and then collides with its own memories, which is recorded as a failure.

*Capture and registration.* A truncated file that has grown beyond the cursor again is read on
from there, and so is one that was replaced after its size and identity were looked at
(`jsonl.rs:23`, `35`): in the middle of a line, whose rest is stored as an event of an unknown
schema (`claude.rs:72-79`, `183`) and quarantined, although `docs/schemas/codex-rollout-map.md:31`
says "It commits only newline-complete records". `NoRecordSkipped` exempts the truncation by
`shadowed`, `NoTornRecord` both by `shifted`, and nothing else. A source that was empty when
first read keeps no identity. Quarantine rows have no key: records read again are quarantined
again. If the last event of a batch is a duplicate, the enqueue through it fails and the pass ends
before the later sources; so does a record an adapter refuses. With two service processes at work
at once (`overlap`) cursors overwrite one another: `CursorMonotonic`, `LossRecorded` and
`DriftHoldsCursor` hold without that only, `NoRecordSkipped` with it too. Two updates of
`projects.json` or `service.json` at once lose one of them; a block of `service.json` that cannot
be read is lost when the file is saved. A second worktree replaces the root and the Claude sources
of the first. Below nested roots a transcript is captured for two projects
(`rediscover.rs:74-75`). Hooks of a project registered after the start are not bound until a
restart.

*Memories and search.* A memory that is corrected or merged between the read and the write of a
ruling over it is served again, beside its successor, which `review.rs:72-73` and
`revise.rs:384-387` set out to prevent. A proposed memory is found by a search (`search.rs:917`,
`954` against `review.rs:10-12`). On a tie of the dates, reconciling weighs the evidence of all
sides, also of those an earlier rule put behind, so that an older claim which cites more wins over
two later ones (`reconcile.rs:17-22`, `148`). The replay check of `append_memory` is outside its
transaction. `MemoryStatus::Conflict` is written by no code. With an answer of one or two results,
the expansion may displace hits (`search.rs:434-436`). `store_memory_embedding` leaves the answer
cache, and cached answers do not count as access.

*Segments and backups.* `compact` and `seal` have no caller in production; `compact` checks jobs
that are pending, not events that no job holds yet (`segment.rs:259`). A staging directory that
is still written can be swept, or taken for a backup, after its age limit (`backup.rs:280-294`,
`433`). A restore that is killed leaves `.restore-<id>`, which blocks later ones.

*Notes.* A withdrawal adds no version and the projection is keyed by their number, so the
withdrawn memory stays in the vault until another version comes (`main.rs:1886-1889`;
`ClaimsInVault` is about claims that are missing, not about ones that should be gone). A note that
cannot be read, or is removed while a scan goes on, ends the scan of its root: the notes behind it
wait, for as long as it stays so (`note_watcher.rs:46`, `241`, `252`). A note that was refused,
corrected and put back to what was refused is in no open queue: its row was resolved and `INSERT
OR IGNORE` does not open it again (`notes.rs:54-67`, `81-94`), where
`docs/operations/obsidian-basic-memory.md:41-42` says that it "enters the durable review queue"
(`PutBack`, exempt in `NotesSettle`). Two rebuilds that overlap may remove each other's
generation, which may last: from then on the properties of the vault say nothing of that
behaviour (`overlapped`). A note that goes back to earlier content
counts as imported while the memory stays.

*Pressure.* A warning sample unblocks capture below the recovery threshold; a restart forgets
the degradation; of the five kinds of derived work, the flags of provider refresh, Basic Memory
and cold cache are read by nothing.

*Hooks and providers.* A session's end that was appended and not enqueued before a crash is
enqueued by the drain only. A push is recorded for a shim that gave up. The spool is drained by
nothing, although `backup.rs:649` says so. A coordination error with a lease warning may exceed
the 1,500 tokens of the `debug_assert`. The first-prompt claim is consumed even when the search
fails; a scan cut short at 300 ms is cached as if whole; an answer in flight when a provider is
removed makes its row again. `latest` and the session start are not restricted to the provider's
own tree (`provider_cache.rs:78-127` against `provider-configuration.md`). The circuit of
`ProviderGuard` is used by tests only.

*Benchmark.* Grades made between two runs are paired with the tokens of the later one; a torn
last line blocks every command; two `run`s exclude each other by nothing; a crash leaves the
copy of the service on its pipe. `classify_reduction` calls
tokens regressed on account of quality, where the report says that "Each goal is evaluated
independently" (`report.rs:139-140`, `154-175`).

*Deployment and installation.* A source edited during a build is recorded as up to date
(`deployment.rs:157`, `deploy.ps1:200`). An install that crashed between its tasks and its
manifest can be neither repeated nor undone; a failed reinstall deletes the tasks and hooks of the
working one; without the hook binary a reinstall makes the next uninstall leave the hooks.
Settings replaced by another program at the same time lose an update. `install_mcp` takes "not
connected" for "connected".

## 6. What is not modelled, and why

- *Normalization of vendor records* (`brain-adapters/*.rs` but for the readers), embeddings,
  reranking and subjects: functions of their input without state. `Capture` keeps the
  idempotency key, `Retrieval` the order of documents that a model gives.
- *The MCP server, the commands that only report, the retrieval benchmarks, logging, health
  report and telemetry formats*: translation of one request into one call, or output.
- *Domain types*: validation of single values; where a control decision depends on one, the
  module that decides has it.
- *Upgrade and migrations*: a sequence of steps under the backups that `Backups` models; the
  next module of the plan. *Supervision* (restarts with backoff, shutdown): what a loop
  that always comes back gives to the others is the fairness above.
- *The evidence packet, the redaction of a run and the blob store*: they decide nothing about
  a job or an event.
- *The composition of all modules in one state space*: their interfaces are the appended
  events (`Capture` to `JobEnqueue`), the enqueued job (`JobEnqueue` to `JobLifecycle`), the
  memory that is appended (`JobLifecycle` to `Memories`), the new version (`Memories` to
  `Vault` and `Retrieval`), the sources (`Registration` to `Capture`) and the gate (`Pressure` to
  `Capture`). Each side treats the other as free to do anything the other module's actions do.

## 7. Plan

Written, in this order: `WriterLease`, `EventSchedule`, `JobEnqueue`, `JobLifecycle`, `Capture`,
`Pressure`; `Memories`, `Segments`, `Backups`, `Retrieval`; `Vault`, `Registration`; `PathClaims`,
`MergePreflight`, `HookDelivery`, `PromptContext`; `BenchmarkMatrix`, `Deployment`, `Installation`;
and the eight modules of proofs.

Next, most important first:

1. The upgrade over `Backups`: the point made before it, the migrations, the way back.
2. A record an adapter refuses in `Capture`, which ends the pass on every visit
   (`capture.rs:293`), and what that does to the liveness of the sources behind it.
3. Supervision with backoff and the shutdown channel, as the reason for the fairness above.
4. The limited instances of the pipe; the token budget as an operator against a reference.
5. Proofs: the enqueued job and the appended event as one composed invariant of `Capture` and
   `JobEnqueue`; what `Retrieval` leaves out of an answer, as far as it needs no sorting.
6. Refinements: of `WriterLease` to an exclusive lock with expiry, of `JobLifecycle` to an
   at-least-once queue.
