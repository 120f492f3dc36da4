---------------------------- MODULE PromptContext ----------------------------
(***************************************************************************)
(* The optional providers of a project: the answer to a prompt             *)
(* (query_api.rs context_for_prompt), the cache and the first-prompt claim *)
(* it shares with other prompts (provider_cache.rs), the Markdown vault    *)
(* (llm_wiki.rs) and the code index (codegraph.rs) it searches, what a     *)
(* session's start reads back (hook_handler.rs), and the commands that     *)
(* configure them meanwhile (brain-cli providers.rs).                      *)
(***************************************************************************)
EXTENDS Naturals, FiniteSets, Sequences, SequencesExt

CONSTANTS
  Clients,     \* (harness, native session id)
  Questions,    \* hashes of a prompt and its paths
  Trees,        \* worktrees: the project's and those of tasks
  Vaults,       \* Markdown vaults outside BRAIN_HOME
  MaxPrompts,   \* bound: requests
  MaxCommands,  \* bound: brain providers commands
  MaxChanges,   \* bound: edits of vaults, commits, upgrades of CodeGraph
  NoVault

VARIABLES
  settings,  \* providers.json
  edits,     \* how often each vault was edited: what source_version tells apart
  head,      \* Git HEAD of each worktree
  release,   \* the version of the CodeGraph executable
  index,     \* CodeGraph's index of each worktree: [head, release]
  claims,    \* provider_prompt_state: the sessions whose first prompt came
  cache,     \* provider_cache, in the order fetched
  prompts,   \* the requests so far
  command,   \* the brain providers command that runs
  commands,
  changes

promptVars == <<settings, edits, head, release, index, claims, cache, prompts, command,
                commands, changes>>

world == <<edits, head, release, index, changes>>

----------------------------------------------------------------------------
NoSettings == [wiki |-> FALSE, vault |-> NoVault, code |-> FALSE, report |-> 0]

NoIndex == [head |-> 0, release |-> 0]

NoItems == [vault |-> NoVault, version |-> 0, tree |-> {}]

(* A request: what it loaded, whether it claimed the first prompt, how far *)
(* it is, its vault's version, what it serves (wiki, code) and what it did *)
(* (live); seen and heads, what the vault and HEAD were as it began and    *)
(* since, are history.                                                     *)
Request(session, question, tree) ==
  [session |-> session, question |-> question, tree |-> tree, config |-> settings,
   won |-> session \notin claims, at |-> "wiki", version |-> 0, wiki |-> NoItems, live |-> FALSE,
   code |-> NoIndex, label |-> 0, seen |-> edits, heads |-> {head[tree]}]

Asked == DOMAIN prompts

To(p, at) == [prompts EXCEPT ![p].at = at]

(* context_for_prompt loads the configuration and claims the session's     *)
(* first prompt, INSERT OR IGNORE, before it knows that it will search.    *)
Ask ==
  /\ Cardinality(Asked) < MaxPrompts
  /\ \E session \in Clients, question \in Questions, tree \in Trees :
       /\ prompts' = Append(prompts, Request(session, question, tree))
       /\ claims' = claims \cup {session}
  /\ UNCHANGED <<world, settings, cache, command, commands>>

(* source_version: every Markdown file's path, length and time.            *)
SourceVersion(vault) == edits[vault]

(* A vault that is gone, or none, leaves the provider unsupported; an      *)
(* error while its version is read fails the request.                      *)
ReadVersion ==
  /\ \E p \in Asked :
       /\ prompts[p].at = "wiki"
       /\ \/ ~prompts[p].config.wiki /\ prompts' = To(p, "code")
          \/ prompts[p].config.wiki /\ prompts' = To(p, "code")
          \/ /\ prompts[p].config.wiki /\ prompts[p].config.vault # NoVault
             /\ \/ prompts' = [prompts EXCEPT ![p].at = "cache",
                                 ![p].version = SourceVersion(prompts[p].config.vault)]
                \/ prompts' = To(p, "failed")
  /\ UNCHANGED <<world, settings, claims, cache, command, commands>>

Key(question, config, version) == [question |-> question, config |-> config, version |-> version]

(* As Fresh, by a cache that forgets which vault version it answers for.   *)
FreshOfAnyVersion(row, key) == [row.key EXCEPT !.version = key.version] = key

(* get: the row of this question, configuration and version, unexpired.    *)
Fresh(row, key) == row.key = key

CacheHits(p) ==
  {i \in DOMAIN cache :
     Fresh(cache[i], Key(prompts[p].question, prompts[p].config, prompts[p].version))}

(* As Consult, by a handler that searches whoever came first.              *)
ConsultAlways(p) ==
  IF CacheHits(p) # {}
  THEN \E i \in CacheHits(p) : prompts' = [prompts EXCEPT ![p].at = "code", ![p].wiki = cache[i].items]
  ELSE prompts' = To(p, "search")

(* An entry answers; without one the session's first prompt searches, and  *)
(* any other goes without.                                                 *)
Consult(p) ==
  IF CacheHits(p) # {}
  THEN \E i \in CacheHits(p) : prompts' = [prompts EXCEPT ![p].at = "code", ![p].wiki = cache[i].items]
  ELSE prompts' = To(p, IF prompts[p].won THEN "search" ELSE "code")

LookUp ==
  /\ \E p \in Asked : prompts[p].at = "cache" /\ Consult(p)
  /\ UNCHANGED <<world, settings, claims, cache, command, commands>>

(* search_blocking: the files as they are now; a failure is reported and   *)
(* nothing is cached.                                                      *)
Found(p) == [vault |-> prompts[p].config.vault, version |-> edits[prompts[p].config.vault],
             tree |-> {prompts[p].tree}]

SearchVault ==
  /\ \E p \in Asked :
       /\ prompts[p].at = "search"
       /\ \/ prompts' = [prompts EXCEPT ![p].at = "put", ![p].wiki = Found(p), ![p].live = TRUE]
          \/ prompts' = [prompts EXCEPT ![p].at = "code", ![p].live = TRUE]
  /\ UNCHANGED <<world, settings, claims, cache, command, commands>>

(* put: one row per question, configuration and version, under the version *)
(* read before the search.                                                 *)
Stored(p) ==
  LET key == Key(prompts[p].question, prompts[p].config, prompts[p].version)
      row == [key |-> key, items |-> prompts[p].wiki]
      replaced == {i \in DOMAIN cache : cache[i].key = key}
  IN Append(IF replaced = {} THEN cache ELSE RemoveAt(cache, CHOOSE i \in replaced : TRUE), row)

PutCache ==
  /\ \E p \in Asked : /\ prompts[p].at = "put"
                      /\ cache' = Stored(p)
                      /\ prompts' = To(p, "code")
  /\ UNCHANGED <<world, settings, claims, command, commands>>

(* Entries run out; a row that ran out answers nothing again.              *)
Expire ==
  /\ \E i \in DOMAIN cache : cache' = RemoveAt(cache, i)
  /\ UNCHANGED <<world, settings, claims, prompts, command, commands>>

----------------------------------------------------------------------------
(* CodeGraph: the head of the worktree, the index's status against it,     *)
(* then the search; each a process of its own, and any of them may fail.   *)
ReadHead ==
  /\ \E p \in Asked :
       /\ prompts[p].at = "code"
       /\ \/ prompts[p].config.code
             /\ prompts' = [prompts EXCEPT ![p].at = "status", ![p].label = head[prompts[p].tree]]
          \/ prompts' = To(p, "done")
  /\ UNCHANGED <<world, settings, claims, cache, command, commands>>

(* validate_client: the index is of this HEAD and of the version that runs. *)
CurrentIndex(tree, at) == index[tree] = [head |-> at, release |-> release]

CheckIndex ==
  /\ \E p \in Asked :
       /\ prompts[p].at = "status"
       /\ \/ /\ CurrentIndex(prompts[p].tree, prompts[p].label)
             /\ prompts' = To(p, "hits")
          \/ prompts' = To(p, "done")
  /\ UNCHANGED <<world, settings, claims, cache, command, commands>>

SearchCode ==
  /\ \E p \in Asked :
       /\ prompts[p].at = "hits"
       /\ \/ prompts' = [prompts EXCEPT ![p].at = "done", ![p].code = index[prompts[p].tree]]
          \/ prompts' = To(p, "done")
  /\ UNCHANGED <<world, settings, claims, cache, command, commands>>

----------------------------------------------------------------------------
(* A session's start searches nothing: it shows the latest entry of the    *)
(* configuration, whatever was asked, if its items are of the worktree.    *)
LatestOf(config) ==
  LET rows == SelectSeq(cache, LAMBDA row : row.key.config = config)
  IN IF rows = <<>> THEN NoItems ELSE Last(rows).items

OfTree(items, tree) == IF items.tree \subseteq {tree} THEN items ELSE NoItems

StartPrompt ==
  /\ Cardinality(Asked) < MaxPrompts
  /\ \E session \in Clients, tree \in Trees, question \in Questions :
       prompts' = Append(prompts,
         [Request(session, question, tree) EXCEPT
            !.at = "started", !.won = FALSE,
            !.wiki = IF settings.wiki THEN OfTree(LatestOf(settings), tree) ELSE NoItems])
  /\ UNCHANGED <<world, settings, claims, cache, command, commands>>

----------------------------------------------------------------------------
(* brain providers: each command loads the configuration, changes it and   *)
(* writes it back whole; remove then deletes the provider's cached rows.   *)
NoCommand == [op |-> "none", config |-> NoSettings]

Begin(op, config) ==
  /\ command = NoCommand /\ commands < MaxCommands
  /\ command' = [op |-> op, config |-> config]
  /\ commands' = commands + 1
  /\ UNCHANGED <<world, settings, claims, cache, prompts>>

ConfigureWiki ==
  \E vault \in Vaults : Begin("save", [settings EXCEPT !.wiki = TRUE, !.vault = vault])

(* The report is of the version that the executable names now.             *)
ConfigureCode == Begin("save", [settings EXCEPT !.code = TRUE, !.report = release])

DisableProvider ==
  \/ Begin("save", [settings EXCEPT !.wiki = FALSE])
  \/ Begin("save", [settings EXCEPT !.code = FALSE])

RemoveProvider ==
  \/ Begin("forget", [settings EXCEPT !.wiki = FALSE, !.vault = NoVault])
  \/ Begin("save", [settings EXCEPT !.code = FALSE, !.report = 0])

SaveConfig ==
  /\ command.op \in {"save", "forget"}
  /\ settings' = command.config
  /\ command' = IF command.op = "save" THEN NoCommand ELSE [command EXCEPT !.op = "drop"]
  /\ UNCHANGED <<world, claims, cache, prompts, commands>>

DropRows ==
  /\ command.op = "drop"
  /\ cache' = <<>> /\ command' = NoCommand
  /\ UNCHANGED <<world, settings, claims, prompts, commands>>

(* index-codegraph: HEAD is read, the executable indexes what it finds,    *)
(* and the command fails afterwards if that was another HEAD.              *)
BuildIndex ==
  /\ commands < MaxCommands /\ settings.code
  /\ \E tree \in Trees : index' = [index EXCEPT ![tree] = [head |-> head[tree], release |-> release]]
  /\ commands' = commands + 1
  /\ UNCHANGED <<settings, edits, head, release, changes, claims, cache, prompts, command>>

----------------------------------------------------------------------------
(* The world: vaults are edited, worktrees move to another commit and      *)
(* CodeGraph is upgraded.                                                  *)
Change ==
  /\ changes < MaxChanges /\ changes' = changes + 1
  /\ \/ /\ \E vault \in Vaults : edits' = [edits EXCEPT ![vault] = @ + 1]
        /\ UNCHANGED <<head, release, prompts>>
     \/ /\ \E tree \in Trees :
             /\ head' = [head EXCEPT ![tree] = @ + 1]
             /\ prompts' = [p \in Asked |->
                              IF prompts[p].tree = tree
                              THEN [prompts[p] EXCEPT !.heads = @ \cup {head[tree] + 1}]
                              ELSE prompts[p]]
        /\ UNCHANGED <<edits, release>>
     \/ release' = release + 1 /\ UNCHANGED <<edits, head, prompts>>
  /\ UNCHANGED <<settings, index, claims, cache, command, commands>>

PromptInit ==
  /\ settings = NoSettings
  /\ edits = [vault \in Vaults |-> 1] /\ head = [tree \in Trees |-> 1] /\ release = 1
  /\ index = [tree \in Trees |-> NoIndex]
  /\ claims = {} /\ cache = <<>> /\ prompts = <<>>
  /\ command = NoCommand /\ commands = 0 /\ changes = 0

PromptNext ==
  \/ Ask \/ ReadVersion \/ LookUp \/ SearchVault \/ PutCache \/ Expire
  \/ ReadHead \/ CheckIndex \/ SearchCode \/ StartPrompt
  \/ ConfigureWiki \/ ConfigureCode \/ DisableProvider \/ RemoveProvider \/ SaveConfig \/ DropRows \/ BuildIndex
  \/ Change

PromptSpec == PromptInit /\ [][PromptNext]_promptVars

----------------------------------------------------------------------------
(* A session searches the vault live at most once, whichever of its        *)
(* prompts run together, are retried or fail                               *)
(* (docs/operations/llm-wiki-provider.md:16: "one durable, idempotent live *)
(* search").                                                               *)
OneLiveSearch ==
  \A session \in Clients :
    Cardinality({p \in Asked : prompts[p].session = session /\ prompts[p].live}) <= 1

(* What a prompt is given from the vault is of the vault it is configured  *)
(* with, and no older than the vault was when the prompt came, however it  *)
(* came by it; what it is given from the code index is of a commit its     *)
(* worktree was at while it was answered.                                  *)
ServedCurrent ==
  \A p \in Asked :
    /\ prompts[p].wiki # NoItems /\ prompts[p].at # "started"
         => /\ prompts[p].wiki.vault = prompts[p].config.vault
            /\ prompts[p].wiki.version >= prompts[p].seen[prompts[p].config.vault]
    /\ prompts[p].code # NoIndex => prompts[p].code.head \in prompts[p].heads

============================================================================
