------------------------------ MODULE CommandProofs ------------------------------
(***************************************************************************)
(* Proofs about what the commands write beside the service, for any        *)
(* commands, files and interleavings of them.                              *)
(*                                                                         *)
(* Registration: an id is drawn once, so that what two commands make of    *)
(* one reading of projects.json still has an owner for every directory.    *)
(* Whatever the service reads comes down, through files that are written   *)
(* whole and back in any order, to a directory that was registered under   *)
(* that id: if no command took the entry of another away, it is registered *)
(* still.                                                                  *)
(*                                                                         *)
(* Coordination tasks: a creation holds its branch and directory to        *)
(* itself, and what a command reads of the claims it reads before its own. *)
(*                                                                         *)
(* Deployment and installation: what a deploy, an installer or an edit     *)
(* leaves half done is still of one build, and has one hook of an event.   *)
(*                                                                         *)
(* Benchmark: only the running command appends records, and it knows all   *)
(* of them, so that each one is a later attempt of an unanswered sample.   *)
(***************************************************************************)
EXTENDS Registration, PathClaims, Deployment, Installation, BenchmarkMatrix,
        SequenceTheorems, TLAPS

----------------------------------------------------------------------------
(* Owners of directories.                                                   *)

Keys == {<<"git-common-dir", CommonDir[root]>> : root \in Roots} \cup
        {<<"path", root>> : root \in Roots}

Entries == [id : Nat, key : Keys, aliases : SUBSET Roots]

Separate(held) == \A p, q \in held : p # q => p.id # q.id /\ p.aliases \cap q.aliases = {}

(* A reading of projects.json, when n ids were drawn.                       *)
Sound(held, n) == held \subseteq Entries /\ (\A p \in held : p.id <= n) /\ Separate(held)

OwnersInv ==
  /\ idsUsed \in Nat /\ Sound(registry, idsUsed)
  /\ DOMAIN cli = Registrars
  /\ \A c \in Registrars :
       cli[c].at = "opened" => Sound(cli[c].held, idsUsed) /\ cli[c].root \in Roots

LEMMA OwnersInit == RegInit => OwnersInv
BY DEF RegInit, OwnersInv, Sound, Separate, NoCommand

(* A command goes on, and holds no reading then.                            *)
LEMMA OwnersStep ==
  ASSUME OwnersInv, NEW c \in Registrars, NEW command, cli' = [cli EXCEPT ![c] = command],
         command.at # "opened", UNCHANGED <<registry, idsUsed>>
  PROVE  OwnersInv'
BY DEF OwnersInv

LEMMA OpenKeepsOwners ==
  ASSUME OwnersInv, NEW c \in Registrars, OpenRegistry(c)
  PROVE  OwnersInv'
<1>1. PICK root \in Roots : cli' = [cli EXCEPT ![c] = Command("opened", root, 0, registry)]
  BY DEF OpenRegistry
<1> QED
  BY <1>1 DEF OpenRegistry, OwnersInv, Command

(* Another entry, or one more alias of an entry, of which the reading says  *)
(* that no other has it.                                                    *)
LEMMA SavedSound ==
  ASSUME NEW held, NEW n \in Nat, NEW m \in Nat, Sound(held, n), n <= m,
         NEW entry \in Entries, NEW root \in Roots, NEW saved \in Entries,
         saved.id = entry.id, saved.aliases = entry.aliases \cup {root},
         entry.id <= m,
         \/ entry \in held
         \/ entry.id > n /\ entry.aliases = {},
         \A p \in held : root \in p.aliases => p = entry
  PROVE  Sound((held \ {entry}) \cup {saved}, m)
<1> DEFINE next == (held \ {entry}) \cup {saved}
<1>1. next \subseteq Entries /\ \A p \in next : p.id <= m
  BY DEF Sound, Entries
<1>2. \A p \in held \ {entry} : p.id # saved.id /\ p.aliases \cap saved.aliases = {}
  BY DEF Sound, Separate, Entries
<1>3. Separate(next)
  BY <1>2 DEF Sound, Separate
<1> QED
  BY <1>1, <1>3 DEF Sound

(* The entry a command extends.                                             *)
Extended(held, root) ==
  IF Match(held, root) = {}
    THEN [id |-> idsUsed + 1, key |-> ProjectKey(root), aliases |-> {}]
    ELSE CHOOSE p \in Match(held, root) : TRUE

LEMMA ExtendedSound ==
  ASSUME NEW held, NEW root \in Roots, idsUsed \in Nat, Sound(held, idsUsed)
  PROVE  /\ Extended(held, root) \in Entries
         /\ \/ Extended(held, root) \in held
            \/ /\ Match(held, root) = {}
               /\ Extended(held, root).id = idsUsed + 1 /\ Extended(held, root).aliases = {}
         /\ \A p \in held : root \in p.aliases => p = Extended(held, root)
<1>1. CASE Match(held, root) = {}
  <2>1. ProjectKey(root) \in Keys
    BY DEF ProjectKey, Keys
  <2>2. \A p \in held : root \notin p.aliases
    BY <1>1 DEF Match, ByAlias
  <2> QED
    BY <1>1, <2>1, <2>2 DEF Extended, Entries
<1>2. CASE Match(held, root) # {}
  <2>1. Extended(held, root) \in Match(held, root)
    BY <1>2 DEF Extended
  <2>2. Match(held, root) \subseteq held
    BY DEF Match, ByAlias, ByKey
  <2>3. ASSUME NEW p \in held, root \in p.aliases PROVE p = Extended(held, root)
    <3>1. p \in ByAlias(held, root)
      BY <2>3 DEF ByAlias
    <3>2. Extended(held, root) \in ByAlias(held, root)
      BY <2>1, <3>1 DEF Match
    <3> QED
      BY <2>3, <3>2 DEF ByAlias, Sound, Separate
  <2> QED
    BY <2>1, <2>2, <2>3 DEF Sound
<1> QED
  BY <1>1, <1>2

LEMMA SaveKeepsOwners ==
  ASSUME OwnersInv, NEW c \in Registrars, SaveRegistry(c)
  PROVE  OwnersInv'
<1>1. PICK held : held = cli[c].held
  OBVIOUS
<1>2. PICK root \in Roots : root = cli[c].root
  BY DEF SaveRegistry, OwnersInv
<1>3. idsUsed \in Nat /\ Sound(held, idsUsed)
  BY <1>1 DEF SaveRegistry, OwnersInv
<1>4. CASE cli' = [cli EXCEPT ![c] = NoCommand] /\ UNCHANGED <<registry, idsUsed>>
  <2>1. NoCommand.at # "opened"
    BY DEF NoCommand
  <2> QED
    BY <1>4, <2>1, OwnersStep
<1>5. CASE /\ idsUsed' = IF Match(held, root) = {} THEN idsUsed + 1 ELSE idsUsed
           /\ registry' = (held \ {Extended(held, root)})
                            \cup {[Extended(held, root) EXCEPT !.aliases = @ \cup {root}]}
           /\ cli' = [cli EXCEPT ![c] = Command("scanning", root, Extended(held, root).id, {})]
  <2>1. PICK entry \in Entries : entry = Extended(held, root)
    BY <1>3, ExtendedSound
  <2> DEFINE saved == [entry EXCEPT !.aliases = @ \cup {root}]
  <2>2. saved \in Entries /\ saved.id = entry.id /\ saved.aliases = entry.aliases \cup {root}
    BY DEF Entries
  <2>3. /\ \/ entry \in held
           \/ entry.id = idsUsed + 1 /\ entry.aliases = {} /\ idsUsed' = idsUsed + 1
        /\ \A p \in held : root \in p.aliases => p = entry
    BY <1>3, <1>5, <2>1, ExtendedSound
  <2>4. idsUsed' \in Nat /\ idsUsed <= idsUsed' /\ entry.id <= idsUsed'
    <3>1. CASE entry \in held
      BY <1>3, <1>5, <3>1 DEF Sound, Entries
    <3>2. CASE entry.id = idsUsed + 1 /\ idsUsed' = idsUsed + 1
      BY <1>3, <3>2
    <3> QED
      BY <2>3, <3>1, <3>2
  <2>5. \/ entry \in held
        \/ entry.id > idsUsed /\ entry.aliases = {}
    BY <1>3, <2>3
  <2>6. Sound(registry', idsUsed')
    <3>1. registry' = (held \ {entry}) \cup {saved}
      BY <1>5, <2>1
    <3> HIDE DEF saved
    <3>2. Sound((held \ {entry}) \cup {saved}, idsUsed')
      BY <1>3, <2>2, <2>3, <2>4, <2>5, SavedSound
    <3> QED
      BY <3>1, <3>2
  <2>7. \A d \in Registrars :
          cli'[d].at = "opened" => Sound(cli'[d].held, idsUsed) /\ cli'[d].root \in Roots
    BY <1>5 DEF OwnersInv, Command
  <2>8. \A d \in Registrars : cli'[d].at = "opened" => Sound(cli'[d].held, idsUsed')
    BY <1>3, <2>4, <2>7 DEF Sound, Entries
  <2> QED
    BY <1>5, <2>4, <2>6, <2>7, <2>8 DEF OwnersInv
<1> QED
  BY <1>1, <1>2, <1>4, <1>5 DEF SaveRegistry, Extended

LEMMA OwnersNext == OwnersInv /\ [RegNext]_regVars => OwnersInv'
<1> SUFFICES ASSUME OwnersInv, [RegNext]_regVars PROVE OwnersInv'
  OBVIOUS
<1>1. CASE UNCHANGED <<registry, idsUsed, cli>>
  BY <1>1 DEF OwnersInv
<1>2. ASSUME NEW c \in Registrars, Register(c) PROVE OwnersInv'
  <2>1. CASE OpenRegistry(c)
    BY <2>1, OpenKeepsOwners
  <2>2. CASE SaveRegistry(c)
    BY <2>2, SaveKeepsOwners
  <2>3. CASE Scan(c)
    <3> DEFINE command == Command("scanned", cli[c].root, cli[c].id, Discovered(cli[c].root))
    <3>1. cli' = [cli EXCEPT ![c] = command] /\ UNCHANGED <<registry, idsUsed>>
      BY <2>3 DEF Scan
    <3>2. command.at # "opened"
      BY DEF Command
    <3> HIDE DEF command
    <3> QED
      BY <3>1, <3>2, OwnersStep
  <2>4. CASE ReadLaunch(c)
    <3>1. PICK command : cli' = [cli EXCEPT ![c] = command] /\ command.at = "writing"
      <4> DEFINE command == [at |-> "writing", config |-> [p \in DOMAIN launch \cup {cli[c].id} |->
                               IF p = cli[c].id THEN [root |-> cli[c].root, sources |-> cli[c].held]
                               ELSE launch[p]]]
      <4>1. cli' = [cli EXCEPT ![c] = command] /\ command.at = "writing"
        BY <2>4 DEF ReadLaunch
      <4> QED
        BY <4>1
    <3> QED
      BY <2>4, <3>1, OwnersStep DEF ReadLaunch
  <2>5. CASE WriteLaunch(c)
    <3>1. NoCommand.at # "opened"
      BY DEF NoCommand
    <3> QED
      BY <2>5, <3>1, OwnersStep DEF WriteLaunch
  <2> QED
    BY <1>2, <2>1, <2>2, <2>3, <2>4, <2>5 DEF Register
<1>3. CASE WriteTranscript \/ InitRepository \/ StartService \/ Rediscovery \/ CapturePass
           \/ StopService
  BY <1>1, <1>3 DEF WriteTranscript, InitRepository, StartService, Rediscovery, BeginPass,
     SavePass, BuildService, Activate, CapturePass, StopService
<1> QED
  BY <1>1, <1>2, <1>3 DEF RegNext, regVars

LEMMA OwnersInvariant == RegSpec => []OwnersInv
BY OwnersInit, OwnersNext, PTL DEF RegSpec

(* However many commands register at once and whatever becomes a repository *)
(* in between, no directory belongs to two projects.                        *)
THEOREM PathsHaveOneProject == RegSpec => []OneProjectPerPath
<1>1. OwnersInv => OneProjectPerPath
  BY DEF OwnersInv, Sound, Separate, OneProjectPerPath
<1> QED
  BY <1>1, OwnersInvariant, PTL

----------------------------------------------------------------------------
(* Whose evidence is whose.                                                 *)

Known(held, id, root) == root \in Roots /\ \E p \in held : p.id = id /\ root \in p.aliases

OwnedIn(written, root) == {t \in Transcripts : \E cwd \in written[t] : Within(cwd, root)}

(* A project of service.json: its root is registered, its sources are       *)
(* sessions that ran there.                                                 *)
Placed(held, written, id, project) ==
  /\ project \in [root : Roots, sources : SUBSET Transcripts]
  /\ Known(held, id, project.root)
  /\ project.sources \subseteq OwnedIn(written, project.root)

Backed(held, written, config) ==
  \A id \in DOMAIN config : Placed(held, written, id, config[id])

Traced(held, written, b) ==
  \E root \in Roots : Known(held, b[1], root) /\ b[2] \in OwnedIn(written, root)

(* What a command that has registered its root is about to write.           *)
CommandBacked(command, held, written) ==
  /\ command.at \in {"scanning", "scanned"} => Known(held, command.id, command.root)
  /\ command.at = "scanned" => command.held \subseteq OwnedIn(written, command.root)
  /\ command.at = "writing" => Backed(held, written, command.config)

PassBacked(at, held, written) ==
  at.at \in {"scanned", "starting"} => Backed(held, written, at.config)

FilesTyped == files \in [Transcripts -> SUBSET Cwds]

ServiceTyped == DOMAIN service = {"up", "starts", "hooks", "stores", "bindings"}

EvidenceInv ==
  /\ FilesTyped /\ ServiceTyped
  /\ ~raced =>
       /\ Backed(registry, files, launch)
       /\ \A c \in Registrars : CommandBacked(cli[c], registry, files)
       /\ PassBacked(pass, registry, files)
       /\ \A b \in service.bindings \cup stored : Traced(registry, files, b)

LEMMA EvidenceInit == RegInit => EvidenceInv
<1> SUFFICES ASSUME RegInit PROVE EvidenceInv
  OBVIOUS
<1>1. Backed(registry, files, launch)
  BY DEF RegInit, Backed
<1>2. \A c \in Registrars : CommandBacked(cli[c], registry, files)
  BY DEF RegInit, NoCommand, CommandBacked
<1>3. PassBacked(pass, registry, files)
  BY DEF RegInit, Between, PassBacked
<1>4. service.bindings \cup stored = {}
  BY DEF RegInit
<1>5. FilesTyped /\ ServiceTyped
  BY DEF RegInit, FilesTyped, ServiceTyped
<1> QED
  BY <1>1, <1>2, <1>3, <1>4, <1>5 DEF EvidenceInv

(* Directories that stay registered and transcripts that are only written   *)
(* to: what was known is known.                                             *)
LEMMA Grows ==
  ASSUME NEW held, NEW later, NEW written, NEW longer,
         \A id, root : Known(held, id, root) => Known(later, id, root),
         \A t \in Transcripts : written[t] \subseteq longer[t]
  PROVE  /\ \A config : Backed(held, written, config) => Backed(later, longer, config)
         /\ \A b : Traced(held, written, b) => Traced(later, longer, b)
         /\ \A command : CommandBacked(command, held, written) => CommandBacked(command, later, longer)
         /\ \A at : PassBacked(at, held, written) => PassBacked(at, later, longer)
<1>1. \A root : OwnedIn(written, root) \subseteq OwnedIn(longer, root)
  BY DEF OwnedIn
<1>2. \A id, project : Placed(held, written, id, project) => Placed(later, longer, id, project)
  BY <1>1 DEF Placed
<1>3. \A config : Backed(held, written, config) => Backed(later, longer, config)
  BY <1>2 DEF Backed
<1>4. \A b : Traced(held, written, b) => Traced(later, longer, b)
  BY <1>1 DEF Traced
<1>5. ASSUME NEW command, CommandBacked(command, held, written)
      PROVE  CommandBacked(command, later, longer)
  BY <1>1, <1>3, <1>5 DEF CommandBacked
<1>6. \A at : PassBacked(at, held, written) => PassBacked(at, later, longer)
  BY <1>3 DEF PassBacked
<1> QED
  BY <1>3, <1>4, <1>5, <1>6

(* Steps that only write to a transcript, or to none.                       *)
LEMMA WritingKeeps ==
  ASSUME EvidenceInv, FilesTyped', \A t \in Transcripts : files[t] \subseteq files'[t],
         UNCHANGED <<registry, launch, cli, pass, service, stored, raced>>
  PROVE  EvidenceInv'
<1>1. \A id, root : Known(registry, id, root) => Known(registry, id, root)
  OBVIOUS
<1>2. /\ \A config : Backed(registry, files, config) => Backed(registry, files', config)
      /\ \A b : Traced(registry, files, b) => Traced(registry, files', b)
      /\ \A command : CommandBacked(command, registry, files) => CommandBacked(command, registry, files')
      /\ \A at : PassBacked(at, registry, files) => PassBacked(at, registry, files')
  BY <1>1, Grows
<1> QED
  BY <1>2 DEF EvidenceInv, ServiceTyped

(* A command goes on, and what it is about to write is backed.              *)
LEMMA CommandKeeps ==
  ASSUME OwnersInv, EvidenceInv, NEW c \in Registrars, NEW command,
         cli' = [cli EXCEPT ![c] = command],
         ~raced => CommandBacked(command, registry, files) /\ Backed(registry, files, launch'),
         UNCHANGED <<registry, files, pass, service, stored, raced>>
  PROVE  EvidenceInv'
<1>1. \A d \in Registrars : cli'[d] = IF d = c THEN command ELSE cli[d]
  BY DEF OwnersInv
<1> QED
  BY <1>1 DEF EvidenceInv, FilesTyped, ServiceTyped

(* An entry that gained an alias or was added: what was known is known.     *)
LEMMA SaveKeepsEvidence ==
  ASSUME OwnersInv, EvidenceInv, NEW c \in Registrars, SaveRegistry(c)
  PROVE  EvidenceInv'
<1>1. PICK held : held = cli[c].held
  OBVIOUS
<1>2. PICK root \in Roots : root = cli[c].root
  BY DEF SaveRegistry, OwnersInv
<1>3. idsUsed \in Nat /\ Sound(held, idsUsed)
  BY <1>1 DEF SaveRegistry, OwnersInv
<1>4. CASE cli' = [cli EXCEPT ![c] = NoCommand] /\ UNCHANGED <<registry, raced>>
  <2>1. CommandBacked(NoCommand, registry, files)
    BY DEF CommandBacked, NoCommand
  <2>2. UNCHANGED <<launch, files, pass, service, stored>>
    BY DEF SaveRegistry
  <2> QED
    BY <1>4, <2>1, <2>2, CommandKeeps DEF EvidenceInv
<1>5. CASE /\ registry' = (held \ {Extended(held, root)})
                            \cup {[Extended(held, root) EXCEPT !.aliases = @ \cup {root}]}
           /\ cli' = [cli EXCEPT ![c] = Command("scanning", root, Extended(held, root).id, {})]
           /\ raced' = (raced \/ held # registry)
  <2>1. PICK entry \in Entries : entry = Extended(held, root)
    BY <1>3, ExtendedSound
  <2> DEFINE saved == [entry EXCEPT !.aliases = @ \cup {root}]
             command == Command("scanning", root, entry.id, {})
  <2>2. saved \in Entries /\ saved.id = entry.id /\ saved.aliases = entry.aliases \cup {root}
    BY DEF Entries
  <2>3. registry' = (held \ {entry}) \cup {saved} /\ cli' = [cli EXCEPT ![c] = command]
    BY <1>5, <2>1
  <2>4. command.at = "scanning" /\ command.id = entry.id /\ command.root = root
    BY DEF Command
  <2>5. UNCHANGED <<launch, files, pass, service, stored>>
    BY DEF SaveRegistry
  <2>6. FilesTyped' /\ ServiceTyped'
    BY <2>5 DEF EvidenceInv, FilesTyped, ServiceTyped
  <2> HIDE DEF saved, command
  <2> SUFFICES ASSUME ~raced'
               PROVE  /\ Backed(registry', files', launch')
                      /\ \A d \in Registrars : CommandBacked(cli'[d], registry', files')
                      /\ PassBacked(pass', registry', files')
                      /\ \A b \in service'.bindings \cup stored' : Traced(registry', files', b)
    BY <2>6 DEF EvidenceInv
  <2>7. ~raced /\ held = registry
    BY <1>5
  <2>8. \A id, at : Known(registry, id, at) => Known(registry', id, at)
    <3>1. \A p \in registry : \E q \in registry' : q.id = p.id /\ p.aliases \subseteq q.aliases
      BY <2>2, <2>3, <2>7
    <3> QED
      BY <3>1 DEF Known
  <2>9. \A t \in Transcripts : files[t] \subseteq files[t]
    OBVIOUS
  <2>10. /\ \A config : Backed(registry, files, config) => Backed(registry', files, config)
         /\ \A b : Traced(registry, files, b) => Traced(registry', files, b)
         /\ \A d : CommandBacked(d, registry, files) => CommandBacked(d, registry', files)
         /\ \A at : PassBacked(at, registry, files) => PassBacked(at, registry', files)
    BY <2>8, <2>9, Grows
  <2>11. CommandBacked(command, registry', files)
    BY <2>2, <2>3, <2>4 DEF CommandBacked, Known
  <2>12. \A d \in Registrars : cli'[d] = IF d = c THEN command ELSE cli[d]
    BY <2>3 DEF OwnersInv
  <2> QED
    BY <2>5, <2>7, <2>10, <2>11, <2>12 DEF EvidenceInv
<1> QED
  BY <1>1, <1>2, <1>4, <1>5 DEF SaveRegistry, Extended

LEMMA RegisterKeepsEvidence ==
  ASSUME OwnersInv, EvidenceInv, NEW c \in Registrars, Register(c)
  PROVE  EvidenceInv'
<1>1. ~raced => Backed(registry, files, launch) /\ CommandBacked(cli[c], registry, files)
  BY DEF EvidenceInv
<1>2. CASE OpenRegistry(c)
  <2>1. PICK root \in Roots : cli' = [cli EXCEPT ![c] = Command("opened", root, 0, registry)]
    BY <1>2 DEF OpenRegistry
  <2> DEFINE command == Command("opened", root, 0, registry)
  <2>2. CommandBacked(command, registry, files)
    BY DEF Command, CommandBacked
  <2>3. cli' = [cli EXCEPT ![c] = command]
        /\ UNCHANGED <<registry, launch, files, pass, service, stored, raced>>
    BY <1>2, <2>1 DEF OpenRegistry
  <2> HIDE DEF command
  <2> QED
    BY <1>1, <2>2, <2>3, CommandKeeps
<1>3. CASE SaveRegistry(c)
  BY <1>3, SaveKeepsEvidence
<1>4. CASE Scan(c)
  <2> DEFINE command == Command("scanned", cli[c].root, cli[c].id, Discovered(cli[c].root))
  <2>1. /\ command.at = "scanned" /\ command.id = cli[c].id /\ command.root = cli[c].root
        /\ command.held = Owned(cli[c].root)
    BY DEF Command, Discovered
  <2>2. cli[c].at = "scanning" /\ cli' = [cli EXCEPT ![c] = command]
        /\ UNCHANGED <<registry, launch, files, pass, service, stored, raced>>
    BY <1>4 DEF Scan
  <2> HIDE DEF command
  <2>3. ~raced => CommandBacked(command, registry, files)
    BY <1>1, <2>1, <2>2 DEF CommandBacked, Owned, OwnedIn
  <2> QED
    BY <1>1, <2>2, <2>3, CommandKeeps
<1>5. CASE ReadLaunch(c)
  <2> DEFINE project == [root |-> cli[c].root, sources |-> cli[c].held]
             config == [p \in DOMAIN launch \cup {cli[c].id} |->
                          IF p = cli[c].id THEN project ELSE launch[p]]
             command == [at |-> "writing", config |-> config]
  <2>1. command.at = "writing" /\ command.config = config
    OBVIOUS
  <2>2. cli[c].at = "scanned" /\ cli' = [cli EXCEPT ![c] = command]
        /\ UNCHANGED <<registry, launch, files, pass, service, stored, raced>>
    BY <1>5 DEF ReadLaunch
  <2>3. ASSUME ~raced PROVE Backed(registry, files, config)
    <3>1. Placed(registry, files, cli[c].id, project)
      <4>1. Known(registry, cli[c].id, cli[c].root)
            /\ cli[c].held \subseteq OwnedIn(files, cli[c].root)
        BY <1>1, <2>2, <2>3 DEF CommandBacked
      <4>2. cli[c].root \in Roots /\ cli[c].held \subseteq Transcripts
        BY <4>1 DEF Known, OwnedIn
      <4> QED
        BY <4>1, <4>2 DEF Placed
    <3>2. \A id \in DOMAIN launch : Placed(registry, files, id, launch[id])
      BY <1>1, <2>3 DEF Backed
    <3> HIDE DEF project
    <3> QED
      BY <3>1, <3>2 DEF Backed
  <2> HIDE DEF config
  <2>4. ~raced => CommandBacked(command, registry, files)
    BY <2>1, <2>3 DEF CommandBacked
  <2> HIDE DEF command
  <2> QED
    BY <1>1, <2>2, <2>4, CommandKeeps
<1>6. CASE WriteLaunch(c)
  <2>1. CommandBacked(NoCommand, registry, files)
    BY DEF CommandBacked, NoCommand
  <2>2. cli[c].at = "writing" /\ launch' = cli[c].config /\ cli' = [cli EXCEPT ![c] = NoCommand]
        /\ UNCHANGED <<registry, files, pass, service, stored, raced>>
    BY <1>6 DEF WriteLaunch
  <2>3. ~raced => Backed(registry, files, launch')
    BY <1>1, <2>2 DEF CommandBacked
  <2> QED
    BY <2>1, <2>2, <2>3, CommandKeeps
<1> QED
  BY <1>2, <1>3, <1>4, <1>5, <1>6 DEF Register

(* Steps of the service.                                                    *)
LEMMA ServiceKeeps ==
  ASSUME EvidenceInv, ServiceTyped', UNCHANGED <<registry, files, cli, raced>>,
         ~raced => /\ Backed(registry, files, launch')
                   /\ PassBacked(pass', registry, files)
                   /\ \A b \in service'.bindings \cup stored' : Traced(registry, files, b)
  PROVE  EvidenceInv'
BY DEF EvidenceInv, FilesTyped

(* What a scan adds is owned, and what is bound is backed.                  *)
LEMMA ScanBacked ==
  ASSUME Backed(registry, files, launch)
  PROVE  /\ Backed(registry, files, Rediscovered(launch))
         /\ \A b \in Bindings(launch) : Traced(registry, files, b)
<1>1. ASSUME NEW id \in DOMAIN launch
      PROVE  /\ Placed(registry, files, id, [launch[id] EXCEPT !.sources = @ \cup Owned(launch[id].root)])
             /\ Placed(registry, files, id, launch[id])
  <2>1. Placed(registry, files, id, launch[id])
    BY DEF Backed
  <2>2. PICK project \in [root : Roots, sources : SUBSET Transcripts] : project = launch[id]
    BY <2>1 DEF Placed
  <2> DEFINE next == [project EXCEPT !.sources = @ \cup Owned(project.root)]
  <2>3. /\ next \in [root : Roots, sources : SUBSET Transcripts] /\ next.root = project.root
        /\ next.sources = project.sources \cup Owned(project.root)
    BY DEF Owned
  <2> HIDE DEF next
  <2>4. Placed(registry, files, id, next)
    BY <2>1, <2>2, <2>3 DEF Placed, Owned, OwnedIn
  <2> QED
    BY <2>1, <2>2, <2>4 DEF next
<1>2. Backed(registry, files, Rediscovered(launch))
  BY <1>1 DEF Backed, Rediscovered
<1>3. ASSUME NEW b \in Bindings(launch) PROVE Traced(registry, files, b)
  <2>1. b[1] \in DOMAIN launch /\ b[2] \in launch[b[1]].sources
    BY DEF Bindings
  <2>2. Placed(registry, files, b[1], launch[b[1]])
    BY <1>1, <2>1
  <2> QED
    BY <2>1, <2>2 DEF Placed, Traced, Known
<1> QED
  BY <1>2, <1>3

LEMMA ServiceKeepsEvidence ==
  ASSUME EvidenceInv, StartService \/ Rediscovery \/ CapturePass \/ StopService
  PROVE  EvidenceInv'
<1>1. ~raced => /\ Backed(registry, files, launch) /\ PassBacked(pass, registry, files)
                /\ Backed(registry, files, Rediscovered(launch))
                /\ \A b \in Bindings(launch) : Traced(registry, files, b)
                /\ \A b \in service.bindings : Traced(registry, files, b)
                /\ \A b \in stored : Traced(registry, files, b)
  BY ScanBacked DEF EvidenceInv
<1>2. \A at : PassBacked(Between(at), registry, files) \/ at \in {"scanned", "starting"}
  BY DEF Between, PassBacked
<1>3. ASSUME NEW at, ~raced PROVE PassBacked(Scanned(at), registry, files)
  BY <1>1, <1>3 DEF Scanned, PassBacked
<1>4. ServiceTyped
  BY DEF EvidenceInv
<1>5. CASE StartService
  <2>1. pass' = Scanned("starting") /\ service' = [service EXCEPT !.starts = @ + 1]
        /\ UNCHANGED <<registry, launch, files, cli, stored, raced>>
    BY <1>5 DEF StartService
  <2>2. service'.bindings = service.bindings /\ ServiceTyped'
    BY <1>4, <2>1 DEF ServiceTyped
  <2> QED
    BY <1>1, <1>3, <2>1, <2>2, ServiceKeeps
<1>6. CASE BeginPass
  <2>1. pass' = Scanned("scanned") /\ UNCHANGED <<registry, launch, files, cli, service, stored, raced>>
    BY <1>6 DEF BeginPass
  <2> QED
    BY <1>1, <1>3, <1>4, <2>1, ServiceKeeps DEF ServiceTyped
<1>7. CASE SavePass
  <2>1. /\ pass.at \in {"scanned", "starting"} /\ launch' \in {launch, pass.config}
        /\ pass' = Between(Loaded(pass.at))
        /\ UNCHANGED <<registry, files, cli, service, stored, raced>>
    BY <1>7 DEF SavePass
  <2>2. PassBacked(pass', registry, files)
    BY <1>2, <2>1 DEF Loaded
  <2>3. ~raced => Backed(registry, files, launch')
    BY <1>1, <2>1 DEF PassBacked
  <2> QED
    BY <1>1, <1>4, <2>1, <2>2, <2>3, ServiceKeeps DEF ServiceTyped
<1>8. CASE BuildService
  <2>1. /\ pass' = Between("waiting")
        /\ service' = [service EXCEPT !.up = TRUE, !.hooks = HookBindings(launch),
                                      !.bindings = Bindings(launch),
                                      !.stores = {b[1] : b \in Bindings(launch)}]
        /\ UNCHANGED <<registry, launch, files, cli, stored, raced>>
    BY <1>8 DEF BuildService
  <2>2. service'.bindings = Bindings(launch) /\ ServiceTyped'
    BY <1>4, <2>1 DEF ServiceTyped
  <2> QED
    BY <1>1, <1>2, <2>1, <2>2, ServiceKeeps
<1>9. CASE Activate
  <2>1. /\ pass' = Between("waiting")
        /\ service' \in {service, [service EXCEPT !.bindings = Activated]}
        /\ UNCHANGED <<registry, launch, files, cli, stored, raced>>
    BY <1>9 DEF Activate
  <2>2. service'.bindings \subseteq service.bindings \cup Bindings(launch) /\ ServiceTyped'
    BY <1>4, <2>1 DEF ServiceTyped, Activated, Additions
  <2> QED
    BY <1>1, <1>2, <2>1, <2>2, ServiceKeeps
<1>10. CASE CapturePass
  <2>1. /\ stored' = stored \cup service.bindings
        /\ UNCHANGED <<registry, launch, files, cli, pass, service, raced>>
    BY <1>10 DEF CapturePass
  <2> QED
    BY <1>1, <1>4, <2>1, ServiceKeeps DEF ServiceTyped
<1>11. CASE StopService
  <2>1. /\ pass' = Between("waiting")
        /\ service' = [service EXCEPT !.up = FALSE, !.hooks = {}, !.stores = {}, !.bindings = {}]
        /\ UNCHANGED <<registry, launch, files, cli, stored, raced>>
    BY <1>11 DEF StopService
  <2>2. service'.bindings = {} /\ ServiceTyped'
    BY <1>4, <2>1 DEF ServiceTyped
  <2> QED
    BY <1>1, <1>2, <2>1, <2>2, ServiceKeeps
<1> QED
  BY <1>5, <1>6, <1>7, <1>8, <1>9, <1>10, <1>11 DEF Rediscovery

LEMMA EvidenceNext == OwnersInv /\ EvidenceInv /\ [RegNext]_regVars => EvidenceInv'
<1> SUFFICES ASSUME OwnersInv, EvidenceInv, [RegNext]_regVars PROVE EvidenceInv'
  OBVIOUS
<1>1. CASE UNCHANGED regVars
  BY <1>1, WritingKeeps DEF regVars, EvidenceInv, FilesTyped
<1>2. CASE WriteTranscript
  <2>1. PICK t \in Transcripts, cwd \in Cwds :
          files[t] = {} /\ files' = [files EXCEPT ![t] = {cwd}]
    BY <1>2 DEF WriteTranscript
  <2>2. FilesTyped' /\ \A u \in Transcripts : files[u] \subseteq files'[u]
    BY <2>1 DEF EvidenceInv, FilesTyped
  <2> QED
    BY <1>2, <2>2, WritingKeeps DEF WriteTranscript
<1>3. CASE InitRepository
  BY <1>3, WritingKeeps DEF InitRepository, EvidenceInv, FilesTyped
<1>4. CASE StartService \/ Rediscovery \/ CapturePass \/ StopService
  BY <1>4, ServiceKeepsEvidence
<1> QED
  BY <1>1, <1>2, <1>3, <1>4, RegisterKeepsEvidence DEF RegNext

LEMMA EvidenceInvariant == RegSpec => []EvidenceInv
<1>1. RegInit => OwnersInv /\ EvidenceInv
  BY OwnersInit, EvidenceInit
<1> QED
  BY <1>1, OwnersInvariant, EvidenceNext, PTL DEF RegSpec

(* A directory is inside a root exactly if its path goes on with a          *)
(* separator after the root's.                                              *)
LEMMA WithinIsBelow ==
  ASSUME NEW cwd \in Cwds, NEW root \in Roots, Within(cwd, root)
  PROVE  cwd = root \/ IsPrefix(Append(root, "/"), cwd)
<1> DEFINE Chars == STRING \cup {"/"}
<1>1. cwd \in Seq(Chars) /\ root \in Seq(Chars) /\ "/" \in Chars
  BY PathsAssumption
<1> HIDE DEF Chars
<1>2. CASE cwd = root
  BY <1>2
<1>3. CASE IsStrictPrefix(root, cwd) /\ cwd[Len(root) + 1] = "/"
  <2>1. /\ Len(root) <= Len(cwd) /\ root # cwd
        /\ \A i \in 1..Len(root) : root[i] = cwd[i]
    <3>1. /\ Len(root) <= Len(cwd) /\ root # cwd
          /\ SubSeq(root, 1, Len(root)) = SubSeq(cwd, 1, Len(root))
      BY <1>3 DEF IsStrictPrefix, IsPrefix
    <3>2. \A i \in 1..Len(root) : /\ SubSeq(root, 1, Len(root))[i] = root[i]
                                  /\ SubSeq(cwd, 1, Len(root))[i] = cwd[i]
      BY <1>1, <3>1
    <3> QED
      BY <3>1, <3>2
  <2>2. Len(root) + 1 <= Len(cwd)
    BY <1>1, <2>1
  <2>3. Append(root, "/") \in Seq(Chars) /\ Len(Append(root, "/")) = Len(root) + 1
    BY <1>1
  <2>4. \A i \in 1..(Len(root) + 1) : Append(root, "/")[i] = cwd[i]
    BY <1>1, <1>3, <2>1
  <2>5. SubSeq(Append(root, "/"), 1, Len(root) + 1) = SubSeq(cwd, 1, Len(root) + 1)
    BY <1>1, <2>2, <2>3, <2>4
  <2> QED
    BY <2>2, <2>3, <2>5 DEF IsPrefix
<1> QED
  BY <1>2, <1>3 DEF Within

(* Whatever the commands and the service read, wrote and kept, and in which *)
(* order: the evidence of a project comes from sessions below its roots,    *)
(* unless two registrations wrote over each other, and no directory has two *)
(* owners.                                                                  *)
THEOREM SourcesStayOwned == RegSpec => []SourcesOwned
<1>1. EvidenceInv => EvidenceOwned
  <2> SUFFICES ASSUME EvidenceInv, ~raced, NEW b \in stored
               PROVE  \E p \in registry :
                        /\ p.id = b[1]
                        /\ \E cwd \in files[b[2]], root \in p.aliases :
                             cwd = root \/ IsPrefix(Append(root, "/"), cwd)
    BY DEF EvidenceOwned
  <2>1. PICK root \in Roots : Known(registry, b[1], root) /\ b[2] \in OwnedIn(files, root)
    BY DEF EvidenceInv, Traced
  <2>2. PICK p \in registry : p.id = b[1] /\ root \in p.aliases
    BY <2>1 DEF Known
  <2>3. PICK cwd \in files[b[2]] : b[2] \in Transcripts /\ Within(cwd, root)
    BY <2>1 DEF OwnedIn
  <2>4. cwd \in Cwds
    BY <2>3 DEF EvidenceInv, FilesTyped
  <2>5. cwd = root \/ IsPrefix(Append(root, "/"), cwd)
    BY <2>3, <2>4, WithinIsBelow
  <2> QED
    BY <2>2, <2>3, <2>5
<1>2. OwnersInv => OneProjectPerPath
  BY DEF OwnersInv, Sound, Separate, OneProjectPerPath
<1> QED
  BY <1>1, <1>2, OwnersInvariant, EvidenceInvariant, PTL DEF SourcesOwned

----------------------------------------------------------------------------
(* What two claims have to do with each other.                              *)

Path == Seq(STRING)

LEMMA PrefixElements ==
  ASSUME NEW s \in Path, NEW t \in Path
  PROVE  IsPrefix(s, t) <=> Len(s) <= Len(t) /\ \A i \in 1..Len(s) : s[i] = t[i]
<1>1. SubSeq(s, 1, Len(s)) = s
  BY DEF Path
<1>2. ASSUME Len(s) <= Len(t)
      PROVE  /\ SubSeq(t, 1, Len(s)) \in Path /\ Len(SubSeq(t, 1, Len(s))) = Len(s)
             /\ \A i \in 1..Len(s) : SubSeq(t, 1, Len(s))[i] = t[i]
  BY <1>2 DEF Path
<1>3. ASSUME Len(s) <= Len(t)
      PROVE  s = SubSeq(t, 1, Len(s)) <=> \A i \in 1..Len(s) : s[i] = t[i]
  <2>1. ASSUME \A i \in 1..Len(s) : s[i] = t[i] PROVE s = SubSeq(t, 1, Len(s))
    BY <1>2, <1>3, <2>1, SeqEqual DEF Path
  <2>2. ASSUME s = SubSeq(t, 1, Len(s)) PROVE \A i \in 1..Len(s) : s[i] = t[i]
    BY <1>2, <1>3, <2>2
  <2> QED
    BY <2>1, <2>2
<1> QED
  BY <1>1, <1>3 DEF IsPrefix

(* Two directories above one file are one, or one is below the other.       *)
LEMMA PrefixesRelated ==
  ASSUME NEW s \in Path, NEW t \in Path, NEW u \in Path, IsPrefix(s, u), IsPrefix(t, u)
  PROVE  Related(s, t)
<1>1. /\ Len(s) <= Len(u) /\ \A i \in 1..Len(s) : s[i] = u[i]
      /\ Len(t) <= Len(u) /\ \A i \in 1..Len(t) : t[i] = u[i]
  BY PrefixElements
<1>2. Len(s) \in Nat /\ Len(t) \in Nat
  BY DEF Path
<1>3. IsPrefix(s, t) \/ IsPrefix(t, s)
  <2>1. CASE Len(s) <= Len(t)
    BY <1>1, <1>2, <2>1, PrefixElements
  <2>2. CASE Len(t) <= Len(s)
    BY <1>1, <1>2, <2>2, PrefixElements
  <2> QED
    BY <1>2, <2>1, <2>2
<1> QED
  BY <1>3 DEF Related, ChildOf, IsStrictPrefix

LEMMA PrefixReflexive == \A s \in Path : IsPrefix(s, s)
BY PrefixElements DEF Path

(* The directory a file is in.                                              *)
LEMMA FrontIsPrefix ==
  ASSUME NEW s \in Path, s # <<>>
  PROVE  /\ Front(s) \in Path /\ IsPrefix(Front(s), s)
         /\ \A t \in Path : IsStrictPrefix(t, s) => IsPrefix(t, Front(s))
<1>1. Len(s) \in Nat /\ Len(s) > 0
  BY DEF Path
<1>2. /\ Front(s) \in Path /\ Len(Front(s)) = Len(s) - 1
      /\ \A i \in 1..(Len(s) - 1) : Front(s)[i] = s[i]
  <2>1. Len(s) - 1 \in Int /\ \A i \in 1..(Len(s) - 1) : s[i] \in STRING
    BY <1>1 DEF Path
  <2>2. PICK m \in Int : m = Len(s) - 1
    BY <2>1
  <2>3. /\ SubSeq(s, 1, m) \in Seq(STRING)
        /\ Len(SubSeq(s, 1, m)) = IF 1 <= m THEN m - 1 + 1 ELSE 0
        /\ \A i \in 1..(m - 1 + 1) : SubSeq(s, 1, m)[i] = s[1 + i - 1]
    BY <2>1, <2>2, SubSeqProperties
  <2> QED
    BY <1>1, <2>2, <2>3 DEF Front, Path
<1>3. IsPrefix(Front(s), s)
  BY <1>1, <1>2, PrefixElements
<1>4. ASSUME NEW t \in Path, IsStrictPrefix(t, s) PROVE IsPrefix(t, Front(s))
  <2>1. Len(t) <= Len(s) /\ (\A i \in 1..Len(t) : t[i] = s[i]) /\ t # s
    BY <1>4, PrefixElements DEF IsStrictPrefix
  <2>2. Len(t) # Len(s)
    BY <2>1, SeqEqual DEF Path
  <2>3. Len(t) \in Nat
    BY DEF Path
  <2> QED
    BY <1>1, <1>2, <2>1, <2>2, <2>3, PrefixElements
<1> QED
  BY <1>2, <1>3, <1>4

(* A claim that covers a file names it, a directory above it or, as a glob  *)
(* of everything, the directory it is in.                                   *)
LEMMA CoveredBelow ==
  ASSUME NEW what \in Claimable, NEW file \in Covered(what)
  PROVE  /\ file \in Path /\ what.path \in Path /\ what.path # <<>>
         /\ what.kind \in {"file", "symbol"} => file = what.path
         /\ what.kind = "directory" => IsPrefix(what.path, file)
         /\ what.kind = "glob" =>
              /\ file # <<>> /\ Front(file) = Front(what.path)
              /\ what.stem = None => StaticPrefix(what) = Front(what.path) \o <<>>
         /\ what.kind # "glob" => StaticPrefix(what) = what.path
<1>1. /\ file \in Path /\ what.path \in Path /\ what.path # <<>>
      /\ what.kind \in {"file", "directory", "glob", "symbol"}
  BY ClaimableAssumption, FilesAssumption DEF Covered, Path
<1>2. what.kind \in {"file", "symbol"} => file = what.path
  BY DEF Covered
<1>3. what.kind = "directory" => IsPrefix(what.path, file)
  BY <1>1, PrefixReflexive DEF Covered, ChildOf, IsStrictPrefix
<1>4. what.kind = "glob" => Len(file) = Len(what.path) /\ Front(file) = Front(what.path)
  BY DEF Covered
<1>5. what.kind = "glob" => file # <<>>
  BY <1>1, <1>4 DEF Path
<1> QED
  BY <1>1, <1>2, <1>3, <1>4, <1>5 DEF StaticPrefix

(* Claims of one file overlap, unless only a wildcard within a name or a    *)
(* symbol in a file of a glob can show it.                                  *)
LEMMA SharedFileAlerts ==
  ASSUME NEW l \in Claimable, NEW r \in Claimable, ~IsIgnored(l), ~IsIgnored(r),
         NEW file \in Covered(l) \cap Covered(r), ~Blurred(l, r)
  PROVE  Overlap(l, r) \in Alerting
<1> DEFINE Kinds == {"file", "directory", "glob", "symbol"}
<1>1. /\ file \in Path /\ l.path \in Path /\ r.path \in Path
      /\ l.path # <<>> /\ r.path # <<>>
      /\ l.kind \in Kinds /\ r.kind \in Kinds
  BY CoveredBelow, ClaimableAssumption
<1>2. \A what \in {l, r} :
        /\ what.kind \in {"file", "symbol"} => file = what.path
        /\ what.kind = "directory" => IsPrefix(what.path, file)
        /\ what.kind = "glob" => file # <<>> /\ Front(file) = Front(what.path)
  BY CoveredBelow
<1>3. \A what \in {l, r} :
        /\ what.kind = "glob" => StaticPrefix(what) = Front(file)
        /\ what.kind # "glob" => StaticPrefix(what) = what.path
  <2>1. \A what \in {l, r} : what.kind = "glob" => what.stem = None
    BY DEF Blurred
  <2>2. \A what \in {l, r} : what.kind = "glob" => Front(what.path) \o <<>> = Front(what.path)
    <3>1. \A what \in {l, r} : Front(what.path) \in Path
      BY <1>1, FrontIsPrefix
    <3> QED
      BY <3>1 DEF Path
  <2> QED
    BY <1>2, <2>1, <2>2, CoveredBelow
<1>4. \A what \in {l, r} : what.kind # "glob" => IsPrefix(what.path, file)
  BY <1>1, <1>2, PrefixReflexive
<1>5. CASE "symbol" \in {l.kind, r.kind}
  <2>1. l.kind # "glob" /\ r.kind # "glob"
    BY <1>1, <1>5 DEF Blurred
  <2>2. Related(l.path, r.path)
    BY <1>1, <1>4, <2>1, PrefixesRelated
  <2>3. OverlapOfSymbols(l, r) \in Alerting
    BY <2>2 DEF OverlapOfSymbols, Alerting
  <2> QED
    BY <1>5, <2>3 DEF Overlap
<1>6. CASE "symbol" \notin {l.kind, r.kind} /\ "glob" \in {l.kind, r.kind}
  <2>1. file # <<>> /\ Front(file) \in Path /\ IsPrefix(Front(file), file)
    BY <1>1, <1>2, <1>6, FrontIsPrefix
  <2>2. \A what \in {l, r} : StaticPrefix(what) \in Path /\ IsPrefix(StaticPrefix(what), file)
    BY <1>1, <1>3, <1>4, <2>1
  <2>3. Related(StaticPrefix(l), StaticPrefix(r))
    BY <1>1, <2>2, PrefixesRelated
  <2>4. OverlapOfGlobs(l, r) \in Alerting
    BY <2>3 DEF OverlapOfGlobs, Alerting
  <2> QED
    BY <1>6, <2>4 DEF Overlap
<1>7. CASE "symbol" \notin {l.kind, r.kind} /\ "glob" \notin {l.kind, r.kind}
  <2>1. Related(l.path, r.path)
    BY <1>1, <1>4, <1>7, PrefixesRelated
  <2>2. /\ l.kind = "file" => ~ChildOf(r.path, l.path)
        /\ r.kind = "file" => ~ChildOf(l.path, r.path)
    <3>1. ASSUME NEW s \in Path, IsPrefix(s, file) PROVE ~IsStrictPrefix(file, s)
      <4>1. Len(s) <= Len(file) /\ Len(s) \in Nat /\ Len(file) \in Nat
        BY <1>1, <3>1, PrefixElements DEF Path
      <4>2. ASSUME IsStrictPrefix(file, s) PROVE FALSE
        <5>1. Len(file) <= Len(s) /\ (\A i \in 1..Len(file) : file[i] = s[i]) /\ file # s
          BY <1>1, <4>2, PrefixElements DEF IsStrictPrefix
        <5> QED
          BY <1>1, <4>1, <5>1, SeqEqual DEF Path
      <4> QED
        BY <4>2
    <3> QED
      BY <1>1, <1>2, <1>4, <1>7, <3>1 DEF ChildOf
  <2>3. l.kind \in {"file", "directory"} /\ r.kind \in {"file", "directory"}
    BY <1>1, <1>7
  <2>4. OverlapOfPaths(l, r) = "definite"
    BY <2>1, <2>2, <2>3 DEF OverlapOfPaths, Related
  <2> QED
    BY <1>7, <2>4 DEF Overlap, Alerting
<1> QED
  BY <1>5, <1>6, <1>7

----------------------------------------------------------------------------
(* Tasks and their claims.                                                  *)

CallState ==
  [at : {"idle", "insert", "alias", "save", "record"}, task : TaskIds \cup {None},
   what : Claimable \cup {None}, seen : SUBSET (Nat \cup TaskIds), read : Nat]

ClaimState ==
  [task : TaskIds, what : Claimable, live : BOOLEAN, read : Nat, warned : SUBSET (Nat \cup TaskIds)]

TasksTyped ==
  /\ taskStatus \in [TaskIds -> {"none", "active", "closed"}]
  /\ pathClaims \in Seq(ClaimState)
  /\ call \in [Callers -> CallState]
  /\ alias \subseteq Nat \cup TaskIds

Creating == {"alias", "save", "record"}

(* Who creates a task is alone with it, and its alias was saved before its  *)
(* row.                                                                     *)
CreationAlone ==
  \A c \in Callers : call[c].at \in Creating =>
    /\ call[c].task \in TaskIds /\ taskStatus[call[c].task] = "none"
    /\ \A d \in Callers \ {c} : call[d].at \in Creating => call[d].task # call[c].task

AliasFirst == \A c \in Callers : call[c].at = "record" => call[c].task \in alias \cup lost

(* Who claims, and whatever was claimed, is a task that was active.         *)
ClaimsOfTasks ==
  /\ \A c \in Callers : call[c].at = "insert" =>
       /\ call[c].task \in TaskIds /\ taskStatus[call[c].task] # "none"
       /\ call[c].what \in Claimable
  /\ \A i \in DOMAIN pathClaims : taskStatus[pathClaims[i].task] # "none"

(* Of what a command has read, nothing is active that it has not seen.      *)
ReadSeen ==
  \A c \in Callers : call[c].at = "insert" =>
    /\ call[c].read <= Len(pathClaims)
    /\ \A i \in ActiveClaims : i <= call[c].read => i \in call[c].seen

ReadBefore == \A j \in DOMAIN pathClaims : pathClaims[j].read < j

TasksInv ==
  /\ TasksTyped /\ CreationAlone /\ AliasFirst /\ ClaimsOfTasks /\ ReadSeen /\ ReadBefore
  /\ TaskResolvable /\ OverlapWarned

LEMMA TasksInit == ClaimsInit => TasksInv
<1> SUFFICES ASSUME ClaimsInit PROVE TasksInv
  OBVIOUS
<1>1. NoCall \in CallState /\ NoCall.at = "idle"
  BY DEF NoCall, CallState
<1>2. pathClaims = <<>> /\ pathClaims \in Seq(ClaimState) /\ DOMAIN pathClaims = {}
  BY DEF ClaimsInit
<1>3. TasksTyped
  BY <1>1, <1>2 DEF ClaimsInit, TasksTyped
<1>4. \A c \in Callers : call[c].at = "idle"
  BY <1>1 DEF ClaimsInit
<1>5. TaskResolvable
  BY DEF ClaimsInit, TaskResolvable
<1> QED
  BY <1>2, <1>3, <1>4, <1>5 DEF TasksInv, CreationAlone, AliasFirst, ClaimsOfTasks, ReadSeen,
     ReadBefore, OverlapWarned, Creating

LEMMA ClaimTyped ==
  ASSUME TasksTyped, NEW i \in DOMAIN pathClaims
  PROVE  /\ pathClaims[i] \in ClaimState
         /\ pathClaims[i].task \in TaskIds /\ pathClaims[i].what \in Claimable
<1>1. pathClaims[i] \in ClaimState
  BY DEF TasksTyped
<1> QED
  BY <1>1 DEF ClaimState

(* No claim becomes active again, and none is about something else.         *)
Quieter ==
  /\ ActiveClaims' \subseteq ActiveClaims
  /\ DOMAIN pathClaims' = DOMAIN pathClaims /\ Len(pathClaims') = Len(pathClaims)
  /\ \A i \in DOMAIN pathClaims :
       /\ pathClaims'[i].task = pathClaims[i].task /\ pathClaims'[i].what = pathClaims[i].what
       /\ pathClaims'[i].read = pathClaims[i].read
       /\ pathClaims'[i].warned = pathClaims[i].warned

(* A step that leaves the claims alone wakes none: a task that becomes      *)
(* active had none.                                                         *)
LEMMA StepIsQuiet ==
  ASSUME ClaimsOfTasks, pathClaims' = pathClaims, TasksTyped,
         \A task \in TaskIds : taskStatus'[task] = "active" => taskStatus[task] \in {"active", "none"}
  PROVE  Quieter
<1>1. \A i \in DOMAIN pathClaims : pathClaims[i].task \in TaskIds
  BY ClaimTyped
<1>2. ActiveClaims' \subseteq ActiveClaims
  BY <1>1 DEF ActiveClaims, ClaimsOfTasks
<1> QED
  BY <1>2 DEF Quieter

(* A step that adds no claim keeps what holds of them.                      *)
LEMMA ClaimsKeep ==
  ASSUME TasksTyped, ClaimsOfTasks, ReadSeen, ReadBefore, OverlapWarned, Quieter,
         \A task \in TaskIds : taskStatus[task] # "none" => taskStatus'[task] # "none",
         \A d \in Callers : call'[d].at = "insert" =>
           \/ call'[d] = call[d]
           \/ /\ call'[d].task \in TaskIds /\ taskStatus'[call'[d].task] # "none"
              /\ call'[d].what \in Claimable
              /\ call'[d].read = Len(pathClaims) /\ call'[d].seen = ActiveClaims
  PROVE  ClaimsOfTasks' /\ ReadSeen' /\ ReadBefore' /\ OverlapWarned'
<1>1. \A i \in DOMAIN pathClaims : pathClaims[i].task \in TaskIds
  BY ClaimTyped
<1>2. Len(pathClaims) \in Nat
  BY DEF TasksTyped
<1>3. ClaimsOfTasks'
  <2>1. \A i \in DOMAIN pathClaims' : taskStatus'[pathClaims'[i].task] # "none"
    BY <1>1 DEF Quieter, ClaimsOfTasks
  <2>2. \A d \in Callers : call'[d].at = "insert" =>
          /\ call'[d].task \in TaskIds /\ taskStatus'[call'[d].task] # "none"
          /\ call'[d].what \in Claimable
    BY DEF ClaimsOfTasks
  <2> QED
    BY <2>1, <2>2 DEF ClaimsOfTasks
<1>4. ReadSeen'
  <2> SUFFICES ASSUME NEW d \in Callers, call'[d].at = "insert"
               PROVE  /\ call'[d].read <= Len(pathClaims')
                      /\ \A i \in ActiveClaims' : i <= call'[d].read => i \in call'[d].seen
    BY DEF ReadSeen
  <2> QED
    BY <1>2 DEF ReadSeen, Quieter
<1>5. ReadBefore'
  BY DEF ReadBefore, Quieter
<1>6. OverlapWarned'
  <2> SUFFICES ASSUME NEW i \in DOMAIN pathClaims', NEW j \in DOMAIN pathClaims',
                      i <= pathClaims'[j].read, pathClaims'[i].task # pathClaims'[j].task,
                      {i, j} \subseteq ActiveClaims',
                      ~IsIgnored(pathClaims'[i].what), ~IsIgnored(pathClaims'[j].what),
                      Covered(pathClaims'[i].what) \cap Covered(pathClaims'[j].what) # {},
                      ~Blurred(pathClaims'[i].what, pathClaims'[j].what)
               PROVE  i \in pathClaims'[j].warned
    BY DEF OverlapWarned
  <2>1. {i, j} \subseteq ActiveClaims /\ i \in DOMAIN pathClaims /\ j \in DOMAIN pathClaims
    BY DEF Quieter
  <2> QED
    BY <2>1 DEF OverlapWarned, Quieter
<1> QED
  BY <1>3, <1>4, <1>5, <1>6

(* A command that goes on to r, with a task that nobody else creates, keeps *)
(* what holds of the creations.                                             *)
LEMMA CreationsKeep ==
  ASSUME TasksTyped, CreationAlone, AliasFirst, TaskResolvable,
         NEW c \in Callers, NEW r, call' = [call EXCEPT ![c] = r],
         alias \cup lost \subseteq alias' \cup lost',
         \A task \in TaskIds :
           \/ taskStatus'[task] = taskStatus[task]
           \/ /\ taskStatus'[task] # "none" /\ task \in alias' \cup lost'
              /\ \A d \in Callers \ {c} : call[d].at \in Creating => call[d].task # task,
         r.at \in Creating =>
           /\ r.task \in TaskIds /\ taskStatus'[r.task] = "none"
           /\ \A d \in Callers \ {c} : call[d].at \in Creating => call[d].task # r.task,
         r.at = "record" => r.task \in alias' \cup lost'
  PROVE  CreationAlone' /\ AliasFirst' /\ TaskResolvable'
<1>1. call'[c] = r /\ \A d \in Callers \ {c} : call'[d] = call[d]
  BY DEF TasksTyped
<1>2. CreationAlone'
  <2> SUFFICES ASSUME NEW d \in Callers, call'[d].at \in Creating
               PROVE  /\ call'[d].task \in TaskIds /\ taskStatus'[call'[d].task] = "none"
                      /\ \A e \in Callers \ {d} :
                           call'[e].at \in Creating => call'[e].task # call'[d].task
    BY DEF CreationAlone
  <2>1. CASE d = c
    BY <1>1, <2>1
  <2>2. CASE d # c
    <3>1. call'[d] = call[d]
      BY <1>1, <2>2
    <3>2. /\ call[d].task \in TaskIds /\ taskStatus[call[d].task] = "none"
          /\ \A e \in Callers \ {d} : call[e].at \in Creating => call[e].task # call[d].task
      BY <3>1 DEF CreationAlone
    <3>3. taskStatus'[call[d].task] = "none"
      BY <2>2, <3>1, <3>2
    <3>4. \A e \in Callers \ {d} : call'[e].at \in Creating => call'[e].task # call[d].task
      <4> SUFFICES ASSUME NEW e \in Callers \ {d}, call'[e].at \in Creating
                   PROVE  call'[e].task # call[d].task
        OBVIOUS
      <4>1. CASE e = c
        BY <1>1, <2>2, <3>1, <4>1
      <4>2. CASE e # c
        BY <1>1, <3>2, <4>2
      <4> QED
        BY <4>1, <4>2
    <3> QED
      BY <3>1, <3>2, <3>3, <3>4
  <2> QED
    BY <2>1, <2>2
<1>3. AliasFirst'
  <2> SUFFICES ASSUME NEW d \in Callers, call'[d].at = "record"
               PROVE  call'[d].task \in alias' \cup lost'
    BY DEF AliasFirst
  <2>1. CASE d = c
    BY <1>1, <2>1
  <2>2. CASE d # c
    BY <1>1, <2>2 DEF AliasFirst
  <2> QED
    BY <2>1, <2>2
<1>4. TaskResolvable'
  BY DEF TaskResolvable
<1> QED
  BY <1>2, <1>3, <1>4

(* The same of a step of no command, if no task comes or goes.              *)
LEMMA OthersKeep ==
  ASSUME CreationAlone, AliasFirst, TaskResolvable, TasksTyped, call' = call,
         alias \cup lost \subseteq alias' \cup lost',
         \A task \in TaskIds : taskStatus'[task] = "none" <=> taskStatus[task] = "none"
  PROVE  CreationAlone' /\ AliasFirst' /\ TaskResolvable'
BY DEF CreationAlone, AliasFirst, TaskResolvable, Creating

LEMMA IdleCall == NoCall \in CallState /\ NoCall.at = "idle"
BY DEF NoCall, CallState

(* What becomes of a call that ends without having changed a task.          *)
LEMMA EndKeeps ==
  ASSUME TasksInv, NEW c \in Callers, End(c), UNCHANGED <<taskStatus, alias, lost, pathClaims>>
  PROVE  TasksInv'
<1>1. TasksTyped'
  BY IdleCall DEF End, TasksInv, TasksTyped
<1>2. CreationAlone' /\ AliasFirst' /\ TaskResolvable'
  BY CreationsKeep, IdleCall DEF End, TasksInv, Creating
<1>3. Quieter
  BY StepIsQuiet DEF TasksInv
<1>4. \A d \in Callers : call'[d].at = "insert" => call'[d] = call[d]
  BY IdleCall DEF End, TasksInv, TasksTyped
<1>5. ClaimsOfTasks' /\ ReadSeen' /\ ReadBefore' /\ OverlapWarned'
  BY <1>3, <1>4, ClaimsKeep DEF TasksInv
<1> QED
  BY <1>1, <1>2, <1>5 DEF TasksInv

LEMMA ReadKeeps ==
  ASSUME TasksInv, NEW c \in Callers, NEW task \in TaskIds, NEW what \in Claimable,
         ReadClaims(c, task, what)
  PROVE  TasksInv'
<1> DEFINE r == [at |-> "insert", task |-> task, what |-> what, seen |-> ActiveClaims,
                 read |-> Len(pathClaims)]
<1>1. r \in CallState
  BY DEF TasksInv, TasksTyped, CallState, ActiveClaims
<1>2. /\ r.at = "insert" /\ r.task = task /\ r.what = what /\ r.seen = ActiveClaims
      /\ r.read = Len(pathClaims)
  OBVIOUS
<1>3. call' = [call EXCEPT ![c] = r]
  BY DEF ReadClaims
<1> HIDE DEF r
<1>4. UNCHANGED <<taskStatus, alias, lost, pathClaims>> /\ taskStatus[task] = "active"
  BY DEF ReadClaims
<1>5. TasksTyped'
  BY <1>1, <1>3, <1>4 DEF TasksInv, TasksTyped
<1>6. CreationAlone' /\ AliasFirst' /\ TaskResolvable'
  <2>1. r.at \notin Creating /\ r.at # "record"
    BY <1>2 DEF Creating
  <2> QED
    BY <1>3, <1>4, <2>1, CreationsKeep DEF TasksInv
<1>7. Quieter
  BY <1>4, StepIsQuiet DEF TasksInv
<1>8. \A d \in Callers : call'[d] = call[d] \/ call'[d] = r
  BY <1>3 DEF TasksInv, TasksTyped
<1>9. ClaimsOfTasks' /\ ReadSeen' /\ ReadBefore' /\ OverlapWarned'
  BY <1>2, <1>4, <1>7, <1>8, ClaimsKeep DEF TasksInv
<1> QED
  BY <1>5, <1>6, <1>9 DEF TasksInv

(* The registry is read: the command goes on to save what it saw.           *)
LEMMA RegistryReadKeeps ==
  ASSUME TasksInv, NEW c \in Callers, ReadRegistry(c)
  PROVE  TasksInv'
<1> DEFINE r == [call[c] EXCEPT !.at = "save", !.seen = alias]
<1>1. call[c] \in CallState
  BY DEF TasksInv, TasksTyped
<1>2. r \in CallState /\ r.at = "save" /\ r.task = call[c].task
  BY <1>1 DEF CallState, TasksInv, TasksTyped
<1>3. call' = [call EXCEPT ![c] = r]
  BY DEF ReadRegistry
<1> HIDE DEF r
<1>4. UNCHANGED <<taskStatus, alias, lost, pathClaims>> /\ call[c].at \in Creating
  BY DEF ReadRegistry, Creating
<1>5. TasksTyped'
  BY <1>2, <1>3, <1>4 DEF TasksInv, TasksTyped
<1>6. CreationAlone' /\ AliasFirst' /\ TaskResolvable'
  <2>1. /\ call[c].task \in TaskIds /\ taskStatus[call[c].task] = "none"
        /\ \A d \in Callers \ {c} : call[d].at \in Creating => call[d].task # call[c].task
    BY <1>4 DEF TasksInv, CreationAlone
  <2> QED
    BY <1>2, <1>3, <1>4, <2>1, CreationsKeep DEF TasksInv
<1>7. Quieter
  BY <1>4, StepIsQuiet DEF TasksInv
<1>8. \A d \in Callers : call'[d] = call[d] \/ call'[d].at = "save"
  BY <1>2, <1>3 DEF TasksInv, TasksTyped
<1>9. ClaimsOfTasks' /\ ReadSeen' /\ ReadBefore' /\ OverlapWarned'
  BY <1>4, <1>7, <1>8, ClaimsKeep DEF TasksInv
<1> QED
  BY <1>5, <1>6, <1>9 DEF TasksInv

(* The alias is saved; what the registry had and the command had not read   *)
(* is on record as lost.                                                    *)
LEMMA SaveAliasKeeps ==
  ASSUME TasksInv, NEW c \in Callers, SaveAlias(c)
  PROVE  TasksInv'
<1> DEFINE r == [call[c] EXCEPT !.at = "record", !.seen = {}]
<1>1. call[c] \in CallState /\ call[c].at = "save"
  BY DEF TasksInv, TasksTyped, SaveAlias
<1>2. r \in CallState /\ r.at = "record" /\ r.task = call[c].task
  BY <1>1 DEF CallState
<1>3. call' = [call EXCEPT ![c] = r]
  BY DEF SaveAlias
<1> HIDE DEF r
<1>4. /\ UNCHANGED <<taskStatus, pathClaims>>
      /\ alias' = call[c].seen \cup {call[c].task} /\ lost' = lost \cup (alias \ alias')
  BY DEF SaveAlias
<1>5. /\ call[c].task \in TaskIds /\ taskStatus[call[c].task] = "none"
      /\ \A d \in Callers \ {c} : call[d].at \in Creating => call[d].task # call[c].task
  BY <1>1 DEF TasksInv, CreationAlone, Creating
<1>6. TasksTyped'
  <2>1. alias' \subseteq Nat \cup TaskIds
    BY <1>1, <1>4, <1>5 DEF CallState
  <2> QED
    BY <1>2, <1>3, <1>4, <2>1 DEF TasksInv, TasksTyped
<1>7. CreationAlone' /\ AliasFirst' /\ TaskResolvable'
  <2>1. alias \cup lost \subseteq alias' \cup lost' /\ r.task \in alias' \cup lost'
    BY <1>2, <1>4
  <2> QED
    BY <1>2, <1>3, <1>4, <1>5, <2>1, CreationsKeep DEF TasksInv
<1>8. Quieter
  BY <1>4, StepIsQuiet DEF TasksInv
<1>9. \A d \in Callers : call'[d] = call[d] \/ call'[d].at = "record"
  BY <1>2, <1>3 DEF TasksInv, TasksTyped
<1>10. ClaimsOfTasks' /\ ReadSeen' /\ ReadBefore' /\ OverlapWarned'
  BY <1>4, <1>8, <1>9, ClaimsKeep DEF TasksInv
<1> QED
  BY <1>6, <1>7, <1>10 DEF TasksInv

LEMMA WorktreeKeeps ==
  ASSUME TasksInv, NEW c \in Callers, NEW task \in TaskIds, AddWorktree(c, task)
  PROVE  TasksInv'
<1> DEFINE r == [NoCall EXCEPT !.at = "alias", !.task = task]
<1>1. r \in CallState /\ r.at = "alias" /\ r.task = task
  BY DEF NoCall, CallState
<1>2. call' = [call EXCEPT ![c] = r]
  BY DEF AddWorktree
<1> HIDE DEF r
<1>3. /\ UNCHANGED <<taskStatus, alias, lost, pathClaims>> /\ taskStatus[task] = "none"
      /\ \A other \in Callers : call[other].task # task
  BY DEF AddWorktree
<1>4. TasksTyped'
  BY <1>1, <1>2, <1>3 DEF TasksInv, TasksTyped
<1>5. CreationAlone' /\ AliasFirst' /\ TaskResolvable'
  BY <1>1, <1>2, <1>3, CreationsKeep DEF TasksInv
<1>6. Quieter
  BY <1>3, StepIsQuiet DEF TasksInv
<1>7. \A d \in Callers : call'[d] = call[d] \/ call'[d].at = "alias"
  BY <1>1, <1>2 DEF TasksInv, TasksTyped
<1>8. ClaimsOfTasks' /\ ReadSeen' /\ ReadBefore' /\ OverlapWarned'
  BY <1>3, <1>6, <1>7, ClaimsKeep DEF TasksInv
<1> QED
  BY <1>4, <1>5, <1>8 DEF TasksInv

LEMMA RecordKeeps ==
  ASSUME TasksInv, NEW c \in Callers, RecordTask(c)
  PROVE  TasksInv'
<1>1. call[c].at = "record" /\ call' = [call EXCEPT ![c] = NoCall]
  BY DEF RecordTask, Recordable, End
<1> DEFINE mine == call[c].task
<1>2. /\ mine \in TaskIds /\ taskStatus[mine] = "none" /\ mine \in alias \cup lost
      /\ \A d \in Callers \ {c} : call[d].at \in Creating => call[d].task # mine
  BY <1>1 DEF TasksInv, CreationAlone, AliasFirst, Creating
<1>3. /\ taskStatus' = [taskStatus EXCEPT ![mine] = "active"]
      /\ UNCHANGED <<alias, lost, pathClaims>>
  BY DEF RecordTask
<1> HIDE DEF mine
<1>4. /\ taskStatus'[mine] = "active"
      /\ \A task \in TaskIds \ {mine} : taskStatus'[task] = taskStatus[task]
  BY <1>2, <1>3 DEF TasksInv, TasksTyped
<1>5. TasksTyped'
  BY <1>1, <1>3, IdleCall DEF TasksInv, TasksTyped
<1>6. CreationAlone' /\ AliasFirst' /\ TaskResolvable'
  BY <1>1, <1>2, <1>3, <1>4, IdleCall, CreationsKeep DEF TasksInv, Creating
<1>7. Quieter
  BY <1>2, <1>3, <1>4, StepIsQuiet DEF TasksInv
<1>8. \A d \in Callers : call'[d] = call[d] \/ call'[d].at = "idle"
  BY <1>1, IdleCall DEF TasksInv, TasksTyped
<1>9. ClaimsOfTasks' /\ ReadSeen' /\ ReadBefore' /\ OverlapWarned'
  BY <1>4, <1>7, <1>8, ClaimsKeep DEF TasksInv
<1> QED
  BY <1>5, <1>6, <1>9 DEF TasksInv

LEMMA CloseKeeps ==
  ASSUME TasksInv, NEW task \in TaskIds, CloseWorktree(task)
  PROVE  TasksInv'
<1>1. /\ taskStatus[task] = "active" /\ taskStatus' = [taskStatus EXCEPT ![task] = "closed"]
      /\ UNCHANGED <<alias, lost, pathClaims, call>>
  BY DEF CloseWorktree
<1>2. \A t \in TaskIds : taskStatus'[t] = IF t = task THEN "closed" ELSE taskStatus[t]
  BY <1>1 DEF TasksInv, TasksTyped
<1>3. TasksTyped'
  BY <1>1 DEF TasksInv, TasksTyped
<1>4. CreationAlone' /\ AliasFirst' /\ TaskResolvable'
  BY <1>1, <1>2, OthersKeep DEF TasksInv
<1>5. Quieter
  BY <1>1, <1>2, StepIsQuiet DEF TasksInv
<1>6. ClaimsOfTasks' /\ ReadSeen' /\ ReadBefore' /\ OverlapWarned'
  BY <1>1, <1>2, <1>5, ClaimsKeep DEF TasksInv
<1> QED
  BY <1>3, <1>4, <1>6 DEF TasksInv

LEMMA ReleaseKeeps ==
  ASSUME TasksInv, NEW i \in DOMAIN pathClaims, ReleaseClaim(i)
  PROVE  TasksInv'
<1>1. /\ pathClaims' = [pathClaims EXCEPT ![i].live = FALSE]
      /\ UNCHANGED <<taskStatus, alias, lost, call>>
  BY DEF ReleaseClaim
<1>2. \A j \in DOMAIN pathClaims : pathClaims[j] \in ClaimState
  BY ClaimTyped DEF TasksInv
<1> DEFINE released == [pathClaims[i] EXCEPT !.live = FALSE]
<1>3. /\ released \in ClaimState /\ ~released.live
      /\ released.task = pathClaims[i].task /\ released.what = pathClaims[i].what
      /\ released.read = pathClaims[i].read /\ released.warned = pathClaims[i].warned
  BY <1>2 DEF ClaimState
<1>4. pathClaims' = [pathClaims EXCEPT ![i] = released]
  BY <1>1
<1> HIDE DEF released
<1>5. /\ pathClaims' \in Seq(ClaimState) /\ Len(pathClaims') = Len(pathClaims)
      /\ DOMAIN pathClaims' = DOMAIN pathClaims
      /\ \A j \in DOMAIN pathClaims : pathClaims'[j] = IF j = i THEN released ELSE pathClaims[j]
  BY <1>3, <1>4 DEF TasksInv, TasksTyped
<1>6. Quieter
  <2>1. ActiveClaims' \subseteq ActiveClaims
    BY <1>1, <1>3, <1>5 DEF ActiveClaims
  <2> QED
    BY <1>3, <1>5, <2>1 DEF Quieter
<1>7. TasksTyped'
  BY <1>1, <1>5 DEF TasksInv, TasksTyped
<1>8. CreationAlone' /\ AliasFirst' /\ TaskResolvable'
  BY <1>1, OthersKeep DEF TasksInv
<1>9. ClaimsOfTasks' /\ ReadSeen' /\ ReadBefore' /\ OverlapWarned'
  BY <1>1, <1>6, ClaimsKeep DEF TasksInv
<1> QED
  BY <1>7, <1>8, <1>9 DEF TasksInv

(* The transaction of a claim: what was read is still all there is to warn  *)
(* of, and what came in between is not of the past it read.                 *)
LEMMA InsertKeeps ==
  ASSUME TasksInv, NEW c \in Callers, InsertClaim(c)
  PROVE  TasksInv'
<1> DEFINE new == [task |-> call[c].task, what |-> call[c].what, live |-> TRUE,
                   read |-> call[c].read, warned |-> Warnings(c)]
           last == Len(pathClaims) + 1
<1>1. call[c] \in CallState /\ call[c].at = "insert" /\ Len(pathClaims) \in Nat
  BY DEF TasksInv, TasksTyped, InsertClaim
<1>2. /\ call[c].task \in TaskIds /\ taskStatus[call[c].task] # "none" /\ call[c].what \in Claimable
      /\ call[c].read <= Len(pathClaims) /\ call[c].read \in Nat
      /\ \A i \in ActiveClaims : i <= call[c].read => i \in call[c].seen
  BY <1>1 DEF TasksInv, ClaimsOfTasks, ReadSeen, CallState
<1>3. Warnings(c) \subseteq call[c].seen /\ call[c].seen \subseteq Nat \cup TaskIds
  BY <1>1 DEF Warnings, CallState
<1>4. /\ new \in ClaimState /\ new.task = call[c].task /\ new.what = call[c].what
      /\ new.read = call[c].read /\ new.warned = Warnings(c)
  BY <1>2, <1>3 DEF ClaimState
<1>5. pathClaims' = Append(pathClaims, new)
  BY DEF InsertClaim
<1> HIDE DEF new
<1>6. UNCHANGED <<taskStatus, alias, lost>> /\ call' = [call EXCEPT ![c] = NoCall]
  BY DEF InsertClaim, End
<1>7. /\ pathClaims' \in Seq(ClaimState) /\ Len(pathClaims') = last
      /\ DOMAIN pathClaims' = DOMAIN pathClaims \cup {last}
      /\ last \notin DOMAIN pathClaims /\ pathClaims'[last] = new
      /\ \A i \in DOMAIN pathClaims : pathClaims'[i] = pathClaims[i] /\ i \in Nat /\ i < last
  <2>1. pathClaims \in Seq(ClaimState)
    BY DEF TasksInv, TasksTyped
  <2> QED
    BY <1>4, <1>5, <2>1, AppendProperties
<1>8. last \in Nat /\ call[c].read < last
  BY <1>1, <1>2
<1> HIDE DEF last
<1>9. \A i \in ActiveClaims' : i # last => i \in ActiveClaims
  BY <1>6, <1>7 DEF ActiveClaims
<1>10. \A d \in Callers : call'[d].at = "insert" => call'[d] = call[d]
  BY <1>6, IdleCall DEF TasksInv, TasksTyped
<1>11. TasksTyped'
  BY <1>6, <1>7, IdleCall DEF TasksInv, TasksTyped
<1>12. CreationAlone' /\ AliasFirst' /\ TaskResolvable'
  BY <1>6, IdleCall, CreationsKeep DEF TasksInv, Creating
<1>13. ClaimsOfTasks'
  <2>1. \A i \in DOMAIN pathClaims' : taskStatus'[pathClaims'[i].task] # "none"
    BY <1>2, <1>4, <1>6, <1>7 DEF TasksInv, ClaimsOfTasks
  <2> QED
    BY <1>6, <1>10, <2>1 DEF TasksInv, ClaimsOfTasks
<1>14. ReadSeen'
  <2> SUFFICES ASSUME NEW d \in Callers, call'[d].at = "insert"
               PROVE  /\ call'[d].read <= Len(pathClaims')
                      /\ \A i \in ActiveClaims' : i <= call'[d].read => i \in call'[d].seen
    BY DEF ReadSeen
  <2>1. /\ call'[d] = call[d] /\ call[d].read \in Nat /\ call[d].read <= Len(pathClaims)
        /\ \A i \in ActiveClaims : i <= call[d].read => i \in call[d].seen
    BY <1>10 DEF TasksInv, TasksTyped, CallState, ReadSeen
  <2>2. call[d].read < last
    BY <1>1, <2>1 DEF last
  <2> QED
    BY <1>7, <1>8, <1>9, <2>1, <2>2
<1>15. ReadBefore'
  BY <1>4, <1>7, <1>8 DEF TasksInv, ReadBefore
<1>16. OverlapWarned'
  <2> SUFFICES ASSUME NEW i \in DOMAIN pathClaims', NEW j \in DOMAIN pathClaims',
                      i <= pathClaims'[j].read, pathClaims'[i].task # pathClaims'[j].task,
                      {i, j} \subseteq ActiveClaims',
                      ~IsIgnored(pathClaims'[i].what), ~IsIgnored(pathClaims'[j].what),
                      Covered(pathClaims'[i].what) \cap Covered(pathClaims'[j].what) # {},
                      ~Blurred(pathClaims'[i].what, pathClaims'[j].what)
               PROVE  i \in pathClaims'[j].warned
    BY DEF OverlapWarned
  <2>1. pathClaims'[j].read \in Nat /\ pathClaims'[j].read < j /\ i \in Nat /\ j \in Nat
    <3>1. pathClaims'[j] \in ClaimState
      BY <1>11 DEF TasksTyped
    <3> QED
      BY <1>7, <1>8, <1>15, <3>1 DEF ReadBefore, ClaimState
  <2>2. i # last
    <3>1. j <= last
      BY <1>7, <1>8
    <3> QED
      BY <1>8, <2>1, <3>1
  <2>3. i \in DOMAIN pathClaims /\ i \in ActiveClaims /\ pathClaims'[i] = pathClaims[i]
    BY <1>7, <1>9, <2>2
  <2>4. CASE j = last
    <3>1. i \in call[c].seen /\ pathClaims[i].task # call[c].task
      BY <1>2, <1>4, <1>7, <2>3, <2>4
    <3>2. pathClaims[i].what \in Claimable
      BY <2>3, ClaimTyped DEF TasksInv
    <3>3. /\ pathClaims'[i].what = pathClaims[i].what /\ pathClaims'[j].what = call[c].what
          /\ ~Blurred(call[c].what, pathClaims[i].what)
      BY <1>4, <1>7, <2>3, <2>4 DEF Blurred
    <3>4. PICK file : file \in Covered(call[c].what) \cap Covered(pathClaims[i].what)
      BY <3>3
    <3>5. Overlap(call[c].what, pathClaims[i].what) \in Alerting
      BY <1>2, <3>2, <3>3, <3>4, SharedFileAlerts
    <3> QED
      BY <1>4, <1>7, <2>4, <3>1, <3>5 DEF Warnings
  <2>5. CASE j # last
    BY <1>7, <1>9, <2>3, <2>5 DEF TasksInv, OverlapWarned
  <2> QED
    BY <2>4, <2>5
<1> QED
  BY <1>11, <1>12, <1>13, <1>14, <1>15, <1>16 DEF TasksInv

LEMMA TasksNext == TasksInv /\ [ClaimsNext]_claimVars => TasksInv'
<1> SUFFICES ASSUME TasksInv, [ClaimsNext]_claimVars PROVE TasksInv'
  OBVIOUS
<1>1. ASSUME NEW c \in Callers, NEW task \in TaskIds, AddWorktree(c, task) PROVE TasksInv'
  BY <1>1, WorktreeKeeps
<1>2. ASSUME NEW c \in Callers, NEW task \in TaskIds, NEW what \in Claimable,
             ReadClaims(c, task, what)
      PROVE  TasksInv'
  BY <1>2, ReadKeeps
<1>3. ASSUME NEW c \in Callers, InsertClaim(c) PROVE TasksInv'
  BY <1>3, InsertKeeps
<1>4. ASSUME NEW c \in Callers, ReadRegistry(c) PROVE TasksInv'
  BY <1>4, RegistryReadKeeps
<1>5. ASSUME NEW c \in Callers, SaveAlias(c) PROVE TasksInv'
  BY <1>5, SaveAliasKeeps
<1>6. ASSUME NEW c \in Callers, RecordTask(c) PROVE TasksInv'
  BY <1>6, RecordKeeps
<1>7. ASSUME NEW c \in Callers, FailTask(c) \/ Abort(c) PROVE TasksInv'
  BY <1>7, EndKeeps DEF FailTask, Abort
<1>8. ASSUME NEW task \in TaskIds, CloseWorktree(task) PROVE TasksInv'
  BY <1>8, CloseKeeps
<1>9. ASSUME UNCHANGED <<taskStatus, alias, lost, pathClaims, call>> PROVE TasksInv'
  <2>1. ActiveClaims' = ActiveClaims /\ TasksTyped' /\ Quieter
    BY <1>9 DEF TasksInv, TasksTyped, ActiveClaims, Quieter
  <2>2. CreationAlone' /\ AliasFirst' /\ TaskResolvable'
    BY <1>9, OthersKeep DEF TasksInv
  <2>3. ClaimsOfTasks' /\ ReadSeen' /\ ReadBefore' /\ OverlapWarned'
    BY <1>9, <2>1, ClaimsKeep DEF TasksInv
  <2> QED
    BY <2>1, <2>2, <2>3 DEF TasksInv
<1>10. ASSUME NEW i \in DOMAIN pathClaims, ReleaseClaim(i) PROVE TasksInv'
  BY <1>10, ReleaseKeeps
<1>11. ASSUME UNCHANGED claimVars PROVE TasksInv'
  BY <1>9, <1>11 DEF claimVars
<1>12. ASSUME NEW task \in TaskIds, RemoveWorktree(task) PROVE TasksInv'
  BY <1>9, <1>12 DEF RemoveWorktree
<1> QED
  BY <1>1, <1>2, <1>3, <1>4, <1>5, <1>6, <1>7, <1>8, <1>10, <1>11, <1>12 DEF ClaimsNext

LEMMA TasksInvariant == ClaimsSpec => []TasksInv
<1>1. ClaimsInit => TasksInv
  BY TasksInit
<1>2. TasksInv /\ [ClaimsNext]_claimVars => TasksInv'
  BY TasksNext
<1> QED
  BY <1>1, <1>2, PTL DEF ClaimsSpec

(* Whoever claims what another active task has claimed is told of it, for   *)
(* claims of files, directories, symbols and globs of whole directories,    *)
(* unless the other claim was stored in between; and the worktree of a task *)
(* is known to the registry unless another command wrote over it.           *)
THEOREM TasksStaySound == ClaimsSpec => []TasksSound
<1>1. TasksInv => TasksSound
  BY DEF TasksInv, TasksSound
<1> QED
  BY <1>1, TasksInvariant, PTL

----------------------------------------------------------------------------
(* The hooks in the settings of the harnesses.                              *)

HasOnce(hooks) == \A p, q \in OfBrain(hooks) : p.event = q.event => p = q

(* What an installer writes has one hook of the brain for an event, or      *)
(* none, whatever it has read.                                              *)
LEMMA WrittenOnce ==
  \A hooks, path : HasOnce(WithHooks(hooks, path)) /\ HasOnce(Stripped(hooks, path))
<1> SUFFICES ASSUME NEW hooks, NEW path
             PROVE  HasOnce(WithHooks(hooks, path)) /\ HasOnce(Stripped(hooks, path))
  OBVIOUS
<1>1. OfBrain(Stripped(hooks, path)) = {}
  BY DEF OfBrain, Stripped
<1>2. \A p \in Brain(path) : p.tool = "brain"
  BY DEF Brain
<1>3. OfBrain(WithHooks(hooks, path)) = Brain(path)
  <2>1. CASE CurrentOnly(hooks, path)
    BY <2>1 DEF WithHooks, CurrentOnly
  <2>2. CASE ~CurrentOnly(hooks, path)
    BY <1>1, <1>2, <2>2 DEF WithHooks, OfBrain
  <2> QED
    BY <2>1, <2>2
<1>4. \A p, q \in Brain(path) : p.event = q.event => p = q
  BY DEF Brain
<1> QED
  BY <1>1, <1>3, <1>4 DEF HasOnce

HooksInv ==
  /\ DOMAIN hooked = Harnesses /\ hooked = [h \in Harnesses |-> hooked[h]]
  /\ \A h \in Harnesses : HasOnce(hooked[h])

LEMMA HooksInit == InstallationInit => HooksInv
<1> SUFFICES ASSUME InstallationInit PROVE HooksInv
  OBVIOUS
<1>1. PICK earlier \in SUBSET HookEvents, path \in Paths :
        hooked = [h \in Harnesses |->
                    {[event |-> e, tool |-> "brain", path |-> path] : e \in earlier}]
  BY DEF InstallationInit
<1>2. ASSUME NEW h \in Harnesses PROVE HasOnce(hooked[h])
  BY <1>1 DEF HasOnce, OfBrain
<1> QED
  BY <1>1, <1>2 DEF HooksInv

LEMMA HooksStep == HooksInv /\ [InstallationNext]_installVars => HooksInv'
<1> SUFFICES ASSUME HooksInv, [InstallationNext]_installVars PROVE HooksInv'
  OBVIOUS
<1>1. CASE UNCHANGED hooked
  BY <1>1 DEF HooksInv, HasOnce
<1>2. ASSUME NEW h \in Harnesses, EditSettings(h) PROVE HooksInv'
  <2>1. PICK e \in HookEvents :
          LET entry == [event |-> e, tool |-> "other", path |-> "other"]
          IN  hooked' = [hooked EXCEPT ![h] = IF entry \in @ THEN @ \ {entry} ELSE @ \cup {entry}]
    BY <1>2 DEF EditSettings
  <2>2. OfBrain(hooked'[h]) = OfBrain(hooked[h])
    BY <2>1 DEF HooksInv, OfBrain
  <2>3. /\ DOMAIN hooked' = Harnesses /\ hooked' = [g \in Harnesses |-> hooked'[g]]
        /\ \A g \in Harnesses : g # h => hooked'[g] = hooked[g]
    BY <2>1 DEF HooksInv
  <2>4. \A g \in Harnesses : OfBrain(hooked'[g]) = OfBrain(hooked[g])
    BY <2>2, <2>3
  <2> QED
    BY <2>3, <2>4 DEF HooksInv, HasOnce
<1>3. CASE WriteSettings
  <2>1. PICK g, hooks, path :
          hooked' = [hooked EXCEPT ![g] = Stripped(hooks, path)]
            \/ hooked' = [hooked EXCEPT ![g] = WithHooks(hooks, path)]
    BY <1>3 DEF WriteSettings
  <2> QED
    BY <2>1, WrittenOnce DEF HooksInv
<1>4. CASE FailSettings
  <2>1. CASE installer.command # "install"
    BY <1>1, <1>4, <2>1 DEF FailSettings
  <2>2. CASE installer.command = "install"
    <3>1. PICK taken, path :
            hooked' = [h \in Harnesses |->
                         IF h \in taken THEN Stripped(hooked[h], path) ELSE hooked[h]]
      BY <1>4, <2>2 DEF FailSettings
    <3>2. ASSUME NEW h \in Harnesses PROVE HasOnce(hooked'[h])
      BY <3>1, WrittenOnce DEF HooksInv
    <3> QED
      BY <3>1, <3>2 DEF HooksInv
  <2> QED
    BY <2>1, <2>2
<1> QED
  BY <1>1, <1>2, <1>3, <1>4 DEF InstallationNext, installVars, BeginCommand, Finish, KillInstaller,
     RegisterTask, DeleteTask, ReadSettings

(* An event never runs two hooks of the brain, whichever paths they were    *)
(* installed for and whatever is killed or edited on the way.               *)
THEOREM HooksRunOnce == InstallationSpec => []HookedOnce
<1>1. HooksInv => HookedOnce
  BY DEF HooksInv, HookedOnce, HasOnce
<1> QED
  BY <1>1, HooksInit, HooksStep, PTL DEF InstallationSpec

----------------------------------------------------------------------------
(* Deployments.                                                             *)

(* Of the binaries of a manifest, those that were replaced are of one       *)
(* version.                                                                 *)
OneVersion(binaries) ==
  \A b, c \in DOMAIN binaries :
    binaries[b].replaced /\ binaries[c].replaced => binaries[b].sha = binaries[c].sha

IsManifest(m) == m = [status |-> m.status, commit |-> m.commit, fingerprint |-> m.fingerprint,
                      binaries |-> m.binaries]

(* A build gives all binaries; a deploy at work has replaced only by what   *)
(* it built, and a manifest says "succeeded" after the last one only.       *)
DeployInv ==
  /\ DOMAIN bin = Binaries
  /\ DOMAIN target = Binaries /\ \A b, c \in Binaries : target[b] = target[c]
  /\ deploy.at # "none" => IsManifest(deployed)
  /\ deploy.at = "installing" =>
       /\ deploy = [at |-> "installing", left |-> deploy.left, fingerprint |-> deploy.fingerprint,
                    binaries |-> deploy.binaries]
       /\ deploy.left \subseteq Binaries
       /\ DOMAIN deploy.binaries = Binaries \ deploy.left
       /\ \A b \in Binaries \ deploy.left :
            deploy.binaries[b].replaced => deploy.binaries[b].sha = target[b]
  /\ deployed # Absent /\ deployed.status = "succeeded" =>
       DOMAIN deployed.binaries = Binaries /\ OneVersion(deployed.binaries)

LEMMA DeployBegins == DeployInit => DeployInv
BY DEF DeployInit, DeployInv, NoDeploy

(* One more binary is in place, or was locked.                              *)
LEMMA InstallKeeps ==
  ASSUME DeployInv, NEW b \in Binaries, InstallBinary(b)
  PROVE  DeployInv'
<1>1. deploy.at = "installing" /\ b \in deploy.left
  BY DEF InstallBinary
<1>2. PICK replaced \in BOOLEAN :
        /\ bin' = IF replaced THEN [bin EXCEPT ![b] = target[b]] ELSE bin
        /\ deploy' = [deploy EXCEPT !.left = @ \ {b},
                        !.binaries = Recorded(@, b, bin'[b], replaced)]
  BY DEF InstallBinary
<1>3. UNCHANGED <<target, deployed>>
  BY DEF InstallBinary
<1> DEFINE left == deploy.left \ {b}
           binaries == Recorded(deploy.binaries, b, bin'[b], replaced)
<1>4. DOMAIN bin' = Binaries /\ (replaced => bin'[b] = target[b])
  BY <1>2 DEF DeployInv
<1>5. deploy' = [at |-> "installing", left |-> left, fingerprint |-> deploy.fingerprint,
                 binaries |-> binaries]
  BY <1>1, <1>2 DEF DeployInv
<1>6. /\ DOMAIN binaries = DOMAIN deploy.binaries \cup {b}
      /\ binaries[b].sha = bin'[b] /\ binaries[b].replaced = replaced
      /\ \A c \in DOMAIN deploy.binaries : c # b => binaries[c] = deploy.binaries[c]
  BY DEF Recorded
<1>7. /\ left \subseteq Binaries /\ DOMAIN binaries = Binaries \ left
      /\ \A c \in Binaries \ left : binaries[c].replaced => binaries[c].sha = target[c]
  BY <1>1, <1>4, <1>6 DEF DeployInv
<1> HIDE DEF left, binaries
<1>8. /\ deploy'.at = "installing" /\ deploy'.left = left
      /\ deploy'.fingerprint = deploy.fingerprint /\ deploy'.binaries = binaries
  BY <1>5
<1> QED
  BY <1>1, <1>3, <1>4, <1>5, <1>7, <1>8 DEF DeployInv

LEMMA DeployStep == DeployInv /\ [DeployNext]_deployVars => DeployInv'
<1> SUFFICES ASSUME DeployInv, [DeployNext]_deployVars PROVE DeployInv'
  OBVIOUS
<1>1. CASE UNCHANGED <<target, deploy, deployed>> /\ DOMAIN bin' = Binaries
  BY <1>1 DEF DeployInv
<1>2. CASE BeginDeploy
  <2> DEFINE begun == Manifest("running", source.head, Absent, Unrecorded)
  <2>1. begun.status = "running" /\ IsManifest(begun)
    BY DEF Manifest, IsManifest
  <2> HIDE DEF begun
  <2>2. deployed' = begun /\ deploy'.at = "building" /\ UNCHANGED <<target, bin>>
    BY <1>2 DEF BeginDeploy, begun
  <2> QED
    BY <2>1, <2>2 DEF DeployInv
<1>3. ASSUME deployed' = [deployed EXCEPT !.status = "failed"], deploy.at # "none",
             deploy'.at = "none", UNCHANGED <<target, bin>>
      PROVE  DeployInv'
  <2>1. deployed'.status = "failed"
    BY <1>3 DEF DeployInv, IsManifest
  <2> QED
    BY <1>3, <2>1 DEF DeployInv
<1>4. CASE Build
  <2>1. CASE target' = [b \in Binaries |-> source.tree]
    <3>1. deploy.at = "building" /\ UNCHANGED <<bin>>
      BY <1>4 DEF Build
    <3>2. CASE deploy' = [at |-> "built"] /\ UNCHANGED deployed
      BY <2>1, <3>1, <3>2 DEF DeployInv
    <3>3. CASE target' = target
      BY <1>3, <1>4, <3>2, <3>3 DEF Build, NoDeploy
    <3> QED
      BY <1>4, <3>2, <3>3 DEF Build
  <2>2. CASE target' = target
    BY <1>3, <1>4, <2>1, <2>2 DEF Build, NoDeploy
  <2> QED
    BY <1>4, <2>1, <2>2 DEF Build
<1>5. CASE Fingerprint
  <2>1. PICK fingerprint \in {source.tree, Absent} :
          deploy' = [at |-> "installing", left |-> Binaries, fingerprint |-> fingerprint,
                     binaries |-> Unrecorded]
    BY <1>5 DEF Fingerprint
  <2>2. DOMAIN Unrecorded = {}
    BY DEF Unrecorded
  <2> QED
    BY <1>5, <2>1, <2>2 DEF Fingerprint, DeployInv
<1>6. ASSUME NEW b \in Binaries, InstallBinary(b) PROVE DeployInv'
  BY <1>6, InstallKeeps
<1>7. CASE FinishDeploy
  <2>1. /\ DOMAIN deploy.binaries = Binaries /\ OneVersion(deploy.binaries)
    BY <1>7 DEF FinishDeploy, DeployInv, OneVersion
  <2>2. deployed'.binaries = deploy.binaries /\ deploy'.at = "none" /\ UNCHANGED <<target, bin>>
    BY <1>7 DEF FinishDeploy, Manifest, NoDeploy
  <2> QED
    BY <2>1, <2>2 DEF DeployInv
<1>8. CASE StopDeploy
  <2>1. deploy.at # "none" /\ deploy'.at = "none" /\ UNCHANGED <<target, bin>>
    BY <1>8 DEF StopDeploy, NoDeploy
  <2>2. CASE deployed' = deployed
    BY <2>1, <2>2 DEF DeployInv
  <2> QED
    BY <1>3, <1>8, <2>1, <2>2 DEF StopDeploy
<1>9. ASSUME NEW b \in Binaries, CopyByHand(b) PROVE DeployInv'
  BY <1>1, <1>9 DEF CopyByHand, DeployInv
<1>10. CASE Edit \/ Commit \/ InstallMcp \/ UninstallMcp \/ UNCHANGED deployVars
  BY <1>1, <1>10 DEF Edit, Commit, InstallMcp, UninstallMcp, deployVars, DeployInv
<1> QED
  BY <1>2, <1>4, <1>5, <1>6, <1>7, <1>8, <1>9, <1>10 DEF DeployNext

(* When the dashboard says up to date, the installed binaries are all of    *)
(* one build, wherever a deploy was cut short or locked out.                *)
THEOREM UpToDateIsOneBuild == DeploySpec => []NoMixedBuild
<1>1. DeployInv => NoMixedBuild
  <2> SUFFICES ASSUME DeployInv, UpToDate, NEW b \in Binaries, NEW c \in Binaries
               PROVE  bin[b] = bin[c]
    BY DEF NoMixedBuild
  <2>1. DOMAIN deployed.binaries = Binaries /\ OneVersion(deployed.binaries)
    BY DEF DeployInv, UpToDate
  <2>2. \A d \in Binaries : deployed.binaries[d].replaced /\ deployed.binaries[d].sha = bin[d]
    BY <2>1 DEF UpToDate, Drifted, Unreplaced
  <2> QED
    BY <2>1, <2>2 DEF OneVersion
<1> QED
  BY <1>1, DeployBegins, DeployStep, PTL DEF DeploySpec

----------------------------------------------------------------------------
(* The paired benchmark.                                                    *)

Record ==
  [sample : STRING, attempt : Nat, launch : Nat, own : BOOLEAN,
   status : {"Completed", "HarnessFailure", "InvalidUsage"}, usage : BOOLEAN, turns : Nat,
   drifted : BOOLEAN]

RunnerState ==
  [at : {"rest", "next", "running", "ended"}, index : Nat, attempt : Nat, launch : Nat,
   known : Seq(Record), record : Record \cup {Nothing}]

BenchTyped == samples \in Seq(Record) /\ runner \in RunnerState /\ launches \in Nat

(* A sample that has records has a last one.                                *)
HasLast ==
  \A id : RecordsOf(samples, id) # {} =>
    \E i \in RecordsOf(samples, id) : \A j \in RecordsOf(samples, id) : j <= i

(* A run knows all records, and none of them was taken across a change.     *)
KnowsAll ==
  runner.at # "rest" =>
    /\ runner.known = samples /\ runner.index \in Nat \ {0}
    /\ \A i \in DOMAIN samples : ~samples[i].drifted

DriftKnown ==
  \A i \in DOMAIN samples : samples[i].drifted => drift \cap CheckedAfterSample # {}

(* The attempt at work is a later one of a sample without an answer.        *)
LaterAttempt ==
  runner.at \in {"running", "ended"} =>
    /\ runner.index <= Len(Matrix) /\ runner.attempt <= MaxAttempts
    /\ \A i \in RecordsOf(samples, Planned.id) :
         samples[i].status # "Completed" /\ samples[i].attempt < runner.attempt

(* What is about to be recorded is of this attempt, and of its own brain if *)
(* it counts.                                                               *)
OwnRecord ==
  runner.at = "ended" =>
    /\ runner.record \in Record
    /\ runner.record.sample = Planned.id /\ runner.record.attempt = runner.attempt
    /\ runner.record.status = "Completed" => runner.record.own
    /\ ~runner.record.drifted

(* A report that supports a claim, also one that is no longer shown.        *)
ReportBacked ==
  report # Nothing /\ report.supported =>
    \A p \in ToSet(Matrix) : \E r \in report.used :
      r.sample = p.id /\ r.status = "Completed" /\ r.usage /\ r.own

RunInv == BenchTyped /\ KnowsAll /\ DriftKnown /\ LaterAttempt /\ OwnRecord

RecordsInv == HasLast /\ OwnBrain /\ NoPaidRepeat /\ DriftEndsRun

BenchInv == RunInv /\ RecordsInv /\ ReportBacked

LEMMA BenchBegins == BenchInit => BenchInv
<1> SUFFICES ASSUME BenchInit PROVE BenchInv
  OBVIOUS
<1>1. samples = <<>> /\ runner = AtRest /\ launches = 0 /\ report = Nothing
  BY DEF BenchInit
<1>2. AtRest.at = "rest" /\ AtRest \in RunnerState
  BY DEF AtRest, RunnerState
<1>3. DOMAIN samples = {} /\ Len(samples) = 0 /\ samples \in Seq(Record)
  BY <1>1
<1>4. ToSet(samples) = {} /\ \A id : RecordsOf(samples, id) = {}
  BY <1>3 DEF ToSet, RecordsOf
<1>5. RunInv
  BY <1>1, <1>2, <1>3 DEF RunInv, BenchTyped, KnowsAll, DriftKnown, LaterAttempt, OwnRecord
<1>6. RecordsInv
  BY <1>3, <1>4 DEF RecordsInv, HasLast, OwnBrain, NoPaidRepeat, DriftEndsRun
<1> QED
  BY <1>1, <1>5, <1>6 DEF BenchInv, ReportBacked

(* The last attempt of a sample is that of its last record.                 *)
LEMMA LastAttemptIsLargest ==
  ASSUME BenchTyped, RecordsInv, NEW id
  PROVE  /\ LastAttempt(samples, id) \in Nat
         /\ \A i \in RecordsOf(samples, id) : samples[i].attempt <= LastAttempt(samples, id)
<1> DEFINE at == RecordsOf(samples, id)
           attempts == {samples[i].attempt : i \in at}
<1>1. CASE at = {}
  BY <1>1 DEF LastAttempt
<1>2. CASE at # {}
  <2>1. PICK last \in at : \A j \in at : j <= last
    BY <1>2 DEF RecordsInv, HasLast
  <2>2. at \subseteq 1..Len(samples) /\ \A i \in at : samples[i].attempt \in Nat /\ samples[i].sample = id
    <3>1. \A i \in DOMAIN samples : samples[i] \in Record
      BY DEF BenchTyped
    <3> QED
      BY <3>1 DEF BenchTyped, RecordsOf, Record
  <2>3. \A i \in at : samples[i].attempt <= samples[last].attempt
    BY <2>1, <2>2 DEF RecordsInv, NoPaidRepeat
  <2>4. \E x \in attempts : \A y \in attempts : x >= y
    BY <2>1, <2>2, <2>3
  <2>5. Max(attempts) \in attempts /\ \A y \in attempts : Max(attempts) >= y
    BY <2>4 DEF Max
  <2>6. LastAttempt(samples, id) = Max(attempts)
    BY <1>2 DEF LastAttempt
  <2> QED
    BY <2>2, <2>5, <2>6
<1> QED
  BY <1>1, <1>2

(* The record that a report takes for a sample is one of it.                *)
LEMMA ReportedIsRecord ==
  ASSUME BenchTyped, RecordsInv, NEW id, Reported(id) # Nothing
  PROVE  Reported(id) \in ToSet(samples) /\ Reported(id).sample = id
<1> DEFINE at == RecordsOf(samples, id)
<1>1. at # {} /\ Reported(id) = samples[Max(at)]
  BY DEF Reported
<1>2. \E i \in at : \A j \in at : i >= j
  <2>1. PICK last \in at : \A j \in at : j <= last
    BY <1>1 DEF RecordsInv, HasLast
  <2>2. at \subseteq Nat
    BY DEF BenchTyped, RecordsOf
  <2> QED
    BY <2>1, <2>2
<1>3. Max(at) \in at
  BY <1>2 DEF Max
<1> QED
  BY <1>1, <1>3 DEF RecordsOf, ToSet

(* A step of the runner that records nothing.                               *)
LEMMA RecordsKept ==
  ASSUME RecordsInv, UNCHANGED samples PROVE RecordsInv'
BY DEF RecordsInv, HasLast, OwnBrain, NoPaidRepeat, DriftEndsRun, RecordsOf

(* A run that ends.                                                         *)
LEMMA RestKeeps ==
  ASSUME BenchInv, runner' = AtRest, UNCHANGED <<samples, drift, launches>>
  PROVE  RunInv'
<1>1. AtRest.at = "rest" /\ AtRest \in RunnerState
  BY DEF AtRest, RunnerState
<1> QED
  BY <1>1 DEF BenchInv, RunInv, BenchTyped, KnowsAll, DriftKnown, LaterAttempt, OwnRecord

LEMMA LaunchKeeps ==
  ASSUME BenchInv, Launch PROVE RunInv'
<1> DEFINE attempt == LastAttempt(runner.known, Planned.id) + 1
<1>1. /\ runner.at = "next" /\ runner.index <= Len(Matrix)
      /\ ~HasCompleted(runner.known, Planned.id)
      /\ LastAttempt(runner.known, Planned.id) < MaxAttempts
      /\ runner' = [runner EXCEPT !.at = "running", !.attempt = attempt, !.launch = launches + 1]
      /\ launches' = launches + 1 /\ UNCHANGED <<samples, drift>>
  BY DEF Launch
<1>2. runner.known = samples /\ runner \in RunnerState /\ launches \in Nat
  BY <1>1 DEF BenchInv, RunInv, BenchTyped, KnowsAll
<1>3. /\ LastAttempt(samples, Planned.id) \in Nat
      /\ \A i \in RecordsOf(samples, Planned.id) :
           samples[i].attempt <= LastAttempt(samples, Planned.id)
  BY LastAttemptIsLargest DEF BenchInv, RunInv
<1>4. \A i \in RecordsOf(samples, Planned.id) :
        samples[i].attempt \in Nat /\ samples[i].status # "Completed"
  <2>1. \A i \in DOMAIN samples : samples[i] \in Record /\ samples[i] \in ToSet(samples)
    BY DEF BenchInv, RunInv, BenchTyped, ToSet
  <2> QED
    BY <1>1, <1>2, <2>1 DEF RecordsOf, Record, HasCompleted
<1>5. /\ attempt \in Nat /\ attempt <= MaxAttempts
      /\ \A i \in RecordsOf(samples, Planned.id) : samples[i].attempt < attempt
  BY <1>1, <1>2, <1>3, <1>4, AttemptsAssumption
<1> HIDE DEF attempt
<1>6. /\ runner' \in RunnerState /\ runner'.at = "running" /\ runner'.attempt = attempt
      /\ runner'.index = runner.index /\ runner'.known = runner.known
  <2>1. launches + 1 \in Nat
    BY <1>2
  <2>2. DOMAIN runner = {"at", "index", "attempt", "launch", "known", "record"}
    BY <1>2 DEF RunnerState
  <2>3. /\ runner'.at = "running" /\ runner'.attempt = attempt
        /\ runner'.launch = launches + 1 /\ runner'.index = runner.index
        /\ runner'.known = runner.known /\ runner'.record = runner.record
    BY <1>1, <2>2
  <2>4. runner' \in RunnerState
    BY <1>1, <1>2, <1>5, <2>1 DEF RunnerState
  <2> QED
    BY <2>3, <2>4
<1>7. Planned' = Planned
  BY <1>6 DEF Planned
<1> QED
  BY <1>1, <1>2, <1>4, <1>5, <1>6, <1>7 DEF BenchInv, RunInv, BenchTyped, KnowsAll, DriftKnown,
     LaterAttempt, OwnRecord, RecordsOf

(* A session that another brain answered left no receipts in its own.       *)
LEMMA EndKeepsOwn ==
  ASSUME BenchInv, EndSession PROVE RunInv'
<1>1. PICK session \in Endings,
           missing \in {{}} \cup {{receipt} : receipt \in Receipts(Planned.condition)} :
        LET pipe == <<Planned.id, runner.attempt>>
            own == ~RequiresBrain(Planned.condition) \/ serving[pipe] = runner.launch
            found == IF own THEN Receipts(Planned.condition) \ missing ELSE {}
        IN runner' = [runner EXCEPT
             !.at = "ended",
             !.record = [sample |-> Planned.id, attempt |-> runner.attempt,
                         launch |-> runner.launch, own |-> own,
                         status |-> IF Exposed(Planned.condition, found)
                                    THEN Status(session) ELSE "HarnessFailure",
                         usage |-> UsageKnown(session),
                         turns |-> session.turns, drifted |-> FALSE]]
  BY DEF EndSession
<1> DEFINE own == ~RequiresBrain(Planned.condition) \/ serving[<<Planned.id, runner.attempt>>] = runner.launch
           found == IF own THEN Receipts(Planned.condition) \ missing ELSE {}
           outcome == IF Exposed(Planned.condition, found) THEN Status(session) ELSE "HarnessFailure"
           new == [sample |-> Planned.id, attempt |-> runner.attempt, launch |-> runner.launch,
                   own |-> own, status |-> outcome, usage |-> UsageKnown(session),
                   turns |-> session.turns, drifted |-> FALSE]
<1>2. runner.at = "running" /\ UNCHANGED <<samples, drift, launches>>
  BY DEF EndSession
<1>3. runner \in RunnerState /\ runner.index \in 1..Len(Matrix)
  BY <1>2 DEF BenchInv, RunInv, BenchTyped, KnowsAll, LaterAttempt, RunnerState
<1>4. Planned.id \in STRING
  <2> DEFINE Row == [id : STRING, block : STRING, condition : {"C0", "C1", "C2", "C3", "C4"}]
  <2>1. Matrix \in Seq(Row)
    BY MatrixAssumption
  <2>2. \A row \in Row : row.id \in STRING
    OBVIOUS
  <2> HIDE DEF Row
  <2>3. Planned \in Row
    BY <1>3, <2>1, ElementOfSeq DEF Planned
  <2> QED
    BY <2>2, <2>3
<1>5. /\ session.turns \in Nat /\ UsageKnown(session) \in BOOLEAN
      /\ outcome \in {"Completed", "HarnessFailure", "InvalidUsage"}
  <2>1. session.turns \in Nat /\ session.usage \in BOOLEAN
    BY EndingsAssumption
  <2>2. UsageKnown(session) \in BOOLEAN /\ (UsageKnown(session) => session.exit = "zero")
    BY <2>1 DEF UsageKnown
  <2>3. Status(session) \in {"Completed", "HarnessFailure", "InvalidUsage"}
    BY <2>2 DEF Status
  <2> QED
    BY <2>1, <2>2, <2>3
<1>6. outcome = "Completed" => own
  <2> SUFFICES ASSUME ~own PROVE outcome = "HarnessFailure"
    OBVIOUS
  <2>1. found = {} /\ RequiresBrain(Planned.condition)
    OBVIOUS
  <2>2. ~Exposed(Planned.condition, {})
    BY <2>1 DEF Exposed
  <2> QED
    BY <2>1, <2>2
<1>7. own \in BOOLEAN
  BY DEF RequiresBrain
<1> HIDE DEF outcome, own
<1>8. /\ new \in Record /\ new.sample = Planned.id /\ new.attempt = runner.attempt
      /\ new.status = outcome /\ new.own = own /\ ~new.drifted
  BY <1>3, <1>4, <1>5, <1>7 DEF Record, RunnerState
<1>9. runner' = [runner EXCEPT !.at = "ended", !.record = new]
  BY <1>1 DEF own, outcome
<1> HIDE DEF new
<1>10. /\ runner' \in RunnerState /\ runner'.at = "ended" /\ runner'.record = new
       /\ runner'.index = runner.index /\ runner'.attempt = runner.attempt
       /\ runner'.known = runner.known
  BY <1>3, <1>8, <1>9 DEF RunnerState
<1>11. Planned' = Planned
  BY <1>10 DEF Planned
<1> QED
  BY <1>2, <1>6, <1>8, <1>10, <1>11 DEF BenchInv, RunInv, BenchTyped, KnowsAll, DriftKnown,
     LaterAttempt, OwnRecord, RecordsOf

(* A record that is appended is a later attempt, and the first across a     *)
(* change ends the run.                                                     *)
LEMMA AppendKeeps ==
  ASSUME BenchInv, RecordSample PROVE RunInv' /\ RecordsInv'
<1> DEFINE found == drift \cap {"config", "snapshot"} # {}
           new == [runner.record EXCEPT !.drifted = found]
           last == Len(samples) + 1
<1>1. /\ runner.at = "ended" /\ runner \in RunnerState /\ samples \in Seq(Record)
      /\ launches \in Nat /\ UNCHANGED <<drift, launches>> /\ Len(samples) \in Nat
      /\ DOMAIN samples = 1..Len(samples)
  BY DEF RecordSample, BenchInv, RunInv, BenchTyped
<1>2. /\ runner.record \in Record /\ runner.record.sample = Planned.id
      /\ runner.record.attempt = runner.attempt /\ ~runner.record.drifted
      /\ runner.record.status = "Completed" => runner.record.own
  BY <1>1 DEF BenchInv, RunInv, OwnRecord
<1>3. /\ runner.known = samples /\ runner.index \in Nat \ {0}
      /\ \A i \in DOMAIN samples : ~samples[i].drifted
  BY <1>1 DEF BenchInv, RunInv, KnowsAll
<1>4. /\ runner.attempt <= MaxAttempts /\ runner.attempt \in Nat
      /\ \A i \in RecordsOf(samples, Planned.id) :
           samples[i].status # "Completed" /\ samples[i].attempt < runner.attempt
  BY <1>1 DEF BenchInv, RunInv, LaterAttempt, RunnerState
<1>5. /\ new \in Record /\ new.sample = Planned.id /\ new.attempt = runner.attempt
      /\ new.drifted = found /\ new.status = runner.record.status /\ new.own = runner.record.own
      /\ ~found => new = runner.record
  BY <1>2 DEF Record
<1>6. /\ samples' = Append(samples, new)
      /\ \/ runner' = AtRest
         \/ /\ ~found
            /\ runner' = [runner EXCEPT !.at = "next", !.record = Nothing,
                                        !.known = Append(@, runner.record)]
  <2>1. ~\E r \in ToSet(samples) : r.sample = Planned.id /\ r.attempt = runner.attempt
    <3>1. \A i \in DOMAIN samples : samples[i] \in Record
      BY <1>1, ElementOfSeq
    <3>2. \A i \in DOMAIN samples : samples[i].attempt \in Nat
      BY <3>1 DEF Record
    <3> QED
      BY <1>4, <3>2 DEF ToSet, RecordsOf
  <2> QED
    BY <2>1 DEF RecordSample, CheckedAfterSample
<1> HIDE DEF new
<1>7. /\ samples' \in Seq(Record) /\ Len(samples') = last /\ DOMAIN samples' = 1..last
      /\ samples'[last] = new /\ \A i \in 1..Len(samples) : samples'[i] = samples[i]
  BY <1>1, <1>5, <1>6, AppendProperties
<1>8. RunInv'
  <2>1. DriftKnown'
    <3> SUFFICES ASSUME NEW i \in DOMAIN samples', samples'[i].drifted
                 PROVE  drift' \cap CheckedAfterSample # {}
      BY DEF DriftKnown
    <3>1. i = last
      <4>1. CASE i \in 1..Len(samples)
        <5>1. samples'[i] = samples[i] /\ i \in DOMAIN samples
          BY <1>1, <1>7, <4>1
        <5> QED
          BY <1>3, <5>1
      <4> QED
        BY <1>1, <1>7, <4>1
    <3>2. found
      BY <1>5, <1>7, <3>1
    <3> QED
      BY <1>1, <3>2 DEF CheckedAfterSample
  <2>2. CASE runner' = AtRest
    <3>1. AtRest.at = "rest" /\ AtRest \in RunnerState
      BY DEF AtRest, RunnerState
    <3> QED
      BY <1>1, <1>7, <2>1, <2>2, <3>1 DEF RunInv, BenchTyped, KnowsAll, LaterAttempt, OwnRecord
  <2>3. CASE ~found /\ runner' = [runner EXCEPT !.at = "next", !.record = Nothing,
                                                !.known = Append(@, runner.record)]
    <3>1. Append(runner.known, runner.record) = samples'
      BY <1>3, <1>5, <1>6, <2>3
    <3>2. runner' = [runner EXCEPT !.at = "next", !.record = Nothing, !.known = samples']
      BY <2>3, <3>1
    <3>3. /\ runner' \in RunnerState /\ runner'.at = "next" /\ runner'.known = samples'
          /\ runner'.index = runner.index
      BY <1>1, <1>7, <3>2 DEF RunnerState
    <3>4. ASSUME NEW i \in DOMAIN samples' PROVE ~samples'[i].drifted
      <4>1. CASE i \in 1..Len(samples)
        <5>1. samples'[i] = samples[i] /\ i \in DOMAIN samples
          BY <1>1, <1>7, <4>1
        <5> QED
          BY <1>3, <5>1
      <4>2. CASE i = last
        <5>1. samples'[i] = runner.record
          BY <1>5, <1>7, <2>3, <4>2
        <5> QED
          BY <1>2, <5>1
      <4> QED
        BY <1>1, <1>7, <4>1, <4>2
    <3> QED
      BY <1>1, <1>3, <1>7, <2>1, <3>3, <3>4 DEF RunInv, BenchTyped, KnowsAll, LaterAttempt, OwnRecord
  <2> QED
    BY <1>6, <2>2, <2>3
<1>9. HasLast'
  <2> SUFFICES ASSUME NEW id, RecordsOf(samples', id) # {}
               PROVE  \E i \in RecordsOf(samples', id) : \A j \in RecordsOf(samples', id) : j <= i
    BY DEF HasLast
  <2>1. RecordsOf(samples', id) \subseteq 1..last
    BY <1>7 DEF RecordsOf
  <2>2. CASE new.sample = id
    <3>1. last \in RecordsOf(samples', id)
      BY <1>1, <1>7, <2>2 DEF RecordsOf
    <3> QED
      BY <1>1, <2>1, <3>1
  <2>3. CASE new.sample # id
    <3>1. RecordsOf(samples', id) = RecordsOf(samples, id)
      BY <1>1, <1>7, <2>3 DEF RecordsOf
    <3> QED
      BY <3>1 DEF BenchInv, RecordsInv, HasLast
  <2> QED
    BY <2>2, <2>3
<1>10. OwnBrain'
  <2> SUFFICES ASSUME NEW i \in DOMAIN samples', samples'[i].status = "Completed"
               PROVE  samples'[i].own
    BY DEF OwnBrain, ToSet
  <2>1. CASE i = last
    BY <1>2, <1>5, <1>7, <2>1
  <2>2. CASE i # last
    <3>1. i \in DOMAIN samples /\ samples'[i] = samples[i] /\ samples[i] \in ToSet(samples)
      BY <1>1, <1>7, <2>2 DEF ToSet
    <3> QED
      BY <3>1 DEF BenchInv, RecordsInv, OwnBrain
  <2> QED
    BY <2>1, <2>2
<1>11. NoPaidRepeat'
  <2> SUFFICES ASSUME NEW i \in 1..Len(samples'), NEW j \in 1..Len(samples'),
                      i < j, samples'[i].sample = samples'[j].sample
               PROVE  /\ samples'[i].status # "Completed"
                      /\ samples'[i].attempt < samples'[j].attempt
                      /\ samples'[j].attempt <= MaxAttempts
    BY DEF NoPaidRepeat
  <2>1. i \in 1..Len(samples) /\ samples'[i] = samples[i]
    BY <1>1, <1>7
  <2>2. CASE j = last
    <3>1. i \in RecordsOf(samples, Planned.id)
      BY <1>1, <1>5, <1>7, <2>1, <2>2 DEF RecordsOf
    <3> QED
      BY <1>4, <1>5, <1>7, <2>1, <2>2, <3>1
  <2>3. CASE j # last
    <3>1. j \in 1..Len(samples) /\ samples'[j] = samples[j]
      BY <1>1, <1>7, <2>3
    <3> QED
      BY <2>1, <3>1 DEF BenchInv, RecordsInv, NoPaidRepeat
  <2> QED
    BY <2>2, <2>3
<1>12. DriftEndsRun'
  BY <1>1, <1>3, <1>7 DEF DriftEndsRun
<1> QED
  BY <1>8, <1>9, <1>10, <1>11, <1>12 DEF RecordsInv

(* What a report rests on are records, and what holds of these.             *)
LEMMA ReportKeeps ==
  ASSUME BenchInv, MakeReport PROVE ReportBacked'
<1>1. /\ report'.supported => UsageComplete
      /\ report'.used = {Reported(p.id) : p \in ToSet(Matrix)} \ {Nothing}
  BY DEF MakeReport
<1> SUFFICES ASSUME report'.supported, NEW p \in ToSet(Matrix)
             PROVE  \E r \in report'.used :
                      r.sample = p.id /\ r.status = "Completed" /\ r.usage /\ r.own
  BY DEF ReportBacked
<1>2. Reported(p.id) # Nothing /\ Reported(p.id).status = "Completed" /\ Reported(p.id).usage
  BY <1>1 DEF UsageComplete
<1>3. Reported(p.id) \in ToSet(samples) /\ Reported(p.id).sample = p.id
  BY <1>2, ReportedIsRecord DEF BenchInv, RunInv
<1>4. Reported(p.id).own
  BY <1>2, <1>3 DEF BenchInv, RecordsInv, OwnBrain
<1> QED
  BY <1>1, <1>2, <1>3, <1>4

LEMMA BenchStep == BenchInv /\ [BenchNext]_benchVars => BenchInv'
<1> SUFFICES ASSUME BenchInv, [BenchNext]_benchVars PROVE BenchInv'
  OBVIOUS
<1>1. ASSUME RunInv', UNCHANGED <<samples, report>> PROVE BenchInv'
  BY <1>1, RecordsKept DEF BenchInv, ReportBacked
<1>2. ASSUME UNCHANGED <<samples, runner, launches>>, drift \subseteq drift' PROVE RunInv'
  <2>1. DriftKnown'
    BY <1>2 DEF BenchInv, RunInv, DriftKnown
  <2>2. Planned' = Planned
    BY <1>2 DEF Planned
  <2> QED
    BY <1>2, <2>1, <2>2 DEF BenchInv, RunInv, BenchTyped, KnowsAll, LaterAttempt, OwnRecord,
       RecordsOf
<1>3. CASE Preflight \/ Drift \/ ExportGrading \/ ImportGrades \/ Retire \/ UNCHANGED benchVars
  BY <1>1, <1>2, <1>3 DEF Preflight, Drift, ExportGrading, ImportGrades, Retire, benchVars
<1>4. CASE MakeReport
  <2>1. RunInv' /\ UNCHANGED samples
    BY <1>2, <1>4 DEF MakeReport
  <2> QED
    BY <1>4, <2>1, ReportKeeps, RecordsKept DEF BenchInv
<1>5. CASE EndRun \/ FailToPrepare \/ CrashRun
  BY <1>1, <1>5, RestKeeps DEF EndRun, FailToPrepare, CrashRun
<1>6. CASE Launch
  BY <1>1, <1>6, LaunchKeeps DEF Launch
<1>7. CASE EndSession
  BY <1>1, <1>7, EndKeepsOwn DEF EndSession
<1>8. CASE RecordSample
  <2>1. UNCHANGED report
    BY <1>8 DEF RecordSample
  <2> QED
    BY <1>8, <2>1, AppendKeeps DEF BenchInv, ReportBacked
<1>9. CASE StartRun
  <2> DEFINE r == [AtRest EXCEPT !.at = "next", !.index = 1, !.known = samples]
  <2>1. r \in RunnerState /\ r.at = "next" /\ r.known = samples /\ r.index = 1
    BY DEF AtRest, RunnerState, BenchInv, RunInv, BenchTyped
  <2>2. runner' = r /\ UNCHANGED <<samples, drift, launches, report>>
    BY <1>9 DEF StartRun
  <2> HIDE DEF r
  <2>3. \A i \in DOMAIN samples : ~samples[i].drifted
    BY <1>9 DEF StartRun, BenchInv, RunInv, DriftKnown, CheckedAtStart, CheckedAfterSample, Pinned
  <2>4. RunInv'
    BY <2>1, <2>2, <2>3 DEF BenchInv, RunInv, BenchTyped, KnowsAll, DriftKnown, LaterAttempt,
       OwnRecord
  <2> QED
    BY <1>1, <2>2, <2>4
<1>10. CASE NextSample
  <2>1. /\ runner.at = "next" /\ runner \in RunnerState
        /\ runner' = [runner EXCEPT !.index = @ + 1]
        /\ UNCHANGED <<samples, drift, launches, report>>
    BY <1>10 DEF NextSample, BenchInv, RunInv, BenchTyped
  <2>2. /\ runner' \in RunnerState /\ runner'.at = "next" /\ runner'.known = runner.known
        /\ runner'.index = runner.index + 1
    BY <2>1 DEF RunnerState
  <2>3. RunInv'
    BY <2>1, <2>2 DEF BenchInv, RunInv, BenchTyped, KnowsAll, DriftKnown, LaterAttempt, OwnRecord
  <2> QED
    BY <1>1, <2>1, <2>3
<1> QED
  BY <1>3, <1>4, <1>5, <1>6, <1>7, <1>8, <1>9, <1>10 DEF BenchNext

LEMMA BenchInvariant == BenchSpec => []BenchInv
<1> QED
  BY BenchBegins, BenchStep, PTL DEF BenchSpec

(* A record that counts was answered by its own brain, no sample is paid    *)
(* for again once it has an answer, nothing is measured after a change came *)
(* to light, and a summary that is shown supports a claim only with an      *)
(* answer of every sample, wherever runs crash and are resumed.             *)
THEOREM BenchmarkStaysSound == BenchSpec => []BenchmarkSound
<1>1. BenchInv => OwnBrain /\ NoPaidRepeat /\ DriftEndsRun
  BY DEF BenchInv, RecordsInv
<1>2. BenchInv => ClaimSupported
  BY DEF BenchInv, ReportBacked, ClaimSupported, Shown
<1>3. BenchInv => BenchmarkSound
  BY <1>1, <1>2 DEF BenchmarkSound
<1> QED
  BY <1>3, BenchInvariant, PTL
=============================================================================
