------------------------------ MODULE HookProofs ------------------------------
(***************************************************************************)
(* Proofs about what a hook is answered: PromptContext for any sessions,   *)
(* questions, worktrees, vaults and bounds, and HookDelivery for any       *)
(* sessions, memories, caps, calls and faults.                             *)
(*                                                                         *)
(* The first-prompt claim is taken in the same statement that decides      *)
(* whether the prompt is the first: of all prompts of a session one has    *)
(* won it (WonOnce), whoever searches has won it (SearchersWon), and it is *)
(* never given back, whatever fails, expires or is configured meanwhile.   *)
(*                                                                         *)
(* A cached answer is no older than the version in its key, and the key of *)
(* a prompt has the version its vault had after the prompt came            *)
(* (VersionsKept); every head since then is one the prompt saw (HeadsKept).*)
(*                                                                         *)
(* Of the calls of a session at most one is waited for (OneWaits), and     *)
(* only that one can hand the session a memory: what it read as pushed     *)
(* before its search is therefore all that was handed (BringsNew), though  *)
(* a call that nobody waits for may push the same memories meanwhile.      *)
(***************************************************************************)
EXTENDS PromptContext, HookDelivery, SequenceTheorems, FiniteSetTheorems, TLAPS

Fields == {"session", "question", "tree", "config", "won", "at", "version", "wiki", "live",
           "code", "label", "seen", "heads"}

(* The requests are a sequence of records.                                  *)
PromptsTyped ==
  /\ prompts \in Seq(Range(prompts))
  /\ \A p \in Asked : DOMAIN prompts[p] = Fields

WonOnce ==
  /\ \A p \in Asked : prompts[p].won => prompts[p].session \in claims
  /\ \A p, q \in Asked :
       prompts[p].won /\ prompts[q].won /\ prompts[p].session = prompts[q].session => p = q

SearchersWon ==
  \A p \in Asked : prompts[p].live \/ prompts[p].at = "search" => prompts[p].won

Inv == PromptsTyped /\ WonOnce /\ SearchersWon

----------------------------------------------------------------------------
LEMMA InvInit == PromptInit => Inv
<1> SUFFICES ASSUME PromptInit PROVE Inv
  OBVIOUS
<1>1. prompts = <<>> /\ Asked = {}
  BY DEF PromptInit, Asked
<1>2. prompts \in Seq(Range(prompts))
  BY <1>1
<1> QED
  BY <1>1, <1>2 DEF Inv, PromptsTyped, WonOnce, SearchersWon

(* Requests stay a sequence as long as their number does.                   *)
LEMMA SameNumber ==
  ASSUME PromptsTyped, prompts' = [p \in Asked |-> prompts'[p]]
  PROVE  prompts' \in Seq(Range(prompts'))
<1> DEFINE n == Len(prompts)
<1>1. n \in Nat /\ Asked = 1..n
  BY LenProperties DEF PromptsTyped, Asked
<1>2. prompts' \in [1..n -> Range(prompts')]
  BY <1>1 DEF Range
<1> HIDE DEF n
<1> QED
  BY <1>1, <1>2, SeqDef

(* A request that goes on: its session is the same, it wins nothing, and it *)
(* searches only if it won.                                                 *)
LEMMA AdvanceStep ==
  ASSUME Inv, claims' = claims, NEW p \in Asked, NEW r,
         prompts' = [prompts EXCEPT ![p] = r],
         DOMAIN r = Fields,
         r.session = prompts[p].session, r.won = prompts[p].won,
         r.live \/ r.at = "search" => prompts[p].won
  PROVE  Inv'
<1>1. /\ Asked' = Asked
      /\ prompts'[p] = r
      /\ \A q \in Asked : q # p => prompts'[q] = prompts[q]
  BY DEF Asked
<1>2. prompts' = [q \in Asked |-> prompts'[q]]
  BY DEF Asked
<1>3. PromptsTyped'
  BY <1>1, <1>2, SameNumber DEF Inv, PromptsTyped
<1>4. WonOnce'
  BY <1>1 DEF Inv, WonOnce
<1>5. SearchersWon'
  BY <1>1 DEF Inv, SearchersWon
<1> QED
  BY <1>3, <1>4, <1>5 DEF Inv

(* A request that comes: it wins only if no other of its session did.       *)
LEMMA ArriveStep ==
  ASSUME Inv, NEW r, prompts' = Append(prompts, r), DOMAIN r = Fields,
         claims \subseteq claims',
         r.won => r.session \notin claims /\ r.session \in claims',
         ~r.live, r.at # "search"
  PROVE  Inv'
<1> DEFINE n == Len(prompts)
           S == Range(prompts) \cup {r}
<1>1. n \in Nat /\ Asked = 1..n
  BY LenProperties DEF Inv, PromptsTyped, Asked
<1>2. prompts \in Seq(S)
  BY SeqMonotonic, <1>1 DEF Inv, PromptsTyped
<1>3. /\ Append(prompts, r) \in Seq(S)
      /\ Len(Append(prompts, r)) = n + 1
      /\ \A i \in 1..n : Append(prompts, r)[i] = prompts[i]
      /\ Append(prompts, r)[n + 1] = r
  BY <1>2, AppendProperties
<1>4. DOMAIN prompts' = 1..(n + 1)
  BY <1>3, LenProperties
<1> HIDE DEF n, S
<1>5. /\ Asked' = Asked \cup {n + 1} /\ n + 1 \notin Asked
      /\ \A q \in Asked : prompts'[q] = prompts[q]
      /\ prompts'[n + 1] = r
  BY <1>1, <1>3, <1>4 DEF Asked
<1>6. prompts' \in [1..(n + 1) -> Range(prompts')]
  BY <1>3, <1>4, LenProperties DEF Range
<1>7. PromptsTyped'
  <2> DEFINE m == n + 1
  <2>1. m \in Nat /\ prompts' \in [1..m -> Range(prompts')]
    BY <1>1, <1>6
  <2> HIDE DEF m
  <2>2. prompts' \in Seq(Range(prompts'))
    BY <2>1, SeqDef
  <2> QED
    BY <1>5, <2>2 DEF Inv, PromptsTyped
<1>8. WonOnce'
  <2>1. ASSUME NEW p \in Asked', prompts'[p].won
        PROVE  prompts'[p].session \in claims'
    BY <1>5, <2>1 DEF Inv, WonOnce
  <2>2. ASSUME NEW p \in Asked', NEW q \in Asked', prompts'[p].won, prompts'[q].won,
               prompts'[p].session = prompts'[q].session
        PROVE  p = q
    <3>1. CASE p \in Asked /\ q \in Asked
      BY <1>5, <2>2, <3>1 DEF Inv, WonOnce
    <3>2. CASE p = n + 1 /\ q \in Asked
      BY <1>5, <2>2, <3>2 DEF Inv, WonOnce
    <3>3. CASE q = n + 1 /\ p \in Asked
      BY <1>5, <2>2, <3>3 DEF Inv, WonOnce
    <3> QED
      BY <1>5, <3>1, <3>2, <3>3
  <2> QED
    BY <2>1, <2>2 DEF WonOnce
<1>9. SearchersWon'
  BY <1>5 DEF Inv, SearchersWon
<1> QED
  BY <1>7, <1>8, <1>9 DEF Inv

LEMMA RequestFields ==
  ASSUME NEW session, NEW question, NEW tree
  PROVE  LET r == Request(session, question, tree) IN
         /\ DOMAIN r = Fields
         /\ r.session = session /\ r.at = "wiki" /\ ~r.live
         /\ r.won = (session \notin claims)
BY DEF Request, Fields

LEMMA AskStep ==
  ASSUME Inv, Ask
  PROVE  Inv'
<1>1. PICK session \in Clients, question \in Questions, tree \in Trees :
        /\ prompts' = Append(prompts, Request(session, question, tree))
        /\ claims' = claims \cup {session}
  BY DEF Ask
<1> QED
  BY <1>1, RequestFields, ArriveStep

LEMMA StartStep ==
  ASSUME Inv, StartPrompt
  PROVE  Inv'
<1>1. PICK session \in Clients, tree \in Trees, question \in Questions : \E items :
        prompts' = Append(prompts, [Request(session, question, tree) EXCEPT
                                      !.at = "started", !.won = FALSE, !.wiki = items])
  BY DEF StartPrompt
<1> DEFINE q == Request(session, question, tree)
<1>2. PICK items :
        prompts' = Append(prompts, [q EXCEPT !.at = "started", !.won = FALSE, !.wiki = items])
  BY <1>1
<1> DEFINE r == [q EXCEPT !.at = "started", !.won = FALSE, !.wiki = items]
<1>3. DOMAIN q = Fields /\ ~q.live
  BY RequestFields
<1> HIDE DEF q
<1>4. DOMAIN r = Fields /\ r.at = "started" /\ r.won = FALSE /\ ~r.live
  BY <1>3 DEF Fields
<1>5. claims' = claims
  BY DEF StartPrompt
<1> QED
  BY <1>2, <1>4, <1>5, ArriveStep

LEMMA Going ==
  ASSUME Inv, NEW p \in Asked
  PROVE  /\ DOMAIN prompts[p] = Fields
         /\ prompts[p].live => prompts[p].won
BY DEF Inv, PromptsTyped, SearchersWon

(* A step that moves a request to any place but the search.                 *)
LEMMA ToStep ==
  ASSUME Inv, claims' = claims, NEW p \in Asked, NEW at, prompts' = To(p, at),
         at = "search" => prompts[p].won
  PROVE  Inv'
<1> DEFINE r == [prompts[p] EXCEPT !.at = at]
<1>1. prompts' = [prompts EXCEPT ![p] = r]
  BY DEF To
<1>2. /\ DOMAIN r = Fields /\ r.at = at /\ r.live = prompts[p].live
      /\ r.session = prompts[p].session /\ r.won = prompts[p].won
  BY Going DEF Fields
<1> HIDE DEF r
<1> QED
  BY <1>1, <1>2, Going, AdvanceStep

LEMMA ReadVersionStep ==
  ASSUME Inv, ReadVersion
  PROVE  Inv'
<1>1. claims' = claims
  BY DEF ReadVersion
<1>2. PICK p \in Asked :
        \/ prompts' = To(p, "code") \/ prompts' = To(p, "failed")
        \/ prompts' = [prompts EXCEPT ![p].at = "cache",
                         ![p].version = SourceVersion(prompts[p].config.vault)]
  BY DEF ReadVersion
<1>3. CASE prompts' = To(p, "code") \/ prompts' = To(p, "failed")
  BY <1>1, <1>3, ToStep
<1>4. CASE prompts' = [prompts EXCEPT ![p].at = "cache",
                         ![p].version = SourceVersion(prompts[p].config.vault)]
  <2> DEFINE version == SourceVersion(prompts[p].config.vault)
             r == [prompts[p] EXCEPT !.at = "cache", !.version = version]
  <2>1. prompts' = [prompts EXCEPT ![p] = r]
    BY <1>4
  <2> HIDE DEF version
  <2>2. /\ DOMAIN r = Fields /\ r.at = "cache" /\ r.live = prompts[p].live
        /\ r.session = prompts[p].session /\ r.won = prompts[p].won
    BY Going DEF Fields
  <2> HIDE DEF r
  <2> QED
    BY <1>1, <2>1, <2>2, Going, AdvanceStep
<1> QED
  BY <1>2, <1>3, <1>4

LEMMA LookUpStep ==
  ASSUME Inv, LookUp
  PROVE  Inv'
<1>1. claims' = claims
  BY DEF LookUp
<1>2. PICK p \in Asked : prompts[p].at = "cache" /\ Consult(p)
  BY DEF LookUp
<1>3. CASE CacheHits(p) # {}
  <2>1. PICK items : prompts' = [prompts EXCEPT ![p].at = "code", ![p].wiki = items]
    BY <1>2, <1>3 DEF Consult
  <2> DEFINE r == [prompts[p] EXCEPT !.at = "code", !.wiki = items]
  <2>2. prompts' = [prompts EXCEPT ![p] = r]
    BY <2>1
  <2>3. /\ DOMAIN r = Fields /\ r.at = "code" /\ r.live = prompts[p].live
        /\ r.session = prompts[p].session /\ r.won = prompts[p].won
    BY Going DEF Fields
  <2> HIDE DEF r
  <2> QED
    BY <1>1, <2>2, <2>3, Going, AdvanceStep
<1>4. CASE CacheHits(p) = {}
  BY <1>1, <1>2, <1>4, ToStep DEF Consult
<1> QED
  BY <1>3, <1>4

(* Only a request that won gets this far.                                   *)
LEMMA SearchVaultStep ==
  ASSUME Inv, SearchVault
  PROVE  Inv'
<1>1. claims' = claims
  BY DEF SearchVault
<1>2. PICK p \in Asked :
        /\ prompts[p].at = "search"
        /\ \/ prompts' = [prompts EXCEPT ![p].at = "put", ![p].wiki = Found(p), ![p].live = TRUE]
           \/ prompts' = [prompts EXCEPT ![p].at = "code", ![p].live = TRUE]
  BY DEF SearchVault
<1>3. prompts[p].won
  BY <1>2 DEF Inv, SearchersWon
<1> DEFINE found == Found(p)
           r == [prompts[p] EXCEPT !.at = "put", !.wiki = found, !.live = TRUE]
           s == [prompts[p] EXCEPT !.at = "code", !.live = TRUE]
<1>4. prompts' = [prompts EXCEPT ![p] = r] \/ prompts' = [prompts EXCEPT ![p] = s]
  BY <1>2
<1> HIDE DEF found
<1>5. /\ DOMAIN r = Fields /\ r.session = prompts[p].session /\ r.won = prompts[p].won
      /\ DOMAIN s = Fields /\ s.session = prompts[p].session /\ s.won = prompts[p].won
  BY Going DEF Fields
<1> HIDE DEF r, s
<1> QED
  BY <1>1, <1>3, <1>4, <1>5, AdvanceStep

LEMMA CodeSteps ==
  ASSUME Inv, PutCache \/ ReadHead \/ CheckIndex \/ SearchCode
  PROVE  Inv'
<1>1. claims' = claims
  BY DEF PutCache, ReadHead, CheckIndex, SearchCode
<1>2. \/ \E p \in Asked : prompts' = To(p, "code")
      \/ \E p \in Asked : prompts' = To(p, "done")
      \/ \E p \in Asked : prompts' = To(p, "hits")
      \/ \E p \in Asked : \E label :
           prompts' = [prompts EXCEPT ![p].at = "status", ![p].label = label]
      \/ \E p \in Asked : \E code :
           prompts' = [prompts EXCEPT ![p].at = "done", ![p].code = code]
  BY DEF PutCache, ReadHead, CheckIndex, SearchCode
<1>3. ASSUME NEW p \in Asked, NEW at \in {"code", "done", "hits"}, prompts' = To(p, at)
      PROVE  Inv'
  BY <1>1, <1>3, ToStep
<1>4. ASSUME NEW p \in Asked, NEW label,
             prompts' = [prompts EXCEPT ![p].at = "status", ![p].label = label]
      PROVE  Inv'
  <2> DEFINE r == [prompts[p] EXCEPT !.at = "status", !.label = label]
  <2>1. prompts' = [prompts EXCEPT ![p] = r]
    BY <1>4
  <2>2. /\ DOMAIN r = Fields /\ r.at = "status" /\ r.live = prompts[p].live
        /\ r.session = prompts[p].session /\ r.won = prompts[p].won
    BY Going DEF Fields
  <2> HIDE DEF r
  <2> QED
    BY <1>1, <2>1, <2>2, Going, AdvanceStep
<1>5. ASSUME NEW p \in Asked, NEW code,
             prompts' = [prompts EXCEPT ![p].at = "done", ![p].code = code]
      PROVE  Inv'
  <2> DEFINE r == [prompts[p] EXCEPT !.at = "done", !.code = code]
  <2>1. prompts' = [prompts EXCEPT ![p] = r]
    BY <1>5
  <2>2. /\ DOMAIN r = Fields /\ r.at = "done" /\ r.live = prompts[p].live
        /\ r.session = prompts[p].session /\ r.won = prompts[p].won
    BY Going DEF Fields
  <2> HIDE DEF r
  <2> QED
    BY <1>1, <2>1, <2>2, Going, AdvanceStep
<1> QED
  BY <1>2, <1>3, <1>4, <1>5

(* Steps that touch no request and no claim.                                *)
LEMMA OtherSteps ==
  ASSUME Inv, UNCHANGED <<prompts, claims>>
  PROVE  Inv'
BY DEF Inv, PromptsTyped, WonOnce, SearchersWon, Asked

(* A commit changes only what is remembered of the worktree's heads.        *)
LEMMA ChangeStep ==
  ASSUME Inv, Change
  PROVE  Inv'
<1>1. claims' = claims
  BY DEF Change
<1>2. CASE UNCHANGED prompts
  BY <1>1, <1>2, OtherSteps
<1>3. ASSUME NEW tree \in Trees,
             prompts' = [p \in Asked |->
                           IF prompts[p].tree = tree
                           THEN [prompts[p] EXCEPT !.heads = @ \cup {head[tree] + 1}]
                           ELSE prompts[p]]
      PROVE  Inv'
  <2>1. /\ Asked' = Asked
        /\ prompts' = [q \in Asked |-> prompts'[q]]
    BY <1>3 DEF Asked
  <2>2. ASSUME NEW p \in Asked
        PROVE  /\ DOMAIN prompts'[p] = Fields
               /\ prompts'[p].session = prompts[p].session
               /\ prompts'[p].won = prompts[p].won
               /\ prompts'[p].live = prompts[p].live
               /\ prompts'[p].at = prompts[p].at
    BY <1>3, Going DEF Fields
  <2>3. PromptsTyped'
    BY <2>1, <2>2, SameNumber DEF Inv, PromptsTyped
  <2>4. WonOnce'
    BY <1>1, <2>1, <2>2 DEF Inv, WonOnce
  <2>5. SearchersWon'
    BY <2>1, <2>2 DEF Inv, SearchersWon
  <2> QED
    BY <2>3, <2>4, <2>5 DEF Inv
<1> QED
  BY <1>2, <1>3 DEF Change

LEMMA InvStep == Inv /\ [PromptNext]_promptVars => Inv'
<1> SUFFICES ASSUME Inv, [PromptNext]_promptVars
             PROVE  Inv'
  OBVIOUS
<1>1. CASE Ask
  BY <1>1, AskStep
<1>2. CASE ReadVersion
  BY <1>2, ReadVersionStep
<1>3. CASE LookUp
  BY <1>3, LookUpStep
<1>4. CASE SearchVault
  BY <1>4, SearchVaultStep
<1>5. CASE PutCache \/ ReadHead \/ CheckIndex \/ SearchCode
  BY <1>5, CodeSteps
<1>6. CASE StartPrompt
  BY <1>6, StartStep
<1>7. CASE Expire \/ SaveConfig \/ DropRows \/ BuildIndex
  BY <1>7, OtherSteps DEF Expire, SaveConfig, DropRows, BuildIndex
<1>8. CASE ConfigureWiki \/ ConfigureCode \/ DisableProvider \/ RemoveProvider
  BY <1>8, OtherSteps DEF ConfigureWiki, ConfigureCode, DisableProvider, RemoveProvider, Begin
<1>9. CASE Change
  BY <1>9, ChangeStep
<1>10. CASE UNCHANGED promptVars
  BY <1>10, OtherSteps DEF promptVars
<1> QED
  BY <1>1, <1>2, <1>3, <1>4, <1>5, <1>6, <1>7, <1>8, <1>9, <1>10 DEF PromptNext

----------------------------------------------------------------------------
(* Of one session at most one request searched.                             *)
LEMMA InvGivesOne == Inv => OneLiveSearch
<1> SUFFICES ASSUME Inv, NEW session \in Clients
             PROVE  Cardinality({p \in Asked : prompts[p].session = session /\ prompts[p].live})
                      <= 1
  BY DEF OneLiveSearch
<1> DEFINE L == {p \in Asked : prompts[p].session = session /\ prompts[p].live}
<1>1. \A p, q \in L : p = q
  BY DEF Inv, WonOnce, SearchersWon
<1> HIDE DEF L
<1>2. Cardinality(L) <= 1
  <2>1. CASE L = {}
    BY <2>1, FS_EmptySet
  <2>2. CASE L # {}
    <3>1. PICK p : L = {p}
      BY <1>1, <2>2
    <3>2. Cardinality({p}) = 1
      BY FS_Singleton
    <3> QED
      BY <3>1, <3>2
  <2> QED
    BY <2>1, <2>2
<1> QED
  BY <1>2 DEF L

(* However many prompts of a session run together, are retried or fail, its *)
(* vault is searched live at most once, for any sessions and vaults.        *)
THEOREM SearchedOnce == PromptSpec => []OneLiveSearch
BY InvInit, InvStep, InvGivesOne, PTL DEF PromptSpec

----------------------------------------------------------------------------
(* What a prompt is given.                                                  *)

Configs == [wiki : BOOLEAN, vault : Vaults \cup {NoVault}, code : BOOLEAN, report : Nat]

Commands == [op : {"none", "save", "forget", "drop"}, config : Configs]

ItemSets == [vault : Vaults \cup {NoVault}, version : Nat, tree : SUBSET Trees]

(* What the cache holds under a key is of the key's vault and no older than *)
(* the version of the key.                                                  *)
SoundRows ==
  {row \in [key : [question : Questions, config : Configs, version : Nat], items : ItemSets] :
     /\ row.items.vault = row.key.config.vault
     /\ row.items.version >= row.key.version}

RequestTyped(r) ==
  /\ DOMAIN r = Fields
  /\ r.tree \in Trees /\ r.question \in Questions /\ r.config \in Configs
  /\ r.version \in Nat /\ r.seen \in [Vaults -> Nat]
  /\ r.at # "started" => r.wiki \in ItemSets

(* The version a request read lies between what its vault was when it came  *)
(* and what it is; what it found, or finds in the cache, is no older.       *)
VersionsKept(r, vaultEdits) ==
  /\ \A v \in Vaults : r.seen[v] <= vaultEdits[v]
  /\ r.at \in {"cache", "search", "put"} =>
       /\ r.config.vault \in Vaults
       /\ r.seen[r.config.vault] <= r.version
       /\ r.version <= vaultEdits[r.config.vault]
  /\ r.at = "put" => r.wiki.vault = r.config.vault /\ r.wiki.version >= r.version
  /\ r.wiki # NoItems /\ r.at # "started" =>
       /\ r.wiki.vault = r.config.vault
       /\ r.wiki.version >= r.seen[r.config.vault]

(* What it looks up in the code index is of a head it saw, also when the    *)
(* index is built anew between its two looks.                               *)
HeadsKept(r, treeHeads, treeIndex) ==
  /\ treeHeads[r.tree] \in r.heads
  /\ r.at = "status" => r.label \in r.heads
  /\ r.at = "hits" => treeIndex[r.tree].head \in r.heads
  /\ r.code # NoIndex => r.code.head \in r.heads

Answering(r, vaultEdits, treeHeads, treeIndex) ==
  RequestTyped(r) /\ VersionsKept(r, vaultEdits) /\ HeadsKept(r, treeHeads, treeIndex)

WorldTyped ==
  /\ edits \in [Vaults -> Nat] /\ head \in [Trees -> Nat] /\ release \in Nat
  /\ index \in [Trees -> [head : Nat, release : Nat]]
  /\ settings \in Configs /\ command \in Commands

ServedInv ==
  /\ WorldTyped
  /\ cache \in Seq(SoundRows)
  /\ \A p \in Asked : Answering(prompts[p], edits, head, index)

Same == UNCHANGED <<world, settings, command>>

LEMMA ServedInit == PromptInit => ServedInv
<1> SUFFICES ASSUME PromptInit PROVE ServedInv
  OBVIOUS
<1>1. Asked = {} /\ cache \in Seq(SoundRows)
  BY EmptySeq DEF PromptInit, Asked
<1>2. settings \in Configs
  BY DEF PromptInit, NoSettings, Configs
<1>3. command \in Commands
  BY DEF PromptInit, NoCommand, NoSettings, Commands, Configs
<1>4. WorldTyped
  BY <1>2, <1>3 DEF PromptInit, WorldTyped, NoIndex
<1> QED
  BY <1>1, <1>4 DEF ServedInv

(* The rows of the cache stay sound when one is removed.                    *)
LEMMA RowRemoved ==
  ASSUME NEW S, NEW s \in Seq(S), NEW i \in DOMAIN s
  PROVE  RemoveAt(s, i) \in Seq(S)
<1>1. Len(s) \in Nat /\ DOMAIN s = 1..Len(s) /\ \A j \in 1..Len(s) : s[j] \in S
  BY LenProperties, ElementOfSeq
<1>2. i \in 1..Len(s)
  BY <1>1
<1>3. SubSeq(s, 1, i - 1) \in Seq(S)
  <2>1. \A j \in 1..(i - 1) : s[j] \in S
    BY <1>1, <1>2
  <2>2. 1 \in Int /\ i - 1 \in Int
    BY <1>1, <1>2
  <2> QED BY <2>1, <2>2, SubSeqProperties
<1>4. SubSeq(s, i + 1, Len(s)) \in Seq(S)
  <2>1. \A j \in (i + 1)..Len(s) : s[j] \in S
    BY <1>1, <1>2
  <2>2. i + 1 \in Int /\ Len(s) \in Int
    BY <1>1, <1>2
  <2> QED BY <2>1, <2>2, SubSeqProperties
<1> QED
  BY <1>3, <1>4, ConcatProperties DEF RemoveAt

LEMMA RequestGoesOn ==
  ASSUME ServedInv, NEW p \in Asked, NEW r, prompts' = [prompts EXCEPT ![p] = r],
         Answering(r, edits, head, index), Same, cache' \in Seq(SoundRows)
  PROVE  ServedInv'
<1>1. /\ Asked' = Asked /\ prompts'[p] = r
      /\ \A q \in Asked \ {p} : prompts'[q] = prompts[q]
  BY DEF Asked
<1>2. WorldTyped'
  BY DEF ServedInv, WorldTyped, Same, world
<1>3. \A q \in Asked : Answering(prompts'[q], edits', head', index')
  BY <1>1 DEF ServedInv, Same, world
<1> QED
  BY <1>1, <1>2, <1>3 DEF ServedInv

LEMMA RequestComes ==
  ASSUME Inv, ServedInv, NEW r, prompts' = Append(prompts, r),
         Answering(r, edits, head, index), Same, cache' = cache
  PROVE  ServedInv'
<1> DEFINE n == Len(prompts)
           S == Range(prompts) \cup {r}
<1>1. n \in Nat /\ Asked = 1..n /\ prompts \in Seq(S)
  BY LenProperties, SeqMonotonic DEF Inv, PromptsTyped, Asked
<1>2. /\ Append(prompts, r) \in Seq(S) /\ Len(Append(prompts, r)) = n + 1
      /\ \A i \in 1..n : Append(prompts, r)[i] = prompts[i]
      /\ Append(prompts, r)[n + 1] = r
  BY <1>1, AppendProperties
<1>3. DOMAIN prompts' = 1..(n + 1)
  BY <1>2, LenProperties
<1> HIDE DEF n, S
<1>4. \A q \in Asked' : prompts'[q] = r \/ (q \in Asked /\ prompts'[q] = prompts[q])
  BY <1>1, <1>2, <1>3 DEF Asked
<1>5. WorldTyped'
  BY DEF ServedInv, WorldTyped, Same, world
<1>6. \A q \in Asked' : Answering(prompts'[q], edits', head', index')
  BY <1>4 DEF ServedInv, Same, world
<1> QED
  BY <1>5, <1>6 DEF ServedInv

LEMMA NewRequest ==
  ASSUME ServedInv, NEW session, NEW question \in Questions, NEW tree \in Trees
  PROVE  LET r == Request(session, question, tree) IN
         /\ Answering(r, edits, head, index)
         /\ DOMAIN r = Fields /\ r.at = "wiki" /\ r.code = NoIndex
<1> DEFINE r == Request(session, question, tree)
<1>1. /\ r.tree = tree /\ r.question = question /\ r.config = settings /\ r.version = 0
      /\ r.seen = edits /\ r.at = "wiki" /\ r.wiki = NoItems /\ r.code = NoIndex
      /\ r.heads = {head[tree]} /\ DOMAIN r = Fields
  BY DEF Request, Fields
<1>2. NoItems \in ItemSets
  BY DEF NoItems, ItemSets
<1> HIDE DEF r
<1>3. RequestTyped(r)
  BY <1>1, <1>2 DEF RequestTyped, ServedInv, WorldTyped
<1>4. VersionsKept(r, edits)
  BY <1>1 DEF VersionsKept, ServedInv, WorldTyped
<1>5. HeadsKept(r, head, index)
  BY <1>1 DEF HeadsKept
<1> QED
  BY <1>1, <1>3, <1>4, <1>5 DEF Answering, r

LEMMA AskServed ==
  ASSUME Inv, ServedInv, Ask
  PROVE  ServedInv'
<1>1. PICK session \in Clients, question \in Questions, tree \in Trees :
        prompts' = Append(prompts, Request(session, question, tree))
  BY DEF Ask
<1>2. Answering(Request(session, question, tree), edits, head, index)
  BY NewRequest
<1>3. Same /\ cache' = cache
  BY DEF Ask, Same
<1> QED
  BY <1>1, <1>2, <1>3, RequestComes

(* What a session's start shows is not the answer to a prompt.              *)
LEMMA StartServed ==
  ASSUME Inv, ServedInv, StartPrompt
  PROVE  ServedInv'
<1>1. PICK session \in Clients, tree \in Trees, question \in Questions : \E items :
        prompts' = Append(prompts, [Request(session, question, tree) EXCEPT
                                      !.at = "started", !.won = FALSE, !.wiki = items])
  BY DEF StartPrompt
<1> DEFINE q == Request(session, question, tree)
<1>2. PICK items :
        prompts' = Append(prompts, [q EXCEPT !.at = "started", !.won = FALSE, !.wiki = items])
  BY <1>1
<1> DEFINE r == [q EXCEPT !.at = "started", !.won = FALSE, !.wiki = items]
<1>3. Answering(q, edits, head, index) /\ DOMAIN q = Fields /\ q.code = NoIndex
  BY NewRequest
<1> HIDE DEF q
<1>4. /\ DOMAIN r = Fields /\ r.at = "started" /\ r.tree = q.tree /\ r.question = q.question
      /\ r.config = q.config /\ r.version = q.version /\ r.seen = q.seen /\ r.heads = q.heads
      /\ r.code = q.code
  BY <1>3 DEF Fields
<1> HIDE DEF r
<1>5. Answering(r, edits, head, index)
  BY <1>3, <1>4 DEF Answering, RequestTyped, VersionsKept, HeadsKept
<1>6. Same /\ cache' = cache
  BY DEF StartPrompt, Same
<1> QED
  BY <1>2, <1>5, <1>6, RequestComes DEF r

LEMMA Answered ==
  ASSUME ServedInv, NEW p \in Asked
  PROVE  /\ Answering(prompts[p], edits, head, index)
         /\ RequestTyped(prompts[p]) /\ VersionsKept(prompts[p], edits)
         /\ HeadsKept(prompts[p], head, index) /\ DOMAIN prompts[p] = Fields
  BY DEF ServedInv, Answering, RequestTyped

(* A request that goes on with what it has.                                 *)
LEMMA MovesServed ==
  ASSUME ServedInv, NEW p \in Asked, NEW at, prompts' = To(p, at),
         prompts[p].at # "started", at \in {"code", "failed", "search", "hits", "done"},
         at = "search" => prompts[p].at = "cache",
         at = "hits" => index[prompts[p].tree].head \in prompts[p].heads,
         Same, cache' \in Seq(SoundRows)
  PROVE  ServedInv'
<1> DEFINE r == [prompts[p] EXCEPT !.at = at]
<1>1. prompts' = [prompts EXCEPT ![p] = r]
  BY DEF To
<1>2. /\ DOMAIN r = Fields /\ r.at = at /\ r.tree = prompts[p].tree
      /\ r.question = prompts[p].question /\ r.config = prompts[p].config
      /\ r.version = prompts[p].version /\ r.seen = prompts[p].seen /\ r.wiki = prompts[p].wiki
      /\ r.heads = prompts[p].heads /\ r.code = prompts[p].code
  BY Answered DEF Fields
<1> HIDE DEF r
<1>3. RequestTyped(r)
  BY <1>2, Answered DEF RequestTyped
<1>4. VersionsKept(r, edits)
  BY <1>2, Answered DEF VersionsKept
<1>5. HeadsKept(r, head, index)
  BY <1>2, Answered DEF HeadsKept
<1> QED
  BY <1>1, <1>3, <1>4, <1>5, RequestGoesOn DEF Answering

LEMMA ReadVersionServed ==
  ASSUME ServedInv, ReadVersion
  PROVE  ServedInv'
<1>1. Same /\ cache' = cache
  BY DEF ReadVersion, Same
<1>2. cache' \in Seq(SoundRows)
  BY <1>1 DEF ServedInv
<1>3. PICK p \in Asked :
        /\ prompts[p].at = "wiki"
        /\ \/ prompts' = To(p, "code") \/ prompts' = To(p, "failed")
           \/ /\ prompts[p].config.vault # NoVault
              /\ prompts' = [prompts EXCEPT ![p].at = "cache",
                               ![p].version = SourceVersion(prompts[p].config.vault)]
  BY DEF ReadVersion
<1>4. CASE prompts' = To(p, "code") \/ prompts' = To(p, "failed")
  BY <1>1, <1>2, <1>3, <1>4, MovesServed
<1>5. CASE /\ prompts[p].config.vault # NoVault
           /\ prompts' = [prompts EXCEPT ![p].at = "cache",
                            ![p].version = SourceVersion(prompts[p].config.vault)]
  <2> DEFINE vault == prompts[p].config.vault
             version == edits[vault]
             r == [prompts[p] EXCEPT !.at = "cache", !.version = version]
  <2>1. prompts' = [prompts EXCEPT ![p] = r]
    BY <1>5 DEF SourceVersion
  <2>2. vault \in Vaults /\ prompts[p].config.vault = vault
    BY <1>5, Answered DEF RequestTyped, Configs
  <2>3. version \in Nat /\ version = edits[vault]
    BY <2>2 DEF ServedInv, WorldTyped
  <2> HIDE DEF vault, version
  <2>4. /\ DOMAIN r = Fields /\ r.at = "cache" /\ r.tree = prompts[p].tree
        /\ r.question = prompts[p].question /\ r.config = prompts[p].config
        /\ r.version = version /\ r.seen = prompts[p].seen /\ r.wiki = prompts[p].wiki
        /\ r.heads = prompts[p].heads /\ r.code = prompts[p].code
    BY Answered DEF Fields
  <2> HIDE DEF r
  <2>5. RequestTyped(r)
    BY <1>3, <2>3, <2>4, Answered DEF RequestTyped
  <2>6. VersionsKept(r, edits)
    BY <1>3, <2>2, <2>3, <2>4, Answered DEF VersionsKept
  <2>7. HeadsKept(r, head, index)
    BY <2>4, Answered DEF HeadsKept
  <2> QED
    BY <1>1, <1>2, <2>1, <2>5, <2>6, <2>7, RequestGoesOn DEF Answering
<1> QED
  BY <1>3, <1>4, <1>5

(* A row under the key of a request answers it with what is no older than   *)
(* the version it read.                                                     *)
LEMMA LookUpServed ==
  ASSUME ServedInv, LookUp
  PROVE  ServedInv'
<1>1. Same /\ cache' = cache
  BY DEF LookUp, Same
<1>2. cache' \in Seq(SoundRows)
  BY <1>1 DEF ServedInv
<1>3. PICK p \in Asked : prompts[p].at = "cache" /\ Consult(p)
  BY DEF LookUp
<1>4. CASE CacheHits(p) = {}
  BY <1>1, <1>2, <1>3, <1>4, MovesServed DEF Consult
<1>5. CASE CacheHits(p) # {}
  <2>1. PICK i \in CacheHits(p) :
          prompts' = [prompts EXCEPT ![p].at = "code", ![p].wiki = cache[i].items]
    BY <1>3, <1>5 DEF Consult
  <2>2. /\ i \in DOMAIN cache
        /\ cache[i].key = Key(prompts[p].question, prompts[p].config, prompts[p].version)
    BY DEF CacheHits, Fresh
  <2>3. cache[i] \in SoundRows
    BY <2>2, LenProperties, ElementOfSeq DEF ServedInv
  <2> DEFINE items == cache[i].items
             r == [prompts[p] EXCEPT !.at = "code", !.wiki = items]
  <2>4. prompts' = [prompts EXCEPT ![p] = r]
    BY <2>1
  <2>5. /\ items \in ItemSets /\ items.vault = prompts[p].config.vault
        /\ items.version >= prompts[p].version
    BY <2>2, <2>3 DEF SoundRows, Key
  <2> HIDE DEF items
  <2>6. /\ DOMAIN r = Fields /\ r.at = "code" /\ r.tree = prompts[p].tree
        /\ r.question = prompts[p].question /\ r.config = prompts[p].config
        /\ r.version = prompts[p].version /\ r.seen = prompts[p].seen /\ r.wiki = items
        /\ r.heads = prompts[p].heads /\ r.code = prompts[p].code
    BY Answered DEF Fields
  <2> HIDE DEF r
  <2>7. RequestTyped(r)
    BY <2>5, <2>6, Answered DEF RequestTyped
  <2>8. VersionsKept(r, edits)
    <3>1. r.seen[r.config.vault] \in Nat /\ r.version \in Nat /\ items.version \in Nat
      BY <1>3, <2>5, <2>6, <2>7, Answered DEF RequestTyped, VersionsKept, ItemSets
    <3> QED
      BY <1>3, <2>5, <2>6, <3>1, Answered DEF VersionsKept
  <2>9. HeadsKept(r, head, index)
    BY <2>6, Answered DEF HeadsKept
  <2> QED
    BY <1>1, <1>2, <2>4, <2>7, <2>8, <2>9, RequestGoesOn DEF Answering
<1> QED
  BY <1>4, <1>5

(* The vault as it is now is no older than the version that was read.       *)
LEMMA SearchVaultServed ==
  ASSUME ServedInv, SearchVault
  PROVE  ServedInv'
<1>1. Same /\ cache' = cache
  BY DEF SearchVault, Same
<1>2. cache' \in Seq(SoundRows)
  BY <1>1 DEF ServedInv
<1>3. PICK p \in Asked :
        /\ prompts[p].at = "search"
        /\ \/ prompts' = [prompts EXCEPT ![p].at = "put", ![p].wiki = Found(p), ![p].live = TRUE]
           \/ prompts' = [prompts EXCEPT ![p].at = "code", ![p].live = TRUE]
  BY DEF SearchVault
<1>4. /\ prompts[p].config.vault \in Vaults /\ prompts[p].version \in Nat
      /\ prompts[p].seen[prompts[p].config.vault] \in Nat /\ edits[prompts[p].config.vault] \in Nat
      /\ prompts[p].seen[prompts[p].config.vault] <= prompts[p].version
      /\ prompts[p].version <= edits[prompts[p].config.vault]
  BY <1>3, Answered DEF RequestTyped, VersionsKept, ServedInv, WorldTyped
<1> DEFINE found == Found(p)
           r == [prompts[p] EXCEPT !.at = "put", !.wiki = found, !.live = TRUE]
           s == [prompts[p] EXCEPT !.at = "code", !.live = TRUE]
<1>5. prompts' = [prompts EXCEPT ![p] = r] \/ prompts' = [prompts EXCEPT ![p] = s]
  BY <1>3
<1>6. /\ found \in ItemSets /\ found.vault = prompts[p].config.vault
      /\ found.version = edits[prompts[p].config.vault]
  BY <1>4, Answered DEF Found, ItemSets, RequestTyped
<1> HIDE DEF found
<1>7. /\ DOMAIN r = Fields /\ r.at = "put" /\ r.tree = prompts[p].tree
      /\ r.question = prompts[p].question /\ r.config = prompts[p].config
      /\ r.version = prompts[p].version /\ r.seen = prompts[p].seen /\ r.wiki = found
      /\ r.heads = prompts[p].heads /\ r.code = prompts[p].code
  BY Answered DEF Fields
<1>8. /\ DOMAIN s = Fields /\ s.at = "code" /\ s.tree = prompts[p].tree
      /\ s.question = prompts[p].question /\ s.config = prompts[p].config
      /\ s.version = prompts[p].version /\ s.seen = prompts[p].seen /\ s.wiki = prompts[p].wiki
      /\ s.heads = prompts[p].heads /\ s.code = prompts[p].code
  BY Answered DEF Fields
<1> HIDE DEF r, s
<1>9. Answering(r, edits, head, index)
  <2>1. RequestTyped(r)
    BY <1>6, <1>7, Answered DEF RequestTyped
  <2>2. VersionsKept(r, edits)
    BY <1>4, <1>6, <1>7, Answered DEF VersionsKept
  <2>3. HeadsKept(r, head, index)
    BY <1>7, Answered DEF HeadsKept
  <2> QED BY <2>1, <2>2, <2>3 DEF Answering
<1>10. Answering(s, edits, head, index)
  <2>1. RequestTyped(s)
    BY <1>3, <1>8, Answered DEF RequestTyped
  <2>2. VersionsKept(s, edits)
    BY <1>3, <1>8, Answered DEF VersionsKept
  <2>3. HeadsKept(s, head, index)
    BY <1>8, Answered DEF HeadsKept
  <2> QED BY <2>1, <2>2, <2>3 DEF Answering
<1> QED
  BY <1>1, <1>2, <1>5, <1>9, <1>10, RequestGoesOn

LEMMA CacheServed ==
  ASSUME ServedInv, PutCache \/ Expire
  PROVE  ServedInv'
<1>1. Same
  BY DEF PutCache, Expire, Same
<1>2. CASE PutCache
  <2>1. PICK p \in Asked : prompts[p].at = "put" /\ cache' = Stored(p) /\ prompts' = To(p, "code")
    BY <1>2 DEF PutCache
  <2> DEFINE key == Key(prompts[p].question, prompts[p].config, prompts[p].version)
             row == [key |-> key, items |-> prompts[p].wiki]
             replaced == {i \in DOMAIN cache : cache[i].key = key}
             kept == IF replaced = {} THEN cache ELSE RemoveAt(cache, CHOOSE i \in replaced : TRUE)
  <2>2. row \in SoundRows
    BY <2>1, Answered DEF SoundRows, Key, RequestTyped, VersionsKept
  <2>3. kept \in Seq(SoundRows)
    <3>1. replaced # {} => (CHOOSE i \in replaced : TRUE) \in DOMAIN cache
      OBVIOUS
    <3> QED BY <3>1, RowRemoved DEF ServedInv
  <2>4. cache' = Append(kept, row)
    BY <2>1 DEF Stored
  <2> HIDE DEF kept, row
  <2>5. cache' \in Seq(SoundRows)
    BY <2>2, <2>3, <2>4, AppendProperties
  <2> QED BY <1>1, <2>1, <2>5, MovesServed
<1>3. CASE Expire
  <2>1. cache' \in Seq(SoundRows)
    BY <1>3, RowRemoved DEF Expire, ServedInv
  <2> QED
    BY <1>1, <1>3, <2>1 DEF Expire, ServedInv, WorldTyped, Same, world, Asked
<1> QED BY <1>2, <1>3

(* The head it reads is one it saw; an index of that head, or of a later    *)
(* one, is of a head it saw.                                                *)
LEMMA CodeServed ==
  ASSUME ServedInv, ReadHead \/ CheckIndex \/ SearchCode
  PROVE  ServedInv'
<1>1. Same /\ cache' \in Seq(SoundRows)
  BY DEF ReadHead, CheckIndex, SearchCode, Same, ServedInv
<1>2. CASE ReadHead
  <2>1. PICK p \in Asked :
          /\ prompts[p].at = "code"
          /\ \/ prompts' = [prompts EXCEPT ![p].at = "status", ![p].label = head[prompts[p].tree]]
             \/ prompts' = To(p, "done")
    BY <1>2 DEF ReadHead
  <2>2. CASE prompts' = [prompts EXCEPT ![p].at = "status", ![p].label = head[prompts[p].tree]]
    <3> DEFINE label == head[prompts[p].tree]
               r == [prompts[p] EXCEPT !.at = "status", !.label = label]
    <3>1. prompts' = [prompts EXCEPT ![p] = r]
      BY <2>2
    <3>2. label \in prompts[p].heads
      BY Answered DEF HeadsKept
    <3> HIDE DEF label
    <3>3. /\ DOMAIN r = Fields /\ r.at = "status" /\ r.tree = prompts[p].tree
          /\ r.question = prompts[p].question /\ r.config = prompts[p].config
          /\ r.version = prompts[p].version /\ r.seen = prompts[p].seen
          /\ r.wiki = prompts[p].wiki /\ r.heads = prompts[p].heads /\ r.code = prompts[p].code
          /\ r.label = label
      BY Answered DEF Fields
    <3> HIDE DEF r
    <3>4. RequestTyped(r) /\ VersionsKept(r, edits)
      BY <2>1, <3>3, Answered DEF RequestTyped, VersionsKept
    <3>5. HeadsKept(r, head, index)
      BY <3>2, <3>3, Answered DEF HeadsKept
    <3> QED BY <1>1, <3>1, <3>4, <3>5, RequestGoesOn DEF Answering
  <2>3. CASE prompts' = To(p, "done")
    BY <1>1, <2>1, <2>3, MovesServed
  <2> QED BY <2>1, <2>2, <2>3
<1>3. CASE CheckIndex
  <2>1. PICK p \in Asked :
          /\ prompts[p].at = "status"
          /\ \/ CurrentIndex(prompts[p].tree, prompts[p].label) /\ prompts' = To(p, "hits")
             \/ prompts' = To(p, "done")
    BY <1>3 DEF CheckIndex
  <2>2. prompts[p].label \in prompts[p].heads
    BY <2>1, Answered DEF HeadsKept
  <2>3. CASE CurrentIndex(prompts[p].tree, prompts[p].label) /\ prompts' = To(p, "hits")
    <3>1. index[prompts[p].tree].head \in prompts[p].heads
      BY <2>2, <2>3 DEF CurrentIndex
    <3> QED BY <1>1, <2>1, <2>3, <3>1, MovesServed
  <2>4. CASE prompts' = To(p, "done")
    BY <1>1, <2>1, <2>4, MovesServed
  <2> QED BY <2>1, <2>3, <2>4
<1>4. CASE SearchCode
  <2>1. PICK p \in Asked :
          /\ prompts[p].at = "hits"
          /\ \/ prompts' = [prompts EXCEPT ![p].at = "done", ![p].code = index[prompts[p].tree]]
             \/ prompts' = To(p, "done")
    BY <1>4 DEF SearchCode
  <2>2. CASE prompts' = [prompts EXCEPT ![p].at = "done", ![p].code = index[prompts[p].tree]]
    <3> DEFINE code == index[prompts[p].tree]
               r == [prompts[p] EXCEPT !.at = "done", !.code = code]
    <3>1. prompts' = [prompts EXCEPT ![p] = r]
      BY <2>2
    <3>2. code.head \in prompts[p].heads
      BY <2>1, Answered DEF HeadsKept
    <3> HIDE DEF code
    <3>3. /\ DOMAIN r = Fields /\ r.at = "done" /\ r.tree = prompts[p].tree
          /\ r.question = prompts[p].question /\ r.config = prompts[p].config
          /\ r.version = prompts[p].version /\ r.seen = prompts[p].seen
          /\ r.wiki = prompts[p].wiki /\ r.heads = prompts[p].heads /\ r.code = code
      BY Answered DEF Fields
    <3> HIDE DEF r
    <3>4. RequestTyped(r) /\ VersionsKept(r, edits)
      BY <2>1, <3>3, Answered DEF RequestTyped, VersionsKept
    <3>5. HeadsKept(r, head, index)
      BY <3>2, <3>3, Answered DEF HeadsKept
    <3> QED BY <1>1, <3>1, <3>4, <3>5, RequestGoesOn DEF Answering
  <2>3. CASE prompts' = To(p, "done")
    BY <1>1, <2>1, <2>3, MovesServed
  <2> QED BY <2>1, <2>2, <2>3
<1> QED BY <1>2, <1>3, <1>4

(* The commands of brain providers touch no request.                        *)
LEMMA CommandServed ==
  ASSUME ServedInv,
         \/ ConfigureWiki \/ ConfigureCode \/ DisableProvider \/ RemoveProvider
         \/ SaveConfig \/ DropRows
  PROVE  ServedInv'
<1>1. UNCHANGED <<world, prompts>>
  BY DEF ConfigureWiki, ConfigureCode, DisableProvider, RemoveProvider, Begin, SaveConfig, DropRows
<1>2. settings \in Configs /\ command \in Commands /\ release \in Nat
  BY DEF ServedInv, WorldTyped
<1>3. /\ cache' \in Seq(SoundRows)
      /\ settings' \in Configs /\ command' \in Commands
  <2>1. CASE ConfigureWiki \/ ConfigureCode \/ DisableProvider \/ RemoveProvider
    <3>1. PICK op \in {"save", "forget"}, config \in Configs : Begin(op, config)
      <4>1. \A vault \in Vaults : [settings EXCEPT !.wiki = TRUE, !.vault = vault] \in Configs
        BY <1>2 DEF Configs
      <4>2. /\ [settings EXCEPT !.code = TRUE, !.report = release] \in Configs
            /\ [settings EXCEPT !.wiki = FALSE] \in Configs
            /\ [settings EXCEPT !.code = FALSE] \in Configs
            /\ [settings EXCEPT !.wiki = FALSE, !.vault = NoVault] \in Configs
            /\ [settings EXCEPT !.code = FALSE, !.report = 0] \in Configs
        BY <1>2 DEF Configs
      <4> QED
        BY <2>1, <4>1, <4>2 DEF ConfigureWiki, ConfigureCode, DisableProvider, RemoveProvider
    <3>2. UNCHANGED <<settings, cache>> /\ command' = [op |-> op, config |-> config]
      BY <3>1 DEF Begin
    <3> QED BY <1>2, <3>2 DEF ServedInv, Commands
  <2>2. CASE SaveConfig
    <3>1. /\ settings' = command.config /\ cache' = cache
          /\ command' = NoCommand \/ command' = [command EXCEPT !.op = "drop"]
      BY <2>2 DEF SaveConfig
    <3>2. NoCommand \in Commands
      BY DEF NoCommand, NoSettings, Commands, Configs
    <3>3. [command EXCEPT !.op = "drop"] \in Commands /\ command.config \in Configs
      BY <1>2 DEF Commands
    <3> QED BY <3>1, <3>2, <3>3 DEF ServedInv
  <2>3. CASE DropRows
    <3>1. NoCommand \in Commands
      BY DEF NoCommand, NoSettings, Commands, Configs
    <3> QED BY <1>2, <2>3, <3>1, EmptySeq DEF DropRows
  <2> QED BY <2>1, <2>2, <2>3
<1> QED
  BY <1>1, <1>3 DEF ServedInv, WorldTyped, world, Asked

(* An index is built of the head as it is, which every request saw.         *)
LEMMA BuildIndexServed ==
  ASSUME ServedInv, BuildIndex
  PROVE  ServedInv'
<1>1. PICK tree \in Trees :
        index' = [index EXCEPT ![tree] = [head |-> head[tree], release |-> release]]
  BY DEF BuildIndex
<1>2. UNCHANGED <<settings, edits, head, release, cache, prompts, command>>
  BY DEF BuildIndex
<1>3. index \in [Trees -> [head : Nat, release : Nat]] /\ head \in [Trees -> Nat] /\ release \in Nat
  BY DEF ServedInv, WorldTyped
<1> DEFINE built == [head |-> head[tree], release |-> release]
<1>4. built \in [head : Nat, release : Nat] /\ built.head = head[tree]
  BY <1>3
<1> HIDE DEF built
<1>5. /\ index' \in [Trees -> [head : Nat, release : Nat]]
      /\ index'[tree] = built /\ \A t \in Trees \ {tree} : index'[t] = index[t]
  BY <1>1, <1>3, <1>4 DEF built
<1>6. \A p \in Asked : HeadsKept(prompts[p], head, index')
  BY <1>4, <1>5, Answered DEF HeadsKept, RequestTyped
<1>7. \A p \in Asked : Answering(prompts[p], edits, head, index')
  BY <1>6, Answered DEF Answering
<1> QED
  BY <1>2, <1>5, <1>7 DEF ServedInv, WorldTyped, Asked

(* A vault is only ever edited further, and a request in progress sees      *)
(* every commit of its worktree.                                            *)
LEMMA ChangeServed ==
  ASSUME ServedInv, Change
  PROVE  ServedInv'
<1>1. UNCHANGED <<settings, index, cache, command>>
  BY DEF Change
<1>2. edits \in [Vaults -> Nat] /\ head \in [Trees -> Nat] /\ release \in Nat
  BY DEF ServedInv, WorldTyped
<1>3. ASSUME NEW vault \in Vaults, edits' = [edits EXCEPT ![vault] = @ + 1],
             UNCHANGED <<head, release, prompts>>
      PROVE  ServedInv'
  <2>1. edits' \in [Vaults -> Nat] /\ \A v \in Vaults : edits[v] <= edits'[v]
    BY <1>2, <1>3
  <2>2. ASSUME NEW p \in Asked PROVE VersionsKept(prompts[p], edits')
    <3>1. /\ \A v \in Vaults : prompts[p].seen[v] \in Nat /\ edits[v] \in Nat /\ edits'[v] \in Nat
          /\ prompts[p].version \in Nat
      BY <1>2, <2>1, Answered DEF RequestTyped
    <3>2. \A v \in Vaults : prompts[p].seen[v] <= edits'[v]
      BY <2>1, <3>1, Answered DEF VersionsKept
    <3> QED
      BY <2>1, <3>1, <3>2, Answered DEF VersionsKept
  <2>3. \A p \in Asked : Answering(prompts[p], edits', head, index)
    BY <2>2, Answered DEF Answering
  <2> QED
    BY <1>1, <1>3, <2>1, <2>3 DEF ServedInv, WorldTyped, Asked
<1>4. ASSUME NEW tree \in Trees, head' = [head EXCEPT ![tree] = @ + 1],
             prompts' = [p \in Asked |->
                           IF prompts[p].tree = tree
                           THEN [prompts[p] EXCEPT !.heads = @ \cup {head[tree] + 1}]
                           ELSE prompts[p]],
             UNCHANGED <<edits, release>>
      PROVE  ServedInv'
  <2>1. /\ head' \in [Trees -> Nat] /\ head'[tree] = head[tree] + 1
        /\ \A t \in Trees \ {tree} : head'[t] = head[t]
    BY <1>2, <1>4
  <2>2. Asked' = Asked
    BY <1>4 DEF Asked
  <2>3. ASSUME NEW p \in Asked PROVE Answering(prompts'[p], edits, head', index)
    <3>1. CASE prompts[p].tree = tree
      <4> DEFINE heads == prompts[p].heads \cup {head[tree] + 1}
                 r == [prompts[p] EXCEPT !.heads = heads]
      <4>1. prompts'[p] = r
        BY <1>4, <3>1
      <4>2. head'[tree] \in heads /\ \A h \in prompts[p].heads : h \in heads
        BY <2>1
      <4> HIDE DEF heads
      <4>3. /\ DOMAIN r = Fields /\ r.at = prompts[p].at /\ r.tree = prompts[p].tree
            /\ r.question = prompts[p].question /\ r.config = prompts[p].config
            /\ r.version = prompts[p].version /\ r.seen = prompts[p].seen
            /\ r.wiki = prompts[p].wiki /\ r.heads = heads /\ r.code = prompts[p].code
            /\ r.label = prompts[p].label
        BY Answered DEF Fields
      <4> HIDE DEF r
      <4>4. RequestTyped(r)
        BY <4>3, Answered DEF RequestTyped
      <4>5. VersionsKept(r, edits)
        BY <4>3, Answered DEF VersionsKept
      <4>6. HeadsKept(r, head', index)
        BY <3>1, <4>2, <4>3, Answered DEF HeadsKept
      <4> QED BY <4>1, <4>4, <4>5, <4>6 DEF Answering
    <3>2. CASE prompts[p].tree # tree
      <4>1. prompts'[p] = prompts[p]
        BY <1>4, <3>2
      <4>2. head'[prompts[p].tree] = head[prompts[p].tree]
        BY <2>1, <3>2, Answered DEF RequestTyped
      <4>3. HeadsKept(prompts[p], head', index)
        BY <4>2, Answered DEF HeadsKept
      <4> QED BY <4>1, <4>3, Answered DEF Answering
    <3> QED BY <3>1, <3>2
  <2> QED
    BY <1>1, <1>4, <2>1, <2>2, <2>3 DEF ServedInv, WorldTyped
<1>5. ASSUME release' = release + 1, UNCHANGED <<edits, head, prompts>>
      PROVE  ServedInv'
  BY <1>1, <1>2, <1>5 DEF ServedInv, WorldTyped, Asked
<1> QED
  BY <1>3, <1>4, <1>5 DEF Change

LEMMA ServedStep == Inv /\ ServedInv /\ [PromptNext]_promptVars => ServedInv'
<1> SUFFICES ASSUME Inv, ServedInv, [PromptNext]_promptVars PROVE ServedInv'
  OBVIOUS
<1>1. CASE Ask \/ StartPrompt
  BY <1>1, AskServed, StartServed
<1>2. CASE ReadVersion \/ LookUp \/ SearchVault \/ PutCache \/ Expire
  BY <1>2, ReadVersionServed, LookUpServed, SearchVaultServed, CacheServed
<1>3. CASE ReadHead \/ CheckIndex \/ SearchCode
  BY <1>3, CodeServed
<1>4. CASE \/ ConfigureWiki \/ ConfigureCode \/ DisableProvider \/ RemoveProvider
           \/ SaveConfig \/ DropRows
  BY <1>4, CommandServed
<1>5. CASE BuildIndex \/ Change
  BY <1>5, BuildIndexServed, ChangeServed
<1>6. CASE UNCHANGED promptVars
  BY <1>6 DEF promptVars, world, ServedInv, WorldTyped, Asked
<1> QED
  BY <1>1, <1>2, <1>3, <1>4, <1>5, <1>6 DEF PromptNext

(* What a prompt is given from a vault is of the vault it is configured     *)
(* with and no older than the vault was when it came, by way of the cache   *)
(* or not; what it is given from the code index is of a commit that its     *)
(* worktree was at meanwhile.  For any sessions, questions, worktrees,      *)
(* vaults, and any edits, commits and commands between its steps.           *)
THEOREM AnswersCurrent == PromptSpec => []ServedCurrent
<1>1. ServedInv => ServedCurrent
  BY Answered DEF ServedCurrent, VersionsKept, HeadsKept
<1> QED
  BY <1>1, InvInit, InvStep, ServedInit, ServedStep, PTL DEF PromptSpec

----------------------------------------------------------------------------
(* The delivery of hooks.                                                   *)

CallState ==
  [session : NativeSessions, event : Events, shim : {"waiting", "answered", "gave up"},
   at : {"unsent", "queued", "received", "searching", "appended", "replying", "flushed",
         "counted", "dropped"},
   already : SUBSET Memories, text : BOOLEAN, memories : SUBSET Memories, sent : BOOLEAN]

HookTyped ==
  /\ \E n \in Nat : calls \in [1..n -> CallState]
  /\ pushed \in [NativeSessions -> SUBSET Memories]
  /\ received \in [NativeSessions -> [Memories -> Nat]]
  /\ endJobs \in [NativeSessions -> Nat]

(* What a session was handed so far.                                        *)
HandedOf(counts) == {m \in Memories : counts[m] > 0}

Handed(s) == HandedOf(received[s])

Waits(c) == calls[c].shim = "waiting"

(* A session waits for one hook at a time, and what it was handed, and may  *)
(* be handed, is recorded.                                                  *)
OneWaits ==
  \A c, d \in Ids : Waits(c) /\ Waits(d) /\ calls[c].session = calls[d].session => c = d

HandedRecorded ==
  /\ \A s \in NativeSessions : Handed(s) \subseteq pushed[s]
  /\ \A c \in Ids : calls[c].memories \subseteq pushed[calls[c].session]

(* The hook a session waits for knows all the session was handed, as only   *)
(* that hook can hand it more, and what it brings is new and fits the cap.  *)
New(handed, call) ==
  /\ call.at = "searching" => handed \subseteq call.already
  /\ handed \cap call.memories = {}
  /\ Cardinality(handed \cup call.memories) <= SessionCap

BringsNew == \A c \in Ids : Waits(c) => New(Handed(calls[c].session), calls[c])

(* The end of a session is appended once, and its job is yet to come then.  *)
EndOnce ==
  /\ \A c \in Ids : calls[c].at = "appended" =>
       calls[c].session \in ended /\ endJobs[calls[c].session] = 0
  /\ \A c, d \in Ids :
       calls[c].at = "appended" /\ calls[d].at = "appended"
         /\ calls[c].session = calls[d].session => c = d
  /\ \A s \in NativeSessions : endJobs[s] <= 1 /\ (endJobs[s] > 0 => s \in ended)

(* What is flushed, counted as delivered or has its receipt was sent.       *)
SentFirst ==
  /\ \A c \in Ids : calls[c].at = "flushed" => calls[c].sent
  /\ \A c \in deliveries : c \in Ids /\ calls[c].sent
  /\ \A r \in receipts : r.stage = "ReplyFlushed" => r.call \in Ids /\ calls[r.call].sent

HookInv ==
  /\ HookTyped /\ OneWaits /\ HandedRecorded /\ BringsNew /\ EndOnce /\ SentFirst /\ PushedOnce

LEMMA CallFields ==
  ASSUME HookTyped, NEW c \in Ids
  PROVE  /\ calls[c] \in CallState /\ calls[c].session \in NativeSessions
         /\ calls[c].already \subseteq Memories /\ calls[c].memories \subseteq Memories
  BY DEF HookTyped, CallState, Ids

LEMMA SessionFields ==
  ASSUME HookTyped, NEW s \in NativeSessions
  PROVE  /\ pushed[s] \subseteq Memories /\ endJobs[s] \in Nat
         /\ \A m \in Memories : received[s][m] \in Nat
         /\ Handed(s) \subseteq Memories
  BY DEF HookTyped, Handed, HandedOf

LEMMA FewMemories ==
  ASSUME NEW ms \in SUBSET Memories
  PROVE  IsFiniteSet(ms) /\ Cardinality(ms) \in Nat
  BY MemoriesAssumption, FS_Subset, FS_CardinalityType

(* What may be chosen is new, and fits the cap beside what was handed.      *)
LEMMA ChosenFits ==
  ASSUME NEW already \in SUBSET Memories, NEW chosen \in Selectable(already),
         NEW handed \in SUBSET already, Cardinality(handed) <= SessionCap
  PROVE  handed \cap chosen = {} /\ Cardinality(handed \cup chosen) <= SessionCap
<1>1. /\ chosen \subseteq Memories \ already /\ Cardinality(chosen) <= Room(already)
      /\ chosen \in SUBSET Memories /\ handed \in SUBSET Memories
  BY DEF Selectable
<1>2. /\ Cardinality(already) \in Nat /\ Cardinality(chosen) \in Nat
      /\ Cardinality(handed) \in Nat /\ IsFiniteSet(already)
      /\ IsFiniteSet(handed) /\ IsFiniteSet(chosen)
  BY <1>1, FewMemories
<1>3. handed \cap chosen = {}
  BY <1>1
<1>4. CASE Cardinality(already) >= SessionCap
  <2>1. Cardinality(chosen) = 0
    BY <1>1, <1>2, <1>4 DEF Room
  <2>2. chosen = {}
    BY <1>2, <2>1, FS_EmptySet
  <2>3. handed \cup chosen = handed
    BY <2>2
  <2> QED BY <1>3, <2>3
<1>5. CASE ~(Cardinality(already) >= SessionCap)
  <2>1. Room(already) <= SessionCap - Cardinality(already)
    BY <1>2, <1>5, MemoriesAssumption DEF Room
  <2>2. Room(already) \in Int
    BY <1>2, <1>5, MemoriesAssumption DEF Room
  <2>3. Cardinality(handed) <= Cardinality(already)
    BY <1>2, FS_Subset
  <2>4. Cardinality(handed \cup chosen) = Cardinality(handed) + Cardinality(chosen)
    <3>1. Cardinality(handed \cap chosen) = 0
      BY <1>3, FS_EmptySet
    <3>2. Cardinality(handed \cup chosen)
            = Cardinality(handed) + Cardinality(chosen) - Cardinality(handed \cap chosen)
      BY <1>2, FS_Union
    <3> QED BY <1>2, <3>1, <3>2
  <2> QED
    BY <1>1, <1>2, <1>3, <2>1, <2>2, <2>3, <2>4, MemoriesAssumption
<1> QED
  BY <1>4, <1>5

LEMMA HandedFits ==
  ASSUME HookInv, NEW s \in NativeSessions
  PROVE  Cardinality(Handed(s)) <= SessionCap
  BY DEF HookInv, PushedOnce, Handed, HandedOf

LEMMA HookInit_Inv == HookInit => HookInv
<1> SUFFICES ASSUME HookInit PROVE HookInv
  OBVIOUS
<1>1. calls = <<>> /\ Ids = {}
  BY DEF HookInit, Ids
<1>2. HookTyped
  <2>1. calls \in [1..0 -> CallState]
    BY <1>1
  <2>2. \E n \in Nat : calls \in [1..n -> CallState]
    BY <2>1
  <2> QED BY <2>2 DEF HookInit, HookTyped
<1>3. \A s \in NativeSessions : Handed(s) = {}
  BY DEF HookInit, Handed, HandedOf
<1>4. PushedOnce
  <2>1. \A s \in NativeSessions : Cardinality({m \in Memories : received[s][m] > 0}) = 0
    BY <1>3, FS_EmptySet DEF Handed, HandedOf
  <2>2. \A s \in NativeSessions : \A m \in Memories : received[s][m] = 0
    BY DEF HookInit
  <2> QED BY <2>1, <2>2, MemoriesAssumption DEF PushedOnce
<1>5. EndOnce
  BY <1>1 DEF HookInit, EndOnce
<1>6. deliveries = {} /\ receipts = {}
  BY DEF HookInit
<1> QED
  BY <1>1, <1>2, <1>3, <1>4, <1>5, <1>6
     DEF HookInv, OneWaits, HandedRecorded, BringsNew, SentFirst

----------------------------------------------------------------------------
(* A step of one call that hands its session nothing: it goes on waiting    *)
(* only if it waited, what it brings is recorded, new and within the cap,   *)
(* its session ends once, and what is said to be sent was.                  *)
LEMMA CallSteps ==
  ASSUME HookInv, NEW c \in Ids, NEW g \in CallState, NEW s \in NativeSessions,
         s = calls[c].session, g.session = s,
         calls' = [calls EXCEPT ![c] = g],
         g.shim = "waiting" => Waits(c) /\ New(Handed(s), g),
         received' = received,
         pushed' \in [NativeSessions -> SUBSET Memories],
         \A q \in NativeSessions : pushed[q] \subseteq pushed'[q],
         g.memories \subseteq pushed'[s],
         ended \subseteq ended',
         g.at = "appended" => \/ s \notin ended /\ s \in ended'
                              \/ calls[c].at = "appended" /\ endJobs' = endJobs,
         \/ endJobs' = endJobs
         \/ calls[c].at = "appended" /\ endJobs' = [endJobs EXCEPT ![s] = @ + 1],
         calls[c].sent => g.sent, g.at = "flushed" => g.sent,
         \A d \in deliveries' : d \in deliveries \/ (d = c /\ g.sent),
         \A r \in receipts' :
           r \in receipts \/ r.stage # "ReplyFlushed" \/ (r.call = c /\ g.sent)
  PROVE  HookInv'
<1>1. /\ Ids' = Ids /\ calls'[c] = g /\ \A d \in Ids \ {c} : calls'[d] = calls[d]
      /\ \E n \in Nat : calls' \in [1..n -> CallState]
  BY DEF HookInv, HookTyped, Ids
<1>2. \A q \in NativeSessions : Handed(q)' = Handed(q)
  BY DEF Handed
<1>3. \A d \in Ids : calls'[d].session = calls[d].session /\ calls[d].session \in NativeSessions
  BY <1>1, CallFields DEF HookInv
<1>4. endJobs' \in [NativeSessions -> Nat]
  <2>1. endJobs[s] + 1 \in Nat
    BY SessionFields DEF HookInv
  <2> QED BY <2>1 DEF HookInv, HookTyped
<1>5. HookTyped'
  BY <1>1, <1>4 DEF HookInv, HookTyped
<1>6. OneWaits'
  BY <1>1, <1>3 DEF HookInv, OneWaits, Waits
<1>7. HandedRecorded'
  <2>1. \A q \in NativeSessions : Handed(q)' \subseteq pushed'[q]
    BY <1>2 DEF HookInv, HandedRecorded
  <2>2. ASSUME NEW d \in Ids PROVE calls'[d].memories \subseteq pushed'[calls'[d].session]
    <3>1. CASE d = c
      BY <1>1, <3>1
    <3>2. CASE d # c
      BY <1>1, <1>3, <3>2 DEF HookInv, HandedRecorded
    <3> QED BY <3>1, <3>2
  <2> QED BY <1>1, <2>1, <2>2 DEF HandedRecorded
<1>8. BringsNew'
  <2> SUFFICES ASSUME NEW d \in Ids, Waits(d)'
               PROVE  New(Handed(calls[d].session), calls[d])'
    BY <1>1 DEF BringsNew
  <2>1. CASE d = c
    <3>1. g.shim = "waiting"
      BY <1>1, <2>1 DEF Waits
    <3> QED BY <1>1, <2>1, <3>1 DEF Handed
  <2>2. CASE d # c
    <3>1. New(Handed(calls[d].session), calls[d])
      BY <1>1, <2>2 DEF HookInv, BringsNew, Waits
    <3> QED BY <1>1, <2>2, <3>1 DEF Handed
  <2> QED BY <2>1, <2>2
<1>9. EndOnce'
  <2>1. \A q \in NativeSessions : endJobs[q] \in Nat
    BY SessionFields DEF HookInv
  <2>2. /\ \A q \in NativeSessions \ {s} : endJobs'[q] = endJobs[q]
        /\ \/ endJobs'[s] = endJobs[s]
           \/ calls[c].at = "appended" /\ endJobs'[s] = endJobs[s] + 1
    BY DEF HookInv, HookTyped
  <2>3. ASSUME NEW d \in Ids, calls'[d].at = "appended"
        PROVE  calls'[d].session \in ended' /\ endJobs'[calls'[d].session] = 0
    <3>1. CASE d = c
      BY <1>1, <2>1, <2>2, <2>3, <3>1 DEF HookInv, EndOnce
    <3>2. CASE d # c
      BY <1>1, <1>3, <2>1, <2>2, <2>3, <3>2 DEF HookInv, EndOnce
    <3> QED BY <3>1, <3>2
  <2>4. ASSUME NEW d \in Ids, NEW e \in Ids, calls'[d].at = "appended", calls'[e].at = "appended",
               calls'[d].session = calls'[e].session
        PROVE  d = e
    BY <1>1, <1>3, <2>4 DEF HookInv, EndOnce
  <2>5. ASSUME NEW q \in NativeSessions
        PROVE  endJobs'[q] <= 1 /\ (endJobs'[q] > 0 => q \in ended')
    BY <2>1, <2>2 DEF HookInv, EndOnce
  <2> QED BY <1>1, <2>3, <2>4, <2>5 DEF EndOnce
<1>10. SentFirst'
  BY <1>1 DEF HookInv, SentFirst
<1>11. PushedOnce'
  BY DEF HookInv, PushedOnce
<1> QED
  BY <1>5, <1>6, <1>7, <1>8, <1>9, <1>10, <1>11 DEF HookInv

(* ... in particular one that only goes on to its next place.               *)
LEMMA MovedSteps ==
  ASSUME HookInv, NEW c \in Ids, NEW at \in {"queued", "received", "replying", "appended", "counted"},
         calls' = Moved(c, at), UNCHANGED <<pushed, received>>, ended \subseteq ended',
         at = "appended" => calls[c].session \notin ended /\ calls[c].session \in ended',
         \/ endJobs' = endJobs
         \/ /\ calls[c].at = "appended"
            /\ endJobs' = [endJobs EXCEPT ![calls[c].session] = @ + 1],
         \A d \in deliveries' : d \in deliveries \/ (d = c /\ calls[c].sent),
         \A r \in receipts' :
           r \in receipts \/ r.stage # "ReplyFlushed" \/ (r.call = c /\ calls[c].sent)
  PROVE  HookInv'
<1>1. HookTyped /\ calls[c] \in CallState
  BY CallFields DEF HookInv
<1> DEFINE g == [calls[c] EXCEPT !.at = at]
<1>2. calls' = [calls EXCEPT ![c] = g]
  BY DEF Moved
<1>3. /\ g \in CallState /\ g.at = at /\ g.session = calls[c].session /\ g.shim = calls[c].shim
      /\ g.memories = calls[c].memories /\ g.sent = calls[c].sent
  BY <1>1 DEF CallState
<1> HIDE DEF g
<1>4. PICK s \in NativeSessions : s = calls[c].session
  BY <1>1, CallFields
<1>5. g.shim = "waiting" => Waits(c) /\ New(Handed(s), g)
  <2> SUFFICES ASSUME Waits(c) PROVE New(Handed(s), g)
    BY <1>3 DEF Waits
  <2>1. New(Handed(s), calls[c])
    BY <1>4 DEF HookInv, BringsNew
  <2> QED BY <1>3, <2>1 DEF New
<1>6. g.memories \subseteq pushed'[s] /\ pushed' \in [NativeSessions -> SUBSET Memories]
  BY <1>1, <1>3, <1>4 DEF HookInv, HandedRecorded, HookTyped
<1>7. /\ \A q \in NativeSessions : pushed[q] \subseteq pushed'[q]
      /\ received' = received /\ g.session = s /\ g \in CallState
  BY <1>3, <1>4
<1>8. /\ g.at = "appended" => s \notin ended /\ s \in ended'
      /\ \/ endJobs' = endJobs
         \/ calls[c].at = "appended" /\ endJobs' = [endJobs EXCEPT ![s] = @ + 1]
      /\ calls[c].sent => g.sent
      /\ g.at = "flushed" => g.sent
      /\ \A d \in deliveries' : d \in deliveries \/ (d = c /\ g.sent)
      /\ \A r \in receipts' :
           r \in receipts \/ r.stage # "ReplyFlushed" \/ (r.call = c /\ g.sent)
  BY <1>3, <1>4
<1> QED
  BY <1>2, <1>4, <1>5, <1>6, <1>7, <1>8, CallSteps

LEMMA ShimSteps == HookInv /\ (Send \/ GiveUp) => HookInv'
<1> SUFFICES ASSUME HookInv, Send \/ GiveUp PROVE HookInv'
  OBVIOUS
<1>0. UNCHANGED <<pushed, received, ended, endJobs, deliveries, receipts>>
  BY DEF Send, GiveUp
<1>1. CASE Send
  <2>1. PICK c \in Ids : calls' = Moved(c, "queued")
    BY <1>1 DEF Send
  <2> QED BY <1>0, <2>1, MovedSteps
<1>2. CASE GiveUp
  <2>1. PICK c \in Ids : calls' = [calls EXCEPT ![c].shim = "gave up"]
    BY <1>2 DEF GiveUp
  <2>2. calls[c] \in CallState /\ HookTyped
    BY CallFields DEF HookInv
  <2>3. PICK s \in NativeSessions : s = calls[c].session
    BY <2>2, CallFields
  <2> DEFINE g == [calls[c] EXCEPT !.shim = "gave up"]
  <2>4. calls' = [calls EXCEPT ![c] = g]
    BY <2>1
  <2>5. /\ g \in CallState /\ g.at = calls[c].at /\ g.session = s /\ g.shim # "waiting"
        /\ g.memories = calls[c].memories /\ g.sent = calls[c].sent
    BY <2>2, <2>3 DEF CallState
  <2> HIDE DEF g
  <2>6. /\ g.memories \subseteq pushed'[s] /\ pushed' \in [NativeSessions -> SUBSET Memories]
        /\ \A q \in NativeSessions : pushed[q] \subseteq pushed'[q]
    BY <1>0, <2>2, <2>3, <2>5 DEF HookInv, HandedRecorded, HookTyped
  <2>7. g.at = "flushed" => g.sent
    BY <2>5 DEF HookInv, SentFirst
  <2> QED
    BY <1>0, <2>3, <2>4, <2>5, <2>6, <2>7, CallSteps
<1> QED BY <1>1, <1>2

(* What a session was handed is counted when its hook reads the reply, and  *)
(* that hook is then no longer waited for.                                  *)
LEMMA ReadReplyStep == HookInv /\ ReadReply => HookInv'
<1> SUFFICES ASSUME HookInv, ReadReply PROVE HookInv'
  OBVIOUS
<1>1. PICK c \in Ids :
        /\ calls[c].shim = "waiting" /\ calls[c].at \in {"flushed", "counted"}
        /\ calls' = [calls EXCEPT ![c].shim = "answered", ![c].memories = {}]
        /\ received' = [received EXCEPT ![calls[c].session] =
                          [m \in Memories |-> IF m \in calls[c].memories THEN @[m] + 1 ELSE @[m]]]
  BY DEF ReadReply
<1>2. calls[c] \in CallState /\ HookTyped
  BY CallFields DEF HookInv
<1>3. PICK s \in NativeSessions : s = calls[c].session
  BY <1>2, CallFields
<1> DEFINE g == [calls[c] EXCEPT !.shim = "answered", !.memories = {}]
           ms == calls[c].memories
<1>4. calls' = [calls EXCEPT ![c] = g]
  BY <1>1
<1>5. /\ g \in CallState /\ g.at = calls[c].at /\ g.session = s /\ g.shim # "waiting"
      /\ g.memories = {} /\ g.sent = calls[c].sent /\ g.at # "appended"
  BY <1>1, <1>2, <1>3 DEF CallState
<1> HIDE DEF g
<1>6. /\ Ids' = Ids /\ calls'[c] = g /\ \A d \in Ids \ {c} : calls'[d] = calls[d]
      /\ \E n \in Nat : calls' \in [1..n -> CallState]
  BY <1>2, <1>4, <1>5 DEF HookTyped, Ids
<1>7. UNCHANGED <<pushed, ended, endJobs, deliveries, receipts>>
  BY DEF ReadReply
<1>8. /\ \A q \in NativeSessions \ {s} : received'[q] = received[q]
      /\ \A m \in Memories : received'[s][m] = IF m \in ms THEN received[s][m] + 1 ELSE received[s][m]
      /\ received' \in [NativeSessions -> [Memories -> Nat]]
  <2>1. /\ received \in [NativeSessions -> [Memories -> Nat]]
        /\ \A m \in Memories : received[s][m] \in Nat
    BY <1>2 DEF HookTyped
  <2> DEFINE f == [m \in Memories |-> IF m \in ms THEN received[s][m] + 1 ELSE received[s][m]]
  <2>2. f \in [Memories -> Nat]
    BY <2>1
  <2>3. received' = [received EXCEPT ![s] = f]
    BY <1>1, <1>3
  <2>4. \A m \in Memories : f[m] = IF m \in ms THEN received[s][m] + 1 ELSE received[s][m]
    OBVIOUS
  <2> HIDE DEF f
  <2> QED
    BY <2>1, <2>2, <2>3, <2>4
<1>9. \A m \in Memories : received[s][m] \in Nat
  BY <1>2, SessionFields
<1>10. /\ Handed(s) \cap ms = {} /\ Cardinality(Handed(s) \cup ms) <= SessionCap
       /\ ms \subseteq Memories /\ ms \subseteq pushed[s]
  BY <1>1, <1>2, <1>3, CallFields DEF HookInv, BringsNew, New, Waits, HandedRecorded
<1>11. /\ Handed(s)' = Handed(s) \cup ms
       /\ \A q \in NativeSessions \ {s} : Handed(q)' = Handed(q)
  BY <1>8, <1>9, <1>10 DEF Handed, HandedOf
<1>12. HookTyped'
  BY <1>6, <1>7, <1>8 DEF HookInv, HookTyped
<1>13. \A d \in Ids : calls'[d].session = calls[d].session /\ calls[d].session \in NativeSessions
  BY <1>2, <1>3, <1>5, <1>6, CallFields
<1>14. OneWaits'
  BY <1>5, <1>6, <1>13 DEF HookInv, OneWaits, Waits
<1>15. HandedRecorded'
  <2>1. \A q \in NativeSessions : Handed(q)' \subseteq pushed'[q]
    BY <1>7, <1>10, <1>11 DEF HookInv, HandedRecorded
  <2>2. \A d \in Ids : calls'[d].memories \subseteq pushed'[calls'[d].session]
    BY <1>5, <1>6, <1>7, <1>13 DEF HookInv, HandedRecorded
  <2> QED BY <1>6, <2>1, <2>2 DEF HandedRecorded
<1>16. BringsNew'
  <2> SUFFICES ASSUME NEW d \in Ids, Waits(d)'
               PROVE  New(Handed(calls[d].session), calls[d])'
    BY <1>6 DEF BringsNew
  <2>1. d # c
    BY <1>5, <1>6 DEF Waits
  <2>2. Waits(d) /\ calls'[d] = calls[d]
    BY <1>6, <2>1 DEF Waits
  <2>3. calls[d].session # s
    BY <1>1, <1>3, <2>1, <2>2 DEF HookInv, OneWaits, Waits
  <2>4. received'[calls[d].session] = received[calls[d].session]
    BY <1>8, <1>13, <2>3
  <2>5. New(Handed(calls[d].session), calls[d])
    BY <2>2 DEF HookInv, BringsNew
  <2> QED
    BY <2>2, <2>4, <2>5 DEF Handed
<1>17. EndOnce'
  BY <1>5, <1>6, <1>7, <1>13 DEF HookInv, EndOnce
<1>18. SentFirst'
  BY <1>1, <1>5, <1>6, <1>7 DEF HookInv, SentFirst
<1>19. PushedOnce'
  <2> SUFFICES ASSUME NEW q \in NativeSessions
               PROVE  /\ \A m \in Memories : received'[q][m] <= 1
                      /\ Cardinality(Handed(q)') <= SessionCap
    BY DEF PushedOnce, Handed, HandedOf
  <2>1. CASE q = s
    <3>1. \A m \in ms : received[s][m] = 0
      BY <1>9, <1>10 DEF Handed, HandedOf
    <3>2. \A m \in Memories : received[s][m] <= 1
      BY DEF HookInv, PushedOnce
    <3>3. \A m \in Memories : received'[s][m] <= 1
      BY <1>8, <3>1, <3>2
    <3> QED
      BY <1>10, <1>11, <2>1, <3>3
  <2>2. CASE q # s
    <3>1. \A m \in Memories : received'[q][m] <= 1
      BY <1>8, <2>2 DEF HookInv, PushedOnce
    <3>2. Cardinality(Handed(q)) <= SessionCap
      BY HandedFits
    <3> QED
      BY <1>11, <2>2, <3>1, <3>2
  <2> QED BY <2>1, <2>2
<1> QED
  BY <1>12, <1>14, <1>15, <1>16, <1>17, <1>18, <1>19 DEF HookInv

(* The session's hook reads what was recorded before it searches.           *)
LEMMA ReadPushedStep == HookInv /\ ReadPushed => HookInv'
<1> SUFFICES ASSUME HookInv, ReadPushed PROVE HookInv'
  OBVIOUS
<1>1. PICK c \in Ids :
        calls' = [calls EXCEPT ![c].at = "searching", ![c].already = pushed[calls[c].session]]
  BY DEF ReadPushed
<1>2. calls[c] \in CallState /\ HookTyped
  BY CallFields DEF HookInv
<1>3. PICK s \in NativeSessions : s = calls[c].session
  BY <1>2, CallFields
<1> DEFINE known == pushed[s]
           g == [calls[c] EXCEPT !.at = "searching", !.already = known]
<1>4. calls' = [calls EXCEPT ![c] = g]
  BY <1>1, <1>3
<1>5. known \subseteq Memories
  BY <1>2, SessionFields
<1>6. Handed(s) \subseteq known
  BY DEF HookInv, HandedRecorded
<1> HIDE DEF known
<1>7. /\ g \in CallState /\ g.at = "searching" /\ g.session = s /\ g.shim = calls[c].shim
      /\ g.memories = calls[c].memories /\ g.sent = calls[c].sent /\ g.already = known
  BY <1>2, <1>3, <1>5 DEF CallState
<1> HIDE DEF g
<1>8. UNCHANGED <<pushed, received, ended, endJobs, deliveries, receipts>>
  BY DEF ReadPushed
<1>9. g.shim = "waiting" => Waits(c) /\ New(Handed(s), g)
  BY <1>3, <1>6, <1>7 DEF HookInv, BringsNew, Waits, New
<1>10. /\ g.memories \subseteq pushed'[s] /\ pushed' \in [NativeSessions -> SUBSET Memories]
       /\ \A q \in NativeSessions : pushed[q] \subseteq pushed'[q]
  BY <1>2, <1>3, <1>7, <1>8 DEF HookInv, HandedRecorded, HookTyped
<1> QED
  BY <1>3, <1>4, <1>7, <1>8, <1>9, <1>10, CallSteps

(* What is chosen is recorded before it can be handed over.                 *)
LEMMA PushStep == HookInv /\ Push => HookInv'
<1> SUFFICES ASSUME HookInv, Push PROVE HookInv'
  OBVIOUS
<1>0. PICK c \in Ids : \E chosen \in Selectable(calls[c].already) :
        /\ calls[c].at = "searching"
        /\ pushed' = [pushed EXCEPT ![calls[c].session] = @ \cup chosen]
        /\ calls' = [calls EXCEPT ![c].at = "replying", ![c].already = {},
                                  ![c].memories = chosen, ![c].text = chosen # {}]
        /\ receipts' = receipts /\ deliveries' = deliveries
  BY DEF Push, Decide, Records
<1>1. PICK chosen \in Selectable(calls[c].already) :
        /\ calls[c].at = "searching"
        /\ pushed' = [pushed EXCEPT ![calls[c].session] = @ \cup chosen]
        /\ calls' = [calls EXCEPT ![c].at = "replying", ![c].already = {},
                                  ![c].memories = chosen, ![c].text = chosen # {}]
        /\ receipts' = receipts /\ deliveries' = deliveries
  BY <1>0
<1>2. calls[c] \in CallState /\ HookTyped
  BY CallFields DEF HookInv
<1>3. PICK s \in NativeSessions : s = calls[c].session
  BY <1>2, CallFields
<1> DEFINE some == (chosen # {})
           g == [calls[c] EXCEPT !.at = "replying", !.already = {}, !.memories = chosen,
                                 !.text = some]
<1>4. calls' = [calls EXCEPT ![c] = g]
  BY <1>1
<1>5. chosen \subseteq Memories /\ some \in BOOLEAN
  BY DEF Selectable
<1> HIDE DEF some
<1>6. /\ g \in CallState /\ g.at = "replying" /\ g.session = s /\ g.shim = calls[c].shim
      /\ g.memories = chosen /\ g.sent = calls[c].sent
  BY <1>2, <1>3, <1>5 DEF CallState
<1> HIDE DEF g
<1>7. UNCHANGED <<received, ended, endJobs>>
  BY DEF Push
<1>8. pushed[s] \subseteq Memories /\ pushed \in [NativeSessions -> SUBSET Memories]
  BY <1>2, SessionFields DEF HookTyped
<1>9. /\ pushed' \in [NativeSessions -> SUBSET Memories] /\ g.memories \subseteq pushed'[s]
      /\ \A q \in NativeSessions : pushed[q] \subseteq pushed'[q]
  BY <1>1, <1>3, <1>5, <1>6, <1>8
<1>10. g.shim = "waiting" => Waits(c) /\ New(Handed(s), g)
  <2> SUFFICES ASSUME Waits(c) PROVE New(Handed(s), g)
    BY <1>6 DEF Waits
  <2>1. Handed(s) \subseteq calls[c].already /\ calls[c].already \in SUBSET Memories
    BY <1>1, <1>2, <1>3, CallFields DEF HookInv, BringsNew, New
  <2>2. Handed(s) \cap chosen = {} /\ Cardinality(Handed(s) \cup chosen) <= SessionCap
    BY <2>1, HandedFits, ChosenFits
  <2> QED
    BY <1>6, <2>2 DEF New
<1> QED
  BY <1>1, <1>3, <1>4, <1>6, <1>7, <1>9, <1>10, CallSteps

(* An error, or an orientation, brings no memory.                           *)
LEMMA ReplyingSteps ==
  ASSUME HookInv, NEW c \in Ids, NEW g \in CallState, calls' = [calls EXCEPT ![c] = g],
         g.at = "replying", g.session = calls[c].session, g.shim = calls[c].shim,
         g.memories = calls[c].memories, g.sent = calls[c].sent,
         UNCHANGED <<pushed, received, ended, endJobs, deliveries, receipts>>
  PROVE  HookInv'
<1>1. calls[c] \in CallState /\ HookTyped
  BY CallFields DEF HookInv
<1>2. PICK s \in NativeSessions : s = calls[c].session
  BY <1>1, CallFields
<1>3. g.shim = "waiting" => Waits(c) /\ New(Handed(s), g)
  BY <1>2 DEF HookInv, BringsNew, Waits, New
<1>4. /\ g.memories \subseteq pushed'[s] /\ pushed' \in [NativeSessions -> SUBSET Memories]
      /\ \A q \in NativeSessions : pushed[q] \subseteq pushed'[q]
  BY <1>1, <1>2 DEF HookInv, HandedRecorded, HookTyped
<1> QED
  BY <1>2, <1>3, <1>4, CallSteps

LEMMA AnswerSteps == HookInv /\ (FailPush \/ Orient) => HookInv'
<1> SUFFICES ASSUME HookInv, FailPush \/ Orient PROVE HookInv'
  OBVIOUS
<1>1. UNCHANGED <<pushed, received, ended, endJobs, deliveries, receipts>>
  BY DEF FailPush, Orient, Decide, Records
<1>2. CASE FailPush
  <2>1. PICK c \in Ids : calls' = [calls EXCEPT ![c].at = "replying", ![c].already = {}]
    BY <1>2 DEF FailPush
  <2> DEFINE g == [calls[c] EXCEPT !.at = "replying", !.already = {}]
  <2>2. calls' = [calls EXCEPT ![c] = g]
    BY <2>1
  <2>3. calls[c] \in CallState
    BY CallFields DEF HookInv
  <2>4. /\ g \in CallState /\ g.at = "replying" /\ g.session = calls[c].session
        /\ g.shim = calls[c].shim /\ g.memories = calls[c].memories /\ g.sent = calls[c].sent
    BY <2>3 DEF CallState
  <2> HIDE DEF g
  <2> QED BY <1>1, <2>2, <2>4, ReplyingSteps
<1>3. CASE Orient
  <2>1. PICK c \in Ids, outcome \in {"Delivered", "HealthySilence", "Failed"} :
          calls' = [calls EXCEPT ![c].at = "replying", ![c].text = (outcome = "Delivered")]
    BY <1>3 DEF Orient
  <2> DEFINE text == (outcome = "Delivered")
             g == [calls[c] EXCEPT !.at = "replying", !.text = text]
  <2>2. calls' = [calls EXCEPT ![c] = g] /\ text \in BOOLEAN
    BY <2>1
  <2>3. calls[c] \in CallState
    BY CallFields DEF HookInv
  <2> HIDE DEF text
  <2>4. /\ g \in CallState /\ g.at = "replying" /\ g.session = calls[c].session
        /\ g.shim = calls[c].shim /\ g.memories = calls[c].memories /\ g.sent = calls[c].sent
    BY <2>2, <2>3 DEF CallState
  <2> HIDE DEF g
  <2> QED BY <1>1, <2>2, <2>4, ReplyingSteps
<1> QED BY <1>2, <1>3

LEMMA EndSteps == HookInv /\ (Receive \/ AppendEnd \/ EnqueueEnd \/ Warn) => HookInv'
<1> SUFFICES ASSUME HookInv, Receive \/ AppendEnd \/ EnqueueEnd \/ Warn PROVE HookInv'
  OBVIOUS
<1>1. UNCHANGED <<pushed, received, deliveries>>
  BY DEF Receive, AppendEnd, EnqueueEnd, Warn, Records
<1>2. \A r \in receipts' : r \in receipts \/ r.stage # "ReplyFlushed"
  BY DEF Receive, AppendEnd, EnqueueEnd, Warn, Records
<1>3. CASE Receive
  BY <1>1, <1>2, <1>3, MovedSteps DEF Receive
<1>4. CASE AppendEnd
  <2>1. PICK c \in Ids :
          /\ ended' = ended \cup {calls[c].session}
          /\ calls' = Moved(c, IF calls[c].session \in ended THEN "replying" ELSE "appended")
    BY <1>4 DEF AppendEnd
  <2>2. endJobs' = endJobs
    BY <1>4 DEF AppendEnd
  <2>3. CASE calls[c].session \in ended
    BY <1>1, <1>2, <2>1, <2>2, <2>3, MovedSteps
  <2>4. CASE calls[c].session \notin ended
    BY <1>1, <1>2, <2>1, <2>2, <2>4, MovedSteps
  <2> QED BY <2>3, <2>4
<1>5. CASE EnqueueEnd
  <2>1. PICK c \in Ids :
          /\ calls[c].at = "appended"
          /\ endJobs' = [endJobs EXCEPT ![calls[c].session] = @ + 1]
          /\ calls' = Moved(c, "replying")
    BY <1>5 DEF EnqueueEnd
  <2>2. ended' = ended
    BY <1>5 DEF EnqueueEnd
  <2> QED BY <1>1, <1>2, <2>1, <2>2, MovedSteps
<1>6. CASE Warn
  BY <1>1, <1>2, <1>6, MovedSteps DEF Warn
<1> QED BY <1>3, <1>4, <1>5, <1>6

LEMMA DroppedFields ==
  ASSUME NEW call \in CallState
  PROVE  /\ Dropped(call) \in CallState /\ Dropped(call).at = "dropped"
         /\ Dropped(call).session = call.session /\ Dropped(call).shim = call.shim
         /\ Dropped(call).memories = {} /\ Dropped(call).sent = call.sent
  BY DEF Dropped, CallState

(* The reply is sent to a shim that waits, and counted afterwards.          *)
LEMMA ReplySteps == HookInv /\ (WriteReply \/ CountDelivery) => HookInv'
<1> SUFFICES ASSUME HookInv, WriteReply \/ CountDelivery PROVE HookInv'
  OBVIOUS
<1>1. UNCHANGED <<pushed, received, ended, endJobs>>
  BY DEF WriteReply, CountDelivery
<1>2. CASE WriteReply
  <2>1. PICK c \in Ids :
          /\ calls[c].at = "replying"
          /\ calls' = IF calls[c].shim = "waiting"
                      THEN [calls EXCEPT ![c].at = "flushed", ![c].sent = TRUE]
                      ELSE [calls EXCEPT ![c] = Dropped(@)]
    BY <1>2 DEF WriteReply
  <2>2. calls[c] \in CallState /\ HookTyped
    BY CallFields DEF HookInv
  <2>3. PICK s \in NativeSessions : s = calls[c].session
    BY <2>2, CallFields
  <2>4. pushed' \in [NativeSessions -> SUBSET Memories] /\ calls[c].memories \subseteq pushed'[s]
    BY <1>1, <2>2, <2>3 DEF HookInv, HandedRecorded, HookTyped
  <2>5. \A q \in NativeSessions : pushed[q] \subseteq pushed'[q]
    BY <1>1
  <2>6. UNCHANGED <<deliveries, receipts>>
    BY <1>2 DEF WriteReply
  <2>7. CASE calls[c].shim = "waiting"
    <3> DEFINE g == [calls[c] EXCEPT !.at = "flushed", !.sent = TRUE]
    <3>1. calls' = [calls EXCEPT ![c] = g]
      BY <2>1, <2>7
    <3>2. /\ g \in CallState /\ g.at = "flushed" /\ g.session = s /\ g.shim = calls[c].shim
          /\ g.memories = calls[c].memories /\ g.sent
      BY <2>2, <2>3 DEF CallState
    <3> HIDE DEF g
    <3>3. g.shim = "waiting" => Waits(c) /\ New(Handed(s), g)
      BY <2>3, <3>2 DEF HookInv, BringsNew, Waits, New
    <3> QED
      BY <1>1, <2>3, <2>4, <2>5, <2>6, <3>1, <3>2, <3>3, CallSteps
  <2>8. CASE calls[c].shim # "waiting"
    <3> DEFINE g == Dropped(calls[c])
    <3>1. calls' = [calls EXCEPT ![c] = g]
      BY <2>1, <2>8
    <3>2. /\ g \in CallState /\ g.at = "dropped" /\ g.session = s /\ g.shim # "waiting"
          /\ g.memories = {} /\ g.sent = calls[c].sent
      BY <2>2, <2>3, <2>8, DroppedFields
    <3> HIDE DEF g
    <3>3. g.memories \subseteq pushed'[s]
      BY <3>2
    <3> QED
      BY <1>1, <2>3, <2>4, <2>5, <2>6, <3>1, <3>2, <3>3, CallSteps
  <2> QED BY <2>7, <2>8
<1>3. CASE CountDelivery
  <2>1. PICK c \in Ids :
          /\ calls[c].at = "flushed" /\ calls' = Moved(c, "counted")
          /\ \A d \in deliveries' : d \in deliveries \/ d = c
          /\ \A r \in receipts' : r \in receipts \/ r.call = c
    BY <1>3 DEF CountDelivery, Countable
  <2>2. calls[c].sent
    BY <2>1 DEF HookInv, SentFirst
  <2> QED BY <1>1, <2>1, <2>2, MovedSteps
<1> QED BY <1>2, <1>3

(* The service stops: its requests are dropped, and hand nothing over.      *)
LEMMA StopServiceStep == HookInv /\ StopService => HookInv'
<1> SUFFICES ASSUME HookInv, StopService PROVE HookInv'
  OBVIOUS
<1>1. UNCHANGED <<pushed, received, ended, endJobs, deliveries, receipts>>
  BY DEF StopService
<1>2. /\ Ids' = Ids
      /\ \A c \in Ids : \/ calls'[c] = calls[c] /\ calls[c].at \in {"unsent", "counted"}
                        \/ calls'[c] = Dropped(calls[c])
  BY DEF StopService, Ids
<1>3. ASSUME NEW c \in Ids
      PROVE  /\ calls'[c] \in CallState /\ calls'[c].session = calls[c].session
             /\ calls'[c].shim = calls[c].shim /\ calls'[c].sent = calls[c].sent
             /\ calls'[c].at \notin {"searching", "appended", "flushed"}
             /\ calls'[c].memories \in {{}, calls[c].memories}
             /\ calls[c].session \in NativeSessions
  BY <1>2, CallFields, DroppedFields DEF HookInv
<1>4. HookTyped'
  <2>1. PICK n \in Nat : calls \in [1..n -> CallState]
    BY DEF HookInv, HookTyped
  <2>2. calls' = [c \in 1..n |-> calls'[c]]
    BY <2>1 DEF StopService, Ids
  <2>3. calls' \in [1..n -> CallState]
    BY <1>3, <2>1, <2>2 DEF Ids
  <2> QED BY <1>1, <2>3 DEF HookInv, HookTyped
<1>5. OneWaits'
  BY <1>2, <1>3 DEF HookInv, OneWaits, Waits
<1>6. HandedRecorded'
  BY <1>1, <1>2, <1>3 DEF HookInv, HandedRecorded, Handed
<1>7. BringsNew'
  <2> SUFFICES ASSUME NEW c \in Ids, Waits(c)'
               PROVE  New(Handed(calls[c].session), calls[c])'
    BY <1>2 DEF BringsNew
  <2>1. Waits(c) /\ New(Handed(calls[c].session), calls[c])
    BY <1>3 DEF HookInv, BringsNew, Waits
  <2>2. Cardinality(Handed(calls[c].session)) <= SessionCap
    BY <1>3, HandedFits
  <2>3. New(Handed(calls[c].session), calls'[c])
    BY <1>3, <2>1, <2>2 DEF New
  <2> QED BY <1>1, <1>3, <2>3 DEF Handed
<1>8. EndOnce'
  BY <1>1, <1>2, <1>3 DEF HookInv, EndOnce
<1>9. SentFirst'
  BY <1>1, <1>2, <1>3 DEF HookInv, SentFirst
<1> QED
  BY <1>1, <1>4, <1>5, <1>6, <1>7, <1>8, <1>9 DEF HookInv, PushedOnce

(* A session runs the next hook when it waits for no other.                 *)
LEMMA InvokeStep == HookInv /\ Invoke => HookInv'
<1> SUFFICES ASSUME HookInv, Invoke PROVE HookInv'
  OBVIOUS
<1>1. PICK n \in Nat : calls \in [1..n -> CallState]
  BY DEF HookInv, HookTyped
<1>2. Ids = 1..n /\ Cardinality(Ids) = n
  <2>1. Ids = 1..n
    BY <1>1 DEF Ids
  <2>2. Cardinality(1..n) = n
    BY FS_Interval
  <2> QED BY <2>1, <2>2
<1>3. PICK s \in NativeSessions, event \in Events :
        /\ \A c \in Ids : calls[c].session = s => calls[c].shim # "waiting"
        /\ calls' = [c \in 1..(n + 1) |-> IF c \in Ids THEN calls[c] ELSE Call(s, event)]
  BY <1>2 DEF Invoke
<1> DEFINE g == Call(s, event)
<1>4. /\ g \in CallState /\ g.session = s /\ g.at = "unsent" /\ g.memories = {}
  BY DEF Call, CallState
<1> HIDE DEF g
<1>5. /\ Ids' = 1..(n + 1) /\ Ids' = Ids \cup {n + 1} /\ n + 1 \notin Ids
      /\ calls'[n + 1] = g /\ \A c \in Ids : calls'[c] = calls[c]
  BY <1>2, <1>3 DEF Ids, g
<1>6. UNCHANGED <<pushed, received, ended, endJobs, deliveries, receipts>>
  BY DEF Invoke
<1>7. HookTyped'
  <2>1. \A c \in 1..(n + 1) : calls'[c] \in CallState
    BY <1>1, <1>2, <1>4, <1>5
  <2>2. n + 1 \in Nat /\ calls' \in [1..(n + 1) -> CallState]
    BY <1>3, <2>1
  <2> QED BY <1>6, <2>2 DEF HookInv, HookTyped
<1>8. \A c \in Ids : calls[c].session \in NativeSessions
  BY CallFields DEF HookInv
<1>9. OneWaits'
  BY <1>3, <1>4, <1>5 DEF HookInv, OneWaits, Waits
<1>10. HandedRecorded'
  BY <1>4, <1>5, <1>6 DEF HookInv, HandedRecorded, Handed
<1>11. BringsNew'
  <2> SUFFICES ASSUME NEW c \in Ids', Waits(c)'
               PROVE  New(Handed(calls[c].session), calls[c])'
    BY DEF BringsNew
  <2>1. CASE c \in Ids
    BY <1>5, <1>6, <2>1 DEF HookInv, BringsNew, Waits, Handed
  <2>2. CASE c = n + 1
    <3>1. Cardinality(Handed(s)) <= SessionCap
      BY HandedFits
    <3>2. New(Handed(s), g)
      BY <1>4, <3>1 DEF New
    <3> QED BY <1>4, <1>5, <1>6, <2>2, <3>2 DEF Handed
  <2> QED BY <1>5, <2>1, <2>2
<1>12. EndOnce'
  BY <1>4, <1>5, <1>6 DEF HookInv, EndOnce
<1>13. SentFirst'
  BY <1>4, <1>5, <1>6 DEF HookInv, SentFirst
<1> QED
  BY <1>6, <1>7, <1>9, <1>10, <1>11, <1>12, <1>13 DEF HookInv, PushedOnce

LEMMA HookIdle ==
  ASSUME HookInv, UNCHANGED <<calls, pushed, received, ended, endJobs, deliveries, receipts>>
  PROVE  HookInv'
  BY DEF HookInv, HookTyped, OneWaits, HandedRecorded, BringsNew, EndOnce, SentFirst, PushedOnce,
         Waits, Handed, Ids

LEMMA HookNext_Inv == HookInv /\ [DeliveryNext]_hookVars => HookInv'
<1> SUFFICES ASSUME HookInv, [DeliveryNext]_hookVars PROVE HookInv'
  OBVIOUS
<1>1. CASE StartService \/ UNCHANGED hookVars
  BY <1>1, HookIdle DEF StartService, hookVars
<1> QED
  BY <1>1, InvokeStep, ShimSteps, ReadReplyStep, EndSteps, ReadPushedStep, PushStep, AnswerSteps,
     ReplySteps, StopServiceStep DEF DeliveryNext

(* No memory is handed twice to a session, nor more than its cap, whichever *)
(* prompts the shim gives up on and the service still answers; a session's  *)
(* end is queued at most once; and what is counted as delivered was sent.   *)
(* For any sessions, memories, caps, calls and faults.                      *)
THEOREM HooksStaySound == HookSpec => []HooksSound
<1>1. HookInv => HooksSound
  <2> SUFFICES ASSUME HookInv PROVE HooksSound
    OBVIOUS
  <2>1. EndQueuedOnce
    BY DEF HookInv, EndOnce, EndQueuedOnce
  <2>2. DeliveredWasSent
    <3> DEFINE sent == {c \in Ids : calls[c].sent}
    <3>1. deliveries \subseteq sent
      BY DEF HookInv, SentFirst
    <3>2. ASSUME NEW s \in NativeSessions, NEW e \in Events,
                 ChannelStatus(s, e) \in {"Delivered", "HealthySilence"}
          PROVE  Channel(s, e) \cap sent # {}
      <4>1. HasReceipt(Channel(s, e), "ReplyFlushed")
        BY <3>2 DEF ChannelStatus
      <4>2. PICK r \in receipts : r.call \in Channel(s, e) /\ r.stage = "ReplyFlushed"
        BY <4>1 DEF HasReceipt
      <4>3. r.call \in sent
        BY <4>2 DEF HookInv, SentFirst
      <4> QED BY <4>2, <4>3
    <3> QED BY <3>1, <3>2 DEF DeliveredWasSent
  <2> QED
    BY <2>1, <2>2 DEF HookInv, HooksSound
<1> QED
  BY <1>1, HookInit_Inv, HookNext_Inv, PTL DEF HookSpec
=============================================================================
