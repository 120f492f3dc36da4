------------------------------- MODULE Retrieval -------------------------------
(***************************************************************************)
(* Search over one connection of a ledger (brain-store search.rs): the     *)
(* keyword channels, the vector channel, an expanded second pass and the   *)
(* evidence graph, fused by reciprocal rank, with a cache of answers that  *)
(* PRAGMA data_version guards.  Every channel is a statement of its own,   *)
(* and other connections commit between them.                              *)
(***************************************************************************)
EXTENDS Integers, FiniteSets, Sequences, SequencesExt, FiniteSetsExt

CONSTANTS
  Events,        \* events, numbered in the order they happened
  Claims,        \* memory versions, numbered likewise
  Corpora,       \* what the words may say: see corpus
  Limits,        \* limits a caller may ask for
  FusionDepth,   \* FUSION_DEPTH
  PerSession,    \* MAX_HITS_PER_SESSION
  MaxCommits,    \* bound: commits, of this connection and of others
  MaxSearches,   \* bound: searches
  NoAnswer

(* A document has one place in the order of what happened, and no kind but *)
(* its own; no statement returns a row twice.                              *)
ASSUME DocumentsAssumption ==
  /\ Events \subseteq Nat /\ IsFiniteSet(Events)
  /\ Claims \subseteq Nat /\ IsFiniteSet(Claims)
  /\ Events \cap Claims = {}

ASSUME LimitsAssumption ==
  /\ Limits \subseteq Nat \ {0} /\ FusionDepth \in Nat \ {0} /\ PerSession \in Nat \ {0}
  /\ MaxCommits \in Nat /\ MaxSearches \in Nat

ASSUME CorporaAssumption ==
  \A words \in Corpora : \A list \in {words.plain, words.expanded, words.meaning} :
    /\ list \in Seq(Events \cup Claims)
    /\ \A i, j \in DOMAIN list : list[i] = list[j] => i = j

VARIABLES
  corpus,    \* what the words asked for match (plain), and those the first hits add
             \* (expanded), and what is similar (meaning; nothing without a model), best
             \* first; and which claim cites which event (cites)
  visible,   \* documents a search may return
  embedded,  \* documents with a vector
  version,   \* PRAGMA data_version, as this connection sees it
  cached,    \* search_cache: the version it is of, and its answers
  search,    \* the search that runs
  answer,    \* the last answer
  commits, searches

searchVars == <<corpus, visible, embedded, version, cached, search, answer, commits, searches>>

----------------------------------------------------------------------------
Documents == Events \cup Claims

Queries == [expand: BOOLEAN, limit: Limits]

(* Weights of the channels, and reciprocal rank in fixed point.            *)
Keyword == 4
Vector == 6
Expansion == 3
Graph == 2

Reciprocal(weight, rank) == (weight * 10000000) \div (60 + rank)

Cut(hits, n) == SubSeq(hits, 1, Min({n, Len(hits)}))

(* A set in the order that ahead says: what goes before each element.       *)
Ordered(S, ahead) ==
  LET placed == {<<Cardinality(ahead[d]) + 1, d>> : d \in S}
  IN [k \in 1..Cardinality(S) |-> (CHOOSE p \in placed : p[1] = k)[2]]

(* What a list has at some of its places, as it has them.                  *)
Picked(hits, places) ==
  LET kept == Ordered(places, [i \in places |-> {j \in places : j < i}])
  IN [k \in DOMAIN kept |-> hits[kept[k]]]

(* search_events and search_memories: what is visible of a kind, best      *)
(* match first.                                                            *)
Matches(order, kind, shown, depth) ==
  Cut(Picked(order, {i \in DOMAIN order : order[i] \in kind \cap shown}), depth)

Depth(limit) == IF corpus.meaning = <<>> THEN limit ELSE Max({FusionDepth, limit})

Channel(weight, hits) == [weight |-> weight, hits |-> hits]

PlaceOf(d, hits) == CHOOSE i \in DOMAIN hits : hits[i] = d

Score(channels, d) ==
  MapThenSumSet(LAMBDA i : Reciprocal(channels[i].weight, PlaceOf(d, channels[i].hits)),
                {i \in DOMAIN channels : d \in ToSet(channels[i].hits)})

(* fuse: by score, then the later first.                                   *)
Fuse(channels) ==
  LET found == UNION {ToSet(channels[i].hits) : i \in DOMAIN channels}
      better(a, b) == \/ Score(channels, a) > Score(channels, b)
                      \/ Score(channels, a) = Score(channels, b) /\ a > b
  IN Ordered(found, [d \in found |-> {e \in found : better(e, d)}])

LatestFirst(documents) == Ordered(documents, [d \in documents |-> {e \in documents : e > d}])

(* expand_by_evidence: the events that ranked claims cite and the claims   *)
(* that cite ranked events, the latest first.                              *)
Linked(seeds, shown) ==
  LatestFirst({d \in shown \ ToSet(seeds) :
    \E s \in ToSet(seeds) : <<s, d>> \in corpus.cites \/ <<d, s>> \in corpus.cites})

(* diversify_by_session: what a session has beyond its share goes to the   *)
(* end.  The events are one session's, and claims have none.               *)
Diversify(hits) ==
  LET share(i) == Cardinality({j \in 1..i : hits[j] \in Events})
      within == {i \in DOMAIN hits : hits[i] \in Claims \/ share(i) <= PerSession}
  IN Picked(hits, within) \o Picked(hits, DOMAIN hits \ within)

(* The expanded pass is one channel: its events, then its memories.        *)
ExpandedHits(shown, depth) ==
  Matches(corpus.expanded, Events, shown, depth) \o Matches(corpus.expanded, Claims, shown, depth)

Added(weight, hits) == IF hits = <<>> THEN <<>> ELSE <<Channel(weight, hits)>>

\* Mutant: events and memories are ranked as one list.
AskedTogether(byEvents, byClaims) == <<Channel(Keyword, byEvents \o byClaims)>>

(* Events and memories are separate channels: their scores do not compare. *)
Asked(byEvents, byClaims) == <<Channel(Keyword, byEvents), Channel(Keyword, byClaims)>>

(* ranked_hits, from the two keyword channels and the vector channel on.   *)
Ranked(query, byEvents, byClaims, byMeaning, shown) ==
  LET asked == Asked(byEvents, byClaims) \o Added(Vector, byMeaning)
      widened == asked \o IF query.expand /\ Fuse(asked) # <<>>
                          THEN Added(Expansion, ExpandedHits(shown, Depth(query.limit))) ELSE <<>>
      all == widened \o Added(Graph, Linked(Fuse(widened), shown))
  IN Cut(Diversify(Fuse(all)), query.limit)

(* What a search of everything as it is now comes to.                      *)
Whole(query, shown, vectors) ==
  Ranked(query, Matches(corpus.plain, Events, shown, Depth(query.limit)),
         Matches(corpus.plain, Claims, shown, Depth(query.limit)),
         Matches(corpus.meaning, Documents, shown \cap vectors, Depth(query.limit)), shown)

----------------------------------------------------------------------------
NoSearch == [at |-> "none", query |-> NoAnswer, byEvents |-> <<>>, byClaims |-> <<>>,
             byMeaning |-> <<>>, quiet |-> TRUE]

(* quiet: no other connection committed while the search ran.              *)
Answer(query, hits, quiet) ==
  [query |-> query, hits |-> hits, quiet |-> quiet, visible |-> visible, embedded |-> embedded]

(* A cache of another version is cleared; what it holds answers.           *)
Valid(held, current) == held.version = current

Consulted == IF Valid(cached, version) THEN cached ELSE [version |-> version, answers |-> << >>]

Search ==
  /\ search = NoSearch /\ searches < MaxSearches /\ searches' = searches + 1
  /\ cached' = Consulted
  /\ \E query \in Queries :
       IF query \in DOMAIN Consulted.answers
       THEN /\ answer' = Answer(query, Consulted.answers[query], TRUE)
            /\ UNCHANGED search
       ELSE /\ search' = [NoSearch EXCEPT !.at = "events", !.query = query]
            /\ UNCHANGED answer
  /\ UNCHANGED <<corpus, visible, embedded, version, commits>>

SearchEvents ==
  /\ search.at = "events"
  /\ search' = [search EXCEPT !.at = "memories",
       !.byEvents = Matches(corpus.plain, Events, visible, Depth(search.query.limit))]
  /\ UNCHANGED <<corpus, visible, embedded, version, cached, answer, commits, searches>>

SearchMemories ==
  /\ search.at = "memories"
  /\ search' = [search EXCEPT !.at = "vectors",
       !.byClaims = Matches(corpus.plain, Claims, visible, Depth(search.query.limit))]
  /\ UNCHANGED <<corpus, visible, embedded, version, cached, answer, commits, searches>>

(* A query that cannot be encoded is searched by its words alone.          *)
VectorChannel ==
  /\ search.at = "vectors"
  /\ \E vectors \in {embedded, {}} :
       search' = [search EXCEPT !.at = "rank",
         !.byMeaning = Matches(corpus.meaning, Documents, visible \cap vectors,
                               Depth(search.query.limit))]
  /\ UNCHANGED <<corpus, visible, embedded, version, cached, answer, commits, searches>>

(* The answer is kept under the version the search began with.             *)
Keep(query, hits) ==
  [cached EXCEPT !.answers = [q \in DOMAIN @ \cup {query} |-> IF q = query THEN hits ELSE @[q]]]

FinishSearch ==
  /\ search.at = "rank"
  /\ LET hits == Ranked(search.query, search.byEvents, search.byClaims, search.byMeaning, visible)
     IN /\ cached' = Keep(search.query, hits)
        /\ answer' = Answer(search.query, hits, search.quiet)
  /\ search' = NoSearch
  /\ UNCHANGED <<corpus, visible, embedded, version, commits, searches>>

----------------------------------------------------------------------------
(* A write: a document stored, or a memory withdrawn.                      *)
Write ==
  /\ commits < MaxCommits /\ commits' = commits + 1
  /\ \/ \E d \in Documents \ visible : visible' = visible \cup {d}
     \/ \E d \in Claims \cap visible : visible' = visible \ {d}

(* As Cleared, by a write that leaves the cache to data_version.           *)
ClearedByVersion == cached

(* This connection's own commits leave data_version as it is: append_batch, *)
(* append_memory and redact_memory clear the cache themselves.             *)
Cleared == [cached EXCEPT !.answers = << >>]

WriteHere ==
  /\ search = NoSearch
  /\ Write /\ cached' = Cleared
  /\ UNCHANGED <<corpus, embedded, version, search, answer, searches>>

(* Another connection commits, also the one that stores embeddings.        *)
WriteElsewhere ==
  /\ \/ Write /\ UNCHANGED embedded
     \/ /\ commits < MaxCommits /\ commits' = commits + 1
        /\ \E d \in visible \ embedded : embedded' = embedded \cup {d}
        /\ UNCHANGED visible
  /\ version' = version + 1
  /\ search' = [search EXCEPT !.quiet = (search = NoSearch)]
  /\ UNCHANGED <<corpus, cached, answer, searches>>

SearchInit ==
  /\ corpus \in Corpora
  /\ visible \in {{}, Documents} /\ embedded = {}
  /\ version = 0 /\ cached = [version |-> 0, answers |-> << >>]
  /\ search = NoSearch /\ answer = NoAnswer
  /\ commits = 0 /\ searches = 0

SearchNext ==
  Search \/ SearchEvents \/ SearchMemories \/ VectorChannel \/ FinishSearch \/ WriteHere \/ WriteElsewhere

SearchSpec == SearchInit /\ [][SearchNext]_searchVars

----------------------------------------------------------------------------
(* An answer given while no other connection commits, from the cache or    *)
(* not, is what a search of the ledger as it is then comes to, with its    *)
(* vectors or with its words alone; nothing the ledger withdrew or         *)
(* superseded comes back out of the cache.                                 *)
AnswersAreCurrent ==
  answer # NoAnswer /\ answer.quiet =>
    \E vectors \in {answer.embedded, {}} :
      answer.hits = Whole(answer.query, answer.visible, vectors)

(* "Ranked separately and fused by rank, the best memory and the best      *)
(* event both surface" (search.rs:405-406): in the answer of the words     *)
(* alone, whatever the graph adds, where the limit has room for both.      *)
BestOfBoth ==
  /\ answer # NoAnswer /\ corpus.meaning = <<>>
  /\ answer.quiet /\ ~answer.query.expand /\ answer.query.limit >= 2
  => \A kind \in {Events, Claims} :
       ToSet(Matches(corpus.plain, kind, answer.visible, 1)) \subseteq ToSet(answer.hits)

============================================================================
