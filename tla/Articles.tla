------------------------------- MODULE Articles -------------------------------
(***************************************************************************)
(* The article store and the workers that fill it: the cleaning worker     *)
(* (run_worker.py, articles.py, dedup.py), the embedding worker            *)
(* (run_embedding_worker.py, embeddings.py) and the LLM worker             *)
(* (run_llm_worker.py, llm/persist.py).                                    *)
(*                                                                         *)
(* The three streams between them are what WorkQueue promises and          *)
(* StreamQueue implements: messages that stay until a worker has finished  *)
(* with them, in no particular order, and that may be handed to a second   *)
(* worker.  A text is what content_hash and simhash are computed from; how *)
(* close two texts are is a relation.  Texts that clean_extracted rejects  *)
(* are acknowledged at once and do not appear here.                        *)
(***************************************************************************)
EXTENDS Integers, Sequences, FiniteSets

CONSTANTS
    Urls,        \* canonical URLs
    Texts,       \* the texts a page can show
    None,
    Near,        \* pairs of texts whose simhashes differ in at most three bits
    Gray,        \* pairs of texts whose simhashes differ in four to six bits
    Similar,     \* pairs of texts whose vectors reach the cosine threshold
    Summarized,  \* texts that bring the publisher's summary with them
    English,     \* URLs whose article is in English
    Cleaners, Embedders, Analysts,   \* the worker processes
    MaxAttempts, \* how often a message is tried before it is a dead letter
    MaxFetches,  \* bound: how many changed pages the crawler enqueues
    MaxMishaps   \* bound: deaths of workers, exceptions other than a conflict, and
                 \* messages that a second worker is given while the first is at them

ASSUME ArticlesAssumption ==
    /\ None \notin Urls \cup Texts
    /\ Near \subseteq Texts \X Texts
    /\ Gray \subseteq Texts \X Texts
    /\ Similar \subseteq Texts \X Texts
    /\ Summarized \subseteq Texts
    /\ English \subseteq Urls
    /\ MaxAttempts \in Nat \ {0}
    /\ MaxFetches \in Nat /\ MaxMishaps \in Nat

VARIABLES
    hash,      \* crawl_urls.content_hash of each URL
    fetches,   \* how many changed pages were enqueued
    cleaning,  \* processing:cleaning
    llm,       \* processing:llm
    embed,     \* processing:embedding
    articles,  \* the articles row of each canonical URL
    versions,  \* its article_versions rows, by version
    page,      \* the page each cleaner is at
    encoding,  \* the article each embedder is at
    analysis,  \* the article each analyst is at
    deadPages, deadRequests,  \* dead letters of the cleaning and the embedding worker
    lost,      \* pages acknowledged by a retry that the worker did not live to enqueue
    cut,       \* versions that were committed but not fanned out, or not for good
    crossed,   \* articles that two embedders were at at the same time
    mishaps    \* how many of MaxMishaps have happened

vars == <<hash, fetches, cleaning, llm, embed, articles, versions, page, encoding,
          analysis, deadPages, deadRequests, lost, cut, crossed, mishaps>>
streamVars == <<cleaning, llm, embed>>
workerVars == <<page, encoding, analysis>>
letterVars == <<deadPages, deadRequests, lost>>
mishapVars == <<letterVars, cut, crossed, mishaps>>

-----------------------------------------------------------------------------
\* Two copies of an attempt, which StreamQueue tells apart, are one message here.
Pages    == [url : Urls, text : Texts, fetch : 1 .. MaxFetches, attempt : 1 .. MaxAttempts]
Requests == [url : Urls, version : Nat \ {0}, deferred : BOOLEAN, attempt : 1 .. MaxAttempts]
Article  == [text : Texts \cup {None}, version : Nat, summary : BOOLEAN,
             analysed : BOOLEAN, vector : Texts \cup {None},
             original : Urls \cup {None}]
Outcomes == {"created", "updated", "unchanged", "duplicate"}

\* What a cleaner, an embedder and an analyst have in hand.
PageType == [msg : Pages, outcome : Outcomes, base : Nat, summary : BOOLEAN,
             at : {"persist", "llm", "embed", "ack"}]
EncodingType == [msg : Requests, text : Texts, marked : BOOLEAN, at : {"encode", "judge"}]
AnalysisType == [msg : Requests, summary : BOOLEAN]

ASSUME NoneAssumption == None \notin PageType \cup EncodingType

NoArticle == [text |-> None, version |-> 0, summary |-> FALSE, analysed |-> FALSE,
              vector |-> None, original |-> None]
Stored(u) == articles[u].text # None
StoredUrls == {u \in Urls : Stored(u)}

Init ==
    /\ hash = [u \in Urls |-> None] /\ fetches = 0
    /\ cleaning = {} /\ llm = {} /\ embed = {}
    /\ articles = [u \in Urls |-> NoArticle]
    /\ versions = [u \in Urls |-> <<>>]
    /\ page = [w \in Cleaners |-> None]
    /\ encoding = [e \in Embedders |-> None]
    /\ analysis = [a \in Analysts |-> None]
    /\ deadPages = {} /\ deadRequests = {} /\ lost = {}
    /\ cut = {} /\ crossed = {} /\ mishaps = 0

Mishap == mishaps < MaxMishaps /\ mishaps' = mishaps + 1

\* FrontierUpdatePipeline: a page is enqueued when its content hash has changed.
Fetch(u, text) ==
    /\ fetches < MaxFetches
    /\ hash[u] # text
    /\ hash' = [hash EXCEPT ![u] = text]
    /\ fetches' = fetches + 1
    /\ cleaning' = cleaning \cup
                     {[url |-> u, text |-> text, fetch |-> fetches + 1, attempt |-> 1]}
    /\ UNCHANGED <<llm, embed, articles, versions, workerVars, mishapVars>>

-----------------------------------------------------------------------------
(* find_duplicate: the articles it can answer with.  Near duplicates are only *)
(* looked for when no article has the same text, gray ones when none is near. *)
Exact(text, others)    == {v \in others : articles[v].text = text}
Within(pairs, text, others) == {v \in others : <<text, articles[v].text>> \in pairs}
FindDuplicate(text, others) ==
    IF Exact(text, others) # {} THEN Exact(text, others) ELSE Within(Near, text, others)

\* The cleaning worker reads the row and decides ...
OutcomeOf(u, text) ==
    IF Stored(u) THEN IF articles[u].text = text THEN "unchanged" ELSE "updated"
    ELSE IF FindDuplicate(text, StoredUrls) # {} THEN "duplicate" ELSE "created"

\* A worker is at the message; pending for long enough it is given to a second one.
Held(worker, m) == \E v \in DOMAIN worker : worker[v] # None /\ worker[v].msg = m
GivenOut(worker, m) == IF Held(worker, m) THEN Mishap ELSE UNCHANGED mishaps

ReadPage(w, m) ==
    /\ page[w] = None
    /\ GivenOut(page, m)
    /\ page' = [page EXCEPT ![w] =
                  [msg |-> m, outcome |-> OutcomeOf(m.url, m.text),
                   base |-> articles[m.url].version, summary |-> articles[m.url].summary,
                   at |-> "persist"]]
    /\ UNCHANGED <<hash, fetches, streamVars, articles, versions, encoding, analysis,
                   letterVars, cut, crossed>>

\* ... and commits.  What another worker committed since then shows in the unique
\* keys: canonical_url, and (article_id, version).
Conflict(p) ==
    /\ p.outcome \in {"created", "updated"}
    /\ articles[p.msg.url].version # p.base

\* Only the columns that the page changes are written: a summary that the analyst
\* added since the row was read stays when the page has none either.
SummaryAfter(p, summary) ==
    LET brought == p.msg.text \in Summarized
    IN  IF brought = p.summary THEN summary ELSE brought

\* Mutant of Persist: the versions are not unique, the last writer wins.
PersistOver(w) ==
    LET p == page[w]
        u == p.msg.url
        writes == p.outcome \in {"created", "updated"}
    IN  /\ p # None /\ p.at = "persist"
        /\ page' = [page EXCEPT ![w].at = IF writes THEN "llm" ELSE "ack"]
        /\ articles' = IF ~writes THEN articles
                       ELSE [articles EXCEPT ![u].text = p.msg.text,
                               ![u].version = p.base + 1,
                               ![u].summary = SummaryAfter(p, @)]
        /\ versions' = IF ~writes THEN versions
                       ELSE [versions EXCEPT ![u] = Append(@, p.msg.text)]
        /\ UNCHANGED <<hash, fetches, streamVars, encoding, analysis, mishapVars>>

Persist(w) ==
    LET p == page[w]
        u == p.msg.url
        writes == p.outcome \in {"created", "updated"}
    IN  /\ p # None /\ p.at = "persist" /\ ~Conflict(p)
        /\ page' = [page EXCEPT ![w].at = IF writes THEN "llm" ELSE "ack"]
        /\ articles' = IF ~writes THEN articles
                       ELSE [articles EXCEPT ![u].text = p.msg.text,
                               ![u].version = p.base + 1,
                               ![u].summary = SummaryAfter(p, @)]
        /\ versions' = IF ~writes THEN versions
                       ELSE [versions EXCEPT ![u] = Append(@, p.msg.text)]
        /\ UNCHANGED <<hash, fetches, streamVars, encoding, analysis, mishapVars>>

\* queue.retry: the message is acknowledged, and enqueued with the next attempt or,
\* after the last one, as a dead letter.
Again(m) == [m EXCEPT !.attempt = @ + 1]
Retried(stream, m) ==
    (stream \ {m}) \cup IF m.attempt < MaxAttempts THEN {Again(m)} ELSE {}
Letters(dead, m) == IF m.attempt < MaxAttempts THEN dead ELSE dead \cup {m}

RetryPage(w) ==
    /\ cleaning' = Retried(cleaning, page[w].msg)
    /\ deadPages' = Letters(deadPages, page[w].msg)
    /\ page' = [page EXCEPT ![w] = None]
    /\ UNCHANGED <<hash, fetches, llm, embed, articles, versions, encoding, analysis,
                   deadRequests, lost, crossed>>

\* Mutant of PersistFails: the page is acknowledged although its transaction failed.
PersistFailsAcked(w) ==
    /\ page[w] # None /\ page[w].at = "persist" /\ Conflict(page[w])
    /\ cleaning' = cleaning \ {page[w].msg}
    /\ page' = [page EXCEPT ![w] = None]
    /\ UNCHANGED <<hash, fetches, llm, embed, articles, versions, encoding, analysis, mishapVars>>

\* The transaction fails, in a conflict or in any other exception.
PersistFails(w) ==
    /\ page[w] # None /\ page[w].at = "persist"
    /\ IF Conflict(page[w]) THEN UNCHANGED mishaps ELSE Mishap
    /\ RetryPage(w)
    /\ UNCHANGED cut

\* The version of a page that has been committed and not yet been fanned out.
Unpublished(w) ==
    IF page[w].at \in {"llm", "embed"} THEN {<<page[w].msg.url, page[w].base + 1>>} ELSE {}

\* A publish after the commit raises, or the reply to the commit or the publish before
\* is lost: the page is retried and then found unchanged.
FanOutFails(w) ==
    /\ page[w] # None /\ page[w].at # "persist"
    /\ Mishap
    /\ RetryPage(w)
    /\ cut' = cut \cup Unpublished(w)

\* New content is fanned out, first to the LLM worker, then to the embedding worker.
Request(w) == [url |-> page[w].msg.url, version |-> page[w].base + 1, deferred |-> FALSE,
               attempt |-> 1]
PublishLlm(w) ==
    /\ page[w] # None /\ page[w].at = "llm"
    /\ llm' = llm \cup {Request(w)}
    /\ page' = [page EXCEPT ![w].at = "embed"]
    /\ UNCHANGED <<hash, fetches, cleaning, embed, articles, versions, encoding, analysis, mishapVars>>

\* Mutant of PublishEmbed: only new articles are embedded.
PublishEmbedCreated(w) ==
    /\ page[w] # None /\ page[w].at = "embed"
    /\ embed' = IF page[w].outcome = "created" THEN embed \cup {Request(w)} ELSE embed
    /\ page' = [page EXCEPT ![w].at = "ack"]
    /\ UNCHANGED <<hash, fetches, cleaning, llm, articles, versions, encoding, analysis, mishapVars>>

PublishEmbed(w) ==
    /\ page[w] # None /\ page[w].at = "embed"
    /\ embed' = embed \cup {Request(w)}
    /\ page' = [page EXCEPT ![w].at = "ack"]
    /\ UNCHANGED <<hash, fetches, cleaning, llm, articles, versions, encoding, analysis, mishapVars>>

AckPage(w) ==
    /\ page[w] # None /\ page[w].at = "ack"
    /\ cleaning' = cleaning \ {page[w].msg}
    /\ page' = [page EXCEPT ![w] = None]
    /\ UNCHANGED <<hash, fetches, llm, embed, articles, versions, encoding, analysis, mishapVars>>

-----------------------------------------------------------------------------
(* Every English article goes to the end of the stream, once: the request   *)
(* is published anew before it is acknowledged.                            *)
Deferrable(m) == m.url \in English /\ ~m.deferred

Deferred(m) == [m EXCEPT !.deferred = TRUE, !.attempt = 1]

Defer(e, m) ==
    /\ encoding[e] = None /\ Deferrable(m)
    /\ embed' = (embed \ {m}) \cup {Deferred(m)}
    /\ UNCHANGED <<hash, fetches, cleaning, llm, articles, versions, workerVars, mishapVars>>

\* The worker dies between the two.
DeferDies(e, m) ==
    /\ encoding[e] = None /\ Deferrable(m)
    /\ Mishap
    /\ embed' = embed \cup {Deferred(m)}
    /\ UNCHANGED <<hash, fetches, cleaning, llm, articles, versions, workerVars, letterVars,
                   cut, crossed>>

\* embed_article: the row is read, encoded, and its vector replaced ...
AtArticle(u) == {e \in Embedders : encoding[e] # None /\ encoding[e].msg.url = u}

LoadArticle(e, m) ==
    /\ encoding[e] = None /\ ~Deferrable(m)
    /\ GivenOut(encoding, m)
    /\ crossed' = IF AtArticle(m.url) # {} THEN crossed \cup {m.url} ELSE crossed
    /\ encoding' = [encoding EXCEPT ![e] =
                      [msg |-> m, text |-> articles[m.url].text,
                       marked |-> articles[m.url].original # None, at |-> "encode"]]
    /\ UNCHANGED <<hash, fetches, streamVars, articles, versions, page, analysis, letterVars,
                   cut>>

StoreVector(e) ==
    /\ encoding[e] # None /\ encoding[e].at = "encode"
    /\ articles' = [articles EXCEPT ![encoding[e].msg.url].vector = encoding[e].text]
    /\ encoding' = [encoding EXCEPT ![e].at = "judge"]
    /\ UNCHANGED <<hash, fetches, streamVars, versions, page, analysis, mishapVars>>

\* ... and _semantic_dedup judges the article as it was read, against the rows and
\* vectors of the others: the one that find_duplicate answers with, or else the gray
\* ones.  Which similar candidate is the closest is left open.
\* Mutant of Candidates: the article itself is not excluded from the lookup.
CandidatesWithItself(u, text) ==
    LET found == FindDuplicate(text, StoredUrls)
    IN  IF found # {} THEN {{v} : v \in found} ELSE {Within(Gray, text, StoredUrls)}

Candidates(u, text) ==
    LET others == StoredUrls \ {u}
        found  == FindDuplicate(text, others)
    IN  IF found # {} THEN {{v} : v \in found} ELSE {Within(Gray, text, others)}

SimilarTo(u, candidates) ==
    {v \in candidates : <<articles[u].vector, articles[v].vector>> \in Similar}

Judge(e) ==
    LET x == encoding[e]
        u == x.msg.url
    IN  /\ x # None /\ x.at = "judge"
        /\ \E candidates \in Candidates(u, x.text) :
              LET alike == IF x.marked THEN {} ELSE SimilarTo(u, candidates)
              IN  IF alike = {} THEN UNCHANGED articles
                  ELSE \E v \in alike : articles' = [articles EXCEPT ![u].original = v]
        /\ embed' = embed \ {x.msg}
        /\ encoding' = [encoding EXCEPT ![e] = None]
        /\ UNCHANGED <<hash, fetches, cleaning, llm, versions, page, analysis, mishapVars>>

\* An exception before the acknowledgement: the request is retried.  The vector stays
\* when it was already committed.
Handled(e) == IF encoding[e] = None THEN embed ELSE {encoding[e].msg}

\* Another embedder has stored a vector of the article, perhaps between the delete and
\* the insert of this one, which then breaks the unique key of the slot.
Collision(e) ==
    /\ encoding[e] # None /\ encoding[e].at = "encode"
    /\ \E f \in AtArticle(encoding[e].msg.url) : encoding[f].at = "judge"

EmbedFails(e, m) ==
    /\ IF Collision(e) THEN UNCHANGED mishaps ELSE Mishap
    /\ embed' = Retried(embed, m)
    /\ deadRequests' = Letters(deadRequests, m)
    /\ encoding' = [encoding EXCEPT ![e] = None]
    /\ UNCHANGED <<hash, fetches, cleaning, llm, articles, versions, page, analysis,
                   deadPages, lost, cut, crossed>>

-----------------------------------------------------------------------------
(* The LLM worker: an article with a sentiment and a summary is passed over. *)
Skip(m) ==
    /\ articles[m.url].analysed /\ articles[m.url].summary
    /\ llm' = llm \ {m}
    /\ UNCHANGED <<hash, fetches, cleaning, embed, articles, versions, workerVars, mishapVars>>

Analyse(a, m) ==
    /\ analysis[a] = None
    /\ GivenOut(analysis, m)
    /\ ~(articles[m.url].analysed /\ articles[m.url].summary)
    /\ analysis' = [analysis EXCEPT ![a] = [msg |-> m, summary |-> articles[m.url].summary]]
    /\ UNCHANGED <<hash, fetches, streamVars, articles, versions, page, encoding, letterVars,
                   cut, crossed>>

\* apply_analysis, of the provider's answer or of the heuristic one.
ApplyAnalysis(a) ==
    LET x == analysis[a]
        u == x.msg.url
    IN  /\ x # None
        /\ articles' = [articles EXCEPT ![u].analysed = TRUE,
                          ![u].summary = @ \/ ~x.summary]
        /\ llm' = llm \ {x.msg}
        /\ analysis' = [analysis EXCEPT ![a] = None]
        /\ UNCHANGED <<hash, fetches, cleaning, embed, versions, page, encoding, mishapVars>>

-----------------------------------------------------------------------------
(* A worker dies; what it had not acknowledged stays in its stream.        *)
Die(worker, w) ==
    /\ worker[w] # None
    /\ Mishap
    /\ worker' = [worker EXCEPT ![w] = None]
    /\ UNCHANGED <<hash, fetches, llm, articles, versions, deadPages, deadRequests, crossed>>

CleanerDies(w) ==
    /\ Die(page, w)
    /\ cut' = cut \cup Unpublished(w)
    /\ UNCHANGED <<cleaning, embed, encoding, analysis, lost>>

EmbedderDies(e) == Die(encoding, e) /\ UNCHANGED <<cleaning, embed, page, analysis, lost, cut>>
AnalystDies(a)  == Die(analysis, a) /\ UNCHANGED <<cleaning, embed, page, encoding, lost, cut>>

\* It dies in a retry, after the acknowledgement and before the message is back.
PageLost(w) ==
    /\ Die(page, w)
    /\ cleaning' = cleaning \ {page[w].msg}
    /\ lost' = lost \cup {page[w].msg}
    /\ cut' = cut \cup Unpublished(w)
    /\ UNCHANGED <<embed, encoding, analysis>>

RequestLost(e, m) ==
    /\ Mishap
    /\ embed' = embed \ {m}
    /\ encoding' = [encoding EXCEPT ![e] = None]
    /\ cut' = cut \cup {<<m.url, m.version>>}
    /\ UNCHANGED <<hash, fetches, cleaning, llm, articles, versions, page, analysis,
                   letterVars, crossed>>

-----------------------------------------------------------------------------
Clean(w) ==
    \/ \E m \in cleaning : ReadPage(w, m)
    \/ Persist(w) \/ PersistFails(w)
    \/ PublishLlm(w) \/ PublishEmbed(w) \/ FanOutFails(w)
    \/ AckPage(w)
Embed(e) ==
    \/ \E m \in embed : Defer(e, m) \/ LoadArticle(e, m)
    \/ StoreVector(e) \/ Judge(e)
    \/ \E m \in Handled(e) : EmbedFails(e, m)
Analyze(a) == (\E m \in llm : Skip(m) \/ Analyse(a, m)) \/ ApplyAnalysis(a)
Deaths ==
    \/ \E w \in Cleaners : CleanerDies(w) \/ PageLost(w)
    \/ \E e \in Embedders : \/ EmbedderDies(e)
                            \/ \E m \in embed : DeferDies(e, m)
                            \/ \E m \in Handled(e) : RequestLost(e, m)
    \/ \E a \in Analysts : AnalystDies(a)

Next ==
    \/ \E u \in Urls, text \in Texts : Fetch(u, text)
    \/ \E w \in Cleaners : Clean(w)
    \/ \E e \in Embedders : Embed(e)
    \/ \E a \in Analysts : Analyze(a)
    \/ Deaths

Spec == Init /\ [][Next]_vars

-----------------------------------------------------------------------------
(* What the store promises.                                                *)

\* Every variable holds values of its type; no article is its own duplicate.
TypeOK ==
    /\ hash \in [Urls -> Texts \cup {None}] /\ fetches \in 0 .. MaxFetches
    /\ cleaning \subseteq Pages /\ llm \subseteq Requests /\ embed \subseteq Requests
    /\ articles \in [Urls -> Article]
    /\ \A u \in Urls : articles[u].original # u
    /\ versions \in [Urls -> Seq(Texts)]
    /\ page \in [Cleaners -> {None} \cup PageType]
    /\ encoding \in [Embedders -> {None} \cup EncodingType]
    /\ analysis \in [Analysts -> {None} \cup AnalysisType]
    /\ deadPages \subseteq Pages /\ lost \subseteq Pages /\ deadRequests \subseteq Requests
    /\ cut \subseteq Urls \X (Nat \ {0}) /\ crossed \subseteq Urls
    /\ mishaps \in 0 .. MaxMishaps

\* articles.py: every change of an article is a new version.  Whatever cleaners
\* overlap, die or see a page twice, the snapshots are the versions 1 to
\* current_version, the last one is the article, and no two in a row are the same.
VersionsAreHistory ==
    \A u \in Urls :
        /\ Len(versions[u]) = articles[u].version
        /\ Stored(u) => articles[u].text = versions[u][articles[u].version]
        /\ \A i \in 2 .. Len(versions[u]) : versions[u][i] # versions[u][i - 1]

\* run_worker.py: a page leaves the cleaning stream when its text is among the versions
\* of its article, when it was found to be a duplicate, or with a retry.  A retry leaves
\* the next attempt or, of the last one and no earlier, a dead letter, unless the worker
\* dies in the middle of it; a conflict of two cleaners loses neither text.
AckedIsKept ==
    [][\A m \in cleaning \ cleaning' :
          \/ \E i \in 1 .. Len(versions[m.url]) : versions[m.url][i] = m.text
          \/ \E w \in Cleaners : page[w] # None /\ page[w].msg = m
                                 /\ page[w].outcome = "duplicate"
          \/ m.attempt < MaxAttempts /\ Again(m) \in cleaning'
          \/ m.attempt = MaxAttempts /\ m \in deadPages'
          \/ m \in lost']_vars

\* Nothing is on its way to the article or being done with it.
Quiet(u) ==
    /\ \A m \in llm \cup embed : m.url # u
    /\ \A w \in Cleaners : page[w] # None => page[w].msg.url # u
    /\ \A e \in Embedders : encoding[e] # None => encoding[e].msg.url # u

\* Its present version was fanned out for good, and its request is no dead letter.  The
\* exceptions are a cleaner that dies or whose publish raises between the commit and the
\* fan-out (the page is then found unchanged and not fanned out again), a death in the
\* retry of the request, and a request that failed at every attempt.
FannedOut(u) == <<u, articles[u].version>> \notin cut
Embeddable(u) ==
    /\ FannedOut(u)
    /\ ~ \E m \in deadRequests : m.url = u /\ m.version = articles[u].version

\* When all messages of an article are done with, it has been analysed and has the
\* vector of one of its versions, however updates, retries and enrichment overlap; it is
\* the vector of its present text when no two embedders were at the article at once.
Enriched ==
    \A u \in StoredUrls :
        /\ Quiet(u) /\ FannedOut(u) => articles[u].analysed
        /\ Quiet(u) /\ Embeddable(u) =>
              /\ \E i \in 1 .. Len(versions[u]) : versions[u][i] = articles[u].vector
              /\ u \notin crossed => articles[u].vector = articles[u].text

\* docs/runbook.md: processor-embedding is scaled by adding workers.  The vector is that
\* of the present text with several of them, too.
VectorIsPresent ==
    \A u \in StoredUrls :
        Quiet(u) /\ Embeddable(u) => articles[u].vector = articles[u].text

\* docs/deduplication.md: duplicates are marked and the API leaves them out, every
\* stage is idempotent.  Whoever follows the originals of an article that is left out
\* comes to one that is shown.
StoryIsShown ==
    ~ \E ring \in SUBSET StoredUrls \ {{}} : \A u \in ring : articles[u].original \in ring
=============================================================================
