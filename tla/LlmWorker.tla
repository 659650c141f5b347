------------------------------- MODULE LlmWorker -------------------------------
(***************************************************************************)
(* The LLM workers (run_llm_worker.py) and the ladder of retries and       *)
(* fallbacks they climb for each article: LlmExtractor.analyze             *)
(* (llm/extractor.py) over the chain that build_provider_chain made        *)
(* (llm/providers.py), the heuristic answer when every provider has failed *)
(* (llm/heuristic.py), and what is written of it (llm/persist.py): the     *)
(* enriched article, its entities, and the llm_extractions rows with the   *)
(* tokens that were paid for.                                              *)
(*                                                                         *)
(* The stream is what WorkQueue promises: a message stays until it is      *)
(* acknowledged, and may be claimed by a second worker while the first is  *)
(* still at it (claim_stale).  Every completion costs one token.           *)
(***************************************************************************)
EXTENDS Integers, Sequences, FiniteSets, Functions

CONSTANTS
    Workers,
    Articles,     \* the articles whose messages are in the stream
    Entities,     \* the names that answers give
    Answers,      \* the sets of names that valid answers give, whichever the article
    Summarized,   \* articles that came with the publisher's summary
    None,
    Primary,      \* LLM_PROVIDER
    Fallbacks,    \* LLM_FALLBACK_PROVIDERS
    Keys,         \* sets of providers with credentials to start with
    MaxRetries,   \* LLM_MAX_RETRIES
    MaxMishaps    \* bound: deaths of workers, and claims of a message that another
                  \* worker is still at

Listed == <<Primary>> \o Fallbacks
Providers == {Primary} \cup Range(Fallbacks)
Origins == {"publisher", "llm", "heuristic"}

ASSUME LlmWorkerAssumption ==
    /\ IsFiniteSet(Workers)
    /\ Fallbacks \in Seq(Providers)
    /\ Answers \subseteq SUBSET Entities
    /\ None \notin Origins \cup Articles \cup Providers
    /\ Summarized \subseteq Articles
    /\ MaxRetries \in Nat \ {0} /\ MaxMishaps \in Nat
    /\ \A keys \in Keys : keys \cap Providers # {}

VARIABLES
    chain,      \* the providers in use, best first
    stream,     \* articles with a message in processing:llm
    job,        \* what each worker is at
    article,    \* summary and sentiment of each article, by their origin
    entities,   \* the entities table
    links,      \* article_entities
    rows,       \* llm_extractions: how many rows of each status an article has, the
                \* entities of the answers they hold, and whether one has tokens of
                \* another provider than it names
    due,        \* the tokens the providers have charged each worker, less those that it
                \* wrote on llm_extractions rows and those that were lost with it
    overlaps,   \* how often an article was given to a second worker
    mishaps

vars == <<chain, stream, job, article, entities, links, rows, due, overlaps, mishaps>>
mishapVars == <<overlaps, mishaps>>
store == <<article, entities, links, rows>>

-----------------------------------------------------------------------------
(* build_provider_chain: the primary, then the fallbacks, each once and    *)
(* only those that are configured.                                         *)
Before(p, q) == \E i \in DOMAIN Listed : Listed[i] = p /\ \A k \in 1 .. i : Listed[k] # q
Chains(keys) ==
    {c \in UNION {[1 .. n -> keys \cap Providers] : n \in 1 .. Len(Listed)} :
        /\ Range(c) = keys \cap Providers
        /\ \A k, l \in DOMAIN c : k < l => Before(c[k], c[l])}

\* A provider that runs on the host gets one attempt when it is only the fallback.
Retries(p) == IF p = "ollama" /\ Len(chain) > 1 THEN 1 ELSE MaxRetries

\* What complete() ends with: a completion with a text, an LLMProviderError, or an exception
\* that nothing on the way handles (Escape).  The providers that _post to an HTTP API turn
\* connection failures into errors too, Gemini's client only what its API answers.
Errors == {"timeout", "500", "401", "403", "404", "429"}
ErrorsOf(p) == IF p = "gemini" THEN Errors \ {"timeout"} ELSE Errors
NonRetryable == {"401", "403", "404", "429"}
Retryable(e) == e \notin NonRetryable

\* The text of a completion and what recover_json makes of it: fences and prose around an
\* object are cut off, a list is no object, unknown keys are dropped; a summary below
\* ten characters does not validate.
Texts == {"object", "fenced", "padded", "extra keys", "short summary", "list", "prose", "{}", ""}
Blank(text) == text \in {"", "{}"}
Recovered(text) == text \notin {"list", "prose"}
Valid(text) == ~Blank(text) /\ Recovered(text) /\ text # "short summary"

-----------------------------------------------------------------------------
Job == [of : Articles, at : {"call", "failure", "link", "commit", "ack"},
        origin : {"llm", "heuristic"}, i : Nat \ {0}, attempt : Nat \ {0},
        provider : Providers \cup {None}, tokens : Nat, paid : SUBSET Providers, calls : [Providers -> Nat],
        refused : SUBSET Providers, summary : BOOLEAN, named : SUBSET Entities,
        known : SUBSET Entities, linked : SUBSET Entities]
Rows == [completed : Nat, failed : Nat, answers : SUBSET SUBSET Entities, mixed : BOOLEAN]
ASSUME NoneAssumption == None \notin Job

Init ==
    /\ \E keys \in Keys : chain \in Chains(keys)
    /\ stream = Articles
    /\ job = [w \in Workers |-> None]
    /\ article = [a \in Articles |->
         [summary |-> IF a \in Summarized THEN "publisher" ELSE None, sentiment |-> None]]
    /\ entities = {} /\ links = [a \in Articles |-> {}]
    /\ rows = [a \in Articles |-> [completed |-> 0, failed |-> 0, answers |-> {}, mixed |-> FALSE]]
    /\ due = [w \in Workers |-> 0]
    /\ overlaps = [a \in Articles |-> 0] /\ mishaps = 0

NoCalls == [p \in Providers |-> 0]
Holders(a) == {w \in Workers : job[w] # None /\ job[w].of = a}
\* Mutant of Extracted: every message is worth an analysis.
ExtractedNever(a) == FALSE
Extracted(a) == article[a].sentiment # None /\ article[a].summary # None
Set(w, j) == job' = [job EXCEPT ![w] = j]

-----------------------------------------------------------------------------
(* process_message takes a message of its own, or one that went stale in   *)
(* the hands of another worker, and reads the article.  Every payload is   *)
(* well-formed and its article is there.                                   *)
Overlap(a) ==
    IF Holders(a) = {} THEN UNCHANGED mishapVars
    ELSE /\ mishaps < MaxMishaps /\ mishaps' = mishaps + 1
         /\ overlaps' = [overlaps EXCEPT ![a] = @ + 1]

Take(w, a) ==
    /\ job[w] = None /\ a \in stream /\ ~Extracted(a) /\ Overlap(a)
    /\ Set(w, [of |-> a, at |-> "call", origin |-> "llm", i |-> 1, attempt |-> 1,
               provider |-> None, tokens |-> 0, paid |-> {}, calls |-> NoCalls,
               refused |-> {}, summary |-> article[a].summary # None,
               named |-> {}, known |-> {}, linked |-> {}])
    /\ UNCHANGED <<chain, stream, store, due>>

Skip(w, a) ==
    /\ job[w] = None /\ a \in stream /\ Extracted(a) /\ Overlap(a)
    /\ stream' = stream \ {a}
    /\ UNCHANGED <<chain, job, store, due>>

-----------------------------------------------------------------------------
(* LlmExtractor.analyze: one call of a provider and what follows it.       *)
Provider(j) == chain[j.i]
Called(j) == [j EXCEPT !.calls[Provider(j)] = @ + 1]

NextProvider(j) ==
    IF j.i < Len(chain) THEN [j EXCEPT !.i = @ + 1, !.attempt = 1] ELSE [j EXCEPT !.at = "failure"]

\* Mutant of Again: the last attempt is repeated once more.
AgainOnceMore(j) ==
    IF j.attempt <= Retries(Provider(j)) THEN [j EXCEPT !.attempt = @ + 1]
    ELSE NextProvider(j)
Again(j) ==
    IF j.attempt < Retries(Provider(j)) THEN [j EXCEPT !.attempt = @ + 1]
    ELSE NextProvider(j)

AfterError(j, e) ==
    IF Retryable(e) THEN Again(Called(j)) ELSE NextProvider(Called(j))

\* Mutant of AfterText: an answer that is not used is not paid for.
AfterTextFree(j, text, names) ==
    IF Valid(text) THEN [Called(j) EXCEPT !.at = "link", !.provider = Provider(j), !.tokens = @ + 1,
                             !.paid = @ \cup {Provider(j)}, !.named = names]
    ELSE Again(Called(j))
\* An answer is paid for whether it is of use or not (LlmUsage.add); one that is not is
\* followed at once by a call with a corrective note.
AfterText(j, text, names) ==
    LET paid == [Called(j) EXCEPT !.provider = Provider(j), !.tokens = @ + 1,
                             !.paid = @ \cup {Provider(j)}]
    IN  IF Valid(text) THEN [paid EXCEPT !.at = "link", !.named = names] ELSE Again(paid)

At(w, at) == job[w] # None /\ job[w].at = at

CallFails(w, e) ==
    /\ At(w, "call") /\ e \in ErrorsOf(Provider(job[w]))
    /\ Set(w, [AfterError(job[w], e) EXCEPT
                 !.refused = IF Retryable(e) THEN @ ELSE @ \cup {Provider(job[w])}])
    /\ UNCHANGED <<chain, stream, store, due, mishapVars>>

CallCompletes(w, text) ==
    /\ At(w, "call") /\ \E names \in Answers : Set(w, AfterText(job[w], text, names))
    /\ due' = [due EXCEPT ![w] = @ + 1]
    /\ UNCHANGED <<chain, stream, store, mishapVars>>

-----------------------------------------------------------------------------
(* record_failure is committed before the heuristic answer is; its usage   *)
(* starts from nothing.                                                    *)
Charge(w) == due' = [due EXCEPT ![w] = @ - job[w].tokens]
Mixed(j) == j.paid \ {j.provider} # {}

RecordFailure(w) ==
    /\ At(w, "failure")
    /\ rows' = [rows EXCEPT ![job[w].of].failed = @ + 1, ![job[w].of].mixed = @ \/ Mixed(job[w])]
    /\ Charge(w)
    /\ Set(w, [job[w] EXCEPT !.at = "link", !.origin = "heuristic", !.provider = None,
                             !.tokens = 0, !.paid = {}, !.calls = NoCalls, !.refused = {}])
    /\ UNCHANGED <<chain, stream, article, entities, links, mishapVars>>

\* _link_entities and _link_topics look each name and its link up; the heuristic names none.
Link(w) ==
    /\ At(w, "link")
    /\ Set(w, [job[w] EXCEPT !.at = "commit", !.known = job[w].named \cap entities,
                             !.linked = job[w].named \cap links[job[w].of],
                             !.attempt = 1, !.calls = NoCalls, !.refused = {}])
    /\ UNCHANGED <<chain, stream, store, due, mishapVars>>

\* Another worker has inserted one of the names or links since they were looked up.
Conflict(j) ==
    \/ (j.named \ j.known) \cap entities # {}
    \/ (j.named \ j.linked) \cap links[j.of] # {}

\* apply_analysis: one transaction.  A summary that was there when the article was read
\* is kept.
\* Mutant of Apply: the publisher's summary is replaced as well.
ApplyOver(w) ==
    LET j == job[w] IN
    /\ At(w, "commit") /\ ~Conflict(j)
    /\ article' = [article EXCEPT ![j.of] = [summary |-> j.origin, sentiment |-> j.origin]]
    /\ entities' = entities \cup j.named
    /\ links' = [links EXCEPT ![j.of] = @ \cup j.named]
    /\ rows' = [rows EXCEPT ![j.of].completed = @ + 1, ![j.of].answers = @ \cup {j.named},
                     ![j.of].mixed = @ \/ Mixed(j)]
    /\ Charge(w)
    /\ Set(w, [j EXCEPT !.at = "ack", !.provider = None, !.tokens = 0, !.paid = {}, !.named = {}])
    /\ UNCHANGED <<chain, stream, mishapVars>>

Apply(w) ==
    LET j == job[w] IN
    /\ At(w, "commit") /\ ~Conflict(j)
    /\ article' = [article EXCEPT ![j.of].sentiment = j.origin,
                     ![j.of].summary = IF j.summary THEN @ ELSE j.origin]
    /\ entities' = entities \cup j.named
    /\ links' = [links EXCEPT ![j.of] = @ \cup j.named]
    /\ rows' = [rows EXCEPT ![j.of].completed = @ + 1, ![j.of].answers = @ \cup {j.named},
                     ![j.of].mixed = @ \/ Mixed(j)]
    /\ Charge(w)
    /\ Set(w, [j EXCEPT !.at = "ack", !.provider = None, !.tokens = 0, !.paid = {}, !.named = {}])
    /\ UNCHANGED <<chain, stream, mishapVars>>

Ack(w) ==
    /\ At(w, "ack")
    /\ stream' = stream \ {job[w].of}
    /\ Set(w, None)
    /\ UNCHANGED <<chain, store, due, mishapVars>>

\* An exception that process_message does not handle ends the worker, which is started
\* again; the message is still pending.
\* Mutant of ApplyFails: the message is acknowledged on the way out.
ApplyFailsAcked(w) ==
    /\ At(w, "commit") /\ Conflict(job[w])
    /\ stream' = stream \ {job[w].of}
    /\ Set(w, None) /\ Charge(w)
    /\ UNCHANGED <<chain, store, mishapVars>>

ApplyFails(w) ==
    /\ At(w, "commit") /\ Conflict(job[w])
    /\ Set(w, None) /\ Charge(w)
    /\ UNCHANGED <<chain, stream, store, mishapVars>>

\* complete() ends with an exception that process_message does not handle either: a failed
\* connection of Gemini's client, or a reply that is no JSON or lacks its fields.
Escape(w) ==
    /\ At(w, "call")
    /\ Set(w, None) /\ Charge(w)
    /\ UNCHANGED <<chain, stream, store, mishapVars>>

\* The death of the process.
Die(w) ==
    /\ job[w] # None /\ mishaps < MaxMishaps
    /\ mishaps' = mishaps + 1
    /\ Set(w, None) /\ Charge(w)
    /\ UNCHANGED <<chain, stream, store, overlaps>>

-----------------------------------------------------------------------------
Receive(w) == \E a \in stream : Take(w, a) \/ Skip(w, a)
Analyse(w) ==
    \/ \E e \in Errors : CallFails(w, e)
    \/ \E text \in Texts : CallCompletes(w, text)
Persist(w) == RecordFailure(w) \/ Link(w) \/ Apply(w) \/ ApplyFails(w) \/ Ack(w)

Next == \E w \in Workers : Receive(w) \/ Analyse(w) \/ Persist(w) \/ Escape(w) \/ Die(w)

Spec == Init /\ [][Next]_vars
FairSpec == Spec /\ \A w \in Workers : WF_vars(Receive(w) \/ Analyse(w) \/ Persist(w))

-----------------------------------------------------------------------------
(* What the ladder promises.                                               *)

\* Every variable holds values of its type; the chain has each configured provider once,
\* and no entity is linked that is not in the table.
TypeOK ==
    /\ chain \in Seq(Providers) /\ IsInjective(chain) /\ chain # <<>>
    /\ stream \subseteq Articles
    /\ job \in [Workers -> {None} \cup Job]
    /\ \A w \in Workers : job[w] # None => job[w].i <= Len(chain)
    /\ article \in [Articles -> [summary : Origins \cup {None},
                                 sentiment : (Origins \ {"publisher"}) \cup {None}]]
    /\ entities \subseteq Entities /\ links \in [Articles -> SUBSET entities]
    /\ rows \in [Articles -> Rows]
    /\ due \in [Workers -> Nat]
    /\ overlaps \in [Articles -> Nat] /\ mishaps \in 0 .. MaxMishaps

\* extractor.py:99, "Every attempt costs real tokens": the rows and the jobs at work
\* account for every token that was charged, of answers that were of no use too; only
\* what a lost worker had in hand is missing, and nothing is written down twice.
PaidIsRecorded == \A w \in Workers : due[w] = (IF job[w] = None THEN 0 ELSE job[w].tokens)

\* extractor.py:3-7, the failure ladder: a provider is left behind only when its retries
\* are used up or it refused, one that refused is not asked again, one further down
\* has not been asked yet, and the heuristic answers only when all were asked.
Behind(j) == IF j.at = "failure" THEN Len(chain) ELSE j.i - 1
LadderIsClimbed ==
    \A w \in Workers : job[w] # None /\ job[w].calls # NoCalls =>
        LET j == job[w] IN
        \A k \in 1 .. Len(chain) :
            /\ j.calls[chain[k]] <= Retries(chain[k])
            /\ k <= Behind(j) => j.calls[chain[k]] = Retries(chain[k]) \/ chain[k] \in j.refused
            /\ k > Behind(j) => chain[k] \notin j.refused
            /\ k > j.i => j.calls[chain[k]] = 0

\* persist.py: an analysis is written whole or not at all, whichever workers overlap and
\* however their answers differ: summary and sentiment are of the same answer and come with
\* its row, an article links what its rows name and nothing else, and the publisher's
\* summary stays.
AnalysisIsWhole ==
    \A a \in Articles :
        /\ article[a].sentiment # None <=> rows[a].completed > 0
        /\ article[a].summary = (IF a \in Summarized THEN "publisher" ELSE article[a].sentiment)
        /\ links[a] = UNION rows[a].answers

\* run_llm_worker.py:81, "Already extracted - don't burn provider quota": a message that
\* comes back after its worker died is not analysed again once it was; only workers
\* that are at one message at the same time extract it twice.
ExtractedOnce == \A a \in Articles : rows[a].completed <= 1 + overlaps[a]

\* Every message is acknowledged at last, and then its article has a sentiment and a
\* summary, however workers collide or die and whichever errors and texts the providers
\* answer with: only exceptions that complete() lets through must stop at last, as every
\* worker that takes the message ends with them.
EveryArticleIsAnalysed ==
    <>[][\A w \in Workers : ~Escape(w)]_vars =>
    \A a \in Articles : a \in stream ~> a \notin stream /\ Extracted(a) /\ rows[a].completed > 0

\* observability.md:86: "daily LLM extractions/tokens/cost per provider".
CostsAreOfTheirProvider == \A a \in Articles : ~rows[a].mixed
=============================================================================
