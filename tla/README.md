# A TLA+ model of the NewsCrawl platform

NewsCrawl crawls news sites, cleans and deduplicates the articles, lets a language
model and an embedding model enrich them, and serves them through an API. Several
worker processes of each kind run at once; they meet in PostgreSQL rows and in Redis
streams, and any of them may be stopped, slow or dead at any moment. These modules
model that coordination: the URL frontier, the passes of the spiders with the rate
limiter they share, the processing streams, the crawl jobs with their control signals,
the article store with its three processing stages, the lookup of near duplicates, the
ladder of language-model providers, and the retention worker with its statistics.

Paths below are relative to `src/`.

## 1. The system

### Components, their state and their operations

| component | state | operations | source |
|---|---|---|---|
| URL frontier | one `crawl_urls` row per URL: status, lease owner and expiry, due date, retry count | insert, seed for a job, claim, success, 304, failure, release, extend, skip, reap, requeue failed | `apps/api/.../services/frontier.py` |
| spiders | a pass: page budget, refill under way, reason to close; a request per page | start, claim a batch, idle and refill, parse a page, retry in the browser, classify a failure, close | `apps/crawler/.../spiders/base.py`, `pipelines/` |
| crawl workers | job mode: one job; loop mode: `paused_sources` in memory | load a job, run a pass, finish a job; hear signals, reap, start passes | `apps/crawler/.../run_worker.py` |
| crawl jobs | `crawl_jobs` rows: status, two dates, counters | create, transition, pause, resume, cancel | `apps/api/.../services/crawl_jobs.py`, `api/v1/crawl_jobs.py` |
| control signals | Redis pub/sub: nothing is stored | publish, listen | `apps/api/.../coordination/control.py` |
| stream queue | per stage a Redis stream with its consumer group and pending list, a delayed set, a dead-letter stream | publish, consume, ack, retry, dead-letter, pump delayed, claim stale, replay | `apps/api/.../coordination/queues.py` |
| article store | `articles`, `article_versions`, vectors, analyses | persist, update, find duplicates, embed, judge, analyse | `apps/processor/.../` |
| near-duplicate lookup | content hash and simhash columns, four band indexes | hash a text, probe the bands, rank candidates | `simhash.py`, `dedup.py` |
| rate limiter | a token bucket per domain in Redis | acquire, wait, go without | `coordination/ratelimit.py`, `middlewares.py` |
| retention | the cycle in memory; `article_daily_stats`, the retention rollups | synchronise counts, purge in batches, remove raw pages, record a cycle | `run_retention_worker.py`, `retention.py`, `retention_stats.py`, `article_daily_stats.py` |
| LLM extractor | attempts and refusals of one article; `llm_extractions`, entities, links | climb the providers, fall back, store the analysis and its cost | `llm/extractor.py`, `llm/providers.py`, `llm/persist.py`, `run_llm_worker.py` |
| heartbeats, shutdown | a Redis hash with an entry per worker; an event | beat, deregister, list, reap; trigger, wait | `coordination/heartbeat.py`, `shutdown.py` |
| API, search, dashboard | none of their own | queries | `api/v1/`, `services/search.py`, `apps/web` |

### How they interact

    operator -- API --> crawl_jobs row ----(pub/sub signal)----> loop workers
                 |            ^                                     |
                 +-- seeds -> crawl_urls <-- claim / outcome / reap -+ spiders
                                  |  content changed: XADD
                                  v
       processing:cleaning -> cleaning worker -> articles, article_versions
                                  |  created or updated: XADD, XADD
                                  v
       processing:llm -> LLM worker        processing:embedding -> embedding worker
              (summary, sentiment)                (vector, duplicate_of)

Calls within a process are synchronous; between processes there are only row updates,
stream entries and signals. No component locks a row across two statements except where
`FOR UPDATE SKIP LOCKED` (claim) or an UPDATE that waits for its commit does.

### What is hard about it

* **Leases without renewal.** A claimed URL belongs to a worker until
  `lease_expires_at`; nothing extends the lease while the page is fetched, and an
  outcome is recorded by row id, whoever holds the lease by then.
* **Load, compute, write.** Outcomes of fetches and transitions of jobs read a row
  without a lock, decide on what they read and write the changed columns at commit.
* **Two commands that should be one.** Ack and re-add in `retry`, ZREM and XADD in
  `pump_delayed`, publish and delete in a replay, commit and fan-out in the cleaner.
* **Redelivery.** A slow worker's entries are claimed by another one; both process them.
* **Signals that are not stored.** A pause reaches only workers that are subscribed.
* **Time.** Expiry against late answers, backoff against the reaper, due dates that
  nobody looks at; a bucket whose clients bring their own clocks.
* **One transaction per batch, one record per cycle.** The purge deletes while others
  insert rows that refer to what it deletes, and its statistics are written after all
  its batches.
* **Check, then a minute later write.** The LLM worker pays for completions between the
  two; the cleaner looks a text up and stores it later.
* **Idle callbacks.** A spider decides to close while its own refill is running.

### What makes each component correct

* *Frontier*: one lease holder per URL; a URL is always found by the claim query or by
  the reaper; retries are bounded; leases end; what waits is claimed.
* *Stream queue*: a published message is settled or dead-lettered, none is
  dead-lettered early, what is acknowledged is finished, one consumer per entry.
* *Jobs*: terminal statuses are final, the dates tell the history, a job that is being
  crawled is not queued, workers agree with the rows on what is paused.
* *Articles*: versions are the gapless history of an article, no acknowledged text is
  lost, every article ends up embedded and analysed, every story is shown once.
* *Passes and politeness*: each claimed page is counted once and answered, the page
  budget holds, a spider closes neither too early nor never; the requests of all workers
  together keep to the domain's rate, except those that waited as long as they may.
* *Near duplicates*: four probes of band columns find what a comparison with every row
  would; no two stored articles are nearly the same unless a race or an update let them.
* *LLM*: every token that was paid for is on a row, no provider is skipped or asked too
  often, an analysis is written whole, every article is analysed at last.
* *Retention*: an article that is there has its raw page; a completed cycle leaves
  nothing expired; creations and deletions are counted once; what is expired goes in
  the end.

`PROJECT.json` lists the hazards line by line with the properties that address them.

## 2. The modules

| module | models | state |
|---|---|---|
| `Frontier` | the frontier table and the requests of the spiders | `rows`, `stage`, `write` |
| `StreamQueue` | one stream, its group, delayed set, dead letters, and the workers' loop | 14 variables, one Redis command per action |
| `WorkQueue` | the abstract promise of a stream: new, open, settled or buried | `where` |
| `CrawlJobs` | job rows, open transactions, signals, job and loop workers | `jobs`, `slice`, `txn`, `signal`, ... |
| `Articles` | the article store and the three processing workers | `articles`, `versions`, `page`, `encoding`, `analysis`, ... |
| `Deduplication` | simhash, bands, the staged lookup and the cleaners that use it | `rows`, `lookup`, `exempt` |
| `LlmWorker` | the provider ladder, the LLM workers, what they store | `job`, `article`, `entities`, `links`, `rows`, `due`, ... |
| `CrawlPass` | passes of spiders over one source, the token bucket, the waiting for it | `url`, `pass`, `request`, `bucket`, `debt` |
| `Retention` | the purge beside the writers, and the durable statistics | `row`, `raw`, `creating`, `created`, `deleted`, `purge`, ... |
| `MC...` | small instances of these for TLC | |
| `FrontierProofs` | theorems about `Frontier`, under any overlap and for punctual fetches | |
| `StreamQueueProofs` | theorems about `StreamQueue`, and its refinement of `WorkQueue` | |
| `CrawlJobsProofs`, `ArticlesProofs`, `DeduplicationProofs`, `LlmWorkerProofs`, `CrawlPassProofs`, `RetentionProofs` | theorems about the module of that name | |

`WorkQueue` is what `Articles` and `LlmWorker` take their streams to be (sets of
messages that stay until a worker is done with them, in no order), and `StreamQueue` is
shown to implement it as long as no process dies. Deaths are covered in `Articles` and
`LlmWorker` for a worker that holds a message without having acknowledged it, and in
`Articles` also in the middle of a retry.
`Articles` takes the nearness of texts as a relation, which `Deduplication` computes;
it takes the LLM worker's answer as one step, which `LlmWorker` opens; `CrawlPass` takes
the frontier as the status of each page, which `Frontier` has in full.

### Frontier

A row keeps five columns; the two dates are kept as the time left (`Tick` lowers them),
so the state space is finite without a clock bound. `stage[w][u]` is the request worker
`w` has open for `u`; `write[w][u]` is the set of columns its open transaction has
changed, with their values: SQLAlchemy's UPDATE names exactly the changed columns, so
`Merge` leaves the others as some other transaction wrote them meanwhile. `Claim` is
`claim_batch` with its filters, order, limit and SKIP LOCKED set; `SeedJob`
and `RequeueFailed` are the bulk updates; `MarkSuccess`, `MarkNotModified`, `MarkFailed`
load and compute, `Commit` writes and inserts the links found on the page;
`Abandon` is a callback that raises or a spider that closes; `Crash` a worker that dies;
`Reap` the reaper. `ExtendLease`, `Release` and `Skip` are called by tests only and
belong to `ApiSpec`. `Punctual` says that no lease runs out under an open request;
nothing in the code sees to that, so it is an assumption about the sites and the
settings, and what is promised without it is a property of its own: `LeaseIsNotTaken`
(only an outcome, late or not, takes a running lease from its owner) and `LostOnlyLate`
(a URL gets out of sight of both queries only by the outcome of a worker that had lost
the lease).

### StreamQueue and WorkQueue

An action is one Redis command or one commit, so that another worker or a death fits
between any two: `Scan`, `PumpRemove`, `PumpPublish` (pump_delayed), `ClaimStale`,
`Consume`, then per message `Apply` (the handler's commit), `AckApplied`, or `Fail`
(retry's XACK), `Requeue` or `BuryLetter`. `Escape` is an exception that ends the worker
(the LLM worker catches only validation and extraction errors). `Crash` drops what the
process held in memory. `Place` is the refinement mapping to `WorkQueue`: a message is
open while any copy of it is in the stream, in a batch, among the delayed retries or in
a pump, and buried when only a dead letter is left.

### CrawlJobs

`Transition` checks `VALID_TRANSITIONS` on the loaded row and fills the actor's open
transaction; `WriteRow` writes it later. A request goes through `Request` (load),
`PublishSignal` (flush: from here it holds the row lock; the signal leaves before the
commit), `CommitRequest` or `FailRequest`. A job worker goes through `LoadJob`,
`CommitStart`, `CrawlPage`, `EndPass`, `CommitFinish`; a pass of a source without a
spider ends at once. A loop worker handles its `inbox` with `Listen` and takes sources
that are not in its `paused` set. The frontier appears as the number of pages that are
due and that wait for a retry. `SerialSpec` adds that transactions on one job do not
overlap (`OneWriter`). Nothing in the code sees to that: it is an assumption about the
operators, who make one request at a time and none while a worker starts or ends the
job; `Spec` and `FairSpec` are without it.

### Articles

A text stands for everything content_hash and simhash are computed from; `Near`, `Gray`
and `Similar` are relations on texts. `ReadPage` decides the outcome from the row as it
was read; `Persist` commits unless a unique key (canonical_url; article and version)
says that someone else was faster. `PersistFails` and `FanOutFails` are the exceptions
before and after that commit: `retry` acknowledges the page and adds the next attempt,
or a dead letter after the last one (`Retried`, `Letters`); `PageLost` is a death between
the two. `PublishLlm`, `PublishEmbed` and `AckPage` follow one by one. `LoadArticle`,
`StoreVector` and `Judge` are the embedding worker; the row is read once and the verdict
is about what was read. `EmbedFails` is its exception, among them the collision of two
embedders on the unique key of a vector's slot; `RequestLost` a death in its retry.
`Skip`, `Analyse`, `ApplyAnalysis` are the LLM worker, its provider answer or its
heuristic fallback. Every English article is put off once (`Defer`): the worker
publishes the message again, marked as put off, and acknowledges the first one;
`DeferDies` is a death between the two.

Two history variables keep the exceptions of `Enriched`. `cut` has the versions that were
not fanned out for good: the cleaner died, or a publish raised, between the commit and
the fan-out (the page comes back and is found unchanged), or the request was lost in a
retry. `crossed` has the articles that two embedders were at at once: there the vector
may stay that of an older text.

### Deduplication

An unsigned 64-bit integer is the set of its one bits, a Postgres `bigint` has a sign
that its `>>` repeats from the left. `SimHash` counts the votes of the shingles,
`FindExact`, `FindNear` and `FindDuplicate` are the stages of `dedup.py` with the limit
of the candidate query, whose rows come in no order. `LookUp` and `Create` are the two
steps of a cleaner; `Update` stores a changed text without a lookup. `exempt` is a
history variable: articles whose lookup was overtaken, cut off by the limit, or never
made. The blake2b hash of a shingle is the constant `FeatureHash`.

### LlmWorker

`chain` is what `build_provider_chain` makes of the configured providers. A worker's
`job` goes from `Take` through `CallFails` and `CallCompletes` (every kind of answer:
error, refusal for quota, blank, JSON that is broken, recoverable, invalid or valid) to
`RecordFailure` with the heuristic answer, then `Link` (entities are looked up) and
`Apply`, which fails as a whole when another worker inserted the same entity meanwhile
(`ApplyFails`). `ErrorsOf` has the errors that a provider turns into `LLMProviderError`;
what it lets through (a failed connection of Gemini's client, a reply without the
expected fields) is `Escape`, at any call and any number of times: nothing handles it, the
worker ends and the message is pending. A valid answer names any member of `Answers`, so
two answers about one article may name different entities; `rows[a].answers` remembers
what each completed row named. `due` is an audit: the tokens the providers charged each
worker, less those it wrote on rows and those that ended with it.

### CrawlPass

`StartPass`, `Claim`, `ClaimFails`, `Idle`, `Close` are the spider's life: the first
claim in `start`, the refill that `_on_idle` starts, the budget that `Limit` takes from.
A request goes `Dispatch` (robots.txt and the per-domain slots), then `GetToken` or
`GetNone` and `WakeUp` until it has a token or has waited `MaxWait`, then `Succeed`,
`RetryInBrowser`, `Fail` with one of the failures Scrapy reports, or `Lose` when the
database or the storage fails. `bucket` is computed as the Lua script does, with the
caller's clock (`Ahead`); the unit is what one tick adds to the bucket, so that a token
is `Token` units and everything is an integer. `debt` is an audit of the tokens: the
largest excess over the rate in any span of time that ends now.

### Retention

One action per statement of `purge_expired_articles`: `Sync`, `Select`, `Unlink`, one
`Clear` per table, `Delete` with its commit, `DeleteRaw`, `Record`. What a statement
deletes is remembered in `doomed` and `freed` and seen by others at the commit; the
foreign keys compare it with what has been committed since (`Held`) and fail the cycle
(`DeleteHeld`), which writes its record all the same. `StatementFails` is a failure
before the commit of a batch, `ReplyLost` a commit whose reply is lost, `RawRaises` an
exception between the commit and the count (the storage client cannot be made; only the
deletion of a chunk is guarded): in the last two the record is written without the batch,
which `missed` remembers, as it does what a cycle without a record has deleted.
`RecordFails` and `Crash` are cycles without one. The writers are `BeginCreate`,
`CommitCreate`, `AddRow` (vectors, versions, topics, entities) and `MarkDuplicate`.

Two history variables, which no guard reads, let the properties say which deletions a
number stands for: `inCycle` grows with each batch that is committed, and `Record` moves
it to the day of `onDay` whose rollup it raises.

## 3. The checks

| run | question | result |
|---|---|---|
| `frontier_punctual` | two URLs, two workers, every outcome, crashes, seeding | sole holder, no URL lost, retry budget, leases end, waiting URLs are claimed |
| `frontier_overlap` | fetches of any length, overlapping outcomes, the lease API | types, lease columns agree, a running lease is not taken, only late outcomes lose a URL |
| `queue_live` | live workers, slower than the stale-claim time | types; implements `WorkQueue` with its fairness |
| `queue_crash` | deaths between any two commands, escaping exceptions, replays | acknowledged is finished, sole consumer, never dead-lettered early |
| `jobs_serial` | transactions on a job one after the other; crashes, restarts | dates agree, crawled is not queued |
| `jobs_live` | overlapping API requests, two jobs, a loop worker | signals agree with rows, a pause that stays is heard |
| `articles_store` | two cleaners, two embedders, an analyst; retries, dead letters, one mishap | types, versions are history, acknowledged is kept, enriched in the end |
| `near_duplicates` | every table that two cleaners can build from five texts | the lookup is exact, gray candidates are gray and nearest, stored articles are apart |
| `llm_ladder` | every answer of two providers, answers that differ, exceptions nobody handles, overlapping workers, a death | paid is recorded, no rung is skipped, an analysis is whole, extracted once, every article is analysed |
| `crawl_pass` | two workers with a budget of two and one page, one bucket, clocks apart | pages are counted, nothing left behind, browser last, polite, every pass ends |
| `crawl_outage` | is a page whose site was out of order fetched again? | **violated**: it is blocked at the first 5xx |
| `retention` | cycles beside writers, failing statements and counts, lost replies, deaths | types and foreign keys, counted once, live has its raw page, a completed cycle is clean, expired articles go |

Every property of a passing run has a mutant: a plausible mistake in one mapped
definition under which TLC finds that property violated. `TypeOK` of the other modules
is stated and proved; the runs leave it out.

### The disagreement

* **An outage blocks the page** (`crawl_outage`; `spiders/base.py:372`;
  `docs/crawl-lifecycle.md:41` has transient failures go to retry_pending).
  `_classify_failure` tests for `IgnoreRequest` before it looks at a status, and what
  Scrapy raises for every 4xx and 5xx answer, `HttpError`, is an `IgnoreRequest`. The
  answer is classed as restricted by robots.txt, which `mark_failed` treats as
  permanent; the branch that reads 429 and 5xx (388-396) is never reached.

### Further configurations

These are kept for whoever wants to see the behaviour; they are not among the regular
runs. Each of them ends in a violation.

* `frontier_url_lost.cfg`, **a URL that is lost** (`services/frontier.py:242`; its
  header, line 8, promises "no URL is ever lost"). Worker A's fetch outlives its
  lease, the reaper requeues the URL, A loads it as queued and B claims it. A's commit
  names status and date only and leaves B's lease columns on a success row; B loads
  that row, so its UPDATE will name the lease columns but not the status. A job requeues
  the URL and a worker claims it before B commits: the row ends as `leased` with no
  `lease_expires_at`. The reaper compares the date, the claim query looks at queued and
  retry_pending rows: neither ever finds it.
* `frontier_recrawl.cfg`, **no recrawl** (`frontier.py:182`; `docs/crawl-lifecycle.md:39`
  has success rows go back to queued). `claim_batch` selects queued and retry_pending
  rows only.
* `queue_lost.cfg`, **a lost message** (`queues.py:103`; `docs/architecture.md:74`
  promises at-least-once delivery). `retry` acknowledges before it adds the delayed
  envelope; a death in between loses the message.
* `jobs_terminal.cfg`, **a terminal job that moves** (`crawl_jobs.py:146`;
  `docs/crawl-lifecycle.md:17`; `TerminalIsFinal`). A cancel and a completion are both
  valid when checked and both written.
* `articles_hidden.cfg`, **a hidden story** (`embeddings.py:126`;
  `docs/deduplication.md:50`: "Every stage is idempotent"). An embedding message handled
  again judges the original against the article that was already marked as its
  duplicate; the API leaves out both.
* `articles_scaled.cfg`, **a vector of an older text** (`embeddings.py:64`-`86`;
  `docs/runbook.md:107`: "scale `processor-cleaning` / `processor-embedding` the same
  way"; `VectorIsPresent`). With two embedders and nothing going wrong, the one that is
  slow with the first version of an article stores its vector over that of the second;
  both messages are acknowledged, and the vector stays that of the old text. `Enriched`
  says what is left: a vector of one of the versions, and the right one wherever no two
  embedders met.
* `retention_breakdown.cfg`, **a breakdown of what was not deleted**
  (`models/retention.py:55`: "Cumulative language breakdown of deleted articles"). The
  batch is tallied when it is selected (`retention.py:146`); a batch that fails on a
  foreign key is in the breakdown and not in the total.
* `llm_costs.cfg`, **tokens under the wrong provider** (`docs/observability.md:86`:
  "daily LLM extractions/tokens/cost per provider"). The tokens of a provider that
  answered uselessly are on the row of the one that answered last.
* `politeness_budget.cfg`, **a request without a token** (`docs/benchmarks.md:18-19`:
  adding a worker "never exceeds per-domain budgets"). After 30 seconds the middleware
  lets the request go (`middlewares.py:53`).

### Bounds and why they are enough

* *Frontier*: two workers and two URLs (a hub, an article) with `BatchLimit` 2,
  `LeaseTime` 2, three retries: enough for a batch shared between workers, a lease that
  ends while the other URL is held, and the whole retry ladder. The overlap runs take one
  URL and `LeaseTime` 1, because the mixtures arise on one row. `RetryCap` bounds the
  retry count only where outcomes overlap.
* *StreamQueue*: two consumers, two messages (one of them malformed in `queue_live`,
  one whose handler's exception escapes in `queue_crash`), two attempts, `Batch` 1 so
  that the "or 1" of the read is reached, one replay.
* *CrawlJobs*: two clients and two job workers on one job, or two jobs of two sources;
  three or four requests give every sequence of pause, resume and cancel up to the
  point where statuses repeat; slices of zero or two pages with a budget of one page.
* *Articles*: two articles, two texts in each other's gray zone, two fetches
  (`MaxFetches`), two cleaners, two embedders and an analyst, two attempts
  (`MaxAttempts`), and one mishap (`MaxMishaps`): a death, an exception, or a message that
  goes to a second worker while the first is still at it; conflicts of two cleaners and
  collisions of two embedders are no mishaps and happen as often as they come. Two
  fetches are two pages of one article or one of each: the conflict of two updates, the
  pair of duplicates and the stale vector. A page or a request becomes a dead letter when
  one attempt ends in a conflict and the other in a mishap. More mishaps and more
  workers are what the theorems of section 4 are for.
* *Deduplication*: four bands as in the code, of two bits instead of sixteen, threshold
  three and gray zone six as in the code; four articles, five texts whose hashes lie on
  both sides of the threshold and of the gray zone, some with the sign bit, one without
  any bit; a query limit of two so that it can cut off rows, one candidate passed on.
* *LlmWorker*: two workers, two articles (one came with a summary), two entities of which
  an answer names one, so that answers about one article differ and answers about two
  name the same; a chain of two providers or of the one that runs on the host alone, two
  attempts, one mishap (`MaxMishaps`): a death, or a second worker on a message that went
  stale. Exceptions that nobody handles (`Escape`) are not bounded. That gives collisions
  on the entity and every order of answers on both rungs.
* *CrawlPass*: three pages (a sitemap index that links to an article, which robots.txt
  disallows, and to a sitemap), batches of two, budgets of two pages and one, one pass
  each; a burst of one, a token per tick, patience of two ticks, clocks one tick apart,
  one fault. Once the index is fetched both its links are due, each worker claims one,
  and their requests compete for one token while their patience runs out.
* *Retention*: two articles in two languages, batches of one, two batches per cycle, a
  window of one tick, days of two ticks, four points of time, two dependent tables with
  at most two rows per article, one fault: a batch that is held, a cycle that reaches
  its last batch, a creation that crosses midnight.

Deadlock is checked for `Frontier`, `StreamQueue`, `Deduplication` and `Retention`.
`CrawlJobs`, `Articles`, `LlmWorker` and `CrawlPass` may stop: the requests, fetches,
messages and passes are bounded, and then everything is done.

### Fairness

* `Frontier!FairSpec`: time passes; every loop worker reaps at the top of each round
  (`run_worker.py:254`); a due URL is claimed by some worker that goes round; an open
  request ends, with or without an outcome (download timeouts and the closing of the
  spider bound it). Jobs and crashes are not fair. That a claim reaches a given URL
  needs that its source keeps being crawled and that higher priorities do not
  starve it: the batch limit of the instance covers both URLs.
* `StreamQueue!FairSpec`: time passes and each worker goes on with its loop
  (`run_worker.py:196`); commits are not fair in themselves, so a message may fail each
  time and be buried.
* `CrawlJobs!FairSpec`: an open request is finished by its server, a started pass goes
  on, a listener task handles what it received (`control.py:84`). `jobs_live` has no
  job workers: the completion of a pass that overlaps a pause overwrites the paused
  status without a signal, and then rows and workers disagree.
* `LlmWorker!FairSpec`: a worker goes on with its loop (`run_llm_worker.py`), and one
  that ended is started again; every call to a provider returns, because its HTTP client
  has a timeout. Of errors and answers that the ladder handles nothing is assumed: it
  ends in the heuristic. Exceptions that it does not handle are assumed to stop some time
  (`EveryArticleIsAnalysed` says so): the worker ends with each of them, and as long as
  every call ends in one the message is never done.
* `CrawlPass!FairSpec`: time passes, a claim that was begun returns or fails, Scrapy
  sends `spider_idle` while the spider has nothing to do and closes it when it is asked
  to, and each request is dispatched, waits and is answered (download timeouts). Reaping
  and due dates are not fair.
* `Retention!FairSpec`: the worker goes round (`run_retention_worker.py:80-97`). Neither
  the clock nor the writers are fair; the statement that fails is not either.

## 4. The proofs

Every theorem holds for all values of the constants that satisfy the module's
assumptions: limits and intervals positive, `None` different from everything it stands
beside, the sets that are counted finite. Where a theorem needs more, its statement says
so (`Punctual`, `SerialSpec`). Each rests on an inductive invariant with one lemma per
action.

* **Frontier.** `TypeCorrect`; `LeaseColumnsAlwaysAgree`: owner and expiry are NULL
  together, whatever overlaps. Not inductive by itself: a commit writes some of the
  columns of an older row. `WritesBothOrNeither` (an open transaction names both lease
  columns or neither, and writes them NULL) makes `LeaseInv` inductive.
  `LeaseIsNeverTaken` follows from the types alone, action by action.
  `OnlyLateOutcomesLose` needs `HolderIsWhole`: the open outcome of the worker that does
  hold the lease was computed from a row that both queries find, and writes enough
  columns to leave such a row. Both are without any assumption on the length of a fetch.
  `SoleHolderHolds` and `RetryBudgetHolds`, under `Punctual`: `PunctualInv` adds the rules
  `RowOK` on every row and `PendingIsWhole`, that an open transaction writes every column
  except possibly an unchanged retry count, and what it writes satisfies `RowOK`.
  `SoleHolder` keeps everyone else from the row of an open request, so the commit
  replaces the row by a whole outcome; `RowOK` in turn gives the next outcome a leased row
  with its due date still set, which is why all columns change. `frontier_url_lost.cfg`
  shows that without `Punctual` this chain breaks.
* **StreamQueue.** `TypeCorrect`, with deaths, includes the bound on what a worker has in
  hand: `TInv` adds that every copy is of a published message and that a worker comes to
  a new batch with nothing in hand. For `AcksAreFinished` `AInv` adds that what was
  applied is settled. For `PunctualWorkAlone` `SInv` adds that what a worker has in hand
  and pending is not yet stale. `NothingIsLost` and `IsWorkQueue` are about workers that
  do not die: `RInv` says that each published message is settled or has a copy in the
  stream, in an open retry, among the delayed ones, in a pump or among the letters no
  replay is about to delete, and that a letter's entry is acknowledged for good.
  `LettersAlwaysExhausted`, with deaths, late workers and replays: a count of failures is
  not inductive, because the attempt of a message travels in its retry. `LInv` lets every
  attempt number be backed by the log: before an entry at its n-th attempt n - 1 entries
  of the same payload have failed, and a delayed or pumped retry counts its origin too;
  ids grow, so two retries of one entry that two late workers failed on count it once
  and bear the same attempt. The refinement maps a message to open while a copy is
  anywhere, and has one step lemma per command; `Escape` can end the last stale copies
  of several messages at once, which is why `WorkQueue!Bury` takes a set.
* **CrawlJobs**: `TypeCorrect`, whatever overlaps. `DatesAlwaysAgree` and
  `CrawledIsNeverQueued` are about `SerialSpec`: `JInv` says of each open transaction that
  the status it loaded is still the row's and that its write is the one `Transition`
  fills in (`TxnsOK`), of each worker's mode which statuses its job may have (`ModesOK`),
  and of each row what its status says of its dates (`RowsOK`); `OneWriter` is what keeps
  the first of these. `SignalsAlwaysAgree` is about requests that do overlap
  (`CalmSpec`: none of them fails), with one job per source (`OneJobPerSource`) and no
  job worker; `SignalsAgreeBesideWorkers` allows job workers, when transactions on
  one job do not overlap (TLC shows that with overlap rows and workers disagree).
  `SignalInv` follows each signal from its publication: a worker that hears all that is in
  its inbox will pause a source exactly when its job is paused, or will be once the
  request that holds the row lock commits (`HeardOK`); at most one request holds it.
* **Articles**, for any number of workers of each kind: `TypeCorrect`, `HistoryIsKept`,
  the action property `NothingAckedIsLost`, and `EnrichedInTheEnd`. `IInv` ties what a
  cleaner has in hand to the versions (`PagesOK`): the version it starts from exists and
  differs from its text, and after its commit its text is among them; the unique keys
  keep that true when another cleaner commits first. `EnrichmentInv` adds `FreshOK` (no
  request is ahead of its article, an embedder has read one of the versions, and the
  present text when its request is of the present version), `AloneOK` (an article that is
  not crossed has at most one embedder, whose vector is still there) and `VectorOK`: the
  request of the present version is still to be published, in the stream, or done, in
  which case a vector is stored and, without crossing, it is the right one and no
  embedder is about to write that of an older text. `AnalysisOK` is the same for the
  analysis.
* **Deduplication**: `PigeonHole` (two sets of bits that differ in fewer places than
  there are bands agree on a band: otherwise each band would have a differing bit of its
  own, and that choice is an injection from the bands into fewer bits); `LookupExact`
  and `TableIsApart` follow, for any number and width of bands; `CandidatesAlwaysGray`
  says what is passed on for judging. `RowsAgree` says that a
  stored simhash is the signed form of the text's, `LookupsHold` that a lookup that is
  not stale still speaks for the table.
* **LlmWorker**: `TypeCorrect`, `PaidIsAlwaysRecorded`, `LadderIsAlwaysClimbed`,
  `AnalysisIsAlwaysWhole`, `ExtractedOnceOnly`, and the action property `AckedIsAnalysed`
  (no message leaves the stream before its article is analysed), for any chain of
  providers and any number of workers. `LadderIsClimbed` says nothing of a job that is
  past the ladder and too little of one that climbs it: `JobOK` adds which provider a job
  is at, how many of its attempts are used, and that those further down have none. For
  `ExtractedOnce`, `ExtractionsOK` counts the workers at an article together with its
  completed rows: together they are at most one more than the overlaps, since a
  second worker on a message that is not acknowledged is an overlap. `AnalysisIsWhole`
  has the links of an article be the union of what its completed rows named, however answers
  differ and whichever came last.
* **CrawlPass**: `TypeCorrect`, `PagesAlwaysCounted`, `NothingLeft`, `BrowserStaysLast`,
  `AlwaysPolite`. `PassInv` ties the counters of a pass to the requests in hand
  (cardinalities of sets that change by one batch or one page); `BucketInv` bounds the
  debt: it is at most the burst plus the skew, and together with the level that any
  worker's clock would see it never exceeds that bound while it is positive.
* **Retention**: `TypeCorrect` (with the foreign keys), `LiveHaveRaw`,
  `CompletedLeavesNothing`, and `AlwaysCountedOnce` from two halves. Creations
  (`CreationsAlwaysCounted`): every day's counter lies between the articles counted on it
  and these with those born on it, since no step lowers it and a creation adds an article
  to its day as it counts it. Deletions: the history variables `inCycle` and `onDay` name
  the articles that a cycle has deleted and those each day's rollup stands for; a batch
  that goes was still there, so it is in neither, and what a cycle's record adds to its
  day is what its batches have committed and counted, failed cycles included; what is
  gone and in no rollup is in `missed`, which only the two gaps named in section 2 and
  cycles without a record fill. `RInv` adds that an open creation has its raw page and no
  row yet, that the pages removed in a batch are of articles that are gone, that the
  cutoff is a window ago, so that what is committed meanwhile is not due, and that a
  batch is worked on only while batches are left.

**Only model-checked**: liveness (`LeaseEnds`, `QueuedIsClaimed`, `PauseIsHeard`,
`EveryArticleIsAnalysed`, `PassEnds`, `ExpiredIsPurged`, the fairness half of
`IsFairWorkQueue`), which needs ENABLED; and `NoUrlLost`, which follows from the same
invariant as `RetryBudget` (`RowsOKImplies`) but says little of a platform whose fetches
may outlive their leases: the theorem about it is `OnlyLateOutcomesLose`.

## 5. What is not modelled

See the components of `PROJECT.json` for each part and the reason. In short: URL
normalisation, cleaning, language detection, extraction and selectors are functions on
strings without state; the queries of the API, search and the dashboard only read; model
inference, authentication, settings, metrics, migrations and deployment hold no state
whose interleaving matters; heartbeats are read by people only, nothing is decided on
them. Within the modelled parts: the job counters (atomic increments), the priorities'
formula, the prompts and HTTP of the providers, discovery rules and robots.txt requests,
rejected and malformed pages, malformed requests of the enrichment workers (dead letters
at once, which `StreamQueue` has) and requests whose article is gone (acknowledged), the
replay of dead pages and requests, the retries inside Scrapy and httpx.

## 6. Observations without a run

* A fetch that outlives its lease ends the lease of the worker that claimed the URL
  after it (`frontier.py:252`); that and nothing else takes a running lease
  (`LeaseIsNotTaken`).
* A page whose callback raises keeps its retry count, so it is leased, reaped and fetched
  for ever (`spiders/base.py:196`); a link with an unreadable port is one way to get
  there (`urlnorm.py:111` raises in `parse_page`).
* An exception that escapes the LLM worker ends it, and its message is claimed again with
  the same attempt number (`run_llm_worker.py:74`): one that recurs, such as Gemini's
  transport errors (`llm/providers.py:127` catches only what the API answers) or a reply
  without the expected fields (169, 206), ends every worker that takes the message, and
  the message never reaches the dead letters.
* A cleaner that dies, or whose publish raises, after its commit leaves an article that is
  never analysed or embedded (`run_worker.py:133`-`146`): the page comes back, is found
  unchanged and is not fanned out. A death inside `retry` loses the page or the request
  (`queues.py:103`).
* Two embedders at one article may break the unique key of its vector's slot
  (`models/article.py:156`); the slower one is retried, at the cost of an attempt.
* An exception between the commit of a purge batch and its count
  (`retention.py:166`-`172`; `_s3_client` at 81 is outside the guarded part) leaves the
  batch out of the record of the cycle, as does a commit whose reply is lost.
* `retention.py:3`-`4` has the raw HTML removed before the article rows are deleted; the
  code commits the rows first (166) and removes the pages after it (168). The order of
  the code is the better one: a failed batch keeps its pages (`LiveHasRaw`).
* `llm/extractor.py:7` and `docs/architecture.md:93` send an article whose providers all
  failed to the dead letters; the worker stores the heuristic answer and acknowledges.
* `_finish_job` completes a job whose slice is unfinished (`run_worker.py:171`; its
  docstring, line 158, says "once its frontier slice is exhausted").
* A restarted loop worker has forgotten the paused sources (`run_worker.py:200`).
* Scrapy's page count, which closes the spider, counts robots.txt answers and both
  fetches of a page that is retried in the browser: a pass can end with pages of its
  budget unclaimed (`pagecount` in `CrawlPass`). `bytes_downloaded` is always None.
* A page that was given back and retried can become the newest version of its article
  after a later page did (`articles.py:130`).
* An updated article whose page brings its own summary keeps the sentiment of its first
  text (`run_llm_worker.py:82`).
* Near duplicates found at cleaning are not stored at all (`articles.py:56`), where
  `docs/deduplication.md` says they are marked and never deleted.
* Distances four to six are found only when a band happens to agree
  (`docs/deduplication.md:33` calls them gray-zone candidates without that condition),
  and the candidate query returns at most 500 rows in no order (`dedup.py:108`).
* A crawler that dies between the frontier's commit and the XADD
  (`pipelines/frontier.py:124`) never enqueues that text.
* Raw pages of later versions of an article are never deleted: the purge removes the
  page its row names.
* A cycle that dies leaves no record, although `retention.py:5` says that every cycle is
  recorded; the statistics page shows its deletions as "pre-instrumentation"
  (`stats.py:452`-`455`).
* `list_workers` does not look at `stale_after_seconds`.

## 7. Plan

Built, in this order: the frontier and its proofs, the stream queue and its abstraction,
the jobs, the article store, retention, the provider ladder, the passes with their rate
limiter, the near-duplicate lookup, and theorems about all of them: of the invariants
that the runs check every one but `NoUrlLost` is a theorem. What is left:

1. `PageDelivery`: the frontier's content hash, the stream and the cleaner composed,
   with the two crash gaps (commit before XADD, commit before fan-out); abstract
   specification: every changed text is stored or known to be a duplicate.
2. The counters of a crawl job, composed with the passes that increment them.
3. The refinement of `LlmWorker`'s and `Articles`' streams to `WorkQueue`, so far an
   assumption about how they use it.
