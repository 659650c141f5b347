------------------------------ MODULE Frontier ------------------------------
(***************************************************************************)
(* The URL frontier: the table crawl_urls (models/crawl.py) and the        *)
(* operations of services/frontier.py on it, as the spiders, the crawl     *)
(* workers and the job service call them.                                  *)
(*                                                                         *)
(* A row is what the crawl_urls columns status, lease_owner,               *)
(* lease_expires_at, next_crawl_at and retry_count hold.  The two dates    *)
(* are kept as the time left until them, so that the model needs no clock: *)
(* Tick lets all of them come nearer, down to the value below which the    *)
(* code no longer tells dates apart (-1 for a lease, 0 for a due date).    *)
(*                                                                         *)
(* The outcome of a fetch is a transaction of two steps, because the code  *)
(* loads the row without locking it (db.get), computes the new columns     *)
(* from what it loaded and writes them when the transaction commits.       *)
(* SQLAlchemy's UPDATE names only the columns that differ from the loaded  *)
(* ones, so two overlapping transactions can leave a mixture of both rows. *)
(***************************************************************************)
EXTENDS Integers, FiniteSets

CONSTANTS
    Urls,           \* the normalized URLs of the model
    Workers,        \* the crawl worker processes
    None,           \* SQL NULL
    Priority,       \* the priority column of each URL
    Scopes,         \* the row sets that the filters of a claim can select
    EntrySets,      \* the entry URL sets of the jobs that can be created
    BatchLimit,     \* batch_size: most URLs one claim returns
    LeaseTime,      \* lease_seconds
    MaxRetries,     \* max_retries
    RetryCap,       \* bound: no failure is recorded on a row that counts this many
    Delays,         \* the values compute_backoff_seconds can return
    RecrawlTime,    \* the recrawl interval of each URL: hub minutes or article hours
    ArticleRecrawl, \* recrawl_article_hours
    Punctual        \* TRUE: every fetch ends before its lease does

ASSUME FrontierAssumption ==
    /\ None \notin Workers /\ None \notin Int
    /\ Priority \in [Urls -> Int]
    /\ Scopes \subseteq SUBSET Urls
    /\ EntrySets \subseteq SUBSET Urls
    /\ BatchLimit \in Nat \ {0}
    /\ LeaseTime \in Nat \ {0}
    /\ MaxRetries \in Nat \ {0}
    /\ RetryCap \in Nat /\ RetryCap >= MaxRetries
    /\ Delays \subseteq Nat \ {0}
    /\ RecrawlTime \in [Urls -> Nat \ {0}]
    /\ ArticleRecrawl \in Nat \ {0}
    /\ Punctual \in BOOLEAN

VARIABLES
    rows,    \* the crawl_urls row of each URL
    stage,   \* what each worker is doing with each URL
    write    \* the columns the open outcome transaction will write

vars == <<rows, stage, write>>

-----------------------------------------------------------------------------
(* Rows and transactions.                                                  *)

Statuses == {"absent", "queued", "leased", "success", "retry_pending",
             "failed", "blocked", "skipped"}
Columns  == {"status", "owner", "expires", "next", "retry"}
Stages   == {"idle", "fetching", "marking"}
Categories == {"permanent", "blocking", "transient"}

\* A date as the time left until it; "expires" counts down to -1, "next" to 0.
Timers == Int \cup {None}
Row == [status : Statuses, owner : Workers \cup {None},
        expires : Timers, next : Timers, retry : Nat]
Write == [cols : SUBSET Columns, row : Row]

Absent  == [status |-> "absent", owner |-> None, expires |-> None,
            next |-> None, retry |-> 0]
NewRow  == [status |-> "queued", owner |-> None, expires |-> None,
            next |-> 0, retry |-> 0]
NoWrite == [cols |-> {}, row |-> Absent]

\* The columns the UPDATE statements of the frontier set.
\* Mutant of MakeDue: the due date is left as it is.
MakeDueKeepsDate(row, status) == [row EXCEPT !.status = status, !.retry = 0]
MakeDue(row, status) == [row EXCEPT !.status = status, !.next = 0, !.retry = 0]
LeaseTo(row, w) == [row EXCEPT !.status = "leased", !.owner = w, !.expires = LeaseTime]
\* Mutant of EndLease: the expiry is left behind.
EndLeaseKeepsExpiry(row, status) == [row EXCEPT !.status = status, !.owner = None]
EndLease(row, status) == [row EXCEPT !.status = status, !.owner = None, !.expires = None]

\* The columns an UPDATE of a loaded row names: those the new row changes.  Two
\* dates computed at different moments are never equal, two NULLs are.
ChangedColumns(old, new) ==
    {c \in Columns : new[c] # old[c] \/ (c = "next" /\ new.next # None)}

\* What the UPDATE leaves in a row that may have changed since it was loaded.
Merge(row, w) ==
    [status  |-> IF "status"  \in w.cols THEN w.row.status  ELSE row.status,
     owner   |-> IF "owner"   \in w.cols THEN w.row.owner   ELSE row.owner,
     expires |-> IF "expires" \in w.cols THEN w.row.expires ELSE row.expires,
     next    |-> IF "next"    \in w.cols THEN w.row.next    ELSE row.next,
     retry   |-> IF "retry"   \in w.cols THEN w.row.retry   ELSE row.retry]

-----------------------------------------------------------------------------
Init ==
    /\ rows = [u \in Urls |-> Absent]
    /\ stage = [w \in Workers |-> [u \in Urls |-> "idle"]]
    /\ write = [w \in Workers |-> [u \in Urls |-> NoWrite]]

(* Discovery and operator requests.                                        *)

\* add_urls without requeue_existing: a known URL only has its last_seen_at
\* refreshed, an unknown one is inserted and due at once.
Discovered(table, found) ==
    [u \in Urls |-> IF u \in found /\ table[u].status = "absent"
                    THEN NewRow ELSE table[u]]

\* Mutant of SeedJob: claimed rows are requeued too.
SeedJobRequeuesLeased(entry) ==
    /\ rows' = [u \in Urls |-> IF u \in entry THEN MakeDue(rows[u], "queued") ELSE rows[u]]
    /\ UNCHANGED <<stage, write>>

\* add_urls with requeue_existing, for the entry URLs of a new job: rows that are
\* not claimed are made due now.  The lease columns are not among those it sets.
SeedJob(entry) ==
    /\ rows' = [u \in Urls |->
                  IF u \in entry /\ rows[u].status # "leased"
                  THEN MakeDue(rows[u], "queued")
                  ELSE rows[u]]
    /\ UNCHANGED <<stage, write>>

\* requeue_failed, for a RETRY_FAILED job of a source.
RequeueFailed(scope) ==
    /\ rows' = [u \in Urls |->
                  IF u \in scope /\ rows[u].status = "failed"
                  THEN MakeDue(rows[u], "retry_pending")
                  ELSE rows[u]]
    /\ UNCHANGED <<stage, write>>

-----------------------------------------------------------------------------
(* Claiming.                                                               *)

Claimable(row) == row.status \in {"queued", "retry_pending"}
\* Mutants of Due: leased rows are handed out again; pending retries never are.
DueAlsoLeased(row) ==
    (Claimable(row) \/ row.status = "leased") /\ row.next # None /\ row.next <= 0
DueOnlyQueued(row) == row.status = "queued" /\ row.next # None /\ row.next <= 0
Due(row) == Claimable(row) /\ row.next # None /\ row.next <= 0

\* claim_batch.  candidates are the due rows the filters select, less those that
\* SKIP LOCKED passes over; ORDER BY priority and LIMIT choose among them (due
\* dates in the past are not told apart).  The batch becomes leases of the worker,
\* which schedules a request for each row.  Bound: a worker does not claim a URL
\* again while its own earlier request for it is still open.
Claim(w, scope, locked) ==
    LET candidates == {u \in Urls : Due(rows[u])} \cap (scope \ locked)
    IN  \E batch \in SUBSET candidates :
          /\ batch # {}
          /\ \/ Cardinality(batch) = BatchLimit
             \/ Cardinality(batch) < BatchLimit /\ batch = candidates
          /\ \A u \in batch, v \in candidates \ batch : Priority[v] <= Priority[u]
          /\ \A u \in batch : stage[w][u] = "idle"
          /\ rows' = [u \in Urls |->
                        IF u \in batch
                        THEN LeaseTo(rows[u], w) ELSE rows[u]]
          /\ stage' = [stage EXCEPT ![w] = [u \in Urls |->
                        IF u \in batch THEN "fetching" ELSE stage[w][u]]]
          /\ UNCHANGED write

-----------------------------------------------------------------------------
(* Outcomes: the transaction loads the row ...                             *)

LoadAndSet(w, u, new) ==
    /\ stage[w][u] = "fetching"
    /\ stage' = [stage EXCEPT ![w][u] = "marking"]
    /\ write' = [write EXCEPT ![w][u] =
                   [cols |-> ChangedColumns(rows[u], new), row |-> new]]
    /\ UNCHANGED rows

AfterFetch(interval) ==
    [status |-> "success", owner |-> None, expires |-> None,
     next |-> interval, retry |-> 0]

MarkSuccess(w, u) == LoadAndSet(w, u, AfterFetch(RecrawlTime[u]))

\* A 304 reschedules every kind of page by the article interval.
MarkNotModified(w, u) == LoadAndSet(w, u, AfterFetch(ArticleRecrawl))

Backoff(category, delay) == IF category = "blocking" THEN 4 * delay ELSE delay

\* Mutants of AfterFailure: one retry too many; the count goes down; the date of
\* the last retry is dropped one failure early.
AfterFailureOneMore(row, category, delay) ==
    LET n == row.retry + 1
    IN  [status |-> IF category = "permanent" THEN "blocked"
                    ELSE IF n > MaxRetries THEN "failed" ELSE "retry_pending",
         owner |-> None, expires |-> None,
         next |-> IF category = "permanent" \/ n > MaxRetries THEN None
                  ELSE Backoff(category, delay),
         retry |-> n]
AfterFailureCountsDown(row, category, delay) ==
    [status |-> "retry_pending", owner |-> None, expires |-> None,
     next |-> Backoff(category, delay), retry |-> row.retry - 1]
AfterFailureDateGoesEarly(row, category, delay) ==
    LET n == row.retry + 1
        out(status, next) == [status |-> status, owner |-> None, expires |-> None,
                              next |-> next, retry |-> n]
    IN  IF category = "permanent" THEN out("blocked", None)
        ELSE IF n >= MaxRetries THEN out("failed", None)
        ELSE out("retry_pending",
                 IF n + 1 >= MaxRetries THEN None ELSE Backoff(category, delay))

AfterFailure(row, category, delay) ==
    LET n == row.retry + 1
        out(status, next) == [status |-> status, owner |-> None, expires |-> None,
                              next |-> next, retry |-> n]
    IN  IF category = "permanent" THEN out("blocked", None)
        ELSE IF n >= MaxRetries THEN out("failed", None)
        ELSE out("retry_pending", Backoff(category, delay))

MarkFailed(w, u, category, delay) ==
    /\ rows[u].retry < RetryCap
    /\ LoadAndSet(w, u, AfterFailure(rows[u], category, delay))

(* ... and its COMMIT writes the changed columns, after inserting the links  *)
(* found on the page.                                                        *)
Commit(w, u, found) ==
    /\ stage[w][u] = "marking"
    /\ rows' = [Discovered(rows, found) EXCEPT ![u] = Merge(rows[u], write[w][u])]
    /\ stage' = [stage EXCEPT ![w][u] = "idle"]
    /\ write' = [write EXCEPT ![w][u] = NoWrite]

\* A fetch that ends without an outcome: the callback or a pipeline raises, or
\* the spider closes on its page count with the request still scheduled.
Abandon(w, u) ==
    /\ stage[w][u] # "idle"
    /\ stage' = [stage EXCEPT ![w][u] = "idle"]
    /\ write' = [write EXCEPT ![w][u] = NoWrite]
    /\ UNCHANGED rows

\* The worker process dies; open transactions roll back.
Crash(w) ==
    /\ \E u \in Urls : stage[w][u] # "idle"
    /\ stage' = [stage EXCEPT ![w] = [u \in Urls |-> "idle"]]
    /\ write' = [write EXCEPT ![w] = [u \in Urls |-> NoWrite]]
    /\ UNCHANGED rows

-----------------------------------------------------------------------------
(* Operations on a held lease that no worker calls, only the tests: part of  *)
(* the component's interface.                                                *)

\* extend_lease
ExtendLease(w, u) ==
    /\ stage[w][u] = "fetching"
    /\ rows[u].owner = w
    /\ rows' = [rows EXCEPT ![u].expires = LeaseTime]
    /\ UNCHANGED <<stage, write>>

\* release: the UPDATE is guarded by the owner, the worker drops the request.
Release(w, u) ==
    /\ stage[w][u] = "fetching"
    /\ rows' = IF rows[u].owner = w
               THEN [rows EXCEPT ![u] = EndLease(rows[u], "queued")]
               ELSE rows
    /\ stage' = [stage EXCEPT ![w][u] = "idle"]
    /\ UNCHANGED write

\* skip: not guarded by the owner.
Skip(w, u) ==
    /\ stage[w][u] = "fetching"
    /\ rows' = [rows EXCEPT ![u] = EndLease(rows[u], "skipped")]
    /\ stage' = [stage EXCEPT ![w][u] = "idle"]
    /\ UNCHANGED write

-----------------------------------------------------------------------------
(* Failure recovery and time.                                              *)

\* Mutant of Expired: only rows without an owner are reaped.
ExpiredUnowned(row) ==
    row.status = "leased" /\ row.owner = None /\ row.expires # None /\ row.expires < 0
Expired(row) == row.status = "leased" /\ row.expires # None /\ row.expires < 0

\* reap_expired_leases, at the top of every loop of every worker.
Reap ==
    /\ \E u \in Urls : Expired(rows[u])
    /\ rows' = [u \in Urls |->
                  IF Expired(rows[u])
                  THEN EndLease(rows[u], "queued")
                  ELSE rows[u]]
    /\ UNCHANGED <<stage, write>>

CountDown(timer, floor) ==
    IF timer = None THEN None ELSE IF timer > floor THEN timer - 1 ELSE timer
Later(row) == [row EXCEPT !.expires = CountDown(row.expires, -1),
                          !.next = CountDown(row.next, 0)]

\* One unit of time passes.  With punctual workers no lease runs out under an
\* open fetch.
Tick ==
    /\ Punctual => \A w \in Workers, u \in Urls :
                     stage[w][u] # "idle" => rows[u].expires \in 1 .. LeaseTime
    /\ rows' = [u \in Urls |-> Later(rows[u])]
    /\ write' = [w \in Workers |-> [u \in Urls |->
                    [write[w][u] EXCEPT !.row = Later(write[w][u].row)]]]
    /\ UNCHANGED stage

-----------------------------------------------------------------------------
(* The ways a worker ends its work on a URL.                               *)
Outcome(w, u) ==
    \/ MarkSuccess(w, u)
    \/ MarkNotModified(w, u)
    \/ \E category \in Categories, delay \in Delays : MarkFailed(w, u, category, delay)
Finish(w, u) == \E found \in SUBSET Urls : Commit(w, u, found)

Next ==
    \/ \E entry \in EntrySets : SeedJob(entry)
    \/ \E scope \in Scopes : RequeueFailed(scope)
    \/ \E w \in Workers, scope \in Scopes, locked \in SUBSET Urls : Claim(w, scope, locked)
    \/ \E w \in Workers, u \in Urls : Outcome(w, u)
    \/ \E w \in Workers, u \in Urls : Finish(w, u)
    \/ \E w \in Workers, u \in Urls : Abandon(w, u)
    \/ \E w \in Workers : Crash(w)
    \/ Reap
    \/ Tick

LeaseApi ==
    \/ \E w \in Workers, u \in Urls : ExtendLease(w, u)
    \/ \E w \in Workers, u \in Urls : Release(w, u)
    \/ \E w \in Workers, u \in Urls : Skip(w, u)

Spec == Init /\ [][Next]_vars

\* With the lease operations that only the tests call.
ApiSpec == Init /\ [][Next \/ LeaseApi]_vars

\* Fairness: time passes, every worker loop reaps, some worker of the loop claims
\* a due row (an unfiltered pass of its source, its lock free), and every open
\* request ends, by its outcome or without one.  Nothing makes an operator create
\* a job or a worker crash.
ClaimOf(u) ==
    /\ \E w \in Workers, scope \in Scopes : Claim(w, scope, {})
    /\ Claimable(rows[u]) /\ ~Claimable(rows'[u])
Fairness ==
    /\ WF_vars(Tick)
    /\ WF_vars(Reap)
    /\ \A u \in Urls : WF_vars(ClaimOf(u))
    /\ \A w \in Workers, u \in Urls :
          WF_vars(Outcome(w, u) \/ Finish(w, u) \/ Abandon(w, u))

FairSpec == Spec /\ Fairness

-----------------------------------------------------------------------------
(* What the frontier promises.                                             *)

\* Every column holds a value of its type.
TypeOK ==
    /\ rows \in [Urls -> Row]
    /\ stage \in [Workers -> [Urls -> Stages]]
    /\ write \in [Workers -> [Urls -> Write]]

\* The two lease columns are set and cleared together, whatever transactions
\* overlap: a row with an owner and no expiry would be out of the reaper's sight,
\* one with an expiry and no owner could not be extended or released.
LeaseColumnsAgree == \A u \in Urls : (rows[u].owner = None) <=> (rows[u].expires = None)

\* The URL of every open request is leased to the worker that holds the request,
\* and the lease has not run out: two workers never work on one URL, and the
\* outcome of a fetch is never recorded on somebody else's lease.
SoleHolder ==
    \A w \in Workers, u \in Urls :
        stage[w][u] # "idle" =>
            /\ rows[u].status = "leased"
            /\ rows[u].owner = w
            /\ rows[u].expires \in 0 .. LeaseTime

\* No URL is ever lost: a row that waits to be fetched has the due date that the
\* claim query compares, a leased row has the expiry that the reaper compares, so
\* one of the two always finds it.
NoUrlLost ==
    \A u \in Urls :
        /\ Claimable(rows[u]) => rows[u].next # None
        /\ rows[u].status = "leased" => rows[u].expires # None

\* The retry budget: a URL that can still be fetched has failed fewer times than
\* max_retries since its count was last reset, one is given up as failed exactly
\* when the budget is spent, and only a URL that is given up has no due date.
RetryBudget ==
    \A u \in Urls :
        /\ Claimable(rows[u]) \/ rows[u].status = "leased" => rows[u].retry < MaxRetries
        /\ rows[u].status = "failed" => rows[u].retry = MaxRetries
        /\ rows[u].retry <= MaxRetries
        /\ rows[u].next = None <=> rows[u].status \in {"absent", "failed", "blocked"}

\* The step that ends the request of w for u, by an outcome, a release or a skip.
Ends(w, u) == stage[w][u] # "idle" /\ stage'[w][u] = "idle"

\* A lease that has not run out is left alone: only the end of an open request
\* for that URL, whose outcome is written by row id, can take it from its owner.
\* No claim, new job, retry of failed rows, link found on another page, reaper or
\* passing of time does, however long the fetches take.
LeaseIsNotTaken ==
    [][\A u \in Urls :
          /\ rows[u].status = "leased" /\ ~Expired(rows[u])
          /\ rows'[u].status # "leased" \/ rows'[u].owner # rows[u].owner
          => \E w \in Workers : Ends(w, u)]_vars

\* One of the two queries finds the row, now or when its lease has run out.
Findable(row) ==
    /\ Claimable(row) \/ row.status = "leased" => row.next # None
    /\ row.status = "leased" => row.expires # None

\* A URL falls out of the sight of both the claim and the reaper only by a late
\* outcome: that of a worker which, when it writes, no longer has the lease.
LostOnlyLate ==
    [][\A u \in Urls :
          Findable(rows[u]) /\ ~Findable(rows'[u])
          => \E w \in Workers :
                /\ Ends(w, u)
                /\ ~(rows[u].status = "leased" /\ rows[u].owner = w)]_vars

\* A claim is temporary: whoever holds a URL, and whether or not it crashes, the
\* row leaves the leased status again.
LeaseEnds == \A u \in Urls : rows[u].status = "leased" ~> rows[u].status # "leased"

\* A URL that waits in the queue or for its retry is given to a worker.
QueuedIsClaimed == \A u \in Urls : Claimable(rows[u]) ~> rows[u].status = "leased"

\* docs/crawl-lifecycle.md: a fetched URL goes back to the queue at next_crawl_at.
RecrawledWhenDue ==
    \A u \in Urls : (rows[u].status = "success" /\ rows[u].next = 0)
                       ~> rows[u].status # "success"

=============================================================================
