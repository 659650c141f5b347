------------------------------- MODULE CrawlPass -------------------------------
(***************************************************************************)
(* The passes of crawl workers over one source (orchestrate in             *)
(* run_worker.py, NewsSpiderBase in spiders/base.py): pages are claimed    *)
(* from the frontier in batches up to the pass's budget, fetched one       *)
(* request each, at most once more through the browser, and answered to    *)
(* the frontier and the job's counters; and the politeness towards the     *)
(* source's domain, which every request waits for: the token bucket all    *)
(* workers share (coordination/ratelimit.py) and the middleware that asks  *)
(* it (middlewares.py).                                                    *)
(*                                                                         *)
(* The frontier is the part of it a pass sees (module Frontier has the     *)
(* rest): which pages are due and who leases them.  Time is in ticks; the  *)
(* bucket counts in the part of a token that one tick adds.                *)
(***************************************************************************)
EXTENDS Integers, Sequences, FiniteSets, FiniteSetsExt, Functions

CONSTANTS
    Workers,
    Urls,
    Seeds,           \* pages that are due to begin with
    Type,            \* UrlType of each page
    Links,           \* the pages a page links to, best first
    None,
    Disallowed,      \* pages robots.txt disallows
    BatchSize,
    MaxPages,        \* --max-pages of each worker
    Concurrency,
    SitemapIndexLimit,
    Token,           \* ticks it takes to add a token: 1 / rate
    Burst,
    MaxWait,         \* MAX_POLITENESS_WAIT_SECONDS
    Ttl,             \* the bucket's EXPIRE
    Ahead,           \* by how many ticks each worker's clock is ahead
    Skew,            \* by how many ticks two clocks differ at most
    MaxPasses,       \* bound: passes of each worker
    MaxFaults        \* bound: failures of the database and of the storage

UrlTypes == {"homepage", "section", "rss", "sitemap", "sitemap index", "article", "other"}

ASSUME CrawlPassAssumption ==
    /\ None \notin Workers \cup Urls
    /\ Seeds \cup Disallowed \subseteq Urls /\ Type \in [Urls -> UrlTypes]
    /\ BatchSize \in Nat \ {0} /\ MaxPages \in [Workers -> Nat \ {0}] /\ Concurrency \in Nat \ {0}
    /\ Token \in Nat \ {0} /\ Burst \in Nat \ {0} /\ MaxWait \in Nat \ {0}
    /\ MaxFaults \in Nat
    /\ IsFiniteSet(Urls)
    /\ Ahead \in [Workers -> Nat] /\ Skew \in Nat
    /\ \A v, w \in Workers : Ahead[v] - Ahead[w] <= Skew
    /\ Ttl \in Nat /\ Ttl >= Burst * Token + Skew  \* ceil(burst / rate) + 60 seconds

VARIABLES
    url,      \* the frontier's status of each page and, of a leased one, its holder
    pass,     \* the pass each worker is in
    request,  \* the request for each page, where there is one
    bucket,   \* the domain's token bucket and the ticks since its ts
    debt,     \* audit: the most by which the requests that got a token in some
              \* span of time that ends now exceed what the rate allows in it
    faults

vars == <<url, pass, request, bucket, debt, faults>>

-----------------------------------------------------------------------------
Statuses == {"unknown", "due", "leased", "success", "retry", "blocked"}
Url == [status : Statuses, by : Workers \cup {None}]

\* A pass; claimed and requested (the job's pages_requested)
\* count its pages, lost those that got no answer.
Pass == [at : {"off", "starting", "open", "closing", "finished", "pagecount"},
         exhausted : BOOLEAN, refilling : BOOLEAN, robots : BOOLEAN, requiresBrowser : BOOLEAN,
         claimed : Nat, responses : Nat, requested : Nat, lost : Nat, nth : Nat]
Ended == {"off", "finished", "pagecount"}

Request == [by : Workers, at : {"scheduled", "asking", "asleep", "download"},
            browser : BOOLEAN, retried : BOOLEAN, fetches : 0 .. 2,
            waited : 0 .. MaxWait, sleep : 0 .. MaxWait, token : BOOLEAN]
ASSUME NoneAssumption == None \notin Request

Init ==
    /\ url = [u \in Urls |-> [status |-> IF u \in Seeds THEN "due" ELSE "unknown", by |-> None]]
    /\ pass = [w \in Workers |->
         [at |-> "off", exhausted |-> FALSE, refilling |-> FALSE, robots |-> FALSE,
          requiresBrowser |-> FALSE, claimed |-> 0, responses |-> 0, requested |-> 0, lost |-> 0, nth |-> 0]]
    /\ request = [u \in Urls |-> None]
    /\ bucket = [tokens |-> Burst * Token, age |-> Ttl]
    /\ debt = 0 /\ faults = 0

InHand(w) == {u \in Urls : request[u] # None /\ request[u].by = w}
InProgress(w) == {u \in InHand(w) : request[u].at # "scheduled"}
At(u, at) == request[u] # None /\ request[u].at = at
SetPass(w, p) == pass' = [pass EXCEPT ![w] = p]
SetRequest(u, r) == request' = [request EXCEPT ![u] = r]
Fault == faults < MaxFaults /\ faults' = faults + 1

-----------------------------------------------------------------------------
(* NewsSpiderBase claims.                                                  *)

\* With the source's configuration of this moment.
StartPass(w) ==
    /\ pass[w].at \in Ended /\ pass[w].nth < MaxPasses
    /\ \E requires \in BOOLEAN :
         SetPass(w, [at |-> "starting", exhausted |-> FALSE, refilling |-> FALSE, robots |-> FALSE,
                     requiresBrowser |-> requires, claimed |-> 0, responses |-> 0, requested |-> 0, lost |-> 0,
                   nth |-> pass[w].nth + 1])
    /\ UNCHANGED <<url, request, bucket, debt, faults>>

\* Mutant of Limit: a batch is as large as the frontier can make it.
LimitIsBatch(w) == BatchSize
Limit(w) == Min({BatchSize, MaxPages[w] - pass[w].claimed})

NeedsBrowser(w, u) == pass[w].requiresBrowser /\ Type[u] \notin {"sitemap", "sitemap index", "rss"}

NewRequest(w, u) ==
    [by |-> w, at |-> "scheduled", browser |-> NeedsBrowser(w, u), retried |-> FALSE,
     fetches |-> 0, waited |-> 0, sleep |-> 0, token |-> FALSE]

\* Mutant of Answered: the pass keeps asking a frontier that has nothing due.
AnsweredNever(p, batch) == [p EXCEPT !.refilling = FALSE, !.claimed = @ + Cardinality(batch)]
\* What _claim_requests leaves behind when it got this batch.
Answered(p, batch) ==
    [p EXCEPT !.refilling = FALSE, !.claimed = @ + Cardinality(batch),
              !.exhausted = batch = {},
              !.at = IF @ = "starting" THEN "open" ELSE @]

Asks(w) == pass[w].at = "starting" \/ pass[w].refilling

\* claim_batch takes the best pages that are due, as many as there are up to its limit.
Claim(w) ==
    LET due == {u \in Urls : url[u].status = "due"}
        n   == Min({Cardinality(due), Limit(w)})
    IN  /\ Asks(w)
        /\ \E batch \in kSubset(n, due) :
             /\ url' = [u \in Urls |-> IF u \in batch THEN [status |-> "leased", by |-> w] ELSE url[u]]
             /\ request' = [u \in Urls |-> IF u \in batch THEN NewRequest(w, u) ELSE request[u]]
             /\ SetPass(w, Answered(pass[w], batch))
        /\ UNCHANGED <<bucket, debt, faults>>

ClaimFails(w) ==
    /\ Asks(w) /\ Fault
    /\ SetPass(w, [pass[w] EXCEPT !.refilling = FALSE, !.at = IF @ = "starting" THEN "open" ELSE @])
    /\ UNCHANGED <<url, request, bucket, debt>>

\* _on_idle, when the scheduler and the downloader are empty.
\* Mutant of OnIdle: the pass is closed while a refill is under way.
OnIdleCloses(p) == IF p.exhausted \/ p.refilling THEN [p EXCEPT !.at = "finished"]
                   ELSE [p EXCEPT !.refilling = TRUE]
OnIdle(p) == IF p.exhausted THEN [p EXCEPT !.at = "finished"] ELSE [p EXCEPT !.refilling = TRUE]

Idle(w) ==
    /\ pass[w].at = "open" /\ InHand(w) = {}
    /\ SetPass(w, OnIdle(pass[w]))
    /\ pass' # pass
    /\ UNCHANGED <<url, request, bucket, debt, faults>>

-----------------------------------------------------------------------------
(* DistributedPolitenessMiddleware and the token bucket.                   *)

\* CloseSpider counts the responses, those of the browser's second fetch and of robots.txt
\* too, and closes the pass at its CLOSESPIDER_PAGECOUNT.
Respond(w, p) == [p EXCEPT !.responses = @ + 1,
                           !.at = IF @ = "open" /\ p.responses + 1 >= MaxPages[w] THEN "closing" ELSE @]

\* The engine takes a request up; the first of a pass has robots.txt fetched, if the
\* source's policy is to obey it.
Dispatch(u) ==
    LET w == request[u].by IN
    /\ At(u, "scheduled")
    /\ pass[w].at = "open" /\ Cardinality(InProgress(w)) < Concurrency
    /\ SetRequest(u, [request[u] EXCEPT !.at = "asking"])
    /\ \/ pass[w].robots /\ UNCHANGED pass
       \/ ~pass[w].robots /\ SetPass(w, [pass[w] EXCEPT !.robots = TRUE])
       \/ ~pass[w].robots /\ SetPass(w, Respond(w, [pass[w] EXCEPT !.robots = TRUE]))
    /\ UNCHANGED <<url, bucket, debt, faults>>

\* _BUCKET_SCRIPT_LUA with the time of the worker that runs it.
Refilled(w) == IF bucket.age = Ttl THEN Burst * Token
               ELSE Min({Burst * Token, bucket.tokens + bucket.age + Ahead[w]})
\* Mutant of Leave: the time of the bucket is written when it is made only.
LeaveOldTime(w, tokens) == bucket' = [bucket EXCEPT !.tokens = tokens]
Leave(w, tokens) == bucket' = [tokens |-> tokens, age |-> - Ahead[w]]

GetToken(u) ==
    LET w == request[u].by IN
    /\ At(u, "asking") /\ Refilled(w) >= Token
    /\ Leave(w, Refilled(w) - Token)
    /\ debt' = debt + Token
    /\ SetRequest(u, [request[u] EXCEPT !.at = "download", !.token = TRUE])
    /\ UNCHANGED <<url, pass, faults>>

SleepFor(r, wait) == Min({wait, MaxWait - r.waited})

\* No token: sleep until there may be one or the patience ends; then go without.
GetNone(u) ==
    LET w == request[u].by  r == request[u] IN
    /\ At(u, "asking") /\ Refilled(w) < Token
    /\ Leave(w, Refilled(w))
    /\ SetRequest(u,
         IF r.waited >= MaxWait THEN [r EXCEPT !.at = "download"]
         ELSE [r EXCEPT !.at = "asleep", !.sleep = SleepFor(r, Token - Refilled(w)),
                        !.waited = @ + SleepFor(r, Token - Refilled(w))])
    /\ UNCHANGED <<url, pass, debt, faults>>

WakeUp(u) ==
    /\ At(u, "asleep") /\ request[u].sleep = 0
    /\ SetRequest(u, [request[u] EXCEPT !.at = "asking"])
    /\ UNCHANGED <<url, pass, bucket, debt, faults>>

Tick ==
    /\ bucket' = [bucket EXCEPT !.age = Min({@ + 1, Ttl})]
    /\ debt' = Max({debt - 1, 0})
    /\ request' = [u \in Urls |-> IF At(u, "asleep") /\ request[u].sleep > 0
                                  THEN [request[u] EXCEPT !.sleep = @ - 1] ELSE request[u]]
    /\ UNCHANGED <<url, pass, faults>>
    /\ <<bucket, debt, request>>' # <<bucket, debt, request>>

-----------------------------------------------------------------------------
(* What comes of a fetch.                                                  *)

\* The links of a page that the frontier has not seen; of a sitemap index the newest.
Followed(u) == IF Type[u] = "sitemap index"
               THEN Range(SubSeq(Links[u], 1, Min({SitemapIndexLimit, Len(Links[u])})))
               ELSE Range(Links[u])
Answer(u, status, found) ==
    url' = [v \in Urls |-> CASE v = u -> [status |-> status, by |-> None]
                             [] v # u /\ v \in found /\ url[v].status = "unknown" ->
                                  [status |-> "due", by |-> None]
                             [] OTHER -> url[v]]

\* parse_page to the frontier pipeline's commit: a page (with what it links to), or a 304.
Succeed(u, notModified) ==
    LET p == Respond(request[u].by, pass[request[u].by]) IN
    /\ At(u, "download")
    /\ notModified => ~request[u].browser
    /\ Answer(u, "success", IF notModified THEN {} ELSE Followed(u))
    /\ SetPass(request[u].by, [p EXCEPT !.requested = @ + 1])
    /\ SetRequest(u, None)
    /\ UNCHANGED <<bucket, debt, faults>>

\* An article that cannot be used is fetched again through the browser, once.
\* Mutant of Unusable: the second request forgets that it is one.
UnusableAgain(u) == Type[u] = "article" /\ request[u].fetches < 2
Unusable(u) == Type[u] = "article" /\ ~request[u].browser /\ ~request[u].retried

RetryInBrowser(u) ==
    /\ At(u, "download") /\ Unusable(u)
    /\ SetPass(request[u].by, Respond(request[u].by, pass[request[u].by]))
    /\ SetRequest(u, [NewRequest(request[u].by, u) EXCEPT
                        !.browser = TRUE, !.retried = TRUE, !.fetches = request[u].fetches + 1])
    /\ UNCHANGED <<url, bucket, debt, faults>>

\* The exceptions a request can end in and the classes failure.check tells them by; that
\* of an HTTP status, HttpError, is Scrapy's subclass of IgnoreRequest.
Failures == {"IgnoreRequest", "playwright", "DNSLookupError", "TimeoutError", "TCPTimedOutError",
             "ConnectionRefused", "403", "429", "500", "404", "Exception"}
HasResponse(f) == f \in {"403", "429", "500", "404"}
Classes(f) == {f} \cup (IF HasResponse(f) THEN {"HttpError", "IgnoreRequest"} ELSE {})

\* _classify_failure, in the order of its checks.
Classify(f) ==
    CASE "IgnoreRequest" \in Classes(f) -> "ROBOTS_RESTRICTED"
      [] f = "playwright" -> "BROWSER_FAILURE"
      [] f = "DNSLookupError" -> "DNS_FAILURE"
      [] f \in {"TimeoutError", "TCPTimedOutError", "ConnectionRefused"} -> "CONNECTION_TIMEOUT"
      [] "HttpError" \in Classes(f) /\ "IgnoreRequest" \notin Classes(f) ->
           IF f = "500" THEN "HTTP_5XX" ELSE IF f = "404" THEN "HTTP_OTHER" ELSE "HTTP_" \o f
      [] OTHER -> "UNKNOWN"
\* The failure that spends the retry budget makes the page "failed" (module Frontier counts
\* them); here a page may be retried for ever.
AfterFailure(f) == IF Classify(f) = "ROBOTS_RESTRICTED" THEN "blocked" ELSE "retry"

\* robots.txt is asked before the bucket is; the rest can befall the download.
Possible(u, f) ==
    IF f = "IgnoreRequest" THEN At(u, "asking") /\ request[u].waited = 0 /\ u \in Disallowed
    ELSE At(u, "download") /\ (f = "playwright" => request[u].browser)

\* on_error.
Fail(u, f) ==
    LET w == request[u].by
        p == IF HasResponse(f) THEN Respond(w, pass[w]) ELSE pass[w]
    IN  /\ Possible(u, f)
        /\ Answer(u, AfterFailure(f), {})
        /\ SetPass(w, [p EXCEPT !.requested = @ + 1])
        /\ SetRequest(u, None)
        /\ UNCHANGED <<bucket, debt, faults>>

\* The upload or the database fails: nothing tells the frontier, the page stays leased.
Lose(u) ==
    LET w == request[u].by IN
    /\ At(u, "download") /\ Fault
    /\ \E p \in {pass[w], Respond(w, pass[w])} : SetPass(w, [p EXCEPT !.lost = @ + 1])
    /\ SetRequest(u, None)
    /\ UNCHANGED <<url, bucket, debt>>

\* The engine closes the spider: requests under way end, those in the scheduler are dropped.
Close(w) ==
    /\ pass[w].at = "closing" /\ InProgress(w) = {}
    /\ SetPass(w, [pass[w] EXCEPT !.at = "pagecount", !.lost = @ + Cardinality(InHand(w))])
    /\ request' = [u \in Urls |-> IF u \in InHand(w) THEN None ELSE request[u]]
    /\ UNCHANGED <<url, bucket, debt, faults>>

\* _reap_leases, at the start of a pass: leases nobody will answer to have run out.
Reap(w) ==
    /\ pass[w].at \in Ended
    /\ url' = [u \in Urls |-> IF url[u].status = "leased" /\ request[u] = None
                              THEN [status |-> "due", by |-> None] ELSE url[u]]
    /\ url' # url
    /\ UNCHANGED <<pass, request, bucket, debt, faults>>

\* A page's next_crawl_at has come.
ComesDue(u) ==
    /\ url[u].status = "retry"
    /\ url' = [url EXCEPT ![u].status = "due"]
    /\ UNCHANGED <<pass, request, bucket, debt, faults>>

-----------------------------------------------------------------------------
Throttle(u) == GetToken(u) \/ GetNone(u) \/ WakeUp(u)
Fetched(u) ==
    \/ \E notModified \in BOOLEAN : Succeed(u, notModified)
    \/ RetryInBrowser(u)
    \/ \E f \in Failures : Fail(u, f)
    \/ Lose(u)
Requests == {u \in Urls : request[u] # None}
Spider(w) == Claim(w) \/ ClaimFails(w) \/ Idle(w) \/ Close(w)

Next ==
    \/ \E w \in Workers : StartPass(w) \/ Reap(w) \/ Spider(w)
    \/ \E u \in Requests : Dispatch(u) \/ Throttle(u) \/ Fetched(u)
    \/ \E u \in Urls : ComesDue(u)
    \/ Tick

Spec == Init /\ [][Next]_vars
FairSpec ==
    /\ Spec /\ WF_vars(Tick)
    /\ \A w \in Workers : WF_vars(Claim(w) \/ ClaimFails(w)) /\ WF_vars(Idle(w)) /\ WF_vars(Close(w))
    /\ \A u \in Urls : WF_vars(Dispatch(u)) /\ WF_vars(Throttle(u)) /\ WF_vars(Fetched(u))

-----------------------------------------------------------------------------
(* What a pass and the politeness promise.                                 *)

\* Every variable holds values of its type, and a request is for a page its pass leases.
TypeOK ==
    /\ url \in [Urls -> Url] /\ pass \in [Workers -> Pass]
    /\ request \in [Urls -> Request \cup {None}]
    /\ \A u \in Requests : url[u] = [status |-> "leased", by |-> request[u].by]
    /\ bucket \in [tokens : - Skew .. Burst * Token, age : {a \in Int : a <= Ttl}]
    /\ debt \in Nat /\ faults \in 0 .. MaxFaults

\* base.py:71-73, "Hard per-pass budget": a pass claims at most its budget, and each page
\* it claimed is counted once, as requested or lost, or is still in hand: the
\* browser's second fetch makes no second page of it.
PagesAreCounted ==
    \A w \in Workers :
        LET p == pass[w] IN
        /\ p.claimed <= MaxPages[w]
        /\ p.claimed = p.requested + p.lost + Cardinality(InHand(w))

\* base.py:169, "close when the frontier has nothing due": a pass that closes itself has
\* answered every page it claimed, unless a fault lost it, and has no refill under way.
NothingIsLeftBehind ==
    \A w \in Workers :
        pass[w].at = "finished" =>
            /\ ~pass[w].refilling /\ InHand(w) = {}
            /\ pass[w].claimed = pass[w].requested + pass[w].lost

\* base.py:254 and browser.py:6: the browser fetches a page only for a source that needs
\* it or after the plain fetch of an article, and only once, never a sitemap or a feed.
BrowserIsLastResort ==
    \A u \in Requests :
        LET r == request[u] IN
        /\ r.fetches <= 1
        /\ r.browser => /\ Type[u] \notin {"sitemap", "sitemap index", "rss"}
                        /\ pass[r.by].requiresBrowser \/ (Type[u] = "article" /\ r.fetches = 1)
        /\ pass[r.by].requiresBrowser => r.fetches = 0

\* ratelimit.py:3-5: whatever the workers do together, in any span of time no more
\* requests get a token than the burst and what the rate adds in that span; clocks that
\* differ add what the rate makes of the difference.
WithinRate == debt <= Burst * Token + Skew

\* middlewares.py:52-55: no request is held longer than the maximum, and none goes
\* without a token before it was held that long.
PatienceIsSpent ==
    \A u \in Requests :
        /\ request[u].waited <= MaxWait
        /\ At(u, "download") => request[u].token \/ request[u].waited = MaxWait

\* What a domain can rely on: the tokens keep to its rate, and a request without one
\* has waited all it may.
Polite == WithinRate /\ PatienceIsSpent

\* run_worker.py:45, "cannot monopolize the only crawler forever": every pass ends.
PassEnds == \A w \in Workers : pass[w].at \notin Ended ~> pass[w].at \in Ended

\* benchmarks.md:18-19: adding a worker "never exceeds per-domain budgets (shared Redis
\* token bucket)".
NeverWithoutToken == \A u \in Requests : At(u, "download") => request[u].token

\* docs/crawl-lifecycle.md:41: "crawling -> retry_pending ... (transient failures)": a page
\* is not given up because its site was out of order.
OutageIsRetried == [][\A u \in Urls : Fail(u, "500") => url'[u].status = "retry"]_vars
=============================================================================
