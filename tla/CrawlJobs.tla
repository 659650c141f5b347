------------------------------ MODULE CrawlJobs ------------------------------
(***************************************************************************)
(* Crawl jobs: the status of a crawl_jobs row (services/crawl_jobs.py),    *)
(* the API requests and the job-mode workers that change it, the control   *)
(* signals (coordination/control.py, api/v1/crawl_jobs.py), and the loop   *)
(* workers that hear them (apps/crawler run_worker.py).                    *)
(*                                                                         *)
(* A transition loads the row, checks VALID_TRANSITIONS on what it loaded, *)
(* and writes; nothing locks the row in between.  An API request writes    *)
(* the row (and so locks it), publishes its signal and then commits.       *)
(*                                                                         *)
(* The frontier is seen here only through the number of pages of a job     *)
(* that are due and that wait for a later retry.                           *)
(***************************************************************************)
EXTENDS Integers, FiniteSets, Sequences

CONSTANTS
    Jobs,        \* the jobs operators create
    Sources,     \* the news sources
    SourceOf,    \* the source of each job
    Clients,     \* the API requests that can be open at once
    JobWorkers,  \* worker processes started with --job
    LoopWorkers, \* worker processes in loop mode
    None,
    SliceSizes,  \* how many pages creating a job can make due
    MaxPages,    \* --max-pages: the page budget of a pass
    MaxRequests  \* bound: how many API requests there are

ASSUME JobsAssumption ==
    /\ SourceOf \in [Jobs -> Sources]
    /\ Clients \cap JobWorkers = {}
    /\ None \notin Jobs /\ None \notin Sources
    /\ SliceSizes \subseteq Nat
    /\ MaxPages \in Nat \ {0}
    /\ MaxRequests \in Nat

VARIABLES
    jobs,     \* the crawl_jobs rows: status, and whether the two dates are set
    slice,    \* the pages of each job: due now, and waiting for their retry
    txn,      \* the open transaction of each client and job worker
    signal,   \* the signal each client has to publish before it commits
    mode,     \* where each job worker is, with which job
    budget,   \* the pages a job worker's pass may still fetch
    inbox,    \* the control signals on their way to each loop worker
    paused,   \* paused_sources of each loop worker
    pass,     \* the source each loop worker is crawling
    requests  \* the number of API requests so far

vars == <<jobs, slice, txn, signal, mode, budget, inbox, paused, pass, requests>>
jobWorkerVars == <<mode, budget>>
loopWorkerVars == <<inbox, paused, pass>>

-----------------------------------------------------------------------------
Statuses == {"created", "queued", "running", "paused", "completed", "failed", "cancelled"}
Terminal == {"completed", "failed", "cancelled"}

VALID_TRANSITIONS == [
    created   |-> {"queued", "cancelled"},
    queued    |-> {"running", "paused", "cancelled"},
    running   |-> {"paused", "completed", "failed", "cancelled"},
    paused    |-> {"queued", "running", "cancelled"},
    completed |-> {},
    failed    |-> {},
    cancelled |-> {}]

Ops == {"pause", "resume", "cancel"}
Signals == [op : Ops, source : Sources]
Actors == Clients \cup JobWorkers
Job == [status : Statuses \cup {"absent"}, started : BOOLEAN, completed : BOOLEAN]
Slice == [due : Nat, later : Nat]
Write == [job : Jobs, target : Statuses, start : BOOLEAN, complete : BOOLEAN]
ASSUME NoneAssumption == None \notin Write

NoJob == [status |-> "absent", started |-> FALSE, completed |-> FALSE]
NoPages == [due |-> 0, later |-> 0]

Init ==
    /\ jobs = [j \in Jobs |-> NoJob]
    /\ slice = [j \in Jobs |-> NoPages]
    /\ txn = [a \in Actors |-> None]
    /\ signal = [c \in Clients |-> "none"]
    /\ mode = [w \in JobWorkers |-> [at |-> "idle", job |-> None]]
    /\ budget = [w \in JobWorkers |-> 0]
    /\ inbox = [w \in LoopWorkers |-> <<>>]
    /\ paused = [w \in LoopWorkers |-> {}]
    /\ pass = [w \in LoopWorkers |-> None]
    /\ requests = 0

-----------------------------------------------------------------------------
(* The state machine.                                                      *)

\* Who has a transaction open on the job.
OpenOn(j) == {a \in Actors : txn[a] # None /\ txn[a].job = j}

\* Mutant of Transition: only a completed job is dated.
TransitionDatesCompleted(a, j, target) ==
    /\ target \in VALID_TRANSITIONS[jobs[j].status]
    /\ txn' = [txn EXCEPT ![a] =
                 [job |-> j, target |-> target,
                  start |-> target = "running" /\ ~jobs[j].started,
                  complete |-> target = "completed"]]

\* transition: the check and the new columns, both from the loaded row.
Transition(a, j, target) ==
    /\ target \in VALID_TRANSITIONS[jobs[j].status]
    /\ txn' = [txn EXCEPT ![a] =
                 [job |-> j, target |-> target,
                  start |-> target = "running" /\ ~jobs[j].started,
                  complete |-> target \in Terminal]]

\* The row lock that the UPDATE of an API request holds until its commit.
Locked(j) == \E c \in OpenOn(j) \cap Clients : signal[c] = "sent"

\* The UPDATE sets the columns the transition changed, whatever the row holds now.
WriteRow(a) ==
    LET w == txn[a]
    IN  jobs' = [jobs EXCEPT ![w.job] =
                   [status |-> w.target,
                    started |-> @.started \/ w.start,
                    completed |-> @.completed \/ w.complete]]

\* create_job: inserting the row and seeding the frontier is one transaction, the
\* status "created" is never committed.
CreateJob(j, n) ==
    /\ jobs[j].status = "absent"
    /\ jobs' = [jobs EXCEPT ![j].status = "queued"]
    /\ slice' = [slice EXCEPT ![j].due = n]
    /\ UNCHANGED <<txn, signal, jobWorkerVars, loopWorkerVars, requests>>

-----------------------------------------------------------------------------
(* API requests.  An invalid transition answers 409 and changes nothing.   *)
\* Mutant of TargetOf: a resumed job always goes back to the queue.
TargetOfQueues(op, row) ==
    CASE op = "pause"  -> "paused"
      [] op = "resume" -> "queued"
      [] op = "cancel" -> "cancelled"

TargetOf(op, row) ==
    CASE op = "pause"  -> "paused"
      [] op = "resume" -> IF row.started THEN "running" ELSE "queued"
      [] op = "cancel" -> "cancelled"

Request(c, op, j) ==
    /\ txn[c] = None /\ jobs[j].status # "absent"
    /\ requests < MaxRequests
    /\ Transition(c, j, TargetOf(op, jobs[j]))
    /\ signal' = [signal EXCEPT ![c] = op]
    /\ requests' = requests + 1
    /\ UNCHANGED <<jobs, slice, jobWorkerVars, loopWorkerVars>>

\* Mutant of PublishSignal: the signal is published before the row is locked.
PublishSignalUnlocked(c) ==
    /\ signal[c] \in Ops
    /\ inbox' = [w \in LoopWorkers |->
                   Append(inbox[w], [op |-> signal[c], source |-> SourceOf[txn[c].job]])]
    /\ signal' = [signal EXCEPT ![c] = "sent"]
    /\ UNCHANGED <<jobs, slice, txn, jobWorkerVars, paused, pass, requests>>

\* flush locks the row, publish_signal reaches every worker that is subscribed.
PublishSignal(c) ==
    /\ signal[c] \in Ops /\ ~Locked(txn[c].job)
    /\ inbox' = [w \in LoopWorkers |->
                   Append(inbox[w], [op |-> signal[c], source |-> SourceOf[txn[c].job]])]
    /\ signal' = [signal EXCEPT ![c] = "sent"]
    /\ UNCHANGED <<jobs, slice, txn, jobWorkerVars, paused, pass, requests>>

CommitRequest(c) ==
    /\ signal[c] = "sent"
    /\ WriteRow(c)
    /\ txn' = [txn EXCEPT ![c] = None]
    /\ signal' = [signal EXCEPT ![c] = "none"]
    /\ UNCHANGED <<slice, jobWorkerVars, loopWorkerVars, requests>>

\* The API process dies or loses its connection: the transaction rolls back.
FailRequest(c) ==
    /\ txn[c] # None
    /\ txn' = [txn EXCEPT ![c] = None]
    /\ signal' = [signal EXCEPT ![c] = "none"]
    /\ UNCHANGED <<jobs, slice, jobWorkerVars, loopWorkerVars, requests>>

-----------------------------------------------------------------------------
(* Job mode: _load_job, one spider pass, _finish_job.                      *)
Enter(w, at, j) == mode' = [mode EXCEPT ![w] = [at |-> at, job |-> j]]

\* A job that is neither queued nor running ends the process.
LoadJob(w, j) ==
    /\ mode[w].at = "idle"
    /\ jobs[j].status \in {"queued", "running"}
    /\ IF jobs[j].status = "queued"
       THEN Transition(w, j, "running") /\ Enter(w, "starting", j)
       ELSE UNCHANGED txn /\ Enter(w, "crawling", j)
    /\ budget' = [budget EXCEPT ![w] = MaxPages]
    /\ UNCHANGED <<jobs, slice, signal, loopWorkerVars, requests>>

CommitStart(w) ==
    /\ mode[w].at = "starting" /\ ~Locked(mode[w].job)
    /\ WriteRow(w)
    /\ txn' = [txn EXCEPT ![w] = None]
    /\ Enter(w, "crawling", mode[w].job)
    /\ UNCHANGED <<slice, signal, budget, loopWorkerVars, requests>>

\* The pass claims and fetches a page of the job; a page that fails for now waits
\* for its retry.  Control signals do not reach into a running pass.
Fetch(j, retry) ==
    /\ slice[j].due > 0
    /\ slice' = [slice EXCEPT ![j] =
                   [due |-> @.due - 1, later |-> IF retry THEN @.later + 1 ELSE @.later]]
CrawlPage(w, retry) ==
    /\ mode[w].at = "crawling" /\ budget[w] > 0
    /\ Fetch(mode[w].job, retry)
    /\ budget' = [budget EXCEPT ![w] = @ - 1]
    /\ UNCHANGED <<jobs, txn, signal, mode, loopWorkerVars, requests>>

\* The spider closes when its budget is spent or no page is due, and a source without
\* a spider has no pass at all; _finish_job then completes the job unless that is no
\* longer a valid transition.
EndPass(w) ==
    /\ mode[w].at = "crawling"
    /\ budget[w] \in {0, MaxPages} \/ slice[mode[w].job].due = 0
    /\ IF "completed" \in VALID_TRANSITIONS[jobs[mode[w].job].status]
       THEN Transition(w, mode[w].job, "completed") /\ Enter(w, "finishing", mode[w].job)
       ELSE UNCHANGED txn /\ Enter(w, "idle", None)
    /\ UNCHANGED <<jobs, slice, signal, budget, loopWorkerVars, requests>>

CommitFinish(w) ==
    /\ mode[w].at = "finishing" /\ ~Locked(mode[w].job)
    /\ WriteRow(w)
    /\ txn' = [txn EXCEPT ![w] = None]
    /\ Enter(w, "idle", None)
    /\ UNCHANGED <<slice, signal, budget, loopWorkerVars, requests>>

CrashJobWorker(w) ==
    /\ mode[w].at # "idle"
    /\ txn' = [txn EXCEPT ![w] = None]
    /\ Enter(w, "idle", None)
    /\ UNCHANGED <<jobs, slice, signal, budget, loopWorkerVars, requests>>

\* The backoff of the pages that wait for a retry is over.
RetryDue(j) ==
    /\ slice[j].later > 0
    /\ slice' = [slice EXCEPT ![j] = [due |-> @.due + @.later, later |-> 0]]
    /\ UNCHANGED <<jobs, txn, signal, jobWorkerVars, loopWorkerVars, requests>>

-----------------------------------------------------------------------------
(* Loop mode.  A pass takes the pages of its source, whatever job they belong to.  *)

\* Mutant of Listen: a pause of the source that is being crawled is ignored.
ListenBusy(w) ==
    /\ inbox[w] # <<>>
    /\ LET s == Head(inbox[w])
       IN  paused' = [paused EXCEPT ![w] =
                        IF s.op # "pause" THEN @ \ {s.source}
                        ELSE IF pass[w] = s.source THEN @ ELSE @ \cup {s.source}]
    /\ inbox' = [inbox EXCEPT ![w] = Tail(@)]
    /\ UNCHANGED <<jobs, slice, txn, signal, jobWorkerVars, pass, requests>>

\* on_control
Listen(w) ==
    /\ inbox[w] # <<>>
    /\ LET s == Head(inbox[w])
       IN  paused' = [paused EXCEPT ![w] =
                        IF s.op = "pause" THEN @ \cup {s.source} ELSE @ \ {s.source}]
    /\ inbox' = [inbox EXCEPT ![w] = Tail(@)]
    /\ UNCHANGED <<jobs, slice, txn, signal, jobWorkerVars, pass, requests>>

StartPass(w, s) ==
    /\ pass[w] = None /\ s \notin paused[w]
    /\ pass' = [pass EXCEPT ![w] = s]
    /\ UNCHANGED <<jobs, slice, txn, signal, jobWorkerVars, inbox, paused, requests>>

LoopPage(w, j, retry) ==
    /\ pass[w] = SourceOf[j]
    /\ Fetch(j, retry)
    /\ UNCHANGED <<jobs, txn, signal, jobWorkerVars, loopWorkerVars, requests>>

EndLoopPass(w) ==
    /\ pass[w] # None
    /\ pass' = [pass EXCEPT ![w] = None]
    /\ UNCHANGED <<jobs, slice, txn, signal, jobWorkerVars, inbox, paused, requests>>

\* A loop worker is stopped and started again: paused_sources starts empty, and
\* signals published in between are not delivered.
RestartLoopWorker(w) ==
    /\ inbox' = [inbox EXCEPT ![w] = <<>>]
    /\ paused' = [paused EXCEPT ![w] = {}]
    /\ pass' = [pass EXCEPT ![w] = None]
    /\ UNCHANGED <<jobs, slice, txn, signal, jobWorkerVars, requests>>

-----------------------------------------------------------------------------
ClientStep(c) == PublishSignal(c) \/ CommitRequest(c)
PassStep(w) ==
    \/ CommitStart(w)
    \/ \E retry \in BOOLEAN : CrawlPage(w, retry)
    \/ EndPass(w) \/ CommitFinish(w)

Next ==
    \/ \E j \in Jobs, n \in SliceSizes : CreateJob(j, n)
    \/ \E j \in Jobs : RetryDue(j)
    \/ \E c \in Clients, op \in Ops, j \in Jobs : Request(c, op, j)
    \/ \E c \in Clients : ClientStep(c)
    \/ \E w \in JobWorkers, j \in Jobs : LoadJob(w, j)
    \/ \E w \in JobWorkers : PassStep(w)
    \/ \E w \in LoopWorkers : Listen(w)
    \/ \E w \in LoopWorkers, s \in Sources : StartPass(w, s)
    \/ \E w \in LoopWorkers, j \in Jobs, retry \in BOOLEAN : LoopPage(w, j, retry)
    \/ \E w \in LoopWorkers : EndLoopPass(w)

Failures ==
    \/ \E c \in Clients : FailRequest(c)
    \/ \E w \in JobWorkers : CrashJobWorker(w)
    \/ \E w \in LoopWorkers : RestartLoopWorker(w)

Spec == Init /\ [][Next \/ Failures]_vars

\* Transactions on one job do not overlap.  Nothing in the code sees to it: it is what
\* an operator can arrange, one request at a time on a job that no worker starts or ends.
OneWriter ==
    \A a, b \in Actors : txn[a] # None /\ txn[b] # None /\ txn[a].job = txn[b].job => a = b
SerialSpec == Init /\ [][(Next \/ Failures) /\ OneWriter']_vars

\* No process dies and every request commits.
CalmSpec == Init /\ [][Next]_vars

\* Fairness: an open request is finished by its server, a started pass goes on, and
\* a worker's listener task handles what it has received.
FairSpec ==
    /\ CalmSpec
    /\ \A c \in Clients : WF_vars(ClientStep(c))
    /\ \A w \in JobWorkers : WF_vars(PassStep(w))
    /\ \A w \in LoopWorkers : WF_vars(Listen(w))

-----------------------------------------------------------------------------
(* What the job service promises.                                          *)

\* Every variable holds values of its type; who crawls or commits has a job.
TypeOK ==
    /\ jobs \in [Jobs -> Job] /\ slice \in [Jobs -> Slice]
    /\ txn \in [Actors -> Write \cup {None}]
    /\ signal \in [Clients -> Ops \cup {"none", "sent"}]
    /\ mode \in [JobWorkers -> [at : {"idle"}, job : {None}]
                  \cup [at : {"starting", "crawling", "finishing"}, job : Jobs]]
    /\ budget \in [JobWorkers -> 0 .. MaxPages]
    /\ inbox \in [LoopWorkers -> Seq(Signals)]
    /\ paused \in [LoopWorkers -> SUBSET Sources]
    /\ pass \in [LoopWorkers -> Sources \cup {None}]
    /\ requests \in 0 .. MaxRequests
    /\ \A c \in Clients : (txn[c] = None) <=> (signal[c] = "none")

\* docs/crawl-lifecycle.md: "illegal moves raise InvalidTransitionError and nothing
\* is written".  A job that was completed, failed or cancelled stays so; it does not
\* when a transaction that loaded the row earlier commits later (jobs_terminal.cfg).
TerminalIsFinal ==
    [][\A j \in Jobs : jobs[j].status \in Terminal => jobs'[j] = jobs[j]]_vars

\* The dates tell the history of the job: it has a completed_at exactly when it is
\* over, a started_at when it has run and none while it waits for its first run.
\* resume chooses its target by the latter.  (When transactions do not overlap.)
DatesAgree ==
    \A j \in Jobs :
        /\ jobs[j].completed <=> jobs[j].status \in Terminal
        /\ jobs[j].status \in {"running", "completed"} => jobs[j].started
        /\ jobs[j].status = "queued" => ~jobs[j].started

\* The job a worker is crawling was started and waits for no other worker: nobody
\* starts it a second time through the queue.  (When transactions do not overlap.)
CrawledIsNotQueued ==
    \A w \in JobWorkers : mode[w].at \in {"crawling", "finishing"}
        => jobs[mode[w].job].started /\ jobs[mode[w].job].status # "queued"

\* Once a worker has heard every signal, it holds a source paused exactly when the
\* job of that source is (with one job per source).
SignalsAgree ==
    \A w \in LoopWorkers, j \in Jobs :
        inbox[w] = <<>> /\ ~Locked(j)
        => (SourceOf[j] \in paused[w] <=> jobs[j].status = "paused")

\* A job that stays paused is heard by every worker that keeps running.
PauseIsHeard ==
    \A w \in LoopWorkers, j \in Jobs :
        <>[](jobs[j].status = "paused") => <>[](SourceOf[j] \in paused[w])
=============================================================================
