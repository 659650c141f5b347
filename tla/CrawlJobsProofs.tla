---------------------------- MODULE CrawlJobsProofs ----------------------------
(***************************************************************************)
(* Theorems about CrawlJobs, for any jobs, sources, clients and workers,   *)
(* any page budget and any number of requests.  The types are right, and   *)
(* the signals agree with the rows, although transactions overlap; the     *)
(* dates are what they should be when transactions on one job do not       *)
(* overlap, and processes may die at any time.                             *)
(***************************************************************************)
EXTENDS CrawlJobs, TLAPS

JobsNext == Next \/ Failures

\* What an open transaction will write follows from the row as it still is.
WriteOK(w, row) ==
    /\ row.status \in Statuses
    /\ w.target \in VALID_TRANSITIONS[row.status]
    /\ w.start <=> w.target = "running" /\ ~row.started
    /\ w.complete <=> w.target \in Terminal
    /\ w.target = "queued" => ~row.started

TxnsOK == \A a \in Actors : txn[a] # None => WriteOK(txn[a], jobs[txn[a].job])

\* A job worker has a transaction open exactly when it starts or finishes its job.
ModesOK ==
    \A w \in JobWorkers :
        /\ mode[w].at \in {"starting", "finishing"} <=> txn[w] # None
        /\ mode[w].at = "starting"
              => txn[w].job = mode[w].job /\ txn[w].target = "running"
        /\ mode[w].at = "finishing"
              => txn[w].job = mode[w].job /\ txn[w].target = "completed"
        /\ mode[w].at # "idle" => jobs[mode[w].job].status \in Statuses

RowsOK ==
    \A j \in Jobs : jobs[j].status = "absent" => ~jobs[j].started /\ ~jobs[j].completed

JInv == TypeOK /\ TxnsOK /\ OneWriter /\ ModesOK /\ RowsOK /\ DatesAgree /\ CrawledIsNotQueued

\* The columns an UPDATE leaves in the row.
Written(w, row) ==
    [status |-> w.target, started |-> row.started \/ w.start,
     completed |-> row.completed \/ w.complete]

-----------------------------------------------------------------------------
ModeType == [at : {"idle"}, job : {None}]
            \cup [at : {"starting", "crawling", "finishing"}, job : Jobs]

LEMMA TargetsAreStatuses ==
    ASSUME NEW status \in Statuses, NEW target \in VALID_TRANSITIONS[status]
    PROVE  target \in Statuses
  BY DEF Statuses, VALID_TRANSITIONS

\* What VALID_TRANSITIONS says of where a status comes from.
LEMMA Moves ==
    ASSUME NEW status \in Statuses, NEW target \in VALID_TRANSITIONS[status]
    PROVE  /\ status \notin Terminal
           /\ target # status
           /\ target = "completed" => status = "running"
  BY DEF Statuses, VALID_TRANSITIONS, Terminal

\* An update keeps the dates of the row in agreement with its status.
LEMMA WrittenDates ==
    ASSUME NEW w \in Write, NEW row \in Job, WriteOK(w, row),
           row.completed <=> row.status \in Terminal,
           row.status \in {"running", "completed"} => row.started
    PROVE  LET new == Written(w, row)
           IN  /\ new \in Job /\ new.status = w.target /\ new.status \in Statuses
               /\ new.completed <=> new.status \in Terminal
               /\ new.status \in {"running", "completed"} => new.started
               /\ new.status = "queued" => ~new.started
               /\ row.started => new.started
  <1> DEFINE new == Written(w, row)
  <1>1. w.target \in Statuses /\ w.target \in VALID_TRANSITIONS[row.status]
    BY TargetsAreStatuses DEF WriteOK
  <1>2. row.status \notin Terminal /\ (w.target = "completed" => row.status = "running")
    BY Moves DEF WriteOK
  <1>3. /\ row.started \in BOOLEAN /\ row.completed \in BOOLEAN /\ ~row.completed
        /\ w.start \in BOOLEAN /\ w.complete \in BOOLEAN
    BY <1>2 DEF Job, Write
  <1>4. /\ new.status = w.target /\ new.started = (row.started \/ w.start)
        /\ new.completed = w.complete
    BY <1>3 DEF Written
  <1>5. new \in Job
    BY <1>1, <1>3 DEF Job, Written
  <1>6. (w.complete <=> w.target \in Terminal) /\ (w.start <=> w.target = "running" /\ ~row.started)
        /\ (w.target = "queued" => ~row.started)
    BY DEF WriteOK
  <1>7. w.target = "queued" => ~w.start
    BY <1>6
  <1>8. QED
    BY <1>1, <1>2, <1>4, <1>5, <1>6, <1>7

-----------------------------------------------------------------------------
(* What a transaction does, whoever opens and commits it.                  *)

LEMMA OpenedType ==
    ASSUME TypeOK, NEW a \in Actors, NEW j \in Jobs, NEW target,
           jobs[j].status \in Statuses, Transition(a, j, target)
    PROVE  /\ txn' \in [Actors -> Write \cup {None}]
           /\ txn'[a] # None /\ txn'[a].job = j /\ txn'[a].target = target
           /\ txn'[a].start <=> target = "running" /\ ~jobs[j].started
           /\ txn'[a].complete <=> target \in Terminal
           /\ target \in VALID_TRANSITIONS[jobs[j].status]
           /\ \A b \in Actors \ {a} : txn'[b] = txn[b]
  <1> DEFINE start == target = "running" /\ ~jobs[j].started
             complete == target \in Terminal
             w == [job |-> j, target |-> target, start |-> start, complete |-> complete]
  <1>1. target \in VALID_TRANSITIONS[jobs[j].status] /\ txn' = [txn EXCEPT ![a] = w]
    BY DEF Transition
  <1>2. target \in Statuses
    BY <1>1, TargetsAreStatuses
  <1>3. start \in BOOLEAN
    <2>1. CASE start
      BY <2>1
    <2>2. CASE ~start
      BY <2>2
    <2>3. QED
      BY <2>1, <2>2
  <1>4. complete \in BOOLEAN
    <2>1. CASE complete
      BY <2>1
    <2>2. CASE ~complete
      BY <2>2
    <2>3. QED
      BY <2>1, <2>2
  <1>5. (start <=> target = "running" /\ ~jobs[j].started) /\ (complete <=> target \in Terminal)
    OBVIOUS
  <1> HIDE DEF start, complete
  <1>6. /\ w \in Write /\ w.job = j /\ w.target = target
        /\ w.start = start /\ w.complete = complete
    BY <1>2, <1>3, <1>4 DEF Write
  <1> HIDE DEF w
  <1>7. w # None
    BY <1>6, NoneAssumption
  <1>8. txn'[a] = w /\ \A b \in Actors \ {a} : txn'[b] = txn[b]
    BY <1>1 DEF TypeOK
  <1>9. txn' \in [Actors -> Write \cup {None}]
    BY <1>1, <1>6 DEF TypeOK
  <1>10. QED
    BY <1>1, <1>5, <1>6, <1>7, <1>8, <1>9

LEMMA Opened ==
    ASSUME JInv, OneWriter', NEW a \in Actors, NEW j \in Jobs, NEW target,
           jobs[j].status \in Statuses, target = "queued" => ~jobs[j].started,
           Transition(a, j, target), UNCHANGED jobs
    PROVE  /\ txn' \in [Actors -> Write \cup {None}] /\ TxnsOK'
           /\ txn'[a] # None /\ txn'[a].job = j /\ txn'[a].target = target
           /\ \A b \in Actors \ {a} : txn'[b] = txn[b]
  <1>1. /\ txn' \in [Actors -> Write \cup {None}]
        /\ txn'[a] # None /\ txn'[a].job = j /\ txn'[a].target = target
        /\ txn'[a].start <=> target = "running" /\ ~jobs[j].started
        /\ txn'[a].complete <=> target \in Terminal
        /\ target \in VALID_TRANSITIONS[jobs[j].status]
        /\ \A b \in Actors \ {a} : txn'[b] = txn[b]
    BY OpenedType DEF JInv
  <1>2. WriteOK(txn'[a], jobs[j])
    BY <1>1 DEF WriteOK
  <1>3. TxnsOK'
    BY <1>1, <1>2 DEF JInv, TxnsOK
  <1>4. QED
    BY <1>1, <1>3

LEMMA Closed ==
    ASSUME JInv, NEW a \in Actors, txn' = [txn EXCEPT ![a] = None], UNCHANGED jobs
    PROVE  /\ txn' \in [Actors -> Write \cup {None}] /\ TxnsOK' /\ OneWriter'
           /\ txn'[a] = None /\ \A b \in Actors \ {a} : txn'[b] = txn[b]
  <1>1. txn'[a] = None /\ \A b \in Actors \ {a} : txn'[b] = txn[b]
    BY DEF JInv, TypeOK
  <1>2. QED
    BY <1>1 DEF JInv, TypeOK, TxnsOK, OneWriter

LEMMA Committed ==
    ASSUME JInv, NEW a \in Actors, txn[a] # None, WriteRow(a), txn' = [txn EXCEPT ![a] = None]
    PROVE  /\ jobs' \in [Jobs -> Job] /\ txn' \in [Actors -> Write \cup {None}]
           /\ TxnsOK' /\ OneWriter' /\ RowsOK' /\ DatesAgree'
           /\ txn'[a] = None /\ \A b \in Actors \ {a} : txn'[b] = txn[b]
           /\ jobs'[txn[a].job].status = txn[a].target
           /\ \A j \in Jobs : /\ jobs[j].started => jobs'[j].started
                              /\ jobs[j].status \in Statuses => jobs'[j].status \in Statuses
  <1> DEFINE w == txn[a]
             j == w.job
             new == Written(w, jobs[j])
  <1>1. w \in Write /\ j \in Jobs /\ jobs[j] \in Job /\ WriteOK(w, jobs[j])
    BY DEF JInv, TypeOK, TxnsOK, Write
  <1>2. /\ jobs'[j] = new /\ \A k \in Jobs \ {j} : jobs'[k] = jobs[k]
        /\ jobs' = [k \in Jobs |-> jobs'[k]]
    BY <1>1 DEF WriteRow, Written, JInv, TypeOK
  <1>3. /\ new \in Job /\ new.status = w.target /\ new.status \in Statuses
        /\ new.completed <=> new.status \in Terminal
        /\ new.status \in {"running", "completed"} => new.started
        /\ new.status = "queued" => ~new.started
        /\ jobs[j].started => new.started
    BY <1>1, WrittenDates DEF JInv, DatesAgree
  <1> HIDE DEF new
  <1>4. "absent" \notin Statuses
    BY DEF Statuses
  <1>5. jobs' \in [Jobs -> Job]
    BY <1>2, <1>3 DEF JInv, TypeOK
  <1>6. RowsOK'
    BY <1>2, <1>3, <1>4 DEF JInv, RowsOK
  <1>7. DatesAgree'
    <2>1. ASSUME NEW k \in Jobs
          PROVE  /\ jobs'[k].completed <=> jobs'[k].status \in Terminal
                 /\ jobs'[k].status \in {"running", "completed"} => jobs'[k].started
                 /\ jobs'[k].status = "queued" => ~jobs'[k].started
      <3>1. CASE k = j
        BY <1>2, <1>3, <3>1
      <3>2. CASE k # j
        BY <1>2, <3>2 DEF JInv, DatesAgree
      <3>3. QED
        BY <3>1, <3>2
    <2>2. QED
      BY <2>1 DEF DatesAgree
  <1>8. txn'[a] = None /\ \A b \in Actors \ {a} : txn'[b] = txn[b]
    BY DEF JInv, TypeOK
  <1>9. OneWriter' /\ txn' \in [Actors -> Write \cup {None}]
    BY <1>8 DEF JInv, TypeOK, OneWriter
  <1>10. TxnsOK'
    <2>1. SUFFICES ASSUME NEW b \in Actors \ {a}, txn[b] # None
                   PROVE  WriteOK(txn[b], jobs'[txn[b].job])
      BY <1>8 DEF TxnsOK
    <2>2. txn[b].job \in Jobs \ {j}
      BY <2>1 DEF JInv, OneWriter, TypeOK, Write
    <2>3. QED
      BY <1>2, <2>1, <2>2 DEF JInv, TxnsOK
  <1>11. QED
    BY <1>2, <1>3, <1>5, <1>6, <1>7, <1>8, <1>9, <1>10

\* What is left of the invariant when the rows stay, or are only written.
LEMMA Rest ==
    ASSUME JInv, TypeOK', TxnsOK', OneWriter', ModesOK', RowsOK', DatesAgree',
           \A w \in JobWorkers : mode'[w].at \in {"crawling", "finishing"}
              => jobs'[mode'[w].job].started /\ mode'[w].job \in Jobs
    PROVE  JInv'
  <1>1. CrawledIsNotQueued'
    BY DEF DatesAgree, CrawledIsNotQueued
  <1>2. QED
    BY <1>1 DEF JInv

-----------------------------------------------------------------------------
(* The actions.                                                            *)

LEMMA InitJInv == Init => JInv
  <1> SUFFICES ASSUME Init
               PROVE  JInv
    OBVIOUS
  <1>1. NoJob \in Job /\ NoPages \in Slice /\ NoJob.status = "absent"
        /\ ~NoJob.started /\ ~NoJob.completed
    BY DEF NoJob, NoPages, Job, Slice
  <1>2. TypeOK
    BY <1>1, JobsAssumption DEF Init, TypeOK, Actors
  <1>3. TxnsOK /\ OneWriter /\ CrawledIsNotQueued
    BY DEF Init, TxnsOK, OneWriter, CrawledIsNotQueued
  <1>4. ModesOK
    BY DEF Init, ModesOK, Actors
  <1>5. RowsOK /\ DatesAgree
    BY <1>1 DEF Init, RowsOK, DatesAgree, Terminal
  <1>6. QED
    BY <1>2, <1>3, <1>4, <1>5 DEF JInv

LEMMA CreateJobJInv ==
    ASSUME JInv, NEW j \in Jobs, NEW n \in SliceSizes, CreateJob(j, n)
    PROVE  JInv'
  <1>1. /\ jobs' = [jobs EXCEPT ![j].status = "queued"] /\ jobs[j].status = "absent"
        /\ slice' = [slice EXCEPT ![j].due = n]
        /\ UNCHANGED <<txn, signal, mode, budget, inbox, paused, pass, requests>>
    BY DEF CreateJob, jobWorkerVars, loopWorkerVars
  <1>2. ~jobs[j].started /\ ~jobs[j].completed /\ jobs[j] \in Job /\ "absent" \notin Statuses
    BY <1>1 DEF JInv, RowsOK, TypeOK, Statuses
  <1>3. /\ jobs'[j] \in Job /\ jobs'[j].status = "queued"
        /\ ~jobs'[j].started /\ ~jobs'[j].completed
        /\ \A k \in Jobs \ {j} : jobs'[k] = jobs[k]
        /\ jobs' \in [Jobs -> Job]
    BY <1>1, <1>2 DEF JInv, TypeOK, Job, Statuses
  <1>4. slice' \in [Jobs -> Slice]
    <2>1. slice \in [Jobs -> Slice] /\ n \in Nat
      BY JobsAssumption DEF JInv, TypeOK
    <2>2. QED
      BY <1>1, <2>1 DEF Slice
  <1>5. TypeOK'
    BY <1>1, <1>3, <1>4 DEF JInv, TypeOK
  <1>6. \A a \in Actors : txn[a] # None => txn[a].job \in Jobs \ {j}
    BY <1>1, <1>2 DEF JInv, TypeOK, TxnsOK, WriteOK, Write
  <1>7. TxnsOK' /\ OneWriter'
    BY <1>1, <1>3, <1>6 DEF JInv, TxnsOK, OneWriter
  <1>8. \A w \in JobWorkers : mode[w].at # "idle" => mode[w].job \in Jobs \ {j}
    BY <1>1, <1>2 DEF JInv, TypeOK, ModesOK
  <1>9. ModesOK'
    BY <1>1, <1>3, <1>8 DEF JInv, ModesOK
  <1>10. RowsOK' /\ DatesAgree'
    BY <1>3 DEF JInv, RowsOK, DatesAgree, Terminal
  <1>11. QED
    BY <1>1, <1>3, <1>5, <1>7, <1>8, <1>9, <1>10, Rest DEF JInv, CrawledIsNotQueued

LEMMA RequestJInv ==
    ASSUME JInv, OneWriter', NEW c \in Clients, NEW op \in Ops, NEW j \in Jobs, Request(c, op, j)
    PROVE  JInv'
  <1> DEFINE target == TargetOf(op, jobs[j])
  <1>1. /\ txn[c] = None /\ Transition(c, j, target)
        /\ signal' = [signal EXCEPT ![c] = op] /\ requests' = requests + 1
        /\ requests < MaxRequests /\ jobs[j].status # "absent"
        /\ UNCHANGED <<jobs, slice, mode, budget, inbox, paused, pass>>
    BY DEF Request, jobWorkerVars, loopWorkerVars
  <1>2. c \in Actors /\ jobs[j].status \in Statuses /\ c \notin JobWorkers
    BY <1>1, JobsAssumption DEF Actors, JInv, TypeOK, Job
  <1>3. target = "queued" => ~jobs[j].started
    BY DEF TargetOf, Ops
  <1> HIDE DEF target
  <1>4. /\ txn' \in [Actors -> Write \cup {None}] /\ TxnsOK'
        /\ txn'[c] # None /\ \A b \in Actors \ {c} : txn'[b] = txn[b]
    BY <1>1, <1>2, <1>3, Opened
  <1>5. TypeOK'
    <2>1. requests' \in 0 .. MaxRequests
      BY <1>1, JobsAssumption DEF JInv, TypeOK
    <2>2. \A d \in Clients : (txn'[d] = None) <=> (signal'[d] = "none")
      BY <1>1, <1>4 DEF JInv, TypeOK, Ops, Actors
    <2>3. QED
      BY <1>1, <1>4, <2>1, <2>2 DEF JInv, TypeOK
  <1>6. ModesOK'
    BY <1>1, <1>2, <1>4 DEF JInv, ModesOK, Actors
  <1>7. RowsOK' /\ DatesAgree'
    BY <1>1 DEF JInv, RowsOK, DatesAgree
  <1>8. QED
    BY <1>1, <1>4, <1>5, <1>6, <1>7, Rest DEF JInv, CrawledIsNotQueued, TypeOK

LEMMA EndRequestJInv ==
    ASSUME JInv, NEW c \in Clients, CommitRequest(c) \/ FailRequest(c)
    PROVE  JInv'
  <1>1. /\ txn[c] # None /\ txn' = [txn EXCEPT ![c] = None]
        /\ signal' = [signal EXCEPT ![c] = "none"]
        /\ WriteRow(c) \/ UNCHANGED jobs
        /\ UNCHANGED <<slice, mode, budget, inbox, paused, pass, requests>>
    BY DEF CommitRequest, FailRequest, jobWorkerVars, loopWorkerVars, JInv, TypeOK
  <1>2. c \in Actors /\ c \notin JobWorkers
    BY JobsAssumption DEF Actors
  <1>3. /\ jobs' \in [Jobs -> Job] /\ txn' \in [Actors -> Write \cup {None}]
        /\ TxnsOK' /\ OneWriter' /\ RowsOK' /\ DatesAgree'
        /\ txn'[c] = None /\ \A b \in Actors \ {c} : txn'[b] = txn[b]
        /\ \A j \in Jobs : /\ jobs[j].started => jobs'[j].started
                           /\ jobs[j].status \in Statuses => jobs'[j].status \in Statuses
    <2>1. CASE WriteRow(c)
      BY <1>1, <1>2, <2>1, Committed
    <2>2. CASE UNCHANGED jobs
      BY <1>1, <1>2, <2>2, Closed DEF JInv, TypeOK, RowsOK, DatesAgree
    <2>3. QED
      BY <1>1, <2>1, <2>2
  <1>4. TypeOK'
    BY <1>1, <1>3 DEF JInv, TypeOK, Actors
  <1>5. \A w \in JobWorkers : mode[w].at # "idle" => mode[w].job \in Jobs
    BY DEF JInv, TypeOK
  <1>6. ModesOK'
    BY <1>1, <1>2, <1>3, <1>5 DEF JInv, ModesOK, Actors
  <1>7. QED
    BY <1>1, <1>3, <1>4, <1>5, <1>6, Rest DEF JInv, CrawledIsNotQueued

\* The type of a job worker's step; the signals of clients depend on none of its transactions.
LEMMA WorkerTypeOK ==
    ASSUME TypeOK, NEW w \in JobWorkers, jobs' \in [Jobs -> Job],
           txn' \in [Actors -> Write \cup {None}], \A b \in Actors \ {w} : txn'[b] = txn[b],
           mode' \in [JobWorkers -> ModeType], budget' \in [JobWorkers -> 0 .. MaxPages],
           UNCHANGED <<slice, signal, inbox, paused, pass, requests>>
    PROVE  TypeOK'
  <1>1. \A d \in Clients : (txn'[d] = None) <=> (signal'[d] = "none")
    BY JobsAssumption DEF TypeOK, Actors
  <1>2. QED
    BY <1>1 DEF TypeOK, ModeType

LEMMA LoadJobJInv ==
    ASSUME JInv, OneWriter', NEW w \in JobWorkers, NEW j \in Jobs, LoadJob(w, j)
    PROVE  JInv'
  <1>1. /\ mode[w].at = "idle" /\ jobs[j].status \in {"queued", "running"}
        /\ budget' = [budget EXCEPT ![w] = MaxPages]
        /\ UNCHANGED <<jobs, slice, signal, inbox, paused, pass, requests>>
    BY DEF LoadJob, loopWorkerVars
  <1>0. UNCHANGED <<slice, signal, inbox, paused, pass, requests>> /\ jobs' \in [Jobs -> Job]
    BY <1>1 DEF JInv, TypeOK
  <1>2. w \in Actors /\ w \notin Clients /\ txn[w] = None /\ jobs[j].status \in Statuses
    BY <1>1, JobsAssumption DEF Actors, JInv, ModesOK, Statuses
  <1>3. budget' \in [JobWorkers -> 0 .. MaxPages]
    BY <1>1, JobsAssumption DEF JInv, TypeOK
  <1>4. RowsOK' /\ DatesAgree'
    BY <1>1 DEF JInv, RowsOK, DatesAgree
  <1>5. CASE jobs[j].status = "queued"
    <2>1. Transition(w, j, "running") /\ mode' = [mode EXCEPT ![w] = [at |-> "starting", job |-> j]]
      BY <1>5 DEF LoadJob, Enter
    <2>2. /\ txn' \in [Actors -> Write \cup {None}] /\ TxnsOK'
          /\ txn'[w] # None /\ txn'[w].job = j /\ txn'[w].target = "running"
          /\ \A b \in Actors \ {w} : txn'[b] = txn[b]
      BY <1>1, <1>2, <2>1, Opened
    <2>3. /\ mode'[w] = [at |-> "starting", job |-> j]
          /\ \A v \in JobWorkers \ {w} : mode'[v] = mode[v]
          /\ mode' \in [JobWorkers -> ModeType]
      BY <2>1 DEF JInv, TypeOK, ModeType
    <2>4. TypeOK'
      <3>1. mode' \in [JobWorkers -> ModeType]
        BY <2>3
      <3>2. txn' \in [Actors -> Write \cup {None}] /\ \A b \in Actors \ {w} : txn'[b] = txn[b]
        BY <2>2
      <3>3. QED
        BY <1>0, <1>3, <3>1, <3>2, WorkerTypeOK DEF JInv
    <2>5. ModesOK'
      BY <1>1, <1>2, <2>2, <2>3 DEF JInv, ModesOK, Actors
    <2>6. ASSUME NEW v \in JobWorkers, mode'[v].at \in {"crawling", "finishing"}
          PROVE  jobs'[mode'[v].job].started /\ mode'[v].job \in Jobs
      <3>1. CASE v = w
        BY <2>3, <2>6, <3>1
      <3>2. CASE v # w
        <4>1. mode'[v] = mode[v] /\ mode[v].job \in Jobs
          BY <2>3, <2>6, <3>2 DEF JInv, TypeOK
        <4>2. QED
          BY <1>1, <2>6, <4>1 DEF JInv, CrawledIsNotQueued
      <3>3. QED
        BY <3>1, <3>2
    <2>7. QED
      BY <1>4, <2>2, <2>4, <2>5, <2>6, Rest
  <1>6. CASE jobs[j].status # "queued"
    <2>1. UNCHANGED txn /\ mode' = [mode EXCEPT ![w] = [at |-> "crawling", job |-> j]]
          /\ jobs[j].started
      BY <1>1, <1>6 DEF LoadJob, Enter, JInv, DatesAgree
    <2>2. /\ mode'[w] = [at |-> "crawling", job |-> j]
          /\ \A v \in JobWorkers \ {w} : mode'[v] = mode[v]
          /\ mode' \in [JobWorkers -> ModeType]
      BY <2>1 DEF JInv, TypeOK, ModeType
    <2>3. TypeOK'
      BY <1>1, <1>3, <2>1, <2>2 DEF JInv, TypeOK, ModeType
    <2>4. TxnsOK' /\ OneWriter'
      BY <1>1, <2>1 DEF JInv, TxnsOK, OneWriter
    <2>5. ModesOK'
      BY <1>1, <1>2, <2>1, <2>2 DEF JInv, ModesOK
    <2>6. ASSUME NEW v \in JobWorkers, mode'[v].at \in {"crawling", "finishing"}
          PROVE  jobs'[mode'[v].job].started /\ mode'[v].job \in Jobs
      <3>1. CASE v = w
        BY <1>1, <2>1, <2>2, <2>6, <3>1
      <3>2. CASE v # w
        <4>1. mode'[v] = mode[v] /\ mode[v].job \in Jobs
          BY <2>2, <2>6, <3>2 DEF JInv, TypeOK
        <4>2. QED
          BY <1>1, <2>6, <4>1 DEF JInv, CrawledIsNotQueued
      <3>3. QED
        BY <3>1, <3>2
    <2>7. QED
      BY <1>4, <2>3, <2>4, <2>5, <2>6, Rest
  <1>7. QED
    BY <1>5, <1>6

LEMMA PublishSignalTypes ==
    ASSUME TypeOK, NEW c \in Clients, PublishSignal(c)
    PROVE  TypeOK' /\ UNCHANGED <<jobs, txn, mode>>
  <1>1. /\ signal[c] \in Ops /\ signal' = [signal EXCEPT ![c] = "sent"]
        /\ inbox' = [w \in LoopWorkers |->
                       Append(inbox[w], [op |-> signal[c], source |-> SourceOf[txn[c].job]])]
        /\ UNCHANGED <<jobs, slice, txn, mode, budget, paused, pass, requests>>
    BY DEF PublishSignal, jobWorkerVars
  <1>2. txn[c] # None /\ c \in Actors
    BY <1>1 DEF TypeOK, Ops, Actors
  <1>3. SourceOf[txn[c].job] \in Sources
    BY <1>2, JobsAssumption DEF TypeOK, Write
  <1>4. inbox' \in [LoopWorkers -> Seq(Signals)]
    <2> DEFINE s == [op |-> signal[c], source |-> SourceOf[txn[c].job]]
    <2>1. s \in Signals
      BY <1>1, <1>3 DEF Signals
    <2> HIDE DEF s
    <2>2. \A w \in LoopWorkers : Append(inbox[w], s) \in Seq(Signals)
      BY <2>1 DEF TypeOK
    <2>3. inbox' = [w \in LoopWorkers |-> Append(inbox[w], s)]
      BY <1>1 DEF s
    <2>4. QED
      BY <2>2, <2>3
  <1>5. TypeOK'
    <2>1. \A d \in Clients : (txn'[d] = None) <=> (signal'[d] = "none")
      BY <1>1, <1>2 DEF TypeOK, Ops
    <2>2. QED
      BY <1>1, <1>4, <2>1 DEF TypeOK
  <1>6. QED
    BY <1>1, <1>5

LEMMA CommitWorkerJInv ==
    ASSUME JInv, NEW w \in JobWorkers, CommitStart(w) \/ CommitFinish(w)
    PROVE  JInv'
  <1> DEFINE j == mode[w].job
  <1>1. /\ mode[w].at \in {"starting", "finishing"}
        /\ WriteRow(w) /\ txn' = [txn EXCEPT ![w] = None]
        /\ UNCHANGED <<slice, signal, budget, inbox, paused, pass, requests>>
    BY DEF CommitStart, CommitFinish, loopWorkerVars
  <1>0. UNCHANGED <<slice, signal, inbox, paused, pass, requests>> /\ budget' \in [JobWorkers -> 0 .. MaxPages]
    BY <1>1 DEF JInv, TypeOK
  <1>2. w \in Actors /\ txn[w] # None /\ txn[w].job = j /\ j \in Jobs
    BY <1>1 DEF Actors, JInv, ModesOK, TypeOK
  <1>3. /\ jobs' \in [Jobs -> Job] /\ txn' \in [Actors -> Write \cup {None}]
        /\ TxnsOK' /\ OneWriter' /\ RowsOK' /\ DatesAgree'
        /\ txn'[w] = None /\ \A b \in Actors \ {w} : txn'[b] = txn[b]
        /\ jobs'[j].status = txn[w].target
        /\ \A k \in Jobs : /\ jobs[k].started => jobs'[k].started
                           /\ jobs[k].status \in Statuses => jobs'[k].status \in Statuses
    BY <1>1, <1>2, Committed
  <1>4. /\ mode' \in [JobWorkers -> ModeType] /\ \A v \in JobWorkers \ {w} : mode'[v] = mode[v]
        /\ \/ mode'[w] = [at |-> "idle", job |-> None]
           \/ mode[w].at = "starting" /\ mode'[w] = [at |-> "crawling", job |-> j]
    <2>1. CASE CommitStart(w)
      BY <1>2, <2>1 DEF CommitStart, Enter, JInv, TypeOK, ModeType
    <2>2. CASE CommitFinish(w)
      BY <2>2 DEF CommitFinish, Enter, JInv, TypeOK, ModeType
    <2>3. QED
      BY <2>1, <2>2
  <1>5. mode'[w].at = "crawling" => jobs'[mode'[w].job].started /\ jobs'[j].status \in Statuses
                                    /\ mode'[w].job = j
    BY <1>2, <1>3, <1>4 DEF JInv, ModesOK, DatesAgree, Statuses
  <1>6. mode'[w].at \in {"idle", "crawling"}
    BY <1>4
  <1>7. TypeOK'
    BY <1>0, <1>3, <1>4, WorkerTypeOK DEF JInv
  <1>8. ModesOK'
    <2>1. ASSUME NEW v \in JobWorkers \ {w}, mode[v].at # "idle"
          PROVE  mode[v].job \in Jobs
      BY <2>1 DEF JInv, TypeOK
    <2>2. QED
      BY <1>3, <1>4, <1>5, <1>6, <2>1 DEF JInv, ModesOK, Actors
  <1>9. \A v \in JobWorkers : mode[v].at # "idle" => mode[v].job \in Jobs
    BY DEF JInv, TypeOK
  <1>10. \A v \in JobWorkers : mode'[v].at \in {"crawling", "finishing"}
              => jobs'[mode'[v].job].started /\ mode'[v].job \in Jobs
    <2> SUFFICES ASSUME NEW v \in JobWorkers, mode'[v].at \in {"crawling", "finishing"}
                 PROVE  jobs'[mode'[v].job].started /\ mode'[v].job \in Jobs
      OBVIOUS
    <2>1. CASE v = w
      BY <1>2, <1>5, <1>6, <2>1
    <2>2. CASE v # w
      BY <1>3, <1>4, <1>9, <2>2 DEF JInv, CrawledIsNotQueued
    <2>3. QED
      BY <2>1, <2>2
  <1>11. QED
    BY <1>3, <1>7, <1>8, <1>10, Rest

LEMMA EndPassJInv ==
    ASSUME JInv, OneWriter', NEW w \in JobWorkers, EndPass(w)
    PROVE  JInv'
  <1> DEFINE j == mode[w].job
  <1>1. /\ mode[w].at = "crawling"
        /\ UNCHANGED <<jobs, slice, signal, budget, inbox, paused, pass, requests>>
    BY DEF EndPass, loopWorkerVars
  <1>0. UNCHANGED <<slice, signal, inbox, paused, pass, requests>> /\ budget' \in [JobWorkers -> 0 .. MaxPages]
    BY <1>1 DEF JInv, TypeOK
  <1>2. /\ w \in Actors /\ txn[w] = None /\ j \in Jobs /\ jobs[j].status \in Statuses
        /\ jobs[j].started
    BY <1>1 DEF Actors, JInv, ModesOK, TypeOK, CrawledIsNotQueued
  <1>3. RowsOK' /\ DatesAgree' /\ jobs' \in [Jobs -> Job]
    BY <1>1 DEF JInv, RowsOK, DatesAgree, TypeOK
  <1>4. CASE "completed" \in VALID_TRANSITIONS[jobs[j].status]
    <2>1. Transition(w, j, "completed") /\ mode' = [mode EXCEPT ![w] = [at |-> "finishing", job |-> j]]
      BY <1>4 DEF EndPass, Enter
    <2>2. /\ txn' \in [Actors -> Write \cup {None}] /\ TxnsOK'
          /\ txn'[w] # None /\ txn'[w].job = j /\ txn'[w].target = "completed"
          /\ \A b \in Actors \ {w} : txn'[b] = txn[b]
      BY <1>1, <1>2, <2>1, Opened
    <2>3. /\ mode'[w] = [at |-> "finishing", job |-> j]
          /\ \A v \in JobWorkers \ {w} : mode'[v] = mode[v]
          /\ mode' \in [JobWorkers -> ModeType]
      BY <1>2, <2>1 DEF JInv, TypeOK, ModeType
    <2>4. TypeOK'
      <3>1. mode' \in [JobWorkers -> ModeType]
        BY <2>3
      <3>2. txn' \in [Actors -> Write \cup {None}] /\ \A b \in Actors \ {w} : txn'[b] = txn[b]
        BY <2>2
      <3>3. QED
        BY <1>0, <1>3, <3>1, <3>2, WorkerTypeOK DEF JInv
    <2>5. ModesOK'
      BY <1>1, <1>2, <2>2, <2>3 DEF JInv, ModesOK, Actors
    <2>6. ASSUME NEW v \in JobWorkers, mode'[v].at \in {"crawling", "finishing"}
          PROVE  jobs'[mode'[v].job].started /\ mode'[v].job \in Jobs
      <3>1. CASE v = w
        BY <1>1, <1>2, <2>3, <3>1
      <3>2. CASE v # w
        <4>1. mode'[v] = mode[v] /\ mode[v].job \in Jobs
          BY <2>3, <2>6, <3>2 DEF JInv, TypeOK
        <4>2. QED
          BY <1>1, <2>6, <4>1 DEF JInv, CrawledIsNotQueued
      <3>3. QED
        BY <3>1, <3>2
    <2>7. QED
      BY <1>3, <2>2, <2>4, <2>5, <2>6, Rest
  <1>5. CASE "completed" \notin VALID_TRANSITIONS[jobs[j].status]
    <2>1. UNCHANGED txn /\ mode' = [mode EXCEPT ![w] = [at |-> "idle", job |-> None]]
      BY <1>5 DEF EndPass, Enter
    <2>2. /\ mode'[w] = [at |-> "idle", job |-> None]
          /\ \A v \in JobWorkers \ {w} : mode'[v] = mode[v]
          /\ mode' \in [JobWorkers -> ModeType]
      BY <2>1 DEF JInv, TypeOK, ModeType
    <2>3. TypeOK'
      <3>1. txn' \in [Actors -> Write \cup {None}] /\ \A b \in Actors \ {w} : txn'[b] = txn[b]
        BY <2>1 DEF JInv, TypeOK
      <3>2. mode' \in [JobWorkers -> ModeType]
        BY <2>2
      <3>3. QED
        BY <1>0, <1>3, <3>1, <3>2, WorkerTypeOK DEF JInv
    <2>4. TxnsOK' /\ OneWriter' /\ ModesOK'
      BY <1>1, <1>2, <2>1, <2>2 DEF JInv, TxnsOK, OneWriter, ModesOK
    <2>5. ASSUME NEW v \in JobWorkers, mode'[v].at \in {"crawling", "finishing"}
          PROVE  jobs'[mode'[v].job].started /\ mode'[v].job \in Jobs
      <3>1. CASE v = w
        BY <2>2, <2>5, <3>1
      <3>2. CASE v # w
        <4>1. mode'[v] = mode[v] /\ mode[v].job \in Jobs
          BY <2>2, <2>5, <3>2 DEF JInv, TypeOK
        <4>2. QED
          BY <1>1, <2>5, <4>1 DEF JInv, CrawledIsNotQueued
      <3>3. QED
        BY <3>1, <3>2
    <2>6. QED
      BY <1>3, <2>3, <2>4, <2>5, Rest
  <1>6. QED
    BY <1>4, <1>5

LEMMA CrashJobWorkerJInv ==
    ASSUME JInv, NEW w \in JobWorkers, CrashJobWorker(w)
    PROVE  JInv'
  <1>1. /\ txn' = [txn EXCEPT ![w] = None] /\ mode' = [mode EXCEPT ![w] = [at |-> "idle", job |-> None]]
        /\ UNCHANGED <<jobs, slice, signal, budget, inbox, paused, pass, requests>>
    BY DEF CrashJobWorker, Enter, loopWorkerVars
  <1>0. UNCHANGED <<slice, signal, inbox, paused, pass, requests>> /\ budget' \in [JobWorkers -> 0 .. MaxPages]
    BY <1>1 DEF JInv, TypeOK
  <1>2. w \in Actors
    BY DEF Actors
  <1>3. /\ txn' \in [Actors -> Write \cup {None}] /\ TxnsOK' /\ OneWriter'
        /\ txn'[w] = None /\ \A b \in Actors \ {w} : txn'[b] = txn[b]
    BY <1>1, <1>2, Closed
  <1>4. /\ mode'[w] = [at |-> "idle", job |-> None]
        /\ \A v \in JobWorkers \ {w} : mode'[v] = mode[v]
        /\ mode' \in [JobWorkers -> ModeType]
    BY <1>1 DEF JInv, TypeOK, ModeType
  <1>5. jobs' \in [Jobs -> Job] /\ RowsOK' /\ DatesAgree'
    BY <1>1 DEF JInv, TypeOK, RowsOK, DatesAgree
  <1>6. TypeOK'
    <2>1. mode' \in [JobWorkers -> ModeType]
      BY <1>4
    <2>2. txn' \in [Actors -> Write \cup {None}] /\ \A b \in Actors \ {w} : txn'[b] = txn[b]
      BY <1>3
    <2>3. QED
      BY <1>0, <1>5, <2>1, <2>2, WorkerTypeOK DEF JInv
  <1>7. ModesOK'
    BY <1>1, <1>3, <1>4 DEF JInv, ModesOK, Actors
  <1>8. QED
    BY <1>1, <1>3, <1>4, <1>5, <1>6, <1>7, Rest DEF JInv, CrawledIsNotQueued, TypeOK

\* Steps of a crawl, and of the loop workers, leave the rows and transactions alone.
LEMMA CrawlJInv ==
    ASSUME JInv, TypeOK', UNCHANGED <<jobs, txn, mode>>
    PROVE  JInv'
  <1>1. TxnsOK' /\ OneWriter' /\ ModesOK' /\ RowsOK' /\ DatesAgree' /\ CrawledIsNotQueued'
    BY DEF JInv, TxnsOK, OneWriter, ModesOK, RowsOK, DatesAgree, CrawledIsNotQueued
  <1>2. QED
    BY <1>1 DEF JInv

LEMMA Fetched ==
    ASSUME slice \in [Jobs -> Slice], NEW j \in Jobs, NEW retry \in BOOLEAN, Fetch(j, retry)
    PROVE  slice' \in [Jobs -> Slice]
  <1> DEFINE new == [due |-> slice[j].due - 1,
                     later |-> IF retry THEN slice[j].later + 1 ELSE slice[j].later]
  <1>1. slice[j].due \in Nat \ {0} /\ slice[j].later \in Nat
    BY DEF Fetch, Slice
  <1>2. new \in Slice
    BY <1>1 DEF Slice
  <1>3. slice' = [slice EXCEPT ![j] = new]
    BY DEF Fetch
  <1> HIDE DEF new
  <1>4. QED
    BY <1>2, <1>3

LEMMA PageTypes ==
    ASSUME TypeOK, NEW retry \in BOOLEAN,
           \/ \E w \in JobWorkers : CrawlPage(w, retry)
           \/ \E w \in LoopWorkers, j \in Jobs : LoopPage(w, j, retry)
    PROVE  TypeOK' /\ UNCHANGED <<jobs, txn, mode>>
  <1>1. CASE \E w \in JobWorkers : CrawlPage(w, retry)
    <2>1. PICK w \in JobWorkers : CrawlPage(w, retry)
      BY <1>1
    <2>2. mode[w].job \in Jobs
      BY <2>1 DEF CrawlPage, TypeOK
    <2>3. slice' \in [Jobs -> Slice]
      BY <2>1, <2>2, Fetched DEF CrawlPage, TypeOK
    <2>4. budget' \in [JobWorkers -> 0 .. MaxPages]
      BY <2>1, JobsAssumption DEF CrawlPage, TypeOK
    <2>5. TypeOK' /\ UNCHANGED <<jobs, txn, mode>>
      BY <2>1, <2>3, <2>4 DEF CrawlPage, loopWorkerVars, TypeOK
    <2>6. QED
      BY <2>5
  <1>2. CASE \E w \in LoopWorkers, j \in Jobs : LoopPage(w, j, retry)
    <2>1. PICK w \in LoopWorkers, j \in Jobs : LoopPage(w, j, retry)
      BY <1>2
    <2>2. slice' \in [Jobs -> Slice]
      BY <2>1, Fetched DEF LoopPage, TypeOK
    <2>3. TypeOK' /\ UNCHANGED <<jobs, txn, mode>>
      BY <2>1, <2>2 DEF LoopPage, jobWorkerVars, loopWorkerVars, TypeOK
    <2>4. QED
      BY <2>3
  <1>3. QED
    BY <1>1, <1>2

LEMMA RetryDueTypes ==
    ASSUME TypeOK, NEW j \in Jobs, RetryDue(j)
    PROVE  TypeOK' /\ UNCHANGED <<jobs, txn, mode>>
  <1> DEFINE new == [due |-> slice[j].due + slice[j].later, later |-> 0]
  <1>1. new \in Slice
    BY DEF TypeOK, Slice
  <1>2. slice' = [slice EXCEPT ![j] = new]
    BY DEF RetryDue
  <1> HIDE DEF new
  <1>3. slice' \in [Jobs -> Slice]
    BY <1>1, <1>2 DEF TypeOK
  <1>4. TypeOK' /\ UNCHANGED <<jobs, txn, mode>>
    BY <1>3 DEF RetryDue, jobWorkerVars, loopWorkerVars, TypeOK
  <1>5. QED
    BY <1>4

LEMMA LoopWorkerTypes ==
    ASSUME TypeOK, NEW w \in LoopWorkers,
           \/ Listen(w) \/ EndLoopPass(w) \/ RestartLoopWorker(w)
           \/ \E s \in Sources : StartPass(w, s)
    PROVE  TypeOK' /\ UNCHANGED <<jobs, txn, mode>>
  <1>1. CASE Listen(w)
    <2> DEFINE s == Head(inbox[w])
    <2>1. s \in Signals /\ Tail(inbox[w]) \in Seq(Signals)
      BY <1>1 DEF Listen, TypeOK
    <2>2. inbox' \in [LoopWorkers -> Seq(Signals)]
      BY <1>1, <2>1 DEF Listen, TypeOK
    <2>3. s.source \in Sources
      BY <2>1 DEF Signals
    <2> HIDE DEF s
    <2>4. paused' \in [LoopWorkers -> SUBSET Sources]
      <3>1. paused' = [paused EXCEPT ![w] =
                         IF s.op = "pause" THEN paused[w] \cup {s.source} ELSE paused[w] \ {s.source}]
        BY <1>1 DEF Listen, s
      <3>2. QED
        BY <2>3, <3>1 DEF TypeOK
    <2>5. TypeOK' /\ UNCHANGED <<jobs, txn, mode>>
      BY <1>1, <2>2, <2>4 DEF Listen, jobWorkerVars, TypeOK
    <2>6. QED
      BY <2>5
  <1>2. CASE EndLoopPass(w)
    <2>1. TypeOK' /\ UNCHANGED <<jobs, txn, mode>>
      BY <1>2 DEF EndLoopPass, jobWorkerVars, TypeOK
    <2>2. QED
      BY <2>1
  <1>3. CASE RestartLoopWorker(w)
    <2>1. TypeOK' /\ UNCHANGED <<jobs, txn, mode>>
      BY <1>3 DEF RestartLoopWorker, jobWorkerVars, TypeOK
    <2>2. QED
      BY <2>1
  <1>4. CASE \E s \in Sources : StartPass(w, s)
    <2>1. TypeOK' /\ UNCHANGED <<jobs, txn, mode>>
      BY <1>4 DEF StartPass, jobWorkerVars, TypeOK
    <2>2. QED
      BY <2>1
  <1>5. QED
    BY <1>1, <1>2, <1>3, <1>4

\* The steps that change neither a row nor a transaction nor where a job worker is.
QuietStep ==
    \/ \E j \in Jobs : RetryDue(j)
    \/ \E c \in Clients : PublishSignal(c)
    \/ \E w \in JobWorkers, retry \in BOOLEAN : CrawlPage(w, retry)
    \/ \E w \in LoopWorkers, j \in Jobs, retry \in BOOLEAN : LoopPage(w, j, retry)
    \/ \E w \in LoopWorkers : Listen(w) \/ EndLoopPass(w) \/ RestartLoopWorker(w)
    \/ \E w \in LoopWorkers, s \in Sources : StartPass(w, s)

LEMMA QuietTypes ==
    ASSUME TypeOK, QuietStep
    PROVE  TypeOK' /\ UNCHANGED <<jobs, txn, mode>>
  BY RetryDueTypes, PublishSignalTypes, PageTypes, LoopWorkerTypes DEF QuietStep

LEMMA StutterJInv ==
    ASSUME JInv, UNCHANGED vars
    PROVE  JInv'
  <1>1. TypeOK' /\ UNCHANGED <<jobs, txn, mode>>
    BY DEF vars, JInv, TypeOK
  <1>2. QED
    BY <1>1, CrawlJInv

LEMMA NextJInv ==
    ASSUME JInv, OneWriter', [JobsNext]_vars
    PROVE  JInv'
  <1>1. ASSUME NEW j \in Jobs, NEW n \in SliceSizes, CreateJob(j, n) PROVE JInv'
    BY <1>1, CreateJobJInv
  <1>2. ASSUME TypeOK' /\ UNCHANGED <<jobs, txn, mode>> PROVE JInv'
    BY <1>2, CrawlJInv
  <1>3. ASSUME NEW c \in Clients, NEW op \in Ops, NEW j \in Jobs, Request(c, op, j) PROVE JInv'
    BY <1>3, RequestJInv
  <1>4. ASSUME NEW c \in Clients, CommitRequest(c) \/ FailRequest(c) PROVE JInv'
    BY <1>4, EndRequestJInv
  <1>5. ASSUME NEW w \in JobWorkers, NEW j \in Jobs, LoadJob(w, j) PROVE JInv'
    BY <1>5, LoadJobJInv
  <1>6. ASSUME NEW w \in JobWorkers,
               CommitStart(w) \/ EndPass(w) \/ CommitFinish(w) \/ CrashJobWorker(w)
        PROVE  JInv'
    BY <1>6, CommitWorkerJInv, EndPassJInv, CrashJobWorkerJInv
  <1>7. ASSUME QuietStep PROVE JInv'
    BY <1>2, <1>7, QuietTypes DEF JInv
  <1>8. QED
    BY <1>1, <1>3, <1>4, <1>5, <1>6, <1>7, StutterJInv
       DEF JobsNext, Next, Failures, ClientStep, PassStep, QuietStep

LEMMA Invariance == SerialSpec => []JInv
  <1>1. JInv /\ [(Next \/ Failures) /\ OneWriter']_vars => JInv'
    <2> SUFFICES ASSUME JInv, [(Next \/ Failures) /\ OneWriter']_vars
                 PROVE  JInv'
      OBVIOUS
    <2>1. CASE UNCHANGED vars
      BY <2>1, StutterJInv
    <2>2. CASE (Next \/ Failures) /\ OneWriter'
      BY <2>2, NextJInv DEF JobsNext
    <2>3. QED
      BY <2>1, <2>2
  <1>2. QED
    BY <1>1, InitJInv, PTL DEF SerialSpec

-----------------------------------------------------------------------------
(* Types, when transactions overlap: a commit writes what was right for the row  *)
(* that was loaded, and the row may be another one by then.                      *)

\* A worker that starts or finishes has a transaction open, and its job exists.
Known ==
    \A w \in JobWorkers :
        /\ mode[w].at \in {"starting", "finishing"} => txn[w] # None
        /\ mode[w].at # "idle" => jobs[mode[w].job].status \in Statuses

TInv == TypeOK /\ Known

LEMMA CommittedType ==
    ASSUME TypeOK, NEW a \in Actors, txn[a] # None, WriteRow(a), txn' = [txn EXCEPT ![a] = None]
    PROVE  /\ jobs' \in [Jobs -> Job] /\ txn' \in [Actors -> Write \cup {None}]
           /\ txn'[a] = None /\ \A b \in Actors \ {a} : txn'[b] = txn[b]
           /\ \A j \in Jobs : jobs[j].status \in Statuses => jobs'[j].status \in Statuses
  <1> DEFINE w == txn[a]
             j == w.job
             new == Written(w, jobs[j])
             started == jobs[j].started \/ w.start
             completed == jobs[j].completed \/ w.complete
  <1>1. w \in Write /\ j \in Jobs /\ jobs[j] \in Job /\ w.target \in Statuses
    BY DEF TypeOK, Write
  <1>2. started \in BOOLEAN /\ completed \in BOOLEAN
    BY <1>1, Zenon DEF Job, Write
  <1>3. new = [status |-> w.target, started |-> started, completed |-> completed]
    BY DEF Written
  <1> HIDE DEF started, completed
  <1>4. new \in Job /\ new.status \in Statuses
    BY <1>1, <1>2, <1>3 DEF Job
  <1>5. jobs' = [jobs EXCEPT ![j] = new]
    BY <1>1 DEF WriteRow, Written, TypeOK
  <1> HIDE DEF new
  <1>6. jobs' \in [Jobs -> Job] /\ jobs'[j] = new /\ \A k \in Jobs \ {j} : jobs'[k] = jobs[k]
    BY <1>1, <1>4, <1>5 DEF TypeOK
  <1>7. QED
    BY <1>4, <1>6 DEF TypeOK

LEMMA ClientsTypes ==
    ASSUME TInv, NEW c \in Clients,
           \/ \E op \in Ops, j \in Jobs : Request(c, op, j)
           \/ CommitRequest(c) \/ FailRequest(c)
    PROVE  TInv'
  <1>1. c \in Actors /\ c \notin JobWorkers
    BY JobsAssumption DEF Actors
  <1>2. ASSUME NEW op \in Ops, NEW j \in Jobs, Request(c, op, j)
        PROVE  TInv'
    <2>1. /\ Transition(c, j, TargetOf(op, jobs[j]))
          /\ signal' = [signal EXCEPT ![c] = op] /\ requests' = requests + 1
          /\ requests < MaxRequests /\ jobs[j].status # "absent"
          /\ UNCHANGED <<jobs, slice, mode, budget, inbox, paused, pass>>
      BY <1>2 DEF Request, jobWorkerVars, loopWorkerVars
    <2>2. jobs[j].status \in Statuses
      BY <2>1 DEF TInv, TypeOK, Job
    <2>3. /\ txn' \in [Actors -> Write \cup {None}] /\ txn'[c] # None
          /\ \A b \in Actors \ {c} : txn'[b] = txn[b]
      BY <1>1, <2>1, <2>2, OpenedType DEF TInv
    <2>4. requests' \in 0 .. MaxRequests
      BY <2>1, JobsAssumption DEF TInv, TypeOK
    <2>5. \A d \in Clients : (txn'[d] = None) <=> (signal'[d] = "none")
      BY <2>1, <2>3 DEF TInv, TypeOK, Ops, Actors
    <2>6. TypeOK'
      BY <2>1, <2>3, <2>4, <2>5 DEF TInv, TypeOK
    <2>7. QED
      BY <1>1, <2>1, <2>3, <2>6 DEF TInv, Known, Actors
  <1>3. ASSUME CommitRequest(c) \/ FailRequest(c)
        PROVE  TInv'
    <2>1. /\ txn[c] # None /\ txn' = [txn EXCEPT ![c] = None]
          /\ signal' = [signal EXCEPT ![c] = "none"]
          /\ WriteRow(c) \/ UNCHANGED jobs
          /\ UNCHANGED <<slice, mode, budget, inbox, paused, pass, requests>>
      BY <1>3 DEF CommitRequest, FailRequest, jobWorkerVars, loopWorkerVars, TInv, TypeOK
    <2>2. /\ jobs' \in [Jobs -> Job] /\ txn' \in [Actors -> Write \cup {None}]
          /\ txn'[c] = None /\ \A b \in Actors \ {c} : txn'[b] = txn[b]
          /\ \A j \in Jobs : jobs[j].status \in Statuses => jobs'[j].status \in Statuses
      BY <1>1, <2>1, CommittedType DEF TInv, TypeOK
    <2>3. TypeOK'
      BY <2>1, <2>2 DEF TInv, TypeOK, Actors
    <2>4. QED
      BY <1>1, <2>1, <2>2, <2>3 DEF TInv, TypeOK, Known, Actors
  <1>4. QED
    BY <1>2, <1>3

\* Where a job worker can go, and what it knows of its job there.
LEMMA WorkersTypes ==
    ASSUME TInv, NEW w \in JobWorkers,
           \/ \E j \in Jobs : LoadJob(w, j)
           \/ CommitStart(w) \/ EndPass(w) \/ CommitFinish(w) \/ CrashJobWorker(w)
    PROVE  TInv'
  <1>1. w \in Actors
    BY DEF Actors
  <1>2. ASSUME jobs' \in [Jobs -> Job], txn' \in [Actors -> Write \cup {None}],
               \A b \in Actors \ {w} : txn'[b] = txn[b],
               \A j \in Jobs : jobs[j].status \in Statuses => jobs'[j].status \in Statuses,
               budget' \in [JobWorkers -> 0 .. MaxPages],
               UNCHANGED <<slice, signal, inbox, paused, pass, requests>>,
               NEW at \in {"starting", "crawling", "finishing"}, NEW j \in Jobs,
               mode' \in {[mode EXCEPT ![w] = [at |-> at, job |-> j]],
                          [mode EXCEPT ![w] = [at |-> "idle", job |-> None]]},
               at \in {"starting", "finishing"} => txn'[w] # None, jobs'[j].status \in Statuses
        PROVE  TInv'
    <2>1. /\ mode' \in [JobWorkers -> ModeType] /\ \A v \in JobWorkers \ {w} : mode'[v] = mode[v]
          /\ mode'[w] \in {[at |-> at, job |-> j], [at |-> "idle", job |-> None]}
      <3> DEFINE busy == [at |-> at, job |-> j]
                 idle == [at |-> "idle", job |-> None]
      <3>1. busy \in ModeType /\ idle \in ModeType
        BY <1>2 DEF ModeType
      <3>2. mode \in [JobWorkers -> ModeType]
        BY DEF TInv, TypeOK, ModeType
      <3>3. mode' = [mode EXCEPT ![w] = busy] \/ mode' = [mode EXCEPT ![w] = idle]
        BY <1>2
      <3> HIDE DEF busy, idle
      <3>4. /\ mode' \in [JobWorkers -> ModeType] /\ \A v \in JobWorkers \ {w} : mode'[v] = mode[v]
            /\ mode'[w] \in {busy, idle}
        BY <3>1, <3>2, <3>3
      <3>5. QED
        BY <3>4 DEF busy, idle
    <2>2. TypeOK'
      BY <1>2, <2>1, WorkerTypeOK DEF TInv
    <2>3. \A v \in JobWorkers : mode[v].at # "idle" => mode[v].job \in Jobs
      BY DEF TInv, TypeOK
    <2>4. Known'
      <3> SUFFICES ASSUME NEW v \in JobWorkers
                   PROVE  /\ mode'[v].at \in {"starting", "finishing"} => txn'[v] # None
                          /\ mode'[v].at # "idle" => jobs'[mode'[v].job].status \in Statuses
        BY DEF Known
      <3>1. CASE v = w
        BY <1>2, <2>1, <3>1
      <3>2. CASE v # w
        BY <1>2, <2>1, <2>3, <3>2 DEF TInv, Known, Actors
      <3>3. QED
        BY <3>1, <3>2
    <2>5. QED
      BY <2>2, <2>4 DEF TInv
  <1>3. ASSUME NEW j \in Jobs, LoadJob(w, j)
        PROVE  TInv'
    <2>1. /\ jobs[j].status \in Statuses /\ budget' = [budget EXCEPT ![w] = MaxPages]
          /\ UNCHANGED <<jobs, slice, signal, inbox, paused, pass, requests>>
      BY <1>3 DEF LoadJob, loopWorkerVars, Statuses
    <2>2. budget' \in [JobWorkers -> 0 .. MaxPages] /\ jobs' \in [Jobs -> Job]
      BY <2>1, JobsAssumption DEF TInv, TypeOK
    <2>3. CASE Transition(w, j, "running") /\ Enter(w, "starting", j)
      <3>1. /\ txn' \in [Actors -> Write \cup {None}] /\ txn'[w] # None
            /\ \A b \in Actors \ {w} : txn'[b] = txn[b]
        BY <1>1, <2>1, <2>3, OpenedType DEF TInv
      <3>2. QED
        BY <1>2, <2>1, <2>2, <2>3, <3>1 DEF Enter
    <2>4. CASE UNCHANGED txn /\ Enter(w, "crawling", j)
      BY <1>2, <2>1, <2>2, <2>4 DEF Enter, TInv, TypeOK
    <2>5. QED
      BY <1>3, <2>3, <2>4 DEF LoadJob
  <1>4. ASSUME mode[w].at # "idle"
        PROVE  mode[w].job \in Jobs /\ jobs[mode[w].job].status \in Statuses
    BY <1>4 DEF TInv, TypeOK, Known
  <1>5. ASSUME CommitStart(w) \/ CommitFinish(w)
        PROVE  TInv'
    <2> DEFINE j == mode[w].job
    <2>1. /\ j \in Jobs /\ jobs[j].status \in Statuses /\ txn[w] # None
          /\ WriteRow(w) /\ txn' = [txn EXCEPT ![w] = None]
          /\ mode' \in {[mode EXCEPT ![w] = [at |-> "crawling", job |-> j]],
                        [mode EXCEPT ![w] = [at |-> "idle", job |-> None]]}
          /\ UNCHANGED <<slice, signal, budget, inbox, paused, pass, requests>>
      BY <1>4, <1>5 DEF CommitStart, CommitFinish, Enter, loopWorkerVars, TInv, Known
    <2>2. /\ jobs' \in [Jobs -> Job] /\ txn' \in [Actors -> Write \cup {None}]
          /\ \A b \in Actors \ {w} : txn'[b] = txn[b]
          /\ \A i \in Jobs : jobs[i].status \in Statuses => jobs'[i].status \in Statuses
      BY <1>1, <2>1, CommittedType DEF TInv
    <2>3. budget' \in [JobWorkers -> 0 .. MaxPages]
      BY <2>1 DEF TInv, TypeOK
    <2>4. QED
      BY <1>2, <2>1, <2>2, <2>3
  <1>6. ASSUME EndPass(w)
        PROVE  TInv'
    <2> DEFINE j == mode[w].job
    <2>1. /\ j \in Jobs /\ jobs[j].status \in Statuses
          /\ UNCHANGED <<jobs, slice, signal, budget, inbox, paused, pass, requests>>
      BY <1>4, <1>6 DEF EndPass, loopWorkerVars
    <2>2. budget' \in [JobWorkers -> 0 .. MaxPages] /\ jobs' \in [Jobs -> Job]
      BY <2>1 DEF TInv, TypeOK
    <2>3. CASE Transition(w, j, "completed") /\ Enter(w, "finishing", j)
      <3>1. /\ txn' \in [Actors -> Write \cup {None}] /\ txn'[w] # None
            /\ \A b \in Actors \ {w} : txn'[b] = txn[b]
        BY <1>1, <2>1, <2>3, OpenedType DEF TInv
      <3>2. QED
        BY <1>2, <2>1, <2>2, <2>3, <3>1 DEF Enter
    <2>4. CASE UNCHANGED txn /\ Enter(w, "idle", None)
      BY <1>2, <2>1, <2>2, <2>4 DEF Enter, TInv, TypeOK
    <2>5. QED
      BY <1>6, <2>3, <2>4 DEF EndPass
  <1>7. ASSUME CrashJobWorker(w)
        PROVE  TInv'
    <2> DEFINE j == mode[w].job
    <2>1. /\ j \in Jobs /\ jobs[j].status \in Statuses /\ txn' = [txn EXCEPT ![w] = None]
          /\ mode' = [mode EXCEPT ![w] = [at |-> "idle", job |-> None]]
          /\ UNCHANGED <<jobs, slice, signal, budget, inbox, paused, pass, requests>>
      BY <1>4, <1>7 DEF CrashJobWorker, Enter, loopWorkerVars
    <2>2. /\ budget' \in [JobWorkers -> 0 .. MaxPages] /\ jobs' \in [Jobs -> Job]
          /\ txn' \in [Actors -> Write \cup {None}] /\ \A b \in Actors \ {w} : txn'[b] = txn[b]
      BY <2>1 DEF TInv, TypeOK
    <2>3. "crawling" \in {"starting", "crawling", "finishing"}
          /\ ~("crawling" \in {"starting", "finishing"})
      OBVIOUS
    <2>4. QED
      BY <1>2, <2>1, <2>2, <2>3
  <1>8. QED
    BY <1>3, <1>5, <1>6, <1>7

LEMMA CreateJobTypes ==
    ASSUME TInv, NEW j \in Jobs, NEW n \in SliceSizes, CreateJob(j, n)
    PROVE  TInv'
  <1>1. /\ jobs' = [jobs EXCEPT ![j].status = "queued"] /\ jobs[j].status = "absent"
        /\ slice' = [slice EXCEPT ![j].due = n]
        /\ UNCHANGED <<txn, signal, mode, budget, inbox, paused, pass, requests>>
    BY DEF CreateJob, jobWorkerVars, loopWorkerVars
  <1>2. jobs' \in [Jobs -> Job] /\ \A k \in Jobs : jobs[k].status \in Statuses => jobs'[k].status \in Statuses
    BY <1>1 DEF TInv, TypeOK, Job, Statuses
  <1>3. slice' \in [Jobs -> Slice]
    <2>1. slice \in [Jobs -> Slice] /\ n \in Nat
      BY JobsAssumption DEF TInv, TypeOK
    <2>2. QED
      BY <1>1, <2>1 DEF Slice
  <1>4. TypeOK'
    BY <1>1, <1>2, <1>3 DEF TInv, TypeOK
  <1>5. \A w \in JobWorkers : mode[w].at # "idle" => mode[w].job \in Jobs
    BY DEF TInv, TypeOK
  <1>6. QED
    BY <1>1, <1>2, <1>4, <1>5 DEF TInv, Known

LEMMA NextTypes ==
    ASSUME TInv, [JobsNext]_vars
    PROVE  TInv'
  <1>1. ASSUME TypeOK' /\ UNCHANGED <<jobs, txn, mode>> PROVE TInv'
    BY <1>1 DEF TInv, Known
  <1>2. ASSUME QuietStep PROVE TInv'
    BY <1>1, <1>2, QuietTypes DEF TInv
  <1>3. ASSUME UNCHANGED vars PROVE TInv'
    BY <1>3 DEF vars, TInv, TypeOK, Known
  <1>4. QED
    BY <1>2, <1>3, ClientsTypes, WorkersTypes, CreateJobTypes
       DEF JobsNext, Next, Failures, ClientStep, PassStep, QuietStep

-----------------------------------------------------------------------------
(* The theorems.                                                           *)

\* The rows, the open transactions, the signals and the workers hold values of their types,
\* who crawls or commits has a job and a client has a signal exactly while its transaction is
\* open, however transactions overlap and whatever dies.
THEOREM TypeCorrect == Spec => []TypeOK
  <1>1. Init => TInv
    <2> SUFFICES ASSUME Init
                 PROVE  TInv
      OBVIOUS
    <2>1. TypeOK
      BY InitJInv DEF JInv
    <2>2. Known
      BY DEF Init, Known
    <2>3. QED
      BY <2>1, <2>2 DEF TInv
  <1>2. TInv /\ [Next \/ Failures]_vars => TInv'
    BY NextTypes DEF JobsNext
  <1>3. TInv => TypeOK
    BY DEF TInv
  <1>4. QED
    BY <1>1, <1>2, <1>3, PTL DEF Spec

\* A job has a completed_at exactly when it is over and a started_at when it has run
\* (transition, services/crawl_jobs.py), whatever processes die, when transactions on one
\* job do not overlap.
THEOREM DatesAlwaysAgree == SerialSpec => []DatesAgree
  <1>1. JInv => DatesAgree
    BY DEF JInv
  <1>2. QED
    BY <1>1, Invariance, PTL

\* A job that a worker crawls has been started and is not in the queue (run_worker.py), when
\* transactions on one job do not overlap.
THEOREM CrawledIsNeverQueued == SerialSpec => []CrawledIsNotQueued
  <1>1. JInv => CrawledIsNotQueued
    BY DEF JInv
  <1>2. QED
    BY <1>1, Invariance, PTL

-----------------------------------------------------------------------------
(* The control signals.  What a loop worker will hold paused when it has     *)
(* heard all its signals, and what the row of the job says or is about to.   *)

\* Whether a source is paused after the signals of a queue, when it was or was not before.
PausedAfter(q, s, was) ==
    \/ was /\ \A i \in 1 .. Len(q) : q[i].source # s
    \/ \E i \in 1 .. Len(q) : /\ q[i].source = s /\ q[i].op = "pause"
                              /\ \A k \in i + 1 .. Len(q) : q[k].source # s

\* The request that holds the row decides, or else the row.
Sent(c, j) == signal[c] = "sent" /\ txn[c].job = j
WillBePaused(j) ==
    IF \E c \in Clients : Sent(c, j)
    THEN \E c \in Clients : Sent(c, j) /\ txn[c].target = "paused"
    ELSE jobs[j].status = "paused"

SignalTypeOK ==
    /\ jobs \in [Jobs -> Job] /\ txn \in [Actors -> Write \cup {None}]
    /\ signal \in [Clients -> Ops \cup {"none", "sent"}]
    /\ inbox \in [LoopWorkers -> Seq(Signals)] /\ paused \in [LoopWorkers -> SUBSET Sources]
    /\ \A c \in Clients : txn[c] = None <=> signal[c] = "none"

OneHolder == \A c, d \in Clients, j \in Jobs : Sent(c, j) /\ Sent(d, j) => c = d
SignalsMatch == \A c \in Clients : signal[c] \in Ops => (txn[c].target = "paused" <=> signal[c] = "pause")
HeardOK ==
    \A w \in LoopWorkers, j \in Jobs :
        PausedAfter(inbox[w], SourceOf[j], SourceOf[j] \in paused[w]) <=> WillBePaused(j)

SignalInv == SignalTypeOK /\ OneHolder /\ SignalsMatch /\ HeardOK

\* A job worker that is starting a job has found it in the queue.
StartsOK == \A w \in JobWorkers : mode[w].at = "starting" => jobs[mode[w].job].status = "queued"

OneJobPerSource == \A i, j \in Jobs : SourceOf[i] = SourceOf[j] => i = j

\* No process dies, and transactions on one job do not overlap.
CalmSerialSpec == Init /\ [][Next /\ OneWriter']_vars

\* One more signal.
LEMMA PausedAfterAppend ==
    ASSUME NEW q \in Seq(Signals), NEW m \in Signals, NEW s, NEW was \in BOOLEAN
    PROVE  /\ m.source = s => (PausedAfter(Append(q, m), s, was) <=> m.op = "pause")
           /\ m.source # s => (PausedAfter(Append(q, m), s, was) <=> PausedAfter(q, s, was))
  <1> DEFINE r == Append(q, m)
             n == Len(q)
  <1>1. /\ n \in Nat /\ Len(r) = n + 1 /\ r[n + 1] = m
        /\ \A i \in 1 .. n : r[i] = q[i]
    OBVIOUS
  <1> HIDE DEF r, n
  <1>2. CASE m.source = s
    <2>1. ASSUME NEW i \in 1 .. n
          PROVE  ~(\A k \in i + 1 .. n + 1 : r[k].source # s)
      BY <1>1, <1>2
    <2>2. ~(\A i \in 1 .. n + 1 : r[i].source # s)
      BY <1>1, <1>2
    <2>3. \A k \in (n + 1) + 1 .. n + 1 : FALSE
      BY <1>1
    <2>4. (\E i \in 1 .. n + 1 : /\ r[i].source = s /\ r[i].op = "pause"
                                 /\ \A k \in i + 1 .. n + 1 : r[k].source # s)
             <=> m.op = "pause"
      <3>1. ASSUME m.op = "pause"
            PROVE  \E i \in 1 .. n + 1 : /\ r[i].source = s /\ r[i].op = "pause"
                                         /\ \A k \in i + 1 .. n + 1 : r[k].source # s
        <4>1. n + 1 \in 1 .. n + 1
          BY <1>1
        <4>2. QED
          BY <1>1, <1>2, <2>3, <3>1, <4>1
      <3>2. ASSUME NEW i \in 1 .. n + 1, r[i].op = "pause",
                   \A k \in i + 1 .. n + 1 : r[k].source # s
            PROVE  m.op = "pause"
        <4>1. i \in 1 .. n \/ i = n + 1
          BY <1>1
        <4>2. QED
          BY <1>1, <2>1, <3>2, <4>1
      <3>3. QED
        BY <3>1, <3>2
    <2>5. QED
      BY <1>1, <1>2, <2>2, <2>4 DEF PausedAfter, r
  <1>3. CASE m.source # s
    <2>1. (\A i \in 1 .. n + 1 : r[i].source # s) <=> \A i \in 1 .. n : q[i].source # s
      BY <1>1, <1>3
    <2>2. \A i \in 1 .. n : (\A k \in i + 1 .. n + 1 : r[k].source # s)
                               <=> \A k \in i + 1 .. n : q[k].source # s
      BY <1>1, <1>3
    <2>3. (\E i \in 1 .. n + 1 : /\ r[i].source = s /\ r[i].op = "pause"
                                 /\ \A k \in i + 1 .. n + 1 : r[k].source # s)
             <=> \E i \in 1 .. n : /\ q[i].source = s /\ q[i].op = "pause"
                                   /\ \A k \in i + 1 .. n : q[k].source # s
      <3>1. ASSUME NEW i \in 1 .. n + 1, r[i].source = s
            PROVE  i \in 1 .. n /\ r[i] = q[i]
        BY <1>1, <1>3, <3>1
      <3>2. \A i \in 1 .. n : i \in 1 .. n + 1 /\ r[i] = q[i]
        BY <1>1
      <3>3. QED
        BY <2>2, <3>1, <3>2
    <2>4. QED
      BY <1>1, <1>3, <2>1, <2>3 DEF PausedAfter, r, n
  <1>4. QED
    BY <1>2, <1>3

\* The first signal is heard.
LEMMA PausedAfterTail ==
    ASSUME NEW q \in Seq(Signals), q # <<>>, NEW s, NEW was \in BOOLEAN, NEW now \in BOOLEAN,
           now <=> IF Head(q).source = s THEN Head(q).op = "pause" ELSE was
    PROVE  PausedAfter(Tail(q), s, now) <=> PausedAfter(q, s, was)
  <1> DEFINE t == Tail(q)
             n == Len(t)
  <1>1. /\ n \in Nat /\ Len(q) = n + 1 /\ q[1] = Head(q)
        /\ \A i \in 1 .. n : t[i] = q[i + 1]
    OBVIOUS
  <1> HIDE DEF t, n
  <1>2. (\A i \in 1 .. n + 1 : q[i].source # s)
           <=> Head(q).source # s /\ \A i \in 1 .. n : t[i].source # s
    <2>1. \A i \in 1 .. n + 1 : i = 1 \/ (i - 1 \in 1 .. n /\ i = (i - 1) + 1)
      BY <1>1
    <2>2. \A i \in 1 .. n : i + 1 \in 1 .. n + 1
      BY <1>1
    <2>3. 1 \in 1 .. n + 1
      BY <1>1
    <2>4. QED
      BY <1>1, <2>1, <2>2, <2>3
  <1>3. \A i \in 1 .. n : (\A k \in (i + 1) + 1 .. n + 1 : q[k].source # s)
                             <=> \A k \in i + 1 .. n : t[k].source # s
    <2> SUFFICES ASSUME NEW i \in 1 .. n
                 PROVE  (\A k \in (i + 1) + 1 .. n + 1 : q[k].source # s)
                           <=> \A k \in i + 1 .. n : t[k].source # s
      OBVIOUS
    <2>1. \A k \in (i + 1) + 1 .. n + 1 : k - 1 \in i + 1 .. n /\ k - 1 \in 1 .. n /\ k = (k - 1) + 1
      BY <1>1
    <2>2. \A k \in i + 1 .. n : k + 1 \in (i + 1) + 1 .. n + 1 /\ k \in 1 .. n
      BY <1>1
    <2>3. ASSUME \A k \in (i + 1) + 1 .. n + 1 : q[k].source # s, NEW k \in i + 1 .. n
          PROVE  t[k].source # s
      BY <1>1, <2>2, <2>3
    <2>4. ASSUME \A k \in i + 1 .. n : t[k].source # s, NEW k \in (i + 1) + 1 .. n + 1
          PROVE  q[k].source # s
      <3>1. t[k - 1] = q[(k - 1) + 1] /\ t[k - 1].source # s
        BY <1>1, <2>1, <2>4
      <3>2. QED
        BY <2>1, <3>1
    <2>5. QED
      BY <2>3, <2>4
  <1>4. (\A k \in 1 + 1 .. n + 1 : q[k].source # s) <=> \A i \in 1 .. n : t[i].source # s
    <2>1. \A k \in 1 + 1 .. n + 1 : k - 1 \in 1 .. n /\ k = (k - 1) + 1
      BY <1>1
    <2>2. \A i \in 1 .. n : i + 1 \in 1 + 1 .. n + 1
      BY <1>1
    <2>3. ASSUME \A k \in 1 + 1 .. n + 1 : q[k].source # s, NEW i \in 1 .. n
          PROVE  t[i].source # s
      BY <1>1, <2>2, <2>3
    <2>4. ASSUME \A i \in 1 .. n : t[i].source # s, NEW k \in 1 + 1 .. n + 1
          PROVE  q[k].source # s
      <3>1. t[k - 1] = q[(k - 1) + 1] /\ t[k - 1].source # s
        BY <1>1, <2>1, <2>4
      <3>2. QED
        BY <2>1, <3>1
    <2>5. QED
      BY <2>3, <2>4
  <1> DEFINE LastIn(r, i, m) == /\ r[i].source = s /\ r[i].op = "pause"
                                /\ \A k \in i + 1 .. m : r[k].source # s
  <1>5. (\E i \in 1 .. n + 1 : LastIn(q, i, n + 1))
           <=> \/ Head(q).source = s /\ Head(q).op = "pause" /\ \A i \in 1 .. n : t[i].source # s
               \/ \E i \in 1 .. n : LastIn(t, i, n)
    <2>1. LastIn(q, 1, n + 1)
             <=> Head(q).source = s /\ Head(q).op = "pause" /\ \A i \in 1 .. n : t[i].source # s
      BY <1>1, <1>4
    <2>2. \A i \in 1 .. n : LastIn(q, i + 1, n + 1) <=> LastIn(t, i, n)
      BY <1>1, <1>3
    <2> HIDE DEF LastIn
    <2>3. \A i \in 1 .. n + 1 : i = 1 \/ (i - 1 \in 1 .. n /\ i = (i - 1) + 1)
      BY <1>1
    <2>4. 1 \in 1 .. n + 1 /\ \A i \in 1 .. n : i + 1 \in 1 .. n + 1
      BY <1>1
    <2>5. QED
      BY <2>1, <2>2, <2>3, <2>4
  <1>6. PausedAfter(q, s, was) <=> \/ was /\ \A i \in 1 .. n + 1 : q[i].source # s
                                   \/ \E i \in 1 .. n + 1 : LastIn(q, i, n + 1)
    BY <1>1 DEF PausedAfter
  <1>7. PausedAfter(t, s, now) <=> \/ now /\ \A i \in 1 .. n : t[i].source # s
                                   \/ \E i \in 1 .. n : LastIn(t, i, n)
    BY DEF PausedAfter, n
  <1> HIDE DEF LastIn
  <1>8. QED
    BY <1>2, <1>5, <1>6, <1>7 DEF t

-----------------------------------------------------------------------------
(* What the steps do to the signals.                                       *)

LEMMA HolderIsLocked ==
    ASSUME SignalTypeOK, NEW j \in Jobs
    PROVE  (\E c \in Clients : Sent(c, j)) <=> Locked(j)
  BY DEF Sent, Locked, OpenOn, Actors, SignalTypeOK

\* A step that changes no signal, no inbox, no transaction of a client, and no row
\* from or to "paused" without a request.
LEMMA SignalsSteady ==
    ASSUME SignalInv, UNCHANGED <<signal, inbox, paused>>,
           jobs' \in [Jobs -> Job], txn' \in [Actors -> Write \cup {None}],
           \A c \in Clients : txn'[c] = txn[c],
           \A j \in Jobs : (jobs'[j].status = "paused") <=> (jobs[j].status = "paused")
    PROVE  SignalInv'
  <1>1. SignalTypeOK'
    BY DEF SignalInv, SignalTypeOK
  <1>2. \A c \in Clients, j \in Jobs : Sent(c, j)' <=> Sent(c, j)
    BY DEF Sent
  <1>3. OneHolder'
    BY <1>2 DEF SignalInv, OneHolder
  <1>4. SignalsMatch'
    BY DEF SignalInv, SignalsMatch
  <1>5. ASSUME NEW j \in Jobs
        PROVE  WillBePaused(j)' <=> WillBePaused(j)
    BY <1>2 DEF WillBePaused
  <1>6. HeardOK'
    BY <1>5 DEF SignalInv, HeardOK
  <1>7. QED
    BY <1>1, <1>3, <1>4, <1>6 DEF SignalInv

LEMMA RequestSignals ==
    ASSUME SignalInv, NEW c \in Clients, NEW op \in Ops, NEW j \in Jobs, Request(c, op, j)
    PROVE  SignalInv'
  <1> DEFINE target == TargetOf(op, jobs[j])
             w == [job |-> j, target |-> target,
                   start |-> target = "running" /\ ~jobs[j].started,
                   complete |-> target \in Terminal]
  <1>1. /\ txn[c] = None /\ txn' = [txn EXCEPT ![c] = w]
        /\ target \in VALID_TRANSITIONS[jobs[j].status] /\ jobs[j].status # "absent"
        /\ signal' = [signal EXCEPT ![c] = op]
        /\ UNCHANGED <<jobs, inbox, paused>>
    BY DEF Request, Transition, loopWorkerVars
  <1>2. c \in Actors
    BY DEF Actors
  <1>3. w \in Write /\ w # None /\ w.target = target
    <2> DEFINE start == target = "running" /\ ~jobs[j].started
               complete == target \in Terminal
    <2>1. start \in BOOLEAN
      <3>1. CASE start
        BY <3>1
      <3>2. CASE ~start
        BY <3>2
      <3>3. QED
        BY <3>1, <3>2
    <2>2. complete \in BOOLEAN
      <3>1. CASE complete
        BY <3>1
      <3>2. CASE ~complete
        BY <3>2
      <3>3. QED
        BY <3>1, <3>2
    <2>3. target \in Statuses
      BY <1>1, TargetsAreStatuses DEF SignalInv, SignalTypeOK, Job
    <2> HIDE DEF start, complete, target
    <2>4. w \in Write /\ w.target = target
      BY <2>1, <2>2, <2>3 DEF Write
    <2>5. QED
      BY <2>4, NoneAssumption
  <1>4. target = "paused" <=> op = "pause"
    BY DEF TargetOf, Ops
  <1> HIDE DEF w, target
  <1>5. /\ txn' \in [Actors -> Write \cup {None}] /\ txn'[c] = w
        /\ \A d \in Clients \ {c} : txn'[d] = txn[d]
        /\ signal' \in [Clients -> Ops \cup {"none", "sent"}] /\ signal'[c] = op
        /\ \A d \in Clients \ {c} : signal'[d] = signal[d]
    BY <1>1, <1>2, <1>3 DEF SignalInv, SignalTypeOK, Actors
  <1>6. signal[c] = "none" /\ "sent" \notin Ops /\ "none" \notin Ops
    BY <1>1 DEF SignalInv, SignalTypeOK, Ops
  <1>7. SignalTypeOK'
    BY <1>1, <1>3, <1>5, <1>6 DEF SignalInv, SignalTypeOK
  <1>8. \A d \in Clients, i \in Jobs : Sent(d, i)' <=> Sent(d, i)
    BY <1>5, <1>6 DEF Sent
  <1>9. OneHolder'
    BY <1>8 DEF SignalInv, OneHolder
  <1>10. SignalsMatch'
    BY <1>3, <1>4, <1>5 DEF SignalInv, SignalsMatch
  <1>11. ASSUME NEW i \in Jobs
         PROVE  WillBePaused(i)' <=> WillBePaused(i)
    <2>1. \A d \in Clients : Sent(d, i) => txn'[d] = txn[d]
      BY <1>5, <1>6 DEF Sent
    <2>2. QED
      BY <1>1, <1>8, <2>1 DEF WillBePaused
  <1>12. HeardOK'
    BY <1>1, <1>11 DEF SignalInv, HeardOK
  <1>13. QED
    BY <1>7, <1>9, <1>10, <1>12 DEF SignalInv

LEMMA PublishSignals ==
    ASSUME OneJobPerSource, SignalInv, NEW c \in Clients, PublishSignal(c)
    PROVE  SignalInv'
  <1> DEFINE j == txn[c].job
             m == [op |-> signal[c], source |-> SourceOf[j]]
  <1>1. /\ signal[c] \in Ops /\ ~Locked(j)
        /\ inbox' = [w \in LoopWorkers |-> Append(inbox[w], m)]
        /\ signal' = [signal EXCEPT ![c] = "sent"]
        /\ UNCHANGED <<jobs, txn, paused>>
    BY DEF PublishSignal
  <1>2. "sent" \notin Ops /\ "none" \notin Ops
    BY DEF Ops
  <1>3. txn[c] \in Write /\ j \in Jobs /\ c \in Actors
    BY <1>1, <1>2 DEF SignalInv, SignalTypeOK, Actors, Write
  <1>4. m \in Signals /\ m.source = SourceOf[j] /\ m.op = signal[c]
    BY <1>1, <1>3, JobsAssumption DEF Signals
  <1> HIDE DEF m
  <1>5. signal'[c] = "sent" /\ \A d \in Clients \ {c} : signal'[d] = signal[d]
    BY <1>1 DEF SignalInv, SignalTypeOK
  <1>6. inbox' \in [LoopWorkers -> Seq(Signals)] /\ \A w \in LoopWorkers : inbox'[w] = Append(inbox[w], m)
    BY <1>1, <1>4 DEF SignalInv, SignalTypeOK
  <1>7. SignalTypeOK'
    BY <1>1, <1>2, <1>5, <1>6 DEF SignalInv, SignalTypeOK
  <1>8. \A d \in Clients : ~Sent(d, j)
    BY <1>1, <1>3, HolderIsLocked DEF SignalInv
  <1>9. \A d \in Clients, i \in Jobs : Sent(d, i)' <=> Sent(d, i) \/ (d = c /\ i = j)
    BY <1>1, <1>2, <1>5 DEF Sent
  <1>10. OneHolder'
    BY <1>3, <1>8, <1>9 DEF SignalInv, OneHolder
  <1>11. SignalsMatch'
    BY <1>1, <1>2, <1>5 DEF SignalInv, SignalsMatch
  <1>12. HeardOK'
    <2> SUFFICES ASSUME NEW w \in LoopWorkers, NEW i \in Jobs
                 PROVE  PausedAfter(inbox'[w], SourceOf[i], SourceOf[i] \in paused[w]) <=> WillBePaused(i)'
      BY <1>1 DEF HeardOK
    <2> DEFINE was == SourceOf[i] \in paused[w]
    <2>1. was \in BOOLEAN
      <3>1. CASE was
        BY <3>1
      <3>2. CASE ~was
        BY <3>2
      <3>3. QED
        BY <3>1, <3>2
    <2>2. PausedAfter(inbox[w], SourceOf[i], was) <=> WillBePaused(i)
      BY DEF SignalInv, HeardOK
    <2> HIDE DEF was
    <2>3. inbox[w] \in Seq(Signals) /\ inbox'[w] = Append(inbox[w], m)
      BY <1>6 DEF SignalInv, SignalTypeOK
    <2>4. ASSUME m.source = SourceOf[i]
          PROVE  PausedAfter(inbox'[w], SourceOf[i], was) <=> m.op = "pause"
      <3>1. PausedAfter(Append(inbox[w], m), SourceOf[i], was) <=> m.op = "pause"
        BY <1>4, <2>1, <2>3, <2>4, PausedAfterAppend
      <3>2. QED
        BY <2>3, <3>1, Zenon
    <2>5. ASSUME m.source # SourceOf[i]
          PROVE  PausedAfter(inbox'[w], SourceOf[i], was) <=> PausedAfter(inbox[w], SourceOf[i], was)
      <3>1. PausedAfter(Append(inbox[w], m), SourceOf[i], was)
              <=> PausedAfter(inbox[w], SourceOf[i], was)
        BY <1>4, <2>1, <2>3, <2>5, PausedAfterAppend
      <3>2. QED
        BY <2>3, <3>1, Zenon
    <2>6. CASE i = j
      <3>1. WillBePaused(i)' <=> txn[c].target = "paused"
        BY <1>1, <1>8, <1>9, <2>6 DEF WillBePaused
      <3>2. txn[c].target = "paused" <=> m.op = "pause"
        BY <1>1, <1>4 DEF SignalInv, SignalsMatch
      <3>3. QED
        BY <1>4, <2>4, <2>6, <3>1, <3>2 DEF was
    <2>7. CASE i # j
      <3>1. WillBePaused(i)' <=> WillBePaused(i)
        BY <1>1, <1>9, <2>7 DEF WillBePaused
      <3>2. m.source # SourceOf[i]
        BY <1>3, <1>4, <2>7 DEF OneJobPerSource
      <3>3. QED
        BY <2>2, <2>5, <3>1, <3>2 DEF was
    <2>8. QED
      BY <2>6, <2>7
  <1>13. QED
    BY <1>7, <1>10, <1>11, <1>12 DEF SignalInv

\* The commit writes what the signal has said.
LEMMA CommitSignals ==
    ASSUME SignalInv, NEW c \in Clients, CommitRequest(c)
    PROVE  SignalInv'
  <1> DEFINE w == txn[c]
             j == w.job
             new == Written(w, jobs[j])
  <1>1. /\ signal[c] = "sent" /\ WriteRow(c) /\ txn' = [txn EXCEPT ![c] = None]
        /\ signal' = [signal EXCEPT ![c] = "none"]
        /\ UNCHANGED <<inbox, paused>>
    BY DEF CommitRequest, loopWorkerVars
  <1>2. w \in Write /\ j \in Jobs /\ jobs[j] \in Job /\ c \in Actors /\ w.target \in Statuses
    BY <1>1 DEF SignalInv, SignalTypeOK, Actors, Write
  <1>3. jobs'[j] = new /\ jobs' = [jobs EXCEPT ![j] = new]
    BY <1>1, <1>2 DEF WriteRow, Written, SignalInv, SignalTypeOK
  <1>4. new.status = w.target /\ new \in Job
    <2> DEFINE started == jobs[j].started \/ w.start
               completed == jobs[j].completed \/ w.complete
    <2>1. started \in BOOLEAN /\ completed \in BOOLEAN
      BY <1>2, Zenon DEF Job, Write
    <2>2. new = [status |-> w.target, started |-> started, completed |-> completed]
      BY DEF Written
    <2> HIDE DEF started, completed
    <2>3. QED
      BY <1>2, <2>1, <2>2 DEF Job
  <1> HIDE DEF new
  <1>5. jobs' \in [Jobs -> Job] /\ jobs'[j].status = w.target /\ \A i \in Jobs \ {j} : jobs'[i] = jobs[i]
    BY <1>2, <1>3, <1>4 DEF SignalInv, SignalTypeOK
  <1>6. /\ txn' \in [Actors -> Write \cup {None}] /\ txn'[c] = None
        /\ \A d \in Clients \ {c} : txn'[d] = txn[d]
        /\ signal' \in [Clients -> Ops \cup {"none", "sent"}] /\ signal'[c] = "none"
        /\ \A d \in Clients \ {c} : signal'[d] = signal[d]
    BY <1>1, <1>2 DEF SignalInv, SignalTypeOK, Actors
  <1>7. SignalTypeOK'
    BY <1>1, <1>5, <1>6 DEF SignalInv, SignalTypeOK
  <1>8. \A d \in Clients, i \in Jobs : Sent(d, i)' <=> d # c /\ Sent(d, i)
    BY <1>6 DEF Sent
  <1>9. OneHolder'
    BY <1>8 DEF SignalInv, OneHolder
  <1>10. SignalsMatch'
    BY <1>6 DEF SignalInv, SignalsMatch, Ops
  <1>11. Sent(c, j) /\ \A d \in Clients : Sent(d, j) => d = c
    BY <1>1, <1>2 DEF Sent, SignalInv, OneHolder
  <1>12. ASSUME NEW i \in Jobs
         PROVE  WillBePaused(i)' <=> WillBePaused(i)
    <2>1. CASE i = j
      <3>1. WillBePaused(i) <=> w.target = "paused"
        BY <1>11, <2>1 DEF WillBePaused
      <3>2. ~ \E d \in Clients : Sent(d, i)'
        BY <1>8, <1>11, <2>1
      <3>3. WillBePaused(i)' <=> jobs'[i].status = "paused"
        BY <3>2 DEF WillBePaused
      <3>4. QED
        BY <1>5, <2>1, <3>1, <3>3
    <2>2. CASE i # j
      <3>1. \A d \in Clients : Sent(d, i)' <=> Sent(d, i)
        BY <1>8, <2>2 DEF Sent
      <3>2. \A d \in Clients : Sent(d, i) => txn'[d] = txn[d]
        BY <1>6, <2>2 DEF Sent
      <3>3. QED
        BY <1>5, <2>2, <3>1, <3>2 DEF WillBePaused
    <2>3. QED
      BY <2>1, <2>2
  <1>13. HeardOK'
    BY <1>1, <1>12 DEF SignalInv, HeardOK
  <1>14. QED
    BY <1>7, <1>9, <1>10, <1>13 DEF SignalInv

LEMMA ListenSignals ==
    ASSUME SignalInv, NEW w \in LoopWorkers, Listen(w)
    PROVE  SignalInv'
  <1> DEFINE m == Head(inbox[w])
  <1>1. /\ inbox[w] # <<>> /\ inbox[w] \in Seq(Signals)
        /\ m \in Signals /\ Tail(inbox[w]) \in Seq(Signals) /\ m.source \in Sources
    <2>1. inbox[w] # <<>> /\ inbox[w] \in Seq(Signals)
      BY DEF Listen, SignalInv, SignalTypeOK
    <2>2. m \in Signals /\ Tail(inbox[w]) \in Seq(Signals)
      BY <2>1
    <2>3. m.source \in Sources
      <3> HIDE DEF m
      <3>1. QED
        BY <2>2 DEF Signals
    <2>4. QED
      BY <2>1, <2>2, <2>3
  <1>2. /\ paused' = [paused EXCEPT ![w] =
                        IF m.op = "pause" THEN @ \cup {m.source} ELSE @ \ {m.source}]
        /\ inbox' = [inbox EXCEPT ![w] = Tail(@)]
        /\ UNCHANGED <<jobs, txn, signal>>
    BY DEF Listen
  <1> HIDE DEF m
  <1>3. /\ inbox' \in [LoopWorkers -> Seq(Signals)] /\ inbox'[w] = Tail(inbox[w])
        /\ \A v \in LoopWorkers \ {w} : inbox'[v] = inbox[v]
        /\ paused' \in [LoopWorkers -> SUBSET Sources]
        /\ \A v \in LoopWorkers \ {w} : paused'[v] = paused[v]
        /\ paused'[w] = IF m.op = "pause" THEN paused[w] \cup {m.source} ELSE paused[w] \ {m.source}
    BY <1>1, <1>2 DEF SignalInv, SignalTypeOK
  <1>4. SignalTypeOK' /\ OneHolder' /\ SignalsMatch'
    BY <1>2, <1>3 DEF SignalInv, SignalTypeOK, OneHolder, Sent, SignalsMatch
  <1>5. ASSUME NEW j \in Jobs
        PROVE  WillBePaused(j)' <=> WillBePaused(j)
    BY <1>2 DEF WillBePaused, Sent
  <1>6. ASSUME NEW j \in Jobs
        PROVE  PausedAfter(inbox'[w], SourceOf[j], SourceOf[j] \in paused'[w])
                  <=> PausedAfter(inbox[w], SourceOf[j], SourceOf[j] \in paused[w])
    <2> DEFINE was == SourceOf[j] \in paused[w]
               now == SourceOf[j] \in paused'[w]
    <2>1. was \in BOOLEAN
      <3>1. CASE was
        BY <3>1
      <3>2. CASE ~was
        BY <3>2
      <3>3. QED
        BY <3>1, <3>2
    <2>2. now \in BOOLEAN
      <3>1. CASE now
        BY <3>1
      <3>2. CASE ~now
        BY <3>2
      <3>3. QED
        BY <3>1, <3>2
    <2>3. now <=> IF m.source = SourceOf[j] THEN m.op = "pause" ELSE was
      BY <1>3
    <2> HIDE DEF was, now
    <2>4. PausedAfter(Tail(inbox[w]), SourceOf[j], now) <=> PausedAfter(inbox[w], SourceOf[j], was)
      BY <1>1, <2>1, <2>2, <2>3, PausedAfterTail DEF m
    <2>5. QED
      BY <1>3, <2>4 DEF was, now
  <1>7. HeardOK'
    BY <1>3, <1>5, <1>6 DEF SignalInv, HeardOK
  <1>8. QED
    BY <1>4, <1>7 DEF SignalInv

\* A worker that starts or finishes its job does not find it paused.
LEMMA WorkerSignals ==
    ASSUME JInv, StartsOK, SignalInv, NEW w \in JobWorkers,
           CommitStart(w) \/ CommitFinish(w)
    PROVE  SignalInv'
  <1> DEFINE j == txn[w].job
  <1>1. /\ w \in Actors /\ txn[w] # None /\ WriteRow(w) /\ txn' = [txn EXCEPT ![w] = None]
        /\ UNCHANGED <<signal, inbox, paused>>
    BY DEF CommitStart, CommitFinish, loopWorkerVars, Actors, JInv, ModesOK
  <1>2. /\ jobs' \in [Jobs -> Job] /\ txn' \in [Actors -> Write \cup {None}]
        /\ \A a \in Actors \ {w} : txn'[a] = txn[a]
        /\ jobs'[j].status = txn[w].target
    BY <1>1, Committed
  <1>3. \A c \in Clients : txn'[c] = txn[c]
    BY <1>2, JobsAssumption DEF Actors
  <1>4. j \in Jobs /\ \A i \in Jobs \ {j} : jobs'[i] = jobs[i]
    BY <1>1 DEF WriteRow, JInv, TypeOK, Write
  <1>5. txn[w].target # "paused" /\ jobs[j].status # "paused"
    <2>1. CASE CommitStart(w)
      BY <2>1 DEF CommitStart, JInv, ModesOK, StartsOK
    <2>2. CASE CommitFinish(w)
      <3>1. txn[w].target = "completed" /\ WriteOK(txn[w], jobs[j])
        BY <1>1, <2>2 DEF CommitFinish, JInv, ModesOK, TxnsOK
      <3>2. jobs[j].status = "running"
        BY <3>1, Moves DEF WriteOK
      <3>3. QED
        BY <3>1, <3>2
    <2>3. QED
      BY <2>1, <2>2
  <1>6. \A i \in Jobs : (jobs'[i].status = "paused") <=> (jobs[i].status = "paused")
    BY <1>2, <1>4, <1>5
  <1>7. QED
    BY <1>1, <1>2, <1>3, <1>6, SignalsSteady

\* Nobody else has a transaction on a job that is being started.
LEMMA StartsKept ==
    ASSUME JInv, StartsOK, [Next]_vars
    PROVE  StartsOK'
  <1> SUFFICES ASSUME NEW w \in JobWorkers, mode'[w].at = "starting"
               PROVE  jobs'[mode'[w].job].status = "queued"
    BY DEF StartsOK
  <1>1. ASSUME NEW j \in Jobs, LoadJob(w, j)
        PROVE  jobs'[mode'[w].job].status = "queued"
    <2>1. jobs' = jobs /\ mode'[w] \in {[at |-> "starting", job |-> j], [at |-> "crawling", job |-> j]}
      BY <1>1 DEF LoadJob, Enter, JInv, TypeOK
    <2>2. jobs[j].status = "queued"
      BY <1>1 DEF LoadJob, Enter, JInv, TypeOK
    <2>3. QED
      BY <2>1, <2>2
  <1>2. CASE ~ \E j \in Jobs : LoadJob(w, j)
    <2>1. mode'[w] = mode[w]
      <3>1. \/ UNCHANGED mode
            \/ \E v \in JobWorkers : (\E j \in Jobs : LoadJob(v, j)) \/ CommitStart(v)
                                     \/ EndPass(v) \/ CommitFinish(v)
        BY DEF Next, vars, CreateJob, RetryDue, Request, ClientStep, PublishSignal,
               CommitRequest, PassStep, CrawlPage, Listen, StartPass, LoopPage, EndLoopPass,
               jobWorkerVars
      <3>2. ASSUME NEW v \in JobWorkers,
                   (\E j \in Jobs : LoadJob(v, j)) \/ CommitStart(v) \/ EndPass(v) \/ CommitFinish(v)
            PROVE  mode'[w] = mode[w]
        <4>1. CASE v = w
          <5>1. mode'[w].at \in {"crawling", "finishing", "idle"}
            BY <1>2, <3>2, <4>1 DEF CommitStart, EndPass, CommitFinish, Enter, JInv, TypeOK
          <5>2. QED
            BY <5>1
        <4>2. CASE v # w
          BY <3>2, <4>2 DEF LoadJob, CommitStart, EndPass, CommitFinish, Enter, JInv, TypeOK
        <4>3. QED
          BY <4>1, <4>2
      <3>3. QED
        BY <3>1, <3>2
    <2>2. /\ mode[w].at = "starting" /\ mode[w].job \in Jobs /\ jobs[mode[w].job].status = "queued"
          /\ w \in Actors /\ txn[w] # None /\ txn[w].job = mode[w].job
      BY <2>1 DEF StartsOK, JInv, TypeOK, ModesOK, Actors
    <2>3. ASSUME NEW a \in Actors, a # w, txn[a] # None, WriteRow(a)
          PROVE  jobs'[mode[w].job] = jobs[mode[w].job]
      <3>1. txn[a].job # mode[w].job
        BY <2>2, <2>3 DEF JInv, OneWriter
      <3>2. QED
        BY <2>2, <2>3, <3>1 DEF WriteRow, JInv, TypeOK
    <2>4. ASSUME NEW j \in Jobs, NEW n \in SliceSizes, CreateJob(j, n)
          PROVE  jobs'[mode[w].job] = jobs[mode[w].job]
      BY <2>2, <2>4 DEF CreateJob, JInv, TypeOK
    <2>5. ASSUME NEW c \in Clients, CommitRequest(c)
          PROVE  jobs'[mode[w].job] = jobs[mode[w].job]
      <3>1. c \in Actors /\ c # w /\ txn[c] # None /\ WriteRow(c)
        BY <2>5, JobsAssumption DEF CommitRequest, Actors, JInv, TypeOK
      <3>2. QED
        BY <2>3, <3>1
    <2>6. ASSUME NEW v \in JobWorkers, CommitStart(v) \/ CommitFinish(v)
          PROVE  jobs'[mode[w].job] = jobs[mode[w].job]
      <3>1. v # w
        <4>1. ASSUME v = w
              PROVE  FALSE
          <5>1. mode'[w].at \in {"crawling", "idle"}
            BY <2>6, <4>1 DEF CommitStart, CommitFinish, Enter, JInv, TypeOK
          <5>2. QED
            BY <5>1
        <4>2. QED
          BY <4>1
      <3>2. v \in Actors /\ txn[v] # None /\ WriteRow(v)
        BY <2>6 DEF CommitStart, CommitFinish, Actors, JInv, ModesOK
      <3>3. QED
        BY <2>3, <3>1, <3>2
    <2>7. \/ UNCHANGED jobs
          \/ \E j \in Jobs, n \in SliceSizes : CreateJob(j, n)
          \/ \E c \in Clients : CommitRequest(c)
          \/ \E v \in JobWorkers : CommitStart(v) \/ CommitFinish(v)
      BY DEF Next, vars, ClientStep, PassStep, RetryDue, Request, PublishSignal,
             LoadJob, CrawlPage, EndPass, Listen, StartPass, LoopPage, EndLoopPass
    <2>8. QED
      BY <2>1, <2>2, <2>4, <2>5, <2>6, <2>7
  <1>3. QED
    BY <1>1, <1>2

LEMMA NextSignals ==
    ASSUME OneJobPerSource, JobWorkers = {} \/ (JInv /\ JInv' /\ StartsOK), SignalInv, [Next]_vars
    PROVE  SignalInv'
  <1>1. ASSUME NEW j \in Jobs, NEW n \in SliceSizes, CreateJob(j, n)
        PROVE  SignalInv'
    <2> DEFINE new == [jobs[j] EXCEPT !.status = "queued"]
    <2>1. /\ jobs[j].status = "absent" /\ jobs[j] \in Job /\ jobs' = [jobs EXCEPT ![j] = new]
          /\ UNCHANGED <<txn, signal, inbox, paused>>
      BY <1>1 DEF CreateJob, loopWorkerVars, SignalInv, SignalTypeOK
    <2>2. new \in Job /\ new.status = "queued"
      BY <2>1 DEF Job, Statuses
    <2> HIDE DEF new
    <2>3. /\ jobs' \in [Jobs -> Job]
          /\ \A i \in Jobs : (jobs'[i].status = "paused") <=> (jobs[i].status = "paused")
      BY <2>1, <2>2 DEF SignalInv, SignalTypeOK
    <2>4. QED
      BY <2>1, <2>3, SignalsSteady DEF SignalInv, SignalTypeOK
  <1>2. ASSUME UNCHANGED <<jobs, signal, inbox, paused>>, txn' \in [Actors -> Write \cup {None}],
               \A c \in Clients : txn'[c] = txn[c]
        PROVE  SignalInv'
    BY <1>2, SignalsSteady DEF SignalInv, SignalTypeOK
  <1>3. ASSUME NEW w \in JobWorkers,
               \/ \E j \in Jobs : LoadJob(w, j)
               \/ EndPass(w)
        PROVE  SignalInv'
    <2>1. JInv /\ JInv'
      OBVIOUS
    <2>2. UNCHANGED <<jobs, signal, inbox, paused>> /\ \A a \in Actors \ {w} : txn'[a] = txn[a]
      BY <1>3, <2>1 DEF LoadJob, EndPass, Transition, loopWorkerVars, JInv, TypeOK
    <2>3. QED
      BY <1>2, <2>1, <2>2, JobsAssumption DEF JInv, TypeOK, Actors
  <1>4. ASSUME NEW w \in JobWorkers, CommitStart(w) \/ CommitFinish(w)
        PROVE  SignalInv'
    BY <1>4, WorkerSignals
  <1>5. ASSUME \/ \E j \in Jobs : RetryDue(j)
               \/ \E w \in JobWorkers, retry \in BOOLEAN : CrawlPage(w, retry)
               \/ \E w \in LoopWorkers, s \in Sources : StartPass(w, s)
               \/ \E w \in LoopWorkers, j \in Jobs, retry \in BOOLEAN : LoopPage(w, j, retry)
               \/ \E w \in LoopWorkers : EndLoopPass(w)
               \/ UNCHANGED vars
        PROVE  SignalInv'
    <2>1. UNCHANGED <<jobs, txn, signal, inbox, paused>>
      BY <1>5 DEF RetryDue, CrawlPage, StartPass, LoopPage, EndLoopPass, vars, loopWorkerVars
    <2>2. QED
      BY <1>2, <2>1 DEF SignalInv, SignalTypeOK
  <1>6. QED
    BY <1>1, <1>3, <1>4, <1>5, RequestSignals, PublishSignals, CommitSignals, ListenSignals
       DEF Next, ClientStep, PassStep

LEMMA InitSignals == Init => SignalInv
  <1> SUFFICES ASSUME Init
               PROVE  SignalInv
    OBVIOUS
  <1>1. SignalTypeOK
    BY InitJInv DEF JInv, TypeOK, SignalTypeOK
  <1>2. OneHolder /\ SignalsMatch
    BY DEF Init, OneHolder, Sent, SignalsMatch, Ops
  <1>3. HeardOK
    <2>1. \A w \in LoopWorkers : inbox[w] = <<>> /\ paused[w] = {}
      BY DEF Init
    <2>2. \A w \in LoopWorkers, j \in Jobs :
             ~PausedAfter(inbox[w], SourceOf[j], SourceOf[j] \in paused[w])
      BY <2>1 DEF PausedAfter
    <2>3. \A j \in Jobs : ~WillBePaused(j)
      BY DEF Init, WillBePaused, Sent, NoJob
    <2>4. QED
      BY <2>2, <2>3 DEF HeardOK
  <1>4. QED
    BY <1>1, <1>2, <1>3 DEF SignalInv

LEMMA HeardAgrees ==
    ASSUME SignalInv
    PROVE  SignalsAgree
  <1> SUFFICES ASSUME NEW w \in LoopWorkers, NEW j \in Jobs, inbox[w] = <<>>, ~Locked(j)
               PROVE  SourceOf[j] \in paused[w] <=> jobs[j].status = "paused"
    BY DEF SignalsAgree
  <1>1. WillBePaused(j) <=> jobs[j].status = "paused"
    BY HolderIsLocked DEF SignalInv, WillBePaused
  <1>2. PausedAfter(inbox[w], SourceOf[j], SourceOf[j] \in paused[w]) <=> SourceOf[j] \in paused[w]
    BY DEF PausedAfter
  <1>3. QED
    BY <1>1, <1>2 DEF SignalInv, HeardOK

\* A worker that has heard every signal holds a source paused exactly when its job is
\* (api/v1/crawl_jobs.py publishes before it commits, under the lock of the row): with one
\* job per source, no job worker and no request that fails, however the requests overlap.
THEOREM SignalsAlwaysAgree ==
    OneJobPerSource /\ JobWorkers = {} => (CalmSpec => []SignalsAgree)
  <1> SUFFICES ASSUME OneJobPerSource, JobWorkers = {}
               PROVE  CalmSpec => []SignalsAgree
    OBVIOUS
  <1>1. SignalInv /\ [Next]_vars => SignalInv'
    BY NextSignals
  <1>2. SignalInv => SignalsAgree
    BY HeardAgrees
  <1>3. QED
    BY <1>1, <1>2, InitSignals, PTL DEF CalmSpec

\* The same beside job workers, when transactions on one job do not overlap: a worker that
\* starts or finishes its job publishes nothing, and does not find or leave it paused.
THEOREM SignalsAgreeBesideWorkers ==
    OneJobPerSource => (CalmSerialSpec => []SignalsAgree)
  <1> SUFFICES ASSUME OneJobPerSource
               PROVE  CalmSerialSpec => []SignalsAgree
    OBVIOUS
  <1> DEFINE Inv == SignalInv /\ JInv /\ StartsOK
  <1>1. Init => Inv
    BY InitSignals, InitJInv DEF Init, StartsOK
  <1>2. Inv /\ [Next /\ OneWriter']_vars => Inv'
    <2> SUFFICES ASSUME Inv, [Next /\ OneWriter']_vars
                 PROVE  Inv'
      OBVIOUS
    <2>1. JInv'
      BY NextJInv, StutterJInv DEF JobsNext
    <2>2. StartsOK'
      BY StartsKept
    <2>3. SignalInv'
      BY <2>1, NextSignals
    <2>4. QED
      BY <2>1, <2>2, <2>3
  <1>3. Inv => SignalsAgree
    BY HeardAgrees
  <1>4. QED
    BY <1>1, <1>2, <1>3, PTL DEF CalmSerialSpec
=============================================================================
