--------------------------- MODULE FrontierProofs ---------------------------
(***************************************************************************)
(* Theorems about Frontier, for any sets of URLs and workers and any       *)
(* values of the intervals: first those that hold whatever transactions    *)
(* overlap, then those that need every fetch to end before its lease does. *)
(***************************************************************************)
EXTENDS Frontier, TLAPS

ApiNext == Next \/ LeaseApi

-----------------------------------------------------------------------------
(* Rows and writes stay rows and writes.                                   *)

\* The time left until a date only shrinks to a floor, and NULL stays NULL.
LEMMA CountDownType ==
    ASSUME NEW t \in Timers, NEW floor \in Int
    PROVE  /\ CountDown(t, floor) \in Timers
           /\ CountDown(t, floor) = None <=> t = None
  BY FrontierAssumption DEF CountDown, Timers

LEMMA LaterType ==
    ASSUME NEW r \in Row
    PROVE  /\ Later(r) \in Row
           /\ Later(r).status = r.status /\ Later(r).owner = r.owner
           /\ Later(r).retry = r.retry
           /\ Later(r).expires = CountDown(r.expires, -1)
           /\ Later(r).next = CountDown(r.next, 0)
  <1>1. /\ CountDown(r.expires, -1) \in Timers
        /\ CountDown(r.next, 0) \in Timers
    BY CountDownType DEF Row
  <1>2. QED
    BY <1>1 DEF Later, Row

LEMMA MergeType ==
    ASSUME NEW r \in Row, NEW x \in Write
    PROVE  Merge(r, x) \in Row
  BY DEF Merge, Row, Write

\* What the outcome operations compute is a row without a lease.
LEMMA OutcomeRow ==
    /\ \A interval \in Nat : AfterFetch(interval) \in Row
    /\ \A r \in Row, category \in Categories, delay \in Delays :
          AfterFailure(r, category, delay) \in Row
  <1>1. \A interval \in Nat : AfterFetch(interval) \in Row
    BY FrontierAssumption DEF AfterFetch, Row, Statuses, Timers
  <1>2. ASSUME NEW r \in Row, NEW category \in Categories, NEW delay \in Delays
        PROVE  AfterFailure(r, category, delay) \in Row
    <2>1. Backoff(category, delay) \in Int
      BY FrontierAssumption DEF Backoff
    <2>2. r.retry + 1 \in Nat
      BY DEF Row
    <2>3. QED
      BY <2>1, <2>2 DEF AfterFailure, Row, Statuses, Timers
  <1>3. QED
    BY <1>1, <1>2

LEMMA AbsentType == Absent \in Row /\ NewRow \in Row /\ NoWrite \in Write
  <1>1. Absent \in Row
    BY DEF Absent, Row, Statuses, Timers
  <1>2. NewRow \in Row
    BY DEF NewRow, Row, Statuses, Timers
  <1>3. NoWrite \in Write
    BY <1>1 DEF NoWrite, Write
  <1>4. QED
    BY <1>1, <1>2, <1>3

\* What the UPDATE statements leave in a row.
LEMMA MakeDueRow ==
    ASSUME NEW r \in Row, NEW status \in Statuses
    PROVE  /\ MakeDue(r, status) \in Row
           /\ MakeDue(r, status).status = status
           /\ MakeDue(r, status).owner = r.owner
           /\ MakeDue(r, status).expires = r.expires
           /\ MakeDue(r, status).next = 0
           /\ MakeDue(r, status).retry = 0
  <1>1. 0 \in Timers /\ 0 \in Nat
    BY DEF Timers
  <1>2. MakeDue(r, status) \in Row
    BY <1>1 DEF MakeDue, Row
  <1>3. QED
    BY <1>2 DEF MakeDue, Row

LEMMA EndLeaseRow ==
    ASSUME NEW r \in Row, NEW status \in Statuses
    PROVE  /\ EndLease(r, status) \in Row
           /\ EndLease(r, status).status = status
           /\ EndLease(r, status).owner = None
           /\ EndLease(r, status).expires = None
           /\ EndLease(r, status).next = r.next
           /\ EndLease(r, status).retry = r.retry
  BY DEF EndLease, Row, Timers

LEMMA LeaseToRow ==
    ASSUME NEW r \in Row, NEW w \in Workers
    PROVE  /\ LeaseTo(r, w) \in Row
           /\ LeaseTo(r, w).status = "leased"
           /\ LeaseTo(r, w).owner = w
           /\ LeaseTo(r, w).expires = LeaseTime
           /\ LeaseTo(r, w).next = r.next
           /\ LeaseTo(r, w).retry = r.retry
  <1>1. LeaseTime \in Timers /\ "leased" \in Statuses /\ w \in Workers \cup {None}
    BY FrontierAssumption DEF Timers, Statuses
  <1>2. LeaseTo(r, w) \in Row
    BY <1>1 DEF LeaseTo, Row
  <1>3. QED
    BY <1>2 DEF LeaseTo, Row

\* An extended lease.
LEMMA ExtendedRow ==
    ASSUME NEW r \in Row
    PROVE  /\ [r EXCEPT !.expires = LeaseTime] \in Row
           /\ [r EXCEPT !.expires = LeaseTime].status = r.status
           /\ [r EXCEPT !.expires = LeaseTime].owner = r.owner
           /\ [r EXCEPT !.expires = LeaseTime].expires = LeaseTime
           /\ [r EXCEPT !.expires = LeaseTime].next = r.next
           /\ [r EXCEPT !.expires = LeaseTime].retry = r.retry
  <1>1. LeaseTime \in Timers
    BY FrontierAssumption DEF Timers
  <1>2. [r EXCEPT !.expires = LeaseTime] \in Row
    BY <1>1 DEF Row
  <1>3. QED
    BY <1>2 DEF Row

-----------------------------------------------------------------------------
(* Type correctness.                                                       *)

LEMMA LoadAndSetType ==
    ASSUME TypeOK, NEW w \in Workers, NEW u \in Urls, NEW new \in Row,
           LoadAndSet(w, u, new)
    PROVE  TypeOK'
  <1>1. [cols |-> ChangedColumns(rows[u], new), row |-> new] \in Write
    BY DEF Write, ChangedColumns
  <1>2. QED
    BY <1>1 DEF LoadAndSet, TypeOK, Stages

LEMMA OutcomeType ==
    ASSUME TypeOK, NEW w \in Workers, NEW u \in Urls, Outcome(w, u)
    PROVE  TypeOK'
  <1>1. CASE MarkSuccess(w, u)
    <2>1. AfterFetch(RecrawlTime[u]) \in Row
      BY OutcomeRow, FrontierAssumption
    <2>2. QED
      BY <1>1, <2>1, LoadAndSetType DEF MarkSuccess
  <1>2. CASE MarkNotModified(w, u)
    <2>1. AfterFetch(ArticleRecrawl) \in Row
      BY OutcomeRow, FrontierAssumption
    <2>2. QED
      BY <1>2, <2>1, LoadAndSetType DEF MarkNotModified
  <1>3. ASSUME NEW category \in Categories, NEW delay \in Delays,
               MarkFailed(w, u, category, delay)
        PROVE  TypeOK'
    <2>1. AfterFailure(rows[u], category, delay) \in Row
      BY OutcomeRow DEF TypeOK
    <2>2. QED
      BY <1>3, <2>1, LoadAndSetType DEF MarkFailed
  <1>4. QED
    BY <1>1, <1>2, <1>3 DEF Outcome

LEMMA TypeStep == TypeOK /\ [ApiNext]_vars => TypeOK'
  <1> SUFFICES ASSUME TypeOK, [ApiNext]_vars PROVE TypeOK'
    OBVIOUS
  <1>1. ASSUME NEW entry \in EntrySets, SeedJob(entry) PROVE TypeOK'
    BY <1>1, MakeDueRow DEF SeedJob, TypeOK, Statuses
  <1>2. ASSUME NEW scope \in Scopes, RequeueFailed(scope) PROVE TypeOK'
    BY <1>2, MakeDueRow DEF RequeueFailed, TypeOK, Statuses
  <1>3. ASSUME NEW w \in Workers, NEW scope \in Scopes, NEW locked \in SUBSET Urls,
               Claim(w, scope, locked)
        PROVE  TypeOK'
    BY <1>3, LeaseToRow DEF Claim, TypeOK, Stages
  <1>4. ASSUME NEW w \in Workers, NEW u \in Urls, Outcome(w, u) PROVE TypeOK'
    BY <1>4, OutcomeType
  <1>5. ASSUME NEW w \in Workers, NEW u \in Urls, NEW found \in SUBSET Urls,
               Commit(w, u, found)
        PROVE  TypeOK'
    <2>1. Merge(rows[u], write[w][u]) \in Row
      BY MergeType DEF TypeOK
    <2>2. Discovered(rows, found) \in [Urls -> Row]
      BY AbsentType DEF Discovered, TypeOK
    <2>3. QED
      BY <1>5, <2>1, <2>2, AbsentType DEF Commit, TypeOK, Stages
  <1>6. ASSUME NEW w \in Workers, NEW u \in Urls, Abandon(w, u) PROVE TypeOK'
    BY <1>6, AbsentType DEF Abandon, TypeOK, Stages
  <1>7. ASSUME NEW w \in Workers, Crash(w) PROVE TypeOK'
    BY <1>7, AbsentType DEF Crash, TypeOK, Stages
  <1>8. CASE Reap
    BY <1>8, EndLeaseRow DEF Reap, TypeOK, Statuses
  <1>9. CASE Tick
    <2>1. rows' \in [Urls -> Row]
      BY <1>9, LaterType DEF Tick, TypeOK
    <2>2. ASSUME NEW w \in Workers, NEW u \in Urls
          PROVE  [write[w][u] EXCEPT !.row = Later(write[w][u].row)] \in Write
      <3>1. write[w][u] \in Write /\ write[w][u].row \in Row
        BY DEF TypeOK, Write
      <3>2. Later(write[w][u].row) \in Row
        BY <3>1, LaterType
      <3>3. QED
        BY <3>1, <3>2 DEF Write
    <2>3. QED
      BY <1>9, <2>1, <2>2 DEF Tick, TypeOK
  <1>10. ASSUME NEW w \in Workers, NEW u \in Urls, ExtendLease(w, u) PROVE TypeOK'
    BY <1>10, ExtendedRow DEF ExtendLease, TypeOK
  <1>11. ASSUME NEW w \in Workers, NEW u \in Urls, Release(w, u) PROVE TypeOK'
    BY <1>11, EndLeaseRow DEF Release, TypeOK, Statuses, Stages
  <1>12. ASSUME NEW w \in Workers, NEW u \in Urls, Skip(w, u) PROVE TypeOK'
    BY <1>12, EndLeaseRow DEF Skip, TypeOK, Statuses, Stages
  <1>13. CASE UNCHANGED vars
    BY <1>13 DEF vars, TypeOK
  <1>14. QED
    BY <1>1, <1>2, <1>3, <1>4, <1>5, <1>6, <1>7, <1>8, <1>9, <1>10, <1>11, <1>12, <1>13
       DEF ApiNext, Next, LeaseApi, Finish

\* Every column keeps a value of its type, whatever the workers, operators and
\* the reaper of services/frontier.py do.
THEOREM TypeCorrect == ApiSpec => []TypeOK
  <1>1. Init => TypeOK
    BY AbsentType DEF Init, TypeOK, Stages
  <1>2. QED
    BY <1>1, TypeStep, PTL DEF ApiSpec, ApiNext

-----------------------------------------------------------------------------
(* The lease columns agree, whatever transactions overlap.                 *)

\* An open transaction writes both lease columns, to NULL, or neither.
WritesBothOrNeither ==
    \A w \in Workers, u \in Urls :
        /\ "owner" \in write[w][u].cols <=> "expires" \in write[w][u].cols
        /\ write[w][u].row.owner = None
        /\ write[w][u].row.expires = None

LeaseInv == TypeOK /\ LeaseColumnsAgree /\ WritesBothOrNeither

LEMMA LeaseOutcome ==
    ASSUME LeaseInv, NEW w \in Workers, NEW u \in Urls, NEW new \in Row,
           new.owner = None, new.expires = None, LoadAndSet(w, u, new)
    PROVE  LeaseColumnsAgree' /\ WritesBothOrNeither'
  <1>1. "owner" \in ChangedColumns(rows[u], new)
          <=> "expires" \in ChangedColumns(rows[u], new)
    BY DEF ChangedColumns, LeaseInv, LeaseColumnsAgree, Columns
  <1>2. QED
    BY <1>1 DEF LoadAndSet, LeaseInv, LeaseColumnsAgree, WritesBothOrNeither, TypeOK, Write

LEMMA LeaseStep == LeaseInv /\ [ApiNext]_vars => LeaseInv'
  <1> SUFFICES ASSUME LeaseInv, [ApiNext]_vars
               PROVE  LeaseColumnsAgree' /\ WritesBothOrNeither'
    BY TypeStep DEF LeaseInv
  <1> USE DEF LeaseInv
  <1>0. LeaseTime # None
    BY FrontierAssumption
  <1>1. ASSUME NEW entry \in EntrySets, SeedJob(entry)
        PROVE  LeaseColumnsAgree' /\ WritesBothOrNeither'
    BY <1>1, MakeDueRow DEF SeedJob, TypeOK, Statuses, LeaseColumnsAgree, WritesBothOrNeither
  <1>2. ASSUME NEW scope \in Scopes, RequeueFailed(scope)
        PROVE  LeaseColumnsAgree' /\ WritesBothOrNeither'
    BY <1>2, MakeDueRow DEF RequeueFailed, TypeOK, Statuses, LeaseColumnsAgree, WritesBothOrNeither
  <1>3. ASSUME NEW w \in Workers, NEW scope \in Scopes, NEW locked \in SUBSET Urls,
               Claim(w, scope, locked)
        PROVE  LeaseColumnsAgree' /\ WritesBothOrNeither'
    BY <1>0, <1>3, LeaseToRow, FrontierAssumption
       DEF Claim, TypeOK, LeaseColumnsAgree, WritesBothOrNeither
  <1>4. ASSUME NEW w \in Workers, NEW u \in Urls, Outcome(w, u)
        PROVE  LeaseColumnsAgree' /\ WritesBothOrNeither'
    <2>1. CASE MarkSuccess(w, u)
      <3>1. /\ AfterFetch(RecrawlTime[u]) \in Row
            /\ AfterFetch(RecrawlTime[u]).owner = None
            /\ AfterFetch(RecrawlTime[u]).expires = None
        BY OutcomeRow, FrontierAssumption DEF AfterFetch
      <3>2. QED
        BY <2>1, <3>1, LeaseOutcome DEF MarkSuccess
    <2>2. CASE MarkNotModified(w, u)
      <3>1. /\ AfterFetch(ArticleRecrawl) \in Row
            /\ AfterFetch(ArticleRecrawl).owner = None
            /\ AfterFetch(ArticleRecrawl).expires = None
        BY OutcomeRow, FrontierAssumption DEF AfterFetch
      <3>2. QED
        BY <2>2, <3>1, LeaseOutcome DEF MarkNotModified
    <2>3. ASSUME NEW category \in Categories, NEW delay \in Delays,
                 MarkFailed(w, u, category, delay)
          PROVE  LeaseColumnsAgree' /\ WritesBothOrNeither'
      <3>1. /\ AfterFailure(rows[u], category, delay) \in Row
            /\ AfterFailure(rows[u], category, delay).owner = None
            /\ AfterFailure(rows[u], category, delay).expires = None
        BY OutcomeRow DEF AfterFailure, TypeOK
      <3>2. QED
        BY <2>3, <3>1, LeaseOutcome DEF MarkFailed
    <2>4. QED
      BY <1>4, <2>1, <2>2, <2>3 DEF Outcome
  <1>5. ASSUME NEW w \in Workers, NEW u \in Urls, NEW found \in SUBSET Urls,
               Commit(w, u, found)
        PROVE  LeaseColumnsAgree' /\ WritesBothOrNeither'
    <2>1. LeaseColumnsAgree'
      <3>1. ASSUME NEW v \in Urls
            PROVE  Discovered(rows, found)[v].owner = None
                     <=> Discovered(rows, found)[v].expires = None
        BY DEF Discovered, NewRow, LeaseColumnsAgree
      <3>2. Merge(rows[u], write[w][u]).owner = None
              <=> Merge(rows[u], write[w][u]).expires = None
        BY DEF Merge, LeaseColumnsAgree, WritesBothOrNeither
      <3>3. Discovered(rows, found) \in [Urls -> Row]
        BY AbsentType DEF Discovered, TypeOK
      <3>4. QED
        BY <1>5, <3>1, <3>2, <3>3 DEF Commit, LeaseColumnsAgree
    <2>2. WritesBothOrNeither'
      BY <1>5 DEF Commit, WritesBothOrNeither, NoWrite, Absent, TypeOK
    <2>3. QED
      BY <2>1, <2>2
  <1>6. ASSUME NEW w \in Workers, NEW u \in Urls, Abandon(w, u)
        PROVE  LeaseColumnsAgree' /\ WritesBothOrNeither'
    BY <1>6 DEF Abandon, LeaseColumnsAgree, WritesBothOrNeither, NoWrite, Absent, TypeOK
  <1>7. ASSUME NEW w \in Workers, Crash(w)
        PROVE  LeaseColumnsAgree' /\ WritesBothOrNeither'
    BY <1>7 DEF Crash, LeaseColumnsAgree, WritesBothOrNeither, NoWrite, Absent, TypeOK
  <1>8. CASE Reap
    BY <1>8, EndLeaseRow DEF Reap, TypeOK, Statuses, LeaseColumnsAgree, WritesBothOrNeither
  <1>9. CASE Tick
    <2>1. LeaseColumnsAgree'
      <3>1. ASSUME NEW u \in Urls
            PROVE  Later(rows[u]).owner = None <=> Later(rows[u]).expires = None
        <4>1. rows[u] \in Row /\ rows[u].expires \in Timers
          BY DEF TypeOK, Row
        <4>2. QED
          BY <4>1, LaterType, CountDownType DEF LeaseColumnsAgree
      <3>2. QED
        BY <1>9, <3>1 DEF Tick, LeaseColumnsAgree
    <2>2. ASSUME NEW w \in Workers, NEW u \in Urls
          PROVE  /\ write'[w][u].cols = write[w][u].cols
                 /\ write'[w][u].row.owner = write[w][u].row.owner
                 /\ write'[w][u].row.expires = CountDown(write[w][u].row.expires, -1)
      <3>1. write[w][u] \in Write /\ write[w][u].row \in Row
        BY DEF TypeOK, Write
      <3>2. write'[w][u] = [write[w][u] EXCEPT !.row = Later(write[w][u].row)]
        BY <1>9 DEF Tick
      <3>3. QED
        BY <3>1, <3>2, LaterType DEF Write
    <2>3. WritesBothOrNeither'
      BY <2>2 DEF WritesBothOrNeither, CountDown
    <2>4. QED
      BY <2>1, <2>3
  <1>10. ASSUME NEW w \in Workers, NEW u \in Urls, ExtendLease(w, u)
         PROVE  LeaseColumnsAgree' /\ WritesBothOrNeither'
    BY <1>0, <1>10, ExtendedRow, FrontierAssumption
       DEF ExtendLease, TypeOK, LeaseColumnsAgree, WritesBothOrNeither
  <1>11. ASSUME NEW w \in Workers, NEW u \in Urls, Release(w, u)
         PROVE  LeaseColumnsAgree' /\ WritesBothOrNeither'
    BY <1>11, EndLeaseRow DEF Release, TypeOK, Statuses, LeaseColumnsAgree, WritesBothOrNeither
  <1>12. ASSUME NEW w \in Workers, NEW u \in Urls, Skip(w, u)
         PROVE  LeaseColumnsAgree' /\ WritesBothOrNeither'
    BY <1>12, EndLeaseRow DEF Skip, TypeOK, Statuses, LeaseColumnsAgree, WritesBothOrNeither
  <1>13. CASE UNCHANGED vars
    BY <1>13 DEF vars, LeaseColumnsAgree, WritesBothOrNeither
  <1>14. QED
    BY <1>1, <1>2, <1>3, <1>4, <1>5, <1>6, <1>7, <1>8, <1>9, <1>10, <1>11, <1>12, <1>13
       DEF ApiNext, Next, LeaseApi, Finish

\* lease_owner and lease_expires_at are NULL together in every reachable row, even
\* when the transactions of several workers overlap on it.
THEOREM LeaseColumnsAlwaysAgree == ApiSpec => []LeaseColumnsAgree
  <1>1. Init => LeaseInv
    <2> SUFFICES ASSUME Init PROVE LeaseInv
      OBVIOUS
    <2>1. TypeOK
      BY AbsentType DEF Init, TypeOK, Stages
    <2>2. LeaseColumnsAgree
      BY DEF Init, LeaseColumnsAgree, Absent
    <2>3. WritesBothOrNeither
      BY DEF Init, WritesBothOrNeither, NoWrite, Absent
    <2>4. QED
      BY <2>1, <2>2, <2>3 DEF LeaseInv
  <1>2. LeaseInv => LeaseColumnsAgree
    BY DEF LeaseInv
  <1>3. QED
    BY <1>1, <1>2, LeaseStep, PTL DEF ApiSpec, ApiNext

-----------------------------------------------------------------------------
(***************************************************************************)
(* Who takes a lease, and how a URL can get lost, however long the fetches *)
(* take.  The argument: a worker that still has the lease when its outcome *)
(* commits had it when it loaded the row, so the columns it writes hold a  *)
(* new status and, if the URL is to be fetched again, a date (HolderIsWhole). *)
(***************************************************************************)

\* The write is that of an outcome computed from a leased row.
Whole(x) ==
    /\ "status" \in x.cols /\ x.row.status # "leased"
    /\ Claimable(x.row) => "next" \in x.cols /\ x.row.next # None

\* No open transaction writes the leased status or an owner; that of a lease
\* holder is whole.
HolderIsWhole ==
    \A w \in Workers, u \in Urls :
        stage[w][u] = "marking" =>
            /\ write[w][u].row.status # "leased"
            /\ rows[u].status = "leased" /\ rows[u].owner = w => Whole(write[w][u])

OverlapInv == LeaseInv /\ HolderIsWhole

\* Nothing but a claim, by a worker without a request, leases a row to a worker.
LEMMA OnlyClaimLeases ==
    ASSUME OverlapInv, [ApiNext]_vars, NEW w \in Workers, NEW u \in Urls,
           stage[w][u] # "idle",
           rows'[u].status = "leased", rows'[u].owner = w
    PROVE  rows[u].status = "leased" /\ rows[u].owner = w
  <1> USE DEF OverlapInv, LeaseInv
  <1>0. w # None
    BY FrontierAssumption
  <1>1. ASSUME NEW entry \in EntrySets, SeedJob(entry)
        PROVE  rows[u].status = "leased" /\ rows[u].owner = w
    BY <1>1, MakeDueRow DEF SeedJob, TypeOK, Statuses
  <1>2. ASSUME NEW scope \in Scopes, RequeueFailed(scope)
        PROVE  rows[u].status = "leased" /\ rows[u].owner = w
    BY <1>2, MakeDueRow DEF RequeueFailed, TypeOK, Statuses
  <1>3. ASSUME NEW x \in Workers, NEW scope \in Scopes, NEW locked \in SUBSET Urls,
               Claim(x, scope, locked)
        PROVE  rows[u].status = "leased" /\ rows[u].owner = w
    BY <1>3, LeaseToRow DEF Claim, TypeOK
  <1>4. ASSUME NEW x \in Workers, NEW v \in Urls, Outcome(x, v)
        PROVE  rows[u].status = "leased" /\ rows[u].owner = w
    BY <1>4 DEF Outcome, MarkSuccess, MarkNotModified, MarkFailed, LoadAndSet
  <1>5. ASSUME NEW x \in Workers, NEW v \in Urls, NEW found \in SUBSET Urls,
               Commit(x, v, found)
        PROVE  rows[u].status = "leased" /\ rows[u].owner = w
    <2>1. CASE u = v
      <3>1. /\ Merge(rows[u], write[x][u]).status = "leased"
            /\ Merge(rows[u], write[x][u]).owner = w
        BY <1>5, <2>1, AbsentType DEF Commit, TypeOK, Discovered
      <3>2. write[x][u].row.status # "leased" /\ write[x][u].row.owner = None
        BY <1>5, <2>1 DEF Commit, HolderIsWhole, WritesBothOrNeither
      <3>3. QED
        BY <1>0, <3>1, <3>2 DEF Merge
    <2>2. CASE u # v
      BY <1>5, <2>2 DEF Commit, TypeOK, Discovered, NewRow
    <2>3. QED
      BY <2>1, <2>2
  <1>6. ASSUME NEW x \in Workers, NEW v \in Urls, Abandon(x, v)
        PROVE  rows[u].status = "leased" /\ rows[u].owner = w
    BY <1>6 DEF Abandon
  <1>7. ASSUME NEW x \in Workers, Crash(x)
        PROVE  rows[u].status = "leased" /\ rows[u].owner = w
    BY <1>7 DEF Crash
  <1>8. CASE Reap
    BY <1>8, EndLeaseRow DEF Reap, TypeOK, Statuses
  <1>9. CASE Tick
    BY <1>9, LaterType DEF Tick, TypeOK
  <1>10. ASSUME NEW x \in Workers, NEW v \in Urls, ExtendLease(x, v)
         PROVE  rows[u].status = "leased" /\ rows[u].owner = w
    BY <1>10, ExtendedRow DEF ExtendLease, TypeOK
  <1>11. ASSUME NEW x \in Workers, NEW v \in Urls, Release(x, v)
         PROVE  rows[u].status = "leased" /\ rows[u].owner = w
    BY <1>11, EndLeaseRow DEF Release, TypeOK, Statuses
  <1>12. ASSUME NEW x \in Workers, NEW v \in Urls, Skip(x, v)
         PROVE  rows[u].status = "leased" /\ rows[u].owner = w
    BY <1>12, EndLeaseRow DEF Skip, TypeOK, Statuses
  <1>13. CASE UNCHANGED vars
    BY <1>13 DEF vars
  <1>14. QED
    BY <1>1, <1>2, <1>3, <1>4, <1>5, <1>6, <1>7, <1>8, <1>9, <1>10, <1>11, <1>12, <1>13
       DEF ApiNext, Next, LeaseApi, Finish

\* What an outcome loads and sets is whole if the row is leased.
LEMMA OutcomeIsWhole ==
    ASSUME TypeOK, NEW w \in Workers, NEW u \in Urls, Outcome(w, u)
    PROVE  /\ write'[w][u].row.status # "leased"
           /\ rows'[u].status = "leased" => Whole(write'[w][u])
           /\ \A x \in Workers, v \in Urls : x # w \/ v # u =>
                 stage'[x][v] = stage[x][v] /\ write'[x][v] = write[x][v]
           /\ rows' = rows
  <1>1. ASSUME NEW new \in Row, LoadAndSet(w, u, new), new.status # "leased",
               Claimable(new) => new.next # None
        PROVE  /\ write'[w][u].row.status # "leased"
               /\ rows'[u].status = "leased" => Whole(write'[w][u])
               /\ \A x \in Workers, v \in Urls : x # w \/ v # u =>
                     stage'[x][v] = stage[x][v] /\ write'[x][v] = write[x][v]
               /\ rows' = rows
    <2>1. write'[w][u] = [cols |-> ChangedColumns(rows[u], new), row |-> new]
      BY <1>1 DEF LoadAndSet, TypeOK
    <2>2. rows[u].status = "leased" => Whole(write'[w][u])
      BY <1>1, <2>1 DEF ChangedColumns, Columns, Whole
    <2>3. \A x \in Workers, v \in Urls : x # w \/ v # u =>
             stage'[x][v] = stage[x][v] /\ write'[x][v] = write[x][v]
      BY <1>1 DEF LoadAndSet, TypeOK
    <2>4. QED
      BY <1>1, <2>1, <2>2, <2>3 DEF LoadAndSet
  <1>2. CASE MarkSuccess(w, u)
    <2>1. AfterFetch(RecrawlTime[u]) \in Row
      BY OutcomeRow, FrontierAssumption
    <2>2. QED
      BY <1>1, <1>2, <2>1 DEF MarkSuccess, AfterFetch, Claimable
  <1>3. CASE MarkNotModified(w, u)
    <2>1. AfterFetch(ArticleRecrawl) \in Row
      BY OutcomeRow, FrontierAssumption
    <2>2. QED
      BY <1>1, <1>3, <2>1 DEF MarkNotModified, AfterFetch, Claimable
  <1>4. ASSUME NEW category \in Categories, NEW delay \in Delays,
               MarkFailed(w, u, category, delay)
        PROVE  /\ write'[w][u].row.status # "leased"
               /\ rows'[u].status = "leased" => Whole(write'[w][u])
               /\ \A x \in Workers, v \in Urls : x # w \/ v # u =>
                     stage'[x][v] = stage[x][v] /\ write'[x][v] = write[x][v]
               /\ rows' = rows
    <2>1. AfterFailure(rows[u], category, delay) \in Row
      BY OutcomeRow DEF TypeOK
    <2>2. Backoff(category, delay) # None
      BY FrontierAssumption DEF Backoff
    <2>3. /\ AfterFailure(rows[u], category, delay).status # "leased"
          /\ Claimable(AfterFailure(rows[u], category, delay))
               => AfterFailure(rows[u], category, delay).next # None
      BY <2>2 DEF AfterFailure, Claimable
    <2>4. QED
      BY <1>1, <1>4, <2>1, <2>3 DEF MarkFailed
  <1>5. QED
    BY <1>2, <1>3, <1>4 DEF Outcome

LEMMA OverlapStep == OverlapInv /\ [ApiNext]_vars => OverlapInv'
  <1> SUFFICES ASSUME OverlapInv, [ApiNext]_vars PROVE HolderIsWhole'
    BY LeaseStep DEF OverlapInv
  <1> SUFFICES ASSUME NEW w \in Workers, NEW u \in Urls, stage'[w][u] = "marking"
               PROVE  /\ write'[w][u].row.status # "leased"
                      /\ rows'[u].status = "leased" /\ rows'[u].owner = w
                           => Whole(write'[w][u])
    BY DEF HolderIsWhole
  <1>1. TypeOK
    BY DEF OverlapInv, LeaseInv
  <1>2. CASE \E x \in Workers, v \in Urls : Outcome(x, v)
    <2>1. PICK x \in Workers, v \in Urls : Outcome(x, v)
      BY <1>2
    <2>2. CASE x = w /\ v = u
      BY <1>1, <2>1, <2>2, OutcomeIsWhole
    <2>3. CASE x # w \/ v # u
      BY <1>1, <2>1, <2>3, OutcomeIsWhole DEF OverlapInv, HolderIsWhole
    <2>4. QED
      BY <2>2, <2>3
  <1>3. CASE Tick
    <2>1. write[w][u] \in Write /\ write[w][u].row \in Row
      BY <1>1 DEF TypeOK, Write
    <2>2. write'[w][u] = [write[w][u] EXCEPT !.row = Later(write[w][u].row)]
      BY <1>3 DEF Tick
    <2>3. /\ write'[w][u].cols = write[w][u].cols
          /\ write'[w][u].row = Later(write[w][u].row)
      BY <2>1, <2>2 DEF Write
    <2>4. /\ write'[w][u].row.status = write[w][u].row.status
          /\ write'[w][u].row.next = None <=> write[w][u].row.next = None
      <3>1. write[w][u].row.next \in Timers
        BY <2>1 DEF Row
      <3>2. QED
        BY <2>1, <2>3, <3>1, LaterType, CountDownType
    <2>5. rows'[u].status = rows[u].status /\ rows'[u].owner = rows[u].owner
      BY <1>1, <1>3, LaterType DEF Tick, TypeOK
    <2>6. stage[w][u] = "marking"
      BY <1>3 DEF Tick
    <2>7. QED
      BY <2>3, <2>4, <2>5, <2>6 DEF OverlapInv, HolderIsWhole, Whole, Claimable
  <1>4. CASE /\ ~ \E x \in Workers, v \in Urls : Outcome(x, v)
             /\ ~ Tick
    <2>1. stage[w][u] = "marking" /\ write'[w][u] = write[w][u]
      <3> USE <1>1, <1>4
      <3>1. ASSUME NEW entry \in EntrySets, SeedJob(entry)
            PROVE  stage[w][u] = "marking" /\ write'[w][u] = write[w][u]
        BY <3>1 DEF SeedJob
      <3>2. ASSUME NEW scope \in Scopes, RequeueFailed(scope)
            PROVE  stage[w][u] = "marking" /\ write'[w][u] = write[w][u]
        BY <3>2 DEF RequeueFailed
      <3>3. ASSUME NEW x \in Workers, NEW scope \in Scopes, NEW locked \in SUBSET Urls,
                   Claim(x, scope, locked)
            PROVE  stage[w][u] = "marking" /\ write'[w][u] = write[w][u]
        BY <3>3 DEF Claim, TypeOK
      <3>4. ASSUME NEW x \in Workers, NEW v \in Urls, NEW found \in SUBSET Urls,
                   Commit(x, v, found)
            PROVE  stage[w][u] = "marking" /\ write'[w][u] = write[w][u]
        BY <3>4 DEF Commit, TypeOK
      <3>5. ASSUME NEW x \in Workers, NEW v \in Urls, Abandon(x, v)
            PROVE  stage[w][u] = "marking" /\ write'[w][u] = write[w][u]
        BY <3>5 DEF Abandon, TypeOK
      <3>6. ASSUME NEW x \in Workers, Crash(x)
            PROVE  stage[w][u] = "marking" /\ write'[w][u] = write[w][u]
        BY <3>6 DEF Crash, TypeOK
      <3>7. CASE Reap
        BY <3>7 DEF Reap
      <3>8. ASSUME NEW x \in Workers, NEW v \in Urls,
                   ExtendLease(x, v) \/ Release(x, v) \/ Skip(x, v)
            PROVE  stage[w][u] = "marking" /\ write'[w][u] = write[w][u]
        BY <3>8 DEF ExtendLease, Release, Skip, TypeOK
      <3>9. CASE UNCHANGED vars
        BY <3>9 DEF vars
      <3>10. QED
        BY <3>1, <3>2, <3>3, <3>4, <3>5, <3>6, <3>7, <3>8, <3>9
           DEF ApiNext, Next, LeaseApi, Finish
    <2>2. rows'[u].status = "leased" /\ rows'[u].owner = w
            => rows[u].status = "leased" /\ rows[u].owner = w
      BY <2>1, OnlyClaimLeases
    <2>3. QED
      BY <2>1, <2>2 DEF OverlapInv, HolderIsWhole
  <1>5. QED
    BY <1>2, <1>3, <1>4

LEMMA OverlapInit == Init => OverlapInv
  <1> SUFFICES ASSUME Init PROVE OverlapInv
    OBVIOUS
  <1>1. TypeOK
    BY AbsentType DEF Init, TypeOK, Stages
  <1>2. LeaseColumnsAgree /\ WritesBothOrNeither
    BY DEF Init, LeaseColumnsAgree, WritesBothOrNeither, NoWrite, Absent
  <1>3. HolderIsWhole
    BY DEF Init, HolderIsWhole
  <1>4. QED
    BY <1>1, <1>2, <1>3 DEF OverlapInv, LeaseInv

\* A step that changes the row of u while it is leased is an outcome, a release
\* or a skip of u, the reaper's, or only moves its dates.
LEMMA LeasedRowStep ==
    ASSUME TypeOK, [ApiNext]_vars, NEW u \in Urls, rows[u].status = "leased"
    PROVE  \/ \E w \in Workers : Ends(w, u)
           \/ Expired(rows[u]) /\ rows'[u] = EndLease(rows[u], "queued")
           \/ /\ rows'[u].status = "leased" /\ rows'[u].owner = rows[u].owner
              /\ rows'[u].next = None <=> rows[u].next = None
              /\ rows'[u].expires = None => rows[u].expires = None
  <1> DEFINE Kept == /\ rows'[u].status = "leased" /\ rows'[u].owner = rows[u].owner
                     /\ rows'[u].next = None <=> rows[u].next = None
                     /\ rows'[u].expires = None => rows[u].expires = None
  <1> DEFINE Reaped == Expired(rows[u]) /\ rows'[u] = EndLease(rows[u], "queued")
             Ended == \E w \in Workers : Ends(w, u)
  <1>0. rows' = rows => Kept
    OBVIOUS
  <1>1. ASSUME NEW entry \in EntrySets, SeedJob(entry) PROVE Kept
    BY <1>1 DEF SeedJob
  <1>2. ASSUME NEW scope \in Scopes, RequeueFailed(scope) PROVE Kept
    BY <1>2 DEF RequeueFailed
  <1>3. ASSUME NEW x \in Workers, NEW scope \in Scopes, NEW locked \in SUBSET Urls,
               Claim(x, scope, locked)
        PROVE  Kept
    BY <1>3 DEF Claim, Due, Claimable
  <1>4. ASSUME NEW x \in Workers, NEW v \in Urls, Outcome(x, v) PROVE Kept
    BY <1>0, <1>4 DEF Outcome, MarkSuccess, MarkNotModified, MarkFailed, LoadAndSet
  <1>5. ASSUME NEW x \in Workers, NEW v \in Urls, NEW found \in SUBSET Urls,
               Commit(x, v, found)
        PROVE  Ended \/ Kept
    <2>1. CASE u = v
      BY <1>5, <2>1 DEF Commit, TypeOK, Ends
    <2>2. CASE u # v
      BY <1>5, <2>2 DEF Commit, TypeOK, Discovered
    <2>3. QED
      BY <2>1, <2>2
  <1>6. ASSUME NEW x \in Workers, NEW v \in Urls, Abandon(x, v) PROVE Kept
    BY <1>0, <1>6 DEF Abandon
  <1>7. ASSUME NEW x \in Workers, Crash(x) PROVE Kept
    BY <1>0, <1>7 DEF Crash
  <1>8. ASSUME Reap PROVE Reaped \/ Kept
    <2>1. CASE Expired(rows[u])
      BY <1>8, <2>1 DEF Reap
    <2>2. CASE ~Expired(rows[u])
      BY <1>8, <2>2 DEF Reap
    <2>3. QED
      BY <2>1, <2>2 DEF Reap
  <1>9. ASSUME Tick PROVE Kept
    <2>1. rows[u] \in Row /\ rows[u].next \in Timers /\ rows[u].expires \in Timers
      BY DEF TypeOK, Row
    <2>2. rows'[u] = Later(rows[u])
      BY <1>9 DEF Tick
    <2>3. QED
      BY <2>1, <2>2, LaterType, CountDownType
  <1>10. ASSUME NEW x \in Workers, NEW v \in Urls, ExtendLease(x, v) PROVE Kept
    <2>1. LeaseTime # None
      BY FrontierAssumption
    <2>2. QED
      BY <1>10, <2>1, ExtendedRow DEF ExtendLease, TypeOK
  <1>11. ASSUME NEW x \in Workers, NEW v \in Urls, Release(x, v) \/ Skip(x, v)
         PROVE  Ended \/ Kept
    <2>1. CASE u = v
      BY <1>11, <2>1 DEF Release, Skip, TypeOK, Ends
    <2>2. CASE u # v
      BY <1>11, <2>2 DEF Release, Skip, TypeOK
    <2>3. QED
      BY <2>1, <2>2
  <1>12. ASSUME UNCHANGED vars PROVE Kept
    BY <1>0, <1>12 DEF vars
  <1> HIDE DEF Kept, Reaped, Ended
  <1>13. Kept \/ Reaped \/ Ended
    BY <1>1, <1>2, <1>3, <1>4, <1>5, <1>6, <1>7, <1>8, <1>9, <1>10, <1>11, <1>12
       DEF ApiNext, Next, LeaseApi, Finish
  <1>14. QED
    BY <1>13 DEF Kept, Reaped, Ended

\* While the lease of a URL runs, no claim_batch, add_urls, requeue_failed or
\* reap_expired_leases changes the row, however long the fetches take.
THEOREM LeaseIsNeverTaken == ApiSpec => LeaseIsNotTaken
  <1> DEFINE Respected ==
          \A u \in Urls :
            /\ rows[u].status = "leased" /\ ~Expired(rows[u])
            /\ rows'[u].status # "leased" \/ rows'[u].owner # rows[u].owner
            => \E w \in Workers : Ends(w, u)
  <1>1. TypeOK /\ [ApiNext]_vars => Respected
    BY LeasedRowStep
  <1>2. ApiSpec => []TypeOK
    BY TypeCorrect
  <1> HIDE DEF Respected
  <1>3. ApiSpec => [][Respected]_vars
    BY <1>1, <1>2, PTL DEF ApiSpec, ApiNext
  <1>4. QED
    BY <1>3 DEF LeaseIsNotTaken, Respected

\* A row drops out of the claim query and of the reaper query only by an outcome
\* of a worker whose lease had gone to somebody else or to the queue.
LEMMA LostStep ==
    ASSUME OverlapInv, [ApiNext]_vars, NEW u \in Urls,
           Findable(rows[u]), ~Findable(rows'[u])
    PROVE  \E w \in Workers :
              Ends(w, u) /\ ~(rows[u].status = "leased" /\ rows[u].owner = w)
  <1> USE DEF OverlapInv, LeaseInv
  <1> DEFINE Late(w) == Ends(w, u) /\ ~(rows[u].status = "leased" /\ rows[u].owner = w)
  <1>0. rows' # rows /\ rows'[u] # rows[u]
    OBVIOUS
  <1>1. ASSUME NEW entry \in EntrySets, SeedJob(entry) PROVE FALSE
    <2>1. CASE u \in entry /\ rows[u].status # "leased"
      BY <1>1, <2>1, MakeDueRow, FrontierAssumption
         DEF SeedJob, TypeOK, Statuses, Findable
    <2>2. QED
      BY <1>0, <1>1, <2>1 DEF SeedJob
  <1>2. ASSUME NEW scope \in Scopes, RequeueFailed(scope) PROVE FALSE
    <2>1. CASE u \in scope /\ rows[u].status = "failed"
      BY <1>2, <2>1, MakeDueRow, FrontierAssumption
         DEF RequeueFailed, TypeOK, Statuses, Findable
    <2>2. QED
      BY <1>0, <1>2, <2>1 DEF RequeueFailed
  <1>3. ASSUME NEW x \in Workers, NEW scope \in Scopes, NEW locked \in SUBSET Urls,
               Claim(x, scope, locked)
        PROVE  FALSE
    <2>1. PICK batch \in SUBSET Urls :
             /\ \A v \in batch : Due(rows[v])
             /\ rows' = [v \in Urls |-> IF v \in batch THEN LeaseTo(rows[v], x) ELSE rows[v]]
      BY <1>3 DEF Claim
    <2>2. u \in batch /\ rows'[u] = LeaseTo(rows[u], x)
      BY <1>0, <2>1
    <2>3. LeaseTime # None
      BY FrontierAssumption
    <2>4. QED
      BY <2>1, <2>2, <2>3, LeaseToRow DEF TypeOK, Due, Findable
  <1>4. ASSUME NEW x \in Workers, NEW v \in Urls, Outcome(x, v) PROVE FALSE
    BY <1>0, <1>4 DEF Outcome, MarkSuccess, MarkNotModified, MarkFailed, LoadAndSet
  <1>5. ASSUME NEW x \in Workers, NEW v \in Urls, NEW found \in SUBSET Urls,
               Commit(x, v, found)
        PROVE  Late(x)
    <2>1. u = v
      BY <1>0, <1>5, FrontierAssumption
         DEF Commit, TypeOK, Discovered, NewRow, Findable, Claimable
    <2>2. Ends(x, u)
      BY <1>5, <2>1 DEF Commit, TypeOK, Ends
    <2>3. ASSUME rows[u].status = "leased", rows[u].owner = x PROVE FALSE
      <3>1. Whole(write[x][u])
        BY <1>5, <2>1, <2>3 DEF Commit, HolderIsWhole
      <3>2. rows'[u] = Merge(rows[u], write[x][u])
        BY <1>5, <2>1, AbsentType DEF Commit, TypeOK, Discovered
      <3>3. Findable(Merge(rows[u], write[x][u]))
        BY <3>1 DEF Whole, Merge, Findable, Claimable
      <3>4. QED
        BY <3>2, <3>3
    <2>4. QED
      BY <2>2, <2>3
  <1>6. ASSUME NEW x \in Workers, NEW v \in Urls, Abandon(x, v) PROVE FALSE
    BY <1>0, <1>6 DEF Abandon
  <1>7. ASSUME NEW x \in Workers, Crash(x) PROVE FALSE
    BY <1>0, <1>7 DEF Crash
  <1>8. ASSUME Reap PROVE FALSE
    <2>1. Expired(rows[u]) /\ rows'[u] = EndLease(rows[u], "queued")
      BY <1>0, <1>8 DEF Reap
    <2>2. QED
      BY <2>1, EndLeaseRow DEF TypeOK, Statuses, Expired, Findable
  <1>9. ASSUME Tick PROVE FALSE
    <2>1. rows[u] \in Row /\ rows[u].next \in Timers /\ rows[u].expires \in Timers
      BY DEF TypeOK, Row
    <2>2. rows'[u] = Later(rows[u])
      BY <1>9 DEF Tick
    <2>3. QED
      BY <2>1, <2>2, LaterType, CountDownType DEF Findable, Claimable
  <1>10. ASSUME NEW x \in Workers, NEW v \in Urls, ExtendLease(x, v) PROVE FALSE
    <2>1. LeaseTime # None
      BY FrontierAssumption
    <2>2. u = v
      BY <1>0, <1>10 DEF ExtendLease, TypeOK
    <2>3. rows'[u] = [rows[u] EXCEPT !.expires = LeaseTime]
      BY <1>10, <2>2 DEF ExtendLease, TypeOK
    <2>4. QED
      BY <2>1, <2>3, ExtendedRow DEF TypeOK, Findable, Claimable
  <1>11. ASSUME NEW x \in Workers, NEW v \in Urls, Release(x, v) PROVE Late(x)
    <2>1. u = v /\ rows[u].owner = x /\ rows'[u] = EndLease(rows[u], "queued")
      BY <1>0, <1>11 DEF Release, TypeOK
    <2>2. Ends(x, u)
      BY <1>11, <2>1 DEF Release, TypeOK, Ends
    <2>3. rows[u].status # "leased"
      BY <2>1, EndLeaseRow DEF TypeOK, Statuses, Findable
    <2>4. QED
      BY <2>2, <2>3
  <1>12. ASSUME NEW x \in Workers, NEW v \in Urls, Skip(x, v) PROVE FALSE
    <2>1. u = v /\ rows'[u] = EndLease(rows[u], "skipped")
      BY <1>0, <1>12 DEF Skip, TypeOK
    <2>2. QED
      BY <2>1, EndLeaseRow DEF TypeOK, Statuses, Findable, Claimable
  <1>13. ASSUME UNCHANGED vars PROVE FALSE
    BY <1>0, <1>13 DEF vars
  <1> DEFINE Lost == \E w \in Workers : Late(w)
  <1>14. /\ \A x \in Workers, v \in Urls, found \in SUBSET Urls : Commit(x, v, found) => Lost
         /\ \A x \in Workers, v \in Urls : Release(x, v) => Lost
    BY <1>5, <1>11
  <1> HIDE DEF Lost
  <1>15. Lost
    BY <1>1, <1>2, <1>3, <1>4, <1>6, <1>7, <1>8, <1>9, <1>10, <1>12, <1>13, <1>14
       DEF ApiNext, Next, LeaseApi, Finish
  <1>16. QED
    BY <1>15 DEF Lost

\* Without any assumption on the length of a fetch, the only way for a URL of
\* crawl_urls to be lost is the outcome of a worker that has lost the lease.
THEOREM OnlyLateOutcomesLose == ApiSpec => LostOnlyLate
  <1> DEFINE Step ==
          \A u \in Urls :
            Findable(rows[u]) /\ ~Findable(rows'[u])
            => \E w \in Workers :
                  /\ Ends(w, u)
                  /\ ~(rows[u].status = "leased" /\ rows[u].owner = w)
  <1>1. OverlapInv /\ [ApiNext]_vars => Step
    BY LostStep
  <1> HIDE DEF Step
  <1>2. ApiSpec => [][Step]_vars
    BY <1>1, OverlapInit, OverlapStep, PTL DEF ApiSpec, ApiNext
  <1>3. QED
    BY <1>2 DEF LostOnlyLate, Step

-----------------------------------------------------------------------------
(***************************************************************************)
(* What Frontier guarantees when every fetch ends before its lease does.   *)
(*                                                                         *)
(* The argument: while a worker has a request open for a URL, the row is   *)
(* leased to it and not expired (SoleHolder), so nobody else changes the   *)
(* row and the columns its open transaction will write still describe a    *)
(* whole outcome of the row (PendingIsWhole).  A COMMIT therefore replaces *)
(* the row by that outcome, and the rules on single rows (RowOK) survive.  *)
(***************************************************************************)
\* The rules NoUrlLost and RetryBudget put on one row.
RowOK(r) ==
    /\ r.status = "leased" => r.expires # None
    /\ Claimable(r) \/ r.status = "leased" => r.retry < MaxRetries
    /\ r.status = "failed" => r.retry = MaxRetries
    /\ r.retry <= MaxRetries
    /\ r.next = None <=> r.status \in {"absent", "failed", "blocked"}

RowsOK == \A u \in Urls : RowOK(rows[u])

\* An open transaction writes every column but possibly an unchanged retry_count,
\* and what it writes is a row at rest or waiting for its retry.
PendingIsWhole ==
    \A w \in Workers, u \in Urls :
        stage[w][u] = "marking" =>
            /\ Columns \ {"retry"} \subseteq write[w][u].cols
            /\ "retry" \notin write[w][u].cols => write[w][u].row.retry = rows[u].retry
            /\ write[w][u].row.status # "leased"
            /\ RowOK(write[w][u].row)

PunctualInv == LeaseInv /\ SoleHolder /\ RowsOK /\ PendingIsWhole

LEMMA RowsOKImplies == RowsOK => NoUrlLost /\ RetryBudget
  BY DEF RowsOK, RowOK, NoUrlLost, RetryBudget, Claimable

-----------------------------------------------------------------------------
(* Outcomes are rows at rest; a whole write replaces the row.              *)

LEMMA AfterFetchOK ==
    ASSUME NEW interval \in Nat
    PROVE  RowOK(AfterFetch(interval))
  BY FrontierAssumption DEF RowOK, AfterFetch, Claimable

LEMMA AfterFailureOK ==
    ASSUME NEW r \in Row, RowOK(r), r.status = "leased",
           NEW category \in Categories, NEW delay \in Delays
    PROVE  RowOK(AfterFailure(r, category, delay))
  <1>1. r.retry \in Nat /\ r.retry + 1 <= MaxRetries
    BY FrontierAssumption DEF RowOK, Row
  <1>2. Backoff(category, delay) \in Int
    BY FrontierAssumption DEF Backoff
  <1>3. CASE category = "permanent"
    BY <1>1, <1>3, FrontierAssumption DEF AfterFailure, RowOK, Claimable
  <1>4. CASE category # "permanent" /\ r.retry + 1 >= MaxRetries
    BY <1>1, <1>4, FrontierAssumption DEF AfterFailure, RowOK, Claimable
  <1>5. CASE category # "permanent" /\ r.retry + 1 < MaxRetries
    BY <1>1, <1>2, <1>5, FrontierAssumption DEF AfterFailure, RowOK, Claimable
  <1>6. QED
    BY <1>1, <1>3, <1>4, <1>5, FrontierAssumption

LEMMA LoadAndSetKeeps ==
    ASSUME PunctualInv, NEW w \in Workers, NEW u \in Urls, NEW new \in Row,
           RowOK(new), new.status # "leased", new.owner = None, new.expires = None,
           LoadAndSet(w, u, new)
    PROVE  SoleHolder' /\ RowsOK' /\ PendingIsWhole'
  <1>1. /\ rows[u].status = "leased" /\ rows[u].owner = w
        /\ rows[u].expires \in 0 .. LeaseTime
    BY DEF PunctualInv, SoleHolder, LoadAndSet
  <1>2. rows[u].next # None
    BY <1>1 DEF PunctualInv, RowsOK, RowOK
  <1>3. Columns \ {"retry"} \subseteq ChangedColumns(rows[u], new)
    BY <1>1, <1>2, FrontierAssumption DEF ChangedColumns, Columns
  <1>4. "retry" \notin ChangedColumns(rows[u], new) => new.retry = rows[u].retry
    BY DEF ChangedColumns, Columns
  <1>5. PendingIsWhole'
    <2>1. ASSUME NEW v \in Workers, NEW x \in Urls, stage'[v][x] = "marking",
                 <<v, x>> # <<w, u>>
          PROVE  stage[v][x] = "marking" /\ write'[v][x] = write[v][x]
      BY <2>1 DEF LoadAndSet, PunctualInv, LeaseInv, TypeOK
    <2>2. write'[w][u] = [cols |-> ChangedColumns(rows[u], new), row |-> new]
      BY DEF LoadAndSet, PunctualInv, LeaseInv, TypeOK
    <2>3. rows' = rows
      BY DEF LoadAndSet
    <2>4. QED
      BY <1>3, <1>4, <2>1, <2>2, <2>3 DEF PendingIsWhole, PunctualInv, RowOK, Claimable
  <1>6. SoleHolder'
    BY <1>1 DEF LoadAndSet, PunctualInv, SoleHolder, LeaseInv, TypeOK
  <1>7. RowsOK'
    BY DEF LoadAndSet, PunctualInv, RowsOK, RowOK, Claimable
  <1>8. QED
    BY <1>5, <1>6, <1>7

\* Under PunctualInv a COMMIT replaces the row by the outcome it computed.
LEMMA CommitReplaces ==
    ASSUME PunctualInv, NEW w \in Workers, NEW u \in Urls, stage[w][u] = "marking"
    PROVE  /\ RowOK(Merge(rows[u], write[w][u]))
           /\ Merge(rows[u], write[w][u]).status # "leased"
  <1>1. /\ Merge(rows[u], write[w][u]).status = write[w][u].row.status
        /\ Merge(rows[u], write[w][u]).expires = write[w][u].row.expires
        /\ Merge(rows[u], write[w][u]).next = write[w][u].row.next
        /\ Merge(rows[u], write[w][u]).retry = write[w][u].row.retry
    BY DEF PunctualInv, PendingIsWhole, Merge, Columns
  <1>2. QED
    BY <1>1 DEF PunctualInv, PendingIsWhole, RowOK, Claimable

-----------------------------------------------------------------------------
(* A row nobody works on can change as it likes within the rules.          *)

\* A step that leaves every open request and its row alone.
LEMMA OthersKeep ==
    ASSUME PunctualInv,
           \A w \in Workers, u \in Urls :
              stage'[w][u] # "idle" =>
                 /\ stage'[w][u] = stage[w][u] /\ write'[w][u] = write[w][u]
                 /\ rows'[u] = rows[u]
    PROVE  SoleHolder' /\ PendingIsWhole'
  BY DEF PunctualInv, SoleHolder, PendingIsWhole, RowOK, Claimable

\* A row that is not leased, or whose lease has expired, has no open request.
LEMMA OpenRequestIsLeased ==
    ASSUME PunctualInv, NEW w \in Workers, NEW u \in Urls,
           rows[u].status # "leased" \/ Expired(rows[u])
    PROVE  stage[w][u] = "idle"
  BY FrontierAssumption DEF PunctualInv, SoleHolder, Expired

\* No two workers have a request open for the same URL.
LEMMA OneRequestPerUrl ==
    ASSUME PunctualInv, NEW v \in Workers, NEW w \in Workers, NEW u \in Urls,
           stage[v][u] # "idle", stage[w][u] # "idle"
    PROVE  v = w
  BY DEF PunctualInv, SoleHolder

LEMMA PunctualOutcome ==
    ASSUME PunctualInv, NEW w \in Workers, NEW u \in Urls, Outcome(w, u)
    PROVE  SoleHolder' /\ RowsOK' /\ PendingIsWhole'
  <1>1. CASE MarkSuccess(w, u)
    <2>1. RecrawlTime[u] \in Nat
      BY FrontierAssumption
    <2>2. QED
      BY <1>1, <2>1, AfterFetchOK, OutcomeRow, LoadAndSetKeeps DEF MarkSuccess, AfterFetch
  <1>2. CASE MarkNotModified(w, u)
    <2>1. ArticleRecrawl \in Nat
      BY FrontierAssumption
    <2>2. QED
      BY <1>2, <2>1, AfterFetchOK, OutcomeRow, LoadAndSetKeeps DEF MarkNotModified, AfterFetch
  <1>3. ASSUME NEW category \in Categories, NEW delay \in Delays,
               MarkFailed(w, u, category, delay)
        PROVE  SoleHolder' /\ RowsOK' /\ PendingIsWhole'
    <2> DEFINE new == AfterFailure(rows[u], category, delay)
    <2>1. rows[u] \in Row /\ rows[u].status = "leased" /\ RowOK(rows[u])
      BY <1>3 DEF PunctualInv, LeaseInv, TypeOK, SoleHolder, RowsOK, MarkFailed, LoadAndSet
    <2>2. new \in Row /\ RowOK(new)
      BY <2>1, OutcomeRow, AfterFailureOK
    <2>3. new.status # "leased" /\ new.owner = None /\ new.expires = None
      BY DEF AfterFailure
    <2>4. LoadAndSet(w, u, new)
      BY <1>3 DEF MarkFailed
    <2>5. QED
      BY <2>2, <2>3, <2>4, LoadAndSetKeeps
  <1>4. QED
    BY <1>1, <1>2, <1>3 DEF Outcome

LEMMA PunctualCommit ==
    ASSUME PunctualInv, NEW w \in Workers, NEW u \in Urls, NEW found \in SUBSET Urls,
           Commit(w, u, found)
    PROVE  SoleHolder' /\ RowsOK' /\ PendingIsWhole'
  <1>1. RowsOK'
    <2>1. \A x \in Urls : RowOK(Discovered(rows, found)[x])
      BY FrontierAssumption DEF PunctualInv, RowsOK, RowOK, Discovered, NewRow, Claimable
    <2>2. RowOK(Merge(rows[u], write[w][u]))
      BY CommitReplaces DEF Commit
    <2>3. rows' = [Discovered(rows, found) EXCEPT ![u] = Merge(rows[u], write[w][u])]
      BY DEF Commit
    <2>4. DOMAIN Discovered(rows, found) = Urls
      BY DEF Discovered
    <2>5. ASSUME NEW x \in Urls
          PROVE  rows'[x] = IF x = u THEN Merge(rows[u], write[w][u])
                            ELSE Discovered(rows, found)[x]
      BY <2>3, <2>4 DEF Discovered
    <2>6. ASSUME NEW x \in Urls PROVE RowOK(rows'[x])
      BY <2>1, <2>2, <2>5
    <2>7. QED
      BY <2>6 DEF RowsOK, RowOK, Claimable
  <1>2. ASSUME NEW v \in Workers, NEW x \in Urls, stage'[v][x] # "idle"
        PROVE  /\ stage'[v][x] = stage[v][x] /\ write'[v][x] = write[v][x]
               /\ rows'[x] = rows[x]
    <2>1. /\ stage'[v][x] = stage[v][x] /\ write'[v][x] = write[v][x]
          /\ <<v, x>> # <<w, u>>
      BY <1>2 DEF Commit, PunctualInv, LeaseInv, TypeOK
    <2>2. x # u
      BY <1>2, <2>1, OneRequestPerUrl DEF Commit
    <2>3. rows[x].status = "leased"
      BY <1>2, <2>1, OpenRequestIsLeased
    <2>4. QED
      BY <2>1, <2>2, <2>3 DEF Commit, Discovered
  <1>3. QED
    BY <1>1, <1>2, OthersKeep

LEMMA PunctualClaim ==
    ASSUME PunctualInv, NEW w \in Workers, NEW scope \in Scopes,
           NEW locked \in SUBSET Urls, Claim(w, scope, locked)
    PROVE  SoleHolder' /\ RowsOK' /\ PendingIsWhole'
  <1>1. PICK batch \in SUBSET {u \in scope \ locked : Due(rows[u])} :
          /\ rows' = [u \in Urls |-> IF u \in batch THEN LeaseTo(rows[u], w) ELSE rows[u]]
          /\ stage' = [stage EXCEPT ![w] = [u \in Urls |->
                         IF u \in batch THEN "fetching" ELSE stage[w][u]]]
          /\ UNCHANGED write
    BY DEF Claim
  <1>2. LeaseTime # None /\ LeaseTime \in 0 .. LeaseTime
    BY FrontierAssumption
  <1>3. RowsOK'
    <2>1. ASSUME NEW u \in Urls, u \in batch PROVE RowOK(LeaseTo(rows[u], w))
      <3>1. rows[u] \in Row /\ RowOK(rows[u]) /\ Due(rows[u])
        BY <1>1, <2>1 DEF PunctualInv, LeaseInv, TypeOK, RowsOK
      <3>2. QED
        BY <1>2, <3>1, LeaseToRow DEF RowOK, Due, Claimable
    <2>2. ASSUME NEW u \in Urls PROVE RowOK(rows'[u])
      BY <1>1, <2>1 DEF PunctualInv, RowsOK
    <2>3. QED
      BY <2>2 DEF RowsOK, RowOK, Claimable
  <1>4. ASSUME NEW v \in Workers, NEW u \in Urls, u \in batch PROVE stage[v][u] = "idle"
    BY <1>1, <1>4, OpenRequestIsLeased DEF Due, Claimable
  <1>5. ASSUME NEW v \in Workers, NEW u \in Urls
        PROVE  /\ u \notin batch => stage'[v][u] = stage[v][u] /\ rows'[u] = rows[u]
               /\ u \in batch => /\ rows'[u] = LeaseTo(rows[u], w)
                                 /\ stage'[v][u] = IF v = w THEN "fetching" ELSE stage[v][u]
    BY <1>1 DEF PunctualInv, LeaseInv, TypeOK
  <1>6. SoleHolder'
    BY <1>2, <1>4, <1>5, LeaseToRow DEF PunctualInv, LeaseInv, TypeOK, SoleHolder
  <1>7. PendingIsWhole'
    BY <1>1, <1>4, <1>5 DEF PunctualInv, PendingIsWhole, RowOK, Claimable
  <1>8. QED
    BY <1>3, <1>6, <1>7

LEMMA PunctualTick ==
    ASSUME Punctual, PunctualInv, Tick
    PROVE  SoleHolder' /\ RowsOK' /\ PendingIsWhole'
  <1>1. ASSUME NEW r \in Row, RowOK(r) PROVE RowOK(Later(r))
    <2>1. /\ Later(r).status = r.status /\ Later(r).retry = r.retry
          /\ Later(r).expires = None <=> r.expires = None
          /\ Later(r).next = None <=> r.next = None
      BY LaterType, CountDownType DEF Row
    <2>2. QED
      BY <1>1, <2>1 DEF RowOK, Claimable
  <1>2. ASSUME NEW u \in Urls PROVE rows'[u] = Later(rows[u]) /\ rows[u] \in Row
    BY DEF Tick, PunctualInv, LeaseInv, TypeOK
  <1>3. RowsOK'
    <2>1. ASSUME NEW u \in Urls PROVE RowOK(rows'[u])
      BY <1>1, <1>2 DEF PunctualInv, RowsOK
    <2>2. QED
      BY <2>1 DEF RowsOK, RowOK, Claimable
  <1>4. SoleHolder'
    <2> SUFFICES ASSUME NEW w \in Workers, NEW u \in Urls, stage'[w][u] # "idle"
                 PROVE  /\ rows'[u].status = "leased"
                        /\ rows'[u].owner = w
                        /\ rows'[u].expires \in 0 .. LeaseTime
      BY DEF SoleHolder
    <2>1. stage[w][u] # "idle" /\ rows[u].expires \in 1 .. LeaseTime
      BY DEF Tick
    <2>2. CountDown(rows[u].expires, -1) \in 0 .. LeaseTime
      BY <2>1, FrontierAssumption DEF CountDown
    <2>3. QED
      BY <1>2, <2>1, <2>2, LaterType DEF PunctualInv, SoleHolder
  <1>5. PendingIsWhole'
    <2> SUFFICES ASSUME NEW w \in Workers, NEW u \in Urls, stage'[w][u] = "marking"
                 PROVE  /\ Columns \ {"retry"} \subseteq write'[w][u].cols
                        /\ "retry" \notin write'[w][u].cols
                              => write'[w][u].row.retry = rows'[u].retry
                        /\ write'[w][u].row.status # "leased"
                        /\ RowOK(write'[w][u].row)
      BY DEF PendingIsWhole, RowOK, Claimable
    <2>1. stage[w][u] = "marking" /\ write[w][u] \in Write /\ write[w][u].row \in Row
      BY DEF Tick, PunctualInv, LeaseInv, TypeOK, Write
    <2>2. write'[w][u] = [write[w][u] EXCEPT !.row = Later(write[w][u].row)]
      BY DEF Tick
    <2>3. /\ write'[w][u].cols = write[w][u].cols
          /\ write'[w][u].row = Later(write[w][u].row)
      BY <2>1, <2>2 DEF Write
    <2>4. RowOK(write[w][u].row)
      BY <2>1 DEF PunctualInv, PendingIsWhole
    <2>5. RowOK(write'[w][u].row)
      BY <1>1, <2>1, <2>3, <2>4
    <2>6. QED
      BY <1>2, <2>1, <2>3, <2>5, LaterType DEF PunctualInv, PendingIsWhole
  <1>6. QED
    BY <1>3, <1>4, <1>5

-----------------------------------------------------------------------------
(* The inductive step.                                                     *)

\* A step that replaces rows nobody works on, or the row of the request it ends.
LEMMA RowChange ==
    ASSUME PunctualInv, NEW S \in SUBSET Urls, NEW new \in [Urls -> Row],
           \A u \in S : RowOK(new[u]),
           \A u \in S, w \in Workers : stage'[w][u] = "idle",
           rows' = [u \in Urls |-> IF u \in S THEN new[u] ELSE rows[u]],
           \A w \in Workers, u \in Urls :
              stage'[w][u] # "idle" =>
                 stage'[w][u] = stage[w][u] /\ write'[w][u] = write[w][u]
    PROVE  SoleHolder' /\ RowsOK' /\ PendingIsWhole'
  <1>1. RowsOK'
    <2>1. ASSUME NEW u \in Urls PROVE RowOK(rows'[u])
      BY DEF PunctualInv, RowsOK
    <2>2. QED
      BY <2>1 DEF RowsOK, RowOK, Claimable
  <1>2. QED
    BY <1>1, OthersKeep

LEMMA PunctualStep == Punctual /\ PunctualInv /\ [ApiNext]_vars => PunctualInv'
  <1> SUFFICES ASSUME Punctual, PunctualInv, [ApiNext]_vars
               PROVE  SoleHolder' /\ RowsOK' /\ PendingIsWhole'
    BY LeaseStep DEF PunctualInv
  <1>0. TypeOK /\ rows = [u \in Urls |-> rows[u]]
    BY DEF PunctualInv, LeaseInv, TypeOK
  <1>1. ASSUME NEW entry \in EntrySets, SeedJob(entry)
        PROVE  SoleHolder' /\ RowsOK' /\ PendingIsWhole'
    <2> DEFINE S == {u \in entry : rows[u].status # "leased"}
               new == [u \in Urls |-> MakeDue(rows[u], "queued")]
    <2>1. new \in [Urls -> Row] /\ S \in SUBSET Urls
      BY <1>0, MakeDueRow, FrontierAssumption DEF TypeOK, Statuses
    <2>2. \A u \in S : RowOK(new[u])
      BY <1>0, MakeDueRow, FrontierAssumption DEF TypeOK, RowOK, Claimable, Statuses
    <2>3. rows' = [u \in Urls |-> IF u \in S THEN new[u] ELSE rows[u]]
      BY <1>1 DEF SeedJob
    <2>4. \A u \in S, w \in Workers : stage'[w][u] = "idle"
      BY <1>1, <2>1, OpenRequestIsLeased DEF SeedJob
    <2>5. stage' = stage /\ write' = write
      BY <1>1 DEF SeedJob
    <2> HIDE DEF S, new
    <2>6. QED
      BY <2>1, <2>2, <2>3, <2>4, <2>5, RowChange
  <1>2. ASSUME NEW scope \in Scopes, RequeueFailed(scope)
        PROVE  SoleHolder' /\ RowsOK' /\ PendingIsWhole'
    <2> DEFINE S == {u \in scope : rows[u].status = "failed"}
               new == [u \in Urls |-> MakeDue(rows[u], "retry_pending")]
    <2>1. new \in [Urls -> Row] /\ S \in SUBSET Urls
      BY <1>0, MakeDueRow, FrontierAssumption DEF TypeOK, Statuses
    <2>2. \A u \in S : RowOK(new[u])
      BY <1>0, MakeDueRow, FrontierAssumption DEF TypeOK, RowOK, Claimable, Statuses
    <2>3. rows' = [u \in Urls |-> IF u \in S THEN new[u] ELSE rows[u]]
      BY <1>2 DEF RequeueFailed
    <2>4. \A u \in S, w \in Workers : stage'[w][u] = "idle"
      BY <1>2, <2>1, OpenRequestIsLeased DEF RequeueFailed
    <2>5. stage' = stage /\ write' = write
      BY <1>2 DEF RequeueFailed
    <2> HIDE DEF S, new
    <2>6. QED
      BY <2>1, <2>2, <2>3, <2>4, <2>5, RowChange
  <1>3. ASSUME NEW w \in Workers, NEW scope \in Scopes, NEW locked \in SUBSET Urls,
               Claim(w, scope, locked)
        PROVE  SoleHolder' /\ RowsOK' /\ PendingIsWhole'
    BY <1>3, PunctualClaim
  <1>4. ASSUME NEW w \in Workers, NEW u \in Urls, Outcome(w, u)
        PROVE  SoleHolder' /\ RowsOK' /\ PendingIsWhole'
    BY <1>4, PunctualOutcome
  <1>5. ASSUME NEW w \in Workers, NEW u \in Urls, NEW found \in SUBSET Urls,
               Commit(w, u, found)
        PROVE  SoleHolder' /\ RowsOK' /\ PendingIsWhole'
    BY <1>5, PunctualCommit
  <1>6. ASSUME NEW w \in Workers, NEW u \in Urls, Abandon(w, u)
        PROVE  SoleHolder' /\ RowsOK' /\ PendingIsWhole'
    <2>1. rows' = rows /\ RowsOK'
      BY <1>6 DEF Abandon, PunctualInv, RowsOK, RowOK, Claimable
    <2>2. QED
      BY <1>0, <1>6, <2>1, OthersKeep DEF Abandon, TypeOK
  <1>7. ASSUME NEW w \in Workers, Crash(w)
        PROVE  SoleHolder' /\ RowsOK' /\ PendingIsWhole'
    <2>1. rows' = rows /\ RowsOK'
      BY <1>7 DEF Crash, PunctualInv, RowsOK, RowOK, Claimable
    <2>2. QED
      BY <1>0, <1>7, <2>1, OthersKeep DEF Crash, TypeOK
  <1>8. CASE Reap
    <2> DEFINE S == {u \in Urls : Expired(rows[u])}
               new == [u \in Urls |-> EndLease(rows[u], "queued")]
    <2>1. new \in [Urls -> Row] /\ S \in SUBSET Urls
      BY <1>0, EndLeaseRow DEF TypeOK, Statuses
    <2>2. \A u \in S : RowOK(new[u])
      BY <1>0, EndLeaseRow DEF TypeOK, RowOK, Claimable, Statuses, Expired, PunctualInv, RowsOK
    <2>3. rows' = [u \in Urls |-> IF u \in S THEN new[u] ELSE rows[u]]
      BY <1>8 DEF Reap
    <2>4. \A u \in S, w \in Workers : stage'[w][u] = "idle"
      BY <1>8, OpenRequestIsLeased DEF Reap
    <2>5. stage' = stage /\ write' = write
      BY <1>8 DEF Reap
    <2> HIDE DEF S, new
    <2>6. QED
      BY <2>1, <2>2, <2>3, <2>4, <2>5, RowChange
  <1>9. CASE Tick
    BY <1>9, PunctualTick
  <1>10. ASSUME NEW w \in Workers, NEW u \in Urls, ExtendLease(w, u)
         PROVE  SoleHolder' /\ RowsOK' /\ PendingIsWhole'
    <2>1. LeaseTime # None /\ LeaseTime \in 0 .. LeaseTime
      BY FrontierAssumption
    <2>2. ASSUME NEW x \in Urls
          PROVE  rows'[x] = IF x = u THEN [rows[u] EXCEPT !.expires = LeaseTime] ELSE rows[x]
      BY <1>0, <1>10 DEF ExtendLease, TypeOK
    <2>3. /\ rows[u] \in Row /\ stage' = stage /\ write' = write
          /\ \A v \in Workers : stage[v][u] # "marking"
      BY <1>0, <1>10, OneRequestPerUrl DEF ExtendLease, TypeOK
    <2> DEFINE e == [rows[u] EXCEPT !.expires = LeaseTime]
    <2>4. /\ e.status = rows[u].status /\ e.owner = rows[u].owner /\ e.expires = LeaseTime
          /\ e.next = rows[u].next /\ e.retry = rows[u].retry
      BY <2>3, ExtendedRow
    <2> HIDE DEF e
    <2>5. SoleHolder' /\ RowsOK'
      <3>1. ASSUME NEW x \in Urls PROVE RowOK(rows'[x])
        BY <2>1, <2>2, <2>4 DEF e, PunctualInv, RowsOK, RowOK, Claimable
      <3>2. ASSUME NEW v \in Workers, NEW x \in Urls, stage'[v][x] # "idle"
            PROVE  /\ rows'[x].status = "leased" /\ rows'[x].owner = v
                   /\ rows'[x].expires \in 0 .. LeaseTime
        <4>1. /\ rows[x].status = "leased" /\ rows[x].owner = v
              /\ rows[x].expires \in 0 .. LeaseTime
          BY <1>0, <2>3, <3>2 DEF PunctualInv, SoleHolder
        <4>2. CASE x = u
          <5>1. rows'[x] = e
            BY <2>2, <4>2 DEF e
          <5>2. QED
            BY <2>1, <2>4, <4>1, <4>2, <5>1
        <4>3. CASE x # u
          BY <2>2, <4>1, <4>3
        <4>4. QED
          BY <4>2, <4>3
      <3>3. QED
        BY <3>1, <3>2 DEF RowsOK, RowOK, Claimable, SoleHolder
    <2>6. PendingIsWhole'
      BY <2>2, <2>3 DEF PunctualInv, PendingIsWhole, RowOK, Claimable
    <2>7. QED
      BY <2>5, <2>6
  <1>11. ASSUME NEW w \in Workers, NEW u \in Urls, Release(w, u)
         PROVE  SoleHolder' /\ RowsOK' /\ PendingIsWhole'
    <2> DEFINE new == [x \in Urls |-> EndLease(rows[x], "queued")]
    <2>1. new \in [Urls -> Row] /\ {u} \in SUBSET Urls
      BY <1>0, EndLeaseRow DEF TypeOK, Statuses
    <2>2. \A x \in {u} : RowOK(new[x])
      BY <1>0, <1>11, EndLeaseRow
         DEF Release, TypeOK, RowOK, Claimable, Statuses, PunctualInv, SoleHolder, RowsOK
    <2>3. rows' = [x \in Urls |-> IF x \in {u} THEN new[x] ELSE rows[x]]
      BY <1>0, <1>11 DEF Release, PunctualInv, SoleHolder
    <2>4. \A x \in {u}, v \in Workers : stage'[v][x] = "idle"
      BY <1>0, <1>11, OneRequestPerUrl DEF Release, TypeOK
    <2>5. \A v \in Workers, x \in Urls :
             stage'[v][x] # "idle" =>
                stage'[v][x] = stage[v][x] /\ write'[v][x] = write[v][x]
      BY <1>0, <1>11 DEF Release, TypeOK
    <2> HIDE DEF new
    <2>6. QED
      BY <2>1, <2>2, <2>3, <2>4, <2>5, RowChange
  <1>12. ASSUME NEW w \in Workers, NEW u \in Urls, Skip(w, u)
         PROVE  SoleHolder' /\ RowsOK' /\ PendingIsWhole'
    <2> DEFINE new == [x \in Urls |-> EndLease(rows[x], "skipped")]
    <2>1. new \in [Urls -> Row] /\ {u} \in SUBSET Urls
      BY <1>0, EndLeaseRow DEF TypeOK, Statuses
    <2>2. \A x \in {u} : RowOK(new[x])
      BY <1>0, <1>12, EndLeaseRow
         DEF Skip, TypeOK, RowOK, Claimable, Statuses, PunctualInv, SoleHolder, RowsOK
    <2>3. rows' = [x \in Urls |-> IF x \in {u} THEN new[x] ELSE rows[x]]
      BY <1>0, <1>12 DEF Skip
    <2>4. \A x \in {u}, v \in Workers : stage'[v][x] = "idle"
      BY <1>0, <1>12, OneRequestPerUrl DEF Skip, TypeOK
    <2>5. \A v \in Workers, x \in Urls :
             stage'[v][x] # "idle" =>
                stage'[v][x] = stage[v][x] /\ write'[v][x] = write[v][x]
      BY <1>0, <1>12 DEF Skip, TypeOK
    <2> HIDE DEF new
    <2>6. QED
      BY <2>1, <2>2, <2>3, <2>4, <2>5, RowChange
  <1>13. CASE UNCHANGED vars
    BY <1>13 DEF vars, PunctualInv, SoleHolder, RowsOK, RowOK, Claimable, PendingIsWhole
  <1>14. QED
    BY <1>1, <1>2, <1>3, <1>4, <1>5, <1>6, <1>7, <1>8, <1>9, <1>10, <1>11, <1>12, <1>13
       DEF ApiNext, Next, LeaseApi, Finish

LEMMA PunctualInit == Init => PunctualInv
  <1> SUFFICES ASSUME Init PROVE PunctualInv
    OBVIOUS
  <1>1. TypeOK
    BY AbsentType DEF Init, TypeOK, Stages
  <1>2. LeaseColumnsAgree /\ WritesBothOrNeither
    BY DEF Init, LeaseColumnsAgree, WritesBothOrNeither, NoWrite, Absent
  <1>3. SoleHolder /\ PendingIsWhole
    BY DEF Init, SoleHolder, PendingIsWhole
  <1>4. RowsOK
    BY FrontierAssumption DEF Init, RowsOK, RowOK, Absent, Claimable
  <1>5. QED
    BY <1>1, <1>2, <1>3, <1>4 DEF PunctualInv, LeaseInv

\* As long as fetches end before their leases, every open request holds an
\* unexpired lease on its URL: claim_batch never hands one URL to two workers and
\* no outcome is recorded on somebody else's lease.
THEOREM SoleHolderHolds == Punctual /\ ApiSpec => []SoleHolder
  <1> SUFFICES ASSUME Punctual PROVE ApiSpec => []SoleHolder
    OBVIOUS
  <1>1. PunctualInv /\ [ApiNext]_vars => PunctualInv'
    BY PunctualStep
  <1>2. PunctualInv => SoleHolder
    BY DEF PunctualInv
  <1>3. QED
    BY <1>1, <1>2, PunctualInit, PTL DEF ApiSpec, ApiNext

\* The same invariant bounds retry_count by max_retries: mark_failed gives a URL up
\* exactly when its budget is spent, never before and never after.
THEOREM RetryBudgetHolds == Punctual /\ ApiSpec => []RetryBudget
  <1> SUFFICES ASSUME Punctual PROVE ApiSpec => []RetryBudget
    OBVIOUS
  <1>1. PunctualInv /\ [ApiNext]_vars => PunctualInv'
    BY PunctualStep
  <1>2. PunctualInv => RetryBudget
    BY RowsOKImplies DEF PunctualInv
  <1>3. QED
    BY <1>1, <1>2, PunctualInit, PTL DEF ApiSpec, ApiNext
=============================================================================
