------------------------------- MODULE Retention -------------------------------
(***************************************************************************)
(* The retention worker (run_retention_worker.py, retention.py) beside the *)
(* workers that go on writing articles and the rows that refer to them,    *)
(* and the counters that outlive the articles: article_daily_stats         *)
(* (services/article_daily_stats.py) and the daily and per-language rollups *)
(* of what was deleted (services/retention_stats.py).  A language stands   *)
(* for a source too: both breakdowns are written by the same code.         *)
(*                                                                         *)
(* A statement of the purge sees what is committed when it runs, and what  *)
(* the purge writes is seen by others at its commit.                       *)
(***************************************************************************)
EXTENDS Integers, Sequences, FiniteSets, Functions

CONSTANTS
    Articles,     \* articles that may be created
    Languages,
    LanguageOf,   \* the language of each article
    Tables,       \* the tables with rows of an article, in the order they are cleared
    None,
    Window,       \* how long an article is kept
    DayLength,    \* how much time is one UTC day
    BatchSize, MaxBatches,
    MaxRows,      \* bound: rows that refer to an article
    MaxTime,      \* bound: the clock stops here
    MaxFaults     \* bound: how often a step of the purge fails or its worker dies

Dependents == {Tables[i] : i \in DOMAIN Tables}

ASSUME RetentionAssumption ==
    /\ None \notin Articles /\ IsFiniteSet(Articles)
    /\ LanguageOf \in [Articles -> Languages]
    /\ Tables \in Seq(Dependents) /\ Len(Tables) > 0 /\ "article_versions" \in Dependents
    /\ Window \in Nat /\ DayLength \in Nat \ {0}
    /\ BatchSize \in Nat \ {0} /\ MaxBatches \in Nat \ {0}
    /\ MaxRows \in Nat \ {0} /\ MaxTime \in Nat /\ MaxFaults \in Nat

VARIABLES
    now,         \* the wall clock
    row,         \* the articles row of each article
    raw,         \* articles whose raw page is in object storage
    creating,    \* when the transaction that creates the article began
    created,     \* article_daily_stats
    deleted,     \* retention_daily_stats
    byLanguage,  \* retention_delete_by_language
    purge,       \* the cycle of the retention worker
    faults,      \* how often a step of the purge failed
    inCycle,     \* history: the articles deleted that the cycle is to record
    onDay,       \* history: the articles whose deletion each day's rollup stands for
    missed       \* history: the articles whose deletion will never be recorded

historyVars == <<inCycle, onDay, missed>>
statVars == <<created, deleted, byLanguage, historyVars>>
vars == <<now, row, raw, creating, purge, faults, statVars>>

-----------------------------------------------------------------------------
Days == 0 .. MaxTime \div DayLength
DayOf(t) == t \div DayLength
Steps == {"rest", "sync", "select", "unlink", "clear", "delete", "raw", "record"}

Rows  == [Dependents -> Nat]
Row   == [state : {"none", "live", "gone"}, at : 0 .. MaxTime, counted : Days,
          original : Articles \cup {None}, rows : Rows]
Cycle == [at : Steps, cutoff : Int, ids : SUBSET Articles, freed : SUBSET Articles,
          doomed : [Articles -> Rows], table : 1 .. Len(Tables) + 1,
          total : Nat, batches : 0 .. MaxBatches, tally : [Languages -> Nat],
          failed : BOOLEAN]

NoRows == [t \in Dependents |-> 0]
NoneDoomed == [a \in Articles |-> NoRows]
NoRow == [state |-> "none", at |-> 0, counted |-> 0, original |-> None, rows |-> NoRows]
Rest  == [at |-> "rest", cutoff |-> 0, ids |-> {}, freed |-> {}, doomed |-> NoneDoomed,
          table |-> 1, total |-> 0, batches |-> 0, tally |-> [l \in Languages |-> 0], failed |-> FALSE]

Live == {a \in Articles : row[a].state = "live"}
Gone == {a \in Articles : row[a].state = "gone"}
TotalOf(f) == FoldFunction(+, 0, f)
Larger(m, n) == IF m > n THEN m ELSE n
LiveOn(d) == {a \in Live : DayOf(row[a].at) = d}
OfLanguage(as, l) == {a \in as : LanguageOf[a] = l}

Init ==
    /\ now = 0
    /\ row = [a \in Articles |-> NoRow]
    /\ raw = {}
    /\ creating = [a \in Articles |-> None]
    /\ created = [d \in Days |-> 0]
    /\ deleted = [d \in Days |-> 0]
    /\ byLanguage = [d \in Days |-> [l \in Languages |-> 0]]
    /\ purge = Rest
    /\ faults = 0
    /\ inCycle = {}
    /\ onDay = [d \in Days |-> {}]
    /\ missed = {}

-----------------------------------------------------------------------------
(* The writers.  created_at is the start of the transaction, the day of the  *)
(* counter is that of the statement; the crawler has stored the raw page.    *)
BeginCreate(a) ==
    /\ row[a].state = "none" /\ creating[a] = None
    /\ creating' = [creating EXCEPT ![a] = now]
    /\ raw' = raw \cup {a}
    /\ UNCHANGED <<now, row, statVars, purge, faults>>

\* A transaction is shorter than the window.
CommitCreate(a) ==
    /\ creating[a] # None /\ now - creating[a] <= Window
    /\ row' = [row EXCEPT ![a] = [@ EXCEPT !.state = "live", !.at = creating[a],
                                   !.counted = DayOf(now), !.rows["article_versions"] = 1]]
    /\ created' = [created EXCEPT ![DayOf(now)] = @ + 1]
    /\ creating' = [creating EXCEPT ![a] = None]
    /\ UNCHANGED <<now, raw, deleted, byLanguage, historyVars, purge, faults>>

\* The embedding worker and the LLM worker add rows while the article is there.
AddRow(a, table) ==
    /\ a \in Live /\ TotalOf(row[a].rows) < MaxRows
    /\ row' = [row EXCEPT ![a].rows[table] = @ + 1]
    /\ UNCHANGED <<now, raw, creating, statVars, purge, faults>>

\* _semantic_dedup; a row that the purge has updated is locked until its commit.
MarkDuplicate(a, b) ==
    /\ a \in Live /\ b \in Live \ {a} /\ row[a].original = None
    /\ a \notin purge.freed
    /\ row' = [row EXCEPT ![a].original = b]
    /\ UNCHANGED <<now, raw, creating, statVars, purge, faults>>

Tick ==
    /\ now < MaxTime
    /\ \A a \in Articles : creating[a] # None => now - creating[a] < Window
    /\ now' = now + 1
    /\ UNCHANGED <<row, raw, creating, statVars, purge, faults>>

-----------------------------------------------------------------------------
(* One cycle of the worker: run_cycle, purge_expired_articles.             *)
StartCycle ==
    /\ purge.at = "rest"
    /\ purge' = [Rest EXCEPT !.at = "sync", !.cutoff = now - Window]
    /\ UNCHANGED <<now, row, raw, creating, statVars, faults>>

\* Mutant of Sync: the live rows overwrite the counters of their days.
SyncOverwrites ==
    /\ purge.at = "sync"
    /\ created' = [d \in Days |-> IF LiveOn(d) = {} THEN created[d]
                                  ELSE Cardinality(LiveOn(d))]
    /\ purge' = [purge EXCEPT !.at = "select"]
    /\ UNCHANGED <<now, row, raw, creating, deleted, byLanguage, historyVars, faults>>

\* sync_daily_stats_from_live_articles, committed.
Sync ==
    /\ purge.at = "sync"
    /\ created' = [d \in Days |-> Larger(created[d], Cardinality(LiveOn(d)))]
    /\ purge' = [purge EXCEPT !.at = "select"]
    /\ UNCHANGED <<now, row, raw, creating, deleted, byLanguage, historyVars, faults>>

Due == {a \in Live : row[a].at < purge.cutoff}

\* ORDER BY created_at LIMIT batch_size.
IsBatch(ids) ==
    /\ ids \subseteq Due
    /\ Cardinality(ids) = (IF Cardinality(Due) < BatchSize THEN Cardinality(Due) ELSE BatchSize)
    /\ \A a \in ids, b \in Due \ ids : row[a].at <= row[b].at

\* The loop ends when no row is left or after max_batches.
\* Mutant of LoopEnds: a cycle ends after one batch.
LoopEndsEarly == purge.batches = 1 \/ Due = {}
LoopEnds == purge.batches = MaxBatches \/ Due = {}

\* The batch is tallied before anything is deleted.
Select(ids) ==
    /\ purge.at = "select" /\ ~LoopEnds /\ IsBatch(ids)
    /\ purge' = [purge EXCEPT !.at = "unlink", !.ids = ids, !.freed = {}, !.doomed = NoneDoomed,
                   !.table = 1,
                   !.tally = [l \in Languages |-> @[l] + Cardinality(OfLanguage(ids, l))]]
    /\ UNCHANGED <<now, row, raw, creating, statVars, faults>>

LastBatch ==
    /\ purge.at = "select" /\ LoopEnds
    /\ purge' = [purge EXCEPT !.at = "record"]
    /\ UNCHANGED <<now, row, raw, creating, statVars, faults>>

\* UPDATE articles SET duplicate_of = NULL.
Referring == {a \in Live : row[a].original \in purge.ids}
\* Mutant of Unlink: the raw pages go before the rows do.
UnlinkDropsRaw ==
    /\ purge.at = "unlink"
    /\ purge' = [purge EXCEPT !.at = "clear", !.freed = Referring]
    /\ raw' = raw \ purge.ids
    /\ UNCHANGED <<now, row, creating, statVars, faults>>

Unlink ==
    /\ purge.at = "unlink"
    /\ purge' = [purge EXCEPT !.at = "clear", !.freed = Referring]
    /\ UNCHANGED <<now, row, raw, creating, statVars, faults>>

\* DELETE FROM each table in turn.
Clear ==
    /\ purge.at = "clear"
    /\ LET table == Tables[purge.table]
       IN  purge' = [purge EXCEPT
             !.doomed = [a \in Articles |-> IF a \in purge.ids
                           THEN [@[a] EXCEPT ![table] = row[a].rows[table]] ELSE @[a]],
             !.table = @ + 1,
             !.at = IF purge.table = Len(Tables) THEN "delete" ELSE "clear"]
    /\ UNCHANGED <<now, row, raw, creating, statVars, faults>>

\* The foreign keys: rows and references committed since their statement ran.
Held ==
    \/ \E a \in purge.ids, t \in Dependents : row[a].rows[t] > purge.doomed[a][t]
    \/ \E b \in Live \ (purge.ids \cup purge.freed) : row[b].original \in purge.ids

\* DELETE FROM articles, and the references to them that were broken.
Without(ids, freed) ==
    [a \in Articles |->
        IF a \in ids THEN [row[a] EXCEPT !.state = "gone", !.rows = NoRows, !.original = None]
        ELSE IF a \in freed THEN [row[a] EXCEPT !.original = None] ELSE row[a]]

\* The last statement and the commit; the batch is not counted yet.
\* Mutant of Delete: the references that were broken come back.
DeleteKeepsReferences ==
    /\ purge.at = "delete" /\ ~Held
    /\ row' = Without(purge.ids, {})
    /\ purge' = [purge EXCEPT !.at = "raw", !.freed = {}, !.doomed = NoneDoomed]
    /\ inCycle' = inCycle \cup purge.ids
    /\ UNCHANGED <<now, raw, creating, created, deleted, byLanguage, onDay, missed, faults>>

Delete ==
    /\ purge.at = "delete" /\ ~Held
    /\ row' = Without(purge.ids, purge.freed)
    /\ purge' = [purge EXCEPT !.at = "raw", !.freed = {}, !.doomed = NoneDoomed]
    /\ inCycle' = inCycle \cup purge.ids
    /\ UNCHANGED <<now, raw, creating, created, deleted, byLanguage, onDay, missed, faults>>

\* The rollback of a failed cycle, whose record is written all the same.
Failed == [purge EXCEPT !.at = "record", !.ids = {}, !.freed = {}, !.doomed = NoneDoomed,
             !.failed = TRUE]
\* Mutant of DeleteHeld: the statement is repeated in the same transaction.
DeleteHeldRepeats == purge.at = "delete" /\ Held /\ UNCHANGED vars

DeleteHeld ==
    /\ purge.at = "delete" /\ Held
    /\ purge' = Failed
    /\ UNCHANGED <<now, row, raw, creating, statVars, faults>>

\* delete_raw_html_objects, whose chunks may fail; then the batch is counted.
DeleteRaw(reached) ==
    /\ purge.at = "raw"
    /\ raw' = IF reached THEN raw \ purge.ids ELSE raw
    /\ purge' = [purge EXCEPT !.at = "select", !.ids = {}, !.batches = @ + 1,
                   !.total = @ + Cardinality(purge.ids)]
    /\ UNCHANGED <<now, row, creating, statVars, faults>>

\* record_purge_cycle, on the day the cycle finished.
Record ==
    /\ purge.at = "record"
    /\ deleted' = [deleted EXCEPT ![DayOf(now)] = @ + purge.total]
    /\ byLanguage' = [byLanguage EXCEPT ![DayOf(now)] =
                        [l \in Languages |-> @[l] + purge.tally[l]]]
    /\ purge' = Rest
    /\ onDay' = [onDay EXCEPT ![DayOf(now)] = @ \cup inCycle]
    /\ inCycle' = {}
    /\ UNCHANGED <<now, row, raw, creating, created, missed, faults>>

-----------------------------------------------------------------------------
(* What goes wrong: a statement fails, the record cannot be written, the   *)
(* worker dies; a transaction that is open is rolled back.                 *)
Fault == faults < MaxFaults /\ faults' = faults + 1

StatementFails ==
    /\ Fault /\ purge.at \in {"sync", "select", "unlink", "clear", "delete"}
    /\ purge' = Failed
    /\ UNCHANGED <<now, row, raw, creating, statVars>>

\* An exception after the commit of a batch and before its count: the client of the
\* object storage cannot be made, a location cannot be parsed.  The record of the
\* cycle is written without the batch.
RawRaises ==
    /\ Fault /\ purge.at = "raw"
    /\ purge' = Failed
    /\ inCycle' = inCycle \ purge.ids /\ missed' = missed \cup purge.ids
    /\ UNCHANGED <<now, row, raw, creating, created, deleted, byLanguage, onDay>>

\* So it is when the connection is lost after the server has committed.
ReplyLost ==
    /\ Fault /\ purge.at = "delete" /\ ~Held
    /\ row' = Without(purge.ids, purge.freed)
    /\ purge' = Failed /\ missed' = missed \cup purge.ids
    /\ UNCHANGED <<now, raw, creating, created, deleted, byLanguage, inCycle, onDay>>

\* What the cycle has deleted is in no rollup then.
NoRecord ==
    /\ purge' = Rest
    /\ inCycle' = {} /\ missed' = missed \cup inCycle
    /\ UNCHANGED <<now, row, raw, creating, created, deleted, byLanguage, onDay>>

RecordFails == Fault /\ purge.at = "record" /\ NoRecord
Crash == Fault /\ purge.at # "rest" /\ NoRecord

-----------------------------------------------------------------------------
Cycles ==
    \/ StartCycle \/ Sync
    \/ \E ids \in SUBSET Due : Select(ids)
    \/ LastBatch \/ Unlink \/ Clear \/ Delete \/ DeleteHeld
    \/ \E reached \in BOOLEAN : DeleteRaw(reached)
    \/ Record

Writers ==
    \E a \in Articles :
        \/ BeginCreate(a) \/ CommitCreate(a)
        \/ \E table \in Dependents : AddRow(a, table)
        \/ \E b \in Articles : MarkDuplicate(a, b)

Failures == StatementFails \/ RawRaises \/ ReplyLost \/ RecordFails \/ Crash

Next == Cycles \/ Writers \/ Failures \/ Tick

Spec == Init /\ [][Next]_vars
FairSpec == Spec /\ WF_vars(Cycles)

-----------------------------------------------------------------------------
(* What the retention worker promises.                                     *)

\* Every variable holds values of its type, the steps of the purge have the rows they
\* need, and the foreign keys hold.
TypeOK ==
    /\ now \in 0 .. MaxTime /\ faults \in 0 .. MaxFaults
    /\ row \in [Articles -> Row] /\ raw \subseteq Articles
    /\ creating \in [Articles -> {None} \cup (0 .. now)]
    /\ created \in [Days -> Nat] /\ deleted \in [Days -> Nat]
    /\ byLanguage \in [Days -> [Languages -> Nat]]
    /\ purge \in Cycle
    /\ inCycle \subseteq Articles /\ onDay \in [Days -> SUBSET Articles]
    /\ missed \subseteq Articles
    /\ purge.at \in {"unlink", "clear", "delete"} => purge.ids \subseteq Live
    /\ \A a \in Live : row[a].original \in Live \cup {None}
    /\ \A a \in Articles \ Live : row[a].rows = NoRows /\ row[a].original = None

\* retention_stats.py: each day's rollup counts the articles whose deletion it stands
\* for, and these are gone; an article is in one rollup, or in the total of the cycle that
\* runs, and never in two, the cycles that failed halfway included.  A cycle that fails in
\* a statement, or is held by a foreign key, records all it has deleted.  Deletions are
\* left out by one that dies or whose record fails, and by an exception between the commit
\* of a batch (retention.py:166) and its count (172): all other articles gone are counted.
Counted == inCycle \cup UNION {onDay[d] : d \in Days}
Running == purge.total + (IF purge.at = "raw" THEN Cardinality(purge.ids) ELSE 0)
DeletionsCountedOnce ==
    /\ Running = Cardinality(inCycle)
    /\ \A d \in Days : deleted[d] = Cardinality(onDay[d]) /\ onDay[d] \cap inCycle = {}
    /\ \A d, e \in Days : d # e => onDay[d] \cap onDay[e] = {}
    /\ Counted \cap missed = {}
    /\ Counted \cup missed = Gone

\* article_daily_stats.py: the counters survive the deletion of what they count.  Each
\* day's counter has counted every article that was counted on it, deleted ones too, and
\* nothing beside these but articles whose transaction crossed midnight: created_at says
\* this day, the counter the next.
Ever == Live \cup Gone
CountedOn(d) == {a \in Ever : row[a].counted = d}
BornOn(d)    == {a \in Ever : DayOf(row[a].at) = d}
CreationsCountedOnce ==
    \A d \in Days : /\ Cardinality(CountedOn(d)) <= created[d]
                    /\ created[d] <= Cardinality(CountedOn(d) \cup BornOn(d))

\* models/retention.py and article_daily_stats.py: neither a creation nor a deletion is
\* counted twice or lost, beyond what the two say above.
CountedOnce == DeletionsCountedOnce /\ CreationsCountedOnce

\* A raw page goes only after its article is gone for good: the commit (retention.py:166)
\* comes before the removal (168), so an article that is kept, or whose deletion was rolled
\* back, still has its page.  (The module's docstring, lines 3-4, names the other order.)
LiveHasRaw == Live \subseteq raw

\* A cycle that completes before it runs out of batches has left no article behind that
\* was older than its cutoff, whatever was written while it ran.
CompletedIsClean ==
    purge.at = "record" /\ ~purge.failed /\ purge.batches < MaxBatches => Due = {}

\* An article past the window is deleted at last, though other workers add rows that hold
\* it and mark duplicates of it (MaxRows of them) and the worker fails or dies (MaxFaults
\* times).
ExpiredIsPurged ==
    \A a \in Articles : a \in Live /\ row[a].at + Window < now ~> a \in Gone

\* models/retention.py:55: "Cumulative language breakdown of deleted articles".
BreakdownIsOfDeleted ==
    purge.at = "rest" => \A d \in Days : TotalOf(byLanguage[d]) = deleted[d]
=============================================================================
