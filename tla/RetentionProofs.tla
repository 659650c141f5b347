---------------------------- MODULE RetentionProofs ----------------------------
(***************************************************************************)
(* Theorems about Retention, for any articles, tables and languages, any   *)
(* window, and any sizes of batches and of days.                           *)
(***************************************************************************)
EXTENDS Retention, FiniteSetTheorems, TLAPS

\* The raw page is stored before the transaction that creates the article begins.
PagesKept == \A a \in Articles : row[a].state = "live" \/ creating[a] # None => a \in raw

\* An article is created once.
OpenOK == \A a \in Articles : creating[a] # None => row[a].state = "none"

\* What the steps of a cycle rely on.
PurgeOK ==
    /\ purge.at = "raw" => purge.ids \subseteq Gone
    /\ purge.at # "rest" => purge.cutoff <= now - Window
    /\ purge.at \in {"unlink", "clear", "delete", "raw"} => purge.batches < MaxBatches
    /\ purge.at = "unlink" => purge.table = 1
    /\ purge.at = "clear" => purge.table <= Len(Tables)

RInv == TypeOK /\ PagesKept /\ OpenOK /\ PurgeOK /\ CompletedIsClean

-----------------------------------------------------------------------------
(* Days.                                                                   *)

LEMMA DivMono ==
    ASSUME NEW n \in Nat, NEW m \in Nat, NEW d \in Nat \ {0}, n <= m
    PROVE  n \div d \in Nat /\ n \div d <= m \div d
  <1> DEFINE q == n \div d
             p == m \div d
  <1>1. /\ q \in Int /\ d * q <= n /\ n < d * q + d
        /\ p \in Int /\ d * p <= m /\ m < d * p + d
    OBVIOUS
  <1> HIDE DEF q, p
  <1>2. q >= 0 /\ q <= p
    BY <1>1
  <1>3. QED
    BY <1>1, <1>2 DEF q, p

LEMMA DayIsDay ==
    ASSUME NEW t \in 0 .. MaxTime
    PROVE  DayOf(t) \in Days
  BY DivMono, RetentionAssumption DEF DayOf, Days

LEMMA CountIsNat ==
    ASSUME NEW s \in SUBSET Articles
    PROVE  Cardinality(s) \in Nat
  BY FS_Subset, FS_CardinalityType, RetentionAssumption

LEMMA SumsAreNat ==
    ASSUME NEW l \in Languages, NEW s \in SUBSET Articles
    PROVE  Cardinality(OfLanguage(s, l)) \in Nat
  BY CountIsNat DEF OfLanguage

-----------------------------------------------------------------------------
(* The cycle, whose steps leave the clock, the open transactions and, but  *)
(* for Delete and DeleteRaw, the rows and the raw pages alone.             *)

LEMMA RestIsCycle ==
    /\ Rest \in Cycle /\ Rest.at = "rest" /\ Rest.ids = {} /\ Rest.batches = 0
    /\ Rest.table = 1 /\ Rest.failed = FALSE
  BY RetentionAssumption DEF Rest, Cycle, Steps, NoneDoomed, NoRows, Rows

LEMMA PurgeStep ==
    ASSUME RInv, UNCHANGED <<now, row, raw, creating>>, purge' \in Cycle,
           created' \in [Days -> Nat], deleted' \in [Days -> Nat],
           byLanguage' \in [Days -> [Languages -> Nat]], faults' \in 0 .. MaxFaults,
           inCycle' \subseteq Articles, onDay' \in [Days -> SUBSET Articles],
           missed' \subseteq Articles,
           purge'.at \in {"unlink", "clear", "delete"} => purge'.ids \subseteq Live,
           PurgeOK', CompletedIsClean'
    PROVE  RInv'
  <1>1. Live' = Live /\ Gone' = Gone
    BY DEF Live, Gone
  <1>2. TypeOK'
    BY <1>1 DEF RInv, TypeOK
  <1>3. PagesKept' /\ OpenOK'
    BY DEF RInv, PagesKept, OpenOK
  <1>4. QED
    BY <1>2, <1>3 DEF RInv

LEMMA StartRInv ==
    ASSUME RInv, StartCycle
    PROVE  RInv'
  <1> DEFINE c1 == [Rest EXCEPT !.at = "sync"]
             cutoff == now - Window
             c == [c1 EXCEPT !.cutoff = cutoff]
  <1>1. now \in Nat /\ cutoff \in Int
    BY RetentionAssumption DEF RInv, TypeOK
  <1>2. c1 \in Cycle /\ c1.at = "sync"
    BY RestIsCycle DEF Cycle, Steps
  <1>3. purge' = c
    BY Zenon DEF StartCycle
  <1> HIDE DEF c1, cutoff
  <1>4. c \in Cycle /\ c.at = "sync" /\ c.cutoff = cutoff
    BY <1>1, <1>2 DEF Cycle
  <1> HIDE DEF c
  <1>5. PurgeOK' /\ CompletedIsClean'
    <2>1. purge'.at = "sync" /\ purge'.cutoff = cutoff /\ now' = now
      BY <1>3, <1>4 DEF cutoff, StartCycle
    <2>2. QED
      BY <1>1, <2>1 DEF PurgeOK, CompletedIsClean, cutoff
  <1>6. QED
    BY <1>3, <1>4, <1>5, PurgeStep DEF RInv, TypeOK, StartCycle, statVars, historyVars

LEMMA SyncRInv ==
    ASSUME RInv, Sync
    PROVE  RInv'
  <1> DEFINE c == [purge EXCEPT !.at = "select"]
  <1>1. c \in Cycle /\ c.at = "select" /\ c.cutoff = purge.cutoff
    BY DEF RInv, TypeOK, Cycle, Steps
  <1>2. purge' = c
        /\ UNCHANGED <<now, row, raw, creating, deleted, byLanguage, historyVars, faults>>
    BY DEF Sync, historyVars
  <1>3. created' \in [Days -> Nat]
    <2>1. ASSUME NEW d \in Days
          PROVE  Larger(created[d], Cardinality(LiveOn(d))) \in Nat
      <3>1. Cardinality(LiveOn(d)) \in Nat
        BY CountIsNat DEF LiveOn, Live
      <3>2. QED
        BY <3>1 DEF RInv, TypeOK, Larger
    <2>2. QED
      BY <2>1 DEF Sync
  <1> HIDE DEF c
  <1>4. PurgeOK' /\ CompletedIsClean'
    BY <1>1, <1>2 DEF RInv, PurgeOK, CompletedIsClean, Sync
  <1>5. QED
    BY <1>1, <1>2, <1>3, <1>4, PurgeStep DEF RInv, TypeOK, historyVars

LEMMA SelectRInv ==
    ASSUME RInv, NEW ids \in SUBSET Due, Select(ids)
    PROVE  RInv'
  <1> DEFINE tally == [l \in Languages |-> purge.tally[l] + Cardinality(OfLanguage(ids, l))]
             c1 == [purge EXCEPT !.at = "unlink", !.ids = ids, !.freed = {}]
             c2 == [c1 EXCEPT !.doomed = NoneDoomed, !.table = 1]
             c == [c2 EXCEPT !.tally = tally]
  <1>1. ids \subseteq Live /\ ids \subseteq Articles /\ purge \in Cycle
    BY DEF Due, Live, RInv, TypeOK
  <1>2. tally \in [Languages -> Nat]
    <2>1. \A l \in Languages : Cardinality(OfLanguage(ids, l)) \in Nat
      BY <1>1, SumsAreNat
    <2>2. purge.tally \in [Languages -> Nat]
      BY <1>1 DEF Cycle
    <2>3. QED
      BY <2>1, <2>2
  <1>3. /\ UNCHANGED <<now, row, raw, creating, statVars, faults>>
        /\ purge.at = "select" /\ purge.batches # MaxBatches
    BY DEF Select, LoopEnds
  <1>4. purge' = c
    BY Zenon DEF Select
  <1> HIDE DEF tally
  <1>5. c1 \in Cycle /\ c1.at = "unlink" /\ c1.ids = ids
        /\ c1.batches = purge.batches /\ c1.cutoff = purge.cutoff
    BY <1>1 DEF Cycle, Steps
  <1> HIDE DEF c1
  <1>6. c2 \in Cycle /\ c2.at = "unlink" /\ c2.ids = ids /\ c2.table = 1
        /\ c2.batches = purge.batches /\ c2.cutoff = purge.cutoff
    BY <1>5, RestIsCycle, RetentionAssumption DEF Cycle, Rest, Rows, NoneDoomed, NoRows
  <1> HIDE DEF c2
  <1>7. c \in Cycle /\ c.at = "unlink" /\ c.ids = ids /\ c.table = 1
        /\ c.batches = purge.batches /\ c.cutoff = purge.cutoff
    BY <1>2, <1>6 DEF Cycle
  <1> HIDE DEF c
  <1>8. purge.batches < MaxBatches
    BY <1>1, <1>3, RetentionAssumption DEF Cycle
  <1>9. PurgeOK' /\ CompletedIsClean'
    BY <1>3, <1>4, <1>7, <1>8 DEF RInv, PurgeOK, CompletedIsClean
  <1>10. QED
    BY <1>1, <1>3, <1>4, <1>7, <1>9, PurgeStep DEF RInv, TypeOK, statVars, historyVars

LEMMA LastBatchRInv ==
    ASSUME RInv, LastBatch
    PROVE  RInv'
  <1> DEFINE c == [purge EXCEPT !.at = "record"]
  <1>1. c \in Cycle /\ c.at = "record" /\ c.cutoff = purge.cutoff /\ c.batches = purge.batches
    BY DEF RInv, TypeOK, Cycle, Steps
  <1>2. purge' = c /\ UNCHANGED <<now, row, raw, creating, statVars, faults>>
        /\ purge.at = "select" /\ LoopEnds
    BY DEF LastBatch
  <1> HIDE DEF c
  <1>3. CompletedIsClean'
    <2>1. purge.batches < MaxBatches => Due = {}
      BY <1>2, RetentionAssumption DEF LoopEnds, RInv, TypeOK, Cycle
    <2>2. Due' = Due
      BY <1>1, <1>2 DEF Due, Live
    <2>3. QED
      BY <1>1, <1>2, <2>1, <2>2 DEF CompletedIsClean
  <1>4. PurgeOK'
    BY <1>1, <1>2 DEF RInv, PurgeOK
  <1>5. QED
    BY <1>1, <1>2, <1>3, <1>4, PurgeStep DEF RInv, TypeOK, statVars, historyVars

LEMMA UnlinkRInv ==
    ASSUME RInv, Unlink
    PROVE  RInv'
  <1> DEFINE c == [purge EXCEPT !.at = "clear", !.freed = Referring]
  <1>1. purge \in Cycle /\ Referring \in SUBSET Articles
    BY DEF RInv, TypeOK, Referring, Live
  <1>2. /\ c \in Cycle /\ c.at = "clear" /\ c.ids = purge.ids
        /\ c.table = purge.table /\ c.cutoff = purge.cutoff /\ c.batches = purge.batches
    BY <1>1 DEF Cycle, Steps
  <1>3. purge' = c /\ UNCHANGED <<now, row, raw, creating, statVars, faults>>
        /\ purge.at = "unlink"
    BY DEF Unlink
  <1> HIDE DEF c
  <1>4. PurgeOK' /\ CompletedIsClean'
    <2>1. Len(Tables) \in Nat /\ 1 <= Len(Tables)
      BY RetentionAssumption
    <2>2. QED
      BY <1>2, <1>3, <2>1 DEF RInv, PurgeOK, CompletedIsClean
  <1>5. QED
    BY <1>2, <1>3, <1>4, PurgeStep DEF RInv, TypeOK, statVars, historyVars

LEMMA ClearRInv ==
    ASSUME RInv, Clear
    PROVE  RInv'
  <1> DEFINE table == Tables[purge.table]
             doomed == [a \in Articles |->
                          IF a \in purge.ids
                          THEN [purge.doomed[a] EXCEPT ![table] = row[a].rows[table]]
                          ELSE purge.doomed[a]]
             at == IF purge.table = Len(Tables) THEN "delete" ELSE "clear"
             c1 == [purge EXCEPT !.doomed = doomed]
             next == purge.table + 1
             c2 == [c1 EXCEPT !.table = next]
             c == [c2 EXCEPT !.at = at]
  <1>1. /\ purge \in Cycle /\ purge.at = "clear" /\ purge.table \in 1 .. Len(Tables)
        /\ Len(Tables) \in Nat /\ purge.ids \subseteq Live
        /\ UNCHANGED <<now, row, raw, creating, statVars, faults>>
    BY RetentionAssumption, SMTT(30) DEF RInv, TypeOK, PurgeOK, Clear, Cycle
  <1>2. doomed \in [Articles -> Rows]
    <2>1. table \in Dependents
      BY <1>1, RetentionAssumption
    <2>2. purge.doomed \in [Articles -> Rows]
      BY <1>1 DEF Cycle
    <2>3. \A a \in Articles : row[a].rows \in Rows
      BY DEF RInv, TypeOK, Row
    <2>4. QED
      BY <2>1, <2>2, <2>3 DEF Rows
  <1>3. purge' = [purge EXCEPT !.doomed = doomed, !.table = next, !.at = at]
        /\ next \in 1 .. Len(Tables) + 1
    BY <1>1 DEF Clear, Cycle
  <1>4. at \in {"delete", "clear"} /\ (at = "clear" => purge.table # Len(Tables))
    OBVIOUS
  <1> HIDE DEF doomed, at
  <1>5. purge' = c
    BY <1>3, Zenon
  <1> HIDE DEF next
  <1>6. c1 \in Cycle /\ c1.ids = purge.ids /\ c1.cutoff = purge.cutoff
        /\ c1.batches = purge.batches
    BY <1>1, <1>2 DEF Cycle
  <1> HIDE DEF c1
  <1>7. c2 \in Cycle /\ c2.ids = purge.ids /\ c2.cutoff = purge.cutoff
        /\ c2.batches = purge.batches /\ c2.table = next
    BY <1>3, <1>6 DEF Cycle
  <1> HIDE DEF c2
  <1>8. /\ c \in Cycle /\ c.ids = purge.ids /\ c.cutoff = purge.cutoff
        /\ c.batches = purge.batches /\ c.table = next /\ c.at = at
    BY <1>4, <1>7 DEF Cycle, Steps
  <1> HIDE DEF c
  <1>9. PurgeOK' /\ CompletedIsClean'
    BY <1>1, <1>4, <1>5, <1>8 DEF RInv, PurgeOK, CompletedIsClean, next
  <1>10. QED
    BY <1>1, <1>5, <1>8, <1>9, PurgeStep DEF RInv, TypeOK, statVars, historyVars

\* A cycle that failed is on its way to its record, with the total it has.
LEMMA FailedIsCycle ==
    ASSUME RInv
    PROVE  /\ Failed \in Cycle /\ Failed.at = "record" /\ Failed.failed = TRUE
           /\ Failed.cutoff = purge.cutoff /\ Failed.total = purge.total
  <1> DEFINE c1 == [purge EXCEPT !.at = "record", !.ids = {}, !.freed = {}]
             c2 == [c1 EXCEPT !.doomed = NoneDoomed]
             c == [c2 EXCEPT !.failed = TRUE]
  <1>1. Failed = c
    BY Zenon DEF Failed
  <1>2. c1 \in Cycle /\ c1.at = "record" /\ c1.cutoff = purge.cutoff /\ c1.total = purge.total
    BY DEF RInv, TypeOK, Cycle, Steps
  <1> HIDE DEF c1
  <1>3. c2 \in Cycle /\ c2.at = "record" /\ c2.cutoff = purge.cutoff /\ c2.total = purge.total
    BY <1>2, RestIsCycle DEF Cycle, Rest, NoneDoomed, NoRows, Rows
  <1> HIDE DEF c2
  <1>4. /\ c \in Cycle /\ c.at = "record" /\ c.failed = TRUE
        /\ c.cutoff = purge.cutoff /\ c.total = purge.total
    BY <1>3 DEF Cycle
  <1>5. QED
    BY <1>1, <1>4

\* It deletes nothing more.
LEMMA FailedRInv ==
    ASSUME RInv, purge.at # "rest", purge' = Failed, faults' \in 0 .. MaxFaults,
           UNCHANGED <<now, row, raw, creating, created, deleted, byLanguage, onDay>>,
           inCycle' \subseteq Articles, missed' \subseteq Articles
    PROVE  RInv'
  <1>1. PurgeOK' /\ CompletedIsClean'
    BY FailedIsCycle DEF RInv, PurgeOK, CompletedIsClean
  <1>2. QED
    BY <1>1, FailedIsCycle, PurgeStep DEF RInv, TypeOK

\* A cycle that is over, or whose worker died, starts from nothing.
LEMMA RestRInv ==
    ASSUME RInv, purge' = Rest, faults' \in 0 .. MaxFaults,
           UNCHANGED <<now, row, raw, creating, created>>,
           inCycle' = {}, onDay' \in [Days -> SUBSET Articles], missed' \subseteq Articles,
           deleted' \in [Days -> Nat], byLanguage' \in [Days -> [Languages -> Nat]]
    PROVE  RInv'
  <1>1. purge' \in Cycle /\ purge'.at = "rest"
    BY RestIsCycle
  <1>2. PurgeOK' /\ CompletedIsClean'
    BY <1>1 DEF PurgeOK, CompletedIsClean
  <1>3. QED
    BY <1>1, <1>2, PurgeStep DEF RInv, TypeOK

LEMMA RecordRInv ==
    ASSUME RInv, Record
    PROVE  RInv'
  <1>1. /\ purge.total \in Nat /\ purge.tally \in [Languages -> Nat]
        /\ now \in 0 .. MaxTime /\ DayOf(now) \in Days
    BY DayIsDay DEF RInv, TypeOK, Cycle
  <1>2. deleted' \in [Days -> Nat]
    BY <1>1 DEF RInv, TypeOK, Record
  <1>3. byLanguage' \in [Days -> [Languages -> Nat]]
    <2>1. byLanguage[DayOf(now)] \in [Languages -> Nat]
      BY <1>1 DEF RInv, TypeOK
    <2>2. [l \in Languages |-> byLanguage[DayOf(now)][l] + purge.tally[l]] \in [Languages -> Nat]
      BY <1>1, <2>1
    <2>3. QED
      BY <1>1, <2>2 DEF RInv, TypeOK, Record
  <1>4. onDay' \in [Days -> SUBSET Articles]
    BY <1>1 DEF RInv, TypeOK, Record
  <1>5. QED
    BY <1>2, <1>3, <1>4, RestRInv DEF RInv, TypeOK, Record

-----------------------------------------------------------------------------
(* The steps that delete.                                                  *)

\* The foreign keys let a batch go that no other article and no row refers to.
LEMMA DeletedRInv ==
    ASSUME RInv, purge.at = "delete", ~Held, row' = Without(purge.ids, purge.freed),
           UNCHANGED <<now, raw, creating, created, deleted, byLanguage, onDay>>,
           faults' \in 0 .. MaxFaults, inCycle' \subseteq Articles, missed' \subseteq Articles,
           purge' \in Cycle, purge'.cutoff = purge.cutoff,
           \/ /\ purge'.at = "raw" /\ purge'.ids = purge.ids
              /\ purge'.batches = purge.batches
           \/ purge'.at = "record" /\ purge'.failed
    PROVE  RInv'
  <1> DEFINE ids == purge.ids
  <1>1. /\ purge \in Cycle /\ ids \subseteq Live
        /\ row \in [Articles -> Row] /\ ids \subseteq Articles
        /\ row' = Without(ids, purge.freed)
    BY DEF RInv, TypeOK, Cycle
  <1>2. ASSUME NEW a \in Articles
        PROVE  /\ row'[a] \in Row
               /\ row'[a].state = IF a \in ids THEN "gone" ELSE row[a].state
               /\ row'[a].rows = IF a \in ids THEN NoRows ELSE row[a].rows
               /\ row'[a].original = IF a \in ids \cup purge.freed THEN None
                                     ELSE row[a].original
    <2>1. row[a] \in Row /\ NoRows \in Rows
      BY <1>1 DEF NoRows, Rows
    <2>2. CASE a \in ids
      <3> DEFINE r1 == [row[a] EXCEPT !.state = "gone", !.rows = NoRows]
                 r == [r1 EXCEPT !.original = None]
      <3>1. row'[a] = r
        BY <1>1, <2>2, Zenon DEF Without
      <3>2. r1 \in Row /\ r1.state = "gone" /\ r1.rows = NoRows
        BY <2>1 DEF Row
      <3> HIDE DEF r1
      <3>3. r \in Row /\ r.state = "gone" /\ r.rows = NoRows /\ r.original = None
        BY <3>2 DEF Row
      <3>4. QED
        BY <2>2, <3>1, <3>3
    <2>3. CASE a \notin ids /\ a \in purge.freed
      <3>1. row'[a] = [row[a] EXCEPT !.original = None]
        BY <1>1, <2>3, Zenon DEF Without
      <3>2. QED
        BY <2>1, <2>3, <3>1 DEF Row
    <2>4. CASE a \notin ids /\ a \notin purge.freed
      BY <1>1, <2>4 DEF Without
    <2>5. QED
      BY <2>2, <2>3, <2>4
  <1>3. Live' = Live \ ids /\ ids \subseteq Gone'
    BY <1>1, <1>2 DEF Live, Gone
  <1>4. \A a \in Live' : row'[a].original \in Live' \cup {None}
    <2>1. ASSUME NEW a \in Live \ ids, row[a].original \in ids
          PROVE  a \in purge.freed
      BY <2>1 DEF Held
    <2>2. QED
      BY <1>1, <1>2, <1>3, <2>1 DEF RInv, TypeOK, Live
  <1>5. TypeOK'
    <2>1. row' \in [Articles -> Row]
      BY <1>1, <1>2 DEF Without
    <2>2. \A a \in Articles \ Live' : row'[a].rows = NoRows /\ row'[a].original = None
      BY <1>2, <1>3 DEF RInv, TypeOK
    <2>3. QED
      BY <1>1, <1>3, <1>4, <2>1, <2>2 DEF RInv, TypeOK
  <1>6. PagesKept' /\ OpenOK'
    <2>1. \A a \in ids : creating[a] = None
      BY <1>1 DEF RInv, OpenOK, Live
    <2>2. QED
      BY <1>1, <1>2, <2>1 DEF RInv, PagesKept, OpenOK
  <1>7. PurgeOK' /\ CompletedIsClean'
    BY <1>1, <1>3 DEF RInv, PurgeOK, CompletedIsClean
  <1>8. QED
    BY <1>5, <1>6, <1>7 DEF RInv

LEMMA DeleteRInv ==
    ASSUME RInv, Delete
    PROVE  RInv'
  <1> DEFINE c1 == [purge EXCEPT !.at = "raw", !.freed = {}]
             c == [c1 EXCEPT !.doomed = NoneDoomed]
             ids == purge.ids
  <1>1. /\ purge \in Cycle /\ purge.at = "delete" /\ ids \subseteq Articles
        /\ inCycle' \subseteq Articles /\ missed' \subseteq Articles
        /\ faults' \in 0 .. MaxFaults
    BY DEF RInv, TypeOK, Delete, Cycle
  <1>2. purge' = c
    BY Zenon DEF Delete
  <1>3. c1 \in Cycle /\ c1.at = "raw" /\ c1.ids = ids /\ c1.cutoff = purge.cutoff
        /\ c1.batches = purge.batches
    BY <1>1 DEF Cycle, Steps
  <1> HIDE DEF c1
  <1>4. c \in Cycle /\ c.at = "raw" /\ c.ids = ids /\ c.cutoff = purge.cutoff
        /\ c.batches = purge.batches
    BY <1>3, RestIsCycle DEF Cycle, Rest, NoneDoomed, NoRows, Rows
  <1> HIDE DEF c
  <1>5. QED
    BY <1>1, <1>2, <1>4, DeletedRInv DEF Delete

\* The same rows are gone when only the reply to the commit is lost.
LEMMA ReplyLostRInv ==
    ASSUME RInv, ReplyLost, faults' \in 0 .. MaxFaults
    PROVE  RInv'
  <1>1. purge.ids \subseteq Articles /\ inCycle' = inCycle /\ missed' = missed \cup purge.ids
    BY DEF ReplyLost, RInv, TypeOK, Cycle
  <1>2. inCycle' \subseteq Articles /\ missed' \subseteq Articles
    BY <1>1 DEF RInv, TypeOK
  <1>3. QED
    BY <1>2, FailedIsCycle, DeletedRInv DEF ReplyLost

LEMMA DeleteRawRInv ==
    ASSUME RInv, NEW reached \in BOOLEAN, DeleteRaw(reached)
    PROVE  RInv'
  <1> DEFINE total == purge.total + Cardinality(purge.ids)
             batches == purge.batches + 1
             c1 == [purge EXCEPT !.at = "select", !.ids = {}]
             c2 == [c1 EXCEPT !.batches = batches]
             c == [c2 EXCEPT !.total = total]
  <1>1. /\ purge \in Cycle /\ purge.at = "raw" /\ purge.ids \subseteq Gone
        /\ UNCHANGED <<now, row, creating, statVars, faults>>
        /\ raw \ purge.ids \subseteq raw' /\ raw' \subseteq raw
    BY DEF RInv, TypeOK, PurgeOK, DeleteRaw
  <1>2. total \in Nat /\ batches \in 0 .. MaxBatches
    BY <1>1, CountIsNat, RetentionAssumption, SMTT(30) DEF Cycle, RInv, PurgeOK
  <1>3. purge' = [purge EXCEPT !.at = "select", !.ids = {}, !.batches = batches, !.total = total]
    BY <1>1 DEF DeleteRaw, Cycle
  <1> HIDE DEF total, batches
  <1>4. purge' = c
    BY <1>3, Zenon
  <1>5. c1 \in Cycle /\ c1.at = "select" /\ c1.cutoff = purge.cutoff
    BY <1>1 DEF Cycle, Steps
  <1> HIDE DEF c1
  <1>6. c2 \in Cycle /\ c2.at = "select" /\ c2.cutoff = purge.cutoff
    BY <1>2, <1>5 DEF Cycle
  <1> HIDE DEF c2
  <1>7. c \in Cycle /\ c.at = "select" /\ c.cutoff = purge.cutoff
    BY <1>2, <1>6 DEF Cycle
  <1> HIDE DEF c
  <1>8. TypeOK'
    <2>1. Live' = Live
      BY <1>1 DEF Live
    <2>2. QED
      BY <1>1, <1>4, <1>7, <2>1 DEF RInv, TypeOK, statVars, historyVars
  <1>9. PagesKept' /\ OpenOK'
    <2>1. \A a \in purge.ids : row[a].state = "gone"
      BY <1>1 DEF Gone
    <2>2. QED
      BY <1>1, <2>1 DEF RInv, PagesKept, OpenOK
  <1>10. PurgeOK' /\ CompletedIsClean'
    BY <1>1, <1>4, <1>7 DEF RInv, PurgeOK, CompletedIsClean
  <1>11. QED
    BY <1>8, <1>9, <1>10 DEF RInv

-----------------------------------------------------------------------------
(* The other workers, and the clock.                                       *)

LEMMA BeginRInv ==
    ASSUME RInv, NEW a \in Articles, BeginCreate(a)
    PROVE  RInv'
  <1>1. /\ creating' = [creating EXCEPT ![a] = now] /\ raw' = raw \cup {a}
        /\ row[a].state = "none" /\ UNCHANGED <<now, row, statVars, purge, faults>>
    BY DEF BeginCreate
  <1>2. Live' = Live /\ Gone' = Gone /\ Due' = Due
    BY <1>1 DEF Live, Gone, Due
  <1>3. TypeOK'
    <2>1. creating' \in [Articles -> {None} \cup (0 .. now)]
      BY <1>1 DEF RInv, TypeOK
    <2>2. QED
      BY <1>1, <1>2, <2>1 DEF RInv, TypeOK, statVars, historyVars
  <1>4. PagesKept' /\ OpenOK'
    BY <1>1 DEF RInv, TypeOK, PagesKept, OpenOK
  <1>5. PurgeOK' /\ CompletedIsClean'
    BY <1>1, <1>2 DEF RInv, PurgeOK, CompletedIsClean
  <1>6. QED
    BY <1>3, <1>4, <1>5 DEF RInv

\* The row that a transaction creates.
LEMMA CommitRow ==
    ASSUME RInv, NEW a \in Articles, CommitCreate(a)
    PROVE  /\ row \in [Articles -> Row] /\ row' \in [Articles -> Row]
           /\ row[a].state = "none" /\ DayOf(now) \in Days
           /\ row'[a].state = "live" /\ row'[a].original = row[a].original
           /\ row'[a].at = creating[a] /\ row'[a].counted = DayOf(now)
           /\ \A b \in Articles \ {a} : row'[b] = row[b]
  <1> DEFINE day == DayOf(now)
             r1 == [row[a] EXCEPT !.state = "live", !.at = creating[a]]
             r2 == [r1 EXCEPT !.counted = day]
             r == [r2 EXCEPT !.rows["article_versions"] = 1]
  <1>1. /\ row \in [Articles -> Row] /\ row[a] \in Row /\ row[a].state = "none"
        /\ creating[a] \in 0 .. MaxTime /\ now \in 0 .. MaxTime
        /\ "article_versions" \in Dependents
    BY RetentionAssumption DEF RInv, TypeOK, OpenOK, CommitCreate
  <1>2. day \in Days
    BY <1>1, DayIsDay
  <1>3. row' = [row EXCEPT ![a] = r]
    BY Zenon DEF CommitCreate
  <1> HIDE DEF day
  <1>4. r1 \in Row /\ r1.state = "live" /\ r1.at = creating[a] /\ r1.original = row[a].original
    BY <1>1 DEF Row
  <1> HIDE DEF r1
  <1>5. /\ r2 \in Row /\ r2.state = "live" /\ r2.at = creating[a] /\ r2.original = row[a].original
        /\ r2.counted = day
    BY <1>2, <1>4 DEF Row
  <1> HIDE DEF r2
  <1>6. /\ r \in Row /\ r.state = "live" /\ r.at = creating[a] /\ r.original = row[a].original
        /\ r.counted = day
    BY <1>1, <1>5 DEF Row, Rows
  <1> HIDE DEF r
  <1>7. QED
    BY <1>1, <1>2, <1>3, <1>6 DEF day

\* What was created while a cycle ran is not older than its cutoff.
LEMMA CommitRInv ==
    ASSUME RInv, NEW a \in Articles, CommitCreate(a)
    PROVE  RInv'
  <1>1. /\ creating[a] # None /\ now - creating[a] <= Window
        /\ UNCHANGED <<now, raw, deleted, byLanguage, inCycle, onDay, missed, purge, faults>>
        /\ creating' = [creating EXCEPT ![a] = None]
    BY DEF CommitCreate, historyVars
  <1>2. /\ row \in [Articles -> Row] /\ row' \in [Articles -> Row] /\ row[a].state = "none"
        /\ row'[a].state = "live" /\ row'[a].at = creating[a]
        /\ row'[a].original = row[a].original
        /\ \A b \in Articles \ {a} : row'[b] = row[b]
    BY CommitRow
  <1>3. now \in 0 .. MaxTime /\ creating[a] \in 0 .. MaxTime
    BY <1>1, RetentionAssumption DEF RInv, TypeOK
  <1>4. created' \in [Days -> Nat]
    <2> DEFINE day == DayOf(now)
    <2>1. created' = [created EXCEPT ![day] = @ + 1]
      BY DEF CommitCreate
    <2>2. created \in [Days -> Nat] /\ day \in Days
      BY CommitRow DEF RInv, TypeOK
    <2> HIDE DEF day
    <2>3. created[day] + 1 \in Nat
      BY <2>2
    <2>4. QED
      BY <2>1, <2>2, <2>3
  <1>5. Live' = Live \cup {a} /\ Gone' = Gone
    BY <1>2 DEF Live, Gone
  <1>6. TypeOK'
    <2>1. creating' \in [Articles -> {None} \cup (0 .. now)]
      BY <1>1 DEF RInv, TypeOK
    <2>2. a \notin Live
      BY <1>2 DEF Live
    <2>3. \A b \in Live' : row'[b].original \in Live' \cup {None}
      BY <1>2, <1>5, <2>2 DEF RInv, TypeOK, Live
    <2>4. \A b \in Articles \ Live' : row'[b].rows = NoRows /\ row'[b].original = None
      BY <1>2, <1>5 DEF RInv, TypeOK
    <2>5. QED
      BY <1>1, <1>2, <1>4, <1>5, <2>1, <2>3, <2>4 DEF RInv, TypeOK
  <1>7. PagesKept' /\ OpenOK'
    BY <1>1, <1>2 DEF RInv, TypeOK, PagesKept, OpenOK
  <1>8. PurgeOK' /\ CompletedIsClean'
    <2>1. ASSUME purge.at # "rest"
          PROVE  ~(creating[a] < purge.cutoff)
      BY <1>1, <1>3, <2>1, RetentionAssumption DEF RInv, TypeOK, PurgeOK, Cycle
    <2>2. ASSUME purge.at # "rest"
          PROVE  Due' \subseteq Due
      BY <1>1, <1>2, <1>5, <2>1, <2>2 DEF Due, Live
    <2>3. QED
      BY <1>1, <1>5, <2>2 DEF RInv, PurgeOK, CompletedIsClean
  <1>9. QED
    BY <1>6, <1>7, <1>8 DEF RInv

\* A row that stays in its state, with its date.
LEMMA SameStates ==
    ASSUME RInv, UNCHANGED <<now, raw, creating, statVars, purge, faults>>,
           row' \in [Articles -> Row],
           \A a \in Articles : row'[a].state = row[a].state /\ row'[a].at = row[a].at,
           \A a \in Live : row'[a].original \in Live \cup {None},
           \A a \in Articles \ Live : row'[a].rows = NoRows /\ row'[a].original = None
    PROVE  RInv'
  <1>1. Live' = Live /\ Gone' = Gone
    BY DEF Live, Gone
  <1>2. Due' = Due
    BY <1>1 DEF Due, Live
  <1>3. TypeOK'
    BY <1>1 DEF RInv, TypeOK, statVars, historyVars
  <1>4. PagesKept' /\ OpenOK'
    BY DEF RInv, PagesKept, OpenOK
  <1>5. PurgeOK' /\ CompletedIsClean'
    BY <1>1, <1>2 DEF RInv, PurgeOK, CompletedIsClean
  <1>6. QED
    BY <1>3, <1>4, <1>5 DEF RInv

LEMMA AddRowRInv ==
    ASSUME RInv, NEW a \in Articles, NEW table \in Dependents, AddRow(a, table)
    PROVE  RInv'
  <1> DEFINE rows == [row[a].rows EXCEPT ![table] = @ + 1]
             r == [row[a] EXCEPT !.rows = rows]
  <1>1. a \in Live /\ row \in [Articles -> Row] /\ row[a] \in Row /\ rows \in Rows
    BY DEF RInv, TypeOK, AddRow, Row, Rows
  <1>2. row' = [row EXCEPT ![a] = r]
    BY <1>1 DEF AddRow, Row
  <1> HIDE DEF rows
  <1>3. r \in Row /\ r.state = row[a].state /\ r.at = row[a].at /\ r.original = row[a].original
    BY <1>1 DEF Row
  <1> HIDE DEF r
  <1>4. /\ UNCHANGED <<now, raw, creating, statVars, purge, faults>>
        /\ \A b \in Live : row[b].original \in Live \cup {None}
        /\ \A b \in Articles \ Live : row[b].rows = NoRows /\ row[b].original = None
    BY DEF RInv, TypeOK, AddRow
  <1>5. row' \in [Articles -> Row] /\ \A b \in Articles \ {a} : row'[b] = row[b]
    BY <1>1, <1>2, <1>3
  <1>6. row'[a] = r
    BY <1>1, <1>2
  <1>7. /\ \A b \in Articles : row'[b].state = row[b].state /\ row'[b].at = row[b].at
        /\ \A b \in Articles : row'[b].original = row[b].original
        /\ \A b \in Articles \ Live : row'[b] = row[b]
    BY <1>1, <1>3, <1>5, <1>6
  <1>8. QED
    BY <1>4, <1>5, <1>7, SameStates DEF Live

LEMMA MarkRInv ==
    ASSUME RInv, NEW a \in Articles, NEW b \in Articles, MarkDuplicate(a, b)
    PROVE  RInv'
  <1> DEFINE r == [row[a] EXCEPT !.original = b]
  <1>1. a \in Live /\ b \in Live /\ row \in [Articles -> Row] /\ row[a] \in Row
    BY DEF RInv, TypeOK, MarkDuplicate
  <1>2. row' = [row EXCEPT ![a] = r]
    BY <1>1 DEF MarkDuplicate
  <1>3. r \in Row /\ r.state = row[a].state /\ r.at = row[a].at /\ r.original = b
    BY <1>1 DEF Row
  <1> HIDE DEF r
  <1>4. /\ UNCHANGED <<now, raw, creating, statVars, purge, faults>>
        /\ \A c \in Live : row[c].original \in Live \cup {None}
        /\ \A c \in Articles \ Live : row[c].rows = NoRows /\ row[c].original = None
    BY DEF RInv, TypeOK, MarkDuplicate
  <1>5. row' \in [Articles -> Row] /\ \A c \in Articles \ {a} : row'[c] = row[c]
    BY <1>1, <1>2, <1>3
  <1>6. row'[a] = r
    BY <1>1, <1>2
  <1>7. /\ \A c \in Articles : row'[c].state = row[c].state /\ row'[c].at = row[c].at
        /\ \A c \in Live : row'[c].original \in {b, row[c].original}
        /\ \A c \in Articles \ Live : row'[c] = row[c]
    BY <1>1, <1>3, <1>5, <1>6 DEF Live
  <1>8. QED
    BY <1>1, <1>4, <1>5, <1>7, SameStates

LEMMA TickRInv ==
    ASSUME RInv, Tick
    PROVE  RInv'
  <1>1. now \in Nat /\ now' = now + 1 /\ now' \in 0 .. MaxTime
        /\ UNCHANGED <<row, raw, creating, statVars, purge, faults>>
    BY RetentionAssumption DEF RInv, TypeOK, Tick
  <1>2. Live' = Live /\ Gone' = Gone
    BY <1>1 DEF Live, Gone
  <1>3. Due' = Due
    BY <1>1, <1>2 DEF Due
  <1>4. TypeOK'
    <2>1. creating' \in [Articles -> {None} \cup (0 .. now')]
      BY <1>1 DEF RInv, TypeOK
    <2>2. QED
      BY <1>1, <1>2, <2>1 DEF RInv, TypeOK, statVars, historyVars
  <1>5. PagesKept' /\ OpenOK'
    BY <1>1 DEF RInv, PagesKept, OpenOK
  <1>6. PurgeOK' /\ CompletedIsClean'
    BY <1>1, <1>2, <1>3, RetentionAssumption
       DEF RInv, TypeOK, Cycle, PurgeOK, CompletedIsClean
  <1>7. QED
    BY <1>4, <1>5, <1>6 DEF RInv

-----------------------------------------------------------------------------
(* The invariant, and the theorems.                                        *)

LEMMA InitRInv == Init => RInv
  <1> SUFFICES ASSUME Init
               PROVE  RInv
    OBVIOUS
  <1>1. NoRow \in Row /\ NoRow.state = "none" /\ NoRow.original = None /\ NoRow.rows = NoRows
    BY DayIsDay, DivMono, RetentionAssumption DEF NoRow, Row, NoRows, Rows, Days
  <1>2. Live = {} /\ Gone = {}
    BY <1>1 DEF Init, Live, Gone
  <1>3. TypeOK
    BY <1>1, <1>2, RestIsCycle, RetentionAssumption DEF Init, TypeOK
  <1>4. PagesKept /\ OpenOK /\ PurgeOK /\ CompletedIsClean
    BY <1>1, RestIsCycle DEF Init, PagesKept, OpenOK, PurgeOK, CompletedIsClean
  <1>5. QED
    BY <1>3, <1>4 DEF RInv

LEMMA NextRInv == RInv /\ [Next]_vars => RInv'
  <1> SUFFICES ASSUME RInv, [Next]_vars
               PROVE  RInv'
    OBVIOUS
  <1>0. faults \in 0 .. MaxFaults /\ (Fault => faults' \in 0 .. MaxFaults)
    BY RetentionAssumption DEF RInv, TypeOK, Fault
  <1>1. CASE StartCycle \/ Sync \/ LastBatch \/ Unlink \/ Clear
    BY <1>1, StartRInv, SyncRInv, LastBatchRInv, UnlinkRInv, ClearRInv
  <1>2. CASE \E ids \in SUBSET Due : Select(ids)
    BY <1>2, SelectRInv
  <1>3. CASE Delete \/ (\E reached \in BOOLEAN : DeleteRaw(reached)) \/ Record
    BY <1>3, DeleteRInv, DeleteRawRInv, RecordRInv
  <1>4. CASE DeleteHeld
    BY <1>0, <1>4, FailedRInv DEF DeleteHeld, statVars, historyVars, RInv, TypeOK
  <1>5. CASE Writers
    BY <1>5, BeginRInv, CommitRInv, AddRowRInv, MarkRInv DEF Writers
  <1>6. CASE Failures
    <2>1. CASE StatementFails
      BY <1>0, <2>1, FailedRInv DEF StatementFails, statVars, historyVars, RInv, TypeOK
    <2>2. CASE RawRaises
      <3>1. purge.ids \subseteq Articles
        BY DEF RInv, TypeOK, Cycle
      <3>2. inCycle' \subseteq Articles /\ missed' \subseteq Articles
        BY <2>2, <3>1 DEF RawRaises, RInv, TypeOK
      <3>3. QED
        BY <1>0, <2>2, <3>2, FailedRInv DEF RawRaises
    <2>3. CASE ReplyLost
      BY <1>0, <2>3, ReplyLostRInv DEF ReplyLost
    <2>4. CASE RecordFails \/ Crash
      BY <1>0, <2>4, RestRInv DEF RecordFails, Crash, NoRecord, RInv, TypeOK
    <2>5. QED
      BY <1>6, <2>1, <2>2, <2>3, <2>4 DEF Failures
  <1>7. CASE Tick
    BY <1>7, TickRInv
  <1>8. CASE UNCHANGED vars
    <2>1. purge' \in Cycle /\ Live' = Live /\ Gone' = Gone /\ Due' = Due
      BY <1>8 DEF vars, RInv, TypeOK, Live, Gone, Due
    <2>2. PurgeOK' /\ CompletedIsClean'
      BY <1>8, <2>1 DEF vars, RInv, PurgeOK, CompletedIsClean
    <2>3. QED
      BY <1>8, <2>1, <2>2, PurgeStep DEF vars, statVars, historyVars, RInv, TypeOK
  <1>9. QED
    BY <1>1, <1>2, <1>3, <1>4, <1>5, <1>6, <1>7, <1>8 DEF Next, Cycles

LEMMA AlwaysRInv == Spec => []RInv
  BY InitRInv, NextRInv, PTL DEF Spec

\* Every variable has its type, and the references between the rows hold: TypeOK of
\* Retention, whatever fails and whenever the worker of the purge dies (retention.py).
THEOREM TypeCorrect == Spec => []TypeOK
  <1>1. RInv => TypeOK
    BY DEF RInv
  <1>2. QED
    BY <1>1, AlwaysRInv, PTL

\* No live article is ever without its raw page: retention.py removes the pages of a
\* batch after the batch is committed.
THEOREM LiveHaveRaw == Spec => []LiveHasRaw
  <1>1. RInv => LiveHasRaw
    BY DEF RInv, PagesKept, LiveHasRaw, Live
  <1>2. QED
    BY <1>1, AlwaysRInv, PTL

\* A cycle of purge_expired_articles that completes has left nothing behind that was
\* older than its cutoff, although the workers never stopped writing.
THEOREM CompletedLeavesNothing == Spec => []CompletedIsClean
  <1>1. RInv => CompletedIsClean
    BY DEF RInv
  <1>2. QED
    BY <1>1, AlwaysRInv, PTL

-----------------------------------------------------------------------------
(* The counters of the creations, day by day.  The lower bound is that no  *)
(* step lowers a counter; the upper one that a creation adds the article   *)
(* to its day with the same step that counts it, and that what the         *)
(* synchronisation counts was born on that day.                            *)

\* Sets of articles can be counted, and a part is no more than the whole.
LEMMA PartIsLess ==
    ASSUME NEW whole \in SUBSET Articles, NEW part \in SUBSET whole
    PROVE  /\ Cardinality(part) \in Nat /\ Cardinality(whole) \in Nat
           /\ Cardinality(part) <= Cardinality(whole)
  <1>1. IsFiniteSet(whole)
    BY FS_Subset, RetentionAssumption
  <1>2. QED
    BY <1>1, CountIsNat, FS_Subset

LEMMA OneMore ==
    ASSUME NEW part \in SUBSET Articles, NEW a \in Articles \ part
    PROVE  /\ Cardinality(part) \in Nat
           /\ Cardinality(part \cup {a}) = Cardinality(part) + 1
  <1>1. IsFiniteSet(part)
    BY FS_Subset, RetentionAssumption
  <1>2. QED
    BY <1>1, CountIsNat, FS_AddElement

\* Rows that stay what they are, but for what the counters do not look at.
LEMMA SameCounts ==
    ASSUME CreationsCountedOnce, UNCHANGED created, Ever' = Ever,
           \A a \in Ever : row'[a].counted = row[a].counted /\ row'[a].at = row[a].at
    PROVE  CreationsCountedOnce'
  <1>1. \A d \in Days : CountedOn(d)' = CountedOn(d) /\ BornOn(d)' = BornOn(d)
    BY DEF CountedOn, BornOn
  <1>2. QED
    BY <1>1 DEF CreationsCountedOnce

\* A creation adds the article to its day, and the day counts one more.
LEMMA CommitCounts ==
    ASSUME RInv, CreationsCountedOnce, NEW a \in Articles, CommitCreate(a)
    PROVE  CreationsCountedOnce'
  <1> DEFINE day == DayOf(now)
  <1>1. /\ row[a].state = "none" /\ day \in Days
        /\ row'[a].state = "live" /\ row'[a].counted = day
        /\ \A b \in Articles \ {a} : row'[b] = row[b]
    BY CommitRow
  <1>2. created' = [created EXCEPT ![day] = @ + 1] /\ created \in [Days -> Nat]
    BY DEF CommitCreate, RInv, TypeOK
  <1> HIDE DEF day
  <1>3. a \in Articles \ Ever /\ Ever' = Ever \cup {a} /\ Ever \subseteq Articles
    BY <1>1 DEF Ever, Live, Gone
  <1>4. SUFFICES ASSUME NEW d \in Days
                 PROVE  /\ Cardinality(CountedOn(d)') <= created'[d]
                        /\ created'[d] <= Cardinality(CountedOn(d)' \cup BornOn(d)')
    BY DEF CreationsCountedOnce
  <1>5. /\ Cardinality(CountedOn(d)) <= created[d]
        /\ created[d] <= Cardinality(CountedOn(d) \cup BornOn(d))
    BY DEF CreationsCountedOnce
  <1>6. /\ CountedOn(d) \subseteq Ever /\ BornOn(d) \subseteq Ever
        /\ CountedOn(d)' = IF d = day THEN CountedOn(d) \cup {a} ELSE CountedOn(d)
        /\ BornOn(d) \subseteq BornOn(d)' /\ BornOn(d)' \subseteq Ever \cup {a}
    BY <1>1, <1>3 DEF CountedOn, BornOn
  <1> DEFINE all == CountedOn(d) \cup BornOn(d)
             next == CountedOn(d)' \cup BornOn(d)'
  <1>7. all \subseteq Articles /\ a \notin all /\ next \subseteq Articles /\ a \notin CountedOn(d)
    BY <1>3, <1>6
  <1>8. CASE d = day
    <2>1. CountedOn(d)' = CountedOn(d) \cup {a} /\ all \cup {a} \subseteq next
      BY <1>6, <1>8
    <2>2. created'[d] = created[d] + 1 /\ created[d] \in Nat
      BY <1>2, <1>8
    <2> HIDE DEF all, next
    <2>3. /\ Cardinality(all) \in Nat /\ Cardinality(all \cup {a}) = Cardinality(all) + 1
          /\ Cardinality(all \cup {a}) <= Cardinality(next) /\ Cardinality(next) \in Nat
      BY <1>7, <2>1, OneMore, PartIsLess
    <2>4. /\ Cardinality(CountedOn(d)) \in Nat
          /\ Cardinality(CountedOn(d) \cup {a}) = Cardinality(CountedOn(d)) + 1
      BY <1>3, <1>6, <1>7, OneMore
    <2>5. created[d] <= Cardinality(all)
      BY <1>5 DEF all
    <2>6. Cardinality(CountedOn(d)') = Cardinality(CountedOn(d)) + 1
      BY <2>1, <2>4
    <2>7. Cardinality(CountedOn(d)') <= created'[d] /\ created'[d] <= Cardinality(next)
      BY <1>5, <2>2, <2>3, <2>4, <2>5, <2>6
    <2>8. QED
      BY <2>7 DEF next
  <1>9. CASE d # day
    <2>1. CountedOn(d)' = CountedOn(d) /\ all \subseteq next /\ created'[d] = created[d]
      BY <1>2, <1>6, <1>9
    <2>2. created[d] \in Nat
      BY <1>2
    <2> HIDE DEF all, next
    <2>3. /\ Cardinality(all) \in Nat /\ Cardinality(next) \in Nat
          /\ Cardinality(all) <= Cardinality(next)
      BY <1>7, <2>1, PartIsLess
    <2>4. created[d] <= Cardinality(all)
      BY <1>5 DEF all
    <2>5. created'[d] <= Cardinality(next)
      BY <2>1, <2>2, <2>3, <2>4
    <2>6. QED
      BY <1>5, <2>1, <2>5 DEF next
  <1>10. QED
    BY <1>8, <1>9

\* The synchronisation only raises a counter to what the day has.
LEMMA SyncCounts ==
    ASSUME RInv, CreationsCountedOnce, Sync
    PROVE  CreationsCountedOnce'
  <1>1. /\ created' = [d \in Days |-> Larger(created[d], Cardinality(LiveOn(d)))]
        /\ created \in [Days -> Nat] /\ UNCHANGED row
    BY DEF Sync, RInv, TypeOK
  <1>2. SUFFICES ASSUME NEW d \in Days
                 PROVE  /\ Cardinality(CountedOn(d)) <= created'[d]
                        /\ created'[d] <= Cardinality(CountedOn(d) \cup BornOn(d))
    BY <1>1 DEF CreationsCountedOnce, CountedOn, BornOn, Ever, Live, Gone
  <1> DEFINE live == LiveOn(d)
             all == CountedOn(d) \cup BornOn(d)
  <1>3. /\ Cardinality(CountedOn(d)) <= created[d] /\ created[d] <= Cardinality(all)
        /\ created[d] \in Nat
    BY <1>1 DEF CreationsCountedOnce
  <1>4. live \subseteq all /\ all \subseteq Articles /\ CountedOn(d) \subseteq Articles
    BY DEF LiveOn, CountedOn, BornOn, Ever, Live, Gone
  <1>5. created'[d] = Larger(created[d], Cardinality(live))
    BY <1>1
  <1> HIDE DEF live, all
  <1>6. /\ Cardinality(live) \in Nat /\ Cardinality(all) \in Nat
        /\ Cardinality(live) <= Cardinality(all) /\ Cardinality(CountedOn(d)) \in Nat
    BY <1>4, PartIsLess, CountIsNat
  <1>7. Cardinality(CountedOn(d)) <= created'[d] /\ created'[d] <= Cardinality(all)
    BY <1>3, <1>5, <1>6 DEF Larger
  <1>8. QED
    BY <1>7 DEF all

\* A deleted article is still one that was created on its day.
LEMMA DeleteCounts ==
    ASSUME RInv, CreationsCountedOnce, Delete \/ ReplyLost
    PROVE  CreationsCountedOnce'
  <1>1. /\ row \in [Articles -> Row] /\ purge.ids \subseteq Live /\ UNCHANGED created
        /\ row' = [a \in Articles |->
                     IF a \in purge.ids
                     THEN [row[a] EXCEPT !.state = "gone", !.rows = NoRows, !.original = None]
                     ELSE IF a \in purge.freed THEN [row[a] EXCEPT !.original = None]
                     ELSE row[a]]
    BY DEF Delete, ReplyLost, Without, RInv, TypeOK
  <1>2. \A a \in Articles : row'[a].counted = row[a].counted /\ row'[a].at = row[a].at
    BY <1>1 DEF Row
  <1>3. \A a \in Articles : IF a \in purge.ids THEN row'[a].state = "gone"
                            ELSE row'[a].state = row[a].state
    BY <1>1 DEF Row
  <1>4. Ever' = Ever
    BY <1>1, <1>3 DEF Ever, Live, Gone
  <1>5. QED
    BY <1>1, <1>2, <1>4, SameCounts DEF Ever, Live, Gone

\* The writers of rows do not touch what is counted.
LEMMA RowsCounts ==
    ASSUME RInv, CreationsCountedOnce, NEW a \in Articles,
           \/ \E table \in Dependents : AddRow(a, table)
           \/ \E b \in Articles : MarkDuplicate(a, b)
    PROVE  CreationsCountedOnce'
  <1>1. row \in [Articles -> Row] /\ UNCHANGED created
    BY DEF RInv, TypeOK, AddRow, MarkDuplicate, statVars, historyVars
  <1>2. \A b \in Articles : /\ row'[b].counted = row[b].counted /\ row'[b].at = row[b].at
                            /\ row'[b].state = row[b].state
    <2>1. ASSUME NEW table \in Dependents, AddRow(a, table)
          PROVE  row' = [row EXCEPT ![a] = [row[a] EXCEPT !.rows = row'[a].rows]]
      BY <1>1, <2>1 DEF AddRow, Row, Rows
    <2>2. ASSUME NEW b \in Articles, MarkDuplicate(a, b)
          PROVE  row' = [row EXCEPT ![a] = [row[a] EXCEPT !.original = b]]
      BY <1>1, <2>2 DEF MarkDuplicate, Row
    <2>3. QED
      BY <1>1, <2>1, <2>2 DEF Row
  <1>3. Ever' = Ever
    BY <1>2 DEF Ever, Live, Gone
  <1>4. QED
    BY <1>1, <1>2, <1>3, SameCounts DEF Ever, Live, Gone

LEMMA NextCounts == RInv /\ CreationsCountedOnce /\ [Next]_vars => CreationsCountedOnce'
  <1> SUFFICES ASSUME RInv, CreationsCountedOnce, [Next]_vars
               PROVE  CreationsCountedOnce'
    OBVIOUS
  <1>1. CASE \E a \in Articles : CommitCreate(a)
    BY <1>1, CommitCounts
  <1>2. CASE Sync \/ Delete \/ ReplyLost
    BY <1>2, SyncCounts, DeleteCounts
  <1>3. CASE \E a \in Articles : \/ \E table \in Dependents : AddRow(a, table)
                                 \/ \E b \in Articles : MarkDuplicate(a, b)
    BY <1>3, RowsCounts
  <1>4. CASE UNCHANGED <<row, created>>
    BY <1>4 DEF CreationsCountedOnce, CountedOn, BornOn, Ever, Live, Gone
  <1>5. QED
    BY <1>1, <1>2, <1>3, <1>4
       DEF Next, Cycles, Writers, StartCycle, Select, LastBatch, Unlink, Clear, DeleteHeld,
           DeleteRaw, Record, BeginCreate, Failures, StatementFails, RawRaises, RecordFails,
           Crash, NoRecord, Tick, statVars, vars

\* No creation is lost from the counter of its day or counted twice on it, however
\* transactions straddle midnight and whatever the purge has deleted since: the part of
\* CountedOnce that article_daily_stats.py answers for.
THEOREM CreationsAlwaysCounted == Spec => []CreationsCountedOnce
  <1>1. Init => CreationsCountedOnce
    <2>1. ASSUME Init
          PROVE  Ever = {} /\ \A d \in Days : created[d] = 0
      BY <2>1 DEF Init, NoRow, Ever, Live, Gone
    <2>2. QED
      BY <2>1, FS_EmptySet DEF CreationsCountedOnce, CountedOn, BornOn
  <1>2. QED
    BY <1>1, NextCounts, AlwaysRInv, PTL DEF Spec

-----------------------------------------------------------------------------
(* The counters of the deletions.  The total of the cycle is what the      *)
(* cycle has deleted, and its record moves that to the rollup of the day.  *)

\* A cycle starts with nothing counted; a batch that is deleted is to be recorded.
RestOK ==
    /\ purge.at = "rest" => purge.total = 0
    /\ purge.at = "raw" => purge.ids \subseteq inCycle

\* Both parts of what a day or a cycle counts, when the parts have nothing in common.
LEMMA BothParts ==
    ASSUME NEW s \in SUBSET Articles, NEW t \in SUBSET Articles, s \cap t = {}
    PROVE  /\ Cardinality(s \cup t) = Cardinality(s) + Cardinality(t)
           /\ Cardinality(s) \in Nat /\ Cardinality(t) \in Nat
  <1>1. IsFiniteSet(s) /\ IsFiniteSet(t)
    BY FS_Subset, RetentionAssumption
  <1>2. Cardinality(s \cup t) = Cardinality(s) + Cardinality(t) - Cardinality(s \cap t)
    BY <1>1, FS_Union
  <1>3. Cardinality(s \cap t) = 0
    BY FS_EmptySet
  <1>4. QED
    BY <1>2, <1>3, CountIsNat

\* Steps that neither delete nor record.
LEMMA SameDeletions ==
    ASSUME RInv, DeletionsCountedOnce, UNCHANGED <<deleted, historyVars>>,
           Gone' = Gone, Running' = Running
    PROVE  DeletionsCountedOnce'
  <1>1. inCycle' = inCycle /\ onDay' = onDay /\ missed' = missed /\ deleted' = deleted
    BY DEF historyVars
  <1>2. Counted' = Counted
    BY <1>1 DEF Counted
  <1>3. QED
    BY <1>1, <1>2 DEF DeletionsCountedOnce

\* None of a batch was counted or missed before, because it was still there.
LEMMA BatchIsNew ==
    ASSUME RInv, DeletionsCountedOnce, purge.at = "delete",
           row' = Without(purge.ids, purge.freed)
    PROVE  /\ purge.ids \subseteq Articles /\ Gone' = Gone \cup purge.ids
           /\ purge.ids \cap Counted = {} /\ purge.ids \cap missed = {}
           /\ inCycle \subseteq Counted /\ \A d \in Days : onDay[d] \subseteq Counted
           /\ purge.total = Cardinality(inCycle) /\ purge.total \in Nat
  <1> DEFINE ids == purge.ids
  <1>1. /\ row \in [Articles -> Row] /\ ids \subseteq Live /\ ids \subseteq Articles
        /\ purge \in Cycle /\ purge.total \in Nat
    BY DEF RInv, TypeOK, Cycle
  <1>2. \A a \in Articles : row'[a].state = IF a \in ids THEN "gone" ELSE row[a].state
    BY <1>1 DEF Without, Row
  <1>3. Gone' = Gone \cup ids /\ ids \cap Gone = {}
    BY <1>1, <1>2 DEF Gone, Live
  <1>4. ids \cap Counted = {} /\ ids \cap missed = {}
    BY <1>3 DEF DeletionsCountedOnce
  <1>5. purge.total = Cardinality(inCycle)
    BY <1>1 DEF DeletionsCountedOnce, Running
  <1>6. QED
    BY <1>1, <1>3, <1>4, <1>5 DEF Counted

\* A batch that is deleted joins the total of the cycle.
LEMMA DeleteDeletions ==
    ASSUME RInv, DeletionsCountedOnce, Delete
    PROVE  DeletionsCountedOnce'
  <1> DEFINE ids == purge.ids
  <1>1. /\ purge.at = "delete" /\ purge \in Cycle /\ missed' = missed
        /\ inCycle' = inCycle \cup ids /\ onDay' = onDay /\ deleted' = deleted
        /\ row' = Without(ids, purge.freed) /\ inCycle \subseteq Articles
    BY DEF Delete, RInv, TypeOK
  <1>2. /\ ids \subseteq Articles /\ Gone' = Gone \cup ids
        /\ ids \cap Counted = {} /\ ids \cap missed = {}
        /\ inCycle \subseteq Counted /\ \A d \in Days : onDay[d] \subseteq Counted
        /\ purge.total = Cardinality(inCycle)
    BY <1>1, BatchIsNew
  <1>3. purge'.at = "raw" /\ purge'.ids = ids /\ purge'.total = purge.total
    BY <1>1 DEF Delete, Cycle
  <1>4. Counted' = Counted \cup ids
    BY <1>1 DEF Counted
  <1>5. Running' = Cardinality(inCycle')
    <2>1. Cardinality(inCycle \cup ids) = Cardinality(inCycle) + Cardinality(ids)
      BY <1>1, <1>2, BothParts
    <2>2. QED
      BY <1>1, <1>2, <1>3, <2>1 DEF Running
  <1>6. \A d \in Days : onDay'[d] \cap inCycle' = {}
    BY <1>1, <1>2 DEF DeletionsCountedOnce
  <1>7. QED
    BY <1>1, <1>2, <1>4, <1>5, <1>6 DEF DeletionsCountedOnce

\* One whose commit is not acknowledged is missed.
LEMMA ReplyLostDeletions ==
    ASSUME RInv, DeletionsCountedOnce, ReplyLost
    PROVE  DeletionsCountedOnce'
  <1>1. /\ purge.at = "delete" /\ missed' = missed \cup purge.ids /\ purge' = Failed
        /\ inCycle' = inCycle /\ onDay' = onDay /\ deleted' = deleted
        /\ row' = Without(purge.ids, purge.freed)
    BY DEF ReplyLost
  <1>2. Counted' = Counted
    BY <1>1 DEF Counted
  <1>3. Running' = Cardinality(inCycle')
    BY <1>1, BatchIsNew, FailedIsCycle DEF Running
  <1>4. QED
    BY <1>1, <1>2, <1>3, BatchIsNew DEF DeletionsCountedOnce

\* One that raised before it was counted is missed too.
LEMMA RawRaisesDeletions ==
    ASSUME RInv, RestOK, DeletionsCountedOnce, RawRaises
    PROVE  DeletionsCountedOnce'
  <1> DEFINE ids == purge.ids
             rest == inCycle \ ids
  <1>1. /\ purge.at = "raw" /\ missed' = missed \cup ids /\ purge' = Failed
        /\ inCycle' = rest /\ onDay' = onDay /\ deleted' = deleted /\ row' = row
        /\ ids \subseteq inCycle /\ inCycle \subseteq Articles /\ purge.total \in Nat
    BY DEF RawRaises, RestOK, RInv, TypeOK, Cycle
  <1>2. Gone' = Gone
    BY <1>1 DEF Gone
  <1>3. \A d \in Days : onDay[d] \cap inCycle = {}
    BY DEF DeletionsCountedOnce
  <1>4. Counted' = Counted \ ids /\ ids \subseteq Counted
    BY <1>1, <1>3 DEF Counted
  <1>5. Running' = Cardinality(inCycle')
    <2>1. rest \cup ids = inCycle /\ rest \cap ids = {}
      BY <1>1
    <2>2. /\ Cardinality(rest \cup ids) = Cardinality(rest) + Cardinality(ids)
          /\ Cardinality(rest) \in Nat /\ Cardinality(ids) \in Nat
      BY <1>1, <2>1, BothParts
    <2>3. purge.total + Cardinality(ids) = Cardinality(inCycle)
      BY <1>1 DEF DeletionsCountedOnce, Running
    <2>4. purge.total = Cardinality(rest)
      BY <1>1, <2>1, <2>2, <2>3
    <2>5. QED
      BY <1>1, <2>4, FailedIsCycle DEF Running
  <1>6. \A d \in Days : onDay'[d] \cap inCycle' = {}
    BY <1>1, <1>3
  <1>7. QED
    BY <1>1, <1>2, <1>4, <1>5, <1>6 DEF DeletionsCountedOnce

\* The record adds what the cycle has deleted to its day, where none of it is yet.
LEMMA RecordDeletions ==
    ASSUME RInv, DeletionsCountedOnce, Record
    PROVE  DeletionsCountedOnce'
  <1> DEFINE day == DayOf(now)
  <1>1. /\ day \in Days /\ purge.total = Cardinality(inCycle)
        /\ inCycle' = {} /\ onDay' = [onDay EXCEPT ![day] = @ \cup inCycle]
        /\ deleted' = [deleted EXCEPT ![day] = @ + purge.total]
        /\ purge' = Rest /\ row' = row /\ missed' = missed
        /\ deleted \in [Days -> Nat] /\ onDay \in [Days -> SUBSET Articles]
        /\ inCycle \subseteq Articles
    <2>1. day \in Days
      BY DayIsDay DEF RInv, TypeOK
    <2>2. purge.total = Cardinality(inCycle)
      <3>1. Running = purge.total
        BY DEF Record, Running, RInv, TypeOK, Cycle
      <3>2. QED
        BY <3>1 DEF DeletionsCountedOnce
    <2> HIDE DEF day
    <2>3. /\ onDay' = [onDay EXCEPT ![day] = @ \cup inCycle]
          /\ deleted' = [deleted EXCEPT ![day] = @ + purge.total]
      BY DEF Record, day
    <2>4. QED
      BY <2>1, <2>2, <2>3 DEF Record, RInv, TypeOK
  <1> HIDE DEF day
  <1>2. /\ onDay'[day] = onDay[day] \cup inCycle /\ onDay[day] \cap inCycle = {}
        /\ \A d \in Days \ {day} : onDay'[d] = onDay[d] /\ deleted'[d] = deleted[d]
        /\ deleted'[day] = deleted[day] + Cardinality(inCycle)
    BY <1>1 DEF DeletionsCountedOnce
  <1>3. Running' = Cardinality(inCycle')
    BY <1>1, FS_EmptySet DEF Running, Rest
  <1>4. deleted'[day] = Cardinality(onDay'[day])
    <2>1. onDay[day] \subseteq Articles /\ deleted[day] = Cardinality(onDay[day])
      BY <1>1 DEF DeletionsCountedOnce
    <2>2. QED
      BY <1>1, <1>2, <2>1, BothParts
  <1>5. \A d \in Days : deleted'[d] = Cardinality(onDay'[d]) /\ onDay'[d] \cap inCycle' = {}
    BY <1>1, <1>2, <1>4 DEF DeletionsCountedOnce
  <1>6. \A d, e \in Days : d # e => onDay'[d] \cap onDay'[e] = {}
    BY <1>1, <1>2 DEF DeletionsCountedOnce
  <1>7. Counted' = Counted /\ Gone' = Gone
    BY <1>1, <1>2 DEF Counted, Gone
  <1>8. QED
    BY <1>1, <1>3, <1>5, <1>6, <1>7 DEF DeletionsCountedOnce

\* A cycle that dies, or is not recorded, is in no rollup.
LEMMA LostDeletions ==
    ASSUME RInv, DeletionsCountedOnce, RecordFails \/ Crash
    PROVE  DeletionsCountedOnce'
  <1>1. /\ purge' = Rest /\ inCycle' = {} /\ onDay' = onDay /\ deleted' = deleted
        /\ row' = row /\ missed' = missed \cup inCycle
    BY DEF RecordFails, Crash, NoRecord
  <1>2. Running' = Cardinality(inCycle')
    BY <1>1, FS_EmptySet DEF Running, Rest
  <1>3. \A d \in Days : onDay[d] \cap inCycle = {}
    BY DEF DeletionsCountedOnce
  <1>4. Counted' = Counted \ inCycle /\ inCycle \subseteq Counted /\ Gone' = Gone
    BY <1>1, <1>3 DEF Counted, Gone
  <1>5. QED
    BY <1>1, <1>2, <1>4 DEF DeletionsCountedOnce

\* The steps of the cycle that leave its total and its batches as they are.
LEMMA CycleDeletions ==
    ASSUME RInv, RestOK, DeletionsCountedOnce,
           \/ StartCycle \/ Sync \/ LastBatch \/ Unlink \/ Clear \/ DeleteHeld \/ StatementFails
           \/ \E ids \in SUBSET Due : Select(ids)
           \/ \E reached \in BOOLEAN : DeleteRaw(reached)
    PROVE  DeletionsCountedOnce'
  <1>1. /\ row' = row /\ inCycle' = inCycle /\ onDay' = onDay /\ deleted' = deleted
        /\ missed' = missed
    BY Zenon DEF StartCycle, Sync, LastBatch, Unlink, Clear, DeleteHeld, StatementFails, Select,
                 DeleteRaw, statVars, historyVars
  <1>2. Gone' = Gone
    BY <1>1 DEF Gone
  <1>3. purge \in Cycle /\ purge.total \in Nat /\ Cardinality(purge.ids) \in Nat
    BY CountIsNat DEF RInv, TypeOK, Cycle
  <1>4. Running' = Running
    <2>1. CASE StartCycle
      BY <2>1 DEF StartCycle, Rest, RestOK, Running
    <2>2. CASE Sync \/ LastBatch \/ Unlink \/ \E ids \in SUBSET Due : Select(ids)
      <3>1. /\ purge'.at # "raw" /\ purge.at # "raw" /\ purge'.total = purge.total
        BY <1>3, <2>2 DEF Sync, LastBatch, Unlink, Select, Cycle
      <3>2. QED
        BY <3>1 DEF Running
    <2>3. CASE Clear
      <3>1. /\ purge'.at # "raw" /\ purge.at # "raw" /\ purge'.total = purge.total
        BY <1>3, <2>3 DEF Clear, Cycle
      <3>2. QED
        BY <3>1 DEF Running
    <2>4. CASE DeleteHeld \/ StatementFails
      <3>1. /\ purge'.at # "raw" /\ purge.at # "raw" /\ purge'.total = purge.total
        BY <1>3, <2>4 DEF DeleteHeld, StatementFails, Failed, Cycle
      <3>2. QED
        BY <3>1 DEF Running
    <2>5. CASE \E reached \in BOOLEAN : DeleteRaw(reached)
      <3>1. /\ purge.at = "raw" /\ purge'.at = "select"
            /\ purge'.total = purge.total + Cardinality(purge.ids)
        BY <1>3, <2>5 DEF DeleteRaw, Cycle
      <3>2. QED
        BY <1>3, <3>1 DEF Running
    <2>6. QED
      BY <2>1, <2>2, <2>3, <2>4, <2>5
  <1>5. QED
    BY <1>1, <1>2, <1>4, SameDeletions DEF historyVars

\* The other workers delete nothing.
LEMMA WritersDeletions ==
    ASSUME RInv, DeletionsCountedOnce, Writers
    PROVE  DeletionsCountedOnce'
  <1>1. /\ purge' = purge /\ row \in [Articles -> Row]
        /\ UNCHANGED <<deleted, historyVars>>
    BY DEF Writers, BeginCreate, CommitCreate, AddRow, MarkDuplicate, statVars, RInv, TypeOK
  <1>2. Gone' = Gone
    <2>1. ASSUME NEW a \in Articles, BeginCreate(a)
          PROVE  Gone' = Gone
      BY <2>1 DEF BeginCreate, Gone
    <2>2. ASSUME NEW a \in Articles, CommitCreate(a)
          PROVE  Gone' = Gone
      BY <2>2, CommitRow DEF Gone
    <2>3. ASSUME NEW a \in Articles, NEW table \in Dependents, AddRow(a, table)
          PROVE  Gone' = Gone
      <3>1. row' = [row EXCEPT ![a] = [row[a] EXCEPT !.rows = row'[a].rows]]
        BY <1>1, <2>3 DEF AddRow, Row, Rows
      <3>2. \A b \in Articles : row'[b].state = row[b].state
        BY <1>1, <3>1 DEF Row
      <3>3. QED
        BY <3>2 DEF Gone
    <2>4. ASSUME NEW a \in Articles, NEW b \in Articles, MarkDuplicate(a, b)
          PROVE  Gone' = Gone
      <3>1. \A c \in Articles : row'[c].state = row[c].state
        BY <1>1, <2>4 DEF MarkDuplicate, Row
      <3>2. QED
        BY <3>1 DEF Gone
    <2>5. QED
      BY <2>1, <2>2, <2>3, <2>4 DEF Writers
  <1>3. QED
    BY <1>1, <1>2, SameDeletions DEF Running

LEMMA NextRest == RInv /\ RestOK /\ [Next]_vars => RestOK'
  <1> SUFFICES ASSUME RInv, RestOK, [Next]_vars
               PROVE  RestOK'
    OBVIOUS
  <1>1. CASE Record \/ RecordFails \/ Crash
    BY <1>1 DEF Record, RecordFails, Crash, NoRecord, Rest, RestOK
  <1>2. CASE UNCHANGED <<purge, inCycle>>
    BY <1>2 DEF RestOK
  <1>3. purge \in Cycle
    BY DEF RInv, TypeOK
  <1>4. CASE StartCycle \/ Sync \/ LastBatch \/ Unlink
    BY <1>3, <1>4 DEF StartCycle, Sync, LastBatch, Unlink, Rest, Cycle, RestOK
  <1>5. CASE DeleteHeld \/ StatementFails \/ RawRaises \/ ReplyLost
    BY <1>5, FailedIsCycle DEF DeleteHeld, StatementFails, RawRaises, ReplyLost, RestOK
  <1>6. CASE Clear
    BY <1>3, <1>6 DEF Clear, Cycle, RestOK
  <1>7. CASE Delete
    BY <1>3, <1>7 DEF Delete, Cycle, RestOK
  <1>8. CASE \/ \E ids \in SUBSET Due : Select(ids)
             \/ \E reached \in BOOLEAN : DeleteRaw(reached)
    BY <1>3, <1>8 DEF Select, DeleteRaw, Cycle, RestOK
  <1>9. QED
    BY <1>1, <1>2, <1>4, <1>5, <1>6, <1>7, <1>8
       DEF Next, Cycles, Failures, Writers, BeginCreate, CommitCreate, AddRow, MarkDuplicate,
           Tick, vars, statVars, historyVars

LEMMA NextDeletions ==
    RInv /\ RestOK /\ DeletionsCountedOnce /\ [Next]_vars => DeletionsCountedOnce'
  <1> SUFFICES ASSUME RInv, RestOK, DeletionsCountedOnce, [Next]_vars
               PROVE  DeletionsCountedOnce'
    OBVIOUS
  <1>1. CASE Delete \/ ReplyLost \/ RawRaises \/ Record \/ RecordFails \/ Crash
    BY <1>1, DeleteDeletions, ReplyLostDeletions, RawRaisesDeletions, RecordDeletions,
       LostDeletions
  <1>2. CASE Writers
    BY <1>2, WritersDeletions
  <1>3. CASE Tick \/ UNCHANGED vars
    <2>1. UNCHANGED <<row, purge, deleted, historyVars>>
      BY <1>3 DEF Tick, vars, statVars
    <2>2. QED
      BY <2>1, SameDeletions DEF Gone, Running
  <1>4. CASE \/ StartCycle \/ Sync \/ LastBatch \/ Unlink \/ Clear \/ DeleteHeld
             \/ StatementFails
             \/ \E ids \in SUBSET Due : Select(ids)
             \/ \E reached \in BOOLEAN : DeleteRaw(reached)
    BY <1>4, CycleDeletions
  <1>5. QED
    BY <1>1, <1>2, <1>3, <1>4 DEF Next, Cycles, Failures

\* No deletion is in two rollups or twice in one, and none is left out but by a cycle
\* that is not recorded or an exception between a commit and its count (retention.py:166
\* to 172), whatever else is written meanwhile; with CreationsAlwaysCounted, all that
\* CountedOnce says of the counters.
THEOREM AlwaysCountedOnce == Spec => []CountedOnce
  <1>1. Init => RestOK /\ DeletionsCountedOnce
    <2> SUFFICES ASSUME Init
                 PROVE  RestOK /\ DeletionsCountedOnce
      OBVIOUS
    <2>1. /\ purge.total = 0 /\ purge.at = "rest" /\ inCycle = {} /\ missed = {}
          /\ \A d \in Days : onDay[d] = {} /\ deleted[d] = 0
      BY DEF Init, Rest
    <2>2. Counted = {} /\ Gone = {}
      BY <2>1 DEF Counted, Gone, Init, NoRow
    <2>3. QED
      BY <2>1, <2>2, FS_EmptySet DEF RestOK, DeletionsCountedOnce, Running
  <1>2. Spec => []DeletionsCountedOnce
    BY <1>1, NextRest, NextDeletions, AlwaysRInv, PTL DEF Spec
  <1>3. DeletionsCountedOnce /\ CreationsCountedOnce => CountedOnce
    BY DEF CountedOnce
  <1>4. QED
    BY <1>2, <1>3, CreationsAlwaysCounted, PTL
=============================================================================
