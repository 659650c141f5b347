--------------------------- MODULE StreamQueueProofs ---------------------------
(***************************************************************************)
(* Theorems about StreamQueue, for any number of workers and messages, any *)
(* batch size, attempts and delays, any interleaving of their commands,    *)
(* and workers that die between any two of them.                           *)
(***************************************************************************)
EXTENDS StreamQueue, FiniteSetTheorems, TLAPS

CrashNext == Next \/ Crashes

-----------------------------------------------------------------------------
(* Lemmas about the operators of the model.                                *)

\* The backoff of a retry is within the bound of the delayed set.
LEMMA Backoff ==
    ASSUME NEW a \in Attempts
    PROVE  RetryDelay * a \in 0 .. RetryDelay * MaxAttempts
  <1>1. a \in Nat /\ MaxAttempts \in Nat /\ RetryDelay \in Nat /\ MaxAttempts - a \in Nat
    BY QueueAssumption DEF Attempts
  <1>2. RetryDelay * (MaxAttempts - a) \in Nat /\ RetryDelay * a \in Nat
    BY <1>1
  <1>3. RetryDelay * MaxAttempts = RetryDelay * a + RetryDelay * (MaxAttempts - a)
    BY <1>1
  <1>4. QED
    BY <1>1, <1>2, <1>3

\* A published entry leaves the others where they are.
LEMMA Appended ==
    ASSUME entries \in Seq(Entry), NEW e \in Entry, entries' = Append(entries, e)
    PROVE  /\ entries' \in Seq(Entry)
           /\ Len(entries) \in Nat /\ Len(entries') = Len(entries) + 1
           /\ \A i \in 1 .. Len(entries) : entries'[i] = entries[i]
           /\ entries'[Len(entries) + 1] = e
  OBVIOUS

\* Only one message of a batch is the one the worker is at.
LEMMA OneAt ==
    ASSUME TypeOK, NEW c \in Consumers, NEW i, NEW j, At(c, i), At(c, j)
    PROVE  i = j
  <1>1. i \in Nat /\ j \in Nat
    BY DEF TypeOK, At
  <1>2. QED
    BY <1>1 DEF At

\* A batch is finite, and a part of it is no larger.
LEMMA SmallerHand ==
    ASSUME TypeOK, NEW c \in Consumers, NEW part \in SUBSET hand[c]
    PROVE  /\ IsFiniteSet(part) /\ Cardinality(part) \in Nat
           /\ Cardinality(part) <= Cardinality(hand[c])
           /\ Cardinality(part) <= Batch + 1
  <1>1. IsFiniteSet(1 .. read)
    <2>1. read \in Int /\ 1 \in Int
      BY DEF TypeOK
    <2>2. QED
      BY <2>1, FS_Interval
  <1>2. hand[c] \in SUBSET (1 .. read)
    BY DEF TypeOK
  <1>3. IsFiniteSet(hand[c])
    BY <1>1, <1>2, FS_Subset
  <1>4. IsFiniteSet(part) /\ Cardinality(part) <= Cardinality(hand[c])
    BY <1>3, FS_Subset
  <1>5. Cardinality(part) \in Nat /\ Cardinality(hand[c]) \in Nat
    BY <1>3, <1>4, FS_CardinalityType
  <1>6. QED
    BY <1>4, <1>5, QueueAssumption DEF TypeOK

-----------------------------------------------------------------------------
(* Type correctness.  It needs that every copy is of a published message,  *)
(* and that a worker comes to a new batch with nothing in hand.            *)

Known ==
    /\ \A i \in Ids : entries[i].payload \in published
    /\ \A e \in delayed : e.payload \in published
    /\ \A c \in Consumers : carry[c] # None => carry[c].payload \in published
    /\ \A d \in dead : d.payload \in published

HandsOK ==
    \A c \in Consumers :
        /\ step[c] \in {"scan", "pump", "claim"} => hand[c] = {}
        /\ step[c] = "consume" => Cardinality(hand[c]) <= Batch

TInv == TypeOK /\ Known /\ HandsOK

LEMMA InitTInv == Init => TInv
  <1> SUFFICES ASSUME Init
               PROVE  TInv
    OBVIOUS
  <1>1. entries = <<>> /\ Len(entries) = 0 /\ entries \in Seq(Entry)
    BY DEF Init
  <1>2. Cardinality({}) = 0
    BY FS_EmptySet
  <1>3. DOMAIN pel = {} /\ pel \in [DOMAIN pel -> Pending]
    BY DEF Init
  <1>4. TypeOK
    BY <1>1, <1>2, <1>3, QueueAssumption DEF Init, TypeOK, Steps
  <1>5. Known /\ HandsOK
    BY <1>1, <1>2, QueueAssumption DEF Init, Known, HandsOK, Ids
  <1>6. QED
    BY <1>4, <1>5 DEF TInv

LEMMA PublishTInv ==
    ASSUME TInv, NEW p \in Payloads, Publish(p)
    PROVE  TInv'
  <1> DEFINE e == [payload |-> p, attempt |-> 1]
  <1>1. e \in Entry /\ entries' = Append(entries, e)
    BY QueueAssumption DEF Publish, Entry, Attempts
  <1>2. /\ entries' \in Seq(Entry)
        /\ Len(entries) \in Nat /\ Len(entries') = Len(entries) + 1
        /\ \A i \in 1 .. Len(entries) : entries'[i] = entries[i]
        /\ entries'[Len(entries) + 1] = e
    BY <1>1, Appended DEF TInv, TypeOK
  <1>3. TypeOK'
    BY <1>2 DEF TInv, TypeOK, Publish, workVars, replayVars
  <1>4. Known'
    BY <1>2 DEF TInv, Known, Ids, Publish
  <1>5. HandsOK'
    BY DEF TInv, HandsOK, Publish
  <1>6. QED
    BY <1>3, <1>4, <1>5 DEF TInv

\* The commands before a worker has a batch.
LEMMA PumpTInv ==
    ASSUME TInv, NEW c \in Consumers, Scan(c) \/ Pump(c)
    PROVE  TInv'
  <1>1. hand[c] = {}
    BY DEF TInv, HandsOK, Scan, Pump, PumpRemove
  <1>2. CASE Scan(c)
    <2>1. TypeOK'
      BY <1>2 DEF TInv, TypeOK, Scan, Goto, Steps, streamVars, workVars, replayVars
    <2>2. Known' /\ HandsOK'
      BY <1>1, <1>2 DEF TInv, TypeOK, Known, Ids, HandsOK, Scan, Goto, streamVars
    <2>3. QED
      BY <2>1, <2>2 DEF TInv
  <1>3. ASSUME NEW e \in due[c], PumpRemove(c, e)
        PROVE  TInv'
    <2>1. TypeOK'
      BY <1>3 DEF TInv, TypeOK, PumpRemove, Goto, Steps, streamVars, workVars, replayVars
    <2>2. Known' /\ HandsOK'
      BY <1>1, <1>3 DEF TInv, TypeOK, Known, Ids, HandsOK, PumpRemove, Goto, streamVars
    <2>3. QED
      BY <2>1, <2>2 DEF TInv
  <1>4. QED
    BY <1>2, <1>3 DEF Pump

LEMMA PumpPublishTInv ==
    ASSUME TInv, NEW c \in Consumers, PumpPublish(c)
    PROVE  TInv'
  <1> DEFINE e == [payload |-> carry[c].payload, attempt |-> carry[c].attempt]
  <1>1. /\ e \in Entry /\ entries' = Append(entries, e) /\ carry[c].payload \in published
        /\ hand[c] = {}
    BY DEF PumpPublish, Entry, Envelope, TInv, TypeOK, Known, HandsOK
  <1>2. /\ entries' \in Seq(Entry)
        /\ Len(entries) \in Nat /\ Len(entries') = Len(entries) + 1
        /\ \A i \in 1 .. Len(entries) : entries'[i] = entries[i]
        /\ entries'[Len(entries) + 1] = e
    BY <1>1, Appended DEF TInv, TypeOK
  <1>3. TypeOK'
    BY <1>2 DEF TInv, TypeOK, PumpPublish, Goto, Steps, workVars, replayVars
  <1>4. Known'
    BY <1>1, <1>2 DEF TInv, TypeOK, Known, Ids, PumpPublish
  <1>5. HandsOK'
    BY <1>1 DEF TInv, TypeOK, HandsOK, PumpPublish, Goto
  <1>6. QED
    BY <1>3, <1>4, <1>5 DEF TInv

\* Giving entries to a worker keeps the pending entries list in its type.
LEMMA Given ==
    ASSUME TypeOK, NEW c \in Consumers, NEW ids, NEW upto \in Nat, read <= upto,
           ids \subseteq 1 .. upto, Give(ids, c)
    PROVE  pel' \in [DOMAIN pel' -> Pending] /\ DOMAIN pel' \subseteq 1 .. upto
           /\ DOMAIN pel' = DOMAIN pel \cup ids
  <1>1. [consumer |-> c, idle |-> 0] \in Pending
    BY QueueAssumption DEF Pending
  <1>2. DOMAIN pel \subseteq 1 .. upto
    BY DEF TypeOK
  <1>3. QED
    BY <1>1, <1>2 DEF Give, TypeOK

LEMMA ClaimStaleTInv ==
    ASSUME TInv, NEW c \in Consumers, ClaimStale(c)
    PROVE  TInv'
  <1>1. PICK batch \in SUBSET Stale : /\ IsLowest(batch, Stale, Batch) /\ Give(batch, c)
                                      /\ hand' = [hand EXCEPT ![c] = batch]
    BY DEF ClaimStale
  <1>2. /\ step' = [step EXCEPT ![c] = "consume"]
        /\ UNCHANGED <<published, entries, read, delayed, dead, due, carry, settled, failures,
                       replaying, replays>>
    BY DEF ClaimStale, Goto, streamVars, workVars, replayVars
  <1>3. read \in Nat /\ batch \subseteq 1 .. read /\ read <= Len(entries) /\ Len(entries) \in Nat
    BY DEF Stale, TInv, TypeOK
  <1>4. IsFiniteSet(batch) /\ Cardinality(batch) \in Nat
    <2>1. IsFiniteSet(1 .. read)
      BY <1>3, FS_Interval
    <2>2. IsFiniteSet(batch)
      BY <1>3, <2>1, FS_Subset
    <2>3. QED
      BY <2>2, FS_CardinalityType
  <1>5. Cardinality(batch) <= Batch
    BY <1>1, <1>4, QueueAssumption DEF IsLowest
  <1>6. pel' \in [DOMAIN pel' -> Pending] /\ DOMAIN pel' \subseteq 1 .. read
    <2>1. TypeOK /\ read <= read /\ Give(batch, c)
      BY <1>1, <1>3 DEF TInv
    <2>2. QED
      BY <1>3, <2>1, Given
  <1>7. TypeOK'
    BY <1>1, <1>2, <1>3, <1>4, <1>5, <1>6, QueueAssumption DEF TInv, TypeOK, Steps
  <1>8. Known' /\ HandsOK'
    BY <1>1, <1>2, <1>5 DEF TInv, TypeOK, Known, Ids, HandsOK
  <1>9. QED
    BY <1>7, <1>8 DEF TInv

LEMMA ConsumeTInv ==
    ASSUME TInv, NEW c \in Consumers, Consume(c)
    PROVE  TInv'
  <1> DEFINE left == Batch - Cardinality(hand[c])
             count == IF left = 0 THEN 1 ELSE left
             upto == IF read + count <= Len(entries) THEN read + count ELSE Len(entries)
             new == read + 1 .. upto
  <1>1. /\ read' = upto /\ Give(new, c) /\ hand' = [hand EXCEPT ![c] = @ \cup new]
        /\ step' = [step EXCEPT ![c] = IF hand'[c] = {} THEN "scan" ELSE "work"]
        /\ UNCHANGED <<published, entries, delayed, dead, due, carry, settled, failures,
                       replaying, replays>>
    BY DEF Consume, Goto, workVars, replayVars
  <1>2. /\ Cardinality(hand[c]) \in Nat /\ Cardinality(hand[c]) <= Batch
        /\ IsFiniteSet(hand[c]) /\ hand[c] \subseteq 1 .. read
    BY SmallerHand DEF Consume, TInv, HandsOK, TypeOK
  <1>3. /\ read \in Nat /\ Len(entries) \in Nat /\ read <= Len(entries)
        /\ count \in Nat \ {0} /\ Cardinality(hand[c]) + count <= Batch + 1
    BY <1>2, QueueAssumption DEF TInv, TypeOK
  <1>4. upto \in Nat /\ read <= upto /\ upto <= Len(entries) /\ upto - read <= count
    BY <1>3
  <1> HIDE DEF upto, count
  <1>5. IsFiniteSet(new) /\ Cardinality(new) \in Nat /\ Cardinality(new) <= count
    <2>1. read + 1 \in Int /\ upto \in Int
      BY <1>3, <1>4
    <2>2. /\ IsFiniteSet(new)
          /\ Cardinality(new) = IF read + 1 > upto THEN 0 ELSE upto - (read + 1) + 1
      BY <2>1, FS_Interval
    <2>3. QED
      BY <1>3, <1>4, <2>2
  <1>6. /\ IsFiniteSet(hand[c] \cup new)
        /\ Cardinality(hand[c] \cup new) <= Batch + 1
    <2>1. IsFiniteSet(hand[c] \cap new) /\ Cardinality(hand[c] \cap new) \in Nat
      BY <1>2, FS_Subset, FS_CardinalityType
    <2>2. /\ IsFiniteSet(hand[c] \cup new) /\ Cardinality(hand[c] \cup new) \in Nat
          /\ Cardinality(hand[c] \cup new)
               = Cardinality(hand[c]) + Cardinality(new) - Cardinality(hand[c] \cap new)
      BY <1>2, <1>5, FS_Union, FS_CardinalityType
    <2>3. QED
      BY <1>2, <1>3, <1>5, <2>1, <2>2, QueueAssumption
  <1>7. pel' \in [DOMAIN pel' -> Pending] /\ DOMAIN pel' \subseteq 1 .. upto
    <2>1. TypeOK /\ Give(new, c) /\ new \subseteq 1 .. upto
      BY <1>1, <1>3, <1>4 DEF TInv
    <2>2. QED
      BY <1>4, <2>1, Given
  <1>8. TypeOK'
    <2>1. /\ hand' \in [Consumers -> SUBSET (1 .. read')]
          /\ \A w \in Consumers : Cardinality(hand'[w]) <= Batch + 1
      BY <1>1, <1>2, <1>3, <1>4, <1>6 DEF TInv, TypeOK
    <2>2. read' \in 0 .. Len(entries') /\ failures' \subseteq 1 .. read'
      BY <1>1, <1>3, <1>4 DEF TInv, TypeOK
    <2>3. QED
      BY <1>1, <1>7, <2>1, <2>2 DEF TInv, TypeOK, Steps
  <1>9. Known' /\ HandsOK'
    BY <1>1 DEF TInv, TypeOK, Known, Ids, HandsOK
  <1>10. QED
    BY <1>8, <1>9 DEF TInv

\* A message of the batch is finished.
LEMMA FinishedHand ==
    ASSUME TInv, NEW c \in Consumers, NEW i, Finished(c, i)
    PROVE  /\ hand' \in [Consumers -> SUBSET (1 .. read)]
           /\ \A w \in Consumers : Cardinality(hand'[w]) <= Batch + 1
           /\ step' \in [Consumers -> Steps]
           /\ (UNCHANGED <<entries, read>>) => HandsOK'
  <1>1. /\ hand' = [hand EXCEPT ![c] = @ \ {i}]
        /\ step' = [step EXCEPT ![c] = IF hand'[c] = {} THEN "scan" ELSE "work"]
    BY DEF Finished, Goto
  <1>2. Cardinality(hand[c] \ {i}) <= Batch + 1
    BY SmallerHand DEF TInv
  <1>3. QED
    BY <1>1, <1>2 DEF TInv, TypeOK, HandsOK, Steps

LEMMA Acked ==
    ASSUME TypeOK, NEW i, Ack(i)
    PROVE  pel' \in [DOMAIN pel' -> Pending] /\ DOMAIN pel' = DOMAIN pel \ {i}
           /\ \A k \in DOMAIN pel' : pel'[k] = pel[k]
  BY DEF TypeOK, Ack

LEMMA ProcessTInv ==
    ASSUME TInv, NEW c \in Consumers, NEW i \in hand[c],
           Apply(c, i) \/ AckApplied(c, i) \/ Fail(c, i) \/ Requeue(c, i) \/ BuryLetter(c, i)
    PROVE  TInv'
  <1>1. /\ i \in 1 .. read /\ i \in Ids /\ entries[i] \in Entry /\ entries[i].payload \in published
        /\ entries[i].attempt \in Attempts /\ i \in Nat
    <2>1. hand[c] \subseteq 1 .. read /\ read \in 0 .. Len(entries) /\ entries \in Seq(Entry)
      BY DEF TInv, TypeOK
    <2>2. i \in 1 .. read /\ i \in Nat /\ i \in 1 .. Len(entries)
      BY <2>1
    <2>3. entries[i] \in Entry /\ entries[i].payload \in published
      BY <2>1, <2>2 DEF TInv, Known, Ids
    <2>4. QED
      BY <2>2, <2>3 DEF Ids, Entry
  <1>2. CASE Apply(c, i)
    <2>1. TypeOK'
      BY <1>1, <1>2 DEF TInv, TypeOK, Apply, Goto, Steps, streamVars, replayVars
    <2>2. Known' /\ HandsOK'
      BY <1>2 DEF TInv, TypeOK, Known, Ids, HandsOK, Apply, Goto, streamVars
    <2>3. QED
      BY <2>1, <2>2 DEF TInv
  <1>3. CASE AckApplied(c, i)
    <2>1. pel' \in [DOMAIN pel' -> Pending] /\ DOMAIN pel' \subseteq 1 .. read
      BY <1>3, Acked DEF TInv, TypeOK, AckApplied
    <2>2. TypeOK'
      BY <1>3, <2>1, FinishedHand
         DEF TInv, TypeOK, AckApplied, streamVars, workVars, replayVars
    <2>3. Known' /\ HandsOK'
      BY <1>3, FinishedHand DEF TInv, Known, Ids, AckApplied, streamVars
    <2>4. QED
      BY <2>2, <2>3 DEF TInv
  <1>4. CASE Fail(c, i)
    <2>1. pel' \in [DOMAIN pel' -> Pending] /\ DOMAIN pel' \subseteq 1 .. read
      BY <1>4, Acked DEF TInv, TypeOK, Fail
    <2>2. TypeOK'
      BY <1>1, <1>4, <2>1 DEF TInv, TypeOK, Fail, Goto, Steps, streamVars, replayVars
    <2>3. Known' /\ HandsOK'
      BY <1>4 DEF TInv, TypeOK, Known, Ids, HandsOK, Fail, Goto, streamVars
    <2>4. QED
      BY <2>2, <2>3 DEF TInv
  <1>5. CASE Requeue(c, i)
    <2> DEFINE e == [origin |-> i, by |-> c, payload |-> entries[i].payload,
                     attempt |-> entries[i].attempt + 1,
                     due |-> RetryDelay * entries[i].attempt]
    <2>1. e \in Envelope
      <3>1. entries[i].attempt < MaxAttempts
        BY <1>1, <1>5, QueueAssumption DEF Requeue, Exhausted, Attempts
      <3>2. entries[i].attempt + 1 \in Attempts
        BY <1>1, <3>1, QueueAssumption DEF Attempts
      <3>3. RetryDelay * entries[i].attempt \in 0 .. RetryDelay * MaxAttempts
        BY <1>1, Backoff
      <3>4. entries[i].payload \in Payloads
        BY <1>1 DEF Entry
      <3>5. QED
        BY <1>1, <3>2, <3>3, <3>4 DEF Envelope
    <2>2. /\ delayed' = delayed \cup {e} /\ Finished(c, i)
          /\ UNCHANGED <<published, entries, read, pel, dead, due, carry, settled, failures,
                         replaying, replays>>
      BY <1>5 DEF Requeue, streamVars, workVars, replayVars
    <2>3. e.payload = entries[i].payload
      OBVIOUS
    <2> HIDE DEF e
    <2>4. TypeOK'
      BY <2>1, <2>2, FinishedHand DEF TInv, TypeOK
    <2>5. Known' /\ HandsOK'
      BY <1>1, <2>2, <2>3, FinishedHand DEF TInv, Known, Ids
    <2>6. QED
      BY <2>4, <2>5 DEF TInv
  <1>6. CASE BuryLetter(c, i)
    <2> DEFINE d == [origin |-> i, by |-> c, payload |-> entries[i].payload]
    <2>1. d \in DeadLetter
      BY <1>1 DEF DeadLetter, Entry
    <2>2. /\ dead' = dead \cup {d} /\ Finished(c, i)
          /\ UNCHANGED <<published, entries, read, pel, delayed, due, carry, settled, failures,
                         replaying, replays>>
      BY <1>6 DEF BuryLetter, streamVars, workVars, replayVars
    <2>3. TypeOK'
      BY <2>1, <2>2, FinishedHand DEF TInv, TypeOK
    <2>4. Known' /\ HandsOK'
      BY <1>1, <2>2, FinishedHand DEF TInv, Known, Ids
    <2>5. QED
      BY <2>3, <2>4 DEF TInv
  <1>7. QED
    BY <1>2, <1>3, <1>4, <1>5, <1>6

LEMMA RestartTInv ==
    ASSUME TInv, NEW c \in Consumers, Restart(c)
    PROVE  TInv'
  <1>1. Cardinality({}) = 0
    BY FS_EmptySet
  <1>2. TypeOK'
    BY <1>1, QueueAssumption
       DEF TInv, TypeOK, Restart, Goto, Steps, streamVars, workVars, replayVars
  <1>3. Known' /\ HandsOK'
    BY DEF TInv, TypeOK, Known, Ids, HandsOK, Restart, Goto, streamVars
  <1>4. QED
    BY <1>2, <1>3 DEF TInv

LEMMA ReplayPublishTInv ==
    ASSUME TInv, NEW d \in dead, ReplayPublish(d)
    PROVE  TInv'
  <1> DEFINE e == [payload |-> d.payload, attempt |-> 1]
  <1>1. d \in DeadLetter /\ d.payload \in published /\ d.payload \in Payloads
    BY DEF TInv, TypeOK, Known, DeadLetter
  <1>2. e \in Entry /\ entries' = Append(entries, e)
    BY <1>1, QueueAssumption DEF ReplayPublish, Entry, Attempts
  <1>3. /\ entries' \in Seq(Entry)
        /\ Len(entries) \in Nat /\ Len(entries') = Len(entries) + 1
        /\ \A i \in 1 .. Len(entries) : entries'[i] = entries[i]
        /\ entries'[Len(entries) + 1] = e
    BY <1>2, Appended DEF TInv, TypeOK
  <1>4. TypeOK'
    BY <1>1, <1>3, QueueAssumption DEF TInv, TypeOK, ReplayPublish, workVars
  <1>5. Known' /\ HandsOK'
    BY <1>1, <1>3 DEF TInv, TypeOK, Known, Ids, HandsOK, ReplayPublish
  <1>6. QED
    BY <1>4, <1>5 DEF TInv

LEMMA ReplayEndsTInv ==
    ASSUME TInv, ReplayDelete \/ ReplayDies
    PROVE  TInv'
  <1>1. /\ dead' \subseteq dead /\ replaying' = None
        /\ UNCHANGED <<published, entries, read, pel, delayed, step, due, carry, hand, settled,
                       failures, replays>>
    BY DEF ReplayDelete, ReplayDies, streamVars, workVars
  <1>2. TypeOK'
    BY <1>1 DEF TInv, TypeOK
  <1>3. Known' /\ HandsOK'
    BY <1>1 DEF TInv, Known, Ids, HandsOK
  <1>4. QED
    BY <1>2, <1>3 DEF TInv

LEMMA TickTInv ==
    ASSUME TInv, Tick
    PROVE  TInv'
  <1>1. pel' \in [DOMAIN pel' -> Pending] /\ DOMAIN pel' = DOMAIN pel
    <2>1. ASSUME NEW p \in Pending
          PROVE  [p EXCEPT !.idle = IF @ < StaleTime THEN @ + 1 ELSE @] \in Pending
      BY QueueAssumption DEF Pending
    <2>2. QED
      BY <2>1 DEF Tick, TInv, TypeOK
  <1>2. \A e \in delayed' : e \in Envelope /\ e.payload \in published
    <2>1. ASSUME NEW e \in Envelope
          PROVE  /\ [e EXCEPT !.due = IF @ > 0 THEN @ - 1 ELSE 0] \in Envelope
                 /\ [e EXCEPT !.due = IF @ > 0 THEN @ - 1 ELSE 0].payload = e.payload
      <3>1. RetryDelay * MaxAttempts \in Nat
        BY QueueAssumption
      <3>2. e.due \in 0 .. RetryDelay * MaxAttempts
        BY DEF Envelope
      <3>3. (IF e.due > 0 THEN e.due - 1 ELSE 0) \in 0 .. RetryDelay * MaxAttempts
        BY <3>1, <3>2
      <3>4. QED
        BY <3>3 DEF Envelope
    <2>2. ASSUME NEW e \in delayed'
          PROVE  e \in Envelope /\ e.payload \in published
      <3>1. PICK f \in delayed : e = [f EXCEPT !.due = IF @ > 0 THEN @ - 1 ELSE 0]
        BY DEF Tick
      <3>2. f \in Envelope /\ f.payload \in published
        BY DEF TInv, TypeOK, Known
      <3>3. QED
        BY <2>1, <3>1, <3>2
    <2>3. QED
      BY <2>2
  <1>3. UNCHANGED <<published, entries, read, dead, step, due, carry, hand, settled, failures,
                    replaying, replays>>
    BY DEF Tick, streamVars, workVars, replayVars
  <1>4. TypeOK'
    BY <1>1, <1>2, <1>3 DEF TInv, TypeOK
  <1>5. Known' /\ HandsOK'
    BY <1>2, <1>3 DEF TInv, Known, Ids, HandsOK
  <1>6. QED
    BY <1>4, <1>5 DEF TInv

LEMMA NextTInv == TInv /\ [CrashNext]_vars => TInv'
  <1> SUFFICES ASSUME TInv, [CrashNext]_vars
               PROVE  TInv'
    OBVIOUS
  <1>1. ASSUME NEW c \in Consumers, Loop(c)
        PROVE  TInv'
    <2>1. ASSUME NEW i \in hand[c], Escape(c, i)
          PROVE  TInv'
      BY <2>1, RestartTInv DEF Escape
    <2>2. CASE Process(c)
      BY <2>1, <2>2, ProcessTInv DEF Process
    <2>3. QED
      BY <1>1, <2>2, PumpTInv, PumpPublishTInv, ClaimStaleTInv, ConsumeTInv DEF Loop
  <1>2. CASE Crashes
    BY <1>2, RestartTInv, ReplayEndsTInv DEF Crashes, Crash
  <1>3. CASE UNCHANGED vars
    BY <1>3 DEF TInv, TypeOK, Known, Ids, HandsOK, vars
  <1>4. QED
    BY <1>1, <1>2, <1>3, PublishTInv, ReplayPublishTInv, ReplayEndsTInv, TickTInv
       DEF CrashNext, Next

LEMMA TypeInvariance == CrashSpec => []TInv
  BY InitTInv, NextTInv, PTL DEF CrashSpec, CrashNext

\* Type correctness, whichever worker dies and when; in particular a worker never has
\* more than batch_size entries in hand, and one more that "or 1" lets it read.
THEOREM TypeCorrect == CrashSpec => []TypeOK
  <1>1. TInv => TypeOK
    BY DEF TInv
  <1>2. QED
    BY <1>1, TypeInvariance, PTL

-----------------------------------------------------------------------------
(* Acknowledged entries are finished.  An entry is acknowledged when its   *)
(* worker has committed the processing, or after it has failed: between    *)
(* the commit and the acknowledgement the worker knows that it is settled. *)

AppliedIsSettled ==
    \A c \in Consumers : \A i \in hand[c] :
        step[c] = "applied" /\ At(c, i) => entries[i].payload \in settled

AInv == TInv /\ AckedIsFinished /\ AppliedIsSettled

\* The stream only grows, and what is settled or has failed stays so.
LEMMA Growth ==
    ASSUME TInv, [CrashNext]_vars
    PROVE  /\ Len(entries) \in Nat /\ Len(entries') \in Nat /\ Len(entries) <= Len(entries')
           /\ \A i \in Ids : entries'[i] = entries[i]
           /\ settled \subseteq settled' /\ failures \subseteq failures'
  <1>1. settled \subseteq settled' /\ failures \subseteq failures'
    BY ZenonT(30) DEF CrashNext, Next, Loop, Pump, Process, Crashes, Publish, Scan, PumpRemove, PumpPublish,
           ClaimStale, Consume, Apply, AckApplied, Fail, Requeue, BuryLetter, Escape, Restart,
           Crash, ReplayPublish, ReplayDelete, ReplayDies, Tick, workVars, vars
  <1>2. entries \in Seq(Entry) /\ Len(entries) \in Nat
    BY DEF TInv, TypeOK
  <1>3. CASE UNCHANGED entries
    BY <1>1, <1>2, <1>3
  <1>4. ASSUME NEW e \in Entry, entries' = Append(entries, e)
        PROVE  /\ Len(entries') \in Nat /\ Len(entries) <= Len(entries')
               /\ \A i \in Ids : entries'[i] = entries[i]
    BY <1>2, <1>4, Appended DEF Ids
  <1>5. ASSUME NEW p \in Payloads, Publish(p)
        PROVE  \E e \in Entry : entries' = Append(entries, e)
    BY <1>5, QueueAssumption DEF Publish, Entry, Attempts
  <1>6. ASSUME NEW c \in Consumers, PumpPublish(c)
        PROVE  \E e \in Entry : entries' = Append(entries, e)
    <2>1. [payload |-> carry[c].payload, attempt |-> carry[c].attempt] \in Entry
      BY <1>6 DEF TInv, TypeOK, PumpPublish, Envelope, Entry
    <2>2. QED
      BY <1>6, <2>1 DEF PumpPublish
  <1>7. ASSUME NEW d \in dead, ReplayPublish(d)
        PROVE  \E e \in Entry : entries' = Append(entries, e)
    <2>1. [payload |-> d.payload, attempt |-> 1] \in Entry
      BY QueueAssumption DEF TInv, TypeOK, DeadLetter, Entry, Attempts
    <2>2. QED
      BY <1>7, <2>1 DEF ReplayPublish
  <1>8. UNCHANGED entries \/ \E e \in Entry : entries' = Append(entries, e)
    BY <1>5, <1>6, <1>7
       DEF CrashNext, Next, Loop, Pump, Process, Crashes, Scan, PumpRemove,
           ClaimStale, Consume, Apply, AckApplied, Fail, Requeue, BuryLetter, Escape, Restart,
           Crash, ReplayDelete, ReplayDies, Tick, streamVars, vars
  <1>9. QED
    BY <1>1, <1>2, <1>3, <1>4, <1>8

\* Nothing new is acknowledged.
LEMMA SameAcks ==
    ASSUME AInv, [CrashNext]_vars, UNCHANGED read, DOMAIN pel \subseteq DOMAIN pel'
    PROVE  AckedIsFinished'
  <1>1. read \in Nat /\ read <= Len(entries) /\ Len(entries) \in Nat
    BY DEF AInv, TInv, TypeOK
  <1>2. SUFFICES ASSUME NEW i \in Ids', i <= read, i \notin DOMAIN pel'
                 PROVE  entries'[i].payload \in settled' \/ i \in failures'
    BY DEF AckedIsFinished
  <1>3. i \in Ids /\ i \notin DOMAIN pel
    <2>1. Len(entries') \in Nat /\ i \in 1 .. Len(entries')
      BY <1>2, Growth DEF AInv, Ids
    <2>2. i \in 1 .. Len(entries)
      BY <1>1, <1>2, <2>1
    <2>3. QED
      BY <1>2, <2>2 DEF Ids
  <1>4. QED
    BY <1>2, <1>3, Growth DEF AInv, AckedIsFinished

\* The workers that a step does not concern are where they were.
LEMMA OthersApplied ==
    ASSUME AInv, [CrashNext]_vars, NEW c \in Consumers,
           \A d \in Consumers \ {c} : step'[d] = step[d] /\ hand'[d] = hand[d],
           step'[c] # "applied"
    PROVE  AppliedIsSettled'
  <1>1. SUFFICES ASSUME NEW d \in Consumers \ {c}, NEW i \in hand[d], step[d] = "applied",
                        At(d, i)
                 PROVE  entries'[i].payload \in settled'
    BY DEF AppliedIsSettled, At
  <1>2. i \in Ids
    <2>1. hand[d] \subseteq 1 .. read /\ read \in Nat /\ read <= Len(entries) /\ Len(entries) \in Nat
      BY DEF AInv, TInv, TypeOK
    <2>2. QED
      BY <2>1 DEF Ids
  <1>3. QED
    BY <1>1, <1>2, Growth DEF AInv, AppliedIsSettled

LEMMA AllApplied ==
    ASSUME AInv, [CrashNext]_vars, UNCHANGED <<step, hand>>
    PROVE  AppliedIsSettled'
  <1>1. SUFFICES ASSUME NEW d \in Consumers, NEW i \in hand[d], step[d] = "applied", At(d, i)
                 PROVE  entries'[i].payload \in settled'
    BY DEF AppliedIsSettled, At
  <1>2. i \in Ids
    <2>1. hand[d] \subseteq 1 .. read /\ read \in Nat /\ read <= Len(entries) /\ Len(entries) \in Nat
      BY DEF AInv, TInv, TypeOK
    <2>2. QED
      BY <2>1 DEF Ids
  <1>3. QED
    BY <1>1, <1>2, Growth DEF AInv, AppliedIsSettled

LEMMA LoopAInv ==
    ASSUME AInv, NEW c \in Consumers, Loop(c) \/ Restart(c), CrashNext, TInv'
    PROVE  AInv'
  <1> USE DEF CrashNext
  <1>1. CASE Scan(c) \/ Pump(c) \/ PumpPublish(c)
    <2>1. /\ UNCHANGED <<read, pel, hand>>
          /\ \A d \in Consumers \ {c} : step'[d] = step[d]
          /\ step'[c] \in {"pump", "claim"}
      BY <1>1 DEF AInv, TInv, TypeOK, Scan, Pump, PumpRemove, PumpPublish, Goto, streamVars
    <2>2. QED
      BY <2>1, SameAcks, OthersApplied DEF AInv
  <1>2. CASE ClaimStale(c)
    <2>1. /\ UNCHANGED read /\ DOMAIN pel \subseteq DOMAIN pel'
          /\ \A d \in Consumers \ {c} : step'[d] = step[d] /\ hand'[d] = hand[d]
          /\ step'[c] = "consume"
      BY <1>2 DEF AInv, TInv, TypeOK, ClaimStale, Give, Goto, streamVars
    <2>2. QED
      BY <2>1, SameAcks, OthersApplied DEF AInv
  <1>3. CASE Consume(c)
    <2>1. /\ DOMAIN pel' = DOMAIN pel \cup (read + 1 .. read') /\ UNCHANGED entries
          /\ \A d \in Consumers \ {c} : step'[d] = step[d] /\ hand'[d] = hand[d]
          /\ step'[c] # "applied"
      BY <1>3 DEF AInv, TInv, TypeOK, Consume, Give, Goto
    <2>2. read \in Nat /\ read' \in Nat
      BY DEF AInv, TInv, TypeOK
    <2>3. AckedIsFinished'
      <3>1. SUFFICES ASSUME NEW i \in Ids, i <= read', i \notin DOMAIN pel'
                     PROVE  entries[i].payload \in settled' \/ i \in failures'
        BY <2>1 DEF AckedIsFinished, Ids
      <3>2. i <= read /\ i \notin DOMAIN pel
        BY <2>1, <2>2, <3>1 DEF Ids
      <3>3. QED
        BY <3>1, <3>2, Growth DEF AInv, AckedIsFinished
    <2>4. QED
      BY <2>1, <2>3, OthersApplied DEF AInv
  <1>4. ASSUME NEW i \in hand[c], Apply(c, i)
        PROVE  AInv'
    <2>1. /\ UNCHANGED <<entries, read, pel, hand>> /\ At(c, i)
          /\ settled' = settled \cup {entries[i].payload}
          /\ \A d \in Consumers \ {c} : step'[d] = step[d]
      BY <1>4 DEF AInv, TInv, TypeOK, Apply, Goto, streamVars
    <2>2. AppliedIsSettled'
      <3>1. SUFFICES ASSUME NEW d \in Consumers, NEW j \in hand[d], step'[d] = "applied", At(d, j)
                     PROVE  entries[j].payload \in settled'
        BY <2>1 DEF AppliedIsSettled, At
      <3>2. CASE d = c
        BY <2>1, <3>1, <3>2, OneAt DEF AInv, TInv
      <3>3. CASE d # c
        BY <2>1, <3>1, <3>3 DEF AInv, AppliedIsSettled
      <3>4. QED
        BY <3>2, <3>3
    <2>3. QED
      BY <2>1, <2>2, SameAcks DEF AInv
  <1>5. ASSUME NEW i \in hand[c], AckApplied(c, i) \/ Fail(c, i)
        PROVE  AInv'
    <2>1. /\ UNCHANGED <<entries, read>> /\ DOMAIN pel' = DOMAIN pel \ {i}
          /\ entries[i].payload \in settled' \/ i \in failures'
          /\ \A d \in Consumers \ {c} : step'[d] = step[d] /\ hand'[d] = hand[d]
          /\ step'[c] # "applied"
      BY <1>5 DEF AInv, TInv, TypeOK, AppliedIsSettled, AckApplied, Fail, Finished, Ack, Goto,
                  streamVars, workVars
    <2>2. AckedIsFinished'
      BY <2>1, Growth DEF AInv, AckedIsFinished, Ids
    <2>3. QED
      BY <2>1, <2>2, OthersApplied DEF AInv
  <1>6. ASSUME NEW i \in hand[c], Requeue(c, i) \/ BuryLetter(c, i)
        PROVE  AInv'
    <2>1. /\ UNCHANGED <<read, pel>>
          /\ \A d \in Consumers \ {c} : step'[d] = step[d] /\ hand'[d] = hand[d]
          /\ step'[c] # "applied"
      BY <1>6 DEF AInv, TInv, TypeOK, Requeue, BuryLetter, Finished, Goto, streamVars
    <2>2. QED
      BY <2>1, SameAcks, OthersApplied DEF AInv
  <1>7. CASE Restart(c)
    <2>1. /\ UNCHANGED <<read, pel>>
          /\ \A d \in Consumers \ {c} : step'[d] = step[d] /\ hand'[d] = hand[d]
          /\ step'[c] # "applied"
      BY <1>7 DEF AInv, TInv, TypeOK, Restart, Goto, streamVars
    <2>2. QED
      BY <2>1, SameAcks, OthersApplied DEF AInv
  <1>8. QED
    BY <1>1, <1>2, <1>3, <1>4, <1>5, <1>6, <1>7 DEF Loop, Process, Escape

LEMMA InitAInv == Init => AInv
  <1>1. Init => AckedIsFinished /\ AppliedIsSettled
    BY DEF Init, AckedIsFinished, AppliedIsSettled, Ids
  <1>2. QED
    BY <1>1, InitTInv DEF AInv

LEMMA NextAInv == AInv /\ [CrashNext]_vars => AInv'
  <1> SUFFICES ASSUME AInv, [CrashNext]_vars
               PROVE  AInv'
    OBVIOUS
  <1>1. TInv'
    BY NextTInv DEF AInv
  <1>2. CASE CrashNext /\ \E c \in Consumers : Loop(c) \/ Crash(c)
    BY <1>1, <1>2, LoopAInv DEF Crash
  <1>3. CASE ~ (CrashNext /\ \E c \in Consumers : Loop(c) \/ Crash(c))
    <2>1. UNCHANGED <<read, step, hand>> /\ DOMAIN pel' = DOMAIN pel
      BY <1>3 DEF CrashNext, Next, Crashes, Publish, ReplayPublish, ReplayDelete, ReplayDies,
                  Tick, streamVars, vars
    <2>2. QED
      BY <1>1, <2>1, SameAcks, AllApplied DEF AInv
  <1>4. QED
    BY <1>2, <1>3

LEMMA AckInvariance == CrashSpec => []AInv
  BY InitAInv, NextAInv, PTL DEF CrashSpec, CrashNext

\* Whatever dies and when, an entry that is no longer pending was settled or had
\* failed: only the retry of a failed message can be lost.
THEOREM AcksAreFinished == CrashSpec => []AckedIsFinished
  <1>1. AInv => AckedIsFinished
    BY DEF AInv
  <1>2. QED
    BY <1>1, AckInvariance, PTL

-----------------------------------------------------------------------------
(* Punctual workers work alone.  What a worker has in hand and has not     *)
(* acknowledged is pending under its name and not yet stale, so claim_stale *)
(* gives it to nobody else.                                                *)

Fresh == \A c \in Consumers : \A i \in hand[c] \cap DOMAIN pel : pel[i].idle < StaleTime

SInv == SoleConsumer /\ Fresh

\* A worker that is not at a message it failed has all its batch pending.
LEMMA AllPending ==
    ASSUME SInv, NEW c \in Consumers, NEW i \in hand[c], ~(step[c] = "failing" /\ At(c, i))
    PROVE  i \in DOMAIN pel /\ pel[i].consumer = c /\ pel[i].idle < StaleTime
  BY DEF SInv, SoleConsumer, Fresh

\* A step of one worker that leaves the others' batches, and their pending entries.
LEMMA OneWorker ==
    ASSUME SInv, NEW c \in Consumers,
           \A d \in Consumers \ {c} : /\ step'[d] = step[d] /\ hand'[d] = hand[d]
                                      /\ \A i \in hand[d] : i \notin hand'[c],
           \A d \in Consumers \ {c} : \A i \in hand[d] :
              /\ i \in DOMAIN pel <=> i \in DOMAIN pel'
              /\ i \in DOMAIN pel => pel'[i] = pel[i],
           \A i \in hand'[c] :
              /\ IF step'[c] = "failing" /\ At(c, i)' THEN i \notin DOMAIN pel'
                 ELSE i \in DOMAIN pel' /\ pel'[i].consumer = c
              /\ i \in DOMAIN pel' => pel'[i].idle < StaleTime
    PROVE  SInv'
  <1>1. ASSUME NEW d \in Consumers \ {c}, NEW i \in hand'[d]
        PROVE  /\ \A e \in Consumers \ {d} : i \notin hand'[e]
               /\ IF step'[d] = "failing" /\ At(d, i)' THEN i \notin DOMAIN pel'
                  ELSE i \in DOMAIN pel' /\ pel'[i].consumer = d
               /\ i \in DOMAIN pel' => pel'[i].idle < StaleTime
    <2>1. /\ i \in hand[d] /\ At(d, i)' = At(d, i) /\ step'[d] = step[d]
          /\ i \in DOMAIN pel <=> i \in DOMAIN pel'
          /\ i \in DOMAIN pel => pel'[i] = pel[i]
      BY <1>1 DEF At
    <2>2. QED
      BY <1>1, <2>1 DEF SInv, SoleConsumer, Fresh
  <1>2. \A i \in hand'[c] : \A e \in Consumers \ {c} : i \notin hand'[e]
    OBVIOUS
  <1>3. SoleConsumer'
    BY <1>1, <1>2 DEF SoleConsumer
  <1>4. Fresh'
    BY <1>1 DEF Fresh
  <1>5. QED
    BY <1>3, <1>4 DEF SInv

LEMMA LoopSInv ==
    ASSUME TInv, SInv, NEW c \in Consumers, Loop(c) \/ Restart(c)
    PROVE  SInv'
  <1>1. CASE Scan(c) \/ Pump(c) \/ PumpPublish(c)
    <2>1. /\ UNCHANGED <<pel, hand>> /\ hand[c] = {}
          /\ \A d \in Consumers \ {c} : step'[d] = step[d]
      BY <1>1 DEF TInv, TypeOK, HandsOK, Scan, Pump, PumpRemove, PumpPublish, Goto, streamVars
    <2>2. QED
      BY <2>1, OneWorker
  <1>2. CASE ClaimStale(c)
    <2>1. PICK batch \in SUBSET Stale : Give(batch, c) /\ hand' = [hand EXCEPT ![c] = batch]
      BY <1>2 DEF ClaimStale
    <2>2. /\ hand'[c] = batch /\ step'[c] = "consume"
          /\ \A d \in Consumers \ {c} : step'[d] = step[d] /\ hand'[d] = hand[d]
      BY <1>2, <2>1 DEF TInv, TypeOK, ClaimStale, Goto
    <2>3. \A i \in batch : i \in DOMAIN pel' /\ pel'[i].consumer = c /\ pel'[i].idle < StaleTime
      BY <2>1, QueueAssumption DEF Give
    <2>4. ASSUME NEW d \in Consumers \ {c}, NEW i \in hand[d]
          PROVE  /\ i \notin batch
                 /\ i \in DOMAIN pel <=> i \in DOMAIN pel'
                 /\ i \in DOMAIN pel => pel'[i] = pel[i]
      <3>1. i \notin batch
        <4>1. i \in DOMAIN pel => pel[i].idle < StaleTime /\ pel[i].idle \in Int
          BY DEF SInv, Fresh, TInv, TypeOK, Pending
        <4>2. QED
          BY <4>1, QueueAssumption DEF Stale
      <3>2. QED
        BY <2>1, <3>1 DEF Give
    <2>5. QED
      BY <2>2, <2>3, <2>4, OneWorker
  <1>3. CASE Consume(c)
    <2>1. PICK upto \in Nat : /\ Give(read + 1 .. upto, c)
                              /\ hand' = [hand EXCEPT ![c] = @ \cup (read + 1 .. upto)]
      <3>1. read' \in Nat
        BY <1>3, NextTInv DEF TInv, TypeOK, CrashNext, Next, Loop
      <3>2. QED
        BY <1>3, <3>1 DEF Consume
    <2>2. /\ hand'[c] = hand[c] \cup (read + 1 .. upto) /\ step[c] = "consume"
          /\ step'[c] # "failing"
          /\ \A d \in Consumers \ {c} : step'[d] = step[d] /\ hand'[d] = hand[d]
      BY <1>3, <2>1 DEF TInv, TypeOK, Consume, Goto
    <2>3. \A d \in Consumers : \A i \in hand[d] : i \notin read + 1 .. upto
      BY DEF TInv, TypeOK
    <2>4. \A i \in hand'[c] : i \in DOMAIN pel' /\ pel'[i].consumer = c /\ pel'[i].idle < StaleTime
      <3>1. \A i \in hand[c] : i \in DOMAIN pel /\ pel[i].consumer = c /\ pel[i].idle < StaleTime
        BY <2>2, AllPending
      <3>2. QED
        BY <2>1, <2>2, <3>1, QueueAssumption DEF Give
    <2>5. \A d \in Consumers \ {c} : \A i \in hand[d] :
             /\ i \notin hand'[c]
             /\ i \in DOMAIN pel <=> i \in DOMAIN pel'
             /\ i \in DOMAIN pel => pel'[i] = pel[i]
      BY <2>1, <2>2, <2>3 DEF Give, SInv, SoleConsumer
    <2>6. QED
      BY <2>2, <2>4, <2>5, OneWorker
  <1>4. ASSUME NEW i \in hand[c], Apply(c, i)
        PROVE  SInv'
    <2>1. /\ UNCHANGED <<pel, hand>> /\ step[c] = "work" /\ step'[c] = "applied"
          /\ \A d \in Consumers \ {c} : step'[d] = step[d]
      BY <1>4 DEF TInv, TypeOK, Apply, Goto, streamVars
    <2>2. \A k \in hand[c] : k \in DOMAIN pel /\ pel[k].consumer = c /\ pel[k].idle < StaleTime
      BY <2>1, AllPending
    <2>3. \A d \in Consumers \ {c} : \A k \in hand[d] : k \notin hand[c]
      BY DEF SInv, SoleConsumer
    <2>4. QED
      BY <2>1, <2>2, <2>3, OneWorker
  <1>5. ASSUME NEW i \in hand[c], AckApplied(c, i) \/ Fail(c, i)
        PROVE  SInv'
    <2>1. /\ DOMAIN pel' = DOMAIN pel \ {i} /\ \A k \in DOMAIN pel' : pel'[k] = pel[k]
      BY <1>5, Acked DEF TInv, AckApplied, Fail
    <2>2. /\ step[c] # "failing" /\ hand'[c] \subseteq hand[c]
          /\ step'[c] # "failing" => hand'[c] = hand[c] \ {i}
          /\ step'[c] = "failing" => hand'[c] = hand[c] /\ At(c, i)
          /\ \A d \in Consumers \ {c} : step'[d] = step[d] /\ hand'[d] = hand[d]
      BY <1>5 DEF TInv, TypeOK, AckApplied, Fail, Finished, Goto
    <2>3. \A k \in hand[c] : k \in DOMAIN pel /\ pel[k].consumer = c /\ pel[k].idle < StaleTime
      BY <2>2, AllPending
    <2>4. \A d \in Consumers \ {c} : \A k \in hand[d] : k \notin hand[c]
      BY DEF SInv, SoleConsumer
    <2>5. ASSUME NEW k \in hand'[c]
          PROVE  /\ IF step'[c] = "failing" /\ At(c, k)' THEN k \notin DOMAIN pel'
                    ELSE k \in DOMAIN pel' /\ pel'[k].consumer = c
                 /\ k \in DOMAIN pel' => pel'[k].idle < StaleTime
      <3>1. CASE step'[c] # "failing"
        BY <2>1, <2>2, <2>3, <3>1
      <3>2. CASE step'[c] = "failing"
        <4>1. hand'[c] = hand[c] /\ At(c, i) /\ (At(c, k)' <=> At(c, k))
          BY <2>2, <3>2 DEF At
        <4>2. At(c, k) <=> k = i
          BY <4>1, OneAt DEF TInv
        <4>3. QED
          BY <2>1, <2>3, <3>2, <4>1, <4>2
      <3>3. QED
        BY <3>1, <3>2
    <2>6. QED
      BY <2>1, <2>2, <2>4, <2>5, OneWorker
  <1>6. ASSUME NEW i \in hand[c], Requeue(c, i) \/ BuryLetter(c, i)
        PROVE  SInv'
    <2>1. /\ UNCHANGED pel /\ step[c] = "failing" /\ At(c, i) /\ hand'[c] = hand[c] \ {i}
          /\ step'[c] # "failing"
          /\ \A d \in Consumers \ {c} : step'[d] = step[d] /\ hand'[d] = hand[d]
      BY <1>6 DEF TInv, TypeOK, Requeue, BuryLetter, Finished, Goto
    <2>2. \A k \in hand[c] \ {i} : ~At(c, k)
      BY <2>1, OneAt DEF TInv
    <2>3. \A k \in hand[c] \ {i} :
             k \in DOMAIN pel /\ pel[k].consumer = c /\ pel[k].idle < StaleTime
      BY <2>2, AllPending
    <2>4. \A d \in Consumers \ {c} : \A k \in hand[d] : k \notin hand[c]
      BY DEF SInv, SoleConsumer
    <2>5. QED
      BY <2>1, <2>3, <2>4, OneWorker
  <1>7. CASE Restart(c)
    <2>1. /\ UNCHANGED pel /\ hand'[c] = {}
          /\ \A d \in Consumers \ {c} : step'[d] = step[d] /\ hand'[d] = hand[d]
      BY <1>7 DEF TInv, TypeOK, Restart, Goto
    <2>2. QED
      BY <2>1, OneWorker
  <1>8. QED
    BY <1>1, <1>2, <1>3, <1>4, <1>5, <1>6, <1>7 DEF Loop, Process, Escape

LEMMA TickSInv ==
    ASSUME Punctual, TInv, SInv, Tick
    PROVE  SInv'
  <1>1. /\ DOMAIN pel' = DOMAIN pel /\ UNCHANGED <<step, hand>>
        /\ \A c \in Consumers : \A i \in hand[c] \cap DOMAIN pel : pel[i].idle + 1 < StaleTime
    BY DEF Tick
  <1>2. \A i \in DOMAIN pel : /\ pel'[i].consumer = pel[i].consumer
                              /\ pel[i].idle \in Nat
                              /\ pel'[i].idle \in {pel[i].idle, pel[i].idle + 1}
    BY DEF Tick, TInv, TypeOK, Pending
  <1>3. SoleConsumer'
    BY <1>1, <1>2 DEF SInv, SoleConsumer, At
  <1>4. Fresh'
    BY <1>1, <1>2, QueueAssumption DEF Fresh
  <1>5. QED
    BY <1>3, <1>4 DEF SInv

LEMMA SameHands ==
    ASSUME SInv, UNCHANGED <<pel, hand, step>>
    PROVE  SInv'
  BY DEF SInv, SoleConsumer, Fresh, At

LEMMA SoleInvariance == Punctual /\ CrashSpec => []SInv
  <1> SUFFICES ASSUME Punctual PROVE CrashSpec => []SInv
    OBVIOUS
  <1>1. Init => SInv
    BY DEF Init, SInv, SoleConsumer, Fresh
  <1>2. TInv /\ SInv /\ [CrashNext]_vars => SInv'
    <2> SUFFICES ASSUME TInv, SInv, [CrashNext]_vars
                 PROVE  SInv'
      OBVIOUS
    <2>1. CASE \E c \in Consumers : Loop(c) \/ Crash(c)
      BY <2>1, LoopSInv DEF Crash
    <2>2. CASE Tick
      BY <2>2, TickSInv
    <2>3. CASE ~ ((\E c \in Consumers : Loop(c) \/ Crash(c)) \/ Tick)
      <3>1. UNCHANGED <<pel, hand, step>>
        BY <2>3 DEF CrashNext, Next, Crashes, Publish, ReplayPublish, ReplayDelete, ReplayDies,
                    vars
      <3>2. QED
        BY <3>1, SameHands
    <2>4. QED
      BY <2>1, <2>2, <2>3
  <1>3. QED
    BY <1>1, <1>2, TypeInvariance, PTL DEF CrashSpec, CrashNext

\* Workers that finish their batches before these are stale never work on the same
\* entry, and what they acknowledge is theirs, although any of them may die.
THEOREM PunctualWorkAlone == Punctual /\ CrashSpec => []SoleConsumer
  <1>1. SInv => SoleConsumer
    BY DEF SInv
  <1>2. QED
    BY <1>1, SoleInvariance, PTL

-----------------------------------------------------------------------------
(* Dead letters are exhausted.  The attempt that an entry or a retry bears  *)
(* is backed by the log: an entry at its n-th attempt was published after   *)
(* n - 1 entries of the same payload had failed, all of them before it in   *)
(* the stream, and a retry counts the entry it comes from as well.  Two     *)
(* late workers that fail on the same entry write two retries, but each of  *)
(* these bears the next attempt only.                                       *)

\* The failed entries of a payload, up to an id.
TriedIn(log, stream, p, n) == {j \in log : j <= n /\ stream[j].payload = p}
Tries(log, stream, p, n) == Cardinality(TriedIn(log, stream, p, n))

FailingHasFailed ==
    \A c \in Consumers : \A i \in hand[c] :
        step[c] = "failing" /\ At(c, i) => i \in failures
EntriesTried ==
    \A i \in Ids : 
        entries[i].attempt <= Tries(failures, entries, entries[i].payload, i - 1) + 1
RetryTried(e) ==
    /\ e.origin \in 1 .. read
    /\ e.attempt <= Tries(failures, entries, e.payload, e.origin) + 1
RetriesTried == \A e \in delayed : RetryTried(e)
PumpsTried == \A c \in Consumers : carry[c] # None => RetryTried(carry[c])

LInv == /\ FailingHasFailed /\ EntriesTried /\ RetriesTried /\ PumpsTried
        /\ LettersAreExhausted

\* A set of ids is finite.
LEMMA FiniteLog ==
    ASSUME NEW n \in Nat, NEW log \in SUBSET (1 .. n)
    PROVE  IsFiniteSet(log)
  <1>1. 1 \in Int /\ n \in Int
    OBVIOUS
  <1>2. IsFiniteSet(1 .. n)
    BY <1>1, FS_Interval
  <1>3. QED
    BY <1>2, FS_Subset

\* The ids are natural numbers, and the entries of the log are in the stream.
LEMMA LoggedIds ==
    ASSUME TInv
    PROVE  /\ read \in Nat /\ Len(entries) \in Nat /\ read <= Len(entries)
           /\ failures \subseteq 1 .. read /\ failures \subseteq Ids
           /\ IsFiniteSet(failures)
  <1>1. read \in Nat /\ Len(entries) \in Nat /\ read <= Len(entries) /\ failures \subseteq 1 .. read
    BY DEF TInv, TypeOK
  <1>2. IsFiniteSet(failures)
    BY <1>1, FiniteLog
  <1>3. QED
    BY <1>1, <1>2 DEF Ids

LEMMA EntryTyped ==
    ASSUME TInv, NEW i \in Ids
    PROVE  i \in Nat /\ i - 1 \in Nat /\ entries[i] \in Entry /\ entries[i].attempt \in Nat
  <1>1. entries \in Seq(Entry) /\ Len(entries) \in Nat /\ i \in 1 .. Len(entries)
    BY DEF TInv, TypeOK, Ids
  <1>2. entries[i] \in Entry /\ i \in Nat /\ i - 1 \in Nat
    BY <1>1
  <1>3. QED
    BY <1>2 DEF Entry, Attempts

LEMMA TriedCount ==
    ASSUME TInv, NEW p, NEW n
    PROVE  /\ IsFiniteSet(TriedIn(failures, entries, p, n))
           /\ Tries(failures, entries, p, n) \in Nat
  <1>1. TriedIn(failures, entries, p, n) \subseteq failures
    BY DEF TriedIn
  <1>2. QED
    BY <1>1, LoggedIds, FS_Subset, FS_CardinalityType DEF Tries

\* The log only grows, and a later id sees more of it.
LEMMA MoreTried ==
    ASSUME TInv, TInv', [CrashNext]_vars
    PROVE  \A p : \A n, m \in Nat : n <= m =>
              /\ Tries(failures, entries, p, n) \in Nat
              /\ Tries(failures', entries', p, m) \in Nat
              /\ Tries(failures, entries, p, n) <= Tries(failures', entries', p, m)
  <1> SUFFICES ASSUME NEW p, NEW n \in Nat, NEW m \in Nat, n <= m
               PROVE  /\ Tries(failures, entries, p, n) \in Nat
                      /\ Tries(failures', entries', p, m) \in Nat
                      /\ Tries(failures, entries, p, n) <= Tries(failures', entries', p, m)
    OBVIOUS
  <1>1. IsFiniteSet(TriedIn(failures', entries', p, m))
    <2>1. IsFiniteSet(failures')
      <3>1. read' \in Nat /\ failures' \subseteq 1 .. read'
        BY DEF TInv, TypeOK
      <3>2. QED
        BY <3>1, FiniteLog
    <2>2. TriedIn(failures', entries', p, m) \subseteq failures'
      BY DEF TriedIn
    <2>3. QED
      BY <2>1, <2>2, FS_Subset
  <1>2. TriedIn(failures, entries, p, n) \subseteq TriedIn(failures', entries', p, m)
    <2>1. SUFFICES ASSUME NEW j \in failures, j <= n, entries[j].payload = p
                   PROVE  j \in failures' /\ j <= m /\ entries'[j].payload = p
      BY DEF TriedIn
    <2>2. j \in Ids /\ j \in Nat
      BY LoggedIds DEF Ids
    <2>3. QED
      BY <2>1, <2>2, Growth
  <1>3. QED
    BY <1>1, <1>2, TriedCount, FS_Subset, FS_CardinalityType DEF Tries

LEMMA ReadGrows ==
    ASSUME TInv, [CrashNext]_vars
    PROVE  read' \in Nat /\ read <= read'
  <1>1. read \in Nat /\ Len(entries) \in Nat /\ read <= Len(entries)
    BY LoggedIds
  <1>2. CASE UNCHANGED read
    BY <1>1, <1>2
  <1>3. ASSUME NEW c \in Consumers, Consume(c)
        PROVE  read' \in Nat /\ read <= read'
    <2>1. hand[c] \subseteq hand[c] /\ HandsOK /\ step[c] = "consume"
      BY <1>3 DEF TInv, Consume
    <2>2. Cardinality(hand[c]) \in Nat /\ Cardinality(hand[c]) <= Batch
      BY <2>1, SmallerHand DEF TInv, HandsOK
    <2> DEFINE left == Batch - Cardinality(hand[c])
               count == IF left = 0 THEN 1 ELSE left
    <2>3. count \in Nat
      BY <2>2, QueueAssumption
    <2>4. read' = IF read + count <= Len(entries) THEN read + count ELSE Len(entries)
      BY <1>3 DEF Consume
    <2> HIDE DEF count
    <2>5. QED
      BY <1>1, <2>3, <2>4
  <1>4. QED
    BY <1>2, <1>3, ZenonT(30)
       DEF CrashNext, Next, Loop, Pump, Process, Crashes, Publish, Scan, PumpRemove, PumpPublish,
           ClaimStale, Apply, AckApplied, Fail, Requeue, BuryLetter, Escape, Restart,
           Crash, ReplayPublish, ReplayDelete, ReplayDies, Tick, streamVars, vars

\* A retry stays backed.
LEMMA StillTried ==
    ASSUME TInv, TInv', [CrashNext]_vars, NEW e, e.attempt \in Nat, RetryTried(e)
    PROVE  RetryTried(e)'
  <1>1. /\ e.origin \in 1 .. read
        /\ e.attempt <= Tries(failures, entries, e.payload, e.origin) + 1
    BY DEF RetryTried
  <1>2. e.origin \in Nat /\ e.origin \in 1 .. read'
    BY <1>1, LoggedIds, ReadGrows
  <1>3. /\ Tries(failures, entries, e.payload, e.origin) \in Nat
        /\ Tries(failures', entries', e.payload, e.origin) \in Nat
        /\ Tries(failures, entries, e.payload, e.origin)
             <= Tries(failures', entries', e.payload, e.origin)
    BY <1>2, MoreTried
  <1>4. e.attempt <= Tries(failures', entries', e.payload, e.origin) + 1
    BY <1>1, <1>3
  <1>5. QED
    BY <1>2, <1>4 DEF RetryTried

\* Only a worker that fails comes to a failed message.
LEMMA NextFailing ==
    ASSUME TInv, LInv, CrashNext, TInv'
    PROVE  FailingHasFailed'
  <1>1. SUFFICES ASSUME NEW c \in Consumers, NEW i \in hand'[c], step'[c] = "failing", At(c, i)'
                 PROVE  i \in failures'
    BY DEF FailingHasFailed
  <1>2. failures \subseteq failures'
    BY Growth
  <1>3. CASE step'[c] = step[c] /\ hand'[c] = hand[c]
    BY <1>1, <1>2, <1>3 DEF LInv, FailingHasFailed, At
  <1>4. ASSUME NEW j \in hand[c], Fail(c, j)
        PROVE  i \in failures'
    <2>1. hand' = hand /\ At(c, j) /\ failures' = failures \cup {j}
      BY <1>4 DEF Fail
    <2>2. At(c, i)
      BY <1>1, <2>1 DEF At
    <2>3. i = j
      BY <2>1, <2>2, OneAt DEF TInv
    <2>4. QED
      BY <2>1, <2>3
  <1>5. ASSUME NEW d \in Consumers \ {c}, Loop(d) \/ Restart(d)
        PROVE  step'[c] = step[c] /\ hand'[c] = hand[c]
    BY <1>5
       DEF TInv, TypeOK, Loop, Pump, Process, Scan, PumpRemove, PumpPublish, ClaimStale, Consume,
           Apply, AckApplied, Fail, Requeue, BuryLetter, Escape, Restart, Finished, Goto
  <1>6. ASSUME Loop(c) \/ Restart(c), ~ \E j \in hand[c] : Fail(c, j)
        PROVE  step'[c] # "failing"
    BY <1>6
       DEF TInv, TypeOK, Loop, Pump, Process, Scan, PumpRemove, PumpPublish, ClaimStale, Consume,
           Apply, AckApplied, Requeue, BuryLetter, Escape, Restart, Finished, Goto
  <1>7. CASE ~ \E d \in Consumers : Loop(d) \/ Restart(d)
    <2>1. UNCHANGED <<step, hand>>
      BY <1>7 DEF CrashNext, Next, Crashes, Crash, Publish, ReplayPublish, ReplayDelete, ReplayDies, Tick
    <2>2. QED
      BY <1>3, <2>1
  <1>8. QED
    BY <1>1, <1>3, <1>4, <1>5, <1>6, <1>7

\* A new entry is backed by what its publisher held.
LEMMA EntryAdded ==
    ASSUME TInv, TInv', LInv, [CrashNext]_vars, NEW e \in Entry, entries' = Append(entries, e),
           e.attempt <= Tries(failures', entries', e.payload, Len(entries)) + 1
    PROVE  EntriesTried'
  <1>1. /\ Len(entries) \in Nat /\ Len(entries') = Len(entries) + 1
        /\ \A i \in 1 .. Len(entries) : entries'[i] = entries[i] /\ entries[i] \in Entry
        /\ entries'[Len(entries) + 1] = e
    BY Appended DEF TInv, TypeOK
  <1>2. ASSUME NEW i \in 1 .. Len(entries)
        PROVE  entries[i].attempt
                 <= Tries(failures', entries', entries[i].payload, i - 1) + 1
    <2>1. entries[i].attempt <= Tries(failures, entries, entries[i].payload, i - 1) + 1
      BY DEF LInv, EntriesTried, Ids
    <2>2. i - 1 \in Nat /\ i - 1 <= i - 1 /\ entries[i].attempt \in Nat
      BY <1>1 DEF Entry, Attempts
    <2>3. /\ Tries(failures, entries, entries[i].payload, i - 1) \in Nat
          /\ Tries(failures', entries', entries[i].payload, i - 1) \in Nat
          /\ Tries(failures, entries, entries[i].payload, i - 1)
               <= Tries(failures', entries', entries[i].payload, i - 1)
      BY <2>2, MoreTried
    <2>4. QED
      BY <2>1, <2>2, <2>3
  <1>3. ASSUME NEW i \in 1 .. Len(entries')
        PROVE  entries'[i].attempt
                 <= Tries(failures', entries', entries'[i].payload, i - 1) + 1
    <2>1. CASE i \in 1 .. Len(entries)
      BY <1>1, <1>2, <2>1
    <2>2. CASE i = Len(entries) + 1
      <3>1. entries'[i] = e /\ i - 1 = Len(entries)
        BY <1>1, <2>2
      <3>2. QED
        BY <3>1
    <2>3. QED
      BY <1>1, <1>3, <2>1, <2>2
  <1>4. QED
    BY <1>3 DEF EntriesTried, Ids

LEMMA SameEntries ==
    ASSUME TInv, TInv', LInv, [CrashNext]_vars, UNCHANGED entries
    PROVE  EntriesTried'
  <1>1. SUFFICES ASSUME NEW i \in Ids
                 PROVE  entries[i].attempt
                          <= Tries(failures', entries', entries[i].payload, i - 1) + 1
    BY DEF EntriesTried, Ids
  <1>2. entries[i].attempt <= Tries(failures, entries, entries[i].payload, i - 1) + 1
    BY DEF LInv, EntriesTried
  <1>3. i - 1 \in Nat /\ i - 1 <= i - 1 /\ entries[i].attempt \in Nat
    BY EntryTyped
  <1>4. /\ Tries(failures, entries, entries[i].payload, i - 1) \in Nat
        /\ Tries(failures', entries', entries[i].payload, i - 1) \in Nat
        /\ Tries(failures, entries, entries[i].payload, i - 1)
             <= Tries(failures', entries', entries[i].payload, i - 1)
    BY <1>3, MoreTried
  <1>5. QED
    BY <1>2, <1>3, <1>4

LEMMA NextEntriesTried ==
    ASSUME TInv, TInv', LInv, CrashNext
    PROVE  EntriesTried'
  <1>1. \A p : Tries(failures', entries', p, Len(entries)) \in Nat
    BY LoggedIds, MoreTried
  <1>2. ASSUME NEW p \in Payloads, entries' = Append(entries, [payload |-> p, attempt |-> 1])
        PROVE  EntriesTried'
    <2> DEFINE e == [payload |-> p, attempt |-> 1]
    <2>1. e \in Entry /\ e.payload = p /\ e.attempt = 1
      BY QueueAssumption DEF Entry, Attempts
    <2>2. entries' = Append(entries, e)
      BY <1>2
    <2> HIDE DEF e
    <2>3. e.attempt <= Tries(failures', entries', e.payload, Len(entries)) + 1
      BY <1>1, <2>1
    <2>4. QED
      BY <2>1, <2>2, <2>3, EntryAdded
  <1>3. ASSUME NEW c \in Consumers, PumpPublish(c)
        PROVE  EntriesTried'
    <2> DEFINE e == [payload |-> carry[c].payload, attempt |-> carry[c].attempt]
    <2>1. /\ e \in Entry /\ e.payload = carry[c].payload /\ e.attempt = carry[c].attempt
          /\ entries' = Append(entries, e) /\ e.attempt \in Nat
      BY <1>3 DEF TInv, TypeOK, PumpPublish, Envelope, Entry, Attempts
    <2>2. RetryTried(carry[c])
      BY <1>3 DEF LInv, PumpsTried, PumpPublish
    <2> HIDE DEF e
    <2>3. /\ carry[c].origin \in 1 .. read
          /\ e.attempt <= Tries(failures, entries, e.payload, carry[c].origin) + 1
      BY <2>1, <2>2 DEF RetryTried
    <2>4. carry[c].origin \in Nat /\ Len(entries) \in Nat /\ carry[c].origin <= Len(entries)
      BY <2>3, LoggedIds
    <2>5. /\ Tries(failures, entries, e.payload, carry[c].origin) \in Nat
          /\ Tries(failures, entries, e.payload, carry[c].origin)
               <= Tries(failures', entries', e.payload, Len(entries))
      BY <2>4, MoreTried
    <2>6. e.attempt <= Tries(failures', entries', e.payload, Len(entries)) + 1
      BY <1>1, <2>1, <2>3, <2>5
    <2>7. QED
      BY <2>1, <2>6, EntryAdded
  <1>4. CASE UNCHANGED entries
    BY <1>4, SameEntries
  <1>5. ASSUME NEW p \in Payloads, Publish(p)
        PROVE  EntriesTried'
    BY <1>2, <1>5 DEF Publish
  <1>6. ASSUME NEW d \in dead, ReplayPublish(d)
        PROVE  EntriesTried'
    <2>1. d.payload \in Payloads
      BY DEF TInv, TypeOK, DeadLetter
    <2>2. QED
      BY <1>2, <1>6, <2>1 DEF ReplayPublish
  <1>7. QED
    BY <1>3, <1>4, <1>5, <1>6
       DEF CrashNext, Next, Loop, Pump, Process, Crashes, Scan, PumpRemove,
           ClaimStale, Consume, Apply, AckApplied, Fail, Requeue, BuryLetter, Escape, Restart,
           Crash, ReplayDelete, ReplayDies, Tick, streamVars

\* Behind a failure at an entry stand the failures before it and this one.
LEMMA OneMoreTried ==
    ASSUME TInv, LInv, NEW i \in Ids, i \in failures
    PROVE  entries[i].attempt <= Tries(failures, entries, entries[i].payload, i)
  <1> DEFINE p == entries[i].payload
             before == TriedIn(failures, entries, p, i - 1)
  <1>1. i \in Nat /\ failures \subseteq Nat
    BY LoggedIds DEF Ids
  <1>2. i \notin before
    BY <1>1 DEF TriedIn
  <1>3. TriedIn(failures, entries, p, i) = before \cup {i}
    <2>1. \A j \in failures : j <= i <=> j <= i - 1 \/ j = i
      BY <1>1
    <2>2. QED
      BY <2>1 DEF TriedIn
  <1>4. IsFiniteSet(before) /\ Cardinality(before) \in Nat
    BY TriedCount DEF Tries
  <1>5. entries[i].attempt <= Cardinality(before) + 1
    BY DEF LInv, EntriesTried, Tries
  <1> HIDE DEF before
  <1>6. Cardinality(before \cup {i}) = Cardinality(before) + 1
    BY <1>2, <1>4, FS_AddElement
  <1>7. QED
    BY <1>3, <1>5, <1>6 DEF Tries

LEMMA NextRetriesTried ==
    ASSUME TInv, TInv', LInv, CrashNext
    PROVE  RetriesTried'
  <1>1. ASSUME NEW e \in delayed
        PROVE  RetryTried(e)'
    <2>1. e.attempt \in Nat
      BY DEF TInv, TypeOK, Envelope, Attempts
    <2>2. RetryTried(e)
      BY DEF LInv, RetriesTried
    <2>3. QED
      BY <2>1, <2>2, StillTried
  <1>2. ASSUME NEW c \in Consumers, NEW i \in hand[c], Requeue(c, i)
        PROVE  RetriesTried'
    <2> DEFINE e == [origin |-> i, by |-> c, payload |-> entries[i].payload,
                     attempt |-> entries[i].attempt + 1,
                     due |-> RetryDelay * entries[i].attempt]
    <2>1. /\ delayed' = delayed \cup {e} /\ UNCHANGED <<entries, read, failures>>
          /\ step[c] = "failing" /\ At(c, i)
      BY <1>2 DEF Requeue, streamVars, workVars
    <2>2. /\ e.origin = i /\ e.payload = entries[i].payload
          /\ e.attempt = entries[i].attempt + 1
      OBVIOUS
    <2> HIDE DEF e
    <2>3. i \in failures /\ i \in Ids /\ i \in 1 .. read
      BY <2>1, LoggedIds DEF LInv, FailingHasFailed
    <2>4. /\ entries[i].attempt <= Tries(failures, entries, entries[i].payload, i)
          /\ Tries(failures, entries, entries[i].payload, i) \in Nat
          /\ entries[i].attempt \in Nat
      BY <2>3, OneMoreTried, TriedCount, EntryTyped
    <2>5. /\ e.origin \in 1 .. read'
          /\ e.attempt <= Tries(failures', entries', e.payload, e.origin) + 1
      BY <2>1, <2>2, <2>3, <2>4
    <2>6. SUFFICES ASSUME NEW f \in delayed', f \notin delayed
                   PROVE  RetryTried(f)'
      BY <1>1 DEF RetriesTried
    <2>7. f = e
      BY <2>1, <2>6
    <2>8. QED
      BY <2>5, <2>7 DEF RetryTried
  <1>3. CASE Tick
    <2>1. UNCHANGED <<entries, read, failures>>
      BY <1>3 DEF Tick, streamVars, workVars
    <2>2. SUFFICES ASSUME NEW f \in delayed' PROVE RetryTried(f)'
      BY DEF RetriesTried
    <2>3. PICK e \in delayed : f = [e EXCEPT !.due = IF @ > 0 THEN @ - 1 ELSE 0]
      BY <1>3, <2>2 DEF Tick
    <2>4. f.origin = e.origin /\ f.payload = e.payload /\ f.attempt = e.attempt
      BY <2>3 DEF TInv, TypeOK, Envelope
    <2>5. QED
      BY <2>1, <2>4 DEF LInv, RetriesTried, RetryTried
  <1>4. CASE delayed' \subseteq delayed
    BY <1>1, <1>4 DEF RetriesTried
  <1>5. QED
    BY <1>2, <1>3, <1>4, ZenonT(30)
       DEF CrashNext, Next, Loop, Pump, Process, Crashes, Publish, Scan, PumpRemove, PumpPublish,
           ClaimStale, Consume, Apply, AckApplied, Fail, BuryLetter, Escape, Restart,
           Crash, ReplayPublish, ReplayDelete, ReplayDies

LEMMA NextPumpsTried ==
    ASSUME TInv, TInv', LInv, CrashNext
    PROVE  PumpsTried'
  <1>1. ASSUME NEW c \in Consumers, carry'[c] # None
        PROVE  carry'[c] = carry[c] \/ carry'[c] \in delayed
    <2>1. carry \in [Consumers -> Envelope \cup {None}]
      BY DEF TInv, TypeOK
    <2>2. ASSUME NEW d \in Consumers, NEW e \in due[d], PumpRemove(d, e)
          PROVE  carry'[c] = carry[c] \/ carry'[c] \in delayed
      BY <2>1, <2>2 DEF PumpRemove
    <2>3. ASSUME NEW d \in Consumers, PumpPublish(d) \/ Restart(d)
          PROVE  carry'[c] = carry[c]
      BY <1>1, <2>1, <2>3 DEF PumpPublish, Restart
    <2>4. CASE UNCHANGED carry
      BY <2>4
    <2>5. QED
      BY <2>2, <2>3, <2>4, ZenonT(30)
         DEF CrashNext, Next, Loop, Pump, Process, Crashes, Publish, Scan, ClaimStale, Consume,
             Apply, AckApplied, Fail, Requeue, BuryLetter, Escape, Crash, ReplayPublish,
             ReplayDelete, ReplayDies, Tick
  <1>2. ASSUME NEW e \in Envelope, RetryTried(e)
        PROVE  /\ e.origin \in 1 .. read'
               /\ e.attempt <= Tries(failures', entries', e.payload, e.origin) + 1
    <2>1. e.attempt \in Nat
      BY DEF Envelope, Attempts
    <2>2. QED
      BY <1>2, <2>1, StillTried DEF RetryTried
  <1>3. ASSUME NEW c \in Consumers, carry'[c] # None
        PROVE  carry'[c] \in Envelope /\ RetryTried(carry'[c])
    BY <1>1, <1>3 DEF TInv, TypeOK, LInv, PumpsTried, RetriesTried
  <1>4. ASSUME NEW c \in Consumers, carry'[c] # None
        PROVE  /\ carry'[c].origin \in 1 .. read'
               /\ carry'[c].attempt
                    <= Tries(failures', entries', carry'[c].payload, carry'[c].origin) + 1
    BY <1>2, <1>3, <1>4
  <1>5. QED
    BY <1>4 DEF PumpsTried, RetryTried

\* All the failures of a payload are at least those up to one entry.
LEMMA AllTried ==
    ASSUME TInv, NEW p, NEW n
    PROVE  /\ Tries(failures, entries, p, n) <= Cardinality({j \in failures : entries[j].payload = p})
           /\ Cardinality({j \in failures : entries[j].payload = p}) \in Nat
  <1> DEFINE all == {j \in failures : entries[j].payload = p}
  <1>1. IsFiniteSet(all)
    <2>1. all \subseteq failures
      OBVIOUS
    <2>2. QED
      BY <2>1, LoggedIds, FS_Subset
  <1>2. TriedIn(failures, entries, p, n) \subseteq all
    BY DEF TriedIn
  <1> HIDE DEF all
  <1>3. Tries(failures, entries, p, n) <= Cardinality(all) /\ Cardinality(all) \in Nat
    BY <1>1, <1>2, FS_Subset, FS_CardinalityType DEF Tries
  <1>4. QED
    BY <1>3 DEF all

\* What is counted for a letter never becomes less.
LEMMA MoreOfAll ==
    ASSUME TInv, TInv', [CrashNext]_vars
    PROVE  \A p : LET all == {j \in failures : entries[j].payload = p}
                      next == {j \in failures' : entries'[j].payload = p}
                  IN  /\ Cardinality(all) \in Nat /\ Cardinality(next) \in Nat
                      /\ Cardinality(all) <= Cardinality(next)
  <1> TAKE p
  <1> DEFINE all == {j \in failures : entries[j].payload = p}
             next == {j \in failures' : entries'[j].payload = p}
  <1>1. IsFiniteSet(next)
    <2>1. read' \in Nat /\ failures' \subseteq 1 .. read' /\ next \subseteq failures'
      BY DEF TInv, TypeOK
    <2>2. QED
      BY <2>1, FiniteLog
  <1>2. all \subseteq next
    <2>1. SUFFICES ASSUME NEW j \in failures, entries[j].payload = p
                   PROVE  j \in failures' /\ entries'[j].payload = p
      OBVIOUS
    <2>2. QED
      BY <2>1, LoggedIds, Growth
  <1> HIDE DEF all, next
  <1>3. /\ Cardinality(all) \in Nat /\ Cardinality(next) \in Nat
        /\ Cardinality(all) <= Cardinality(next)
    BY <1>1, <1>2, FS_Subset, FS_CardinalityType
  <1>4. QED
    BY <1>3 DEF all, next

LEMMA NextLetters ==
    ASSUME TInv, TInv', LInv, CrashNext
    PROVE  LettersAreExhausted'
  <1> DEFINE count(p) == Cardinality({j \in failures : entries[j].payload = p})
             next(p) == Cardinality({j \in failures' : entries'[j].payload = p})
  <1>1. \A p : count(p) \in Nat /\ next(p) \in Nat /\ count(p) <= next(p)
    BY MoreOfAll
  <1>2. MaxAttempts \in Nat
    BY QueueAssumption
  <1>3. \A d \in dead : d.payload \notin Malformed => MaxAttempts <= count(d.payload)
    BY DEF LInv, LettersAreExhausted
  <1>4. SUFFICES \A d \in dead' : d.payload \notin Malformed => MaxAttempts <= next(d.payload)
    BY DEF LettersAreExhausted
  <1>5. ASSUME NEW c \in Consumers, NEW i \in hand[c], BuryLetter(c, i),
               entries[i].payload \notin Malformed
        PROVE  MaxAttempts <= count(entries[i].payload)
    <2>1. step[c] = "failing" /\ At(c, i) /\ Exhausted(entries[i])
      BY <1>5 DEF BuryLetter
    <2>2. i \in failures /\ i \in Ids
      BY <2>1, LoggedIds DEF LInv, FailingHasFailed
    <2>3. /\ MaxAttempts <= entries[i].attempt /\ entries[i].attempt \in Nat
      BY <1>2, <1>5, <2>1, <2>2, EntryTyped DEF Exhausted
    <2>4. /\ entries[i].attempt <= Tries(failures, entries, entries[i].payload, i)
          /\ Tries(failures, entries, entries[i].payload, i) \in Nat
      BY <2>2, OneMoreTried, TriedCount
    <2>5. \A p : Tries(failures, entries, p, i) <= count(p)
      BY AllTried
    <2> HIDE DEF count
    <2>6. Tries(failures, entries, entries[i].payload, i) <= count(entries[i].payload)
      BY <2>5
    <2>7. count(entries[i].payload) \in Nat
      BY <1>1
    <2>8. QED
      BY <1>2, <2>3, <2>4, <2>6, <2>7
  <1> HIDE DEF count, next
  <1>6. ASSUME NEW c \in Consumers, NEW i \in hand[c], BuryLetter(c, i)
        PROVE  \A d \in dead' : d.payload \notin Malformed => MaxAttempts <= next(d.payload)
    <2>1. dead' = dead \cup {[origin |-> i, by |-> c, payload |-> entries[i].payload]}
      BY <1>6 DEF BuryLetter
    <2>2. \A d \in dead' : d \in dead \/ d.payload = entries[i].payload
      BY <2>1
    <2>3. QED
      BY <1>1, <1>2, <1>3, <1>5, <1>6, <2>2
  <1>7. CASE dead' \subseteq dead
    BY <1>1, <1>2, <1>3, <1>7
  <1>8. QED
    BY <1>6, <1>7, ZenonT(30)
       DEF CrashNext, Next, Loop, Pump, Process, Crashes, Publish, Scan, PumpRemove, PumpPublish,
           ClaimStale, Consume, Apply, AckApplied, Fail, Requeue, Escape, Restart,
           Crash, ReplayPublish, ReplayDelete, ReplayDies, Tick

LEMMA LetterInvariance == CrashSpec => []LInv
  <1>1. Init => LInv
    BY DEF Init, LInv, FailingHasFailed, EntriesTried, RetriesTried, PumpsTried,
           LettersAreExhausted, Ids
  <1>2. TInv /\ TInv' /\ LInv /\ [CrashNext]_vars => LInv'
    <2>1. ASSUME TInv, TInv', LInv, CrashNext
          PROVE  LInv'
      BY <2>1, NextFailing, NextEntriesTried, NextRetriesTried, NextPumpsTried, NextLetters
         DEF LInv
    <2>2. ASSUME LInv, UNCHANGED vars
          PROVE  LInv'
      BY <2>2 DEF vars, LInv, FailingHasFailed, EntriesTried, RetriesTried, RetryTried, PumpsTried,
                  LettersAreExhausted, Ids, At
    <2>3. QED
      BY <2>1, <2>2
  <1>3. QED
    BY <1>1, <1>2, TypeInvariance, PTL DEF CrashSpec, CrashNext

\* However late the workers are, whoever dies and however often letters are replayed:
\* a message is dead-lettered after max_attempts failures of it at least, or because it
\* is malformed.
THEOREM LettersAlwaysExhausted == CrashSpec => []LettersAreExhausted
  <1>1. LInv => LettersAreExhausted
    BY DEF LInv
  <1>2. QED
    BY <1>1, LetterInvariance, PTL

-----------------------------------------------------------------------------
(* The queue implements the abstract one.  While no process dies, every    *)
(* published message is settled, or a copy of it is where a worker will    *)
(* find it, or it is among the dead letters that no operator is replaying. *)
(* A copy that only a late worker still has in hand does not count: another *)
(* one has acknowledged it.                                                *)

OpenRetry(c, i) == step[c] = "failing" /\ At(c, i)
InOpenRetry(p) == \E c \in Consumers : \E i \in hand[c] :
                     OpenRetry(c, i) /\ entries[i].payload = p
InOtherLetters(p) == \E d \in dead : d.payload = p /\ (replaying = None \/ d # replaying)
Safe(p) == \/ p \in settled
           \/ InStream(p) \/ InOpenRetry(p) \/ InRetry(p) \/ InPump(p)
           \/ InOtherLetters(p)

\* Only a pump holds an envelope in memory.
CarryOK == \A c \in Consumers : carry[c] # None => step[c] = "pump"

\* A letter tells which entry it was and who buried it: that entry is acknowledged,
\* and its worker has it no longer in hand.
LettersOK ==
    \A d \in dead :
        /\ d.origin \in 1 .. read /\ d.origin \notin DOMAIN pel
        /\ d.by \in Consumers /\ d.origin \notin hand[d.by]

\* An operator replays one of the letters.
ReplayOK == replaying # None => replaying \in dead

\* The retry of an entry is written after the entry is acknowledged.
RetriesOK == \A c \in Consumers : \A i \in hand[c] : OpenRetry(c, i) => i \notin DOMAIN pel

SideInv == CarryOK /\ LettersOK /\ ReplayOK /\ RetriesOK

RInv == AInv /\ SideInv /\ \A p \in published : Safe(p)

\* An acknowledged entry is never pending again, and given to nobody.
LEMMA AckedForGood ==
    ASSUME TInv, [CrashNext]_vars
    PROVE  /\ read \in Nat /\ read' \in Nat /\ read <= read'
           /\ \A i \in 1 .. read : i \in DOMAIN pel' => i \in DOMAIN pel
           /\ \A c \in Consumers : \A i \in hand'[c] \ hand[c] : i \in DOMAIN pel \/ i > read
  <1>1. read \in Nat /\ Len(entries) \in Nat /\ read <= Len(entries)
    BY DEF TInv, TypeOK
  <1>2. ASSUME NEW c \in Consumers, Loop(c) \/ Restart(c)
        PROVE  /\ read' \in Nat /\ read <= read'
               /\ \A i \in 1 .. read : i \in DOMAIN pel' => i \in DOMAIN pel
               /\ \A d \in Consumers : \A i \in hand'[d] \ hand[d] : i \in DOMAIN pel \/ i > read
    <2>1. CASE Consume(c)
      <3>1. read' \in Nat
        BY <2>1, NextTInv DEF TInv, TypeOK, CrashNext, Next, Loop
      <3>2. /\ DOMAIN pel' = DOMAIN pel \cup (read + 1 .. read')
            /\ hand' = [hand EXCEPT ![c] = @ \cup (read + 1 .. read')]
        BY <2>1 DEF Consume, Give
      <3>3. read <= read'
        <4>1. Cardinality(hand[c]) \in Nat /\ Cardinality(hand[c]) <= Batch
          BY <2>1, SmallerHand DEF Consume, TInv, HandsOK
        <4>2. QED
          BY <1>1, <2>1, <4>1, QueueAssumption DEF Consume
      <3>4. QED
        BY <1>1, <3>1, <3>2, <3>3 DEF TInv, TypeOK
    <2>2. CASE ClaimStale(c)
      <3>1. PICK batch \in SUBSET Stale : Give(batch, c) /\ hand' = [hand EXCEPT ![c] = batch]
        BY <2>2 DEF ClaimStale
      <3>2. DOMAIN pel' = DOMAIN pel /\ UNCHANGED read
        BY <2>2, <3>1 DEF ClaimStale, Give, Stale, streamVars
      <3>3. QED
        BY <1>1, <3>1, <3>2 DEF Stale, TInv, TypeOK
    <2>3. CASE ~(Consume(c) \/ ClaimStale(c))
      <3>1. /\ UNCHANGED read /\ DOMAIN pel' \subseteq DOMAIN pel
            /\ \A d \in Consumers : hand'[d] \subseteq hand[d]
        BY <1>2, <2>3
           DEF TInv, TypeOK, Loop, Pump, Process, Scan, PumpRemove, PumpPublish, Apply, AckApplied,
               Fail, Requeue, BuryLetter, Escape, Restart, Finished, Ack, streamVars
      <3>2. QED
        BY <1>1, <3>1
    <2>4. QED
      BY <2>1, <2>2, <2>3
  <1>3. CASE ~ \E c \in Consumers : Loop(c) \/ Restart(c)
    <2>1. UNCHANGED <<read, hand>> /\ DOMAIN pel' = DOMAIN pel
      BY <1>3 DEF CrashNext, Next, Crashes, Crash, Publish, ReplayPublish, ReplayDelete,
                  ReplayDies, Tick, streamVars, vars
    <2>2. QED
      BY <1>1, <2>1
  <1>4. QED
    BY <1>1, <1>2, <1>3

LEMMA NextSideInv ==
    ASSUME AInv, SideInv, [Next]_vars
    PROVE  SideInv'
  <1>1. TInv /\ [CrashNext]_vars
    BY DEF AInv, CrashNext
  <1>2. CarryOK'
    <2>1. ASSUME NEW c \in Consumers, Loop(c)
          PROVE  CarryOK'
      <3>1. CASE Scan(c)
        BY <3>1 DEF AInv, TInv, TypeOK, SideInv, CarryOK, Scan, Goto
      <3>2. ASSUME NEW e \in due[c], PumpRemove(c, e)
            PROVE  CarryOK'
        BY <3>2 DEF AInv, TInv, TypeOK, SideInv, CarryOK, PumpRemove, Goto
      <3>3. CASE PumpPublish(c)
        BY <3>3 DEF AInv, TInv, TypeOK, SideInv, CarryOK, PumpPublish, Goto
      <3>4. CASE ClaimStale(c) \/ Consume(c) \/ Process(c)
        <4>1. /\ step[c] # "pump" /\ carry' \in {carry, [carry EXCEPT ![c] = None]}
              /\ \A d \in Consumers \ {c} : step'[d] = step[d]
          BY <3>4 DEF AInv, TInv, TypeOK, Process, ClaimStale, Consume, Apply, AckApplied, Fail,
                      Requeue, BuryLetter, Finished, Escape, Restart, Goto
        <4>2. QED
          BY <4>1 DEF AInv, TInv, TypeOK, SideInv, CarryOK
      <3>5. QED
        BY <2>1, <3>1, <3>2, <3>3, <3>4 DEF Loop, Pump
    <2>2. CASE ~ \E c \in Consumers : Loop(c)
      BY <2>2 DEF SideInv, CarryOK, Next, Publish, ReplayPublish, ReplayDelete, Tick, vars
    <2>3. QED
      BY <2>1, <2>2
  <1>3. ReplayOK'
    <2>1. ASSUME NEW c \in Consumers, Loop(c)
          PROVE  dead \subseteq dead' /\ UNCHANGED replaying
      <3>1. CASE Process(c)
        BY <3>1 DEF Process, Apply, AckApplied, Fail, Requeue, BuryLetter, Escape, Restart,
                    replayVars
      <3>2. QED
        BY <2>1, <3>1 DEF Loop, Pump, Scan, PumpRemove, PumpPublish, ClaimStale, Consume,
                          replayVars
    <2>2. ASSUME NEW d \in dead, ReplayPublish(d)
          PROVE  ReplayOK'
      BY <2>2 DEF ReplayOK, ReplayPublish
    <2>3. CASE ReplayDelete
      BY <2>3 DEF ReplayOK, ReplayDelete
    <2>4. CASE Tick \/ UNCHANGED vars \/ \E p \in Payloads : Publish(p)
      <3>1. UNCHANGED <<dead, replaying>>
        BY <2>4 DEF Publish, Tick, vars, replayVars
      <3>2. QED
        BY <3>1 DEF SideInv, ReplayOK
    <2>5. QED
      BY <2>1, <2>2, <2>3, <2>4 DEF SideInv, ReplayOK, Next
  <1>4. RetriesOK'
    <2>1. SUFFICES ASSUME NEW c \in Consumers, NEW i \in hand'[c], OpenRetry(c, i)'
                   PROVE  i \notin DOMAIN pel'
      BY DEF RetriesOK
    <2>2. CASE step[c] = "failing" /\ hand'[c] = hand[c]
      <3>1. OpenRetry(c, i) /\ i \in hand[c] /\ i \in 1 .. read
        BY <2>1, <2>2 DEF OpenRetry, At, AInv, TInv, TypeOK
      <3>2. QED
        BY <1>1, <3>1, AckedForGood DEF SideInv, RetriesOK
    <2>3. CASE ~(step[c] = "failing" /\ hand'[c] = hand[c])
      <3>1. PICK j \in hand[c] : Fail(c, j)
        <4>1. step'[c] = "failing" /\ ~(step'[c] = step[c] /\ hand'[c] = hand[c])
          BY <2>1, <2>3 DEF OpenRetry
        <4>2. PICK w \in Consumers : Loop(w)
          BY <4>1 DEF Next, Publish, ReplayPublish, ReplayDelete, Tick, vars
        <4>3. ASSUME w # c
              PROVE  step'[c] = step[c] /\ hand'[c] = hand[c]
          <5>1. CASE Process(w)
            BY <4>3, <5>1 DEF AInv, TInv, TypeOK, Process, Apply, AckApplied, Fail, Requeue,
                              BuryLetter, Finished, Escape, Restart, Goto
          <5>2. QED
            BY <4>2, <4>3, <5>1 DEF AInv, TInv, TypeOK, Loop, Pump, Scan, PumpRemove, PumpPublish,
                                    ClaimStale, Consume, Goto
        <4>4. Loop(c)
          BY <4>1, <4>2, <4>3
        <4>5. Process(c)
          BY <4>1, <4>4 DEF AInv, TInv, TypeOK, Loop, Pump, Scan, PumpRemove, PumpPublish,
                            ClaimStale, Consume, Goto
        <4>6. QED
          BY <4>1, <4>5 DEF AInv, TInv, TypeOK, Process, Apply, AckApplied, Requeue,
                            BuryLetter, Finished, Escape, Restart, Goto
      <3>2. At(c, i) /\ At(c, j) /\ hand'[c] = hand[c]
        BY <2>1, <3>1 DEF OpenRetry, At, Fail
      <3>3. i = j
        BY <1>1, <3>2, OneAt DEF TInv
      <3>4. QED
        BY <3>1, <3>3 DEF Fail, Ack
    <2>4. QED
      BY <2>2, <2>3
  <1>5. LettersOK'
    <2>1. SUFFICES ASSUME NEW d \in dead'
                   PROVE  /\ d.origin \in 1 .. read' /\ d.origin \notin DOMAIN pel'
                          /\ d.by \in Consumers /\ d.origin \notin hand'[d.by]
      BY DEF LettersOK
    <2>2. CASE d \in dead
      <3>1. /\ d.origin \in 1 .. read /\ d.origin \notin DOMAIN pel
            /\ d.by \in Consumers /\ d.origin \notin hand[d.by]
        BY <2>2 DEF SideInv, LettersOK
      <3>2. QED
        BY <1>1, <3>1, AckedForGood
    <2>3. CASE d \notin dead
      <3>1. PICK c \in Consumers : \E i \in hand[c] : BuryLetter(c, i)
        BY <2>1, <2>3, ZenonT(30)
           DEF Next, Loop, Pump, Process, Publish, Scan, PumpRemove,
               PumpPublish, ClaimStale, Consume, Apply, AckApplied, Fail, Requeue,
               Finished, Escape, Restart, ReplayPublish, ReplayDelete, Tick, vars
      <3>2. PICK i \in hand[c] : BuryLetter(c, i)
        BY <3>1
      <3>3. d.origin = i /\ d.by = c /\ OpenRetry(c, i) /\ UNCHANGED <<read, pel>>
        BY <2>1, <2>3, <3>2 DEF BuryLetter, OpenRetry, streamVars
      <3>4. i \in 1 .. read /\ i \notin DOMAIN pel /\ i \notin hand'[c]
        BY <3>2, <3>3 DEF SideInv, RetriesOK, AInv, TInv, TypeOK, BuryLetter, Finished
      <3>5. QED
        BY <3>3, <3>4
    <2>4. QED
      BY <2>2, <2>3
  <1>6. QED
    BY <1>2, <1>3, <1>4, <1>5 DEF SideInv

\* A message is safe as long as each of its copies stays or makes it safe elsewhere.
LEMMA StillSafe ==
    ASSUME AInv, [CrashNext]_vars, NEW p, Safe(p),
           \A i \in Ids : entries[i].payload = p /\ (i > read \/ i \in DOMAIN pel)
                          => i > read' \/ i \in DOMAIN pel' \/ Safe(p)',
           \A c \in Consumers : \A i \in hand[c] :
              OpenRetry(c, i) /\ entries[i].payload = p
                 => (step'[c] = step[c] /\ hand'[c] = hand[c]) \/ Safe(p)',
           \A e \in delayed : e.payload = p => (\E f \in delayed' : f.payload = p) \/ Safe(p)',
           \A c \in Consumers : carry[c] # None /\ carry[c].payload = p
                                => carry'[c] = carry[c] \/ Safe(p)',
           \A d \in dead : d.payload = p /\ (replaying = None \/ d # replaying)
              => (d \in dead' /\ (replaying' = None \/ d # replaying')) \/ Safe(p)'
    PROVE  Safe(p)'
  <1>1. Ids \subseteq Ids' /\ \A i \in Ids : entries'[i] = entries[i]
    BY Growth DEF AInv, Ids
  <1>2. CASE p \in settled
    BY <1>2, Growth DEF AInv, Safe
  <1>3. CASE InStream(p)
    <2>1. PICK i \in Ids : entries[i].payload = p /\ (i > read \/ i \in DOMAIN pel)
      BY <1>3 DEF InStream
    <2>2. QED
      BY <1>1, <2>1 DEF Safe, InStream
  <1>4. CASE InOpenRetry(p)
    <2>1. PICK c \in Consumers : \E i \in hand[c] : OpenRetry(c, i) /\ entries[i].payload = p
      BY <1>4 DEF InOpenRetry
    <2>2. PICK i \in hand[c] : OpenRetry(c, i) /\ entries[i].payload = p
      BY <2>1
    <2>3. i \in Ids
      <3>1. hand[c] \subseteq 1 .. read /\ read \in 0 .. Len(entries) /\ Len(entries) \in Nat
        BY Growth DEF AInv, TInv, TypeOK
      <3>2. QED
        BY <3>1 DEF Ids
    <2>4. CASE step'[c] = step[c] /\ hand'[c] = hand[c]
      <3>1. OpenRetry(c, i)' /\ i \in hand'[c] /\ entries'[i].payload = p
        BY <1>1, <2>2, <2>3, <2>4 DEF OpenRetry, At
      <3>2. QED
        BY <3>1 DEF Safe, InOpenRetry
    <2>5. QED
      BY <2>2, <2>4
  <1>5. CASE InRetry(p)
    BY <1>5 DEF Safe, InRetry
  <1>6. CASE InPump(p)
    <2>1. PICK c \in Consumers : carry[c] # None /\ carry[c].payload = p
      BY <1>6 DEF InPump
    <2>2. QED
      BY <2>1 DEF Safe, InPump
  <1>7. CASE InOtherLetters(p)
    BY <1>7 DEF Safe, InOtherLetters
  <1>8. QED
    BY <1>2, <1>3, <1>4, <1>5, <1>6, <1>7 DEF Safe

\* Each step of the queue keeps every message safe.
LEMMA LoopSafe ==
    ASSUME AInv, SideInv, NEW c \in Consumers, Loop(c), AInv', NEW p \in published, Safe(p)
    PROVE  Safe(p)'
  <1>1. CrashNext
    BY DEF CrashNext, Next
  <1>2. \A d \in Consumers : \A i \in hand[d] : i \in Ids
    BY DEF AInv, TInv, TypeOK, Ids
  <1>3. CASE Scan(c) \/ ClaimStale(c)
    <2>1. /\ UNCHANGED <<entries, read, delayed, carry, dead, replaying>>
          /\ DOMAIN pel \subseteq DOMAIN pel'
          /\ \A d \in Consumers \ {c} : step'[d] = step[d] /\ hand'[d] = hand[d]
          /\ step[c] # "failing"
      BY <1>3 DEF AInv, TInv, TypeOK, Scan, ClaimStale, Give, Goto, streamVars, replayVars
    <2>2. QED
      BY <1>1, <2>1, StillSafe DEF OpenRetry
  <1>4. CASE Consume(c)
    <2>1. /\ UNCHANGED <<entries, delayed, carry, dead, replaying>>
          /\ DOMAIN pel' = DOMAIN pel \cup (read + 1 .. read')
          /\ \A d \in Consumers \ {c} : step'[d] = step[d] /\ hand'[d] = hand[d]
          /\ step[c] # "failing"
      BY <1>4 DEF AInv, TInv, TypeOK, Consume, Give, Goto, replayVars
    <2>2. \A i \in Ids : i > read => i > read' \/ i \in DOMAIN pel'
      <3>1. read \in Nat /\ read' \in Nat
        BY DEF AInv, TInv, TypeOK
      <3>2. QED
        BY <2>1, <3>1 DEF Ids
    <2>3. QED
      BY <1>1, <2>1, <2>2, StillSafe DEF OpenRetry
  <1>5. ASSUME NEW e \in due[c], PumpRemove(c, e)
        PROVE  Safe(p)'
    <2>1. /\ UNCHANGED <<entries, read, pel, hand, dead, replaying>>
          /\ delayed' = delayed \ {e}
          /\ \A d \in Consumers \ {c} : step'[d] = step[d] /\ carry'[d] = carry[d]
          /\ step[c] # "failing" /\ carry[c] = None
          /\ e \in delayed => carry'[c] = e
      BY <1>5 DEF AInv, TInv, TypeOK, PumpRemove, Goto, streamVars, replayVars
    <2>2. ASSUME e \in delayed, e.payload = p
          PROVE  Safe(p)'
      <3>1. e # None
        BY <2>2, NoneAssumption DEF AInv, TInv, TypeOK
      <3>2. InPump(p)'
        BY <2>1, <2>2, <3>1 DEF InPump
      <3>3. QED
        BY <3>2 DEF Safe
    <2>3. QED
      BY <1>1, <2>1, <2>2, StillSafe DEF OpenRetry
  <1>6. CASE PumpPublish(c)
    <2>1. /\ UNCHANGED <<read, pel, hand, delayed, dead, replaying>>
          /\ \A d \in Consumers \ {c} : step'[d] = step[d] /\ carry'[d] = carry[d]
          /\ step[c] # "failing"
      BY <1>6 DEF AInv, TInv, TypeOK, PumpPublish, Goto, replayVars
    <2>2. ASSUME carry[c].payload = p
          PROVE  Safe(p)'
      <3>1. /\ [payload |-> carry[c].payload, attempt |-> carry[c].attempt] \in Entry
            /\ entries' = Append(entries, [payload |-> carry[c].payload, attempt |-> carry[c].attempt])
        BY <1>6 DEF AInv, TInv, TypeOK, PumpPublish, Envelope, Entry
      <3>2. /\ Len(entries) \in Nat /\ Len(entries') = Len(entries) + 1
            /\ entries'[Len(entries) + 1].payload = p
        BY <2>2, <3>1, Appended DEF AInv, TInv, TypeOK
      <3>3. read \in Nat /\ read <= Len(entries)
        BY <3>2 DEF AInv, TInv, TypeOK
      <3>4. InStream(p)'
        BY <2>1, <3>2, <3>3 DEF InStream, Ids
      <3>5. QED
        BY <3>4 DEF Safe
    <2>3. QED
      BY <1>1, <2>1, <2>2, StillSafe DEF OpenRetry
  <1>7. ASSUME NEW i \in hand[c], Apply(c, i) \/ AckApplied(c, i) \/ Fail(c, i) \/ Requeue(c, i)
                                  \/ BuryLetter(c, i)
        PROVE  Safe(p)'
    <2>1. /\ UNCHANGED <<entries, read, carry, replaying>>
          /\ delayed \subseteq delayed' /\ dead \subseteq dead'
          /\ \A d \in Consumers \ {c} : step'[d] = step[d] /\ hand'[d] = hand[d]
      BY <1>7 DEF AInv, TInv, TypeOK, Apply, AckApplied, Fail, Requeue, BuryLetter, Finished,
                  Goto, streamVars, replayVars
    <2>2. CASE Apply(c, i)
      <3>1. UNCHANGED pel /\ step[c] # "failing"
        BY <2>2 DEF Apply
      <3>2. QED
        BY <1>1, <2>1, <3>1, StillSafe DEF OpenRetry
    <2>3. CASE AckApplied(c, i)
      <3>1. DOMAIN pel' = DOMAIN pel \ {i} /\ step[c] # "failing"
        BY <2>3 DEF AckApplied, Ack
      <3>2. entries[i].payload \in settled /\ UNCHANGED settled
        BY <2>3 DEF AInv, AppliedIsSettled, AckApplied, workVars
      <3>3. entries[i].payload = p => Safe(p)'
        BY <3>2 DEF Safe
      <3>4. QED
        BY <1>1, <2>1, <3>1, <3>3, StillSafe DEF OpenRetry
    <2>4. CASE Fail(c, i)
      <3>1. /\ DOMAIN pel' = DOMAIN pel \ {i} /\ step[c] # "failing" /\ step'[c] = "failing"
            /\ hand'[c] = hand[c] /\ At(c, i)
        BY <2>4 DEF AInv, TInv, TypeOK, Fail, Ack, Goto
      <3>2. entries[i].payload = p => InOpenRetry(p)'
        BY <2>1, <3>1 DEF InOpenRetry, OpenRetry, At
      <3>3. entries[i].payload = p => Safe(p)'
        BY <3>2 DEF Safe
      <3>4. QED
        BY <1>1, <2>1, <3>1, <3>3, StillSafe DEF OpenRetry
    <2>5. CASE Requeue(c, i) \/ BuryLetter(c, i)
      <3>1. UNCHANGED pel /\ At(c, i) /\ step[c] = "failing"
        BY <2>5 DEF Requeue, BuryLetter
      <3>2. \A j \in hand[c] : OpenRetry(c, j) => j = i
        BY <3>1, OneAt DEF OpenRetry, AInv, TInv
      <3>3. entries[i].payload = p => Safe(p)'
        <4>1. CASE Requeue(c, i)
          <5> DEFINE e == [origin |-> i, by |-> c, payload |-> entries[i].payload,
                           attempt |-> entries[i].attempt + 1,
                           due |-> RetryDelay * entries[i].attempt]
          <5>1. delayed' = delayed \cup {e} /\ e.payload = entries[i].payload
            BY <4>1 DEF Requeue
          <5> HIDE DEF e
          <5>2. entries[i].payload = p => InRetry(p)'
            BY <5>1 DEF InRetry
          <5>3. QED
            BY <5>2 DEF Safe
        <4>2. CASE BuryLetter(c, i)
          <5> DEFINE d == [origin |-> i, by |-> c, payload |-> entries[i].payload]
          <5>1. d \in dead' /\ d.payload = entries[i].payload /\ d.origin = i /\ d.by = c
            BY <4>2 DEF BuryLetter
          <5>2. replaying = None \/ d # replaying
            <6>1. replaying # None => replaying.origin \notin hand[replaying.by]
              BY DEF SideInv, ReplayOK, LettersOK
            <6>2. QED
              BY <5>1, <6>1
          <5>3. QED
            BY <2>1, <5>1, <5>2 DEF Safe, InOtherLetters
        <4>3. QED
          BY <2>5, <4>1, <4>2
      <3>4. QED
        BY <1>1, <2>1, <3>1, <3>2, <3>3, StillSafe
    <2>6. QED
      BY <1>7, <2>2, <2>3, <2>4, <2>5
  <1>8. ASSUME NEW i \in hand[c], Escape(c, i)
        PROVE  Safe(p)'
    <2>1. /\ UNCHANGED <<entries, read, pel, delayed, dead, replaying>>
          /\ \A d \in Consumers \ {c} : /\ step'[d] = step[d] /\ hand'[d] = hand[d]
                                        /\ carry'[d] = carry[d]
          /\ step[c] = "work"
      BY <1>8 DEF AInv, TInv, TypeOK, Escape, Restart, Goto, streamVars, replayVars
    <2>2. carry[c] = None
      BY <2>1 DEF SideInv, CarryOK
    <2>3. QED
      BY <1>1, <2>1, <2>2, StillSafe DEF OpenRetry
  <1>9. QED
    BY <1>3, <1>4, <1>5, <1>6, <1>7, <1>8 DEF Loop, Pump, Process

\* A new entry is in the stream.
LEMMA NewEntry ==
    ASSUME AInv, UNCHANGED read, NEW e \in Entry, entries' = Append(entries, e)
    PROVE  InStream(e.payload)'
  <1>1. /\ Len(entries) \in Nat /\ Len(entries') = Len(entries) + 1
        /\ entries'[Len(entries) + 1] = e
    BY Appended DEF AInv, TInv, TypeOK
  <1>2. read \in Nat /\ read <= Len(entries)
    BY <1>1 DEF AInv, TInv, TypeOK
  <1>3. Len(entries) + 1 \in Ids' /\ Len(entries) + 1 > read'
    BY <1>1, <1>2 DEF Ids
  <1>4. QED
    BY <1>1, <1>3 DEF InStream

LEMMA NextRInv == RInv /\ [Next]_vars => RInv'
  <1> SUFFICES ASSUME RInv, [Next]_vars
               PROVE  RInv'
    OBVIOUS
  <1>1. [CrashNext]_vars
    BY DEF CrashNext
  <1>2. AInv' /\ SideInv'
    BY <1>1, NextAInv, NextSideInv DEF RInv
  <1>3. SUFFICES ASSUME NEW p \in published'
                 PROVE  Safe(p)'
    BY <1>2 DEF RInv
  <1>4. ASSUME NEW c \in Consumers, Loop(c)
        PROVE  Safe(p)'
    <2>1. UNCHANGED published
      BY <1>4 DEF Loop, Pump, Process, Scan, PumpRemove, PumpPublish, ClaimStale, Consume, Apply,
                  AckApplied, Fail, Requeue, BuryLetter, Escape, Restart, streamVars
    <2>2. QED
      BY <1>2, <1>4, <2>1, LoopSafe DEF RInv
  <1>5. ASSUME NEW q \in Payloads, Publish(q)
        PROVE  Safe(p)'
    <2> DEFINE e == [payload |-> q, attempt |-> 1]
    <2>1. e \in Entry /\ e.payload = q /\ entries' = Append(entries, e)
      BY <1>5, QueueAssumption DEF Publish, Entry, Attempts
    <2>2. /\ UNCHANGED <<read, pel, delayed, dead, step, carry, hand, replaying>>
          /\ published' = published \cup {q}
      BY <1>5 DEF Publish, replayVars
    <2>3. CASE p = q
      BY <2>1, <2>2, <2>3, NewEntry DEF RInv, Safe
    <2>4. CASE p # q
      BY <1>1, <2>2, <2>4, StillSafe DEF RInv
    <2>5. QED
      BY <2>3, <2>4
  <1>6. ASSUME NEW d \in dead, ReplayPublish(d)
        PROVE  Safe(p)'
    <2> DEFINE e == [payload |-> d.payload, attempt |-> 1]
    <2>1. e \in Entry /\ e.payload = d.payload /\ entries' = Append(entries, e)
      BY <1>6, QueueAssumption
         DEF ReplayPublish, Entry, Attempts, RInv, AInv, TInv, TypeOK, DeadLetter
    <2>2. /\ UNCHANGED <<published, read, pel, delayed, dead, step, carry, hand>>
          /\ replaying' = d
      BY <1>6 DEF ReplayPublish
    <2>3. d.payload = p => Safe(p)'
      BY <2>1, <2>2, NewEntry DEF RInv, Safe
    <2>4. QED
      BY <1>1, <2>2, <2>3, StillSafe DEF RInv
  <1>7. CASE ReplayDelete
    <2>1. /\ UNCHANGED <<published, read, pel, delayed, step, carry, hand>>
          /\ dead' = dead \ {replaying} /\ replaying # None /\ replaying' = None
      BY <1>7 DEF ReplayDelete, streamVars
    <2>2. QED
      BY <1>1, <2>1, StillSafe DEF RInv
  <1>8. CASE Tick
    <2>1. /\ UNCHANGED <<published, read, dead, step, carry, hand, replaying>>
          /\ DOMAIN pel' = DOMAIN pel
      BY <1>8 DEF Tick, streamVars, replayVars
    <2>2. ASSUME NEW e \in delayed
          PROVE  \E f \in delayed' : f.payload = e.payload
      <3>1. e \in Envelope
        BY DEF RInv, AInv, TInv, TypeOK
      <3>2. [e EXCEPT !.due = IF @ > 0 THEN @ - 1 ELSE 0].payload = e.payload
        BY <3>1 DEF Envelope
      <3>3. [e EXCEPT !.due = IF @ > 0 THEN @ - 1 ELSE 0] \in delayed'
        BY <1>8 DEF Tick
      <3>4. QED
        BY <3>2, <3>3
    <2>3. QED
      BY <1>1, <2>1, <2>2, StillSafe DEF RInv
  <1>9. CASE UNCHANGED vars
    <2>1. UNCHANGED <<published, read, pel, delayed, dead, step, carry, hand, replaying>>
      BY <1>9 DEF vars
    <2>2. QED
      BY <1>1, <2>1, StillSafe DEF RInv
  <1>10. QED
    BY <1>4, <1>5, <1>6, <1>7, <1>8, <1>9 DEF Next

LEMMA InitRInv == Init => RInv
  <1>1. Init => SideInv /\ \A p \in published : Safe(p)
    BY DEF Init, SideInv, CarryOK, LettersOK, ReplayOK, RetriesOK
  <1>2. QED
    BY <1>1, InitAInv DEF RInv

LEMMA SafeInvariance == Spec => []RInv
  BY InitRInv, NextRInv, PTL DEF Spec

\* docs/architecture.md, at-least-once delivery: as long as no process dies between
\* two commands, no message is lost, however late workers are.
THEOREM NothingIsLost == Spec => []NothingLost
  <1>1. RInv => NothingLost
    BY DEF RInv, Safe, NothingLost, Waiting, InHand, InOpenRetry, InOtherLetters, InLetters
  <1>2. QED
    BY <1>1, SafeInvariance, PTL

\* Where a message is.
Where == [p \in Payloads |-> Place(p)]

LEMMA PlaceIs ==
    ASSUME RInv, NEW p
    PROVE  /\ p \notin published => Place(p) = "new"
           /\ p \in settled => Place(p) = "settled"
           /\ p \in published \ settled /\ Waiting(p) => Place(p) = "open"
           /\ p \in published \ settled /\ ~Waiting(p) => Place(p) = "buried"
  <1>1. settled \subseteq published
    BY DEF RInv, AInv, TInv, TypeOK
  <1>2. p \in published \ settled /\ ~Waiting(p) => InLetters(p)
    BY DEF RInv, Safe, Waiting, InHand, InOpenRetry, InOtherLetters, InLetters
  <1>3. QED
    BY <1>1, <1>2 DEF Place

LEMMA NextPlaceIs ==
    ASSUME RInv', NEW p
    PROVE  /\ p \notin published' => Place(p)' = "new"
           /\ p \in settled' => Place(p)' = "settled"
           /\ p \in published' \ settled' /\ Waiting(p)' => Place(p)' = "open"
           /\ p \in published' \ settled' /\ ~Waiting(p)' => Place(p)' = "buried"
  <1>1. settled' \subseteq published'
    BY DEF RInv, AInv, TInv, TypeOK
  <1>2. p \in published' \ settled' /\ ~Waiting(p)' => InLetters(p)'
    BY DEF RInv, Safe, Waiting, InHand, InOpenRetry, InOtherLetters, InLetters
  <1>3. QED
    BY <1>1, <1>2 DEF Place

\* A step after which no further message has a copy on its way buries those that have
\* none any more, and changes nothing else.
LEMMA OnlyBuries ==
    ASSUME RInv, RInv', UNCHANGED <<published, settled>>,
           \A p \in Payloads : Waiting(p)' => Waiting(p) \/ p \in settled
    PROVE  Promise!Next
  <1> DEFINE ps == {p \in Payloads : Place(p) = "open" /\ Place(p)' = "buried"}
  <1>1. ASSUME NEW p \in Payloads
        PROVE  Place(p)' = IF p \in ps THEN "buried" ELSE Place(p)
    BY PlaceIs, NextPlaceIs
  <1>2. Promise!Bury(ps)
    BY <1>1 DEF Promise!Bury
  <1>3. ps \in SUBSET Payloads
    OBVIOUS
  <1> HIDE DEF ps
  <1>4. QED
    BY <1>2, <1>3 DEF Promise!Next

\* A step that concerns one message moves it.
LEMMA OneMoves ==
    ASSUME RInv, RInv', NEW p \in Payloads,
           \A q \in Payloads \ {p} : /\ q \in published' <=> q \in published
                                     /\ q \in settled' <=> q \in settled
                                     /\ Waiting(q)' <=> Waiting(q)
    PROVE  Where' = [Where EXCEPT ![p] = Place(p)']
  <1>1. ASSUME NEW q \in Payloads \ {p}
        PROVE  Place(q)' = Place(q)
    BY PlaceIs, NextPlaceIs
  <1>2. QED
    BY <1>1 DEF Where

\* Each copy that is waiting after a step belongs to a message that was waiting.
LEMMA NoneComes ==
    ASSUME AInv, [CrashNext]_vars, NEW p,
           \A i \in Ids' : entries'[i].payload = p /\ (i > read' \/ i \in DOMAIN pel') => Waiting(p),
           \A c \in Consumers : \A i \in hand'[c] : entries'[i].payload = p => Waiting(p),
           \A e \in delayed' : e.payload = p => Waiting(p),
           \A c \in Consumers : carry'[c] # None /\ carry'[c].payload = p => Waiting(p)
    PROVE  Waiting(p)' => Waiting(p)
  <1>1. InStream(p)' => Waiting(p)
    BY DEF InStream
  <1>2. InHand(p)' => Waiting(p)
    BY DEF InHand
  <1>3. InRetry(p)' => Waiting(p)
    BY DEF InRetry
  <1>4. InPump(p)' => Waiting(p)
    BY DEF InPump
  <1>5. Waiting(p)' = (InStream(p)' \/ InHand(p)' \/ InRetry(p)' \/ InPump(p)')
    BY DEF Waiting
  <1>6. QED
    BY <1>1, <1>2, <1>3, <1>4, <1>5

\* The copies of a message, as facts about each place.
LEMMA Copies ==
    ASSUME NEW p
    PROVE  /\ \A i \in Ids : entries[i].payload = p /\ (i > read \/ i \in DOMAIN pel) => Waiting(p)
           /\ \A c \in Consumers : \A i \in hand[c] : entries[i].payload = p => Waiting(p)
           /\ \A e \in delayed : e.payload = p => Waiting(p)
           /\ \A c \in Consumers : carry[c] # None /\ carry[c].payload = p => Waiting(p)
  BY DEF Waiting, InStream, InHand, InRetry, InPump

LEMMA SameCopies ==
    ASSUME UNCHANGED <<entries, read, pel, hand, delayed, carry>>, NEW q
    PROVE  Waiting(q)' <=> Waiting(q)
  BY DEF Waiting, InStream, InHand, InRetry, InPump, Ids

LEMMA OtherCopies ==
    ASSUME AInv, NEW e \in Entry, entries' = Append(entries, e),
           UNCHANGED <<read, pel, hand, delayed, carry>>, NEW q, q # e.payload
    PROVE  Waiting(q)' <=> Waiting(q)
  <1>1. /\ Len(entries) \in Nat /\ Len(entries') = Len(entries) + 1
        /\ \A i \in 1 .. Len(entries) : entries'[i] = entries[i]
        /\ entries'[Len(entries) + 1] = e
    BY Appended DEF AInv, TInv, TypeOK
  <1>2. \A i \in Ids' : i \in Ids \/ entries'[i] = e
    BY <1>1 DEF Ids
  <1>3. Ids \subseteq Ids' /\ \A i \in Ids : entries'[i] = entries[i]
    BY <1>1 DEF Ids
  <1>4. InStream(q)' <=> InStream(q)
    BY <1>2, <1>3 DEF InStream
  <1>5. \A c \in Consumers : \A i \in hand[c] : i \in Ids
    BY DEF AInv, TInv, TypeOK, Ids
  <1>6. InHand(q)' <=> InHand(q)
    BY <1>3, <1>5 DEF InHand
  <1>7. QED
    BY <1>4, <1>6 DEF Waiting, InRetry, InPump

\* What a worker does to the copies of a message, but for settling it.
LEMMA LoopBuries ==
    ASSUME AInv, NEW c \in Consumers, Loop(c), ~ \E i \in hand[c] : Apply(c, i), NEW p
    PROVE  Waiting(p)' => Waiting(p)
  <1>1. CrashNext
    BY DEF CrashNext, Next
  <1>2. /\ read \in Nat /\ \A d \in Consumers : \A i \in hand[d] : i \in Ids
        /\ DOMAIN pel \subseteq Ids
    BY DEF AInv, TInv, TypeOK, Ids
  <1>3. CASE Scan(c)
    BY <1>3, SameCopies DEF Scan, streamVars
  <1>4. CASE ClaimStale(c)
    <2>1. PICK batch \in SUBSET Stale : Give(batch, c) /\ hand' = [hand EXCEPT ![c] = batch]
      BY <1>4 DEF ClaimStale
    <2>2. /\ UNCHANGED <<entries, read, delayed, carry>> /\ DOMAIN pel' = DOMAIN pel
          /\ batch \subseteq DOMAIN pel
      BY <1>4, <2>1 DEF ClaimStale, Give, Stale, streamVars
    <2>3. \A d \in Consumers : \A i \in hand'[d] : i \in hand[d] \/ i \in DOMAIN pel
      BY <2>1, <2>2 DEF AInv, TInv, TypeOK
    <2>4. QED
      BY <1>1, <1>2, <2>2, <2>3, Copies, NoneComes DEF Ids
  <1>5. CASE Consume(c)
    <2>1. /\ UNCHANGED <<entries, delayed, carry>>
          /\ DOMAIN pel' = DOMAIN pel \cup (read + 1 .. read')
          /\ hand' = [hand EXCEPT ![c] = @ \cup (read + 1 .. read')]
      BY <1>5 DEF Consume, Give
    <2>2. read' \in Nat /\ read <= read' /\ read' <= Len(entries) /\ Len(entries) \in Nat
      <3>1. TInv'
        BY <1>1, NextTInv DEF AInv
      <3>2. QED
        BY <1>1, <2>1, <3>1, AckedForGood DEF AInv, TInv, TypeOK
    <2>3. \A i \in read + 1 .. read' : i \in Ids /\ i > read
      BY <1>2, <2>2 DEF Ids
    <2>4. \A d \in Consumers : \A i \in hand'[d] : i \in hand[d] \/ i \in read + 1 .. read'
      BY <2>1 DEF AInv, TInv, TypeOK
    <2>5. \A i \in Ids : i > read' => i > read
      BY <1>2, <2>2 DEF Ids
    <2>6. QED
      BY <1>1, <1>2, <2>1, <2>3, <2>4, <2>5, Copies, NoneComes DEF Ids
  <1>6. ASSUME NEW e \in due[c], PumpRemove(c, e)
        PROVE  Waiting(p)' => Waiting(p)
    <2>1. /\ UNCHANGED <<entries, read, pel, hand>> /\ delayed' \subseteq delayed
          /\ \A d \in Consumers : carry'[d] = carry[d] \/ (carry'[d] = e /\ e \in delayed)
      BY <1>6 DEF AInv, TInv, TypeOK, PumpRemove, streamVars
    <2>2. QED
      BY <1>1, <2>1, Copies, NoneComes DEF Ids
  <1>7. CASE PumpPublish(c)
    <2> DEFINE e == [payload |-> carry[c].payload, attempt |-> carry[c].attempt]
    <2>1. e \in Entry /\ entries' = Append(entries, e) /\ e.payload = carry[c].payload
      BY <1>7 DEF AInv, TInv, TypeOK, PumpPublish, Envelope, Entry
    <2>2. /\ UNCHANGED <<read, pel, hand, delayed>> /\ carry[c] # None
          /\ \A d \in Consumers : carry'[d] \in {None, carry[d]}
      BY <1>7 DEF AInv, TInv, TypeOK, PumpPublish
    <2>3. \A i \in Ids' : i \in Ids \/ entries'[i].payload = carry[c].payload
      BY <2>1, Appended DEF AInv, TInv, TypeOK, Ids
    <2>4. \A i \in Ids : entries'[i] = entries[i]
      BY <1>1, Growth DEF AInv
    <2>5. QED
      BY <1>1, <1>2, <2>2, <2>3, <2>4, Copies, NoneComes
  <1>8. ASSUME NEW i \in hand[c], AckApplied(c, i) \/ Fail(c, i) \/ Escape(c, i)
        PROVE  Waiting(p)' => Waiting(p)
    <2>1. /\ UNCHANGED <<entries, read, delayed>> /\ DOMAIN pel' \subseteq DOMAIN pel
          /\ \A d \in Consumers : hand'[d] \subseteq hand[d] /\ carry'[d] \in {None, carry[d]}
      BY <1>8 DEF AInv, TInv, TypeOK, AckApplied, Fail, Escape, Restart, Finished, Ack,
                  streamVars
    <2>2. QED
      BY <1>1, <2>1, Copies, NoneComes DEF Ids
  <1>9. ASSUME NEW i \in hand[c], Requeue(c, i)
        PROVE  Waiting(p)' => Waiting(p)
    <2> DEFINE e == [origin |-> i, by |-> c, payload |-> entries[i].payload,
                     attempt |-> entries[i].attempt + 1,
                     due |-> RetryDelay * entries[i].attempt]
    <2>1. e.payload = entries[i].payload /\ delayed' = delayed \cup {e}
      BY <1>9 DEF Requeue
    <2> HIDE DEF e
    <2>2. /\ UNCHANGED <<entries, read, pel, carry>>
          /\ \A d \in Consumers : hand'[d] \subseteq hand[d]
      BY <1>9 DEF AInv, TInv, TypeOK, Requeue, Finished, streamVars
    <2>3. QED
      BY <1>1, <2>1, <2>2, Copies, NoneComes DEF Ids
  <1>10. ASSUME NEW i \in hand[c], BuryLetter(c, i)
         PROVE  Waiting(p)' => Waiting(p)
    <2>1. /\ UNCHANGED <<entries, read, pel, delayed, carry>>
          /\ \A d \in Consumers : hand'[d] \subseteq hand[d]
      BY <1>10 DEF AInv, TInv, TypeOK, BuryLetter, Finished, streamVars
    <2>2. QED
      BY <1>1, <2>1, Copies, NoneComes DEF Ids
  <1>11. QED
    BY <1>3, <1>4, <1>5, <1>6, <1>7, <1>8, <1>9, <1>10 DEF Loop, Pump, Process

LEMMA StepIsStep ==
    ASSUME RInv, [Next]_vars, RInv'
    PROVE  Promise!Next \/ UNCHANGED Where
  <1>1. ASSUME NEW c \in Consumers, Loop(c), ~ \E i \in hand[c] : Apply(c, i)
        PROVE  Promise!Next
    <2>1. UNCHANGED <<published, settled>>
      BY <1>1 DEF Loop, Pump, Process, Scan, PumpRemove, PumpPublish, ClaimStale, Consume,
                  AckApplied, Fail, Requeue, BuryLetter, Escape, Restart, streamVars, workVars
    <2>2. QED
      BY <1>1, <2>1, LoopBuries, OnlyBuries DEF RInv
  <1>2. ASSUME NEW c \in Consumers, NEW i \in hand[c], Apply(c, i)
        PROVE  Promise!Next \/ UNCHANGED Where
    <2> DEFINE p == entries[i].payload
    <2>1. /\ UNCHANGED <<published, entries, read, pel, hand, delayed, carry>>
          /\ settled' = settled \cup {p}
      BY <1>2 DEF Apply, streamVars
    <2>2. p \in Payloads /\ p \in published /\ Waiting(p)
      <3>1. i \in Ids
        BY DEF RInv, AInv, TInv, TypeOK, Ids
      <3>2. QED
        BY <3>1, Copies DEF RInv, AInv, TInv, TypeOK, Known, Ids, Entry
    <2>3. Where' = [Where EXCEPT ![p] = "settled"]
      <3>1. Place(p)' = "settled"
        BY <2>1, NextPlaceIs
      <3>2. QED
        BY <2>1, <2>2, <3>1, SameCopies, OneMoves
    <2>4. Where[p] \in {"open", "settled"}
      BY <2>2, PlaceIs DEF Where
    <2>5. CASE Where[p] = "open"
      BY <2>2, <2>3, <2>5 DEF Promise!Next, Promise!Settle, Promise!Move, Where
    <2>6. CASE Where[p] = "settled"
      BY <2>3, <2>6 DEF Where
    <2>7. QED
      BY <2>4, <2>5, <2>6
  <1>3. ASSUME NEW p \in Payloads, Publish(p)
        PROVE  Promise!Next
    <2> DEFINE e == [payload |-> p, attempt |-> 1]
    <2>1. e \in Entry /\ e.payload = p /\ entries' = Append(entries, e)
      BY <1>3, QueueAssumption DEF Publish, Entry, Attempts
    <2>2. /\ UNCHANGED <<read, pel, hand, delayed, carry, settled>>
          /\ p \notin published /\ published' = published \cup {p}
      BY <1>3 DEF Publish, workVars
    <2>3. Place(p) = "new" /\ Place(p)' = "open"
      <3>1. Waiting(p)'
        BY <2>1, <2>2, NewEntry DEF RInv, Waiting
      <3>2. p \notin settled'
        BY <2>2 DEF RInv, AInv, TInv, TypeOK
      <3>3. QED
        BY <2>2, <3>1, <3>2, PlaceIs, NextPlaceIs
    <2>4. Where' = [Where EXCEPT ![p] = "open"]
      BY <2>1, <2>2, <2>3, OtherCopies, OneMoves DEF RInv
    <2>5. QED
      BY <2>3, <2>4 DEF Promise!Next, Promise!Publish, Promise!Move, Where
  <1>4. ASSUME NEW d \in dead, ReplayPublish(d)
        PROVE  Promise!Next \/ UNCHANGED Where
    <2> DEFINE p == d.payload
               e == [payload |-> p, attempt |-> 1]
    <2>1. e \in Entry /\ e.payload = p /\ entries' = Append(entries, e)
          /\ p \in Payloads /\ p \in published
      BY <1>4, QueueAssumption
         DEF ReplayPublish, Entry, Attempts, RInv, AInv, TInv, TypeOK, Known, DeadLetter
    <2>2. UNCHANGED <<read, pel, hand, delayed, carry, settled, published>>
      BY <1>4 DEF ReplayPublish, workVars
    <2>3. p \notin settled => Place(p)' = "open" /\ Place(p) \in {"open", "buried"}
      <3>1. Waiting(p)'
        BY <2>1, <2>2, NewEntry DEF RInv, Waiting
      <3>2. QED
        BY <2>1, <2>2, <3>1, PlaceIs, NextPlaceIs
    <2>4. p \in settled => Place(p)' = Place(p)
      BY <2>1, <2>2, PlaceIs, NextPlaceIs
    <2>5. Where' = [Where EXCEPT ![p] = Place(p)']
      BY <2>1, <2>2, OtherCopies, OneMoves DEF RInv
    <2>6. CASE Place(p)' = Place(p)
      BY <2>1, <2>5, <2>6 DEF Where
    <2>7. CASE Place(p) = "buried" /\ Place(p)' = "open"
      BY <2>1, <2>5, <2>7 DEF Promise!Next, Promise!Replay, Promise!Move, Where
    <2>8. QED
      BY <2>3, <2>4, <2>6, <2>7
  <1>5. CASE ReplayDelete \/ UNCHANGED vars
    <2>1. UNCHANGED <<published, settled, entries, read, pel, hand, delayed, carry>>
      BY <1>5 DEF ReplayDelete, streamVars, workVars, vars
    <2>2. QED
      BY <2>1, SameCopies, OnlyBuries
  <1>6. CASE Tick
    <2>1. /\ UNCHANGED <<published, settled, entries, read, hand, carry>>
          /\ DOMAIN pel' = DOMAIN pel
      BY <1>6 DEF Tick, streamVars, workVars
    <2>2. ASSUME NEW f \in delayed'
          PROVE  \E e \in delayed : f.payload = e.payload
      <3>1. PICK e \in delayed : f = [e EXCEPT !.due = IF @ > 0 THEN @ - 1 ELSE 0]
        BY <1>6 DEF Tick
      <3>2. e \in Envelope
        BY DEF RInv, AInv, TInv, TypeOK
      <3>3. QED
        BY <3>1, <3>2 DEF Envelope
    <2>3. ASSUME NEW p
          PROVE  Waiting(p)' => Waiting(p)
      BY <2>1, <2>2, Copies, NoneComes DEF RInv, CrashNext, Ids
    <2>4. QED
      BY <2>1, <2>3, OnlyBuries
  <1>7. QED
    BY <1>1, <1>2, <1>3, <1>4, <1>5, <1>6 DEF Next

\* However late its workers are, the stream with its retries and its dead letters is
\* the abstract work queue, as long as nobody dies between two commands: each command
\* moves messages as WorkQueue allows, or is a step that a reader of the promise does
\* not see.
THEOREM IsWorkQueue == Spec => Promise!Spec
  <1>1. Init => Promise!Init
    <2>1. Init => \A p \in Payloads : Place(p) = "new"
      BY DEF Init, Place
    <2>2. QED
      BY <2>1 DEF Promise!Init
  <1>2. RInv /\ [Next]_vars /\ RInv' => [Promise!Next]_Where
    BY StepIsStep
  <1>3. QED
    BY <1>1, <1>2, SafeInvariance, PTL DEF Spec, Promise!Spec, Where
=============================================================================
