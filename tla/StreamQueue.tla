----------------------------- MODULE StreamQueue -----------------------------
(***************************************************************************)
(* A processing stream and its consumer group: coordination/queues.py, and *)
(* the loop in which the cleaning, LLM and embedding workers use it        *)
(* (process_batch, process_message).                                       *)
(*                                                                         *)
(* Redis keeps the entries of the stream in the order of their ids, the id *)
(* up to which the group has read, the pending entries list (who was given *)
(* an entry that is not acknowledged, and how long ago), the sorted set of *)
(* delayed retries and the dead-letter stream.  Each of these commands is  *)
(* atomic; a sequence of them is not, so an action is one command and what *)
(* the worker keeps in memory between two commands is lost when it dies.   *)
(*                                                                         *)
(* Times are the time left (delayed retries) or gone by (pending entries), *)
(* up to the value from which the code no longer tells them apart.         *)
(***************************************************************************)
EXTENDS Integers, FiniteSets, Sequences

CONSTANTS
    Payloads,     \* what the producers publish, each once
    Malformed,    \* payloads that fail validation
    Fatal,        \* payloads whose exception escapes process_message
    Consumers,    \* the workers of the group
    None,         \* no envelope
    MaxAttempts,  \* max_attempts
    Batch,        \* batch_size
    StaleTime,    \* stale_claim_ms
    RetryDelay,   \* retry_delay_seconds
    MaxReplays,   \* bound: how often an operator replays a dead letter
    Punctual      \* TRUE: a worker finishes its batch within StaleTime

ASSUME QueueAssumption ==
    /\ Malformed \subseteq Payloads
    /\ Fatal \subseteq Payloads \ Malformed
    /\ MaxAttempts \in Nat \ {0}
    /\ Batch \in Nat \ {0}
    /\ StaleTime \in Nat \ {0}
    /\ RetryDelay \in Nat \ {0}
    /\ MaxReplays \in Nat
    /\ Punctual \in BOOLEAN

VARIABLES
    published,  \* payloads the producers have published
    entries,    \* the stream: a sequence, an entry's id is its index
    read,       \* the group's last-delivered id
    pel,        \* the pending entries list: id -> consumer and idle time
    delayed,    \* the sorted set of envelopes waiting for their retry
    dead,       \* the dead-letter stream
    step,       \* where each worker is in its loop
    due,        \* the envelopes a worker's pump_delayed has still to move
    carry,      \* the envelope a pump has removed and not yet published
    hand,       \* the ids of a worker's batch that are still to be finished
    settled,    \* payloads whose processing is committed (done or rejected)
    failures,   \* ids whose processing a worker has logged as failed
    replaying,  \* the dead letter an operator has republished, not yet deleted
    replays     \* how often a dead letter has been replayed

vars == <<published, entries, read, pel, delayed, dead, step, due, carry, hand,
          settled, failures, replaying, replays>>
streamVars == <<published, entries, read>>
workVars == <<settled, failures>>
replayVars == <<replaying, replays>>

-----------------------------------------------------------------------------
Attempts == 1 .. MaxAttempts
Ids == 1 .. Len(entries)
Entry == [payload : Payloads, attempt : Attempts]
Pending == [consumer : Consumers, idle : 0 .. StaleTime]
Envelope == [origin : Nat, by : Consumers, payload : Payloads,
             attempt : Attempts, due : 0 .. RetryDelay * MaxAttempts]
DeadLetter == [origin : Nat, by : Consumers, payload : Payloads]
ASSUME NoneAssumption == None \notin Envelope

Steps == {"scan", "pump", "claim", "consume", "work", "applied", "failing"}

\* The message a worker is at: batches are processed in the order of the ids, the
\* claimed entries (already delivered) before the new ones.
At(c, i) == i \in hand[c] /\ \A j \in hand[c] : i <= j

\* The n lowest ids of a set, all of them if there are fewer.
IsLowest(batch, ids, n) ==
    /\ batch \subseteq ids
    /\ \A i \in batch, j \in ids \ batch : i < j
    /\ \/ Cardinality(batch) = n
       \/ Cardinality(batch) < n /\ batch = ids

Ack(i) == pel' = [k \in DOMAIN pel \ {i} |-> pel[k]]
Give(ids, c) ==
    pel' = [k \in DOMAIN pel \cup ids |->
               IF k \in ids THEN [consumer |-> c, idle |-> 0] ELSE pel[k]]
Goto(c, s) == step' = [step EXCEPT ![c] = s]

Init ==
    /\ published = {} /\ entries = <<>> /\ read = 0
    /\ pel = [i \in {} |-> None]
    /\ delayed = {} /\ dead = {}
    /\ step = [c \in Consumers |-> "scan"]
    /\ due = [c \in Consumers |-> {}]
    /\ carry = [c \in Consumers |-> None]
    /\ hand = [c \in Consumers |-> {}]
    /\ settled = {} /\ failures = {}
    /\ replaying = None /\ replays = 0

-----------------------------------------------------------------------------
(* Producers: publish is one XADD.                                         *)
Publish(p) ==
    /\ p \notin published
    /\ published' = published \cup {p}
    /\ entries' = Append(entries, [payload |-> p, attempt |-> 1])
    /\ UNCHANGED <<read, pel, delayed, dead, step, due, carry, hand, workVars, replayVars>>

-----------------------------------------------------------------------------
(* pump_delayed: read the due envelopes, then move them one by one.  The worker  *)
(* whose ZREM removes an envelope publishes it, the others skip it.          *)
Scan(c) ==
    /\ step[c] = "scan"
    /\ due' = [due EXCEPT ![c] = {e \in delayed : e.due = 0}]
    /\ Goto(c, IF due'[c] = {} THEN "claim" ELSE "pump")
    /\ UNCHANGED <<streamVars, pel, delayed, dead, carry, hand, workVars, replayVars>>

PumpRemove(c, e) ==
    /\ step[c] = "pump" /\ carry[c] = None
    /\ e \in due[c]
    /\ due' = [due EXCEPT ![c] = @ \ {e}]
    /\ delayed' = delayed \ {e}
    /\ IF e \in delayed
       THEN carry' = [carry EXCEPT ![c] = e] /\ UNCHANGED step
       ELSE Goto(c, IF due'[c] = {} THEN "claim" ELSE "pump") /\ UNCHANGED carry
    /\ UNCHANGED <<streamVars, pel, dead, hand, workVars, replayVars>>

PumpPublish(c) ==
    /\ step[c] = "pump" /\ carry[c] # None
    /\ entries' = Append(entries, [payload |-> carry[c].payload, attempt |-> carry[c].attempt])
    /\ carry' = [carry EXCEPT ![c] = None]
    /\ Goto(c, IF due[c] = {} THEN "claim" ELSE "pump")
    /\ UNCHANGED <<published, read, pel, delayed, dead, due, hand, workVars, replayVars>>

\* claim_stale: pending entries idle for StaleTime become this worker's.
\* Mutant of Stale: every pending entry can be claimed, however short it is idle.
StaleAtOnce == DOMAIN pel
Stale == {i \in DOMAIN pel : pel[i].idle >= StaleTime}
ClaimStale(c) ==
    /\ step[c] = "claim"
    /\ \E batch \in SUBSET Stale :
          /\ IsLowest(batch, Stale, Batch)
          /\ Give(batch, c)
          /\ hand' = [hand EXCEPT ![c] = batch]
    /\ Goto(c, "consume")
    /\ UNCHANGED <<streamVars, delayed, dead, due, carry, workVars, replayVars>>

\* consume: the next unread entries; the count is what claim_stale left of the
\* batch, "or 1" when it left nothing.
Consume(c) ==
    /\ step[c] = "consume"
    /\ LET left  == Batch - Cardinality(hand[c])
           count == IF left = 0 THEN 1 ELSE left
           upto  == IF read + count <= Len(entries) THEN read + count ELSE Len(entries)
       IN  /\ read' = upto
           /\ Give(read + 1 .. upto, c)
           /\ hand' = [hand EXCEPT ![c] = @ \cup (read + 1 .. upto)]
    /\ Goto(c, IF hand'[c] = {} THEN "scan" ELSE "work")
    /\ UNCHANGED <<published, entries, delayed, dead, due, carry, workVars, replayVars>>

-----------------------------------------------------------------------------
(* process_message.                                                        *)

\* The message is finished; the worker goes on with its batch.
Finished(c, i) ==
    /\ hand' = [hand EXCEPT ![c] = @ \ {i}]
    /\ Goto(c, IF hand'[c] = {} THEN "scan" ELSE "work")

\* Mutant of Apply: the transaction is not committed.
ApplyUncommitted(c, i) ==
    /\ step[c] = "work" /\ At(c, i)
    /\ entries[i].payload \notin Malformed \cup Fatal
    /\ Goto(c, "applied")
    /\ UNCHANGED <<streamVars, pel, delayed, dead, due, carry, hand, workVars, replayVars>>

\* The handler's transaction commits: the message is processed, or rejected as
\* unusable, for good.
Apply(c, i) ==
    /\ step[c] = "work" /\ At(c, i)
    /\ entries[i].payload \notin Malformed \cup Fatal
    /\ settled' = settled \cup {entries[i].payload}
    /\ Goto(c, "applied")
    /\ UNCHANGED <<streamVars, pel, delayed, dead, due, carry, hand, failures, replayVars>>

\* ... and only then is the entry acknowledged.
AckApplied(c, i) ==
    /\ step[c] = "applied" /\ At(c, i)
    /\ Ack(i)
    /\ Finished(c, i)
    /\ UNCHANGED <<streamVars, delayed, dead, due, carry, workVars, replayVars>>

\* The handler raises: retry acknowledges the entry first ...
Fail(c, i) ==
    /\ step[c] = "work" /\ At(c, i)
    /\ entries[i].payload \notin Fatal
    /\ Ack(i)
    /\ failures' = failures \cup {i}
    /\ Goto(c, "failing")
    /\ UNCHANGED <<streamVars, delayed, dead, due, carry, hand, settled, replayVars>>

\* ... and then writes the retry, or the dead letter when the attempts are spent.
\* A malformed payload is handed to retry with its attempts spent.
\* Mutants of Exhausted: one attempt too many; one too few.
ExhaustedLate(entry) == entry.payload \in Malformed \/ entry.attempt > MaxAttempts
ExhaustedEarly(entry) == entry.payload \in Malformed \/ entry.attempt + 1 >= MaxAttempts
Exhausted(entry) == entry.payload \in Malformed \/ entry.attempt >= MaxAttempts
Requeue(c, i) ==
    LET entry == entries[i]
    IN  /\ step[c] = "failing" /\ At(c, i)
        /\ ~Exhausted(entry)
        /\ delayed' = delayed \cup
             {[origin |-> i, by |-> c, payload |-> entry.payload,
               attempt |-> entry.attempt + 1, due |-> RetryDelay * entry.attempt]}
        /\ Finished(c, i)
        /\ UNCHANGED <<streamVars, pel, dead, due, carry, workVars, replayVars>>

\* Mutant of BuryLetter: the exhausted message is dropped.
BuryLetterDropped(c, i) ==
    /\ step[c] = "failing" /\ At(c, i)
    /\ Exhausted(entries[i])
    /\ Finished(c, i)
    /\ UNCHANGED <<streamVars, pel, delayed, dead, due, carry, workVars, replayVars>>

BuryLetter(c, i) ==
    LET entry == entries[i]
    IN  /\ step[c] = "failing" /\ At(c, i)
        /\ Exhausted(entry)
        /\ dead' = dead \cup {[origin |-> i, by |-> c, payload |-> entry.payload]}
        /\ Finished(c, i)
        /\ UNCHANGED <<streamVars, pel, delayed, due, carry, workVars, replayVars>>

-----------------------------------------------------------------------------
(* The worker process ends and is started again: what it held in memory is gone.  *)
Restart(c) ==
    /\ Goto(c, "scan")
    /\ due' = [due EXCEPT ![c] = {}]
    /\ carry' = [carry EXCEPT ![c] = None]
    /\ hand' = [hand EXCEPT ![c] = {}]
    /\ UNCHANGED <<streamVars, pel, delayed, dead, workVars, replayVars>>

Crash(c) ==
    /\ step[c] # "scan"
    /\ Restart(c)

\* An exception that process_message does not catch ends the worker.
Escape(c, i) ==
    /\ step[c] = "work" /\ At(c, i)
    /\ entries[i].payload \in Fatal
    /\ Restart(c)

\* replay_dead_letters: publish to the origin stream, then XDEL the dead letter.
\* When the operator's process dies in between, the dead letter stays.
ReplayPublish(d) ==
    /\ replaying = None /\ replays < MaxReplays
    /\ d \in dead
    /\ entries' = Append(entries, [payload |-> d.payload, attempt |-> 1])
    /\ replaying' = d
    /\ replays' = replays + 1
    /\ UNCHANGED <<published, read, pel, delayed, dead, step, due, carry, hand, workVars>>

ReplayDelete ==
    /\ replaying # None
    /\ dead' = dead \ {replaying}
    /\ replaying' = None
    /\ UNCHANGED <<streamVars, pel, delayed, step, due, carry, hand, workVars, replays>>

ReplayDies ==
    /\ replaying # None
    /\ replaying' = None
    /\ UNCHANGED <<streamVars, pel, delayed, dead, step, due, carry, hand, workVars, replays>>

-----------------------------------------------------------------------------
\* One unit of time passes.  With punctual workers a batch is finished before its
\* entries are stale.
Tick ==
    /\ Punctual => \A c \in Consumers : \A i \in hand[c] \cap DOMAIN pel :
                      pel[i].idle + 1 < StaleTime
    /\ pel' = [i \in DOMAIN pel |->
                 [pel[i] EXCEPT !.idle = IF @ < StaleTime THEN @ + 1 ELSE @]]
    /\ delayed' = {[e EXCEPT !.due = IF @ > 0 THEN @ - 1 ELSE 0] : e \in delayed}
    /\ UNCHANGED <<streamVars, dead, step, due, carry, hand, workVars, replayVars>>

Pump(c) == \E e \in due[c] : PumpRemove(c, e)
Process(c) ==
    \E i \in hand[c] :
        \/ Apply(c, i) \/ AckApplied(c, i)
        \/ Fail(c, i) \/ Requeue(c, i) \/ BuryLetter(c, i)
        \/ Escape(c, i)
Loop(c) == Scan(c) \/ Pump(c) \/ PumpPublish(c) \/ ClaimStale(c) \/ Consume(c) \/ Process(c)

Next ==
    \/ \E p \in Payloads : Publish(p)
    \/ \E c \in Consumers : Loop(c)
    \/ \E d \in dead : ReplayPublish(d)
    \/ ReplayDelete
    \/ Tick

Crashes == ReplayDies \/ \E c \in Consumers : Crash(c)

\* Processes that do not die, and processes that may die between any two commands.
Spec == Init /\ [][Next]_vars
CrashSpec == Init /\ [][Next \/ Crashes]_vars

\* Fairness: time passes and every worker goes on with its loop.
FairSpec == Spec /\ WF_vars(Tick) /\ \A c \in Consumers : WF_vars(Loop(c))

-----------------------------------------------------------------------------
(* What the queue promises.                                                *)

\* Every variable holds values of its type; batches are within their bound.
TypeOK ==
    /\ published \subseteq Payloads /\ settled \subseteq published
    /\ entries \in Seq(Entry) /\ read \in 0 .. Len(entries)
    /\ pel \in [DOMAIN pel -> Pending] /\ DOMAIN pel \subseteq 1 .. read
    /\ delayed \subseteq Envelope /\ dead \subseteq DeadLetter
    /\ step \in [Consumers -> Steps]
    /\ due \in [Consumers -> SUBSET Envelope]
    /\ carry \in [Consumers -> Envelope \cup {None}]
    /\ hand \in [Consumers -> SUBSET (1 .. read)]
    /\ \A c \in Consumers : Cardinality(hand[c]) <= Batch + 1
    /\ failures \subseteq 1 .. read
    /\ replaying \in DeadLetter \cup {None} /\ replays \in 0 .. MaxReplays

\* The places where a copy of a message can be: waiting in the stream, pending, in
\* a worker's batch, in an open retry, among the delayed retries, in a pump.
InStream(p)  == \E i \in Ids : entries[i].payload = p /\ (i > read \/ i \in DOMAIN pel)
InHand(p)    == \E c \in Consumers : \E i \in hand[c] : entries[i].payload = p
InRetry(p)   == \E e \in delayed : e.payload = p
InPump(p)    == \E c \in Consumers : carry[c] # None /\ carry[c].payload = p
InLetters(p) == \E d \in dead : d.payload = p
Waiting(p)   == InStream(p) \/ InHand(p) \/ InRetry(p) \/ InPump(p)

\* docs/architecture.md: at-least-once delivery.  A published message is settled,
\* or a copy of it is on its way to a worker, or it is among the dead letters.
NothingLost == \A p \in published : p \in settled \/ Waiting(p) \/ InLetters(p)

\* queues.py: "Ack (or retry/dead-letter) when done".  An entry that is no longer
\* pending was settled, or its processing has failed: what a worker that dies can
\* lose is only the retry of a failed message.
AckedIsFinished ==
    \A i \in Ids : i <= read /\ i \notin DOMAIN pel
                      => entries[i].payload \in settled \/ i \in failures

\* A worker only works on entries that are pending under its name, and no two
\* workers on the same one, so the entry it acknowledges is never another's.
SoleConsumer ==
    \A c \in Consumers : \A i \in hand[c] :
        /\ \A d \in Consumers \ {c} : i \notin hand[d]
        /\ IF step[c] = "failing" /\ At(c, i)
           THEN i \notin DOMAIN pel
           ELSE i \in DOMAIN pel /\ pel[i].consumer = c

\* A message is dead-lettered only after it failed max_attempts times, or because it
\* is malformed; counted over all copies of it, and over replays.
LettersAreExhausted ==
    \A d \in dead : d.payload \notin Malformed =>
        MaxAttempts <= Cardinality({i \in failures : entries[i].payload = d.payload})

\* Where a message is, for a reader who sees only the promise of the queue.
Place(p) ==
    CASE p \notin published -> "new"
      [] p \in settled -> "settled"
      [] p \in published \ settled /\ Waiting(p) -> "open"
      [] p \in published \ settled /\ ~Waiting(p) /\ InLetters(p) -> "buried"
      [] OTHER -> "lost"
Promise == INSTANCE WorkQueue WITH where <- [p \in Payloads |-> Place(p)]

\* As long as no process dies, however late its workers are, the stream with its
\* delayed set and its dead letters is such a work queue: no message falls out of
\* it, none that is settled comes back, and with workers that go on every message
\* is settled or buried in the end.
IsFairWorkQueue == Promise!FairSpec
=============================================================================
