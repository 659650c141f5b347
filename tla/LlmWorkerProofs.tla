---------------------------- MODULE LlmWorkerProofs ----------------------------
(***************************************************************************)
(* Theorems about LlmWorker, for any number of workers and articles, any   *)
(* chain of providers, any number of retries, and any number of deaths and *)
(* of messages that are given to a second worker.                          *)
(***************************************************************************)
EXTENDS LlmWorker, FiniteSetTheorems, TLAPS

\* A provider that will not be asked again: all its retries are used up, or it refused.
Spent(j, k) == j.calls[chain[k]] = Retries(chain[k]) \/ chain[k] \in j.refused

\* Where on the ladder a job is, and what it has asked so far.
LadderOK(j) ==
    /\ \A k \in 1 .. Len(chain) : j.calls[chain[k]] <= Retries(chain[k])
    /\ \A k \in 1 .. Len(chain) : k > j.i => j.calls[chain[k]] = 0 /\ chain[k] \notin j.refused
    /\ \A k \in 1 .. Len(chain) : k < j.i => Spent(j, k)
    /\ j.at = "call" => /\ j.calls[Provider(j)] = j.attempt - 1
                        /\ j.attempt <= Retries(Provider(j))
    /\ j.at = "failure" => j.i = Len(chain) /\ Spent(j, j.i)
    /\ j.at # "failure" => Provider(j) \notin j.refused

JobOK(j) ==
    /\ j.at \in {"call", "failure"} \/ j.calls # NoCalls => LadderOK(j)
    /\ j.at \in {"commit", "ack"} => j.calls = NoCalls
    /\ j.at = "ack" => j.tokens = 0
    /\ j.summary <=> j.of \in Summarized

JobsOK == \A w \in Workers : job[w] # None => JobOK(job[w])

\* What is about to be acknowledged has been analysed.
AcksOK == \A w \in Workers : job[w] # None /\ job[w].at = "ack" => Extracted(job[w].of)

\* The workers whose analysis of the article may still be written.
AtWork(a) == {w \in Workers : job[w] # None /\ job[w].of = a /\ job[w].at # "ack"}
ExtractionsOK == \A a \in Articles : rows[a].completed + Cardinality(AtWork(a)) <= 1 + overlaps[a]

IInv == TypeOK /\ JobsOK /\ AcksOK /\ AnalysisIsWhole /\ ExtractionsOK /\ PaidIsRecorded

-----------------------------------------------------------------------------
(* The chain and the rungs of the ladder.                                  *)

LEMMA RetriesType == ASSUME NEW p PROVE Retries(p) \in Nat \ {0}
  BY LlmWorkerAssumption DEF Retries

LEMMA ProviderType ==
    ASSUME TypeOK, NEW w \in Workers, job[w] # None
    PROVE  /\ job[w] \in Job
           /\ job[w].i \in 1 .. Len(chain) /\ Len(chain) \in Nat
           /\ Provider(job[w]) = chain[job[w].i] /\ Provider(job[w]) \in Providers
  <1>1. job[w] \in Job
    BY DEF TypeOK
  <1>2. job[w].i \in 1 .. Len(chain) /\ Len(chain) \in Nat
    BY <1>1 DEF TypeOK, Job
  <1>3. QED
    BY <1>1, <1>2 DEF TypeOK, Provider

LEMMA ChainIsOnce ==
    ASSUME TypeOK, NEW k \in 1 .. Len(chain), NEW l \in 1 .. Len(chain), chain[k] = chain[l]
    PROVE  k = l
  BY DEF TypeOK, IsInjective

LEMMA ChainType ==
    ASSUME TypeOK, NEW k \in 1 .. Len(chain)
    PROVE  chain[k] \in Providers
  BY DEF TypeOK

\* What one call makes of a job: the same provider again, the next one, none, or an answer.
Climb(j, k) ==
    /\ k.calls = [j.calls EXCEPT ![Provider(j)] = @ + 1]
    /\ k.refused \in {j.refused, j.refused \cup {Provider(j)}}
    /\ \/ k.at = "call" /\ k.i = j.i /\ k.refused = j.refused
          /\ k.attempt = j.attempt + 1 /\ k.attempt <= Retries(Provider(j))
       \/ k.at = "call" /\ k.i = j.i + 1 /\ k.i <= Len(chain) /\ k.attempt = 1
          /\ (j.attempt = Retries(Provider(j)) \/ Provider(j) \in k.refused)
       \/ k.at = "failure" /\ k.i = j.i /\ k.i = Len(chain)
          /\ (j.attempt = Retries(Provider(j)) \/ Provider(j) \in k.refused)
       \/ k.at = "link" /\ k.i = j.i /\ k.refused = j.refused

LEMMA ClimbIsLadder ==
    ASSUME TypeOK, NEW w \in Workers, job[w] # None, job[w].at = "call", LadderOK(job[w]),
           NEW k, Climb(job[w], k)
    PROVE  LadderOK(k)
  <1> DEFINE j == job[w]
             p == Provider(j)
  <1>1. /\ j \in Job /\ j.i \in 1 .. Len(chain) /\ Len(chain) \in Nat
        /\ p = chain[j.i] /\ p \in Providers
    BY ProviderType
  <1>2. j.calls \in [Providers -> Nat] /\ j.attempt \in Nat \ {0} /\ j.calls[p] = j.attempt - 1
        /\ j.attempt <= Retries(p) /\ p \notin j.refused
    BY <1>1 DEF Job, LadderOK
  <1>3. \A l \in 1 .. Len(chain) : chain[l] \in Providers /\ (l # j.i => chain[l] # p)
    BY <1>1, ChainIsOnce, ChainType
  <1>4. k.calls[p] = j.attempt /\ \A l \in 1 .. Len(chain) : l # j.i => k.calls[chain[l]] = j.calls[chain[l]]
    BY <1>1, <1>2, <1>3 DEF Climb
  <1>5. \A l \in 1 .. Len(chain) : Retries(chain[l]) \in Nat \ {0}
    BY RetriesType
  <1>6. \A l \in 1 .. Len(chain) : l # j.i => (chain[l] \in k.refused <=> chain[l] \in j.refused)
    BY <1>3 DEF Climb
  <1>7. k.at \in {"call", "failure", "link"} /\ k.i \in 1 .. Len(chain) /\ k.i \in {j.i, j.i + 1}
    BY <1>1 DEF Climb
  <1>8. \A l \in 1 .. Len(chain) : k.calls[chain[l]] <= Retries(chain[l])
    BY <1>1, <1>2, <1>4 DEF LadderOK
  <1>9. \A l \in 1 .. Len(chain) : l > k.i => k.calls[chain[l]] = 0 /\ chain[l] \notin k.refused
    BY <1>1, <1>4, <1>6, <1>7 DEF LadderOK
  <1>10. \A l \in 1 .. Len(chain) : l < j.i => Spent(k, l)
    BY <1>1, <1>4, <1>6 DEF LadderOK, Spent
  <1>11. (k.i = j.i + 1 \/ k.at = "failure") => Spent(k, j.i)
    BY <1>1, <1>4, <1>7 DEF Climb, Spent
  <1>12. \A l \in 1 .. Len(chain) : l < k.i => Spent(k, l)
    BY <1>1, <1>7, <1>10, <1>11
  <1>13. k.at = "failure" => k.i = Len(chain) /\ Spent(k, k.i)
    BY <1>11 DEF Climb
  <1>14. Provider(k) = chain[k.i]
    BY DEF Provider
  <1>15. ASSUME k.at = "call"
         PROVE  k.calls[Provider(k)] = k.attempt - 1 /\ k.attempt <= Retries(Provider(k))
    <2>1. CASE k.i = j.i
      BY <1>1, <1>2, <1>4, <1>14, <1>15, <2>1 DEF Climb
    <2>2. CASE k.i = j.i + 1
      <3>1. k.attempt = 1 /\ k.calls[chain[k.i]] = j.calls[chain[k.i]] /\ j.calls[chain[k.i]] = 0
        <4>1. k.i # j.i /\ k.i > j.i
          BY <1>1, <2>2
        <4>2. j.calls[chain[k.i]] = 0
          BY <1>7, <4>1 DEF LadderOK
        <4>3. k.calls[chain[k.i]] = j.calls[chain[k.i]]
          BY <1>4, <1>7, <4>1
        <4>4. k.attempt = 1
          BY <1>15, <4>1 DEF Climb
        <4>5. QED
          BY <4>2, <4>3, <4>4
      <3>2. QED
        BY <3>1, <1>5, <1>7, <1>14
    <2>3. QED
      BY <1>7, <2>1, <2>2
  <1>16. k.at # "failure" => Provider(k) \notin k.refused
    <2>1. CASE k.i = j.i
      BY <1>1, <1>2, <1>14, <2>1 DEF Climb
    <2>2. CASE k.i = j.i + 1
      BY <1>1, <1>6, <1>7, <1>14, <2>2 DEF LadderOK
    <2>3. QED
      BY <1>7, <2>1, <2>2
  <1>17. QED
    BY <1>8, <1>9, <1>12, <1>13, <1>15, <1>16 DEF LadderOK

-----------------------------------------------------------------------------
(* What a step of one worker leaves true.                                  *)

LEMMA JobsAfter ==
    ASSUME TypeOK, JobsOK, NEW w \in Workers, UNCHANGED chain,
           job' = [job EXCEPT ![w] = job'[w]],
           job'[w] # None => job'[w] \in Job /\ job'[w].i <= Len(chain) /\ JobOK(job'[w])
    PROVE  /\ job' \in [Workers -> {None} \cup Job]
           /\ \A v \in Workers : job'[v] # None => job'[v].i <= Len(chain')
           /\ JobsOK'
  <1>1. \A v \in Workers : v # w => job'[v] = job[v]
    BY DEF TypeOK
  <1>2. job' \in [Workers -> {None} \cup Job]
    BY DEF TypeOK
  <1>3. \A v \in Workers : job'[v] # None => job'[v].i <= Len(chain')
    BY <1>1 DEF TypeOK
  <1>4. \A v \in Workers : job'[v] # None => JobOK(job'[v])
    BY <1>1 DEF JobsOK
  <1>5. JobsOK'
    BY <1>4 DEF JobsOK, JobOK, LadderOK, Spent, Retries, Provider
  <1>6. QED
    BY <1>2, <1>3, <1>5

\* No step but Take adds to the workers at an article.
LEMMA AtWorkAfter ==
    ASSUME TypeOK, NEW w \in Workers, NEW a \in Articles,
           job' = [job EXCEPT ![w] = job'[w]],
           job'[w] # None => /\ job[w] # None /\ job'[w].of = job[w].of
                             /\ job[w].at = "ack" => job'[w].at = "ack"
    PROVE  /\ Cardinality(AtWork(a)) \in Nat /\ Cardinality(AtWork(a)') \in Nat
           /\ Cardinality(AtWork(a)') <= Cardinality(AtWork(a))
  <1>1. IsFiniteSet(AtWork(a))
    BY FS_Subset, LlmWorkerAssumption DEF AtWork
  <1>2. AtWork(a)' \subseteq AtWork(a)
    BY DEF AtWork, TypeOK
  <1>3. QED
    BY <1>1, <1>2, FS_Subset, FS_CardinalityType

LEMMA ExtractionsAfter ==
    ASSUME TypeOK, ExtractionsOK, NEW w \in Workers,
           job' = [job EXCEPT ![w] = job'[w]],
           job'[w] # None => /\ job[w] # None /\ job'[w].of = job[w].of
                             /\ job[w].at = "ack" => job'[w].at = "ack",
           \A a \in Articles : rows'[a].completed = rows[a].completed,
           UNCHANGED overlaps
    PROVE  ExtractionsOK'
  <1> SUFFICES ASSUME NEW a \in Articles
               PROVE  rows'[a].completed + Cardinality(AtWork(a)') <= 1 + overlaps'[a]
    BY DEF ExtractionsOK
  <1>1. rows[a].completed \in Nat /\ overlaps[a] \in Nat
    BY LlmWorkerAssumption DEF TypeOK, Rows
  <1>2. rows[a].completed + Cardinality(AtWork(a)) <= 1 + overlaps[a]
    BY DEF ExtractionsOK
  <1>3. QED
    BY <1>1, <1>2, AtWorkAfter

LEMMA PaidAfter ==
    ASSUME TypeOK, PaidIsRecorded, NEW w \in Workers,
           job' = [job EXCEPT ![w] = job'[w]],
           due' = [due EXCEPT ![w] = due'[w]],
           due'[w] = (IF job'[w] = None THEN 0 ELSE job'[w].tokens)
    PROVE  PaidIsRecorded'
  BY DEF PaidIsRecorded, TypeOK

\* A step that neither writes an analysis nor takes a message.
LEMMA WorkerStep ==
    ASSUME IInv, NEW w \in Workers, UNCHANGED <<chain, article, entities, links, overlaps>>,
           stream' \subseteq stream, mishaps' \in 0 .. MaxMishaps,
           rows' \in [Articles -> Rows],
           \A a \in Articles : /\ rows'[a].completed = rows[a].completed
                               /\ rows'[a].answers = rows[a].answers,
           job' = [job EXCEPT ![w] = job'[w]],
           job'[w] # None => /\ job'[w] \in Job /\ job'[w].i <= Len(chain) /\ JobOK(job'[w])
                             /\ job[w] # None /\ job'[w].of = job[w].of
                             /\ job[w].at # "ack" /\ job'[w].at # "ack",
           due' = [due EXCEPT ![w] = due'[w]], due'[w] \in Nat,
           due'[w] = (IF job'[w] = None THEN 0 ELSE job'[w].tokens)
    PROVE  IInv'
  <1>1. /\ job' \in [Workers -> {None} \cup Job] /\ JobsOK'
        /\ \A v \in Workers : job'[v] # None => job'[v].i <= Len(chain')
    BY JobsAfter DEF IInv
  <1>2. due' \in [Workers -> Nat]
    BY DEF IInv, TypeOK
  <1>3. TypeOK'
    BY <1>1, <1>2 DEF IInv, TypeOK
  <1>4. ExtractionsOK' /\ PaidIsRecorded'
    BY ExtractionsAfter, PaidAfter DEF IInv
  <1>5. AnalysisIsWhole'
    BY DEF IInv, AnalysisIsWhole
  <1>6. AcksOK'
    BY DEF IInv, AcksOK, Extracted, TypeOK
  <1>7. QED
    BY <1>1, <1>3, <1>4, <1>5, <1>6 DEF IInv

-----------------------------------------------------------------------------
(* The calls.                                                              *)

\* What a call leaves of a job: the message, and all that was read for it.
Kept(j, k) == k.of = j.of /\ k.summary = j.summary

LEMMA CalledFields ==
    ASSUME TypeOK, NEW w \in Workers, job[w] # None
    PROVE  LET j == job[w]  c == Called(job[w]) IN
           /\ c \in Job /\ Kept(j, c)
           /\ c.calls = [j.calls EXCEPT ![Provider(j)] = @ + 1]
           /\ c.at = j.at /\ c.i = j.i /\ c.attempt = j.attempt /\ c.refused = j.refused
           /\ c.tokens = j.tokens /\ c.paid = j.paid /\ Provider(c) = Provider(j)
  <1>1. job[w] \in Job /\ Provider(job[w]) \in Providers
    BY ProviderType
  <1>2. [job[w].calls EXCEPT ![Provider(job[w])] = @ + 1] \in [Providers -> Nat]
    BY <1>1 DEF Job
  <1>3. QED
    BY <1>1, <1>2 DEF Called, Kept, Job, Provider

\* Only the attempt changes.
LEMMA AttemptFields ==
    ASSUME NEW c \in Job, NEW n \in Nat \ {0}
    PROVE  LET k == [c EXCEPT !.attempt = n] IN
           /\ k \in Job /\ k.i = c.i /\ k.at = c.at /\ k.tokens = c.tokens /\ k.of = c.of
           /\ k.summary = c.summary /\ k.calls = c.calls /\ k.refused = c.refused
           /\ k.attempt = n
  BY DEF Job

\* The rung after a call that brought nothing.
LEMMA NextProviderFields ==
    ASSUME NEW c \in Job, c.at = "call", c.i \in 1 .. Len(chain), Len(chain) \in Nat
    PROVE  LET k == NextProvider(c) IN
           /\ k \in Job /\ Kept(c, k) /\ k.tokens = c.tokens
           /\ k.calls = c.calls /\ k.refused = c.refused
           /\ \/ k.at = "call" /\ k.i = c.i + 1 /\ k.i <= Len(chain) /\ k.attempt = 1
              \/ k.at = "failure" /\ k.i = c.i /\ k.i = Len(chain) /\ k.attempt = c.attempt
  <1> DEFINE next == c.i + 1
             k1 == [c EXCEPT !.i = next]
             k2 == [k1 EXCEPT !.attempt = 1]
             k3 == [c EXCEPT !.at = "failure"]
  <1>1. next \in Nat \ {0} /\ (c.i < Len(chain) => next <= Len(chain))
    OBVIOUS
  <1> HIDE DEF next
  <1>2. k1 \in Job /\ k1.i = next /\ k1.at = c.at /\ k1.tokens = c.tokens /\ k1.of = c.of
        /\ k1.summary = c.summary /\ k1.calls = c.calls /\ k1.refused = c.refused
    BY <1>1 DEF Job
  <1> HIDE DEF k1
  <1>3. k2 \in Job /\ k2.i = k1.i /\ k2.at = k1.at /\ k2.tokens = k1.tokens /\ k2.of = k1.of
        /\ k2.summary = k1.summary /\ k2.calls = k1.calls /\ k2.refused = k1.refused
        /\ k2.attempt = 1
    <2>1. 1 \in Nat \ {0} /\ k1 \in Job
      BY <1>2
    <2>2. QED
      BY <2>1, AttemptFields, Zenon
  <1>4. k3 \in Job /\ k3.i = c.i /\ k3.at = "failure" /\ k3.tokens = c.tokens /\ k3.of = c.of
        /\ k3.summary = c.summary /\ k3.calls = c.calls /\ k3.refused = c.refused
        /\ k3.attempt = c.attempt
    BY DEF Job
  <1>5. NextProvider(c) = IF c.i < Len(chain) THEN k2 ELSE k3
    BY Zenon DEF NextProvider, k2, k1, next
  <1> HIDE DEF k2, k3
  <1>6. CASE c.i < Len(chain)
    BY <1>1, <1>2, <1>3, <1>5, <1>6, Zenon DEF Kept, next
  <1>7. CASE ~(c.i < Len(chain))
    <2>1. c.i = Len(chain)
      BY <1>7
    <2>2. QED
      BY <2>1, <1>4, <1>5, <1>7 DEF Kept
  <1>8. QED
    BY <1>6, <1>7

LEMMA AgainFields ==
    ASSUME NEW c \in Job, c.at = "call", c.i \in 1 .. Len(chain), Len(chain) \in Nat
    PROVE  LET k == Again(c) IN
           \/ k = NextProvider(c) /\ ~(c.attempt < Retries(Provider(c)))
           \/ /\ k \in Job /\ Kept(c, k) /\ k.tokens = c.tokens
              /\ k.calls = c.calls /\ k.refused = c.refused
              /\ k.at = "call" /\ k.i = c.i
              /\ k.attempt = c.attempt + 1 /\ k.attempt <= Retries(Provider(c))
  <1> DEFINE next == c.attempt + 1
             k1 == [c EXCEPT !.attempt = next]
  <1>1. next \in Nat \ {0} /\ c.attempt \in Nat \ {0}
    BY DEF Job
  <1> HIDE DEF next
  <1>2. k1 \in Job /\ k1.i = c.i /\ k1.at = c.at /\ k1.tokens = c.tokens /\ k1.of = c.of
        /\ k1.summary = c.summary /\ k1.calls = c.calls /\ k1.refused = c.refused
        /\ k1.attempt = next
    BY <1>1 DEF Job
  <1>3. Again(c) = IF c.attempt < Retries(Provider(c)) THEN k1 ELSE NextProvider(c)
    BY DEF Again, next
  <1>4. c.attempt < Retries(Provider(c)) => next <= Retries(Provider(c))
    BY <1>1, RetriesType DEF next
  <1> HIDE DEF k1
  <1>5. QED
    BY <1>2, <1>3, <1>4 DEF Kept, next

LEMMA CallFailsIInv ==
    ASSUME IInv, NEW w \in Workers, NEW e \in Errors, CallFails(w, e)
    PROVE  IInv'
  <1> DEFINE j == job[w]
             p == Provider(j)
             c == Called(j)
             x == AfterError(j, e)
             k == [x EXCEPT !.refused = IF Retryable(e) THEN @ ELSE @ \cup {p}]
  <1>1. j # None /\ j.at = "call" /\ TypeOK
    BY DEF CallFails, At, IInv
  <1>2. /\ j \in Job /\ j.i \in 1 .. Len(chain) /\ Len(chain) \in Nat /\ p \in Providers
        /\ LadderOK(j) /\ JobOK(j)
    BY <1>1, ProviderType DEF IInv, JobsOK, JobOK
  <1>3. /\ c \in Job /\ Kept(j, c) /\ c.calls = [j.calls EXCEPT ![p] = @ + 1]
        /\ c.at = j.at /\ c.i = j.i /\ c.attempt = j.attempt /\ c.refused = j.refused
        /\ c.tokens = j.tokens /\ Provider(c) = p
    BY <1>1, CalledFields
  <1>4. x = IF Retryable(e) THEN Again(c) ELSE NextProvider(c)
    BY DEF AfterError
  <1> HIDE DEF c
  <1>5. x \in Job /\ Kept(c, x) /\ x.tokens = c.tokens /\ x.calls = c.calls /\ x.refused = c.refused
    BY <1>1, <1>2, <1>3, <1>4, AgainFields, NextProviderFields DEF Kept
  <1> HIDE DEF x
  <1>6. /\ k \in Job /\ k.refused = (IF Retryable(e) THEN x.refused ELSE x.refused \cup {p})
        /\ Kept(x, k) /\ k.tokens = x.tokens /\ k.calls = x.calls
        /\ k.at = x.at /\ k.i = x.i /\ k.attempt = x.attempt
    BY <1>2, <1>5 DEF Job, Kept
  <1> HIDE DEF k
  <1>7. Retries(p) \in Nat /\ j.attempt \in Nat /\ j.attempt <= Retries(p)
    BY <1>1, <1>2, RetriesType DEF LadderOK, Job
  <1>8. Climb(j, k)
    <2>1. CASE Retryable(e)
      BY <2>1, <1>1, <1>2, <1>3, <1>4, <1>5, <1>6, <1>7, AgainFields, NextProviderFields DEF Climb
    <2>2. CASE ~Retryable(e)
      BY <2>2, <1>1, <1>2, <1>3, <1>4, <1>5, <1>6, <1>7, NextProviderFields DEF Climb
    <2>3. QED
      BY <2>1, <2>2
  <1>9. LadderOK(k) /\ k.at \in {"call", "failure"}
    <2>1. LadderOK(k)
      BY <1>1, <1>2, <1>8, ClimbIsLadder
    <2>2. x.at \in {"call", "failure"}
      BY <1>1, <1>2, <1>3, <1>4, AgainFields, NextProviderFields
    <2>3. QED
      BY <2>1, <2>2, <1>6
  <1>10. JobOK(k) /\ k.of = j.of /\ k.i <= Len(chain) /\ k.tokens = j.tokens
    <2>1. k.of = j.of /\ k.summary = j.summary
      BY <1>3, <1>5, <1>6 DEF Kept
    <2>2. k.i <= Len(chain)
      BY <1>2, <1>8 DEF Climb
    <2>3. QED
      BY <2>1, <2>2, <1>2, <1>3, <1>5, <1>6, <1>9 DEF JobOK
  <1>11. job' = [job EXCEPT ![w] = k]
    BY DEF CallFails, Set, k, x
  <1>12. job'[w] = k /\ job' = [job EXCEPT ![w] = job'[w]]
    BY <1>1, <1>11 DEF TypeOK
  <1>13. UNCHANGED <<chain, stream, article, entities, links, rows, due, overlaps, mishaps>>
    BY DEF CallFails, store, mishapVars
  <1>14. due[w] = j.tokens /\ due[w] \in Nat /\ due = [due EXCEPT ![w] = due[w]]
    BY <1>1 DEF IInv, TypeOK, PaidIsRecorded
  <1>15. k # None
    BY <1>6, NoneAssumption
  <1>16. QED
    BY <1>1, <1>6, <1>9, <1>10, <1>12, <1>13, <1>14, <1>15, WorkerStep DEF IInv, TypeOK

\* An answer is paid for, then it is used or the call is repeated.
LEMMA CallCompletesIInv ==
    ASSUME IInv, NEW w \in Workers, NEW text \in Texts, CallCompletes(w, text)
    PROVE  IInv'
  <1>0. PICK names \in Answers : Set(w, AfterText(job[w], text, names))
    BY DEF CallCompletes
  <1> DEFINE j == job[w]
             p == Provider(j)
             c == Called(j)
             spent == c.tokens + 1
             payers == c.paid \cup {p}
             k1 == [c EXCEPT !.provider = p]
             k2 == [k1 EXCEPT !.tokens = spent]
             x == [k2 EXCEPT !.paid = payers]
             k == AfterText(j, text, names)
  <1>1. j # None /\ j.at = "call" /\ TypeOK
    BY DEF CallCompletes, At, IInv
  <1>2. /\ j \in Job /\ j.i \in 1 .. Len(chain) /\ Len(chain) \in Nat /\ p \in Providers
        /\ LadderOK(j) /\ JobOK(j)
    BY <1>1, ProviderType DEF IInv, JobsOK, JobOK
  <1>3. /\ c \in Job /\ Kept(j, c) /\ c.calls = [j.calls EXCEPT ![p] = @ + 1]
        /\ c.at = j.at /\ c.i = j.i /\ c.attempt = j.attempt /\ c.refused = j.refused
        /\ c.tokens = j.tokens /\ Provider(c) = p
    BY <1>1, CalledFields
  <1>4. spent \in Nat /\ payers \in SUBSET Providers
    BY <1>2, <1>3 DEF Job
  <1>5. k = IF Valid(text) THEN [x EXCEPT !.at = "link", !.named = names] ELSE Again(x)
    BY Zenon DEF AfterText, x, k2, k1, spent, payers
  <1> HIDE DEF c, spent, payers, k
  <1>6. k1 \in Job /\ k1.i = c.i /\ k1.at = c.at /\ k1.attempt = c.attempt /\ k1.of = c.of
        /\ k1.summary = c.summary /\ k1.calls = c.calls /\ k1.refused = c.refused
    BY <1>2, <1>3 DEF Job
  <1> HIDE DEF k1
  <1>7. k2 \in Job /\ k2.i = c.i /\ k2.at = c.at /\ k2.attempt = c.attempt /\ k2.of = c.of
        /\ k2.summary = c.summary /\ k2.calls = c.calls /\ k2.refused = c.refused
        /\ k2.tokens = spent
    BY <1>4, <1>6 DEF Job
  <1> HIDE DEF k2
  <1>8. x \in Job /\ x.i = c.i /\ x.at = c.at /\ x.attempt = c.attempt /\ x.of = c.of
        /\ x.summary = c.summary /\ x.calls = c.calls /\ x.refused = c.refused
        /\ x.tokens = spent
    BY <1>4, <1>7 DEF Job
  <1> HIDE DEF x
  <1>9. x.at = "call" /\ x.i \in 1 .. Len(chain) /\ Provider(x) = p /\ Kept(j, x)
    BY <1>1, <1>2, <1>3, <1>8 DEF Provider, Kept
  <1>10. Retries(p) \in Nat /\ j.attempt \in Nat /\ j.attempt <= Retries(p)
    BY <1>1, <1>2, RetriesType DEF LadderOK, Job
  <1>11. /\ k \in Job /\ Kept(j, k) /\ Climb(j, k) /\ k.tokens = spent
         /\ k.at \in {"call", "failure", "link"}
    <2>1. CASE Valid(text)
      <3> DEFINE y == [x EXCEPT !.at = "link", !.named = names]
      <3>1. y \in Job /\ y.at = "link" /\ y.i = x.i /\ y.of = x.of /\ y.tokens = x.tokens
            /\ y.summary = x.summary /\ y.calls = x.calls /\ y.refused = x.refused
        BY <1>8, LlmWorkerAssumption DEF Job
      <3>2. k = y
        BY <1>5, <2>1
      <3> HIDE DEF y
      <3>3. QED
        BY <3>1, <3>2, <1>3, <1>8, <1>9 DEF Kept, Climb
    <2>2. CASE k = Again(x)
      <3>1. ASSUME k = NextProvider(x), ~(x.attempt < Retries(p))
            PROVE  /\ k \in Job /\ Kept(j, k) /\ Climb(j, k) /\ k.tokens = spent
                   /\ k.at \in {"call", "failure", "link"}
        BY <3>1, <1>1, <1>2, <1>3, <1>8, <1>9, <1>10, NextProviderFields DEF Kept, Climb
      <3>2. CASE ~(k = NextProvider(x) /\ ~(x.attempt < Retries(p)))
        BY <2>2, <3>2, <1>1, <1>2, <1>3, <1>8, <1>9, <1>10, AgainFields DEF Kept, Climb
      <3>3. QED
        BY <3>1, <3>2
    <2>3. QED
      BY <2>1, <2>2, <1>5
  <1>12. JobOK(k) /\ k.of = j.of /\ k.i <= Len(chain) /\ k # None
    <2>1. LadderOK(k)
      BY <1>1, <1>2, <1>11, ClimbIsLadder
    <2>2. k.i <= Len(chain)
      BY <1>2, <1>11 DEF Climb
    <2>3. QED
      BY <2>1, <2>2, <1>2, <1>11, NoneAssumption DEF JobOK, Kept
  <1>13. job'[w] = k /\ job' = [job EXCEPT ![w] = job'[w]]
    BY <1>0, <1>1 DEF Set, TypeOK, k
  <1>14. UNCHANGED <<chain, stream, article, entities, links, rows, overlaps, mishaps>>
    BY DEF CallCompletes, store, mishapVars
  <1>15. due'[w] = spent /\ due' = [due EXCEPT ![w] = due'[w]]
    BY <1>1, <1>3 DEF CallCompletes, IInv, TypeOK, PaidIsRecorded, spent
  <1>16. QED
    BY <1>1, <1>4, <1>11, <1>12, <1>13, <1>14, <1>15, WorkerStep DEF IInv, TypeOK

-----------------------------------------------------------------------------
(* What is written of a job, and the ends of one.                          *)

LEMMA ChargeFields ==
    ASSUME TypeOK, PaidIsRecorded, NEW w \in Workers, job[w] # None, Charge(w)
    PROVE  due' = [due EXCEPT ![w] = due'[w]] /\ due'[w] = 0
  <1>1. due[w] = job[w].tokens /\ due[w] \in Nat /\ due \in [Workers -> Nat]
    BY DEF TypeOK, PaidIsRecorded
  <1>2. due' = [due EXCEPT ![w] = due[w] - job[w].tokens]
    BY DEF Charge
  <1>3. due'[w] = due[w] - job[w].tokens
    BY <1>1, <1>2
  <1>4. due[w] - job[w].tokens = 0
    BY <1>1
  <1>5. QED
    BY <1>1, <1>2, <1>3, <1>4

\* A message that is acknowledged, or given back by a worker that ends.
LEMMA JobEndsIInv ==
    ASSUME IInv, NEW w \in Workers, job[w] # None, job' = [job EXCEPT ![w] = None],
           Charge(w) \/ (UNCHANGED due /\ job[w].tokens = 0),
           UNCHANGED <<chain, store, overlaps>>,
           stream' \subseteq stream, mishaps' \in 0 .. MaxMishaps
    PROVE  IInv'
  <1>1. job'[w] = None /\ job' = [job EXCEPT ![w] = job'[w]]
    BY DEF IInv, TypeOK
  <1>2. due' = [due EXCEPT ![w] = due'[w]] /\ due'[w] = 0
    <2>1. CASE Charge(w)
      BY <2>1, ChargeFields DEF IInv
    <2>2. CASE UNCHANGED due /\ job[w].tokens = 0
      BY <2>2 DEF IInv, TypeOK, PaidIsRecorded
    <2>3. QED
      BY <2>1, <2>2
  <1>3. /\ UNCHANGED <<chain, article, entities, links, rows, overlaps>>
        /\ rows' \in [Articles -> Rows]
    BY DEF store, IInv, TypeOK
  <1>4. /\ \A a \in Articles : /\ rows'[a].completed = rows[a].completed
                               /\ rows'[a].answers = rows[a].answers
        /\ due'[w] \in Nat /\ due'[w] = (IF job'[w] = None THEN 0 ELSE job'[w].tokens)
    BY <1>1, <1>2, <1>3
  <1>5. UNCHANGED <<chain, article, entities, links, overlaps>>
    BY <1>3
  <1>6. QED
    BY <1>1, <1>2, <1>3, <1>4, <1>5, WorkerStep

LEMMA DieIInv ==
    ASSUME IInv, NEW w \in Workers, Die(w) \/ ApplyFails(w) \/ Escape(w)
    PROVE  IInv'
  <1>1. mishaps' \in 0 .. MaxMishaps
    BY LlmWorkerAssumption DEF Die, ApplyFails, Escape, mishapVars, IInv, TypeOK
  <1>2. job[w] # None /\ Charge(w) /\ job' = [job EXCEPT ![w] = None]
        /\ UNCHANGED <<chain, stream, store, overlaps>>
    BY DEF Die, ApplyFails, Escape, At, Set, mishapVars
  <1>3. QED
    BY <1>1, <1>2, JobEndsIInv

LEMMA RowsType ==
    ASSUME TypeOK, NEW a \in Articles, NEW m \in BOOLEAN, NEW names \in SUBSET Entities
    PROVE  /\ [rows EXCEPT ![a].failed = @ + 1, ![a].mixed = @ \/ m]
                 \in [Articles -> Rows]
           /\ [rows EXCEPT ![a].completed = @ + 1, ![a].answers = @ \cup {names},
                           ![a].mixed = @ \/ m]
                 \in [Articles -> Rows]
  <1> DEFINE more == rows[a].failed + 1
             done == rows[a].completed + 1
             answers == rows[a].answers \cup {names}
             mixed == rows[a].mixed \/ m
  <1>1. rows \in [Articles -> Rows]
        /\ more \in Nat /\ done \in Nat /\ answers \in SUBSET SUBSET Entities
    BY DEF TypeOK, Rows
  <1>2. mixed \in BOOLEAN
    BY Zenon
  <1> HIDE DEF more, done, answers, mixed
  <1>3. [[rows EXCEPT ![a].failed = more] EXCEPT ![a].mixed = mixed]
           \in [Articles -> Rows]
    <2> DEFINE r1 == [rows EXCEPT ![a].failed = more]
    <2>1. r1 \in [Articles -> Rows]
      BY <1>1 DEF Rows
    <2> HIDE DEF r1
    <2>2. [r1 EXCEPT ![a].mixed = mixed] \in [Articles -> Rows]
      BY <1>2, <2>1 DEF Rows
    <2>3. QED
      BY <2>2 DEF r1
  <1>4. [[[rows EXCEPT ![a].completed = done] EXCEPT ![a].answers = answers] EXCEPT ![a].mixed = mixed]
           \in [Articles -> Rows]
    <2> DEFINE r1 == [rows EXCEPT ![a].completed = done]
               r2 == [r1 EXCEPT ![a].answers = answers]
    <2>1. r1 \in [Articles -> Rows]
      BY <1>1 DEF Rows
    <2> HIDE DEF r1
    <2>2. r2 \in [Articles -> Rows]
      BY <1>1, <2>1 DEF Rows
    <2> HIDE DEF r2
    <2>3. [r2 EXCEPT ![a].mixed = mixed] \in [Articles -> Rows]
      BY <1>2, <2>2 DEF Rows
    <2>4. QED
      BY <2>3 DEF r2, r1
  <1>5. QED
    BY <1>1, <1>3, <1>4, Zenon DEF more, done, answers, mixed

LEMMA RecordFailureIInv ==
    ASSUME IInv, NEW w \in Workers, RecordFailure(w)
    PROVE  IInv'
  <1> DEFINE j == job[w]
             k == [j EXCEPT !.at = "link", !.origin = "heuristic", !.provider = None,
                            !.tokens = 0, !.paid = {}, !.calls = NoCalls, !.refused = {}]
             m == Mixed(j)
  <1>1. j # None /\ j.at = "failure" /\ TypeOK /\ j \in Job /\ JobOK(j) /\ j.i <= Len(chain)
    BY DEF RecordFailure, At, IInv, TypeOK, JobsOK
  <1>2. NoCalls \in [Providers -> Nat]
    BY DEF NoCalls
  <1>3. k \in Job
    BY <1>1, <1>2 DEF Job
  <1>4. k.at = "link" /\ k.calls = NoCalls /\ k.of = j.of /\ k.summary = j.summary /\ k.i = j.i
        /\ k.tokens = 0
    BY <1>1 DEF Job
  <1>5. job' = [job EXCEPT ![w] = k]
    BY DEF RecordFailure, Set
  <1> HIDE DEF k
  <1>6. job'[w] = k /\ job' = [job EXCEPT ![w] = job'[w]]
    BY <1>1, <1>5 DEF TypeOK
  <1>7. JobOK(k) /\ k # None
    BY <1>1, <1>3, <1>4, NoneAssumption DEF JobOK
  <1>8. m \in BOOLEAN /\ j.of \in Articles
    BY <1>1 DEF Mixed, Job
  <1>9. rows' = [rows EXCEPT ![j.of].failed = @ + 1, ![j.of].mixed = @ \/ m]
    BY DEF RecordFailure
  <1> HIDE DEF m
  <1>10. rows' \in [Articles -> Rows]
    BY <1>1, <1>8, <1>9, RowsType
  <1>11. \A a \in Articles : /\ rows'[a].completed = rows[a].completed
                             /\ rows'[a].answers = rows[a].answers
    BY <1>1, <1>8, <1>9 DEF TypeOK, Rows
  <1>12. due' = [due EXCEPT ![w] = due'[w]] /\ due'[w] = 0
    BY <1>1, ChargeFields DEF RecordFailure, IInv
  <1>13. UNCHANGED <<chain, stream, article, entities, links, overlaps, mishaps>>
    BY DEF RecordFailure, mishapVars
  <1>14. mishaps' \in 0 .. MaxMishaps
    BY <1>1, <1>13 DEF TypeOK
  <1>15. QED
    BY <1>1, <1>3, <1>4, <1>6, <1>7, <1>10, <1>11, <1>12, <1>13, <1>14, WorkerStep

LEMMA LinkIInv ==
    ASSUME IInv, NEW w \in Workers, Link(w)
    PROVE  IInv'
  <1> DEFINE j == job[w]
             known == j.named \cap entities
             linked == j.named \cap links[j.of]
             k == [j EXCEPT !.at = "commit", !.known = known, !.linked = linked,
                            !.attempt = 1, !.calls = NoCalls, !.refused = {}]
  <1>1. j # None /\ j.at = "link" /\ TypeOK /\ j \in Job /\ JobOK(j) /\ j.i <= Len(chain)
    BY DEF Link, At, IInv, TypeOK, JobsOK
  <1>2. NoCalls \in [Providers -> Nat]
    BY DEF NoCalls
  <1>3. known \in SUBSET Entities /\ linked \in SUBSET Entities
    BY <1>1 DEF Job
  <1>4. job' = [job EXCEPT ![w] = k]
    BY DEF Link, Set
  <1> HIDE DEF known, linked
  <1>5. k \in Job
    <2> DEFINE k1 == [j EXCEPT !.at = "commit"]
               k2 == [k1 EXCEPT !.attempt = 1]
               k3 == [k2 EXCEPT !.calls = NoCalls, !.refused = {}]
               k4 == [k3 EXCEPT !.known = known]
               k5 == [k4 EXCEPT !.linked = linked]
    <2>1. k = k5
      BY Zenon DEF k5, k4, k3, k2, k1, k
    <2>2. k1 \in Job
      BY <1>1 DEF Job
    <2> HIDE DEF k1
    <2>3. k2 \in Job
      BY <2>2 DEF Job
    <2> HIDE DEF k2
    <2>4. k3 \in Job
      BY <1>2, <2>3 DEF Job
    <2> HIDE DEF k3
    <2>5. k4 \in Job
      BY <1>3, <2>4 DEF Job
    <2> HIDE DEF k4
    <2>6. k5 \in Job
      BY <1>3, <2>5 DEF Job
    <2>7. QED
      BY <2>1, <2>6
  <1>6. k.at = "commit" /\ k.calls = NoCalls /\ k.of = j.of /\ k.summary = j.summary /\ k.i = j.i
        /\ k.tokens = j.tokens
    BY <1>1 DEF Job
  <1> HIDE DEF k
  <1>7. job'[w] = k /\ job' = [job EXCEPT ![w] = job'[w]]
    BY <1>1, <1>4 DEF TypeOK
  <1>8. JobOK(k) /\ k # None
    BY <1>1, <1>5, <1>6, NoneAssumption DEF JobOK
  <1>9. UNCHANGED <<chain, stream, article, entities, links, rows, due, overlaps, mishaps>>
    BY DEF Link, mishapVars, store
  <1>10. due'[w] = j.tokens /\ due'[w] \in Nat /\ due' = [due EXCEPT ![w] = due'[w]]
    BY <1>1, <1>9 DEF IInv, TypeOK, PaidIsRecorded
  <1>11. QED
    BY <1>1, <1>5, <1>6, <1>7, <1>8, <1>9, <1>10, WorkerStep DEF IInv, TypeOK

LEMMA AckIInv ==
    ASSUME IInv, NEW w \in Workers, Ack(w)
    PROVE  IInv'
  <1>1. job[w] # None /\ job[w].tokens = 0
    BY DEF Ack, At, IInv, JobsOK, JobOK
  <1>2. /\ job' = [job EXCEPT ![w] = None] /\ stream' \subseteq stream
        /\ UNCHANGED <<chain, store, due, overlaps, mishaps>>
    BY DEF Ack, Set, mishapVars
  <1>3. mishaps' \in 0 .. MaxMishaps
    BY <1>2 DEF IInv, TypeOK
  <1>4. QED
    BY <1>1, <1>2, <1>3, JobEndsIInv

\* The analysis is written: all of it, or what the publisher left to write.
LEMMA ApplyIInv ==
    ASSUME IInv, NEW w \in Workers, Apply(w)
    PROVE  IInv'
  <1> DEFINE j == job[w]
             a == j.of
             m == Mixed(j)
             summary == IF j.summary THEN article[a].summary ELSE j.origin
             k1 == [j EXCEPT !.at = "ack"]
             k2 == [k1 EXCEPT !.provider = None]
             k3 == [k2 EXCEPT !.tokens = 0]
             k4 == [k3 EXCEPT !.paid = {}]
             k == [k4 EXCEPT !.named = {}]
  <1>1. /\ j # None /\ j.at = "commit" /\ TypeOK /\ j \in Job /\ JobOK(j) /\ j.i <= Len(chain)
        /\ a \in Articles /\ j.origin \in {"llm", "heuristic"} /\ j.calls = NoCalls
        /\ (j.summary <=> a \in Summarized) /\ j.named \subseteq Entities
    BY DEF Apply, At, IInv, TypeOK, JobsOK, JobOK, Job
  <1>2. m \in BOOLEAN
    BY DEF Mixed
  <1>3. /\ entities' = entities \cup j.named
        /\ links' = [links EXCEPT ![a] = links[a] \cup j.named]
        /\ rows' = [rows EXCEPT ![a].completed = @ + 1, ![a].answers = @ \cup {j.named},
                                ![a].mixed = @ \/ m]
        /\ UNCHANGED <<chain, stream, overlaps, mishaps>>
        /\ Charge(w)
    BY DEF Apply, mishapVars
  <1>4. article' = [[article EXCEPT ![a].sentiment = j.origin] EXCEPT ![a].summary = summary]
    BY <1>1 DEF Apply, TypeOK
  <1>5. job' = [job EXCEPT ![w] = k]
    <2>1. k = [j EXCEPT !.at = "ack", !.provider = None, !.tokens = 0, !.paid = {}, !.named = {}]
      BY Zenon DEF k, k4, k3, k2, k1
    <2>2. QED
      BY <2>1 DEF Apply, Set
  <1> HIDE DEF m, summary
  <1>6. /\ k \in Job /\ k.at = "ack" /\ k.calls = j.calls /\ k.of = a /\ k.i = j.i
        /\ k.summary = j.summary /\ k.tokens = 0
    <2>1. /\ k1 \in Job /\ k1.at = "ack" /\ k1.calls = j.calls /\ k1.of = a /\ k1.i = j.i
          /\ k1.summary = j.summary
      BY <1>1 DEF Job
    <2> HIDE DEF k1
    <2>2. /\ k2 \in Job /\ k2.at = "ack" /\ k2.calls = j.calls /\ k2.of = a /\ k2.i = j.i
          /\ k2.summary = j.summary
      BY <2>1 DEF Job
    <2> HIDE DEF k2
    <2>3. /\ k3 \in Job /\ k3.at = "ack" /\ k3.calls = j.calls /\ k3.of = a /\ k3.i = j.i
          /\ k3.summary = j.summary /\ k3.tokens = 0
      BY <2>2 DEF Job
    <2> HIDE DEF k3
    <2>4. /\ k4 \in Job /\ k4.at = "ack" /\ k4.calls = j.calls /\ k4.of = a /\ k4.i = j.i
          /\ k4.summary = j.summary /\ k4.tokens = 0
      BY <2>3 DEF Job
    <2> HIDE DEF k4
    <2>5. QED
      BY <2>4 DEF Job
  <1> HIDE DEF k
  <1>7. job'[w] = k /\ job' = [job EXCEPT ![w] = job'[w]] /\ k # None /\ JobOK(k)
    BY <1>1, <1>5, <1>6, NoneAssumption DEF TypeOK, JobOK
  <1>9. /\ article[a].summary = (IF a \in Summarized THEN "publisher" ELSE article[a].sentiment)
        /\ article[a].sentiment # None <=> rows[a].completed > 0
        /\ links[a] = UNION rows[a].answers
    BY <1>1 DEF IInv, AnalysisIsWhole
  <1>10. summary = IF a \in Summarized THEN "publisher" ELSE j.origin
    BY <1>1, <1>9 DEF summary
  <1>11. /\ article'[a].sentiment = j.origin /\ article'[a].summary = summary
         /\ \A b \in Articles : b # a => article'[b] = article[b]
         /\ article' \in [Articles -> [summary : Origins \cup {None},
                                       sentiment : (Origins \ {"publisher"}) \cup {None}]]
    BY <1>1, <1>4, <1>10 DEF TypeOK, Origins
  <1>12. /\ links'[a] = links[a] \cup j.named
         /\ \A b \in Articles : b # a => links'[b] = links[b]
         /\ links' \in [Articles -> SUBSET entities'] /\ entities' \subseteq Entities
    BY <1>1, <1>3 DEF TypeOK
  <1>13. rows' \in [Articles -> Rows]
    BY <1>1, <1>2, <1>3, RowsType
  <1>14. /\ rows'[a].completed = rows[a].completed + 1 /\ rows[a].completed \in Nat
         /\ rows'[a].answers = rows[a].answers \cup {j.named}
         /\ \A b \in Articles : b # a => /\ rows'[b].completed = rows[b].completed
                                         /\ rows'[b].answers = rows[b].answers
    BY <1>1, <1>3 DEF TypeOK, Rows
  <1>15. due' = [due EXCEPT ![w] = due'[w]] /\ due'[w] = 0 /\ due' \in [Workers -> Nat]
    <2>1. due' = [due EXCEPT ![w] = due'[w]] /\ due'[w] = 0
      BY <1>1, <1>3, ChargeFields DEF IInv
    <2>2. QED
      BY <1>1, <2>1 DEF TypeOK
  <1>16. /\ job' \in [Workers -> {None} \cup Job] /\ JobsOK'
         /\ \A v \in Workers : job'[v] # None => job'[v].i <= Len(chain')
    BY <1>1, <1>3, <1>6, <1>7, JobsAfter DEF IInv
  <1>17. TypeOK'
    BY <1>1, <1>3, <1>11, <1>12, <1>13, <1>15, <1>16 DEF TypeOK
  <1>18. PaidIsRecorded'
    BY <1>1, <1>6, <1>7, <1>15, PaidAfter DEF IInv
  <1>20. AnalysisIsWhole'
    <2> SUFFICES ASSUME NEW b \in Articles
                 PROVE  /\ article'[b].sentiment # None <=> rows'[b].completed > 0
                        /\ article'[b].summary = (IF b \in Summarized THEN "publisher"
                                                  ELSE article'[b].sentiment)
                        /\ links'[b] = UNION rows'[b].answers
      BY DEF AnalysisIsWhole
    <2>1. CASE b = a
      <3>1. article'[a].sentiment # None /\ rows'[a].completed > 0
        BY <1>1, <1>11, <1>14, LlmWorkerAssumption DEF Origins
      <3>2. links'[a] = UNION rows'[a].answers
        BY <1>9, <1>12, <1>14
      <3>3. QED
        BY <2>1, <3>1, <3>2, <1>10, <1>11
    <2>2. CASE b # a
      BY <2>2, <1>11, <1>12, <1>14 DEF IInv, AnalysisIsWhole
    <2>3. QED
      BY <2>1, <2>2
  <1>21. ExtractionsOK'
    <2> SUFFICES ASSUME NEW b \in Articles
                 PROVE  rows'[b].completed + Cardinality(AtWork(b)') <= 1 + overlaps'[b]
      BY DEF ExtractionsOK
    <2>1. /\ rows[b].completed \in Nat /\ overlaps[b] \in Nat /\ overlaps'[b] = overlaps[b]
          /\ rows[b].completed + Cardinality(AtWork(b)) <= 1 + overlaps[b]
      BY <1>1, <1>3 DEF TypeOK, Rows, IInv, ExtractionsOK
    <2>2. CASE b = a
      <3>1. IsFiniteSet(AtWork(b)) /\ w \in AtWork(b)
        BY <1>1, <2>2, FS_Subset, LlmWorkerAssumption DEF AtWork
      <3>2. AtWork(b)' = AtWork(b) \ {w}
        BY <1>1, <1>6, <1>7, <2>2 DEF AtWork, TypeOK
      <3>3. /\ Cardinality(AtWork(b)) \in Nat
            /\ Cardinality(AtWork(b)') = Cardinality(AtWork(b)) - 1
        BY <3>1, <3>2, FS_RemoveElement, FS_CardinalityType
      <3>4. rows'[b].completed = rows[b].completed + 1
        BY <2>2, <1>14
      <3>5. QED
        BY <2>1, <3>3, <3>4
    <2>3. CASE b # a
      BY <2>1, <2>3, <1>1, <1>6, <1>7, <1>14, AtWorkAfter, SMTT(30)
    <2>4. QED
      BY <2>2, <2>3
  <1>22. AcksOK'
    <2> SUFFICES ASSUME NEW v \in Workers, job'[v] # None, job'[v].at = "ack"
                 PROVE  /\ article'[job'[v].of].sentiment # None
                        /\ article'[job'[v].of].summary # None
      BY DEF AcksOK, Extracted
    <2>1. article'[a].sentiment # None /\ article'[a].summary # None
      BY <1>1, <1>10, <1>11, LlmWorkerAssumption DEF Origins
    <2>2. CASE v = w
      BY <2>1, <2>2, <1>6, <1>7
    <2>3. CASE v # w
      <3>1. job'[v] = job[v] /\ job[v] \in Job
        BY <2>3, <1>1, <1>5 DEF TypeOK
      <3>2. job[v].of \in Articles /\ article[job[v].of].sentiment # None
            /\ article[job[v].of].summary # None
        BY <3>1 DEF IInv, AcksOK, Job, Extracted
      <3>3. QED
        BY <2>1, <3>1, <3>2, <1>11
    <2>4. QED
      BY <2>2, <2>3
  <1>23. QED
    BY <1>16, <1>17, <1>18, <1>20, <1>21, <1>22 DEF IInv

-----------------------------------------------------------------------------
(* A message that is taken, and one that is passed over.                   *)

\* An article that is not extracted has no row of a completed extraction.
LEMMA NotExtracted ==
    ASSUME IInv, NEW a \in Articles, ~Extracted(a)
    PROVE  /\ article[a].sentiment = None /\ rows[a].completed = 0
           /\ article[a].summary # None <=> a \in Summarized
  <1>1. rows[a].completed \in Nat
    BY DEF IInv, TypeOK, Rows
  <1>2. "publisher" # None
    BY LlmWorkerAssumption DEF Origins
  <1>3. /\ article[a].sentiment # None <=> rows[a].completed > 0
        /\ article[a].summary = (IF a \in Summarized THEN "publisher" ELSE article[a].sentiment)
    BY DEF IInv, AnalysisIsWhole
  <1>4. QED
    BY <1>1, <1>2, <1>3 DEF Extracted

LEMMA OverlapType ==
    ASSUME TypeOK, NEW a \in Articles, Overlap(a)
    PROVE  /\ overlaps' \in [Articles -> Nat] /\ mishaps' \in 0 .. MaxMishaps
           /\ overlaps'[a] = overlaps[a] + (IF Holders(a) = {} THEN 0 ELSE 1)
           /\ \A b \in Articles : b # a => overlaps'[b] = overlaps[b]
           /\ overlaps[a] \in Nat
  <1>1. CASE Holders(a) = {}
    BY <1>1 DEF Overlap, mishapVars, TypeOK
  <1>2. CASE Holders(a) # {}
    <2>1. overlaps \in [Articles -> Nat] /\ overlaps[a] + 1 \in Nat
      BY DEF TypeOK
    <2>2. overlaps' = [overlaps EXCEPT ![a] = overlaps[a] + 1]
      BY <1>2 DEF Overlap
    <2>3. mishaps' \in 0 .. MaxMishaps
      BY <1>2, LlmWorkerAssumption DEF Overlap, TypeOK
    <2>4. QED
      BY <1>2, <2>1, <2>2, <2>3
  <1>3. QED
    BY <1>1, <1>2

LEMMA SkipIInv ==
    ASSUME IInv, NEW w \in Workers, NEW a \in stream, Skip(w, a)
    PROVE  IInv'
  <1>1. a \in Articles /\ TypeOK
    BY DEF IInv, TypeOK
  <1>2. UNCHANGED <<chain, job, article, entities, links, rows, due>> /\ stream' \subseteq stream
    BY DEF Skip, store
  <1>3. overlaps' \in [Articles -> Nat] /\ mishaps' \in 0 .. MaxMishaps
        /\ \A b \in Articles : overlaps'[b] >= overlaps[b] /\ overlaps[b] \in Nat
    <2>1. Overlap(a)
      BY DEF Skip
    <2>2. overlaps \in [Articles -> Nat]
      BY <1>1 DEF TypeOK
    <2>3. overlaps'[a] >= overlaps[a]
      BY <1>1, <2>1, OverlapType
    <2>4. QED
      BY <1>1, <2>1, <2>2, <2>3, OverlapType
  <1>4. TypeOK'
    BY <1>1, <1>2, <1>3 DEF TypeOK
  <1>5. JobsOK' /\ AcksOK' /\ PaidIsRecorded' /\ AnalysisIsWhole'
    <2>1. JobsOK'
      BY <1>2 DEF IInv, JobsOK, JobOK, LadderOK, Spent, Retries, Provider
    <2>2. AcksOK' /\ PaidIsRecorded'
      BY <1>2 DEF IInv, AcksOK, Extracted, PaidIsRecorded
    <2>3. AnalysisIsWhole'
      BY <1>2 DEF IInv, AnalysisIsWhole
    <2>4. QED
      BY <2>1, <2>2, <2>3
  <1>6. ExtractionsOK'
    <2> SUFFICES ASSUME NEW b \in Articles
                 PROVE  rows'[b].completed + Cardinality(AtWork(b)') <= 1 + overlaps'[b]
      BY DEF ExtractionsOK
    <2>1. AtWork(b)' = AtWork(b) /\ rows'[b] = rows[b]
      BY <1>2 DEF AtWork
    <2>2. IsFiniteSet(AtWork(b))
      BY FS_Subset, LlmWorkerAssumption DEF AtWork
    <2>3. Cardinality(AtWork(b)) \in Nat /\ rows[b].completed \in Nat
      BY <1>1, <2>2, FS_CardinalityType DEF TypeOK, Rows
    <2>4. rows[b].completed + Cardinality(AtWork(b)) <= 1 + overlaps[b]
      BY DEF IInv, ExtractionsOK
    <2>5. QED
      BY <1>3, <2>1, <2>3, <2>4
  <1>7. QED
    BY <1>4, <1>5, <1>6 DEF IInv

LEMMA TakeIInv ==
    ASSUME IInv, NEW w \in Workers, NEW a \in stream, Take(w, a)
    PROVE  IInv'
  <1> DEFINE k == [of |-> a, at |-> "call", origin |-> "llm", i |-> 1, attempt |-> 1,
                   provider |-> None, tokens |-> 0, paid |-> {}, calls |-> NoCalls,
                   refused |-> {}, summary |-> article[a].summary # None,
                   named |-> {}, known |-> {}, linked |-> {}]
  <1>1. a \in Articles /\ TypeOK /\ job[w] = None /\ ~Extracted(a) /\ Overlap(a)
        /\ job \in [Workers -> {None} \cup Job]
    BY DEF IInv, TypeOK, Take
  <1>2. UNCHANGED <<chain, stream, article, entities, links, rows, due>>
        /\ job' = [job EXCEPT ![w] = k]
    BY DEF Take, store, Set
  <1>3. NoCalls \in [Providers -> Nat] /\ \A p \in Providers : NoCalls[p] = 0
    BY DEF NoCalls
  <1>4. k \in Job
    BY <1>1, <1>3 DEF Job
  <1>5. /\ k.of = a /\ k.at = "call" /\ k.i = 1 /\ k.attempt = 1 /\ k.tokens = 0
        /\ k.calls = NoCalls /\ k.refused = {} /\ (k.summary <=> a \in Summarized)
    BY <1>1, NotExtracted
  <1> HIDE DEF k
  <1>6. 1 \in 1 .. Len(chain) /\ Len(chain) \in Nat
    BY <1>1 DEF TypeOK
  <1>7. \A l \in 1 .. Len(chain) :
           chain[l] \in Providers /\ NoCalls[chain[l]] = 0 /\ Retries(chain[l]) \in Nat \ {0}
    BY <1>1, <1>3, ChainType, RetriesType
  <1>8. LadderOK(k)
    BY <1>5, <1>6, <1>7 DEF LadderOK, Spent, Provider
  <1>9. JobOK(k) /\ k # None /\ k.i <= Len(chain)
    BY <1>4, <1>5, <1>6, <1>8, NoneAssumption DEF JobOK
  <1>10. job'[w] = k /\ job' = [job EXCEPT ![w] = job'[w]]
         /\ \A v \in Workers : v # w => job'[v] = job[v]
    BY <1>1, <1>2
  <1>11. /\ job' \in [Workers -> {None} \cup Job] /\ JobsOK'
         /\ \A v \in Workers : job'[v] # None => job'[v].i <= Len(chain')
    BY <1>1, <1>2, <1>4, <1>9, <1>10, JobsAfter DEF IInv
  <1>12. TypeOK'
    BY <1>1, <1>2, <1>11, OverlapType DEF TypeOK
  <1>13. due' = [due EXCEPT ![w] = due'[w]] /\ due'[w] = 0
    BY <1>1, <1>2 DEF IInv, TypeOK, PaidIsRecorded
  <1>14. PaidIsRecorded'
    BY <1>1, <1>5, <1>9, <1>10, <1>13, PaidAfter DEF IInv
  <1>15. AnalysisIsWhole'
    BY <1>2 DEF IInv, AnalysisIsWhole
  <1>16. ExtractionsOK'
    <2> SUFFICES ASSUME NEW b \in Articles
                 PROVE  rows'[b].completed + Cardinality(AtWork(b)') <= 1 + overlaps'[b]
      BY DEF ExtractionsOK
    <2>1. /\ rows'[b].completed = rows[b].completed /\ rows[b].completed \in Nat
          /\ overlaps[b] \in Nat
          /\ rows[b].completed + Cardinality(AtWork(b)) <= 1 + overlaps[b]
      BY <1>1, <1>2 DEF TypeOK, Rows, IInv, ExtractionsOK
    <2>2. IsFiniteSet(AtWork(b)) /\ w \notin AtWork(b) /\ Cardinality(AtWork(b)) \in Nat
      BY <1>1, FS_Subset, FS_CardinalityType, LlmWorkerAssumption DEF AtWork
    <2>3. CASE b = a
      <3>1. AtWork(b)' = AtWork(b) \cup {w}
        BY <2>3, <1>5, <1>9, <1>10 DEF AtWork
      <3>2. Cardinality(AtWork(b)') = Cardinality(AtWork(b)) + 1
        BY <2>2, <3>1, FS_AddElement
      <3>3. CASE Holders(b) = {}
        <4>1. AtWork(b) = {}
          BY <3>3 DEF AtWork, Holders
        <4>2. Cardinality(AtWork(b)) = 0
          BY <4>1, FS_EmptySet
        <4>3. rows[b].completed = 0 /\ overlaps'[b] = overlaps[b]
          BY <2>1, <2>3, <3>3, <1>1, NotExtracted, OverlapType
        <4>4. QED
          BY <2>1, <3>2, <4>2, <4>3
      <3>4. CASE Holders(b) # {}
        <4>1. overlaps'[b] = overlaps[b] + 1
          BY <2>3, <3>4, <1>1, OverlapType
        <4>2. QED
          BY <2>1, <2>2, <3>2, <4>1
      <3>5. QED
        BY <3>3, <3>4
    <2>4. CASE b # a
      <3>1. AtWork(b)' = AtWork(b)
        BY <2>4, <1>1, <1>5, <1>10 DEF AtWork
      <3>2. overlaps'[b] = overlaps[b]
        BY <2>4, <1>1, OverlapType
      <3>3. QED
        BY <2>1, <3>1, <3>2
    <2>5. QED
      BY <2>3, <2>4
  <1>17. AcksOK'
    BY <1>2, <1>5, <1>10 DEF IInv, AcksOK, Extracted
  <1>18. QED
    BY <1>11, <1>12, <1>14, <1>15, <1>16, <1>17 DEF IInv

-----------------------------------------------------------------------------
(* The invariant, and what follows from it.                                *)

\* The chain has each configured provider once.
LEMMA ChainsType ==
    ASSUME NEW keys \in Keys, NEW c \in Chains(keys)
    PROVE  c \in Seq(Providers) /\ IsInjective(c) /\ c # <<>>
  <1>1. PICK n \in 1 .. Len(Listed) : c \in [1 .. n -> keys \cap Providers]
    BY DEF Chains
  <1>2. DOMAIN c = 1 .. n /\ n \in Nat \ {0} /\ c \in Seq(Providers) /\ Len(c) = n
    BY <1>1
  <1>3. ASSUME NEW p
        PROVE  ~Before(p, p)
    <2>1. Listed \in Seq(Providers)
      BY LlmWorkerAssumption DEF Listed, Providers
    <2>2. QED
      BY <2>1 DEF Before
  <1>4. \A k, l \in DOMAIN c : k < l => c[k] # c[l]
    BY <1>3 DEF Chains
  <1>5. IsInjective(c)
    BY <1>2, <1>4 DEF IsInjective
  <1>6. QED
    BY <1>2, <1>5

LEMMA InitIInv == Init => IInv
  <1> SUFFICES ASSUME Init
               PROVE  IInv
    OBVIOUS
  <1>1. chain \in Seq(Providers) /\ IsInjective(chain) /\ chain # <<>>
    BY ChainsType DEF Init
  <1>2. TypeOK
    BY <1>1, LlmWorkerAssumption DEF Init, TypeOK, Origins, Rows
  <1>3. JobsOK /\ AcksOK /\ PaidIsRecorded
    BY DEF Init, JobsOK, AcksOK, PaidIsRecorded
  <1>4. AnalysisIsWhole
    BY LlmWorkerAssumption DEF Init, AnalysisIsWhole, Origins
  <1>5. ExtractionsOK
    <2> SUFFICES ASSUME NEW a \in Articles
                 PROVE  rows[a].completed + Cardinality(AtWork(a)) <= 1 + overlaps[a]
      BY DEF ExtractionsOK
    <2>1. AtWork(a) = {} /\ rows[a].completed = 0 /\ overlaps[a] = 0
      BY DEF Init, AtWork
    <2>2. QED
      BY <2>1, FS_EmptySet
  <1>6. QED
    BY <1>2, <1>3, <1>4, <1>5 DEF IInv

LEMMA NextIInv == IInv /\ [Next]_vars => IInv'
  <1> SUFFICES ASSUME IInv, [Next]_vars
               PROVE  IInv'
    OBVIOUS
  <1>1. ASSUME NEW w \in Workers, Receive(w)
        PROVE  IInv'
    BY <1>1, TakeIInv, SkipIInv DEF Receive
  <1>2. ASSUME NEW w \in Workers, Analyse(w)
        PROVE  IInv'
    BY <1>2, CallFailsIInv, CallCompletesIInv DEF Analyse
  <1>3. ASSUME NEW w \in Workers, Persist(w) \/ Escape(w) \/ Die(w)
        PROVE  IInv'
    BY <1>3, RecordFailureIInv, LinkIInv, ApplyIInv, AckIInv, DieIInv DEF Persist
  <1>4. CASE UNCHANGED vars
    <2>1. TypeOK'
      BY <1>4 DEF vars, IInv, TypeOK
    <2>2. JobsOK' /\ AcksOK' /\ PaidIsRecorded'
      BY <1>4 DEF vars, IInv, AcksOK, Extracted, JobsOK, JobOK, LadderOK, Spent, Retries, Provider,
                  PaidIsRecorded
    <2>3. AnalysisIsWhole' /\ ExtractionsOK'
      BY <1>4 DEF vars, IInv, AnalysisIsWhole, ExtractionsOK, AtWork
    <2>4. QED
      BY <2>1, <2>2, <2>3 DEF IInv
  <1>5. QED
    BY <1>1, <1>2, <1>3, <1>4 DEF Next

LEMMA Invariance == Spec => []IInv
  BY InitIInv, NextIInv, PTL DEF Spec

\* Type correctness; in particular the chain has each provider once, and what is
\* linked is in the table of entities.
THEOREM TypeCorrect == Spec => []TypeOK
  <1>1. IInv => TypeOK
    BY DEF IInv
  <1>2. QED
    BY <1>1, Invariance, PTL

\* No token is paid for and not written down, or written down twice, by a worker that
\* lives.
THEOREM PaidIsAlwaysRecorded == Spec => []PaidIsRecorded
  <1>1. IInv => PaidIsRecorded
    BY DEF IInv
  <1>2. QED
    BY <1>1, Invariance, PTL

\* Whatever the providers answer, each is left behind only when its retries are used up
\* or it refused, and the heuristic answers only after all of them.
THEOREM LadderIsAlwaysClimbed == Spec => []LadderIsClimbed
  <1>1. IInv => LadderIsClimbed
    <2> SUFFICES ASSUME IInv, NEW w \in Workers, job[w] # None, job[w].calls # NoCalls,
                        NEW k \in 1 .. Len(chain)
                 PROVE  LET j == job[w] IN
                        /\ j.calls[chain[k]] <= Retries(chain[k])
                        /\ k <= Behind(j) => j.calls[chain[k]] = Retries(chain[k])
                                             \/ chain[k] \in j.refused
                        /\ k > Behind(j) => chain[k] \notin j.refused
                        /\ k > j.i => j.calls[chain[k]] = 0
      BY DEF LadderIsClimbed
    <2> DEFINE j == job[w]
    <2>1. /\ LadderOK(j) /\ j.i \in 1 .. Len(chain) /\ Len(chain) \in Nat
          /\ Provider(j) = chain[j.i]
      BY ProviderType DEF IInv, JobsOK, JobOK
    <2>2. CASE j.at = "failure"
      <3>1. j.i = Len(chain) /\ Behind(j) = Len(chain) /\ Spent(j, j.i)
        BY <2>1, <2>2 DEF LadderOK, Behind
      <3>2. k < j.i \/ k = j.i
        BY <2>1, <3>1
      <3>3. Spent(j, k)
        BY <2>1, <3>1, <3>2 DEF LadderOK
      <3>4. QED
        BY <2>1, <3>1, <3>3 DEF LadderOK, Spent
    <2>3. CASE j.at # "failure"
      <3>1. Behind(j) = j.i - 1
        BY <2>3 DEF Behind
      <3>2. k < j.i => Spent(j, k)
        BY <2>1 DEF LadderOK
      <3>3. k = j.i \/ k > j.i => chain[k] \notin j.refused
        BY <2>1, <2>3 DEF LadderOK
      <3>4. QED
        BY <2>1, <3>1, <3>2, <3>3 DEF LadderOK, Spent
    <2>4. QED
      BY <2>2, <2>3
  <1>2. QED
    BY <1>1, Invariance, PTL

\* Whichever workers overlap or die, and however the answers about an article differ, an
\* analysis is written whole or not at all: what is linked is what the rows name, and a
\* publisher's summary stays.
THEOREM AnalysisIsAlwaysWhole == Spec => []AnalysisIsWhole
  <1>1. IInv => AnalysisIsWhole
    BY DEF IInv
  <1>2. QED
    BY <1>1, Invariance, PTL

\* An article is extracted once, and once more for each time its message was given to a
\* worker while another was still at it: never again because a worker died.
THEOREM ExtractedOnceOnly == Spec => []ExtractedOnce
  <1>1. IInv => ExtractedOnce
    <2> SUFFICES ASSUME IInv, NEW a \in Articles
                 PROVE  rows[a].completed <= 1 + overlaps[a]
      BY DEF ExtractedOnce
    <2>1. IsFiniteSet(AtWork(a))
      BY FS_Subset, LlmWorkerAssumption DEF AtWork
    <2>2. Cardinality(AtWork(a)) \in Nat /\ rows[a].completed \in Nat /\ overlaps[a] \in Nat
      BY <2>1, FS_CardinalityType DEF IInv, TypeOK, Rows
    <2>3. rows[a].completed + Cardinality(AtWork(a)) <= 1 + overlaps[a]
      BY DEF IInv, ExtractionsOK
    <2>4. QED
      BY <2>2, <2>3
  <1>2. QED
    BY <1>1, Invariance, PTL

\* run_llm_worker.py: a message is acknowledged after its analysis was committed, or
\* because an earlier one was: nothing leaves the stream without one.
THEOREM AckedIsAnalysed == Spec => [][\A a \in stream \ stream' : Extracted(a)]_vars
  <1> DEFINE Step == \A a \in stream \ stream' : Extracted(a)
  <1>1. IInv /\ [Next]_vars => [Step]_vars
    <2> SUFFICES ASSUME IInv, Next, NEW a \in stream, a \notin stream'
                 PROVE  Extracted(a)
      OBVIOUS
    <2>1. PICK w \in Workers : (\E b \in stream : Skip(w, b)) \/ Ack(w)
      BY DEF Next, Receive, Take, Analyse, CallFails, CallCompletes, Persist, RecordFailure,
             Link, Apply, ApplyFails, Escape, Die
    <2>2. CASE Ack(w)
      BY <2>2 DEF Ack, At, IInv, AcksOK
    <2>3. CASE \E b \in stream : Skip(w, b)
      BY <2>3 DEF Skip
    <2>4. QED
      BY <2>1, <2>2, <2>3
  <1>2. QED
    BY <1>1, Invariance, PTL DEF Spec
=============================================================================
