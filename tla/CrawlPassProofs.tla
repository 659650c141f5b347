---------------------------- MODULE CrawlPassProofs ----------------------------
(***************************************************************************)
(* Theorems about CrawlPass: the safety of a pass and the politeness, for  *)
(* any workers, pages, links, budgets, rates, bursts and clock skews, with *)
(* any failures.                                                           *)
(***************************************************************************)
EXTENDS CrawlPass, FiniteSetTheorems, TLAPS

Full == Burst * Token

\* What is left in the bucket, as worker w sees it before the cap.
Level(w) == bucket.tokens + bucket.age + Ahead[w]

\* Tokens and debt: what the requests took beyond the rate is gone from every
\* worker's view of the bucket.
BucketOK ==
    /\ debt <= Full + Skew
    /\ \A w \in Workers :
         /\ Level(w) >= - Skew
         /\ debt > 0 => Level(w) + debt <= Full + Skew

\* A pass that has not begun or has ended has no page in hand, and one that asks
\* the frontier for more has none left.
HandsOK ==
    \A w \in Workers :
        /\ pass[w].at \in Ended \cup {"starting"} => InHand(w) = {}
        /\ pass[w].refilling =>
              pass[w].at = "open" /\ InHand(w) = {} /\ ~pass[w].exhausted

\* What holds of a request for page u in pass p.
RequestOK(u, r, p) ==
    /\ r.fetches <= 1
    /\ ~r.retried => r.fetches = 0
    /\ r.browser => /\ Type[u] \notin {"sitemap", "sitemap index", "rss"}
                    /\ p.requiresBrowser \/ (Type[u] = "article" /\ r.fetches = 1)
    /\ p.requiresBrowser => r.fetches = 0 /\ (Type[u] = "article" => r.browser)
    /\ r.waited <= MaxWait
    /\ r.at = "download" => r.token \/ r.waited = MaxWait

RequestsOK == \A u \in Requests : RequestOK(u, request[u], pass[request[u].by])

\* The part of TypeOK that is about the passes, and the part about the bucket.
PassTypeOK ==
    /\ url \in [Urls -> Url] /\ pass \in [Workers -> Pass]
    /\ request \in [Urls -> Request \cup {None}]
    /\ \A u \in Requests : url[u] = [status |-> "leased", by |-> request[u].by]
BucketTypeOK ==
    /\ bucket \in [tokens : - Skew .. Full, age : {a \in Int : a <= Ttl}]
    /\ debt \in Nat

PassInv == PassTypeOK /\ HandsOK /\ PagesAreCounted /\ RequestsOK
BucketInv == BucketTypeOK /\ BucketOK
CInv == PassInv /\ BucketInv /\ faults \in 0 .. MaxFaults

-----------------------------------------------------------------------------
(* The bucket.                                                             *)

LEMMA MinOfTwo ==
    ASSUME NEW a \in Int, NEW b \in Int
    PROVE  /\ Min({a, b}) \in {a, b} /\ Min({a, b}) \in Int
           /\ Min({a, b}) <= a /\ Min({a, b}) <= b
  <1>1. \E x \in {a, b} : \A y \in {a, b} : x =< y
    OBVIOUS
  <1>2. Min({a, b}) \in {a, b} /\ \A y \in {a, b} : Min({a, b}) =< y
    BY <1>1 DEF Min
  <1>3. QED
    BY <1>2

LEMMA FullNat == Full \in Nat /\ Full >= Token /\ Token \in Nat /\ Token > 0 /\ Ttl >= Full + Skew
  <1>1. Burst \in Nat /\ Burst >= 1 /\ Token \in Nat /\ Token > 0
    BY CrawlPassAssumption
  <1>2. \A b, t \in Nat : b >= 1 => b * t \in Nat /\ b * t >= t
    OBVIOUS
  <1>3. QED
    BY <1>1, <1>2, CrawlPassAssumption DEF Full

\* What a worker finds in the bucket is its level, up to the burst.
LEMMA RefilledIsLevel ==
    ASSUME BucketInv, NEW w \in Workers
    PROVE  /\ Level(w) \in Int /\ Refilled(w) \in Int
           /\ Refilled(w) <= Full /\ Refilled(w) <= Level(w)
           /\ Refilled(w) < Full => Refilled(w) = Level(w)
  <1>1. /\ bucket.tokens \in Int /\ bucket.tokens >= - Skew /\ bucket.age \in Int
        /\ Ahead[w] \in Nat /\ Skew \in Nat /\ Ttl \in Nat
    BY FullNat, CrawlPassAssumption DEF BucketInv, BucketTypeOK
  <1>2. Full \in Int /\ Ttl >= Full + Skew
    BY FullNat
  <1>3. Level(w) \in Int
    BY <1>1 DEF Level
  <1>4. CASE bucket.age = Ttl
    BY <1>1, <1>2, <1>3, <1>4 DEF Refilled, Level, Full
  <1>5. CASE bucket.age # Ttl
    <2>1. Refilled(w) = Min({Full, Level(w)})
      BY <1>5 DEF Refilled, Level, Full
    <2> DEFINE m == Min({Full, Level(w)})
    <2>2. m \in {Full, Level(w)} /\ m \in Int /\ m <= Full /\ m <= Level(w)
      BY <1>2, <1>3, MinOfTwo
    <2> HIDE DEF m
    <2>3. Refilled(w) = m
      BY <2>1 DEF m
    <2>4. QED
      BY <1>2, <1>3, <2>2, <2>3
  <1>6. QED
    BY <1>4, <1>5

\* A run of the script that leaves n tokens, no more than it found, and takes the rest.
LEMMA LeaveBucket ==
    ASSUME BucketInv, NEW w \in Workers, NEW n \in Int, Leave(w, n),
           \/ n = Refilled(w) - Token /\ n >= 0 /\ debt' = debt + Token
           \/ n = Refilled(w) /\ n < Token /\ debt' = debt
    PROVE  BucketInv'
  <1>1. /\ bucket' = [tokens |-> n, age |-> - Ahead[w]] /\ Ahead[w] \in Nat /\ Skew \in Nat
        /\ Ttl \in Nat /\ debt \in Nat /\ Full \in Nat /\ Token \in Nat /\ Token > 0 /\ Full >= Token
    BY CrawlPassAssumption, FullNat DEF Leave, BucketInv, BucketTypeOK
  <1>2. /\ Level(w) \in Int /\ Refilled(w) \in Int
        /\ Refilled(w) <= Full /\ Refilled(w) <= Level(w)
        /\ Refilled(w) < Full => Refilled(w) = Level(w)
    BY RefilledIsLevel
  <1>3. /\ debt <= Full + Skew /\ Level(w) >= - Skew
        /\ debt > 0 => Level(w) + debt <= Full + Skew
    BY DEF BucketInv, BucketOK
  <1>4. n >= - Skew /\ n <= Full
    BY <1>1, <1>2, <1>3
  <1>5. BucketTypeOK'
    BY <1>1, <1>4 DEF BucketTypeOK
  <1>6. debt' <= Full + Skew
    BY <1>1, <1>2, <1>3
  <1>7. ASSUME NEW v \in Workers
        PROVE  /\ Level(v)' >= - Skew
               /\ debt' > 0 => Level(v)' + debt' <= Full + Skew
    <2>1. Level(v)' = n - Ahead[w] + Ahead[v] /\ Ahead[v] \in Nat
      BY <1>1, CrawlPassAssumption DEF Level
    <2>2. Ahead[v] - Ahead[w] <= Skew /\ Ahead[w] - Ahead[v] <= Skew
      BY CrawlPassAssumption
    <2>3. Level(v) \in Int /\ Level(v) = Level(w) - Ahead[w] + Ahead[v] /\ Level(v) >= - Skew
          /\ (debt > 0 => Level(v) + debt <= Full + Skew)
      BY <1>1, <2>1 DEF Level, BucketInv, BucketTypeOK, BucketOK
    <2>4. CASE n = Refilled(w) - Token /\ n >= 0 /\ debt' = debt + Token
      <3>1. Level(v)' >= - Skew
        BY <1>1, <2>1, <2>2, <2>4
      <3>2. CASE debt > 0
        BY <1>1, <1>2, <2>1, <2>3, <2>4, <3>2, <3>1
      <3>3. CASE debt = 0
        BY <1>1, <1>2, <2>1, <2>2, <2>4, <3>3, <3>1
      <3>4. QED
        BY <1>1, <3>2, <3>3
    <2>5. CASE n = Refilled(w) /\ n < Token /\ debt' = debt
      BY <1>1, <1>2, <2>1, <2>3, <2>5
    <2>6. QED
      BY <2>4, <2>5
  <1>8. QED
    BY <1>5, <1>6, <1>7 DEF BucketInv, BucketOK

LEMMA TickBucket ==
    ASSUME BucketInv, Tick
    PROVE  BucketInv'
  <1> DEFINE age == Min({bucket.age + 1, Ttl})
             less == Max({debt - 1, 0})
  <1>1. /\ bucket.tokens \in - Skew .. Full /\ bucket.age \in Int /\ bucket.age <= Ttl
        /\ debt \in Nat /\ Ttl \in Nat /\ Skew \in Nat /\ Full \in Nat
        /\ bucket = [tokens |-> bucket.tokens, age |-> bucket.age]
    BY CrawlPassAssumption, FullNat DEF BucketInv, BucketTypeOK
  <1>2. age \in Int /\ age <= Ttl /\ age <= bucket.age + 1 /\ age >= bucket.age
    BY <1>1, MinOfTwo
  <1>3. less = IF debt > 0 THEN debt - 1 ELSE 0
    <2>1. \E x \in {debt - 1, 0} : \A y \in {debt - 1, 0} : x >= y
      BY <1>1
    <2>2. less \in {debt - 1, 0} /\ \A y \in {debt - 1, 0} : less >= y
      BY <2>1 DEF Max
    <2>3. QED
      BY <1>1, <2>2
  <1> HIDE DEF age, less
  <1>4. bucket' = [tokens |-> bucket.tokens, age |-> age] /\ debt' = less
    BY <1>1 DEF Tick, age, less
  <1>5. BucketTypeOK'
    BY <1>1, <1>2, <1>3, <1>4 DEF BucketTypeOK
  <1>6. debt <= Full + Skew
    BY DEF BucketInv, BucketOK
  <1>7. ASSUME NEW w \in Workers
        PROVE  /\ Level(w)' >= - Skew
               /\ debt' > 0 => Level(w)' + debt' <= Full + Skew
    <2>1. Ahead[w] \in Nat /\ Level(w) \in Int /\ Level(w) >= - Skew
          /\ (debt > 0 => Level(w) + debt <= Full + Skew)
      BY <1>1, CrawlPassAssumption DEF BucketInv, BucketOK, Level
    <2>2. Level(w)' = bucket.tokens + age + Ahead[w] /\ Level(w)' \in Int
          /\ Level(w) <= Level(w)' /\ Level(w)' <= Level(w) + 1
      BY <1>1, <1>2, <1>4, <2>1 DEF Level
    <2>3. QED
      BY <1>1, <1>3, <1>4, <2>1, <2>2
  <1>8. QED
    BY <1>1, <1>3, <1>4, <1>5, <1>6, <1>7 DEF BucketInv, BucketOK

LEMMA SameBucket ==
    ASSUME BucketInv, UNCHANGED <<bucket, debt>>
    PROVE  BucketInv'
  BY DEF BucketInv, BucketTypeOK, BucketOK, Level

-----------------------------------------------------------------------------
(* The pages in hand.                                                      *)

LEMMA HandsAreFinite ==
    \A w \in Workers : IsFiniteSet(InHand(w)) /\ Cardinality(InHand(w)) \in Nat
  <1> SUFFICES ASSUME NEW w \in Workers
               PROVE  IsFiniteSet(InHand(w)) /\ Cardinality(InHand(w)) \in Nat
    OBVIOUS
  <1>1. InHand(w) \in SUBSET Urls
    BY DEF InHand
  <1>2. IsFiniteSet(InHand(w))
    BY <1>1, FS_Subset, CrawlPassAssumption
  <1>3. QED
    BY <1>2, FS_CardinalityType

\* A page in hand has a request of a pass that is under way.
LEMMA InHandOpen ==
    ASSUME PassInv, NEW u \in Requests
    PROVE  /\ request[u] \in Request /\ request[u].by \in Workers /\ u \in Urls
           /\ u \in InHand(request[u].by)
           /\ pass[request[u].by] \in Pass
           /\ pass[request[u].by].at \in {"open", "closing"} /\ ~pass[request[u].by].refilling
  <1>1. u \in Urls /\ request[u] # None
    BY DEF Requests
  <1>2. request[u] \in Request
    BY <1>1 DEF PassInv, PassTypeOK
  <1>3. request[u].by \in Workers
    BY <1>2 DEF Request
  <1>4. u \in InHand(request[u].by)
    BY <1>1 DEF InHand
  <1>5. pass[request[u].by] \in Pass
    BY <1>3 DEF PassInv, PassTypeOK
  <1>6. pass[request[u].by].at \notin Ended \cup {"starting"} /\ ~pass[request[u].by].refilling
    BY <1>3, <1>4 DEF PassInv, HandsOK
  <1>7. pass[request[u].by].at \in {"open", "closing"}
    BY <1>5, <1>6 DEF Pass, Ended
  <1>8. QED
    BY <1>1, <1>2, <1>3, <1>4, <1>5, <1>6, <1>7

\* What a step about one page in hand may do to its pass.
SamePass(p, q) ==
    /\ q \in Pass
    /\ q.claimed = p.claimed /\ q.refilling = p.refilling /\ q.requiresBrowser = p.requiresBrowser
    /\ q.at = p.at \/ (p.at = "open" /\ q.at = "closing")

\* A step that keeps the page in hand.
LEMMA Worked ==
    ASSUME PassInv, NEW u \in Requests, NEW r \in Request, NEW q,
           r.by = request[u].by, RequestOK(u, r, pass[request[u].by]),
           SamePass(pass[request[u].by], q),
           q.requested + q.lost = pass[request[u].by].requested + pass[request[u].by].lost,
           request' = [request EXCEPT ![u] = r], pass' = [pass EXCEPT ![request[u].by] = q],
           UNCHANGED url
    PROVE  PassInv'
  <1> DEFINE w == request[u].by
  <1>1. /\ request[u] \in Request /\ w \in Workers /\ u \in Urls /\ u \in InHand(w) /\ request[u] # None
        /\ pass[w] \in Pass /\ pass[w].at \in {"open", "closing"} /\ ~pass[w].refilling
    BY InHandOpen DEF Requests
  <1>2. r # None
    BY NoneAssumption
  <1>3. /\ request'[u] = r /\ \A v \in Urls \ {u} : request'[v] = request[v]
        /\ request' \in [Urls -> Request \cup {None}]
    BY <1>1 DEF PassInv, PassTypeOK
  <1>4. /\ pass'[w] = q /\ \A v \in Workers \ {w} : pass'[v] = pass[v]
        /\ pass' \in [Workers -> Pass]
    BY <1>1 DEF PassInv, PassTypeOK, SamePass
  <1>5. \A v \in Workers : InHand(v)' = InHand(v)
    BY <1>1, <1>2, <1>3 DEF InHand
  <1>6. Requests' = Requests
    BY <1>1, <1>2, <1>3 DEF Requests
  <1>7. PassTypeOK'
    BY <1>1, <1>2, <1>3, <1>4, <1>6 DEF PassInv, PassTypeOK, Requests
  <1>8. HandsOK'
    BY <1>1, <1>4, <1>5 DEF PassInv, HandsOK, SamePass, Ended
  <1>9. PagesAreCounted'
    <2>1. ASSUME NEW v \in Workers
          PROVE  /\ pass'[v].claimed <= MaxPages[v]
                 /\ pass'[v].claimed = pass'[v].requested + pass'[v].lost + Cardinality(InHand(v)')
      <3>1. Cardinality(InHand(v)') = Cardinality(InHand(v)) /\ Cardinality(InHand(v)) \in Nat
        BY <1>5, HandsAreFinite
      <3>2. /\ pass[v].claimed <= MaxPages[v]
            /\ pass[v].claimed = pass[v].requested + pass[v].lost + Cardinality(InHand(v))
        BY DEF PassInv, PagesAreCounted
      <3>3. CASE v = w
        <4>1. /\ pass'[v].claimed = pass[v].claimed
              /\ pass'[v].requested + pass'[v].lost = pass[v].requested + pass[v].lost
          BY <1>4, <3>3 DEF SamePass
        <4>2. QED
          BY <3>1, <3>2, <4>1
      <3>4. CASE v # w
        BY <1>4, <3>1, <3>2, <3>4
      <3>5. QED
        BY <3>3, <3>4
    <2>2. QED
      BY <2>1 DEF PagesAreCounted
  <1>10. RequestsOK'
    <2>1. ASSUME NEW v \in Requests
          PROVE  RequestOK(v, request'[v], pass'[request'[v].by])
      <3>1. RequestOK(v, request[v], pass[request[v].by])
        BY DEF PassInv, RequestsOK
      <3>2. v \in Urls /\ request[v].by \in Workers
        BY InHandOpen
      <3>3. CASE v = u
        <4>1. RequestOK(u, r, q)
          BY DEF RequestOK, SamePass
        <4>2. request'[v] = r /\ pass'[r.by] = q
          BY <1>3, <1>4, <3>3
        <4>3. QED
          BY <3>3, <4>1, <4>2
      <3>4. CASE v # u /\ request[v].by = w
        BY <1>3, <1>4, <3>1, <3>2, <3>4 DEF RequestOK, SamePass
      <3>5. CASE v # u /\ request[v].by # w
        BY <1>3, <1>4, <3>1, <3>2, <3>5
      <3>6. QED
        BY <3>3, <3>4, <3>5
    <2>2. QED
      BY <1>6, <2>1 DEF RequestsOK
  <1>11. QED
    BY <1>7, <1>8, <1>9, <1>10 DEF PassInv

\* A step that answers or loses the page.
LEMMA Gone ==
    ASSUME PassInv, NEW u \in Requests, NEW q,
           SamePass(pass[request[u].by], q),
           q.requested + q.lost = pass[request[u].by].requested + pass[request[u].by].lost + 1,
           request' = [request EXCEPT ![u] = None], pass' = [pass EXCEPT ![request[u].by] = q],
           url' \in [Urls -> Url], \A v \in Requests \ {u} : url'[v] = url[v]
    PROVE  PassInv'
  <1> DEFINE w == request[u].by
  <1>1. /\ request[u] \in Request /\ w \in Workers /\ u \in Urls /\ u \in InHand(w) /\ request[u] # None
        /\ pass[w] \in Pass /\ pass[w].at \in {"open", "closing"} /\ ~pass[w].refilling
    BY InHandOpen DEF Requests
  <1>2. /\ request'[u] = None /\ \A v \in Urls \ {u} : request'[v] = request[v]
        /\ request' \in [Urls -> Request \cup {None}]
    BY <1>1 DEF PassInv, PassTypeOK
  <1>3. /\ pass'[w] = q /\ \A v \in Workers \ {w} : pass'[v] = pass[v]
        /\ pass' \in [Workers -> Pass]
    BY <1>1 DEF PassInv, PassTypeOK, SamePass
  <1>4. \A v \in Workers : InHand(v)' = IF v = w THEN InHand(v) \ {u} ELSE InHand(v)
    <2>1. ASSUME NEW v \in Workers
          PROVE  InHand(v)' = IF v = w THEN InHand(v) \ {u} ELSE InHand(v)
      <3>1. ASSUME NEW x \in Urls
            PROVE  x \in InHand(v)' <=> x \in (IF v = w THEN InHand(v) \ {u} ELSE InHand(v))
        <4>1. CASE x = u
          BY <1>1, <1>2, <4>1 DEF InHand
        <4>2. CASE x # u
          BY <1>2, <4>2 DEF InHand
        <4>3. QED
          BY <4>1, <4>2
      <3>2. InHand(v)' \subseteq Urls /\ InHand(v) \subseteq Urls
        BY DEF InHand
      <3>3. QED
        BY <3>1, <3>2
    <2>2. QED
      BY <2>1
  <1>5. Requests' = Requests \ {u}
    BY <1>1, <1>2 DEF Requests
  <1>6. PassTypeOK'
    BY <1>1, <1>2, <1>3, <1>5 DEF PassInv, PassTypeOK, Requests
  <1>7. HandsOK'
    BY <1>1, <1>3, <1>4 DEF PassInv, HandsOK, SamePass, Ended
  <1>8. PagesAreCounted'
    <2>1. ASSUME NEW v \in Workers
          PROVE  /\ pass'[v].claimed <= MaxPages[v]
                 /\ pass'[v].claimed = pass'[v].requested + pass'[v].lost + Cardinality(InHand(v)')
      <3>1. IsFiniteSet(InHand(v)) /\ Cardinality(InHand(v)) \in Nat
        BY HandsAreFinite
      <3>2. /\ pass[v].claimed <= MaxPages[v]
            /\ pass[v].claimed = pass[v].requested + pass[v].lost + Cardinality(InHand(v))
        BY DEF PassInv, PagesAreCounted
      <3>3. CASE v = w
        <4>1. /\ pass'[v].claimed = pass[v].claimed
              /\ pass'[v].requested + pass'[v].lost = pass[v].requested + pass[v].lost + 1
              /\ pass[v] \in Pass /\ pass'[v] \in Pass
          BY <1>1, <1>3, <3>3 DEF SamePass
        <4>0. Cardinality(InHand(v) \ {u}) = Cardinality(InHand(v)) - 1
          BY <1>1, <3>1, <3>3, FS_RemoveElement
        <4>2. Cardinality(InHand(v)') = Cardinality(InHand(v)) - 1
          BY <1>4, <3>3, <4>0
        <4>3. pass[v].requested \in Nat /\ pass[v].lost \in Nat
          BY <4>1 DEF Pass
        <4>4. QED
          BY <3>1, <3>2, <4>1, <4>2, <4>3
      <3>4. CASE v # w
        BY <1>3, <1>4, <3>1, <3>2, <3>4
      <3>5. QED
        BY <3>3, <3>4
    <2>2. QED
      BY <2>1 DEF PagesAreCounted
  <1>9. RequestsOK'
    <2>1. ASSUME NEW v \in Requests \ {u}
          PROVE  RequestOK(v, request'[v], pass'[request'[v].by])
      <3>1. RequestOK(v, request[v], pass[request[v].by])
        BY DEF PassInv, RequestsOK
      <3>2. v \in Urls /\ request[v].by \in Workers
        BY InHandOpen
      <3>3. CASE request[v].by = w
        BY <1>2, <1>3, <3>1, <3>2, <3>3 DEF RequestOK, SamePass
      <3>4. CASE request[v].by # w
        BY <1>2, <1>3, <3>1, <3>2, <3>4
      <3>5. QED
        BY <3>3, <3>4
    <2>2. QED
      BY <1>5, <2>1 DEF RequestsOK
  <1>10. QED
    BY <1>6, <1>7, <1>8, <1>9 DEF PassInv

\* A response moves a pass towards its end at most.
LEMMA Responded ==
    ASSUME NEW w \in Workers, NEW p \in Pass
    PROVE  /\ SamePass(p, Respond(w, p))
           /\ Respond(w, p).requested = p.requested /\ Respond(w, p).lost = p.lost
  <1> DEFINE p1 == [p EXCEPT !.responses = @ + 1]
             at == IF p.at = "open" /\ p.responses + 1 >= MaxPages[w] THEN "closing" ELSE p.at
             p2 == [p1 EXCEPT !.at = at]
  <1>1. p1 \in Pass /\ p1.at = p.at /\ p1.claimed = p.claimed /\ p1.refilling = p.refilling
        /\ p1.requiresBrowser = p.requiresBrowser /\ p1.requested = p.requested /\ p1.lost = p.lost
        /\ p1.responses = p.responses + 1
    BY DEF Pass
  <1>2. at = p.at \/ (p.at = "open" /\ at = "closing")
    OBVIOUS
  <1>3. p.at \in {"off", "starting", "open", "closing", "finished", "pagecount"}
    BY DEF Pass
  <1>4. Respond(w, p) = p2
    BY Zenon DEF Respond
  <1> HIDE DEF p1, at
  <1>5. p2 \in Pass /\ p2.at = at /\ p2.claimed = p1.claimed /\ p2.refilling = p1.refilling
        /\ p2.requiresBrowser = p1.requiresBrowser /\ p2.requested = p1.requested /\ p2.lost = p1.lost
    BY <1>1, <1>2, <1>3 DEF Pass
  <1> HIDE DEF p2
  <1>6. QED
    BY <1>1, <1>2, <1>4, <1>5 DEF SamePass

\* A step that changes a pass, and neither a page nor a request.
LEMMA PassSet ==
    ASSUME PassInv, NEW w \in Workers, NEW q \in Pass,
           UNCHANGED <<url, request>>, pass' = [pass EXCEPT ![w] = q],
           q.at \in Ended \cup {"starting"} => InHand(w) = {},
           q.refilling => q.at = "open" /\ InHand(w) = {} /\ ~q.exhausted,
           q.claimed <= MaxPages[w],
           q.claimed = q.requested + q.lost + Cardinality(InHand(w)),
           InHand(w) = {} \/ q.requiresBrowser = pass[w].requiresBrowser
    PROVE  PassInv'
  <1>1. /\ pass'[w] = q /\ \A v \in Workers \ {w} : pass'[v] = pass[v]
        /\ pass' \in [Workers -> Pass]
    BY DEF PassInv, PassTypeOK
  <1>2. \A v \in Workers : InHand(v)' = InHand(v)
    BY DEF InHand
  <1>3. Requests' = Requests
    BY DEF Requests
  <1>4. PassTypeOK'
    BY <1>1, <1>3 DEF PassInv, PassTypeOK
  <1>5. HandsOK'
    BY <1>1, <1>2 DEF PassInv, HandsOK
  <1>6. PagesAreCounted'
    BY <1>1, <1>2 DEF PassInv, PagesAreCounted
  <1>7. RequestsOK'
    <2>1. ASSUME NEW u \in Requests
          PROVE  RequestOK(u, request[u], pass'[request[u].by])
      <3>1. RequestOK(u, request[u], pass[request[u].by])
        BY DEF PassInv, RequestsOK
      <3>2. request[u].by \in Workers /\ u \in InHand(request[u].by)
        BY InHandOpen
      <3>3. CASE request[u].by = w
        <4>1. q.requiresBrowser = pass[w].requiresBrowser
          BY <3>2, <3>3
        <4>2. QED
          BY <1>1, <3>1, <3>3, <4>1 DEF RequestOK
      <3>4. CASE request[u].by # w
        BY <1>1, <3>1, <3>2, <3>4
      <3>5. QED
        BY <3>3, <3>4
    <2>2. QED
      BY <1>3, <2>1 DEF RequestsOK
  <1>8. QED
    BY <1>4, <1>5, <1>6, <1>7 DEF PassInv

\* A step that changes pages that nobody has in hand.
LEMMA UrlsSet ==
    ASSUME PassInv, UNCHANGED <<pass, request>>, url' \in [Urls -> Url],
           \A u \in Requests : url'[u] = url[u]
    PROVE  PassInv'
  <1>1. Requests' = Requests
    BY DEF Requests
  <1>2. \A w \in Workers : InHand(w)' = InHand(w)
    BY DEF InHand
  <1>3. PassTypeOK'
    BY <1>1 DEF PassInv, PassTypeOK
  <1>4. HandsOK' /\ PagesAreCounted'
    BY <1>2 DEF PassInv, HandsOK, PagesAreCounted
  <1>5. RequestsOK'
    BY <1>1 DEF PassInv, RequestsOK
  <1>6. QED
    BY <1>3, <1>4, <1>5 DEF PassInv

\* What an answer tells the frontier concerns no other page in hand.
LEMMA Answers ==
    ASSUME PassInv, NEW u \in Requests, NEW status \in Statuses, NEW found, Answer(u, status, found)
    PROVE  /\ url' \in [Urls -> Url]
           /\ \A v \in Requests \ {u} : url'[v] = url[v]
  <1>1. [status |-> status, by |-> None] \in Url /\ [status |-> "due", by |-> None] \in Url
    BY DEF Url, Statuses
  <1>2. url' \in [Urls -> Url]
    BY <1>1 DEF Answer, PassInv, PassTypeOK
  <1>3. ASSUME NEW v \in Requests \ {u}
        PROVE  url'[v] = url[v]
    <2>1. v \in Urls /\ url[v].status = "leased"
      BY DEF PassInv, PassTypeOK, Requests
    <2>2. QED
      BY <2>1 DEF Answer
  <1>4. QED
    BY <1>2, <1>3

-----------------------------------------------------------------------------
(* The fields of a request.                                                *)

Stages == {"scheduled", "asking", "asleep", "download"}

LEMMA AtSet ==
    ASSUME NEW r \in Request, NEW at \in Stages
    PROVE  LET n == [r EXCEPT !.at = at]
           IN  /\ n \in Request /\ n.at = at /\ n.by = r.by /\ n.browser = r.browser
               /\ n.retried = r.retried /\ n.fetches = r.fetches /\ n.waited = r.waited
               /\ n.sleep = r.sleep /\ n.token = r.token
  BY DEF Request, Stages

LEMMA TokenSet ==
    ASSUME NEW r \in Request
    PROVE  LET n == [r EXCEPT !.token = TRUE]
           IN  /\ n \in Request /\ n.at = r.at /\ n.by = r.by /\ n.browser = r.browser
               /\ n.retried = r.retried /\ n.fetches = r.fetches /\ n.waited = r.waited
               /\ n.sleep = r.sleep /\ n.token
  BY DEF Request

LEMMA SleepSet ==
    ASSUME NEW r \in Request, NEW sleep \in 0 .. MaxWait
    PROVE  LET n == [r EXCEPT !.sleep = sleep]
           IN  /\ n \in Request /\ n.at = r.at /\ n.by = r.by /\ n.browser = r.browser
               /\ n.retried = r.retried /\ n.fetches = r.fetches /\ n.waited = r.waited
               /\ n.sleep = sleep /\ n.token = r.token
  BY DEF Request

LEMMA WaitedSet ==
    ASSUME NEW r \in Request, NEW waited \in 0 .. MaxWait
    PROVE  LET n == [r EXCEPT !.waited = waited]
           IN  /\ n \in Request /\ n.at = r.at /\ n.by = r.by /\ n.browser = r.browser
               /\ n.retried = r.retried /\ n.fetches = r.fetches /\ n.waited = waited
               /\ n.sleep = r.sleep /\ n.token = r.token
  BY DEF Request

\* A new request, for the plain fetch or as the browser's.
LEMMA NewRequestOK ==
    ASSUME NEW w \in Workers, NEW u \in Urls, pass[w] \in Pass
    PROVE  /\ NewRequest(w, u) \in Request /\ NewRequest(w, u).by = w
           /\ RequestOK(u, NewRequest(w, u), pass[w])
  <1>1. pass[w].requiresBrowser \in BOOLEAN
    BY DEF Pass
  <1>2. NeedsBrowser(w, u) \in BOOLEAN
    <2>1. CASE NeedsBrowser(w, u)
      BY <2>1
    <2>2. CASE ~NeedsBrowser(w, u)
      BY <2>2 DEF NeedsBrowser
    <2>3. QED
      BY <2>1, <2>2
  <1> DEFINE r == NewRequest(w, u)
  <1>3. /\ r \in Request /\ r.by = w /\ r.at = "scheduled" /\ r.browser = NeedsBrowser(w, u)
        /\ ~r.retried /\ r.fetches = 0 /\ r.waited = 0
    BY <1>2, CrawlPassAssumption DEF NewRequest, Request
  <1> HIDE DEF r
  <1>4. RequestOK(u, r, pass[w])
    <2>1. r.browser => pass[w].requiresBrowser /\ Type[u] \notin {"sitemap", "sitemap index", "rss"}
      BY <1>3 DEF NeedsBrowser
    <2>2. pass[w].requiresBrowser /\ Type[u] = "article" => r.browser
      BY <1>3 DEF NeedsBrowser
    <2>3. r.fetches <= 1 /\ r.waited <= MaxWait /\ r.at # "download"
      BY <1>3, CrawlPassAssumption
    <2>4. QED
      BY <1>3, <2>1, <2>2, <2>3 DEF RequestOK
  <1>5. QED
    BY <1>3, <1>4 DEF r

-----------------------------------------------------------------------------
(* The actions.                                                            *)

LEMMA InitCInv == Init => CInv
  <1> SUFFICES ASSUME Init
               PROVE  CInv
    OBVIOUS
  <1>1. Requests = {} /\ \A w \in Workers : InHand(w) = {}
    BY DEF Init, Requests, InHand
  <1>2. PassTypeOK
    <2>1. url \in [Urls -> Url]
      BY DEF Init, Url, Statuses
    <2>2. pass \in [Workers -> Pass]
      BY DEF Init, Pass
    <2>3. QED
      BY <1>1, <2>1, <2>2 DEF Init, PassTypeOK
  <1>3. HandsOK
    BY <1>1 DEF Init, HandsOK
  <1>4. PagesAreCounted
    <2>1. ASSUME NEW w \in Workers
          PROVE  /\ pass[w].claimed <= MaxPages[w]
                 /\ pass[w].claimed = pass[w].requested + pass[w].lost + Cardinality(InHand(w))
      <3>1. Cardinality(InHand(w)) = 0 /\ MaxPages[w] \in Nat
        BY <1>1, FS_EmptySet, CrawlPassAssumption
      <3>2. pass[w].claimed = 0 /\ pass[w].requested = 0 /\ pass[w].lost = 0
        BY DEF Init
      <3>3. QED
        BY <3>1, <3>2
    <2>2. QED
      BY <2>1 DEF PagesAreCounted
  <1>5. RequestsOK
    BY <1>1 DEF RequestsOK
  <1>6. BucketInv
    <2>1. bucket = [tokens |-> Full, age |-> Ttl] /\ debt = 0
      BY DEF Init, Full
    <2>2. Full \in Nat /\ Ttl \in Nat /\ Skew \in Nat /\ \A w \in Workers : Ahead[w] \in Nat
      BY FullNat, CrawlPassAssumption
    <2>3. BucketTypeOK
      BY <2>1, <2>2 DEF BucketTypeOK
    <2>4. BucketOK
      BY <2>1, <2>2 DEF BucketOK, Level
    <2>5. QED
      BY <2>3, <2>4 DEF BucketInv
  <1>7. QED
    BY <1>2, <1>3, <1>4, <1>5, <1>6, CrawlPassAssumption DEF Init, CInv, PassInv

LEMMA FaultOK ==
    ASSUME faults \in 0 .. MaxFaults, Fault \/ UNCHANGED faults
    PROVE  faults' \in 0 .. MaxFaults
  BY CrawlPassAssumption DEF Fault

LEMMA StartPassInv ==
    ASSUME PassInv, NEW w \in Workers, StartPass(w)
    PROVE  PassInv'
  <1>1. PICK requires \in BOOLEAN :
          SetPass(w, [at |-> "starting", exhausted |-> FALSE, refilling |-> FALSE, robots |-> FALSE,
                      requiresBrowser |-> requires, claimed |-> 0, responses |-> 0, requested |-> 0,
                      lost |-> 0, nth |-> pass[w].nth + 1])
    BY DEF StartPass
  <1> DEFINE q == [at |-> "starting", exhausted |-> FALSE, refilling |-> FALSE, robots |-> FALSE,
                   requiresBrowser |-> requires, claimed |-> 0, responses |-> 0, requested |-> 0,
                   lost |-> 0, nth |-> pass[w].nth + 1]
  <1>2. pass[w].nth \in Nat
    BY DEF PassInv, PassTypeOK, Pass
  <1>3. /\ q \in Pass /\ q.at = "starting" /\ ~q.refilling /\ q.claimed = 0 /\ q.requested = 0
        /\ q.lost = 0
    BY <1>2 DEF Pass
  <1>4. pass' = [pass EXCEPT ![w] = q] /\ UNCHANGED <<url, request>>
    BY <1>1 DEF SetPass, StartPass
  <1> HIDE DEF q
  <1>5. InHand(w) = {}
    BY DEF StartPass, PassInv, HandsOK
  <1>6. Cardinality(InHand(w)) = 0 /\ MaxPages[w] \in Nat
    BY <1>5, FS_EmptySet, CrawlPassAssumption
  <1>7. q.claimed <= MaxPages[w] /\ q.claimed = q.requested + q.lost + Cardinality(InHand(w))
    BY <1>3, <1>6
  <1>8. QED
    BY <1>3, <1>4, <1>5, <1>7, PassSet

LEMMA ClaimFailsInv ==
    ASSUME PassInv, NEW w \in Workers, ClaimFails(w)
    PROVE  PassInv'
  <1> DEFINE p == pass[w]
             p1 == [p EXCEPT !.refilling = FALSE]
             at == IF p.at = "starting" THEN "open" ELSE p.at
             q == [p1 EXCEPT !.at = at]
  <1>1. p \in Pass /\ InHand(w) = {}
    BY DEF ClaimFails, Asks, PassInv, PassTypeOK, HandsOK
  <1>2. at \in {"off", "starting", "open", "closing", "finished", "pagecount"}
    BY <1>1 DEF Pass
  <1>3. p1 \in Pass /\ ~p1.refilling /\ p1.claimed = p.claimed /\ p1.requested = p.requested
        /\ p1.lost = p.lost
    BY <1>1 DEF Pass
  <1>4. pass' = [pass EXCEPT ![w] = q] /\ UNCHANGED <<url, request>>
    <2>1. pass' = [pass EXCEPT ![w] = [p EXCEPT !.refilling = FALSE, !.at = at]]
      BY DEF ClaimFails, SetPass
    <2>2. QED
      BY <2>1, Zenon DEF ClaimFails
  <1> HIDE DEF p1, at
  <1>5. q \in Pass /\ ~q.refilling /\ q.claimed = p.claimed /\ q.requested = p.requested
        /\ q.lost = p.lost
    BY <1>2, <1>3 DEF Pass
  <1> HIDE DEF q
  <1>6. p.claimed <= MaxPages[w] /\ p.claimed = p.requested + p.lost + Cardinality(InHand(w))
    BY DEF PassInv, PagesAreCounted
  <1>7. QED
    BY <1>1, <1>4, <1>5, <1>6, PassSet

LEMMA IdleInv ==
    ASSUME PassInv, NEW w \in Workers, Idle(w)
    PROVE  PassInv'
  <1> DEFINE p == pass[w]
             q == OnIdle(p)
  <1>1. p \in Pass /\ InHand(w) = {} /\ p.at = "open"
        /\ pass' = [pass EXCEPT ![w] = q] /\ UNCHANGED <<url, request>>
    BY DEF Idle, SetPass, PassInv, PassTypeOK
  <1>2. p.refilling => ~p.exhausted
    BY DEF PassInv, HandsOK
  <1>3. /\ q \in Pass /\ q.claimed = p.claimed /\ q.requested = p.requested /\ q.lost = p.lost
        /\ q.refilling => q.at = "open" /\ ~q.exhausted
    <2>1. CASE p.exhausted
      BY <1>1, <1>2, <2>1 DEF OnIdle, Pass
    <2>2. CASE ~p.exhausted
      BY <1>1, <2>2 DEF OnIdle, Pass
    <2>3. QED
      BY <2>1, <2>2
  <1> HIDE DEF q
  <1>4. p.claimed <= MaxPages[w] /\ p.claimed = p.requested + p.lost + Cardinality(InHand(w))
    BY DEF PassInv, PagesAreCounted
  <1>5. QED
    BY <1>1, <1>3, <1>4, PassSet

LEMMA ReapInv ==
    ASSUME PassInv, NEW w \in Workers, Reap(w)
    PROVE  PassInv'
  <1>1. [status |-> "due", by |-> None] \in Url
    BY DEF Url, Statuses
  <1>2. url' \in [Urls -> Url] /\ UNCHANGED <<pass, request>> /\ \A u \in Requests : url'[u] = url[u]
    BY <1>1 DEF Reap, PassInv, PassTypeOK, Requests
  <1>3. QED
    BY <1>2, UrlsSet

LEMMA ComesDueInv ==
    ASSUME PassInv, NEW u \in Urls, ComesDue(u)
    PROVE  PassInv'
  <1>1. url' = [url EXCEPT ![u].status = "due"] /\ url[u].status = "retry" /\ UNCHANGED <<pass, request>>
    BY DEF ComesDue
  <1>2. url' \in [Urls -> Url]
    BY <1>1 DEF PassInv, PassTypeOK, Url, Statuses
  <1>3. u \notin Requests
    <2> SUFFICES ASSUME u \in Requests
                 PROVE  FALSE
      OBVIOUS
    <2>1. url[u] = [status |-> "leased", by |-> request[u].by]
      BY DEF PassInv, PassTypeOK
    <2>2. url[u].status = "leased"
      BY <2>1
    <2>3. QED
      BY <1>1, <2>2
  <1>4. \A v \in Requests : url'[v] = url[v]
    BY <1>1, <1>3 DEF PassInv, PassTypeOK, Requests
  <1>5. QED
    BY <1>1, <1>2, <1>4, UrlsSet

\* The size of a batch stays within what the budget leaves.
LEMMA BatchSizeOK ==
    ASSUME PassInv, NEW w \in Workers, NEW c \in Nat
    PROVE  Min({c, Limit(w)}) <= MaxPages[w] - pass[w].claimed
  <1> DEFINE left == MaxPages[w] - pass[w].claimed
  <1>1. left \in Int /\ BatchSize \in Int
    BY CrawlPassAssumption DEF PassInv, PassTypeOK, Pass
  <1> HIDE DEF left
  <1>2. Min({BatchSize, left}) \in Int /\ Min({BatchSize, left}) <= left
    BY <1>1, MinOfTwo
  <1>3. Limit(w) = Min({BatchSize, left})
    BY DEF Limit, left
  <1>4. Limit(w) \in Int /\ Limit(w) <= left
    BY <1>2, <1>3
  <1> DEFINE l == Limit(w)
             n == Min({c, l})
  <1>5. c \in Int /\ l \in Int /\ l <= left
    BY <1>4
  <1> HIDE DEF l
  <1>6. n <= l /\ n \in Int
    BY <1>5, MinOfTwo
  <1> HIDE DEF n
  <1>7. n <= left
    BY <1>1, <1>5, <1>6
  <1>8. QED
    BY <1>7 DEF n, l, left

LEMMA AnsweredPass ==
    ASSUME NEW p \in Pass, NEW batch, Cardinality(batch) \in Nat
    PROVE  LET q == Answered(p, batch)
           IN  /\ q \in Pass /\ ~q.refilling /\ q.claimed = p.claimed + Cardinality(batch)
               /\ q.requested = p.requested /\ q.lost = p.lost
               /\ q.requiresBrowser = p.requiresBrowser
               /\ q.at = IF p.at = "starting" THEN "open" ELSE p.at
  <1> DEFINE p1 == [p EXCEPT !.refilling = FALSE]
             n == p.claimed + Cardinality(batch)
             p2 == [p1 EXCEPT !.claimed = n]
             none == batch = {}
             p3 == [p2 EXCEPT !.exhausted = none]
             at == IF p.at = "starting" THEN "open" ELSE p.at
             q == [p3 EXCEPT !.at = at]
  <1>1. n \in Nat /\ at \in {"off", "starting", "open", "closing", "finished", "pagecount"}
    BY DEF Pass
  <1>2. none \in BOOLEAN
    <2>1. CASE none
      BY <2>1
    <2>2. CASE ~none
      BY <2>2
    <2>3. QED
      BY <2>1, <2>2
  <1>3. Answered(p, batch) = q
    BY Zenon DEF Answered
  <1> HIDE DEF n, none, at
  <1>4. p1 \in Pass /\ ~p1.refilling /\ p1.requested = p.requested /\ p1.lost = p.lost
        /\ p1.requiresBrowser = p.requiresBrowser
    BY DEF Pass
  <1> HIDE DEF p1
  <1>5. p2 \in Pass /\ ~p2.refilling /\ p2.claimed = n /\ p2.requested = p.requested /\ p2.lost = p.lost
        /\ p2.requiresBrowser = p.requiresBrowser
    BY <1>1, <1>4 DEF Pass
  <1> HIDE DEF p2
  <1>6. p3 \in Pass /\ ~p3.refilling /\ p3.claimed = n /\ p3.requested = p.requested /\ p3.lost = p.lost
        /\ p3.requiresBrowser = p.requiresBrowser
    BY <1>2, <1>5 DEF Pass
  <1> HIDE DEF p3
  <1>7. q \in Pass /\ ~q.refilling /\ q.claimed = n /\ q.requested = p.requested /\ q.lost = p.lost
        /\ q.requiresBrowser = p.requiresBrowser /\ q.at = at
    BY <1>1, <1>6 DEF Pass
  <1> HIDE DEF q
  <1>8. QED
    BY <1>3, <1>7 DEF n, at

LEMMA ClaimInv ==
    ASSUME PassInv, NEW w \in Workers, Claim(w)
    PROVE  PassInv'
  <1> DEFINE due == {u \in Urls : url[u].status = "due"}
             p == pass[w]
  <1>1. PICK batch \in kSubset(Min({Cardinality(due), Limit(w)}), due) :
          /\ url' = [u \in Urls |-> IF u \in batch THEN [status |-> "leased", by |-> w] ELSE url[u]]
          /\ request' = [u \in Urls |-> IF u \in batch THEN NewRequest(w, u) ELSE request[u]]
          /\ SetPass(w, Answered(p, batch))
    BY DEF Claim
  <1> DEFINE q == Answered(p, batch)
  <1>2. IsFiniteSet(due) /\ Cardinality(due) \in Nat
    BY FS_Subset, FS_CardinalityType, CrawlPassAssumption
  <1>3. batch \in SUBSET due /\ Cardinality(batch) = Min({Cardinality(due), Limit(w)})
    BY DEF kSubset
  <1>4. IsFiniteSet(batch) /\ Cardinality(batch) \in Nat
    BY <1>2, <1>3, FS_Subset, FS_CardinalityType
  <1>5. Cardinality(batch) <= MaxPages[w] - p.claimed
    BY <1>2, <1>3, BatchSizeOK
  <1>6. p \in Pass /\ InHand(w) = {} /\ p.at \in {"starting", "open"}
    BY DEF Claim, Asks, PassInv, PassTypeOK, HandsOK
  <1>7. /\ q \in Pass /\ ~q.refilling /\ q.claimed = p.claimed + Cardinality(batch)
        /\ q.requested = p.requested /\ q.lost = p.lost
        /\ q.requiresBrowser = p.requiresBrowser /\ q.at = "open"
    BY <1>4, <1>6, AnsweredPass
  <1> HIDE DEF q
  <1>8. /\ pass'[w] = q /\ \A v \in Workers \ {w} : pass'[v] = pass[v]
        /\ pass' \in [Workers -> Pass]
    <2>1. pass' = [pass EXCEPT ![w] = q]
      BY <1>1 DEF SetPass, q
    <2>2. QED
      BY <1>7, <2>1 DEF PassInv, PassTypeOK
  <1>9. batch \subseteq Urls /\ \A u \in batch : u \notin Requests
    <2>1. ASSUME NEW u \in batch, u \in Requests
          PROVE  FALSE
      <3>1. url[u].status = "due"
        BY <1>3
      <3>2. url[u] = [status |-> "leased", by |-> request[u].by]
        BY <2>1 DEF PassInv, PassTypeOK
      <3>3. url[u].status = "leased"
        BY <3>2
      <3>4. QED
        BY <3>1, <3>3
    <2>2. QED
      BY <1>3, <2>1
  <1>10. \A u \in batch : /\ NewRequest(w, u) \in Request /\ NewRequest(w, u).by = w
                          /\ NewRequest(w, u) # None /\ RequestOK(u, NewRequest(w, u), pass[w])
    BY <1>6, <1>9, NewRequestOK, NoneAssumption
  <1>11. /\ \A u \in batch : request'[u] = NewRequest(w, u) /\ url'[u] = [status |-> "leased", by |-> w]
         /\ \A u \in Urls \ batch : request'[u] = request[u] /\ url'[u] = url[u]
    BY <1>1, <1>9
  <1>12. url' \in [Urls -> Url] /\ request' \in [Urls -> Request \cup {None}]
    <2>1. [status |-> "leased", by |-> w] \in Url
      BY DEF Url, Statuses
    <2>2. url' \in [Urls -> Url]
      BY <1>1, <2>1 DEF PassInv, PassTypeOK
    <2>3. request' \in [Urls -> Request \cup {None}]
      BY <1>1, <1>10 DEF PassInv, PassTypeOK
    <2>4. QED
      BY <2>2, <2>3
  <1>13. Requests' = Requests \cup batch
    BY <1>9, <1>10, <1>11 DEF Requests
  <1>14. \A v \in Workers : InHand(v)' = IF v = w THEN batch ELSE InHand(v)
    <2>1. ASSUME NEW v \in Workers
          PROVE  InHand(v)' = IF v = w THEN batch ELSE InHand(v)
      <3>1. ASSUME NEW x \in Urls
            PROVE  x \in InHand(v)' <=> x \in (IF v = w THEN batch ELSE InHand(v))
        <4>1. CASE x \in batch
          BY <1>9, <1>10, <1>11, <4>1 DEF InHand, Requests
        <4>2. CASE x \notin batch
          BY <1>6, <1>11, <4>2 DEF InHand
        <4>3. QED
          BY <4>1, <4>2
      <3>2. InHand(v)' \subseteq Urls /\ InHand(v) \subseteq Urls
        BY DEF InHand
      <3>3. QED
        BY <1>9, <3>1, <3>2
    <2>2. QED
      BY <2>1
  <1>15. PassTypeOK'
    <2>1. ASSUME NEW u \in Requests'
          PROVE  url'[u] = [status |-> "leased", by |-> request'[u].by]
      <3>1. CASE u \in batch
        BY <1>10, <1>11, <3>1
      <3>2. CASE u \notin batch
        <4>1. u \in Requests /\ u \in Urls
          BY <1>13, <3>2 DEF Requests
        <4>2. QED
          BY <1>11, <3>2, <4>1 DEF PassInv, PassTypeOK
      <3>3. QED
        BY <3>1, <3>2
    <2>2. QED
      BY <1>8, <1>12, <2>1 DEF PassTypeOK
  <1>16. HandsOK'
    BY <1>7, <1>8, <1>14 DEF PassInv, HandsOK, Ended
  <1>17. PagesAreCounted'
    <2>1. ASSUME NEW v \in Workers
          PROVE  /\ pass'[v].claimed <= MaxPages[v]
                 /\ pass'[v].claimed = pass'[v].requested + pass'[v].lost + Cardinality(InHand(v)')
      <3>1. /\ pass[v].claimed <= MaxPages[v]
            /\ pass[v].claimed = pass[v].requested + pass[v].lost + Cardinality(InHand(v))
        BY DEF PassInv, PagesAreCounted
      <3>2. CASE v = w
        <4>1. p.claimed = p.requested + p.lost
          BY <1>6, <3>1, <3>2, FS_EmptySet DEF Pass
        <4>2. Cardinality(InHand(v)') = Cardinality(batch)
          BY <1>14, <3>2
        <4>3. p.claimed \in Nat /\ p.requested \in Nat /\ p.lost \in Nat /\ MaxPages[w] \in Nat
          BY <1>6, CrawlPassAssumption DEF Pass
        <4>4. QED
          BY <1>4, <1>5, <1>7, <1>8, <3>2, <4>1, <4>2, <4>3
      <3>3. CASE v # w
        BY <1>8, <1>14, <3>1, <3>3
      <3>4. QED
        BY <3>2, <3>3
    <2>2. QED
      BY <2>1 DEF PagesAreCounted
  <1>18. RequestsOK'
    <2>1. ASSUME NEW u \in Requests'
          PROVE  RequestOK(u, request'[u], pass'[request'[u].by])
      <3>1. CASE u \in batch
        <4>1. RequestOK(u, NewRequest(w, u), q)
          BY <1>7, <1>10, <3>1 DEF RequestOK
        <4>2. request'[u] = NewRequest(w, u) /\ pass'[request'[u].by] = q
          BY <1>8, <1>10, <1>11, <3>1
        <4>3. QED
          BY <4>1, <4>2
      <3>2. CASE u \notin batch
        <4>1. u \in Requests
          BY <1>13, <3>2
        <4>2. u \in Urls /\ request[u].by \in Workers \ {w}
          BY <1>6, <4>1, InHandOpen
        <4>3. RequestOK(u, request[u], pass[request[u].by])
          BY <4>1 DEF PassInv, RequestsOK
        <4>4. QED
          BY <1>8, <1>11, <3>2, <4>2, <4>3
      <3>3. QED
        BY <3>1, <3>2
    <2>2. QED
      BY <2>1 DEF RequestsOK
  <1>19. QED
    BY <1>15, <1>16, <1>17, <1>18 DEF PassInv

LEMMA CloseInv ==
    ASSUME PassInv, NEW w \in Workers, Close(w)
    PROVE  PassInv'
  <1> DEFINE p == pass[w]
             n == p.lost + Cardinality(InHand(w))
             p1 == [p EXCEPT !.at = "pagecount"]
             q == [p1 EXCEPT !.lost = n]
  <1>1. /\ p \in Pass /\ p.at = "closing" /\ ~p.refilling /\ Cardinality(InHand(w)) \in Nat
        /\ request' = [u \in Urls |-> IF u \in InHand(w) THEN None ELSE request[u]]
        /\ UNCHANGED url
    BY HandsAreFinite DEF Close, PassInv, PassTypeOK, HandsOK
  <1>2. n \in Nat /\ p1 \in Pass /\ p1.at = "pagecount" /\ ~p1.refilling /\ p1.claimed = p.claimed
        /\ p1.requested = p.requested /\ p.lost \in Nat /\ p.requested \in Nat
    BY <1>1 DEF Pass
  <1>3. pass' = [pass EXCEPT ![w] = q]
    BY Zenon DEF Close, SetPass
  <1> HIDE DEF n, p1
  <1>4. q \in Pass /\ q.at = "pagecount" /\ ~q.refilling /\ q.claimed = p.claimed
        /\ q.requested = p.requested /\ q.lost = n
    BY <1>2 DEF Pass
  <1> HIDE DEF q
  <1>5. /\ pass'[w] = q /\ \A v \in Workers \ {w} : pass'[v] = pass[v]
        /\ pass' \in [Workers -> Pass]
    BY <1>3, <1>4 DEF PassInv, PassTypeOK
  <1>6. /\ \A u \in InHand(w) : request'[u] = None
        /\ \A u \in Urls \ InHand(w) : request'[u] = request[u]
        /\ request' \in [Urls -> Request \cup {None}]
    BY <1>1 DEF PassInv, PassTypeOK, InHand
  <1>7. Requests' = Requests \ InHand(w)
    BY <1>6 DEF Requests, InHand
  <1>8. \A v \in Workers : InHand(v)' = IF v = w THEN {} ELSE InHand(v)
    <2>1. ASSUME NEW v \in Workers
          PROVE  InHand(v)' = IF v = w THEN {} ELSE InHand(v)
      <3>1. ASSUME NEW x \in Urls
            PROVE  x \in InHand(v)' <=> x \in (IF v = w THEN {} ELSE InHand(v))
        <4>1. CASE x \in InHand(w)
          BY <1>6, <4>1 DEF InHand
        <4>2. CASE x \notin InHand(w)
          BY <1>6, <4>2 DEF InHand
        <4>3. QED
          BY <4>1, <4>2
      <3>2. InHand(v)' \subseteq Urls /\ InHand(v) \subseteq Urls
        BY DEF InHand
      <3>3. QED
        BY <3>1, <3>2
    <2>2. QED
      BY <2>1
  <1>9. PassTypeOK'
    BY <1>1, <1>5, <1>6, <1>7 DEF PassInv, PassTypeOK, Requests
  <1>10. HandsOK'
    BY <1>4, <1>5, <1>8 DEF PassInv, HandsOK
  <1>11. PagesAreCounted'
    <2>1. ASSUME NEW v \in Workers
          PROVE  /\ pass'[v].claimed <= MaxPages[v]
                 /\ pass'[v].claimed = pass'[v].requested + pass'[v].lost + Cardinality(InHand(v)')
      <3>1. /\ pass[v].claimed <= MaxPages[v]
            /\ pass[v].claimed = pass[v].requested + pass[v].lost + Cardinality(InHand(v))
        BY DEF PassInv, PagesAreCounted
      <3>2. CASE v = w
        <4>1. Cardinality(InHand(v)') = 0
          BY <1>8, <3>2, FS_EmptySet
        <4>2. QED
          BY <1>1, <1>2, <1>4, <1>5, <3>1, <3>2, <4>1 DEF n
      <3>3. CASE v # w
        BY <1>5, <1>8, <3>1, <3>3
      <3>4. QED
        BY <3>2, <3>3
    <2>2. QED
      BY <2>1 DEF PagesAreCounted
  <1>12. RequestsOK'
    <2>1. ASSUME NEW u \in Requests'
          PROVE  RequestOK(u, request'[u], pass'[request'[u].by])
      <3>1. u \in Requests /\ u \notin InHand(w)
        BY <1>7
      <3>2. u \in Urls /\ request[u].by \in Workers \ {w}
        BY <3>1, InHandOpen
      <3>3. RequestOK(u, request[u], pass[request[u].by])
        BY <3>1 DEF PassInv, RequestsOK
      <3>4. QED
        BY <1>5, <1>6, <3>1, <3>2, <3>3
    <2>2. QED
      BY <2>1 DEF RequestsOK
  <1>13. QED
    BY <1>9, <1>10, <1>11, <1>12 DEF PassInv

LEMMA SamePassRefl ==
    ASSUME NEW p \in Pass
    PROVE  SamePass(p, p)
  BY DEF SamePass

LEMMA DispatchInv ==
    ASSUME PassInv, NEW u \in Requests, Dispatch(u)
    PROVE  PassInv'
  <1> DEFINE w == request[u].by
             p == pass[w]
             p1 == [p EXCEPT !.robots = TRUE]
             r == [request[u] EXCEPT !.at = "asking"]
  <1>1. request[u] \in Request /\ w \in Workers /\ p \in Pass /\ u \in Urls
    BY InHandOpen
  <1>2. /\ r \in Request /\ r.at = "asking" /\ r.by = w /\ r.browser = request[u].browser
        /\ r.retried = request[u].retried /\ r.fetches = request[u].fetches
        /\ r.waited = request[u].waited
    BY <1>1, AtSet DEF Stages
  <1>3. request' = [request EXCEPT ![u] = r] /\ UNCHANGED url
    BY DEF Dispatch, SetRequest
  <1> HIDE DEF r
  <1>4. RequestOK(u, r, p)
    BY <1>2 DEF PassInv, RequestsOK, RequestOK
  <1>5. p1 \in Pass /\ SamePass(p, p1) /\ p1.requested = p.requested /\ p1.lost = p.lost
    BY <1>1 DEF SamePass, Pass
  <1>6. \/ pass' = [pass EXCEPT ![w] = p]
        \/ pass' = [pass EXCEPT ![w] = p1]
        \/ pass' = [pass EXCEPT ![w] = Respond(w, p1)]
    BY <1>1 DEF Dispatch, SetPass, PassInv, PassTypeOK
  <1> HIDE DEF p1
  <1>7. CASE pass' = [pass EXCEPT ![w] = p]
    BY <1>1, <1>2, <1>3, <1>4, <1>7, SamePassRefl, Worked
  <1>8. CASE pass' = [pass EXCEPT ![w] = p1]
    BY <1>2, <1>3, <1>4, <1>5, <1>8, Worked
  <1>9. CASE pass' = [pass EXCEPT ![w] = Respond(w, p1)]
    <2> DEFINE q == Respond(w, p1)
    <2>1. SamePass(p1, q) /\ q.requested = p1.requested /\ q.lost = p1.lost
      BY <1>1, <1>5, Responded
    <2> HIDE DEF q
    <2>2. SamePass(p, q) /\ q.requested + q.lost = p.requested + p.lost
      BY <1>5, <2>1 DEF SamePass
    <2>3. pass' = [pass EXCEPT ![w] = q]
      BY <1>9 DEF q
    <2>4. QED
      BY <1>2, <1>3, <1>4, <2>2, <2>3, Worked
  <1>10. QED
    BY <1>6, <1>7, <1>8, <1>9

\* A step that changes a request only.
LEMMA RequestSet ==
    ASSUME PassInv, NEW u \in Requests, NEW r \in Request,
           r.by = request[u].by, RequestOK(u, r, pass[request[u].by]),
           request' = [request EXCEPT ![u] = r], UNCHANGED <<url, pass>>
    PROVE  PassInv'
  <1>1. request[u].by \in Workers /\ pass[request[u].by] \in Pass
    BY InHandOpen
  <1>2. pass' = [pass EXCEPT ![request[u].by] = pass[request[u].by]]
    BY <1>1 DEF PassInv, PassTypeOK
  <1>3. QED
    BY <1>1, <1>2, SamePassRefl, Worked

LEMMA GetTokenInv ==
    ASSUME PassInv, BucketInv, NEW u \in Requests, GetToken(u)
    PROVE  PassInv' /\ BucketInv'
  <1> DEFINE w == request[u].by
             r0 == request[u]
             r1 == [r0 EXCEPT !.at = "download"]
             r == [r1 EXCEPT !.token = TRUE]
  <1>1. r0 \in Request /\ w \in Workers
    BY InHandOpen
  <1>2. r1 \in Request /\ r1.by = w /\ r1.browser = r0.browser /\ r1.retried = r0.retried
        /\ r1.fetches = r0.fetches /\ r1.waited = r0.waited
    BY <1>1, AtSet DEF Stages
  <1>3. request' = [request EXCEPT ![u] = r]
    BY Zenon DEF GetToken, SetRequest
  <1> HIDE DEF r1
  <1>4. r \in Request /\ r.by = w /\ r.browser = r0.browser /\ r.retried = r0.retried
        /\ r.fetches = r0.fetches /\ r.waited = r0.waited /\ r.token
    BY <1>2, TokenSet
  <1> HIDE DEF r
  <1>5. RequestOK(u, r, pass[w])
    BY <1>4 DEF PassInv, RequestsOK, RequestOK
  <1>6. PassInv'
    BY <1>3, <1>4, <1>5, RequestSet DEF GetToken
  <1>7. Refilled(w) \in Int /\ Token \in Int
    BY <1>1, RefilledIsLevel, CrawlPassAssumption
  <1>8. Leave(w, Refilled(w) - Token) /\ Refilled(w) - Token \in Int /\ Refilled(w) - Token >= 0
        /\ debt' = debt + Token
    BY <1>7 DEF GetToken
  <1>9. BucketInv'
    BY <1>1, <1>8, LeaveBucket
  <1>10. QED
    BY <1>6, <1>9

LEMMA GetNoneInv ==
    ASSUME PassInv, BucketInv, NEW u \in Requests, GetNone(u)
    PROVE  PassInv' /\ BucketInv'
  <1> DEFINE w == request[u].by
             r0 == request[u]
  <1>1. r0 \in Request /\ w \in Workers
    BY InHandOpen
  <1>2. Refilled(w) \in Int /\ Token \in Int /\ Refilled(w) < Token
        /\ Leave(w, Refilled(w)) /\ debt' = debt /\ UNCHANGED <<url, pass>>
    BY <1>1, RefilledIsLevel, CrawlPassAssumption DEF GetNone
  <1>3. BucketInv'
    BY <1>1, <1>2, LeaveBucket
  <1>4. r0.waited \in 0 .. MaxWait /\ MaxWait \in Nat /\ RequestOK(u, r0, pass[w])
    BY <1>1, CrawlPassAssumption DEF Request, PassInv, RequestsOK
  <1>5. CASE r0.waited >= MaxWait
    <2> DEFINE r == [r0 EXCEPT !.at = "download"]
    <2>1. r \in Request /\ r.by = w /\ r.browser = r0.browser /\ r.retried = r0.retried
          /\ r.fetches = r0.fetches /\ r.waited = r0.waited
      BY <1>1, AtSet DEF Stages
    <2>2. request' = [request EXCEPT ![u] = r]
      BY <1>5 DEF GetNone, SetRequest
    <2> HIDE DEF r
    <2>9. r.waited = MaxWait /\ r.waited <= MaxWait
      BY <1>4, <1>5, <2>1
    <2>3. RequestOK(u, r, pass[w])
      BY <1>4, <2>1, <2>9 DEF RequestOK
    <2>4. QED
      BY <1>2, <1>3, <2>1, <2>2, <2>3, RequestSet
  <1>6. CASE ~(r0.waited >= MaxWait)
    <2> DEFINE sleep == SleepFor(r0, Token - Refilled(w))
               waited == r0.waited + sleep
               r1 == [r0 EXCEPT !.at = "asleep"]
               r2 == [r1 EXCEPT !.sleep = sleep]
               r == [r2 EXCEPT !.waited = waited]
    <2>1. sleep \in 0 .. MaxWait - r0.waited
      <3> DEFINE a == Token - Refilled(w)
                 b == MaxWait - r0.waited
                 m == Min({a, b})
      <3>1. a \in Int /\ b \in Int /\ a > 0 /\ b > 0
        BY <1>2, <1>4, <1>6
      <3> HIDE DEF a, b
      <3>2. m \in {a, b} /\ m \in Int /\ m <= b
        BY <3>1, MinOfTwo
      <3>3. m = sleep
        BY DEF SleepFor, a, b
      <3> HIDE DEF m, sleep
      <3>4. sleep \in 0 .. b
        BY <3>1, <3>2, <3>3
      <3>5. QED
        BY <3>4 DEF b
    <2>2. request' = [request EXCEPT ![u] = r]
      <3>1. request' = [request EXCEPT ![u] = [r0 EXCEPT !.at = "asleep", !.sleep = sleep, !.waited = waited]]
        BY <1>6 DEF GetNone, SetRequest
      <3>2. QED
        BY <3>1, Zenon
    <2> HIDE DEF sleep
    <2>3. sleep \in 0 .. MaxWait /\ waited \in 0 .. MaxWait
      BY <1>4, <2>1
    <2> HIDE DEF waited
    <2>4. r1 \in Request /\ r1.at = "asleep" /\ r1.by = w /\ r1.browser = r0.browser
          /\ r1.retried = r0.retried /\ r1.fetches = r0.fetches
      BY <1>1, AtSet DEF Stages
    <2> HIDE DEF r1
    <2>5. r2 \in Request /\ r2.at = "asleep" /\ r2.by = w /\ r2.browser = r0.browser
          /\ r2.retried = r0.retried /\ r2.fetches = r0.fetches
      BY <2>3, <2>4, SleepSet
    <2> HIDE DEF r2
    <2>6. r \in Request /\ r.at = "asleep" /\ r.by = w /\ r.browser = r0.browser
          /\ r.retried = r0.retried /\ r.fetches = r0.fetches /\ r.waited = waited
      BY <2>3, <2>5, WaitedSet
    <2> HIDE DEF r
    <2>9. r.waited <= MaxWait /\ r.at # "download"
      BY <1>4, <2>3, <2>6
    <2>7. RequestOK(u, r, pass[w])
      BY <1>4, <2>6, <2>9 DEF RequestOK
    <2>8. QED
      BY <1>2, <1>3, <2>2, <2>6, <2>7, RequestSet
  <1>7. QED
    BY <1>5, <1>6

LEMMA WakeUpInv ==
    ASSUME PassInv, NEW u \in Requests, WakeUp(u)
    PROVE  PassInv'
  <1> DEFINE r0 == request[u]
             r == [r0 EXCEPT !.at = "asking"]
  <1>1. r0 \in Request /\ r0.by \in Workers
    BY InHandOpen
  <1>2. /\ r \in Request /\ r.at = "asking" /\ r.by = r0.by /\ r.browser = r0.browser
        /\ r.retried = r0.retried /\ r.fetches = r0.fetches /\ r.waited = r0.waited
    BY <1>1, AtSet DEF Stages
  <1>3. request' = [request EXCEPT ![u] = r] /\ UNCHANGED <<url, pass>>
    BY DEF WakeUp, SetRequest
  <1> HIDE DEF r
  <1>4. RequestOK(u, r, pass[r0.by])
    BY <1>2 DEF PassInv, RequestsOK, RequestOK
  <1>5. QED
    BY <1>2, <1>3, <1>4, RequestSet

LEMMA TickInv ==
    ASSUME PassInv, Tick
    PROVE  PassInv'
  <1>1. UNCHANGED <<url, pass>>
    BY DEF Tick
  <1>2. ASSUME NEW u \in Urls
        PROVE  \/ request'[u] = request[u]
               \/ /\ request[u] # None /\ request'[u] \in Request
                  /\ request'[u].by = request[u].by
                  /\ RequestOK(u, request[u], pass[request[u].by])
                        => RequestOK(u, request'[u], pass[request[u].by])
    <2>1. CASE At(u, "asleep") /\ request[u].sleep > 0
      <3> DEFINE r0 == request[u]
                 sleep == r0.sleep - 1
                 r == [r0 EXCEPT !.sleep = sleep]
      <3>1. r0 # None /\ r0 \in Request
        BY <2>1 DEF At, PassInv, PassTypeOK
      <3>2. sleep \in 0 .. MaxWait
        BY <2>1, <3>1, CrawlPassAssumption DEF Request
      <3>3. request'[u] = r
        BY <2>1 DEF Tick
      <3> HIDE DEF sleep
      <3>4. r \in Request /\ r.at = r0.at /\ r.by = r0.by /\ r.browser = r0.browser
            /\ r.retried = r0.retried /\ r.fetches = r0.fetches /\ r.waited = r0.waited
            /\ r.token = r0.token
        BY <3>1, <3>2, SleepSet
      <3> HIDE DEF r
      <3>5. RequestOK(u, r0, pass[r0.by]) => RequestOK(u, r, pass[r0.by])
        BY <3>4 DEF RequestOK
      <3>6. QED
        BY <3>1, <3>3, <3>4, <3>5
    <2>2. CASE ~(At(u, "asleep") /\ request[u].sleep > 0)
      BY <2>2 DEF Tick
    <2>3. QED
      BY <2>1, <2>2
  <1>3. \A u \in Urls : /\ request'[u] # None <=> request[u] # None
                        /\ request[u] # None => request'[u].by = request[u].by
    BY <1>2, NoneAssumption
  <1>4. Requests' = Requests
    <2>1. ASSUME NEW v \in Urls
          PROVE  v \in Requests' <=> v \in Requests
      BY <1>3 DEF Requests
    <2>2. Requests' \subseteq Urls /\ Requests \subseteq Urls
      BY DEF Requests
    <2>3. QED
      BY <2>1, <2>2
  <1>5. ASSUME NEW w \in Workers
        PROVE  InHand(w)' = InHand(w)
    <2>1. ASSUME NEW v \in Urls
          PROVE  v \in InHand(w)' <=> v \in InHand(w)
      BY <1>3 DEF InHand
    <2>2. InHand(w)' \subseteq Urls /\ InHand(w) \subseteq Urls
      BY DEF InHand
    <2>3. QED
      BY <2>1, <2>2
  <1>6. request' \in [Urls -> Request \cup {None}]
    <2>1. request' = [u \in Urls |-> request'[u]]
      BY DEF Tick
    <2>2. \A u \in Urls : request'[u] \in Request \cup {None}
      BY <1>2 DEF PassInv, PassTypeOK
    <2>3. QED
      BY <2>1, <2>2
  <1>7. PassTypeOK'
    BY <1>1, <1>3, <1>4, <1>6 DEF PassInv, PassTypeOK, Requests
  <1>8. HandsOK' /\ PagesAreCounted'
    BY <1>1, <1>5 DEF PassInv, HandsOK, PagesAreCounted
  <1>9. RequestsOK'
    <2>1. ASSUME NEW u \in Requests
          PROVE  RequestOK(u, request'[u], pass'[request'[u].by])
      <3>1. u \in Urls /\ request[u] # None /\ RequestOK(u, request[u], pass[request[u].by])
        BY DEF PassInv, RequestsOK, Requests
      <3>2. QED
        BY <1>1, <1>2, <3>1
    <2>2. QED
      BY <1>4, <2>1 DEF RequestsOK
  <1>10. QED
    BY <1>7, <1>8, <1>9 DEF PassInv

\* A page that is answered or lost leaves its pass with one more page accounted for.
LEMMA RequestedSet ==
    ASSUME NEW p \in Pass, NEW p0 \in Pass, SamePass(p0, p),
           p.requested = p0.requested, p.lost = p0.lost
    PROVE  LET q == [p EXCEPT !.requested = @ + 1]
           IN  SamePass(p0, q) /\ q.requested + q.lost = p0.requested + p0.lost + 1
  <1> DEFINE q == [p EXCEPT !.requested = @ + 1]
  <1>1. /\ q \in Pass /\ q.at = p.at /\ q.claimed = p.claimed /\ q.refilling = p.refilling
        /\ q.requiresBrowser = p.requiresBrowser /\ q.requested = p.requested + 1 /\ q.lost = p.lost
    BY DEF Pass
  <1>2. p0.requested \in Nat /\ p0.lost \in Nat
    BY DEF Pass
  <1> HIDE DEF q
  <1>3. SamePass(p0, q)
    BY <1>1 DEF SamePass
  <1>4. q.requested + q.lost = p0.requested + p0.lost + 1
    BY <1>1, <1>2
  <1>5. QED
    BY <1>3, <1>4 DEF q

LEMMA LostSet ==
    ASSUME NEW p \in Pass, NEW p0 \in Pass, SamePass(p0, p),
           p.requested = p0.requested, p.lost = p0.lost
    PROVE  LET q == [p EXCEPT !.lost = @ + 1]
           IN  SamePass(p0, q) /\ q.requested + q.lost = p0.requested + p0.lost + 1
  <1> DEFINE q == [p EXCEPT !.lost = @ + 1]
  <1>1. /\ q \in Pass /\ q.at = p.at /\ q.claimed = p.claimed /\ q.refilling = p.refilling
        /\ q.requiresBrowser = p.requiresBrowser /\ q.requested = p.requested /\ q.lost = p.lost + 1
    BY DEF Pass
  <1>2. p0.requested \in Nat /\ p0.lost \in Nat
    BY DEF Pass
  <1> HIDE DEF q
  <1>3. SamePass(p0, q)
    BY <1>1 DEF SamePass
  <1>4. q.requested + q.lost = p0.requested + p0.lost + 1
    BY <1>1, <1>2
  <1>5. QED
    BY <1>3, <1>4 DEF q

\* The pass of a page in hand, as it was or after a response.
LEMMA MaybeResponded ==
    ASSUME PassInv, NEW u \in Requests, NEW p,
           p = pass[request[u].by] \/ p = Respond(request[u].by, pass[request[u].by])
    PROVE  /\ p \in Pass /\ SamePass(pass[request[u].by], p)
           /\ p.requested = pass[request[u].by].requested /\ p.lost = pass[request[u].by].lost
  <1>1. request[u].by \in Workers /\ pass[request[u].by] \in Pass
    BY InHandOpen
  <1>2. CASE p = pass[request[u].by]
    BY <1>1, <1>2, SamePassRefl
  <1>3. CASE p = Respond(request[u].by, pass[request[u].by])
    <2> DEFINE q == Respond(request[u].by, pass[request[u].by])
    <2>1. /\ SamePass(pass[request[u].by], q) /\ q.requested = pass[request[u].by].requested
          /\ q.lost = pass[request[u].by].lost
      BY <1>1, Responded
    <2>2. p = q
      BY <1>3
    <2> HIDE DEF q
    <2>3. QED
      BY <2>1, <2>2 DEF SamePass
  <1>4. QED
    BY <1>2, <1>3

LEMMA SucceedInv ==
    ASSUME PassInv, NEW u \in Requests, NEW notModified \in BOOLEAN, Succeed(u, notModified)
    PROVE  PassInv'
  <1> DEFINE w == request[u].by
             p == Respond(w, pass[w])
             q == [p EXCEPT !.requested = @ + 1]
             found == IF notModified THEN {} ELSE Followed(u)
  <1>1. /\ Answer(u, "success", found) /\ pass' = [pass EXCEPT ![w] = q]
        /\ request' = [request EXCEPT ![u] = None]
    BY DEF Succeed, SetPass, SetRequest
  <1> HIDE DEF found
  <1>2. pass[w] \in Pass /\ "success" \in Statuses
    BY InHandOpen DEF Statuses
  <1>3. p \in Pass /\ SamePass(pass[w], p) /\ p.requested = pass[w].requested /\ p.lost = pass[w].lost
    BY MaybeResponded
  <1> HIDE DEF p
  <1>4. SamePass(pass[w], q) /\ q.requested + q.lost = pass[w].requested + pass[w].lost + 1
    BY <1>2, <1>3, RequestedSet
  <1> HIDE DEF q
  <1>5. url' \in [Urls -> Url] /\ \A v \in Requests \ {u} : url'[v] = url[v]
    BY <1>1, <1>2, Answers
  <1>6. QED
    BY <1>1, <1>4, <1>5, Gone

LEMMA FailInv ==
    ASSUME PassInv, NEW u \in Requests, NEW f \in Failures, Fail(u, f)
    PROVE  PassInv'
  <1> DEFINE w == request[u].by
             p == IF HasResponse(f) THEN Respond(w, pass[w]) ELSE pass[w]
             q == [p EXCEPT !.requested = @ + 1]
  <1>1. /\ Answer(u, AfterFailure(f), {}) /\ pass' = [pass EXCEPT ![w] = q]
        /\ request' = [request EXCEPT ![u] = None]
    BY DEF Fail, SetPass, SetRequest
  <1>2. pass[w] \in Pass /\ AfterFailure(f) \in Statuses
    BY InHandOpen DEF Statuses, AfterFailure
  <1>3. p \in Pass /\ SamePass(pass[w], p) /\ p.requested = pass[w].requested /\ p.lost = pass[w].lost
    BY MaybeResponded
  <1> HIDE DEF p
  <1>4. SamePass(pass[w], q) /\ q.requested + q.lost = pass[w].requested + pass[w].lost + 1
    BY <1>2, <1>3, RequestedSet
  <1> HIDE DEF q
  <1>5. url' \in [Urls -> Url] /\ \A v \in Requests \ {u} : url'[v] = url[v]
    BY <1>1, <1>2, Answers
  <1>6. QED
    BY <1>1, <1>4, <1>5, Gone

LEMMA LoseInv ==
    ASSUME PassInv, NEW u \in Requests, Lose(u)
    PROVE  PassInv'
  <1> DEFINE w == request[u].by
  <1>1. PICK p \in {pass[w], Respond(w, pass[w])} : pass' = [pass EXCEPT ![w] = [p EXCEPT !.lost = @ + 1]]
    BY DEF Lose, SetPass
  <1> DEFINE q == [p EXCEPT !.lost = @ + 1]
  <1>2. request' = [request EXCEPT ![u] = None] /\ UNCHANGED url
    BY DEF Lose, SetRequest
  <1>3. p \in Pass /\ SamePass(pass[w], p) /\ p.requested = pass[w].requested /\ p.lost = pass[w].lost
    BY MaybeResponded
  <1>4. SamePass(pass[w], q) /\ q.requested + q.lost = pass[w].requested + pass[w].lost + 1
    BY <1>3, InHandOpen, LostSet
  <1>5. pass' = [pass EXCEPT ![w] = q]
    BY <1>1
  <1> HIDE DEF q
  <1>6. url' \in [Urls -> Url] /\ \A v \in Requests \ {u} : url'[v] = url[v]
    BY <1>2 DEF PassInv, PassTypeOK
  <1>7. QED
    BY <1>2, <1>4, <1>5, <1>6, Gone

\* The browser's request is for an article whose plain fetch it follows, in a pass that
\* did not use the browser for it.
LEMMA RetryInBrowserInv ==
    ASSUME PassInv, NEW u \in Requests, RetryInBrowser(u)
    PROVE  PassInv'
  <1> DEFINE w == request[u].by
             r0 == request[u]
             q == Respond(w, pass[w])
             n == r0.fetches + 1
             new == NewRequest(w, u)
             r1 == [new EXCEPT !.browser = TRUE]
             r2 == [r1 EXCEPT !.retried = TRUE]
             r == [r2 EXCEPT !.fetches = n]
  <1>1. w \in Workers /\ r0 \in Request /\ pass[w] \in Pass /\ u \in Urls
    BY InHandOpen
  <1>2. Type[u] = "article" /\ ~r0.browser /\ ~r0.retried
    BY DEF RetryInBrowser, Unusable
  <1>3. RequestOK(u, r0, pass[w])
    BY DEF PassInv, RequestsOK
  <1>4. n = 1 /\ ~pass[w].requiresBrowser
    BY <1>2, <1>3 DEF RequestOK
  <1>5. request' = [request EXCEPT ![u] = r]
    BY Zenon DEF RetryInBrowser, SetRequest
  <1>6. /\ new \in Request /\ new.by = w /\ new.at = "scheduled" /\ new.waited = 0
    BY <1>1, NewRequestOK DEF NewRequest
  <1> HIDE DEF new, n
  <1>7. r1 \in Request /\ r1.by = w /\ r1.at = "scheduled" /\ r1.waited = 0 /\ r1.browser
    BY <1>6 DEF Request
  <1> HIDE DEF r1
  <1>8. r2 \in Request /\ r2.by = w /\ r2.at = "scheduled" /\ r2.waited = 0 /\ r2.browser
        /\ r2.retried
    BY <1>7 DEF Request
  <1> HIDE DEF r2
  <1>9. r \in Request /\ r.by = w /\ r.at = "scheduled" /\ r.waited = 0 /\ r.browser
        /\ r.retried /\ r.fetches = 1
    BY <1>4, <1>8 DEF Request
  <1> HIDE DEF r
  <1>10. RequestOK(u, r, pass[w])
    BY <1>2, <1>4, <1>9, CrawlPassAssumption DEF RequestOK
  <1>11. SamePass(pass[w], q) /\ q.requested = pass[w].requested /\ q.lost = pass[w].lost
    BY MaybeResponded
  <1>12. pass' = [pass EXCEPT ![w] = q] /\ UNCHANGED url
    BY DEF RetryInBrowser, SetPass
  <1> HIDE DEF q
  <1>13. QED
    BY <1>5, <1>9, <1>10, <1>11, <1>12, Worked

LEMMA StepInv ==
    ASSUME CInv, [Next]_vars
    PROVE  CInv'
  <1> USE DEF CInv
  <1>1. ASSUME NEW w \in Workers, StartPass(w) \/ Reap(w) \/ Idle(w) \/ Close(w)
        PROVE  CInv'
    <2>1. UNCHANGED <<bucket, debt, faults>>
      BY <1>1 DEF StartPass, Reap, Idle, Close
    <2>2. QED
      BY <1>1, <2>1, StartPassInv, ReapInv, IdleInv, CloseInv, SameBucket
  <1>2. ASSUME NEW w \in Workers, Claim(w) \/ ClaimFails(w)
        PROVE  CInv'
    <2>1. UNCHANGED <<bucket, debt>> /\ (Fault \/ UNCHANGED faults)
      BY <1>2 DEF Claim, ClaimFails
    <2>2. QED
      BY <1>2, <2>1, ClaimInv, ClaimFailsInv, SameBucket, FaultOK
  <1>3. ASSUME NEW u \in Requests, Dispatch(u) \/ WakeUp(u)
        PROVE  CInv'
    <2>1. UNCHANGED <<bucket, debt, faults>>
      BY <1>3 DEF Dispatch, WakeUp
    <2>2. QED
      BY <1>3, <2>1, DispatchInv, WakeUpInv, SameBucket
  <1>4. ASSUME NEW u \in Requests, GetToken(u) \/ GetNone(u)
        PROVE  CInv'
    <2>1. UNCHANGED faults
      BY <1>4 DEF GetToken, GetNone
    <2>2. QED
      BY <1>4, <2>1, GetTokenInv, GetNoneInv
  <1>5. ASSUME NEW u \in Requests, Fetched(u)
        PROVE  CInv'
    <2>1. UNCHANGED <<bucket, debt>> /\ (Fault \/ UNCHANGED faults)
      BY <1>5 DEF Fetched, Succeed, RetryInBrowser, Fail, Lose
    <2>2. PassInv'
      BY <1>5, SucceedInv, RetryInBrowserInv, FailInv, LoseInv DEF Fetched
    <2>3. QED
      BY <2>1, <2>2, SameBucket, FaultOK
  <1>6. ASSUME NEW u \in Urls, ComesDue(u)
        PROVE  CInv'
    <2>1. UNCHANGED <<bucket, debt, faults>>
      BY <1>6 DEF ComesDue
    <2>2. QED
      BY <1>6, <2>1, ComesDueInv, SameBucket
  <1>7. CASE Tick
    <2>1. UNCHANGED faults
      BY <1>7 DEF Tick
    <2>2. QED
      BY <1>7, <2>1, TickInv, TickBucket
  <1>8. CASE UNCHANGED vars
    <2>1. UNCHANGED <<url, pass, request, bucket, debt, faults>>
      BY <1>8 DEF vars
    <2>2. url' \in [Urls -> Url] /\ \A u \in Requests : url'[u] = url[u]
      BY <2>1 DEF PassInv, PassTypeOK
    <2>3. QED
      BY <2>1, <2>2, UrlsSet, SameBucket
  <1>9. QED
    BY <1>1, <1>2, <1>3, <1>4, <1>5, <1>6, <1>7, <1>8 DEF Next, Spider, Throttle

LEMMA Invariance == Spec => []CInv
  BY InitCInv, StepInv, PTL DEF Spec

-----------------------------------------------------------------------------
(* The theorems.                                                           *)

\* Pages, passes, requests and the bucket have their types, and a request is for a page
\* that its pass leases.
THEOREM TypeCorrect == Spec => []TypeOK
  <1>1. CInv => TypeOK
    BY DEF CInv, PassInv, PassTypeOK, BucketInv, BucketTypeOK, Full, TypeOK
  <1>2. QED
    BY <1>1, Invariance, PTL

\* A pass claims no more than its budget, and every page it claimed is requested, lost or
\* in hand, once (base.py, _next_batch, _claim_requests and the job counters).
THEOREM PagesAlwaysCounted == Spec => []PagesAreCounted
  <1>1. CInv => PagesAreCounted
    BY DEF CInv, PassInv
  <1>2. QED
    BY <1>1, Invariance, PTL

\* A pass that closes itself has answered or lost every page it claimed (base.py, _on_idle).
THEOREM NothingLeft == Spec => []NothingIsLeftBehind
  <1>1. CInv => NothingIsLeftBehind
    <2> SUFFICES ASSUME CInv, NEW w \in Workers, pass[w].at = "finished"
                 PROVE  /\ ~pass[w].refilling /\ InHand(w) = {}
                        /\ pass[w].claimed = pass[w].requested + pass[w].lost
      BY DEF NothingIsLeftBehind
    <2>1. InHand(w) = {} /\ ~pass[w].refilling
      BY DEF CInv, PassInv, HandsOK, Ended
    <2>2. Cardinality(InHand(w)) = 0
      BY <2>1, FS_EmptySet
    <2>3. pass[w].claimed = pass[w].requested + pass[w].lost + Cardinality(InHand(w))
      BY DEF CInv, PassInv, PagesAreCounted
    <2>4. pass[w].requested \in Nat /\ pass[w].lost \in Nat
      BY DEF CInv, PassInv, PassTypeOK, Pass
    <2>5. QED
      BY <2>1, <2>2, <2>3, <2>4
  <1>2. QED
    BY <1>1, Invariance, PTL

\* The browser fetches a page only for a source that needs it, or once after the plain
\* fetch of an article (base.py, parse_page; browser.py).
THEOREM BrowserStaysLast == Spec => []BrowserIsLastResort
  <1>1. CInv => BrowserIsLastResort
    <2> SUFFICES ASSUME CInv, NEW u \in Requests
                 PROVE  LET r == request[u] IN
                        /\ r.fetches <= 1
                        /\ r.browser => /\ Type[u] \notin {"sitemap", "sitemap index", "rss"}
                                        /\ pass[r.by].requiresBrowser \/ (Type[u] = "article" /\ r.fetches = 1)
                        /\ pass[r.by].requiresBrowser => r.fetches = 0
      BY DEF BrowserIsLastResort
    <2>1. RequestOK(u, request[u], pass[request[u].by])
      BY DEF CInv, PassInv, RequestsOK
    <2>2. QED
      BY <2>1 DEF RequestOK
  <1>2. QED
    BY <1>1, Invariance, PTL

\* Whatever the workers do together, the requests that got a token keep to the domain's
\* rate and burst but for the skew of the clocks, and one without a token has waited the
\* maximum (coordination/ratelimit.py, middlewares.py).
THEOREM AlwaysPolite == Spec => []Polite
  <1>1. CInv => Polite
    <2> SUFFICES ASSUME CInv
                 PROVE  Polite
      OBVIOUS
    <2>1. WithinRate
      BY DEF CInv, BucketInv, BucketOK, Full, WithinRate
    <2>2. ASSUME NEW u \in Requests
          PROVE  /\ request[u].waited <= MaxWait
                 /\ At(u, "download") => request[u].token \/ request[u].waited = MaxWait
      <3>1. RequestOK(u, request[u], pass[request[u].by])
        BY DEF CInv, PassInv, RequestsOK
      <3>2. QED
        BY <3>1 DEF RequestOK, At
    <2>3. PatienceIsSpent
      BY <2>2 DEF PatienceIsSpent
    <2>4. QED
      BY <2>1, <2>3 DEF Polite
  <1>2. QED
    BY <1>1, Invariance, PTL
=============================================================================
