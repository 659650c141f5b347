---------------------------- MODULE ArticlesProofs ----------------------------
(***************************************************************************)
(* Theorems about Articles, for any number of workers of each kind, any    *)
(* URLs and texts, any relations of nearness, and any number of pages and  *)
(* deaths.                                                                 *)
(***************************************************************************)
EXTENDS Articles, TLAPS

\* A row is its last version, and each version differs from the one before.
History(row, past) ==
    /\ Len(past) = row.version
    /\ row.text # None <=> row.version # 0
    /\ row.text # None => row.text = past[row.version]
    /\ \A i \in 2 .. Len(past) : past[i] # past[i - 1]

\* The text of a page is among the versions of its article.
Kept(m, past) == \E i \in 1 .. Len(past[m.url]) : past[m.url][i] = m.text

\* What a cleaner has in hand agrees with the versions.
PageOK(p, past) ==
    /\ p.outcome = "created" => p.base = 0
    /\ p.outcome = "updated" => /\ p.base \in 1 .. Len(past[p.msg.url])
                                /\ past[p.msg.url][p.base] # p.msg.text
    /\ p.outcome = "unchanged" => Kept(p.msg, past)
    /\ p.outcome \in {"created", "updated"} /\ p.at # "persist" => Kept(p.msg, past)
    /\ p.at \in {"llm", "embed"} => p.outcome \in {"created", "updated"}

HistoryOK == \A u \in Urls : History(articles[u], versions[u])
PagesOK == \A w \in Cleaners : page[w] # None => PageOK(page[w], versions)
RequestsOK ==
    /\ \A m \in llm \cup embed : Stored(m.url)
    /\ \A e \in Embedders : encoding[e] # None => Stored(encoding[e].msg.url)

IInv == TypeOK /\ HistoryOK /\ PagesOK /\ RequestsOK

-----------------------------------------------------------------------------
(* What the steps that leave texts and versions alone preserve.            *)

LEMMA SameHistory ==
    ASSUME HistoryOK, UNCHANGED versions,
           \A u \in Urls : articles'[u].text = articles[u].text
                           /\ articles'[u].version = articles[u].version
    PROVE  HistoryOK' /\ \A u \in Urls : Stored(u) => Stored(u)'
  BY DEF HistoryOK, History, Stored

\* A page that a cleaner still has agrees with the versions as before.
LEMMA SamePages ==
    ASSUME PagesOK, UNCHANGED versions,
           \A w \in Cleaners : page'[w] \in {None, page[w]}
    PROVE  PagesOK'
  BY DEF PagesOK

LEMMA KeptIsStored ==
    ASSUME TypeOK, HistoryOK, NEW m \in Pages, Kept(m, versions)
    PROVE  Stored(m.url)
  <1>1. m.url \in Urls /\ versions[m.url] \in Seq(Texts)
    BY DEF TypeOK, Pages
  <1>2. Len(versions[m.url]) \in Nat /\ Len(versions[m.url]) # 0
    BY <1>1 DEF Kept
  <1>3. QED
    BY <1>1, <1>2 DEF HistoryOK, History, Stored

LEMMA InitIInv == Init => IInv
  <1> SUFFICES ASSUME Init
               PROVE  IInv
    OBVIOUS
  <1>1. NoArticle \in Article /\ NoArticle.original = None
    BY DEF NoArticle, Article
  <1>2. TypeOK
    BY <1>1, ArticlesAssumption DEF Init, TypeOK
  <1>3. HistoryOK
    <2>1. ASSUME NEW u \in Urls
          PROVE  /\ versions[u] = <<>> /\ Len(versions[u]) = 0
                 /\ articles[u].text = None /\ articles[u].version = 0
      BY DEF Init, NoArticle
    <2>2. QED
      BY <2>1 DEF HistoryOK, History
  <1>4. PagesOK /\ RequestsOK
    BY DEF Init, PagesOK, RequestsOK
  <1>5. QED
    BY <1>2, <1>3, <1>4 DEF IInv

-----------------------------------------------------------------------------
(* The crawler and the cleaning worker.                                    *)

LEMMA FetchIInv ==
    ASSUME IInv, NEW u \in Urls, NEW text \in Texts, Fetch(u, text)
    PROVE  IInv'
  <1>1. fetches + 1 \in 1 .. MaxFetches
    BY ArticlesAssumption DEF IInv, TypeOK, Fetch
  <1>2. [url |-> u, text |-> text, fetch |-> fetches + 1, attempt |-> 1] \in Pages
    BY <1>1, ArticlesAssumption DEF Pages
  <1>3. TypeOK'
    BY <1>1, <1>2, ArticlesAssumption
       DEF IInv, TypeOK, Fetch, workerVars, mishapVars, letterVars
  <1>4. HistoryOK' /\ PagesOK' /\ RequestsOK'
    BY DEF IInv, HistoryOK, Stored, PagesOK, RequestsOK, Fetch, workerVars, mishapVars, letterVars
  <1>5. QED
    BY <1>3, <1>4 DEF IInv

LEMMA ReadPageIInv ==
    ASSUME IInv, NEW w \in Cleaners, NEW m \in cleaning, ReadPage(w, m)
    PROVE  IInv'
  <1> DEFINE u == m.url
             p == [msg |-> m, outcome |-> OutcomeOf(u, m.text), base |-> articles[u].version,
                   summary |-> articles[u].summary, at |-> "persist"]
  <1>1. m \in Pages /\ u \in Urls /\ m.text \in Texts /\ articles[u] \in Article
    BY DEF IInv, TypeOK, Pages
  <1>2. OutcomeOf(u, m.text) \in Outcomes
    BY DEF OutcomeOf, Outcomes
  <1>3. p \in PageType
    BY <1>1, <1>2 DEF PageType, Article
  <1>4. page' = [page EXCEPT ![w] = p] /\ UNCHANGED <<versions, articles, llm, embed, encoding>>
    BY DEF ReadPage, streamVars
  <1>5. mishaps' \in 0 .. MaxMishaps
    BY ArticlesAssumption DEF IInv, TypeOK, ReadPage, GivenOut, Mishap
  <1>6. TypeOK'
    BY <1>3, <1>4, <1>5 DEF IInv, TypeOK, ReadPage, streamVars, letterVars, PageType
  <1>7. HistoryOK' /\ RequestsOK'
    BY <1>4 DEF IInv, HistoryOK, Stored, RequestsOK
  <1>8. PageOK(p, versions)
    <2>1. History(articles[u], versions[u]) /\ versions[u] \in Seq(Texts) /\ articles[u].version \in Nat
      BY <1>1 DEF IInv, HistoryOK, TypeOK, Article
    <2>2. ASSUME Stored(u)
          PROVE  /\ articles[u].version \in 1 .. Len(versions[u])
                 /\ versions[u][articles[u].version] = articles[u].text
      BY <2>1, <2>2 DEF History, Stored
    <2>3. CASE Stored(u) /\ articles[u].text = m.text
      <3>1. p.outcome = "unchanged"
        BY <2>3 DEF OutcomeOf
      <3>2. Kept(m, versions)
        BY <2>2, <2>3 DEF Kept
      <3>3. QED
        BY <3>1, <3>2 DEF PageOK
    <2>4. CASE Stored(u) /\ articles[u].text # m.text
      <3>1. p.outcome = "updated"
        BY <2>4 DEF OutcomeOf
      <3>2. /\ p.base \in 1 .. Len(versions[u])
            /\ versions[u][p.base] # m.text
        BY <2>2, <2>4
      <3>3. QED
        BY <3>1, <3>2 DEF PageOK
    <2>5. CASE ~Stored(u)
      <3>1. p.outcome \in {"duplicate", "created"} /\ p.base = 0
        BY <2>1, <2>5 DEF OutcomeOf, History, Stored
      <3>2. QED
        BY <3>1 DEF PageOK
    <2>6. QED
      BY <2>3, <2>4, <2>5
  <1>9. PagesOK'
    <2>1. \A v \in Cleaners : page'[v] = IF v = w THEN p ELSE page[v]
      BY <1>4 DEF IInv, TypeOK
    <2>2. QED
      BY <1>4, <1>8, <2>1 DEF IInv, PagesOK
  <1>10. QED
    BY <1>6, <1>7, <1>9 DEF IInv

\* A new version leaves the others where they are.
LEMMA AppendedVersion ==
    ASSUME NEW past \in Seq(Texts), NEW text \in Texts
    PROVE  /\ Append(past, text) \in Seq(Texts)
           /\ Len(past) \in Nat
           /\ Len(Append(past, text)) = Len(past) + 1
           /\ \A i \in 1 .. Len(past) : Append(past, text)[i] = past[i]
           /\ Append(past, text)[Len(past) + 1] = text
  OBVIOUS

\* No version repeats the one before it, when the text that is appended does not.
LEMMA AppendedDiffers ==
    ASSUME NEW past \in Seq(Texts), NEW text \in Texts,
           \A i \in 2 .. Len(past) : past[i] # past[i - 1],
           Len(past) # 0 => past[Len(past)] # text
    PROVE  \A i \in 2 .. Len(past) + 1 : Append(past, text)[i] # Append(past, text)[i - 1]
  <1> DEFINE whole == Append(past, text)
  <1>1. /\ Len(past) \in Nat
        /\ \A i \in 1 .. Len(past) : whole[i] = past[i]
        /\ whole[Len(past) + 1] = text
    BY AppendedVersion
  <1> HIDE DEF whole
  <1>2. ASSUME NEW i \in 2 .. Len(past) + 1
        PROVE  whole[i] # whole[i - 1]
    <2>1. CASE i \in 2 .. Len(past)
      <3>1. i \in 1 .. Len(past) /\ i - 1 \in 1 .. Len(past)
        BY <1>1, <2>1
      <3>2. whole[i] = past[i] /\ whole[i - 1] = past[i - 1]
        BY <1>1, <3>1
      <3>3. QED
        BY <2>1, <3>2
    <2>2. CASE i \notin 2 .. Len(past)
      <3>1. i = Len(past) + 1 /\ i - 1 = Len(past) /\ Len(past) \in 1 .. Len(past)
        BY <1>1, <2>2
      <3>2. whole[i] = text /\ whole[i - 1] = past[Len(past)]
        BY <1>1, <3>1
      <3>3. QED
        BY <1>1, <3>1, <3>2
    <2>3. QED
      BY <2>1, <2>2
  <1>3. QED
    BY <1>2 DEF whole

\* The row after a version was written.
Written(row, text, n, summary) ==
    [row EXCEPT !.text = text, !.version = n, !.summary = summary]

LEMMA WrittenRow ==
    ASSUME NEW row \in Article, NEW text \in Texts, NEW n \in Nat, NEW summary \in BOOLEAN
    PROVE  /\ Written(row, text, n, summary) \in Article
           /\ Written(row, text, n, summary).text = text
           /\ Written(row, text, n, summary).version = n
           /\ Written(row, text, n, summary).original = row.original
  <1> DEFINE a == [row EXCEPT !.text = text]
             b == [a EXCEPT !.version = n]
             c == [b EXCEPT !.summary = summary]
  <1>1. a \in Article /\ a.text = text /\ a.original = row.original
    BY DEF Article
  <1>2. b \in Article /\ b.text = a.text /\ b.version = n /\ b.original = a.original
    <2> HIDE DEF a
    <2>1. QED
      BY <1>1 DEF Article
  <1>3. c \in Article /\ c.text = b.text /\ c.version = b.version /\ c.original = b.original
    <2> HIDE DEF b
    <2>1. QED
      BY <1>2 DEF Article
  <1>4. Written(row, text, n, summary) = c
    BY Zenon DEF Written
  <1>5. QED
    <2> HIDE DEF a, b, c
    <2>1. QED
      BY <1>1, <1>2, <1>3, <1>4

LEMMA WriteVersionIInv ==
    ASSUME IInv, NEW w \in Cleaners, Persist(w), page[w].outcome \in {"created", "updated"}
    PROVE  IInv'
  <1> DEFINE p == page[w]
             u == p.msg.url
             text == p.msg.text
             after == SummaryAfter(p, articles[u].summary)
  <1>1. /\ p \in PageType /\ p.at = "persist" /\ p.msg \in Pages
        /\ u \in Urls /\ text \in Texts /\ p.base \in Nat /\ p.summary \in BOOLEAN
    BY DEF IInv, TypeOK, Persist, PageType, Pages
  <1>2. /\ articles[u] \in Article /\ versions[u] \in Seq(Texts)
        /\ articles[u].version = p.base
    BY <1>1 DEF IInv, TypeOK, Persist, Conflict
  <1>3. /\ page' = [page EXCEPT ![w].at = "llm"]
        /\ articles' = [articles EXCEPT ![u].text = text, ![u].version = p.base + 1,
                                        ![u].summary = after]
        /\ versions' = [versions EXCEPT ![u] = Append(@, text)]
        /\ UNCHANGED <<hash, fetches, cleaning, llm, embed, encoding, analysis, deadPages,
                       deadRequests, lost, cut, crossed, mishaps>>
    BY DEF Persist, streamVars, mishapVars, letterVars
  <1>4. after \in BOOLEAN
    <2>1. articles[u].summary \in BOOLEAN /\ (text \in Summarized) \in BOOLEAN
      BY <1>2 DEF Article
    <2>2. after \in {articles[u].summary, text \in Summarized}
      BY Zenon DEF SummaryAfter
    <2>3. QED
      BY <2>1, <2>2
  <1> HIDE DEF after
  <1>5. /\ articles' \in [Urls -> Article]
        /\ articles'[u].text = text /\ articles'[u].version = p.base + 1
        /\ \A v \in Urls : articles'[v].original = articles[v].original
        /\ \A v \in Urls \ {u} : articles'[v] = articles[v]
    <2> DEFINE new == Written(articles[u], text, p.base + 1, after)
    <2>1. articles' = [articles EXCEPT ![u] = new]
      BY <1>1, <1>3 DEF IInv, TypeOK, Written
    <2>2. p.base + 1 \in Nat
      BY <1>1
    <2> HIDE DEF p, u, text
    <2>3. /\ new \in Article /\ new.text = text /\ new.version = p.base + 1
          /\ new.original = articles[u].original
      BY <1>1, <1>2, <1>4, <2>2, WrittenRow
    <2> HIDE DEF new
    <2>4. articles \in [Urls -> Article]
      BY DEF IInv, TypeOK
    <2>5. QED
      BY <1>1, <2>1, <2>3, <2>4
  <1>6. /\ versions' \in [Urls -> Seq(Texts)]
        /\ versions'[u] = Append(versions[u], text)
        /\ \A v \in Urls \ {u} : versions'[v] = versions[v]
    BY <1>1, <1>2, <1>3, AppendedVersion DEF IInv, TypeOK
  <1>7. TypeOK'
    <2>1. page' \in [Cleaners -> {None} \cup PageType]
      BY <1>1, <1>3 DEF IInv, TypeOK, PageType
    <2>2. QED
      BY <1>3, <1>5, <1>6, <2>1 DEF IInv, TypeOK
  <1>8. /\ Len(versions[u]) = p.base
        /\ Len(versions'[u]) = p.base + 1
        /\ \A i \in 1 .. p.base : versions'[u][i] = versions[u][i]
        /\ versions'[u][p.base + 1] = text
    <2>1. Len(versions[u]) = p.base
      BY <1>1, <1>2 DEF IInv, HistoryOK, History
    <2> DEFINE past == versions[u]
               whole == Append(past, text)
    <2>2. /\ Len(past) \in Nat
          /\ Len(whole) = Len(past) + 1
          /\ \A i \in 1 .. Len(past) : whole[i] = past[i]
          /\ whole[Len(past) + 1] = text
      BY <1>1, <1>2, AppendedVersion
    <2>3. versions'[u] = whole
      BY <1>6
    <2> HIDE DEF whole
    <2>4. QED
      BY <2>1, <2>2, <2>3
  <1>9. HistoryOK'
    <2>1. text # None
      BY <1>1, ArticlesAssumption
    <2>2. PageOK(p, versions)
      BY <1>1 DEF IInv, PagesOK, Persist
    <2>3. p.base # 0 => versions[u][p.base] # text
      BY <2>2 DEF PageOK
    <2>4. \A i \in 2 .. p.base + 1 : versions'[u][i] # versions'[u][i - 1]
      <3>1. \A i \in 2 .. Len(versions[u]) : versions[u][i] # versions[u][i - 1]
        BY <1>1 DEF IInv, HistoryOK, History
      <3>2. Len(versions[u]) # 0 => versions[u][Len(versions[u])] # text
        BY <1>8, <2>3
      <3>3. \A i \in 2 .. Len(versions[u]) + 1 :
               Append(versions[u], text)[i] # Append(versions[u], text)[i - 1]
        BY <1>1, <1>2, <3>1, <3>2, AppendedDiffers
      <3>4. QED
        BY <1>6, <1>8, <3>3
    <2>5. History(articles'[u], versions'[u])
      <3>1. articles'[u].text = text /\ articles'[u].version = p.base + 1
        BY <1>5
      <3>2. p.base + 1 # 0
        BY <1>1
      <3>3. QED
        BY <1>8, <2>1, <2>4, <3>1, <3>2, ZenonT(30) DEF History
    <2>6. \A v \in Urls \ {u} : History(articles'[v], versions'[v])
      BY <1>5, <1>6 DEF IInv, HistoryOK
    <2>7. QED
      BY <2>5, <2>6 DEF HistoryOK
  <1>10. RequestsOK'
    <2>1. \A v \in Urls : Stored(v) => Stored(v)'
      BY <1>1, <1>5, ArticlesAssumption DEF Stored
    <2>2. /\ \A m \in llm \cup embed : m.url \in Urls
          /\ \A e \in Embedders : encoding[e] # None => encoding[e].msg.url \in Urls
      BY DEF IInv, TypeOK, Requests, EncodingType
    <2>3. QED
      BY <1>3, <2>1, <2>2 DEF IInv, RequestsOK
  <1>11. PagesOK'
    <2>1. \A v \in Urls : /\ Len(versions[v]) \in Nat
                          /\ Len(versions'[v]) \in Nat
                          /\ Len(versions[v]) <= Len(versions'[v])
                          /\ \A i \in 1 .. Len(versions[v]) : versions'[v][i] = versions[v][i]
      <3>1. ASSUME NEW v \in Urls \ {u}
            PROVE  Len(versions[v]) \in Nat /\ versions'[v] = versions[v]
        BY <1>6 DEF IInv, TypeOK
      <3>2. /\ Len(versions[u]) \in Nat /\ Len(versions'[u]) \in Nat
            /\ Len(versions[u]) <= Len(versions'[u])
            /\ \A i \in 1 .. Len(versions[u]) : versions'[u][i] = versions[u][i]
        BY <1>1, <1>8
      <3>3. ASSUME NEW v \in Urls
            PROVE  /\ Len(versions[v]) \in Nat
                   /\ Len(versions'[v]) \in Nat
                   /\ Len(versions[v]) <= Len(versions'[v])
                   /\ \A i \in 1 .. Len(versions[v]) : versions'[v][i] = versions[v][i]
        <4>1. CASE v = u
          BY <3>2, <4>1
        <4>2. CASE v # u
          BY <3>1, <4>2
        <4>3. QED
          BY <4>1, <4>2
      <3>4. QED
        BY <3>3
    <2>2. ASSUME NEW m \in Pages, Kept(m, versions)
          PROVE  Kept(m, versions')
      <3>1. m.url \in Urls
        BY DEF Pages
      <3>2. QED
        BY <2>1, <2>2, <3>1 DEF Kept
    <2>3. ASSUME NEW c \in Cleaners, c # w, page[c] # None
          PROVE  PageOK(page[c], versions')
      <3>1. PageOK(page[c], versions) /\ page[c].msg \in Pages /\ page[c].msg.url \in Urls
        BY <2>3 DEF IInv, PagesOK, TypeOK, PageType, Pages
      <3>2. QED
        BY <2>1, <2>2, <3>1 DEF PageOK
    <2>4. Kept(p.msg, versions')
      <3>1. p.base + 1 \in 1 .. Len(versions'[u])
        BY <1>1, <1>8
      <3>2. QED
        BY <1>8, <3>1 DEF Kept
    <2>5. /\ PageOK(p, versions)
          /\ page'[w] = [p EXCEPT !.at = "llm"]
          /\ \A c \in Cleaners \ {w} : page'[c] = page[c]
      BY <1>1, <1>3 DEF IInv, PagesOK, TypeOK, Persist
    <2>6. PageOK(page'[w], versions')
      <3>1. /\ page'[w].msg = p.msg /\ page'[w].outcome = p.outcome
            /\ page'[w].base = p.base /\ page'[w].at = "llm"
        BY <1>1, <2>5 DEF PageType
      <3>2. QED
        BY <1>1, <2>1, <2>4, <2>5, <3>1 DEF PageOK
    <2>7. QED
      BY <2>3, <2>5, <2>6 DEF PagesOK
  <1>12. QED
    BY <1>7, <1>9, <1>10, <1>11 DEF IInv

\* What is left to show of a step that writes no version.
LEMMA Steady ==
    ASSUME IInv, TypeOK', PagesOK', UNCHANGED versions,
           \A u \in Urls : articles'[u].text = articles[u].text
                           /\ articles'[u].version = articles[u].version,
           \A m \in llm' \cup embed' : m.url \in Urls /\ Stored(m.url),
           \A e \in Embedders : encoding'[e] # None =>
              encoding'[e].msg.url \in Urls /\ Stored(encoding'[e].msg.url)
    PROVE  IInv'
  <1>1. HistoryOK' /\ \A u \in Urls : Stored(u) => Stored(u)'
    BY SameHistory DEF IInv
  <1>2. RequestsOK'
    BY <1>1 DEF RequestsOK
  <1>3. QED
    BY <1>1, <1>2 DEF IInv

\* The articles that requests are about are stored.
LEMMA Requested ==
    ASSUME IInv
    PROVE  /\ \A m \in llm \cup embed : m \in Requests /\ m.url \in Urls /\ Stored(m.url)
           /\ \A e \in Embedders : encoding[e] # None =>
                 /\ encoding[e].msg \in Requests /\ encoding[e].msg.url \in Urls
                 /\ Stored(encoding[e].msg.url)
  BY DEF IInv, TypeOK, RequestsOK, Requests, EncodingType

\* A retry keeps the messages of a stream and its dead letters in their type, and what
\* they are about.
LEMMA RetriedPages ==
    ASSUME NEW m \in Pages, NEW stream \in SUBSET Pages, NEW dead \in SUBSET Pages
    PROVE  Retried(stream, m) \subseteq Pages /\ Letters(dead, m) \subseteq Pages
  <1>1. ASSUME m.attempt < MaxAttempts
        PROVE  Again(m) \in Pages
    BY <1>1, ArticlesAssumption DEF Again, Pages
  <1>2. QED
    BY <1>1 DEF Retried, Letters

LEMMA RetriedRequests ==
    ASSUME NEW m \in Requests, NEW stream \in SUBSET Requests, NEW dead \in SUBSET Requests
    PROVE  /\ Retried(stream, m) \subseteq Requests /\ Letters(dead, m) \subseteq Requests
           /\ Again(m).url = m.url /\ Again(m).version = m.version
  <1>1. ASSUME m.attempt < MaxAttempts
        PROVE  Again(m) \in Requests
    BY <1>1, ArticlesAssumption DEF Again, Requests
  <1>2. Again(m).url = m.url /\ Again(m).version = m.version
    BY DEF Again, Requests
  <1>3. QED
    BY <1>1, <1>2 DEF Retried, Letters

LEMMA PersistNothingIInv ==
    ASSUME IInv, NEW w \in Cleaners, Persist(w), page[w].outcome \notin {"created", "updated"}
    PROVE  IInv'
  <1>1. page[w] \in PageType /\ page[w] # None
    BY DEF IInv, TypeOK, Persist, PageType
  <1>2. /\ page' = [page EXCEPT ![w].at = "ack"]
        /\ UNCHANGED <<articles, versions, hash, fetches, cleaning, llm, embed, encoding,
                       analysis, deadPages, deadRequests, lost, cut, crossed, mishaps>>
    BY DEF Persist, streamVars, mishapVars, letterVars
  <1>3. /\ page'[w] = [page[w] EXCEPT !.at = "ack"]
        /\ \A c \in Cleaners \ {w} : page'[c] = page[c]
    BY <1>1, <1>2 DEF IInv, TypeOK
  <1>4. TypeOK'
    <2>1. page' \in [Cleaners -> {None} \cup PageType]
      BY <1>1, <1>2 DEF IInv, TypeOK, PageType
    <2>2. QED
      BY <1>2, <2>1 DEF IInv, TypeOK, PageType
  <1>5. PageOK(page'[w], versions)
    <2>1. /\ page'[w].msg = page[w].msg /\ page'[w].outcome = page[w].outcome
          /\ page'[w].base = page[w].base /\ page'[w].at = "ack"
      BY <1>1, <1>3 DEF PageType
    <2>2. PageOK(page[w], versions)
      BY <1>1 DEF IInv, PagesOK
    <2>3. QED
      BY <2>1, <2>2 DEF PageOK
  <1>6. PagesOK'
    BY <1>2, <1>3, <1>5 DEF IInv, PagesOK
  <1>7. QED
    BY <1>2, <1>4, <1>6, Requested, Steady

\* The version that a cleaner has committed and not yet fanned out.
LEMMA UnpublishedType ==
    ASSUME IInv, NEW w \in Cleaners, page[w] # None
    PROVE  Unpublished(w) \subseteq Urls \X (Nat \ {0})
  <1>1. page[w].msg.url \in Urls /\ page[w].base \in Nat
    BY DEF IInv, TypeOK, PageType, Pages
  <1>2. page[w].base + 1 \in Nat \ {0}
    BY <1>1
  <1>3. QED
    BY <1>1, <1>2 DEF Unpublished

\* The cleaner has nothing in hand afterwards: its page is acknowledged or retried, or
\* the cleaner has died.
LEMMA PageDoneIInv ==
    ASSUME IInv, NEW w \in Cleaners,
           PersistFails(w) \/ FanOutFails(w) \/ AckPage(w) \/ CleanerDies(w) \/ PageLost(w)
    PROVE  IInv'
  <1>1. page[w] # None /\ page[w].msg \in Pages
    BY DEF PersistFails, FanOutFails, AckPage, CleanerDies, PageLost, Die, IInv, TypeOK,
           PageType
  <1>2. /\ page' = [page EXCEPT ![w] = None]
        /\ cleaning' \in {cleaning, cleaning \ {page[w].msg}, Retried(cleaning, page[w].msg)}
        /\ deadPages' \in {deadPages, Letters(deadPages, page[w].msg)}
        /\ lost' \subseteq lost \cup {page[w].msg}
        /\ cut' \subseteq cut \cup Unpublished(w)
        /\ mishaps' \in {mishaps, mishaps + 1} /\ (mishaps' # mishaps => mishaps < MaxMishaps)
        /\ UNCHANGED <<articles, versions, hash, fetches, llm, embed, encoding, analysis,
                       deadRequests, crossed>>
    BY DEF PersistFails, FanOutFails, AckPage, CleanerDies, PageLost, Die, RetryPage, Mishap,
           streamVars, mishapVars, letterVars
  <1>3. /\ cleaning' \subseteq Pages /\ deadPages' \subseteq Pages /\ lost' \subseteq Pages
        /\ cut' \subseteq Urls \X (Nat \ {0}) /\ mishaps' \in 0 .. MaxMishaps
    <2>1. /\ cleaning \subseteq Pages /\ deadPages \subseteq Pages /\ lost \subseteq Pages
          /\ cut \subseteq Urls \X (Nat \ {0}) /\ mishaps \in 0 .. MaxMishaps
      BY DEF IInv, TypeOK
    <2>2. /\ Retried(cleaning, page[w].msg) \subseteq Pages
          /\ Letters(deadPages, page[w].msg) \subseteq Pages
      BY <1>1, <2>1, RetriedPages
    <2>3. mishaps' \in 0 .. MaxMishaps
      BY <1>2, <2>1, ArticlesAssumption
    <2>4. QED
      BY <1>1, <1>2, <2>1, <2>2, <2>3, UnpublishedType
  <1>4. TypeOK'
    BY <1>2, <1>3 DEF IInv, TypeOK
  <1>5. PagesOK'
    BY <1>2, SamePages DEF IInv, TypeOK
  <1>6. QED
    BY <1>2, <1>4, <1>5, Requested, Steady

\* New content goes to the two streams behind the cleaning worker.
LEMMA PublishIInv ==
    ASSUME IInv, NEW w \in Cleaners, PublishLlm(w) \/ PublishEmbed(w)
    PROVE  IInv'
  <1> DEFINE p == page[w]
             after == IF p.at = "llm" THEN "embed" ELSE "ack"
  <1>1. /\ p \in PageType /\ p # None /\ p.at \in {"llm", "embed"} /\ p.msg \in Pages
        /\ p.base \in Nat /\ p.msg.url \in Urls
    BY DEF IInv, TypeOK, PublishLlm, PublishEmbed, PageType, Pages
  <1>2. /\ page' = [page EXCEPT ![w].at = after]
        /\ llm' \cup embed' = llm \cup embed \cup {Request(w)}
        /\ UNCHANGED <<articles, versions, hash, fetches, cleaning, encoding, analysis,
                       deadPages, deadRequests, lost, cut, crossed, mishaps>>
    BY DEF PublishLlm, PublishEmbed, mishapVars, letterVars
  <1>3. PageOK(p, versions) /\ Kept(p.msg, versions)
    BY <1>1 DEF IInv, PagesOK, PageOK
  <1>4. Request(w) \in Requests /\ Request(w).url = p.msg.url /\ Stored(p.msg.url)
    <2>1. p.base + 1 \in Nat \ {0}
      BY <1>1
    <2>2. QED
      BY <1>1, <1>3, <2>1, KeptIsStored, ArticlesAssumption DEF Request, Requests, IInv
  <1>5. /\ page'[w] = [p EXCEPT !.at = after]
        /\ \A c \in Cleaners \ {w} : page'[c] = page[c]
    BY <1>1, <1>2 DEF IInv, TypeOK
  <1>6. TypeOK'
    <2>1. page' \in [Cleaners -> {None} \cup PageType]
      BY <1>1, <1>2 DEF IInv, TypeOK, PageType
    <2>2. llm' \subseteq Requests /\ embed' \subseteq Requests
      BY <1>2, <1>4, Requested
    <2>3. QED
      BY <1>2, <2>1, <2>2 DEF IInv, TypeOK, PageType
  <1>7. PagesOK'
    <2>1. /\ page'[w].msg = p.msg /\ page'[w].outcome = p.outcome /\ page'[w].base = p.base
          /\ page'[w].at \in {"embed", "ack"}
      BY <1>1, <1>5 DEF PageType
    <2>2. PageOK(page'[w], versions)
      BY <1>1, <1>3, <2>1 DEF PageOK
    <2>3. QED
      BY <1>2, <1>5, <2>2 DEF IInv, PagesOK
  <1>8. \A m \in llm' \cup embed' : m.url \in Urls /\ Stored(m.url)
    BY <1>1, <1>2, <1>4, Requested
  <1>9. UNCHANGED <<articles, versions, encoding>>
    BY <1>2
  <1>10. QED
    BY <1>6, <1>7, <1>8, <1>9, Requested, Steady

-----------------------------------------------------------------------------
(* The embedding worker.                                                   *)

LEMMA DeferredRequest ==
    ASSUME NEW m \in Requests
    PROVE  Deferred(m) \in Requests /\ Deferred(m).url = m.url /\ Deferred(m).version = m.version
  <1> DEFINE a == [m EXCEPT !.deferred = TRUE]
             b == [a EXCEPT !.attempt = 1]
  <1>1. a \in Requests /\ a.url = m.url /\ a.version = m.version
    BY DEF Requests
  <1>2. b \in Requests /\ b.url = a.url /\ b.version = a.version
    <2> HIDE DEF a
    <2>1. QED
      BY <1>1, ArticlesAssumption DEF Requests
  <1>3. Deferred(m) = b
    BY Zenon DEF Deferred
  <1>4. QED
    <2> HIDE DEF a, b
    <2>1. QED
      BY <1>1, <1>2, <1>3

LEMMA DeferIInv ==
    ASSUME IInv, NEW e \in Embedders, NEW m \in embed, Defer(e, m) \/ DeferDies(e, m)
    PROVE  IInv'
  <1>1. m \in Requests /\ m.url \in Urls /\ Stored(m.url)
    BY Requested
  <1>2. Deferred(m) \in Requests /\ Deferred(m).url = m.url
    BY <1>1, DeferredRequest
  <1>3. /\ embed' \subseteq embed \cup {Deferred(m)} /\ mishaps' \in 0 .. MaxMishaps
        /\ UNCHANGED <<articles, versions, hash, fetches, cleaning, llm, page, encoding,
                       analysis, deadPages, deadRequests, lost, cut, crossed>>
    BY ArticlesAssumption DEF Defer, DeferDies, Mishap, workerVars, mishapVars, letterVars,
                              IInv, TypeOK
  <1>4. TypeOK'
    BY <1>2, <1>3 DEF IInv, TypeOK
  <1>5. PagesOK'
    BY <1>3 DEF IInv, PagesOK
  <1>6. QED
    BY <1>1, <1>2, <1>3, <1>4, <1>5, Requested, Steady

LEMMA LoadArticleIInv ==
    ASSUME IInv, NEW e \in Embedders, NEW m \in embed, LoadArticle(e, m)
    PROVE  IInv'
  <1> DEFINE x == [msg |-> m, text |-> articles[m.url].text,
                   marked |-> articles[m.url].original # None, at |-> "encode"]
  <1>1. m \in Requests /\ m.url \in Urls /\ Stored(m.url)
    BY Requested
  <1>2. articles[m.url].text \in Texts
    BY <1>1 DEF IInv, TypeOK, Article, Stored
  <1>3. x \in EncodingType
    BY <1>1, <1>2 DEF EncodingType
  <1>4. /\ encoding' = [encoding EXCEPT ![e] = x]
        /\ crossed' \subseteq crossed \cup {m.url} /\ mishaps' \in 0 .. MaxMishaps
        /\ UNCHANGED <<articles, versions, hash, fetches, cleaning, llm, embed, page,
                       analysis, deadPages, deadRequests, lost, cut>>
    BY ArticlesAssumption DEF LoadArticle, GivenOut, Mishap, streamVars, letterVars, IInv,
                              TypeOK
  <1>5. TypeOK'
    <2>1. encoding' \in [Embedders -> {None} \cup EncodingType]
      BY <1>3, <1>4 DEF IInv, TypeOK, EncodingType
    <2>2. QED
      BY <1>1, <1>4, <2>1 DEF IInv, TypeOK, EncodingType
  <1>6. PagesOK'
    BY <1>4 DEF IInv, PagesOK
  <1>7. \A f \in Embedders : encoding'[f] # None =>
              encoding'[f].msg.url \in Urls /\ Stored(encoding'[f].msg.url)
    BY <1>1, <1>4, Requested DEF IInv, TypeOK
  <1>8. QED
    BY <1>4, <1>5, <1>6, <1>7, Requested, Steady

\* A new vector leaves the rest of the row.
LEMMA VectorStored ==
    ASSUME NEW row \in Article, NEW vector \in Texts, NEW new, new = [row EXCEPT !.vector = vector]
    PROVE  /\ new \in Article /\ new.text = row.text /\ new.version = row.version
           /\ new.original = row.original
  BY DEF Article

LEMMA StoreVectorIInv ==
    ASSUME IInv, NEW e \in Embedders, StoreVector(e)
    PROVE  IInv'
  <1> DEFINE x == encoding[e]
             u == x.msg.url
  <1>1. x \in EncodingType /\ x.text \in Texts /\ u \in Urls
    BY DEF IInv, TypeOK, StoreVector, EncodingType, Requests
  <1>2. /\ encoding' = [encoding EXCEPT ![e].at = "judge"]
        /\ articles' = [articles EXCEPT ![u].vector = x.text]
        /\ UNCHANGED <<versions, hash, fetches, cleaning, llm, embed, page, analysis,
                       deadPages, deadRequests, lost, cut, crossed, mishaps>>
    BY DEF StoreVector, streamVars, mishapVars, letterVars
  <1>3. articles \in [Urls -> Article] /\ \A v \in Urls : articles[v].original # v
    BY DEF IInv, TypeOK
  <1>4. /\ articles'[u] = [articles[u] EXCEPT !.vector = x.text]
        /\ \A v \in Urls \ {u} : articles'[v] = articles[v]
        /\ DOMAIN articles' = Urls /\ articles' = [v \in Urls |-> articles'[v]]
    BY <1>1, <1>2, <1>3
  <1>5. /\ articles'[u] \in Article /\ articles'[u].text = articles[u].text
        /\ articles'[u].version = articles[u].version
        /\ articles'[u].original = articles[u].original
    BY <1>1, <1>3, <1>4, VectorStored
  <1>6. TypeOK'
    <2>1. encoding' \in [Embedders -> {None} \cup EncodingType]
      BY <1>1, <1>2 DEF IInv, TypeOK, EncodingType
    <2>2. articles' \in [Urls -> Article] /\ \A v \in Urls : articles'[v].original # v
      <3>1. ASSUME NEW v \in Urls
            PROVE  articles'[v] \in Article /\ articles'[v].original # v
        <4>1. CASE v = u
          BY <1>1, <1>3, <1>5, <4>1
        <4>2. CASE v # u
          BY <1>3, <1>4, <4>2
        <4>3. QED
          BY <4>1, <4>2
      <3>2. [v \in Urls |-> articles'[v]] \in [Urls -> Article]
        BY <3>1
      <3>3. QED
        BY <1>4, <3>1, <3>2
    <2>3. QED
      BY <1>2, <2>1, <2>2 DEF IInv, TypeOK, EncodingType
  <1>7. PagesOK'
    BY <1>2 DEF IInv, PagesOK
  <1>8. \A f \in Embedders : encoding'[f] # None =>
              encoding[f] # None /\ encoding'[f].msg = encoding[f].msg
    <2>1. encoding'[e] = [x EXCEPT !.at = "judge"]
      BY <1>1, <1>2 DEF IInv, TypeOK
    <2>2. encoding'[e].msg = x.msg /\ x # None
      BY <1>1, <2>1 DEF EncodingType, StoreVector
    <2>3. \A f \in Embedders \ {e} : encoding'[f] = encoding[f]
      BY <1>2 DEF IInv, TypeOK
    <2>4. QED
      BY <2>2, <2>3
  <1>9. QED
    BY <1>2, <1>4, <1>5, <1>6, <1>7, <1>8, Requested, Steady

\* The candidates for the original of an article are other stored articles.
LEMMA CandidatesAreOthers ==
    ASSUME NEW u \in Urls, NEW text, NEW candidates \in Candidates(u, text),
           NEW v \in candidates
    PROVE  v \in Urls \ {u}
  <1>1. FindDuplicate(text, StoredUrls \ {u}) \subseteq StoredUrls \ {u}
    BY DEF FindDuplicate, Exact, Within
  <1>2. Within(Gray, text, StoredUrls \ {u}) \subseteq StoredUrls \ {u}
    BY DEF Within
  <1>3. v \in StoredUrls \ {u}
    BY <1>1, <1>2 DEF Candidates
  <1>4. QED
    BY <1>3 DEF StoredUrls

LEMMA Marked ==
    ASSUME NEW row \in Article, NEW v \in Urls, NEW new, new = [row EXCEPT !.original = v]
    PROVE  /\ new \in Article /\ new.text = row.text /\ new.version = row.version
           /\ new.original = v
  BY DEF Article

LEMMA JudgeIInv ==
    ASSUME IInv, NEW e \in Embedders, Judge(e)
    PROVE  IInv'
  <1> DEFINE x == encoding[e]
             u == x.msg.url
  <1>1. u \in Urls
    BY DEF IInv, TypeOK, Judge, EncodingType, Requests
  <1>2. /\ encoding' = [encoding EXCEPT ![e] = None] /\ embed' \subseteq embed
        /\ UNCHANGED <<versions, hash, fetches, cleaning, llm, page, analysis, deadPages,
                       deadRequests, lost, cut, crossed, mishaps>>
    BY DEF Judge, mishapVars, letterVars
  <1>3. articles \in [Urls -> Article] /\ \A v \in Urls : articles[v].original # v
    BY DEF IInv, TypeOK
  <1>4. /\ articles' \in [Urls -> Article]
        /\ \A v \in Urls : /\ articles'[v].original # v
                           /\ articles'[v].text = articles[v].text
                           /\ articles'[v].version = articles[v].version
    <2>1. \/ articles' = articles
          \/ \E v \in Urls \ {u} : articles' = [articles EXCEPT ![u].original = v]
      BY <1>1, CandidatesAreOthers DEF Judge, SimilarTo
    <2>2. CASE articles' = articles
      BY <1>3, <2>2
    <2>3. ASSUME NEW v \in Urls \ {u}, articles' = [articles EXCEPT ![u].original = v]
          PROVE  /\ articles' \in [Urls -> Article]
                 /\ \A c \in Urls : /\ articles'[c].original # c
                                    /\ articles'[c].text = articles[c].text
                                    /\ articles'[c].version = articles[c].version
      <3>1. /\ articles'[u] = [articles[u] EXCEPT !.original = v]
            /\ \A c \in Urls \ {u} : articles'[c] = articles[c]
            /\ articles' = [c \in Urls |-> articles'[c]]
        BY <1>1, <1>3, <2>3
      <3>2. /\ articles'[u] \in Article /\ articles'[u].text = articles[u].text
            /\ articles'[u].version = articles[u].version /\ articles'[u].original = v
        BY <1>1, <1>3, <3>1, Marked
      <3>3. QED
        BY <1>1, <1>3, <3>1, <3>2, ZenonT(30)
    <2>4. QED
      BY <2>1, <2>2, <2>3
  <1>5. TypeOK'
    BY <1>2, <1>4 DEF IInv, TypeOK
  <1>6. PagesOK'
    BY <1>2 DEF IInv, PagesOK
  <1>7. \A f \in Embedders : encoding'[f] # None => encoding'[f] = encoding[f]
    BY <1>2 DEF IInv, TypeOK
  <1>8. QED
    BY <1>2, <1>4, <1>5, <1>6, <1>7, Requested, Steady

\* An embedder that fails or dies, or that dies in its retry.
LEMMA EmbedderLeavesIInv ==
    ASSUME IInv, NEW e \in Embedders,
           EmbedderDies(e) \/ \E m \in Handled(e) : EmbedFails(e, m) \/ RequestLost(e, m)
    PROVE  IInv'
  <1>1. \A m \in Handled(e) : /\ m \in Requests /\ m.url \in Urls /\ Stored(m.url)
                              /\ m.version \in Nat \ {0}
    BY Requested DEF Handled, Requests
  <1>2. /\ \/ embed' = embed
           \/ \E m \in Handled(e) : embed' = Retried(embed, m) \/ embed' = embed \ {m}
        /\ \/ deadRequests' = deadRequests
           \/ \E m \in Handled(e) : deadRequests' = Letters(deadRequests, m)
        /\ cut' = cut \/ \E m \in Handled(e) : cut' = cut \cup {<<m.url, m.version>>}
        /\ encoding' = [encoding EXCEPT ![e] = None]
        /\ mishaps' \in {mishaps, mishaps + 1} /\ (mishaps' # mishaps => mishaps < MaxMishaps)
        /\ UNCHANGED <<articles, versions, hash, fetches, cleaning, llm, page, analysis,
                       deadPages, lost, crossed>>
    BY DEF EmbedderDies, EmbedFails, RequestLost, Die, Mishap, letterVars
  <1>3. /\ embed' \subseteq Requests /\ \A m \in embed' : m.url \in Urls /\ Stored(m.url)
    <2>1. ASSUME NEW m \in Handled(e), embed' = Retried(embed, m)
          PROVE  embed' \subseteq Requests /\ \A n \in embed' : n.url \in Urls /\ Stored(n.url)
      <3>1. embed \subseteq Requests
        BY Requested
      <3>2. embed' \subseteq Requests /\ Again(m).url = m.url
        BY <1>1, <2>1, <3>1, RetriedRequests
      <3>3. \A n \in embed' : n \in embed \/ n = Again(m)
        BY <2>1 DEF Retried
      <3>4. QED
        BY <1>1, <3>2, <3>3, Requested
    <2>2. QED
      BY <1>2, <2>1, Requested
  <1>4. deadRequests' \subseteq Requests
    BY <1>1, <1>2 DEF IInv, TypeOK, Letters
  <1>5. cut' \subseteq Urls \X (Nat \ {0}) /\ mishaps' \in 0 .. MaxMishaps
    BY <1>1, <1>2, ArticlesAssumption DEF IInv, TypeOK
  <1>6. TypeOK'
    BY <1>2, <1>3, <1>4, <1>5 DEF IInv, TypeOK
  <1>7. PagesOK'
    BY <1>2 DEF IInv, PagesOK
  <1>8. \A f \in Embedders : encoding'[f] # None => encoding'[f] = encoding[f]
    BY <1>2 DEF IInv, TypeOK
  <1>9. QED
    BY <1>2, <1>3, <1>6, <1>7, <1>8, Requested, Steady

-----------------------------------------------------------------------------
(* The LLM worker and the deaths.                                          *)

LEMMA SkipIInv ==
    ASSUME IInv, NEW m \in llm, Skip(m)
    PROVE  IInv'
  <1>1. /\ llm' \subseteq llm
        /\ UNCHANGED <<articles, versions, hash, fetches, cleaning, embed, page, encoding,
                       analysis, deadPages, deadRequests, lost, cut, crossed, mishaps>>
    BY DEF Skip, workerVars, mishapVars, letterVars
  <1>2. TypeOK' /\ PagesOK'
    BY <1>1 DEF IInv, TypeOK, PagesOK
  <1>3. QED
    BY <1>1, <1>2, Requested, Steady

LEMMA AnalyseIInv ==
    ASSUME IInv, NEW a \in Analysts, NEW m \in llm, Analyse(a, m)
    PROVE  IInv'
  <1> DEFINE x == [msg |-> m, summary |-> articles[m.url].summary]
  <1>1. m \in Requests /\ m.url \in Urls /\ Stored(m.url)
    BY Requested
  <1>2. articles[m.url].summary \in BOOLEAN
    BY <1>1 DEF IInv, TypeOK, Article
  <1>3. x \in AnalysisType
    BY <1>1, <1>2 DEF AnalysisType
  <1>4. /\ analysis' = [analysis EXCEPT ![a] = x]
        /\ mishaps' \in 0 .. MaxMishaps
        /\ UNCHANGED <<articles, versions, hash, fetches, cleaning, llm, embed, page,
                       encoding, deadPages, deadRequests, lost, cut, crossed>>
    BY ArticlesAssumption DEF Analyse, GivenOut, Mishap, streamVars, letterVars, IInv, TypeOK
  <1>5. TypeOK'
    <2>1. analysis' \in [Analysts -> {None} \cup AnalysisType]
      BY <1>3, <1>4 DEF IInv, TypeOK, AnalysisType
    <2>2. QED
      BY <1>4, <2>1 DEF IInv, TypeOK, AnalysisType
  <1>6. PagesOK'
    BY <1>4 DEF IInv, PagesOK
  <1>7. QED
    BY <1>4, <1>5, <1>6, Requested, Steady

\* An analysis leaves the text, the version and the original of the row.
AnalysedRow(row, summary) == [row EXCEPT !.analysed = TRUE, !.summary = summary]

LEMMA Analysed ==
    ASSUME NEW row \in Article, NEW summary \in BOOLEAN
    PROVE  /\ AnalysedRow(row, summary) \in Article
           /\ AnalysedRow(row, summary).text = row.text
           /\ AnalysedRow(row, summary).version = row.version
           /\ AnalysedRow(row, summary).original = row.original
  <1> DEFINE a == [row EXCEPT !.analysed = TRUE]
             b == [a EXCEPT !.summary = summary]
  <1>1. /\ a \in Article /\ a.text = row.text /\ a.version = row.version
        /\ a.original = row.original
    BY DEF Article
  <1>2. b \in Article /\ b.text = a.text /\ b.version = a.version /\ b.original = a.original
    <2> HIDE DEF a
    <2>1. QED
      BY <1>1 DEF Article
  <1>3. AnalysedRow(row, summary) = b
    BY Zenon DEF AnalysedRow
  <1>4. QED
    <2> HIDE DEF a, b
    <2>1. QED
      BY <1>1, <1>2, <1>3

LEMMA ApplyAnalysisIInv ==
    ASSUME IInv, NEW a \in Analysts, ApplyAnalysis(a)
    PROVE  IInv'
  <1> DEFINE x == analysis[a]
             u == x.msg.url
             summary == articles[u].summary \/ ~x.summary
  <1>1. x \in AnalysisType /\ u \in Urls
    BY DEF IInv, TypeOK, ApplyAnalysis, AnalysisType, Requests
  <1>2. /\ analysis' = [analysis EXCEPT ![a] = None] /\ llm' \subseteq llm
        /\ articles' = [articles EXCEPT ![u].analysed = TRUE, ![u].summary = summary]
        /\ UNCHANGED <<versions, hash, fetches, cleaning, embed, page, encoding, deadPages,
                       deadRequests, lost, cut, crossed, mishaps>>
    BY DEF ApplyAnalysis, mishapVars, letterVars
  <1>3. articles \in [Urls -> Article] /\ \A v \in Urls : articles[v].original # v
    BY DEF IInv, TypeOK
  <1>4. summary \in BOOLEAN
    BY Zenon
  <1> HIDE DEF summary
  <1>5. /\ articles'[u] = AnalysedRow(articles[u], summary)
        /\ \A c \in Urls \ {u} : articles'[c] = articles[c]
        /\ articles' = [c \in Urls |-> articles'[c]]
    BY <1>1, <1>2, <1>3 DEF AnalysedRow
  <1>6. /\ articles'[u] \in Article /\ articles'[u].text = articles[u].text
        /\ articles'[u].version = articles[u].version
        /\ articles'[u].original = articles[u].original
    BY <1>1, <1>3, <1>4, <1>5, Analysed
  <1>7. /\ articles' \in [Urls -> Article]
        /\ \A v \in Urls : /\ articles'[v].original # v
                           /\ articles'[v].text = articles[v].text
                           /\ articles'[v].version = articles[v].version
    BY <1>1, <1>3, <1>5, <1>6
  <1>8. TypeOK'
    BY <1>2, <1>7 DEF IInv, TypeOK
  <1>9. PagesOK'
    BY <1>2 DEF IInv, PagesOK
  <1>10. QED
    BY <1>2, <1>7, <1>8, <1>9, Requested, Steady

LEMMA DeathsIInv ==
    ASSUME IInv, Deaths
    PROVE  IInv'
  <1>1. ASSUME NEW a \in Analysts, AnalystDies(a)
        PROVE  IInv'
    <2>1. /\ analysis' = [analysis EXCEPT ![a] = None] /\ mishaps' \in 0 .. MaxMishaps
          /\ UNCHANGED <<articles, versions, hash, fetches, cleaning, llm, embed, page,
                         encoding, deadPages, deadRequests, lost, cut, crossed>>
      BY <1>1, ArticlesAssumption DEF AnalystDies, Die, Mishap, IInv, TypeOK
    <2>2. TypeOK' /\ PagesOK'
      BY <2>1 DEF IInv, TypeOK, PagesOK
    <2>3. QED
      BY <2>1, <2>2, Requested, Steady
  <1>2. QED
    BY <1>1, DeferIInv, PageDoneIInv, EmbedderLeavesIInv DEF Deaths

-----------------------------------------------------------------------------
(* Enrichment.  What keeps the analysis and the vector of an article coming: *)
(* the cleaner that has yet to publish the request of its present version,   *)
(* or the request.                                                           *)

Publishing(p) == p # None /\ p.at \in {"llm", "embed"}

AnalysisComes(u) ==
    \/ articles[u].analysed
    \/ \E m \in llm : m.url = u
    \/ \E w \in Cleaners : /\ page[w] # None /\ page[w].at = "llm" /\ page[w].msg.url = u
                           /\ page[w].base + 1 = articles[u].version
AnalysisOK == \A u \in StoredUrls : FannedOut(u) => AnalysisComes(u)

IsVersion(text, past) == \E i \in 1 .. Len(past) : past[i] = text

\* An embedder has read a version of its article, the present one when its request is of
\* the present one, and there is a vector once it has stored its own.
EncodingOK(x, row, past) ==
    /\ x.msg.version <= row.version
    /\ x.msg.version = row.version => x.text = row.text
    /\ IsVersion(x.text, past)
    /\ x.at = "judge" => row.vector # None

\* No request is ahead of its article, and vectors are of versions.
FreshOK ==
    /\ \A m \in embed : m.version <= articles[m.url].version
    /\ \A w \in Cleaners : Publishing(page[w]) =>
          page[w].base + 1 <= articles[page[w].msg.url].version
    /\ \A e \in Embedders : encoding[e] # None =>
          EncodingOK(encoding[e], articles[encoding[e].msg.url], versions[encoding[e].msg.url])
    /\ \A u \in Urls : articles[u].vector # None => IsVersion(articles[u].vector, versions[u])

\* An article that no two embedders were at at once has at most one, and the vector that
\* this one has stored is still there.
At(e, u) == encoding[e] # None /\ encoding[e].msg.url = u
AloneOK ==
    \A u \in Urls \ crossed, e \in Embedders : At(e, u) =>
        /\ encoding[e].at = "judge" => articles[u].vector = encoding[e].text
        /\ \A f \in Embedders : At(f, u) => f = e

\* The request of the present version is still to come or to be done with ...
Coming(u) ==
    \/ \E w \in Cleaners : /\ Publishing(page[w]) /\ page[w].msg.url = u
                           /\ page[w].base + 1 = articles[u].version
    \/ \E m \in embed : m.url = u /\ m.version = articles[u].version
\* ... or the vector is stored; without crossing it is the right one, and no embedder is
\* about to store that of an older text.
VectorThere(u) ==
    /\ articles[u].vector # None
    /\ u \notin crossed =>
          /\ articles[u].vector = articles[u].text
          /\ \A e \in Embedders :
                At(e, u) /\ encoding[e].at = "encode" => encoding[e].text = articles[u].text
VectorOK == \A u \in StoredUrls : Embeddable(u) => Coming(u) \/ VectorThere(u)

EnrichmentInv == FreshOK /\ AloneOK /\ VectorOK

\* What the messages and the workers have in hand is about articles.
LEMMA InHand ==
    ASSUME IInv
    PROVE  /\ \A w \in Cleaners : page[w] # None =>
                 page[w] \in PageType /\ page[w].msg.url \in Urls /\ page[w].base \in Nat
           /\ \A e \in Embedders : encoding[e] # None =>
                 /\ encoding[e] \in EncodingType /\ encoding[e].msg.url \in Urls
                 /\ encoding[e].msg.version \in Nat /\ encoding[e].text \in Texts
           /\ \A m \in llm \cup embed : m.url \in Urls /\ m.version \in Nat
           /\ \A u \in Urls : articles[u].version \in Nat
  BY DEF IInv, TypeOK, PageType, EncodingType, Pages, Requests, Article

\* A step that takes no analysis away, and no request and no page but of an article
\* that has one.
LEMMA AnalysisSteady ==
    ASSUME AnalysisOK, cut \subseteq cut',
           \A u \in Urls : /\ articles'[u].text = articles[u].text
                           /\ articles'[u].version = articles[u].version
                           /\ articles[u].analysed => articles'[u].analysed,
           \A m \in llm : \/ \E n \in llm' : n.url = m.url
                          \/ articles'[m.url].analysed,
           \A w \in Cleaners : page[w] # None /\ page[w].at = "llm" =>
              \/ page'[w] = page[w]
              \/ \E n \in llm' : n.url = page[w].msg.url
              \/ <<page[w].msg.url, page[w].base + 1>> \in cut'
    PROVE  AnalysisOK'
  <1> SUFFICES ASSUME NEW u \in Urls, articles'[u].text # None,
                      <<u, articles'[u].version>> \notin cut'
               PROVE  AnalysisComes(u)'
    BY DEF AnalysisOK, StoredUrls, Stored, FannedOut
  <1>1. AnalysisComes(u)
    BY DEF AnalysisOK, StoredUrls, Stored, FannedOut
  <1>2. CASE articles[u].analysed
    BY <1>2 DEF AnalysisComes
  <1>3. ASSUME NEW m \in llm, m.url = u
        PROVE  AnalysisComes(u)'
    BY <1>3 DEF AnalysisComes
  <1>4. ASSUME NEW w \in Cleaners, page[w] # None, page[w].at = "llm", page[w].msg.url = u,
               page[w].base + 1 = articles[u].version
        PROVE  AnalysisComes(u)'
    BY <1>4 DEF AnalysisComes
  <1>5. QED
    BY <1>1, <1>2, <1>3, <1>4 DEF AnalysisComes

\* The rows and the pages after a new version was committed.
LEMMA VersionWritten ==
    ASSUME IInv, NEW w \in Cleaners, Persist(w), page[w].outcome \in {"created", "updated"},
           NEW v, v = page[w].msg.url
    PROVE  /\ v \in Urls /\ page[w].base \in Nat
           /\ articles[v].version = page[w].base
           /\ articles'[v].version = page[w].base + 1
           /\ articles'[v].vector = articles[v].vector
           /\ \A u \in Urls \ {v} : articles'[u] = articles[u]
           /\ \A u \in Urls : \A text : IsVersion(text, versions[u]) => IsVersion(text, versions'[u])
           /\ page'[w] \in PageType /\ page'[w].at = "llm"
           /\ page'[w].msg = page[w].msg /\ page'[w].base = page[w].base
           /\ \A c \in Cleaners \ {w} : page'[c] = page[c]
           /\ UNCHANGED <<llm, embed, encoding, deadRequests, cut, crossed>>
  <1> DEFINE p == page[w]
             after == SummaryAfter(p, articles[v].summary)
  <1>1. /\ p \in PageType /\ p.at = "persist" /\ v \in Urls /\ p.base \in Nat /\ p.msg.text \in Texts
        /\ articles \in [Urls -> Article] /\ page \in [Cleaners -> {None} \cup PageType]
        /\ versions \in [Urls -> Seq(Texts)]
    BY DEF IInv, TypeOK, Persist, PageType, Pages
  <1>2. articles[v].version = p.base
    BY DEF Persist, Conflict
  <1>3. /\ page' = [page EXCEPT ![w].at = "llm"]
        /\ articles' = [articles EXCEPT ![v].text = p.msg.text, ![v].version = p.base + 1,
                                        ![v].summary = after]
        /\ versions' = [versions EXCEPT ![v] = Append(@, p.msg.text)]
        /\ UNCHANGED <<llm, embed, encoding, deadRequests, cut, crossed>>
    BY DEF Persist, streamVars, mishapVars, letterVars
  <1>4. page'[w] = [p EXCEPT !.at = "llm"] /\ \A c \in Cleaners \ {w} : page'[c] = page[c]
    BY <1>1, <1>3
  <1>5. /\ page'[w] \in PageType /\ page'[w].at = "llm"
        /\ page'[w].msg = p.msg /\ page'[w].base = p.base
    BY <1>1, <1>4 DEF PageType
  <1> HIDE DEF after
  <1>6. /\ articles'[v].version = p.base + 1
        /\ articles'[v].vector = articles[v].vector
        /\ \A u \in Urls \ {v} : articles'[u] = articles[u]
    <2> DEFINE next == p.base + 1
               a == [articles[v] EXCEPT !.text = p.msg.text]
               b == [a EXCEPT !.version = next]
               c == [b EXCEPT !.summary = after]
    <2>1. a \in Article /\ a.vector = articles[v].vector
      BY <1>1 DEF Article
    <2>2. next \in Nat
      BY <1>1
    <2>3. b \in Article /\ b.version = next /\ b.vector = articles[v].vector
      <3> HIDE DEF a, next
      <3>1. QED
        BY <2>1, <2>2 DEF Article
    <2>4. c.version = next /\ c.vector = articles[v].vector
      <3> HIDE DEF b, next
      <3>1. QED
        BY <2>3 DEF Article
    <2>5. articles' = [articles EXCEPT ![v] = c]
      BY <1>1, <1>3
    <2> HIDE DEF c
    <2>6. articles'[v] = c /\ \A u \in Urls \ {v} : articles'[u] = articles[u]
      <3>1. DOMAIN articles = Urls
        BY <1>1
      <3>2. QED
        BY <1>1, <2>5, <3>1
    <2>7. next = p.base + 1
      OBVIOUS
    <2> HIDE DEF next
    <2>8. QED
      BY <2>4, <2>6, <2>7
  <1>7. ASSUME NEW u \in Urls, NEW text, IsVersion(text, versions[u])
        PROVE  IsVersion(text, versions'[u])
    <2>1. CASE u # v
      BY <1>1, <1>3, <1>7, <2>1
    <2>2. CASE u = v
      <3> DEFINE past == versions[v]
                 whole == Append(past, p.msg.text)
      <3>1. /\ Len(past) \in Nat /\ Len(whole) = Len(past) + 1
            /\ \A i \in 1 .. Len(past) : whole[i] = past[i]
        BY <1>1, AppendedVersion
      <3>2. versions'[u] = whole
        BY <1>1, <1>3, <2>2
      <3> HIDE DEF whole
      <3>3. QED
        BY <1>7, <2>2, <3>1, <3>2 DEF IsVersion
    <2>3. QED
      BY <2>1, <2>2
  <1>8. QED
    BY <1>1, <1>2, <1>3, <1>4, <1>5, <1>6, <1>7

LEMMA PersistAnalysis ==
    ASSUME IInv, AnalysisOK, NEW w \in Cleaners, Persist(w)
    PROVE  AnalysisOK'
  <1> DEFINE p == page[w]
             v == p.msg.url
  <1>1. CASE p.outcome \in {"created", "updated"}
    <2>1. /\ v \in Urls /\ UNCHANGED <<llm, cut>>
          /\ articles'[v].version = p.base + 1
          /\ \A u \in Urls \ {v} : articles'[u] = articles[u]
          /\ page'[w] # None /\ page'[w].at = "llm" /\ page'[w].msg.url = v
          /\ page'[w].base = p.base
          /\ \A c \in Cleaners \ {w} : page'[c] = page[c]
      BY <1>1, VersionWritten, NoneAssumption
    <2> SUFFICES ASSUME NEW u \in Urls, articles'[u].text # None,
                        <<u, articles'[u].version>> \notin cut
                 PROVE  AnalysisComes(u)'
      BY <2>1 DEF AnalysisOK, StoredUrls, Stored, FannedOut
    <2>2. CASE u = v
      BY <2>1, <2>2 DEF AnalysisComes
    <2>3. CASE u # v
      <3>1. AnalysisComes(u) /\ articles'[u] = articles[u]
        BY <2>1, <2>3 DEF AnalysisOK, StoredUrls, Stored, FannedOut
      <3>2. \A c \in Cleaners : page[c] # None /\ page[c].at = "llm" => page'[c] = page[c]
        BY <2>1 DEF Persist
      <3>3. QED
        BY <2>1, <3>1, <3>2 DEF AnalysisComes
    <2>4. QED
      BY <2>2, <2>3
  <1>2. CASE p.outcome \notin {"created", "updated"}
    <2>1. /\ articles' = articles /\ page' = [page EXCEPT ![w].at = "ack"]
          /\ UNCHANGED <<llm, cut>> /\ p.at = "persist"
      BY <1>2 DEF Persist, streamVars, mishapVars
    <2>2. \A c \in Cleaners : page[c] # None /\ page[c].at = "llm" => page'[c] = page[c]
      BY <2>1 DEF IInv, TypeOK
    <2>3. QED
      BY <2>1, <2>2, AnalysisSteady
  <1>3. QED
    BY <1>1, <1>2

\* The row after an analysis, and after a verdict on its original.
LEMMA AppliedAnalysis ==
    ASSUME IInv, NEW a \in Analysts, ApplyAnalysis(a)
    PROVE  /\ \A u \in Urls : /\ articles'[u].text = articles[u].text
                              /\ articles'[u].version = articles[u].version
                              /\ articles'[u].vector = articles[u].vector
                              /\ articles[u].analysed => articles'[u].analysed
           /\ articles'[analysis[a].msg.url].analysed
  <1> DEFINE x == analysis[a]
             v == x.msg.url
             summary == articles[v].summary \/ ~x.summary
             b == [articles[v] EXCEPT !.analysed = TRUE]
             c == [b EXCEPT !.summary = summary]
  <1>1. v \in Urls
    BY DEF IInv, TypeOK, ApplyAnalysis, AnalysisType, Requests
  <1>2. articles \in [Urls -> Article]
    BY DEF IInv, TypeOK
  <1>3. /\ b \in Article /\ b.analysed = TRUE /\ b.text = articles[v].text
        /\ b.version = articles[v].version /\ b.vector = articles[v].vector
    <2>1. articles[v] \in Article
      BY <1>1, <1>2
    <2>2. QED
      BY <2>1 DEF Article
  <1>4. articles' = [articles EXCEPT ![v] = c]
    BY <1>1, <1>2 DEF ApplyAnalysis
  <1>5. c.analysed = b.analysed /\ c.text = b.text /\ c.version = b.version /\ c.vector = b.vector
    <2> HIDE DEF b, summary
    <2>1. QED
      BY <1>3 DEF Article
  <1> HIDE DEF b, c
  <1>6. QED
    BY <1>1, <1>2, <1>3, <1>4, <1>5

LEMMA JudgeKeeps ==
    ASSUME IInv, NEW e \in Embedders, Judge(e)
    PROVE  \A u \in Urls : /\ articles'[u].text = articles[u].text
                           /\ articles'[u].version = articles[u].version
                           /\ articles'[u].vector = articles[u].vector
                           /\ articles'[u].analysed = articles[u].analysed
  <1> DEFINE v == encoding[e].msg.url
  <1>1. v \in Urls /\ articles \in [Urls -> Article]
    BY DEF IInv, TypeOK, Judge, EncodingType, Requests
  <1>2. articles' = articles \/ \E o : articles' = [articles EXCEPT ![v].original = o]
    BY DEF Judge
  <1>3. ASSUME NEW o, articles' = [articles EXCEPT ![v].original = o], NEW u \in Urls
        PROVE  /\ articles'[u].text = articles[u].text
               /\ articles'[u].version = articles[u].version
               /\ articles'[u].vector = articles[u].vector
               /\ articles'[u].analysed = articles[u].analysed
    <2> DEFINE row == articles[v]
               new == [row EXCEPT !.original = o]
    <2>1. row \in Article
      BY <1>1
    <2>2. /\ new.text = row.text /\ new.version = row.version
          /\ new.vector = row.vector /\ new.analysed = row.analysed
      BY <2>1 DEF Article
    <2>3. articles' = [articles EXCEPT ![v] = new]
      BY <1>1, <1>3
    <2> HIDE DEF new
    <2>4. QED
      BY <1>1, <2>2, <2>3
  <1>4. QED
    BY <1>2, <1>3

LEMMA VectorKeeps ==
    ASSUME IInv, NEW e \in Embedders, StoreVector(e)
    PROVE  /\ \A u \in Urls : /\ articles'[u].text = articles[u].text
                              /\ articles'[u].version = articles[u].version
                              /\ articles'[u].analysed = articles[u].analysed
           /\ articles'[encoding[e].msg.url].vector = encoding[e].text
           /\ \A u \in Urls \ {encoding[e].msg.url} : articles'[u] = articles[u]
  <1> DEFINE v == encoding[e].msg.url
             row == articles[v]
             new == [row EXCEPT !.vector = encoding[e].text]
  <1>1. v \in Urls /\ articles \in [Urls -> Article] /\ row \in Article
    BY DEF IInv, TypeOK, StoreVector, EncodingType, Requests
  <1>2. /\ new.text = row.text /\ new.version = row.version /\ new.analysed = row.analysed
        /\ new.vector = encoding[e].text
    BY <1>1 DEF Article
  <1>3. articles' = [articles EXCEPT ![v] = new]
    BY <1>1 DEF StoreVector
  <1> HIDE DEF new
  <1>4. QED
    BY <1>1, <1>2, <1>3

\* A cleaner that fails or dies after its commit: the version is known as cut.
LEMMA CutShort ==
    ASSUME IInv, AnalysisOK, NEW w \in Cleaners, FanOutFails(w) \/ CleanerDies(w) \/ PageLost(w)
    PROVE  AnalysisOK'
  <1>1. UNCHANGED <<llm, articles>> /\ page' = [page EXCEPT ![w] = None]
    BY DEF FanOutFails, RetryPage, CleanerDies, PageLost, Die
  <1>2. \A c \in Cleaners \ {w} : page'[c] = page[c]
    BY <1>1 DEF IInv, TypeOK
  <1>3. cut' = cut \cup Unpublished(w)
    BY DEF FanOutFails, CleanerDies, PageLost
  <1>4. page[w].at = "llm" => <<page[w].msg.url, page[w].base + 1>> \in cut'
    BY <1>3 DEF Unpublished
  <1>5. QED
    BY <1>1, <1>2, <1>3, <1>4, AnalysisSteady

LEMMA NextAnalysis ==
    ASSUME IInv, AnalysisOK, [Next]_vars
    PROVE  AnalysisOK'
  <1>1. ASSUME NEW w \in Cleaners, Clean(w)
        PROVE  AnalysisOK'
    <2>1. ASSUME NEW m \in cleaning, ReadPage(w, m)
          PROVE  AnalysisOK'
      <3>1. UNCHANGED <<llm, articles, cut>> /\ page[w] = None
        BY <2>1 DEF ReadPage, streamVars
      <3>2. \A c \in Cleaners : page[c] # None => page'[c] = page[c]
        BY <2>1, <3>1 DEF ReadPage, IInv, TypeOK
      <3>3. QED
        BY <3>1, <3>2, AnalysisSteady
    <2>2. ASSUME PublishLlm(w)
          PROVE  AnalysisOK'
      <3>1. /\ llm' = llm \cup {Request(w)} /\ UNCHANGED <<articles, cut>>
            /\ Request(w).url = page[w].msg.url
            /\ \A c \in Cleaners \ {w} : page'[c] = page[c]
        BY <2>2 DEF PublishLlm, mishapVars, letterVars, Request, IInv, TypeOK
      <3>2. QED
        BY <3>1, AnalysisSteady
    <2>3. ASSUME PersistFails(w) \/ PublishEmbed(w) \/ AckPage(w)
          PROVE  AnalysisOK'
      <3>1. UNCHANGED <<llm, articles, cut>> /\ page[w].at # "llm"
        BY <2>3 DEF PersistFails, RetryPage, PublishEmbed, AckPage, streamVars, mishapVars
      <3>2. \A c \in Cleaners \ {w} : page'[c] = page[c]
        BY <2>3 DEF PersistFails, RetryPage, PublishEmbed, AckPage, IInv, TypeOK
      <3>3. QED
        BY <3>1, <3>2, AnalysisSteady
    <2>4. QED
      BY <1>1, <2>1, <2>2, <2>3, PersistAnalysis, CutShort DEF Clean
  <1>2. ASSUME NEW e \in Embedders, Embed(e)
        PROVE  AnalysisOK'
    <2>1. UNCHANGED <<llm, page, cut>>
      BY <1>2 DEF Embed, Defer, LoadArticle, StoreVector, Judge, EmbedFails, streamVars,
                  workerVars, mishapVars
    <2>2. \/ \A u \in Urls : /\ articles'[u].text = articles[u].text
                             /\ articles'[u].version = articles[u].version
                             /\ articles'[u].analysed = articles[u].analysed
          \/ articles' = articles
      BY <1>2, VectorKeeps, JudgeKeeps DEF Embed, Defer, LoadArticle, EmbedFails
    <2>3. QED
      BY <2>1, <2>2, AnalysisSteady
  <1>3. ASSUME NEW a \in Analysts, NEW m \in llm, Skip(m) \/ Analyse(a, m)
        PROVE  AnalysisOK'
    <2>1. /\ UNCHANGED <<articles, page, cut>>
          /\ \A n \in llm : n \in llm' \/ articles[n.url].analysed
      BY <1>3 DEF Skip, Analyse, streamVars, workerVars, mishapVars, letterVars
    <2>2. QED
      BY <2>1, AnalysisSteady
  <1>4. ASSUME NEW a \in Analysts, ApplyAnalysis(a)
        PROVE  AnalysisOK'
    <2>1. UNCHANGED <<page, cut>> /\ llm' = llm \ {analysis[a].msg}
      BY <1>4 DEF ApplyAnalysis, mishapVars, letterVars
    <2>2. QED
      BY <1>4, <2>1, AppliedAnalysis, AnalysisSteady
  <1>5. ASSUME UNCHANGED <<llm, page, articles>>, cut \subseteq cut'
        PROVE  AnalysisOK'
    BY <1>5, AnalysisSteady
  <1>6. ASSUME \/ \E u \in Urls, text \in Texts : Fetch(u, text)
               \/ \E e \in Embedders : \/ EmbedderDies(e)
                                       \/ \E m \in embed : DeferDies(e, m)
                                       \/ \E m \in Handled(e) : RequestLost(e, m)
               \/ \E a \in Analysts : AnalystDies(a)
               \/ UNCHANGED vars
        PROVE  AnalysisOK'
    BY <1>5, <1>6 DEF Fetch, EmbedderDies, DeferDies, RequestLost, AnalystDies, Die, streamVars,
                      workerVars, mishapVars, vars
  <1>7. QED
    BY <1>1, <1>2, <1>3, <1>4, <1>6, CutShort DEF Next, Analyze, Deaths

\* A step that leaves the texts, the versions and the vectors of the articles.  An
\* embedder can leave its article and a request be replaced by another one of the same
\* version; a version whose request is gone, published or not, is known as cut or is a
\* dead letter.
LEMMA Undisturbed ==
    ASSUME IInv, EnrichmentInv, UNCHANGED <<versions, crossed>>, cut \subseteq cut',
           deadRequests \subseteq deadRequests',
           \A u \in Urls : /\ articles'[u].text = articles[u].text
                           /\ articles'[u].version = articles[u].version
                           /\ articles'[u].vector = articles[u].vector,
           \A w \in Cleaners : Publishing(page'[w]) =>
              Publishing(page[w]) /\ page'[w].msg = page[w].msg /\ page'[w].base = page[w].base,
           \A w \in Cleaners : Publishing(page[w]) =>
              Publishing(page'[w]) \/ <<page[w].msg.url, page[w].base + 1>> \in cut',
           \A e \in Embedders : encoding'[e] \in {None, encoding[e]},
           \A n \in embed' : n.url \in Urls /\ n.version <= articles[n.url].version,
           \A m \in embed : \/ \E n \in embed' : n.url = m.url /\ n.version = m.version
                            \/ <<m.url, m.version>> \in cut'
                            \/ \E n \in deadRequests' : n.url = m.url /\ n.version = m.version
    PROVE  EnrichmentInv'
  <1>1. FreshOK'
    <2>1. \A w \in Cleaners : Publishing(page'[w]) =>
              page'[w].base + 1 <= articles'[page'[w].msg.url].version
      BY InHand DEF EnrichmentInv, FreshOK, Publishing
    <2>2. ASSUME NEW e \in Embedders, encoding'[e] # None
          PROVE  EncodingOK(encoding'[e], articles'[encoding'[e].msg.url],
                            versions[encoding'[e].msg.url])
      <3>1. /\ encoding'[e] = encoding[e] /\ encoding[e].msg.url \in Urls
            /\ EncodingOK(encoding[e], articles[encoding[e].msg.url],
                          versions[encoding[e].msg.url])
        BY <2>2, InHand DEF EnrichmentInv, FreshOK
      <3>2. QED
        BY <3>1 DEF EncodingOK
    <2>3. \A u \in Urls : articles'[u].vector # None => IsVersion(articles'[u].vector, versions[u])
      BY DEF EnrichmentInv, FreshOK
    <2>4. QED
      BY <2>1, <2>2, <2>3 DEF FreshOK, Publishing
  <1>2. AloneOK'
    BY DEF EnrichmentInv, AloneOK, At
  <1>3. VectorOK'
    <2> SUFFICES ASSUME NEW u \in Urls, articles'[u].text # None, Embeddable(u)'
                 PROVE  Coming(u)' \/ VectorThere(u)'
      BY DEF VectorOK, StoredUrls, Stored
    <2>1. Coming(u) \/ VectorThere(u)
      BY DEF EnrichmentInv, VectorOK, StoredUrls, Stored, Embeddable, FannedOut
    <2>2. ASSUME NEW w \in Cleaners, Publishing(page[w]), page[w].msg.url = u,
                 page[w].base + 1 = articles[u].version
          PROVE  Coming(u)'
      BY <2>2 DEF Coming, Publishing, Embeddable, FannedOut
    <2>3. ASSUME NEW m \in embed, m.url = u, m.version = articles[u].version
          PROVE  Coming(u)'
      BY <2>3 DEF Coming, Embeddable, FannedOut
    <2>4. ASSUME VectorThere(u)
          PROVE  VectorThere(u)'
      BY <2>4 DEF VectorThere, At
    <2>5. QED
      BY <2>1, <2>2, <2>3, <2>4 DEF Coming
  <1>4. QED
    BY <1>1, <1>2, <1>3 DEF EnrichmentInv

\* The usual case: the requests and the embedders stay as they are.
LEMMA UndisturbedEmbedding ==
    ASSUME IInv, EnrichmentInv, UNCHANGED <<versions, crossed, embed, encoding, deadRequests>>,
           cut \subseteq cut',
           \A u \in Urls : /\ articles'[u].text = articles[u].text
                           /\ articles'[u].version = articles[u].version
                           /\ articles'[u].vector = articles[u].vector,
           \A w \in Cleaners : Publishing(page'[w]) =>
              Publishing(page[w]) /\ page'[w].msg = page[w].msg /\ page'[w].base = page[w].base,
           \A w \in Cleaners : Publishing(page[w]) =>
              Publishing(page'[w]) \/ <<page[w].msg.url, page[w].base + 1>> \in cut'
    PROVE  EnrichmentInv'
  <1>1. \A n \in embed : n.url \in Urls /\ n.version <= articles[n.url].version
    BY InHand DEF EnrichmentInv, FreshOK
  <1>2. QED
    BY <1>1, Undisturbed

\* A new version is fanned out next; what embedders have read becomes an older one.
LEMMA PersistEnriches ==
    ASSUME IInv, EnrichmentInv, NEW w \in Cleaners, Persist(w)
    PROVE  EnrichmentInv'
  <1> DEFINE p == page[w]
             v == p.msg.url
  <1>1. CASE p.outcome \in {"created", "updated"}
    <2>1. /\ v \in Urls /\ p.base \in Nat /\ articles[v].version = p.base
          /\ articles'[v].version = p.base + 1 /\ articles'[v].vector = articles[v].vector
          /\ \A u \in Urls \ {v} : articles'[u] = articles[u]
          /\ \A u \in Urls : \A text : IsVersion(text, versions[u]) => IsVersion(text, versions'[u])
          /\ page'[w] # None /\ page'[w].at = "llm"
          /\ page'[w].msg = p.msg /\ page'[w].base = p.base
          /\ \A c \in Cleaners \ {w} : page'[c] = page[c]
          /\ UNCHANGED <<llm, embed, encoding, deadRequests, cut, crossed>>
      BY <1>1, VersionWritten, NoneAssumption
    <2>2. \A u \in Urls : /\ articles[u].version \in Nat /\ articles'[u].version \in Nat
                          /\ articles[u].version <= articles'[u].version
                          /\ articles'[u].vector = articles[u].vector
      <3>1. ASSUME NEW u \in Urls
            PROVE  /\ articles[u].version \in Nat /\ articles'[u].version \in Nat
                   /\ articles[u].version <= articles'[u].version
                   /\ articles'[u].vector = articles[u].vector
        <4>1. articles[u].version \in Nat
          BY InHand
        <4>2. CASE u = v
          BY <2>1, <4>2
        <4>3. CASE u # v
          BY <2>1, <4>1, <4>3
        <4>4. QED
          BY <4>2, <4>3
      <3>2. QED
        BY <3>1
    <2>3. FreshOK'
      <3>1. ASSUME NEW m \in embed
            PROVE  m.version <= articles'[m.url].version
        <4>1. m.version <= articles[m.url].version /\ m.url \in Urls /\ m.version \in Nat
          BY InHand DEF EnrichmentInv, FreshOK
        <4>2. QED
          BY <2>2, <4>1
      <3>2. ASSUME NEW c \in Cleaners, Publishing(page'[c])
            PROVE  page'[c].base + 1 <= articles'[page'[c].msg.url].version
        <4>1. CASE c = w
          BY <2>1, <4>1
        <4>2. CASE c # w
          <5>1. page'[c] = page[c] /\ Publishing(page[c])
            BY <2>1, <3>2, <4>2
          <5>2. /\ page[c].base + 1 <= articles[page[c].msg.url].version
                /\ page[c].msg.url \in Urls /\ page[c].base \in Nat
            BY <5>1, InHand DEF EnrichmentInv, FreshOK, Publishing
          <5>3. QED
            BY <2>2, <5>1, <5>2
        <4>3. QED
          BY <4>1, <4>2
      <3>3. ASSUME NEW e \in Embedders, encoding[e] # None
            PROVE  EncodingOK(encoding[e], articles'[encoding[e].msg.url],
                              versions'[encoding[e].msg.url])
        <4> DEFINE x == encoding[e]
                   u == x.msg.url
        <4>1. EncodingOK(x, articles[u], versions[u]) /\ u \in Urls /\ x.msg.version \in Nat
          BY <3>3, InHand DEF EnrichmentInv, FreshOK
        <4>2. /\ x.msg.version <= articles'[u].version
              /\ x.msg.version = articles'[u].version => x.text = articles'[u].text
          <5>1. CASE u = v
            BY <2>1, <4>1, <5>1 DEF EncodingOK
          <5>2. CASE u # v
            BY <2>1, <4>1, <5>2 DEF EncodingOK
          <5>3. QED
            BY <5>1, <5>2
        <4>3. IsVersion(x.text, versions'[u])
          BY <2>1, <4>1 DEF EncodingOK
        <4>4. x.at = "judge" => articles'[u].vector # None
          BY <2>2, <4>1 DEF EncodingOK
        <4>5. QED
          BY <4>2, <4>3, <4>4 DEF EncodingOK
      <3>4. \A u \in Urls : articles'[u].vector # None =>
                               IsVersion(articles'[u].vector, versions'[u])
        BY <2>1, <2>2 DEF EnrichmentInv, FreshOK
      <3>5. QED
        BY <2>1, <3>1, <3>2, <3>3, <3>4 DEF FreshOK, Publishing
    <2>4. AloneOK'
      BY <2>1, <2>2 DEF EnrichmentInv, AloneOK, At
    <2>5. VectorOK'
      <3> SUFFICES ASSUME NEW u \in Urls, articles'[u].text # None, Embeddable(u)'
                   PROVE  Coming(u)' \/ VectorThere(u)'
        BY DEF VectorOK, StoredUrls, Stored
      <3>1. CASE u = v
        BY <2>1, <3>1 DEF Coming, Publishing
      <3>2. CASE u # v
        <4>1. (Coming(u) \/ VectorThere(u)) /\ articles'[u] = articles[u]
          BY <2>1, <3>2 DEF EnrichmentInv, VectorOK, StoredUrls, Stored, Embeddable, FannedOut
        <4>2. \A c \in Cleaners : Publishing(page[c]) => page'[c] = page[c]
          BY <2>1 DEF Persist, Publishing
        <4>3. Coming(u) => Coming(u)'
          BY <2>1, <4>1, <4>2 DEF Coming, Publishing
        <4>4. VectorThere(u) => VectorThere(u)'
          BY <2>1, <4>1 DEF VectorThere, At
        <4>5. QED
          BY <4>1, <4>3, <4>4
      <3>3. QED
        BY <3>1, <3>2
    <2>6. QED
      BY <2>3, <2>4, <2>5 DEF EnrichmentInv
  <1>2. CASE p.outcome \notin {"created", "updated"}
    <2>1. /\ page' = [page EXCEPT ![w].at = "ack"] /\ p.at = "persist"
          /\ UNCHANGED <<articles, versions, embed, encoding, deadRequests, cut, crossed>>
      BY <1>2 DEF Persist, streamVars, mishapVars, letterVars
    <2>2. page'[w].at = "ack" /\ \A c \in Cleaners \ {w} : page'[c] = page[c]
      <3>1. p \in PageType /\ page \in [Cleaners -> {None} \cup PageType]
        BY InHand DEF Persist, IInv, TypeOK
      <3>2. page'[w] = [p EXCEPT !.at = "ack"] /\ \A c \in Cleaners \ {w} : page'[c] = page[c]
        BY <2>1, <3>1
      <3>3. QED
        BY <3>1, <3>2 DEF PageType
    <2>3. \A c \in Cleaners : /\ Publishing(page[c]) => page'[c] = page[c]
                              /\ Publishing(page'[c]) => page'[c] = page[c]
      BY <2>1, <2>2 DEF Publishing
    <2>4. QED
      BY <2>1, <2>3, UndisturbedEmbedding
  <1>3. QED
    BY <1>1, <1>2

\* The request is published: from now on it is the message that makes the vector come.
LEMMA PublishEmbedEnriches ==
    ASSUME IInv, EnrichmentInv, NEW w \in Cleaners, PublishEmbed(w)
    PROVE  EnrichmentInv'
  <1> DEFINE p == page[w]
             v == p.msg.url
  <1>1. /\ p \in PageType /\ p # None /\ Publishing(p) /\ v \in Urls /\ p.base \in Nat
        /\ page \in [Cleaners -> {None} \cup PageType]
    BY InHand DEF PublishEmbed, Publishing, IInv, TypeOK
  <1>2. /\ embed' = embed \cup {Request(w)} /\ page' = [page EXCEPT ![w].at = "ack"]
        /\ UNCHANGED <<articles, versions, encoding, deadRequests, cut, crossed>>
    BY DEF PublishEmbed, mishapVars, letterVars
  <1>3. page'[w].at = "ack" /\ \A c \in Cleaners \ {w} : page'[c] = page[c]
    <2>1. page'[w] = [p EXCEPT !.at = "ack"] /\ \A c \in Cleaners \ {w} : page'[c] = page[c]
      BY <1>1, <1>2
    <2>2. QED
      BY <1>1, <2>1 DEF PageType
  <1>4. Request(w).url = v /\ Request(w).version = p.base + 1
    BY DEF Request
  <1>5. FreshOK'
    <2>1. \A m \in embed' : m.version <= articles[m.url].version
      BY <1>1, <1>2, <1>4 DEF EnrichmentInv, FreshOK
    <2>2. \A c \in Cleaners : Publishing(page'[c]) => page'[c] = page[c]
      BY <1>3 DEF Publishing
    <2>3. QED
      BY <1>2, <2>1, <2>2 DEF EnrichmentInv, FreshOK, Publishing
  <1>6. AloneOK'
    BY <1>2 DEF EnrichmentInv, AloneOK, At
  <1>7. VectorOK'
    <2> SUFFICES ASSUME NEW u \in Urls, articles[u].text # None, Embeddable(u)
                 PROVE  Coming(u)' \/ VectorThere(u)'
      BY <1>2 DEF VectorOK, StoredUrls, Stored, Embeddable, FannedOut
    <2>1. Coming(u) \/ VectorThere(u)
      BY DEF EnrichmentInv, VectorOK, StoredUrls, Stored
    <2>2. ASSUME NEW c \in Cleaners, Publishing(page[c]), page[c].msg.url = u,
                 page[c].base + 1 = articles[u].version
          PROVE  Coming(u)'
      <3>1. CASE c = w
        BY <1>2, <1>4, <2>2, <3>1 DEF Coming
      <3>2. CASE c # w
        BY <1>2, <1>3, <2>2, <3>2 DEF Coming, Publishing
      <3>3. QED
        BY <3>1, <3>2
    <2>3. ASSUME NEW m \in embed, m.url = u, m.version = articles[u].version
          PROVE  Coming(u)'
      BY <1>2, <2>3 DEF Coming
    <2>4. VectorThere(u) => VectorThere(u)'
      BY <1>2 DEF VectorThere, At
    <2>5. QED
      BY <2>1, <2>2, <2>3, <2>4 DEF Coming
  <1>8. QED
    BY <1>5, <1>6, <1>7 DEF EnrichmentInv

\* A request that is deferred or retried, or that an embedder leaves: it is replaced by
\* one of the same version, is a dead letter or is lost in the retry.
LEMMA RequestAgainEnriches ==
    ASSUME IInv, EnrichmentInv, NEW e \in Embedders,
           \/ EmbedderDies(e)
           \/ \E m \in embed : Defer(e, m) \/ DeferDies(e, m)
           \/ \E m \in Handled(e) : EmbedFails(e, m) \/ RequestLost(e, m)
    PROVE  EnrichmentInv'
  <1>1. /\ UNCHANGED <<articles, versions, page, crossed>>
        /\ encoding' = encoding \/ encoding' = [encoding EXCEPT ![e] = None]
        /\ cut \subseteq cut' /\ deadRequests \subseteq deadRequests'
    BY DEF EmbedderDies, Defer, DeferDies, EmbedFails, RequestLost, Die, Letters, workerVars,
           mishapVars, letterVars
  <1>2. \A f \in Embedders : encoding'[f] \in {None, encoding[f]}
    BY <1>1 DEF IInv, TypeOK
  <1>3. \A m \in embed \cup Handled(e) :
           m \in Requests /\ m.url \in Urls /\ m.version <= articles[m.url].version
    BY Requested DEF Handled, EnrichmentInv, FreshOK, EncodingOK
  <1> DEFINE Kin(n, m) == n.url = m.url /\ n.version = m.version
  <1>4. \A m \in Requests : Kin(Deferred(m), m) /\ Kin(Again(m), m)
    BY DeferredRequest, RetriedRequests
  <1> HIDE DEF Kin
  <1>5. \A m : Kin(m, m)
    BY DEF Kin
  <1>6. /\ \A n \in embed' : \E m \in embed \cup Handled(e) : Kin(n, m)
        /\ \A m \in embed : \/ \E n \in embed' : Kin(n, m)
                            \/ <<m.url, m.version>> \in cut'
                            \/ \E n \in deadRequests' : Kin(n, m)
    <2>1. CASE EmbedderDies(e)
      BY <1>5, <2>1 DEF EmbedderDies
    <2>2. ASSUME NEW m \in embed, Defer(e, m) \/ DeferDies(e, m)
          PROVE  /\ \A n \in embed' : \E o \in embed \cup Handled(e) : Kin(n, o)
                 /\ \A o \in embed : \E n \in embed' : Kin(n, o)
      <3>1. embed' = (embed \ {m}) \cup {Deferred(m)} \/ embed' = embed \cup {Deferred(m)}
        BY <2>2 DEF Defer, DeferDies
      <3>2. Kin(Deferred(m), m)
        BY <1>3, <1>4
      <3>3. QED
        BY <1>5, <3>1, <3>2
    <2>3. ASSUME NEW m \in Handled(e), EmbedFails(e, m)
          PROVE  /\ \A n \in embed' : \E o \in embed \cup Handled(e) : Kin(n, o)
                 /\ \A o \in embed : \/ \E n \in embed' : Kin(n, o)
                                     \/ \E n \in deadRequests' : Kin(n, o)
      <3>1. Kin(Again(m), m)
        BY <1>3, <1>4
      <3>2. embed' = Retried(embed, m) /\ deadRequests' = Letters(deadRequests, m)
        BY <2>3 DEF EmbedFails
      <3>3. CASE m.attempt < MaxAttempts
        <4>1. embed' = (embed \ {m}) \cup {Again(m)}
          BY <3>2, <3>3 DEF Retried
        <4>2. QED
          BY <1>5, <3>1, <4>1
      <3>4. CASE ~(m.attempt < MaxAttempts)
        <4>1. embed' = embed \ {m} /\ m \in deadRequests'
          BY <3>2, <3>4 DEF Retried, Letters
        <4>2. QED
          BY <1>5, <4>1
      <3>5. QED
        BY <3>3, <3>4
    <2>4. ASSUME NEW m \in Handled(e), RequestLost(e, m)
          PROVE  /\ \A n \in embed' : \E o \in embed \cup Handled(e) : Kin(n, o)
                 /\ \A o \in embed : \/ \E n \in embed' : Kin(n, o)
                                     \/ <<o.url, o.version>> \in cut'
      BY <1>5, <2>4 DEF RequestLost
    <2>5. QED
      BY <2>1, <2>2, <2>3, <2>4
  <1>7. \A n \in embed' : n.url \in Urls /\ n.version <= articles[n.url].version
    BY <1>3, <1>6 DEF Kin
  <1>8. \A m \in embed : \/ \E n \in embed' : n.url = m.url /\ n.version = m.version
                         \/ <<m.url, m.version>> \in cut'
                         \/ \E n \in deadRequests' : n.url = m.url /\ n.version = m.version
    BY <1>6 DEF Kin
  <1>9. QED
    BY <1>1, <1>2, <1>7, <1>8, Undisturbed DEF Publishing

\* An embedder reads the present text; one that comes to an article where another one
\* is makes it a crossed one.
LEMMA LoadEnriches ==
    ASSUME IInv, EnrichmentInv, NEW e \in Embedders, NEW m \in embed, LoadArticle(e, m)
    PROVE  EnrichmentInv'
  <1> DEFINE v == m.url
  <1>1. /\ encoding' = [encoding EXCEPT ![e] =
                          [msg |-> m, text |-> articles[v].text,
                           marked |-> articles[v].original # None, at |-> "encode"]]
        /\ crossed' = IF AtArticle(v) # {} THEN crossed \cup {v} ELSE crossed
        /\ encoding[e] = None
        /\ UNCHANGED <<articles, versions, page, embed, deadRequests, cut>>
    BY DEF LoadArticle, streamVars, letterVars
  <1>2. /\ encoding'[e].msg = m /\ encoding'[e].text = articles[v].text
        /\ encoding'[e].at = "encode"
        /\ \A f \in Embedders \ {e} : encoding'[f] = encoding[f]
    BY <1>1 DEF IInv, TypeOK
  <1>3. v \in Urls /\ Stored(v) /\ m.version <= articles[v].version
    BY Requested DEF EnrichmentInv, FreshOK
  <1>4. IsVersion(articles[v].text, versions[v])
    <2>1. /\ articles[v].version \in Nat /\ articles[v].version # 0
          /\ Len(versions[v]) = articles[v].version
          /\ articles[v].text = versions[v][articles[v].version]
      BY <1>3, InHand DEF IInv, HistoryOK, History, Stored
    <2>2. QED
      BY <2>1 DEF IsVersion
  <1>5. FreshOK'
    <2>1. EncodingOK(encoding'[e], articles[encoding'[e].msg.url], versions[encoding'[e].msg.url])
      BY <1>2, <1>3, <1>4 DEF EncodingOK
    <2>2. \A f \in Embedders : encoding'[f] # None =>
              EncodingOK(encoding'[f], articles[encoding'[f].msg.url],
                         versions[encoding'[f].msg.url])
      BY <1>2, <2>1 DEF EnrichmentInv, FreshOK
    <2>3. QED
      BY <1>1, <2>2 DEF EnrichmentInv, FreshOK, Publishing
  <1>6. AloneOK'
    <2> SUFFICES ASSUME NEW u \in Urls, u \notin crossed', NEW f \in Embedders, At(f, u)'
                 PROVE  /\ encoding'[f].at = "judge" => articles[u].vector = encoding'[f].text
                        /\ \A g \in Embedders : At(g, u)' => g = f
      BY <1>1 DEF AloneOK
    <2>1. u \notin crossed
      BY <1>1
    <2>2. CASE u = v
      <3>1. \A g \in Embedders : ~At(g, v)
        BY <1>1, <2>2 DEF AtArticle, At
      <3>2. \A g \in Embedders : At(g, u)' => g = e
        BY <1>2, <2>2, <3>1 DEF At
      <3>3. QED
        BY <1>2, <3>2
    <2>3. CASE u # v
      <3>1. \A g \in Embedders : At(g, u)' => g # e /\ At(g, u) /\ encoding'[g] = encoding[g]
        BY <1>2, <2>3 DEF At
      <3>2. QED
        BY <2>1, <3>1 DEF EnrichmentInv, AloneOK
    <2>4. QED
      BY <2>2, <2>3
  <1>7. VectorOK'
    <2> SUFFICES ASSUME NEW u \in Urls, articles[u].text # None, Embeddable(u)
                 PROVE  Coming(u)' \/ VectorThere(u)'
      BY <1>1 DEF VectorOK, StoredUrls, Stored, Embeddable, FannedOut
    <2>1. Coming(u) \/ VectorThere(u)
      BY DEF EnrichmentInv, VectorOK, StoredUrls, Stored
    <2>2. Coming(u) => Coming(u)'
      BY <1>1 DEF Coming, Publishing
    <2>3. VectorThere(u) => VectorThere(u)'
      <3> SUFFICES ASSUME VectorThere(u)
                   PROVE  VectorThere(u)'
        OBVIOUS
      <3>1. u \notin crossed' => u \notin crossed
        BY <1>1
      <3>2. \A f \in Embedders : At(f, u)' => \/ encoding'[f].text = articles[u].text
                                              \/ At(f, u) /\ encoding'[f] = encoding[f]
        BY <1>2 DEF At
      <3>3. QED
        BY <1>1, <3>1, <3>2 DEF VectorThere
    <2>4. QED
      BY <2>1, <2>2, <2>3
  <1>8. QED
    BY <1>5, <1>6, <1>7 DEF EnrichmentInv

\* The vector that is stored is that of a version; nobody else has an article that was
\* never crossed, and the vector is not replaced before the verdict on it.
LEMMA StoreEnriches ==
    ASSUME IInv, EnrichmentInv, NEW e \in Embedders, StoreVector(e)
    PROVE  EnrichmentInv'
  <1> DEFINE x == encoding[e]
             v == x.msg.url
  <1>1. /\ x \in EncodingType /\ x # None /\ x.at = "encode" /\ v \in Urls
        /\ x.text # None
        /\ encoding \in [Embedders -> {None} \cup EncodingType]
    BY InHand, ArticlesAssumption DEF StoreVector, IInv, TypeOK
  <1>2. /\ encoding' = [encoding EXCEPT ![e].at = "judge"]
        /\ UNCHANGED <<versions, embed, page, deadRequests, cut, crossed>>
    BY DEF StoreVector, streamVars, mishapVars, letterVars
  <1>3. /\ encoding'[e].at = "judge" /\ encoding'[e].msg = x.msg /\ encoding'[e].text = x.text
        /\ \A f \in Embedders \ {e} : encoding'[f] = encoding[f]
    <2>1. /\ encoding'[e] = [x EXCEPT !.at = "judge"]
          /\ \A f \in Embedders \ {e} : encoding'[f] = encoding[f]
      BY <1>1, <1>2
    <2>2. QED
      BY <1>1, <2>1 DEF EncodingType
  <1>4. /\ \A u \in Urls : /\ articles'[u].text = articles[u].text
                           /\ articles'[u].version = articles[u].version
        /\ articles'[v].vector = x.text
        /\ \A u \in Urls \ {v} : articles'[u] = articles[u]
    BY VectorKeeps
  <1>5. \A f \in Embedders, u \in Urls : At(f, u)' => At(f, u)
    BY <1>1, <1>3 DEF At
  <1>6. EncodingOK(x, articles[v], versions[v])
    BY <1>1 DEF EnrichmentInv, FreshOK
  <1>7. FreshOK'
    <2>1. \A m \in embed' : m.version <= articles'[m.url].version
      BY <1>2, <1>4, InHand DEF EnrichmentInv, FreshOK
    <2>2. \A w \in Cleaners : Publishing(page'[w]) =>
              page'[w].base + 1 <= articles'[page'[w].msg.url].version
      BY <1>2, <1>4, InHand DEF EnrichmentInv, FreshOK, Publishing
    <2>3. EncodingOK(encoding'[e], articles'[v], versions[v])
      BY <1>1, <1>3, <1>4, <1>6 DEF EncodingOK
    <2>4. ASSUME NEW f \in Embedders \ {e}, encoding[f] # None
          PROVE  EncodingOK(encoding[f], articles'[encoding[f].msg.url],
                            versions[encoding[f].msg.url])
      <3> DEFINE u == encoding[f].msg.url
      <3>1. u \in Urls /\ EncodingOK(encoding[f], articles[u], versions[u])
        BY <2>4, InHand DEF EnrichmentInv, FreshOK
      <3>2. articles[u].vector # None => articles'[u].vector # None
        BY <1>1, <1>4, <3>1
      <3>3. QED
        BY <1>4, <3>1, <3>2 DEF EncodingOK
    <2>5. \A u \in Urls : articles'[u].vector # None => IsVersion(articles'[u].vector, versions[u])
      BY <1>4, <1>6 DEF EncodingOK, EnrichmentInv, FreshOK
    <2>6. \A f \in Embedders : encoding'[f] # None =>
              EncodingOK(encoding'[f], articles'[encoding'[f].msg.url],
                         versions[encoding'[f].msg.url])
      BY <1>3, <2>3, <2>4
    <2>7. QED
      BY <1>2, <2>1, <2>2, <2>5, <2>6 DEF FreshOK, Publishing
  <1>8. AloneOK'
    <2> SUFFICES ASSUME NEW u \in Urls, u \notin crossed, NEW f \in Embedders, At(f, u)'
                 PROVE  /\ encoding'[f].at = "judge" => articles'[u].vector = encoding'[f].text
                        /\ \A g \in Embedders : At(g, u)' => g = f
      BY <1>2 DEF AloneOK
    <2>1. \A g \in Embedders : At(g, u) => g = f
      BY <1>5 DEF EnrichmentInv, AloneOK
    <2>2. CASE u = v
      <3>1. f = e
        BY <1>1, <2>1, <2>2 DEF At
      <3>2. QED
        BY <1>3, <1>4, <1>5, <2>1, <2>2, <3>1
    <2>3. CASE u # v
      <3>1. f # e
        BY <1>3, <2>3 DEF At
      <3>2. encoding'[f] = encoding[f] /\ articles'[u] = articles[u] /\ At(f, u)
        BY <1>3, <1>4, <1>5, <2>3, <3>1
      <3>3. QED
        BY <1>5, <2>1, <3>2 DEF EnrichmentInv, AloneOK
    <2>4. QED
      BY <2>2, <2>3
  <1>9. VectorOK'
    <2> SUFFICES ASSUME NEW u \in Urls, articles'[u].text # None, Embeddable(u)'
                 PROVE  Coming(u)' \/ VectorThere(u)'
      BY DEF VectorOK, StoredUrls, Stored
    <2>1. Coming(u) \/ VectorThere(u)
      BY <1>2, <1>4 DEF EnrichmentInv, VectorOK, StoredUrls, Stored, Embeddable, FannedOut
    <2>2. Coming(u) => Coming(u)'
      BY <1>2, <1>4 DEF Coming, Publishing
    <2>3. VectorThere(u) => VectorThere(u)'
      <3> SUFFICES ASSUME VectorThere(u)
                   PROVE  VectorThere(u)'
        OBVIOUS
      <3>1. articles'[u].vector # None
        BY <1>1, <1>4 DEF VectorThere
      <3>2. u \notin crossed => articles'[u].vector = articles'[u].text
        BY <1>1, <1>4 DEF VectorThere, At
      <3>3. \A f \in Embedders : At(f, u)' /\ encoding'[f].at = "encode" =>
               At(f, u) /\ encoding[f].at = "encode" /\ encoding'[f].text = encoding[f].text
        BY <1>3, <1>5
      <3>4. QED
        BY <1>2, <1>4, <3>1, <3>2, <3>3 DEF VectorThere
    <2>4. QED
      BY <2>1, <2>2, <2>3
  <1>10. QED
    BY <1>7, <1>8, <1>9 DEF EnrichmentInv

\* The request that is acknowledged was of the present version, whose vector is then
\* the stored one, or of an older version.
LEMMA JudgeEnriches ==
    ASSUME IInv, EnrichmentInv, NEW e \in Embedders, Judge(e)
    PROVE  EnrichmentInv'
  <1> DEFINE x == encoding[e]
             v == x.msg.url
  <1>1. x # None /\ x.at = "judge" /\ v \in Urls
    BY InHand DEF Judge
  <1>2. /\ embed' = embed \ {x.msg} /\ encoding' = [encoding EXCEPT ![e] = None]
        /\ UNCHANGED <<versions, page, deadRequests, cut, crossed>>
    BY DEF Judge, mishapVars, letterVars
  <1>3. encoding'[e] = None /\ \A f \in Embedders \ {e} : encoding'[f] = encoding[f]
    BY <1>2 DEF IInv, TypeOK
  <1>4. \A u \in Urls : /\ articles'[u].text = articles[u].text
                        /\ articles'[u].version = articles[u].version
                        /\ articles'[u].vector = articles[u].vector
    BY JudgeKeeps
  <1>5. \A f \in Embedders, u \in Urls : At(f, u)' => At(f, u) /\ encoding'[f] = encoding[f]
    BY <1>3 DEF At
  <1>6. FreshOK'
    <2>1. \A m \in embed' : m.version <= articles'[m.url].version
      BY <1>2, <1>4, InHand DEF EnrichmentInv, FreshOK
    <2>2. \A w \in Cleaners : Publishing(page'[w]) =>
              page'[w].base + 1 <= articles'[page'[w].msg.url].version
      BY <1>2, <1>4, InHand DEF EnrichmentInv, FreshOK, Publishing
    <2>3. ASSUME NEW f \in Embedders, encoding'[f] # None
          PROVE  EncodingOK(encoding'[f], articles'[encoding'[f].msg.url],
                            versions[encoding'[f].msg.url])
      <3> DEFINE u == encoding[f].msg.url
      <3>1. /\ encoding'[f] = encoding[f] /\ u \in Urls
            /\ EncodingOK(encoding[f], articles[u], versions[u])
        BY <1>3, <2>3, InHand DEF EnrichmentInv, FreshOK
      <3>2. QED
        BY <1>4, <3>1 DEF EncodingOK
    <2>4. \A u \in Urls : articles'[u].vector # None => IsVersion(articles'[u].vector, versions[u])
      BY <1>4 DEF EnrichmentInv, FreshOK
    <2>5. QED
      BY <1>2, <2>1, <2>2, <2>3, <2>4 DEF FreshOK, Publishing
  <1>7. AloneOK'
    BY <1>2, <1>4, <1>5 DEF EnrichmentInv, AloneOK
  <1>8. VectorOK'
    <2> SUFFICES ASSUME NEW u \in Urls, articles'[u].text # None, Embeddable(u)'
                 PROVE  Coming(u)' \/ VectorThere(u)'
      BY DEF VectorOK, StoredUrls, Stored
    <2>1. Coming(u) \/ VectorThere(u)
      BY <1>2, <1>4 DEF EnrichmentInv, VectorOK, StoredUrls, Stored, Embeddable, FannedOut
    <2>2. VectorThere(u) => VectorThere(u)'
      BY <1>2, <1>4, <1>5 DEF VectorThere
    <2>3. ASSUME NEW w \in Cleaners, Publishing(page[w]), page[w].msg.url = u,
                 page[w].base + 1 = articles[u].version
          PROVE  Coming(u)'
      BY <1>2, <1>4, <2>3 DEF Coming, Publishing
    <2>4. ASSUME NEW m \in embed, m.url = u, m.version = articles[u].version
          PROVE  Coming(u)' \/ VectorThere(u)
      <3>1. CASE m = x.msg
        <4>1. EncodingOK(x, articles[u], versions[u]) /\ At(e, u)
          BY <1>1, <2>4, <3>1 DEF EnrichmentInv, FreshOK, At
        <4>2. x.text = articles[u].text /\ articles[u].vector # None
          BY <1>1, <2>4, <3>1, <4>1 DEF EncodingOK
        <4>3. u \notin crossed => /\ articles[u].vector = x.text
                                  /\ \A f \in Embedders : At(f, u) => f = e
          BY <1>1, <4>1 DEF EnrichmentInv, AloneOK
        <4>4. QED
          BY <1>1, <4>2, <4>3 DEF VectorThere
      <3>2. CASE m # x.msg
        BY <1>2, <1>4, <2>4, <3>2 DEF Coming
      <3>3. QED
        BY <3>1, <3>2
    <2>5. QED
      BY <2>1, <2>2, <2>3, <2>4 DEF Coming
  <1>9. QED
    BY <1>6, <1>7, <1>8 DEF EnrichmentInv

\* A cleaner that has committed nothing, or whose version is known as cut afterwards.
LEMMA CleanerEnriches ==
    ASSUME IInv, EnrichmentInv, NEW w \in Cleaners,
           \/ \E m \in cleaning : ReadPage(w, m)
           \/ PersistFails(w) \/ FanOutFails(w) \/ AckPage(w) \/ CleanerDies(w) \/ PageLost(w)
    PROVE  EnrichmentInv'
  <1>1. /\ UNCHANGED <<embed, encoding, articles, versions, deadRequests, crossed>>
        /\ cut \subseteq cut'
    BY DEF ReadPage, PersistFails, FanOutFails, RetryPage, AckPage, CleanerDies, PageLost, Die,
           streamVars, mishapVars, letterVars
  <1>2. \A c \in Cleaners \ {w} : page'[c] = page[c]
    BY DEF ReadPage, PersistFails, FanOutFails, RetryPage, AckPage, CleanerDies, PageLost, Die,
           IInv, TypeOK
  <1>3. page'[w] = None \/ page'[w].at = "persist"
    BY DEF ReadPage, PersistFails, FanOutFails, RetryPage, AckPage, CleanerDies, PageLost, Die,
           IInv, TypeOK
  <1>4. Publishing(page[w]) => <<page[w].msg.url, page[w].base + 1>> \in cut'
    <2>1. CASE (\E m \in cleaning : ReadPage(w, m)) \/ PersistFails(w) \/ AckPage(w)
      BY <2>1 DEF ReadPage, PersistFails, AckPage, Publishing
    <2>2. CASE FanOutFails(w) \/ CleanerDies(w) \/ PageLost(w)
      BY <2>2 DEF FanOutFails, CleanerDies, PageLost, Unpublished, Publishing
    <2>3. QED
      BY <2>1, <2>2
  <1>5. \A c \in Cleaners : /\ Publishing(page'[c]) => page'[c] = page[c]
                            /\ Publishing(page[c]) => \/ page'[c] = page[c]
                                                      \/ <<page[c].msg.url, page[c].base + 1>> \in cut'
    BY <1>2, <1>3, <1>4 DEF Publishing
  <1>6. QED
    BY <1>1, <1>5, UndisturbedEmbedding

LEMMA NextEnrichment ==
    ASSUME IInv, EnrichmentInv, [Next]_vars
    PROVE  EnrichmentInv'
  <1>1. ASSUME NEW w \in Cleaners, Clean(w)
        PROVE  EnrichmentInv'
    <2>1. ASSUME PublishLlm(w)
          PROVE  EnrichmentInv'
      <3>1. /\ UNCHANGED <<embed, encoding, articles, versions, deadRequests, cut, crossed>>
            /\ page' = [page EXCEPT ![w].at = "embed"] /\ Publishing(page[w])
            /\ page[w] \in PageType /\ page \in [Cleaners -> {None} \cup PageType]
        BY <2>1, InHand DEF PublishLlm, Publishing, mishapVars, letterVars, IInv, TypeOK
      <3>2. /\ page'[w] = [page[w] EXCEPT !.at = "embed"]
            /\ \A c \in Cleaners \ {w} : page'[c] = page[c]
        BY <3>1
      <3>3. /\ page'[w] \in PageType /\ page'[w].at = "embed"
            /\ page'[w].msg = page[w].msg /\ page'[w].base = page[w].base
        BY <3>1, <3>2 DEF PageType
      <3>4. Publishing(page'[w])
        BY <3>3, NoneAssumption DEF Publishing
      <3>5. QED
        BY <3>1, <3>2, <3>3, <3>4, UndisturbedEmbedding
    <2>2. QED
      BY <1>1, <2>1, CleanerEnriches, PersistEnriches, PublishEmbedEnriches DEF Clean
  <1>2. ASSUME NEW e \in Embedders, Embed(e)
        PROVE  EnrichmentInv'
    BY <1>2, RequestAgainEnriches, LoadEnriches, StoreEnriches, JudgeEnriches DEF Embed
  <1>3. ASSUME NEW a \in Analysts, Analyze(a)
        PROVE  EnrichmentInv'
    <2>1. UNCHANGED <<embed, encoding, page, versions, deadRequests, cut, crossed>>
      BY <1>3 DEF Analyze, Skip, Analyse, ApplyAnalysis, streamVars, workerVars, mishapVars,
                  letterVars
    <2>2. \A u \in Urls : /\ articles'[u].text = articles[u].text
                          /\ articles'[u].version = articles[u].version
                          /\ articles'[u].vector = articles[u].vector
      <3>1. articles' = articles \/ ApplyAnalysis(a)
        BY <1>3 DEF Analyze, Skip, Analyse
      <3>2. QED
        BY <3>1, AppliedAnalysis
    <2>3. QED
      BY <2>1, <2>2, UndisturbedEmbedding
  <1>4. ASSUME \/ \E u \in Urls, text \in Texts : Fetch(u, text)
               \/ \E a \in Analysts : AnalystDies(a)
               \/ UNCHANGED vars
        PROVE  EnrichmentInv'
    <2>1. UNCHANGED <<embed, encoding, articles, versions, page, deadRequests, cut, crossed>>
      BY <1>4 DEF Fetch, AnalystDies, Die, streamVars, workerVars, mishapVars, letterVars, vars
    <2>2. QED
      BY <2>1, UndisturbedEmbedding
  <1>5. QED
    BY <1>1, <1>2, <1>3, <1>4, CleanerEnriches, RequestAgainEnriches DEF Next, Deaths

-----------------------------------------------------------------------------
(* The invariant, and what follows from it.                                *)

LEMMA NextIInv == IInv /\ [Next]_vars => IInv'
  <1> SUFFICES ASSUME IInv, [Next]_vars
               PROVE  IInv'
    OBVIOUS
  <1>1. ASSUME NEW w \in Cleaners, Clean(w)
        PROVE  IInv'
    <2>1. ASSUME Persist(w)
          PROVE  IInv'
      BY <2>1, WriteVersionIInv, PersistNothingIInv
    <2>2. QED
      BY <1>1, <2>1, ReadPageIInv, PageDoneIInv, PublishIInv DEF Clean
  <1>2. ASSUME NEW e \in Embedders, Embed(e)
        PROVE  IInv'
    BY <1>2, DeferIInv, LoadArticleIInv, StoreVectorIInv, JudgeIInv, EmbedderLeavesIInv
       DEF Embed
  <1>3. ASSUME NEW a \in Analysts, Analyze(a)
        PROVE  IInv'
    BY <1>3, SkipIInv, AnalyseIInv, ApplyAnalysisIInv DEF Analyze
  <1>4. CASE UNCHANGED vars
    <2>1. TypeOK' /\ PagesOK'
      BY <1>4 DEF IInv, TypeOK, PagesOK, vars, mishapVars, letterVars
    <2>2. UNCHANGED <<articles, versions, llm, embed, encoding>>
      BY <1>4 DEF vars
    <2>3. QED
      BY <2>1, <2>2, Requested, Steady
  <1>5. QED
    BY <1>1, <1>2, <1>3, <1>4, FetchIInv, DeathsIInv DEF Next

LEMMA Invariance == Spec => []IInv
  BY InitIInv, NextIInv, PTL DEF Spec

\* Type correctness; in particular no article is ever marked as its own duplicate.
THEOREM TypeCorrect == Spec => []TypeOK
  <1>1. IInv => TypeOK
    BY DEF IInv
  <1>2. QED
    BY <1>1, Invariance, PTL

\* The snapshots of every article are its history, however cleaners overlap and die:
\* the unique keys of the two tables are enough to order them.
THEOREM HistoryIsKept == Spec => []VersionsAreHistory
  <1>1. IInv => VersionsAreHistory
    BY DEF IInv, HistoryOK, History, VersionsAreHistory, Stored
  <1>2. QED
    BY <1>1, Invariance, PTL

\* A page leaves the cleaning stream with its text among the versions or found to be a
\* duplicate, with its next attempt or, after the last one, as a dead letter, or in a
\* retry that the worker did not survive.
THEOREM NothingAckedIsLost == Spec => AckedIsKept
  <1> DEFINE Step == \A m \in cleaning \ cleaning' :
                        \/ \E i \in 1 .. Len(versions[m.url]) : versions[m.url][i] = m.text
                        \/ \E w \in Cleaners : page[w] # None /\ page[w].msg = m
                                               /\ page[w].outcome = "duplicate"
                        \/ m.attempt < MaxAttempts /\ Again(m) \in cleaning'
                        \/ m.attempt = MaxAttempts /\ m \in deadPages'
                        \/ m \in lost'
  <1>1. IInv /\ [Next]_vars => [Step]_vars
    <2> SUFFICES ASSUME IInv, Next, NEW m \in cleaning, m \notin cleaning'
                 PROVE  \/ Kept(m, versions)
                        \/ \E w \in Cleaners : page[w] # None /\ page[w].msg = m
                                               /\ page[w].outcome = "duplicate"
                        \/ m.attempt < MaxAttempts /\ Again(m) \in cleaning'
                        \/ m.attempt = MaxAttempts /\ m \in deadPages'
                        \/ m \in lost'
      BY DEF Kept
    <2>1. PICK w \in Cleaners : AckPage(w) \/ PersistFails(w) \/ FanOutFails(w) \/ PageLost(w)
      BY DEF Next, Fetch, Clean, ReadPage, Persist, PublishLlm, PublishEmbed, Embed, Defer,
             LoadArticle, StoreVector, Judge, EmbedFails, Analyze, Skip, Analyse,
             ApplyAnalysis, Deaths, CleanerDies, EmbedderDies, DeferDies, RequestLost,
             AnalystDies, streamVars
    <2>2. CASE AckPage(w)
      <3>1. page[w] # None /\ page[w].msg = m /\ page[w].at = "ack" /\ PageOK(page[w], versions)
        BY <2>2 DEF AckPage, IInv, PagesOK
      <3>2. page[w].outcome \in Outcomes
        BY <3>1 DEF IInv, TypeOK, PageType
      <3>3. QED
        BY <3>1, <3>2 DEF PageOK, Outcomes
    <2>3. CASE PersistFails(w) \/ FanOutFails(w)
      <3>1. /\ cleaning' = Retried(cleaning, page[w].msg)
            /\ deadPages' = Letters(deadPages, page[w].msg)
        BY <2>3 DEF PersistFails, FanOutFails, RetryPage
      <3>2. page[w].msg = m /\ m.attempt \in 1 .. MaxAttempts
        BY <3>1 DEF Retried, IInv, TypeOK, Pages
      <3>3. CASE m.attempt < MaxAttempts
        BY <3>1, <3>2, <3>3 DEF Retried
      <3>4. CASE ~(m.attempt < MaxAttempts)
        <4>1. m \in deadPages'
          BY <3>1, <3>2, <3>4 DEF Letters
        <4>2. m.attempt = MaxAttempts
          BY <3>2, <3>4, ArticlesAssumption
        <4>3. QED
          BY <4>1, <4>2
      <3>5. QED
        BY <3>3, <3>4
    <2>4. CASE PageLost(w)
      BY <2>4 DEF PageLost
    <2>5. QED
      BY <2>1, <2>2, <2>3, <2>4
  <1>2. Spec => [][Step]_vars
    BY <1>1, Invariance, PTL DEF Spec
  <1>3. QED
    BY <1>2 DEF AckedIsKept

\* For any number of workers: when nothing is on its way to an article any more, it has
\* been analysed unless its present version was cut off from the fan-out, and unless its
\* request was, too, lost or is a dead letter it has the vector of one of its versions,
\* that of the present one when no two embedders were at it at once.
THEOREM EnrichedInTheEnd == Spec => []Enriched
  <1>1. Init => AnalysisOK /\ EnrichmentInv
    <2> SUFFICES ASSUME Init
                 PROVE  AnalysisOK /\ EnrichmentInv
      OBVIOUS
    <2>1. \A u \in Urls : articles[u].text = None /\ articles[u].vector = None
      BY DEF Init, NoArticle
    <2>2. /\ embed = {} /\ \A w \in Cleaners : page[w] = None
          /\ \A e \in Embedders : encoding[e] = None
      BY DEF Init
    <2>3. QED
      BY <2>1, <2>2 DEF AnalysisOK, EnrichmentInv, FreshOK, AloneOK, At, VectorOK, StoredUrls,
                        Stored, Publishing
  <1>2. IInv /\ AnalysisOK /\ EnrichmentInv /\ [Next]_vars => (AnalysisOK /\ EnrichmentInv)'
    BY NextAnalysis, NextEnrichment
  <1>3. AnalysisOK /\ EnrichmentInv => Enriched
    <2> SUFFICES ASSUME AnalysisOK, EnrichmentInv, NEW u \in StoredUrls, Quiet(u)
                 PROVE  /\ FannedOut(u) => articles[u].analysed
                        /\ Embeddable(u) =>
                             /\ \E i \in 1 .. Len(versions[u]) : versions[u][i] = articles[u].vector
                             /\ u \notin crossed => articles[u].vector = articles[u].text
      BY DEF Enriched
    <2>1. FannedOut(u) => articles[u].analysed
      BY DEF AnalysisOK, AnalysisComes, Quiet
    <2>2. ASSUME Embeddable(u)
          PROVE  VectorThere(u)
      BY <2>2 DEF EnrichmentInv, VectorOK, Coming, Publishing, Quiet
    <2>3. articles[u].vector # None => IsVersion(articles[u].vector, versions[u])
      BY DEF EnrichmentInv, FreshOK, StoredUrls
    <2>4. QED
      BY <2>1, <2>2, <2>3 DEF VectorThere, IsVersion
  <1>4. QED
    BY <1>1, <1>2, <1>3, Invariance, PTL DEF Spec
=============================================================================
