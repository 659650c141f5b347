----------------------------- MODULE MCCrawlPass -----------------------------
(* Small instances of CrawlPass for TLC.                                     *)
EXTENDS CrawlPass

CONSTANTS w1, w2, index, news, old

MCWorkers == {w1, w2}
MCUrls == {index, news, old}
MCSeeds == {index}
MCDisallowed == {news}
MCType == [u \in MCUrls |-> CASE u = index -> "sitemap index"
                             [] u = news  -> "article"
                             [] u = old   -> "sitemap"]
\* Once the index is fetched its two links are due, and the workers take one each.
MCLinks == [u \in MCUrls |-> IF u = index THEN <<news, old>> ELSE <<>>]
\* The second worker's clock is one tick ahead.
MCAhead == [w \in MCWorkers |-> IF w = w2 THEN 1 ELSE 0]
MCMaxPages == [w \in MCWorkers |-> IF w = w1 THEN 2 ELSE 1]
=============================================================================
