---------------------------- MODULE MCCrawlJobs ----------------------------
(* Small instances of CrawlJobs for TLC.                                     *)
EXTENDS CrawlJobs, TLC

CONSTANTS j1, j2, s1, s2, client1, client2, jw1, jw2, lw

OneJob == {j1}
TwoJobs == {j1, j2}
OneSource == {s1}
TwoSources == {s1, s2}
OneSourceOf == [j \in OneJob |-> s1]
TwoSourcesOf == [j \in TwoJobs |-> IF j = j1 THEN s1 ELSE s2]
OneClient == {client1}
TwoClients == {client1, client2}
OneJobWorker == {jw1}
TwoJobWorkers == {jw1, jw2}
OneLoopWorker == {lw}
NoLoopWorker == {}
NoJobWorker == {}
MCSlices == {0, 2}
Symmetric == Permutations(TwoClients) \cup Permutations(TwoJobWorkers)
=============================================================================
