----------------------------- MODULE MCFrontier -----------------------------
(* Small instances of Frontier for TLC.                                      *)
EXTENDS Frontier, TLC

CONSTANTS w1, w2, hub, art

MCUrls == {hub, art}
MCWorkers == {w1, w2}
MCPriority == [u \in MCUrls |-> IF u = art THEN 2 ELSE 1]
MCRecrawl == [u \in MCUrls |-> IF u = hub THEN 1 ELSE 2]
MCScopes == {MCUrls}
MCEntrySets == {{hub}}
MCDelays == {1}
Symmetric == Permutations(MCWorkers)

\* One URL, for the overlap of outcome transactions.
OneUrl == {art}
OnePriority == [u \in OneUrl |-> 1]
OneRecrawl == [u \in OneUrl |-> 1]
OneScope == {OneUrl}
=============================================================================
