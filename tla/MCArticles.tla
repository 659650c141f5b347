------------------------------ MODULE MCArticles ------------------------------
(* Small instances of Articles for TLC.                                      *)
EXTENDS Articles, TLC

CONSTANTS u1, u2, t1, t2, cl1, cl2, em, em2, an

MCUrls == {u1, u2}
\* Two texts in each other's gray zone that tell the same story; a text is near
\* only itself.
TwoTexts == {t1, t2}
TwoNear == {<<t1, t1>>, <<t2, t2>>}
TwoGray == {<<t1, t2>>, <<t2, t1>>}
TwoSimilar == TwoTexts \X TwoTexts
MCSummarized == {t2}
\* Every request is deferred once, and then handled as the others are.
MCEnglish == MCUrls
MCCleaners == {cl1, cl2}
OneCleaner == {cl1}
MCEmbedders == {em}
TwoEmbedders == {em, em2}
MCAnalysts == {an}
Symmetric == Permutations(MCUrls) \cup Permutations(MCCleaners) \cup Permutations(TwoEmbedders)
=============================================================================
