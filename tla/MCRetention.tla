------------------------------ MODULE MCRetention ------------------------------
(* Small instances of Retention for TLC.                                     *)
EXTENDS Retention

CONSTANTS a1, a2, en, bn

MCArticles == {a1, a2}
MCLanguages == {en, bn}
MCLanguageOf == [a \in MCArticles |-> IF a = a1 THEN en ELSE bn]
MCTables == <<"article_embeddings", "article_versions">>
=============================================================================
