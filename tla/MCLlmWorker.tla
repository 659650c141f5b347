------------------------------ MODULE MCLlmWorker ------------------------------
(* Small instances of LlmWorker for TLC.                                     *)
EXTENDS LlmWorker

CONSTANTS w1, w2, a1, a2, e1, e2

MCWorkers == {w1, w2}
MCArticles == {a1, a2}
MCEntities == {e1, e2}
\* Two answers about one article may differ, two articles may name one entity.
MCAnswers == {{e1}, {e2}}
MCSummarized == {a2}
\* The primary is named among the fallbacks again.
MCFallbacks == <<"gemini", "ollama">>
MCKeys == {{"gemini", "ollama"}, {"ollama", "deepseek"}}
=============================================================================
