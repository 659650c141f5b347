--------------------------- MODULE MCStreamQueue ---------------------------
(* Small instances of StreamQueue for TLC.                                   *)
EXTENDS StreamQueue, TLC

CONSTANTS c1, c2, good, bad

OneMessage == {good}
TwoMessages == {good, bad}
MCConsumers == {c1, c2}
NoMessage == {}
BadMessage == {bad}
Symmetric == Permutations(MCConsumers)
=============================================================================
