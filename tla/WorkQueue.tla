----------------------------- MODULE WorkQueue -----------------------------
(***************************************************************************)
(* What coordination/queues.py and docs/architecture.md promise of a       *)
(* processing stream: a published message stays open until it is settled   *)
(* (processed or rejected by its worker) or buried in the dead-letter      *)
(* stream, and a buried message can be opened again.  Nothing here knows   *)
(* of entries, attempts, pending lists or workers.                         *)
(***************************************************************************)
CONSTANT Payloads
VARIABLE where   \* where each message is

Places == {"new", "open", "settled", "buried"}

Move(p, from, to) == where[p] = from /\ where' = [where EXCEPT ![p] = to]

Init == where = [p \in Payloads |-> "new"]

Publish(p) == Move(p, "new", "open")
Settle(p)  == Move(p, "open", "settled")
Replay(p)  == Move(p, "buried", "open")

\* A worker that ends may hold the last stale copies of several messages.
Bury(ps) ==
    /\ \A p \in ps : where[p] = "open"
    /\ where' = [p \in Payloads |-> IF p \in ps THEN "buried" ELSE where[p]]

Next ==
    \/ \E p \in Payloads : Publish(p) \/ Settle(p) \/ Replay(p)
    \/ \E ps \in SUBSET Payloads : Bury(ps)

Spec == Init /\ [][Next]_where

\* ... and it does not stay open for ever.
Finish(p) == Settle(p) \/ \E ps \in SUBSET Payloads : p \in ps /\ Bury(ps)
FairSpec == Spec /\ \A p \in Payloads : WF_where(Finish(p))
=============================================================================
