--------------------------- MODULE EventDelivery ---------------------------
(***************************************************************************)
(* What the event transport promises to a consumer group, with no cursors, *)
(* batches or consumers: every entry waits until somebody takes it, is     *)
(* then being processed, and ends processed or lost.  Nothing is taken     *)
(* twice and nothing that was lost comes back: delivery is at most once.   *)
(***************************************************************************)
EXTENDS Naturals

CONSTANTS Group, Entry

VARIABLE fate      \* what has become of each entry, for each group

Init == fate = [g \in Group |-> [e \in Entry |-> "waiting"]]

Move(g, es, from, to) ==
    /\ es # {} /\ \A e \in es : fate[g][e] = from
    /\ fate' = [fate EXCEPT ![g] = [e \in Entry |-> IF e \in es THEN to ELSE @[e]]]

Take(g, es)  == Move(g, es, "waiting", "taken")
Drop(g, es)  == Move(g, es, "waiting", "lost")
Finish(g, e) == Move(g, {e}, "taken", "done")
Lose(g, es)  == Move(g, es, "taken", "lost")

Next == \E g \in Group :
           \/ \E es \in SUBSET Entry : Take(g, es) \/ Drop(g, es) \/ Lose(g, es)
           \/ \E e \in Entry : Finish(g, e)

Spec == Init /\ [][Next]_fate
=============================================================================
