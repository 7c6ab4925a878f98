-------------------------- MODULE MCConsumerGroup --------------------------
(* ConsumerGroup on small instances.                                       *)
EXTENDS ConsumerGroup

CONSTANTS m1, m2, m3

(* Two incumbents that agree, and a newcomer only the first can join with. *)
Pair == <<m1, m2>>
Offers == (m1 :> {"range", "sticky"}) @@ (m2 :> {"range"}) @@ (m3 :> {"sticky"})

Symmetric == Permutations(Task)
=============================================================================
