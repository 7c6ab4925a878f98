----------------------------- MODULE DurableLog -----------------------------
(***************************************************************************)
(* What the coordinator's metadata log promises a producer                 *)
(* (oqueue-core/src/metadata_log.rs, oqueue-coordinator/src/serve.rs): one *)
(* sequence of commits that only grows at its end, and acknowledgements    *)
(* that name the place a commit has in it.                                 *)
(***************************************************************************)
EXTENDS Naturals, Sequences

CONSTANT Commit   \* what producers ask to commit

VARIABLES log,    \* the durable line of commits
          acked   \* acked[c]: the place acknowledged for commit c, 0 for none

vars == <<log, acked>>

Init == log = <<>> /\ acked = [c \in Commit |-> 0]

Append1(c) == log' = Append(log, c) /\ UNCHANGED acked

Ack(c, i) == /\ i \in DOMAIN log /\ log[i] = c
             /\ acked' = [acked EXCEPT ![c] = i]
             /\ UNCHANGED log

Next == \E c \in Commit : Append1(c) \/ \E i \in DOMAIN log : Ack(c, i)

Spec == Init /\ [][Next]_vars
=============================================================================
