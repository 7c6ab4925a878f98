----------------------------- MODULE MCFetchPark -----------------------------
(* The fetch that parks on the coordinator's index, and beside it what one *)
(* fetch reads, what a session may be served from a cache, and the readers *)
(* of one chunk. They share no state; each behaviour is of one of them.    *)
EXTENDS FetchPark, FetchRead, Consumer, ChunkReads

CONSTANT Parts   \* the components to check

VARIABLE focus

mcVars == <<focus, vars, fetchReadVars, consVars, chunkVars>>

(* Bundles larger than, as large as and smaller than the budget, shared by *)
(* partitions or not, known by range (tail) or only by name (history).     *)
B(o, n, t) == BatchOf(o, n, t)
MCSizeOf == [o1 |-> 4, o2 |-> 4, o3 |-> 1]
MCLayouts == {
    [p |-> [start |-> 0, log |-> <<B("o1", 1, "tail")>>],
     q |-> [start |-> 0, log |-> <<B("o1", 1, "tail"), B("o2", 2, "tail")>>],
     r |-> [start |-> 0, log |-> <<B("o3", 1, "tail")>>]],
    [p |-> [start |-> 0, log |-> <<B("o1", 1, "history"), B("o2", 1, "history"), B("o3", 1, "tail")>>],
     q |-> [start |-> 1, log |-> <<B("o1", 1, "history"), B("o2", 1, "history")>>],
     r |-> [start |-> 0, log |-> <<>>]]}

(* The requests: a budget smaller than a batch, two asks of one partition, *)
(* asks that are refused, and an ask behind two that fail.                 *)
Ask(p, n, f) == [part |-> p, max |-> n, from |-> f, authorized |-> TRUE]
MCFetches == {
    [max |-> 1, min |-> 1, entries |-> <<Ask("p", 1, 0), Ask("q", 2, 0), Ask("r", 1, 0)>>],
    [max |-> 5, min |-> 4, entries |-> <<Ask("r", 5, 0), Ask("p", 2, 0), Ask("p", 2, 1)>>],
    [max |-> 3, min |-> 3, entries |-> <<Ask("q", 3, 1), Ask("x", 3, 0),
                                         [Ask("p", 3, 0) EXCEPT !.authorized = FALSE],
                                         Ask("p", 3, 3)>>],
    [max |-> 3, min |-> 3, entries |-> <<Ask("p", 3, 1), Ask("r", 3, 0), Ask("p", 3, 1)>>]}

(* Batches of three ranges, overlapping, adjacent, apart and past the end. *)
Spans == {<<s, s + n>> : s \in 0 .. 4, n \in 1 .. 4}
MCBatches == {<<<<1, a[1], a[2]>>, <<2, b[1], b[2]>>, <<3, c[1], c[2]>>>> :
                 a \in Spans, b \in Spans, c \in {<<0, 3>>, <<5, 6>>}}

(* What a component may start from is tried in its own behaviours only.    *)
MCInit ==
    /\ focus \in Parts
    /\ FetchParkInit /\ FetchReadInit /\ ConsInit /\ ChunkInit
    /\ focus # "park" => /\ line = <<>> /\ leads
                         /\ part = CHOOSE p \in Partition : TRUE
                         /\ target = CHOOSE n \in Targets : TRUE
    /\ focus # "read" => batches = CHOOSE l \in FetchLayouts : TRUE

(* The index is emptied, if it is, before the fetch takes its samples: a   *)
(* version folded again after that does not wake a fetch that sampled it   *)
(* before, and only its deadline ends it.                                  *)
Parking(action) ==
    /\ focus = "park" /\ action
    /\ Clearing' \/ ~(index \subseteq index') => rpc' \in {"off", "catchup", "waitfor"}
    /\ UNCHANGED <<focus, fetchReadVars, consVars, chunkVars>>

MCNext ==
    \/ Parking(Next)
    \/ focus = "read" /\ FetchReadNext /\ UNCHANGED <<focus, vars, consVars, chunkVars>>
    \/ focus = "consumer" /\ ConsNext /\ UNCHANGED <<focus, vars, fetchReadVars, chunkVars>>
    \/ focus = "chunk" /\ ReadNext /\ UNCHANGED <<focus, vars, fetchReadVars, consVars>>
    \/ focus = "many" /\ ManyNext /\ UNCHANGED <<focus, vars, fetchReadVars, consVars>>

MCSpec == MCInit /\ [][MCNext]_mcVars

(* FairSpec's fairness: the loop's own steps and the handler's.            *)
MCFairSpec ==
    /\ MCSpec
    /\ WF_mcVars(Parking(Serving /\ UNCHANGED fetchVars))
    /\ WF_mcVars(Parking(Handling /\ UNCHANGED loopVars))
=============================================================================
