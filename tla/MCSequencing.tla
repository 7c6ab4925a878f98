----------------------------- MODULE MCSequencing -----------------------------
(* The write path: sequencing on two small instances, and beside it, with  *)
(* no state in common, the produce path, the bytes of a bundle and those   *)
(* of a record batch.                                                      *)
EXTENDS Sequencing, Produce, BundleFormat, RecordBatch

CONSTANTS
    Parts,          \* the components to check
    q1, p1, p2, p3  \* a partition of Sequencing; the partitions of Produce

VARIABLE part

(* Two topics of one domain and one of a customer's.                       *)
MCDomains == p1 :> "plain" @@ p2 :> "plain" @@ p3 :> "customer"
Sends(p, defects) == [part |-> p, defects |-> defects]
Asking(acks, known, authorized, entries) ==
    [acks |-> acks, known |-> known, authorized |-> authorized, entries |-> entries]
MCRequests == {
    Asking("all", TRUE, TRUE, <<Sends(p1, {}), Sends(p3, {}), Sends(p1, {}), Sends(p2, {})>>),
    Asking("none", TRUE, TRUE, <<Sends(p1, {}), Sends(p2, {"crc", "count"})>>),
    Asking("leader", TRUE, TRUE, <<Sends(p3, {}), Sends("absent", {}), Sends(p2, {})>>),
    Asking("many", TRUE, TRUE, <<Sends(p2, {})>>),
    Asking("all", FALSE, TRUE, <<Sends(p2, {})>>),
    Asking("all", TRUE, FALSE, <<Sends(p2, {})>>) }

(* Clients number records: one partition's batches hold one each, of the   *)
(* other's every second holds two.                                         *)
MCFirst == [k \in Producer \X Partition |-> [e \in 0 .. MaxEpoch |->
              [b \in 0 .. MaxBatch |-> IF k[2] = q1 THEN b ELSE b + b \div 2]]]

MCTopics == {<<1>>, <<1, 2>>}
MCKey == <<2>>

(* Null, empty and one-byte values; and what a cell may become.            *)
MCValues == {-1, 0, 1}
MCCells == -2 .. 8

mcVars == <<part, vars, produceVars, bundleVars, batchVars>>

(* What a component may start from is tried in its own behaviours only.    *)
MCInit ==
    /\ part \in Parts
    /\ Init /\ ProduceInit /\ BundleInit /\ BatchInit
    /\ part # "bundles" => build.by = "put"
    /\ part # "batches" => sealed = [values |-> <<>>, producer |-> -1]

(* One line through the wrap, a new epoch, failovers and a late append;    *)
(* and two lines of batches of two sizes with room to track one.           *)
MCNext ==
    /\ UNCHANGED part
    /\ \/ part = "line" /\ NextOver({q1}, {1}) /\ UNCHANGED <<produceVars, bundleVars, batchVars>>
       \/ /\ part = "lines" /\ Next /\ late' = {} /\ UNCHANGED epoch
          /\ UNCHANGED <<produceVars, bundleVars, batchVars>>
       \/ part = "produce" /\ ProduceNext /\ UNCHANGED <<vars, bundleVars, batchVars>>
       \/ part = "bundles" /\ BundleNext /\ UNCHANGED <<vars, produceVars, batchVars>>
       \/ part = "batches" /\ BatchNext /\ UNCHANGED <<vars, produceVars, bundleVars>>

MCSpec == MCInit /\ [][MCNext]_mcVars
=============================================================================
