----------------------------- MODULE MCFollower -----------------------------
(* The retention follower on the coordinator's delta stream, and beside it *)
(* compaction against the same index, the topic catalog, and the group log *)
(* with what is folded from it. They share no state here; each behaviour   *)
(* is of one of them.                                                      *)
EXTENDS Follower, Compaction, Catalog, GroupLog, TLC

CONSTANT Components   \* the components to check

VARIABLE focus

Symmetric == Permutations(Partition)
CommittersSymmetric == Permutations(Committer)

(* What tells states apart where no property asks what was refused.        *)
ButRefused == <<focus, vars, compactionVars, catalogVars,
                glog, nextSeq, offsets, record, replay, ready, write, answered, errs, boots>>

mcVars == <<focus, vars, compactionVars, catalogVars, groupLogVars>>

(* Two creators of one name and a delete; two deletes; a creator's grants  *)
(* hydrated twice while a delete is under way; two alters; and a lookup,   *)
(* an alter and a delete of a topic just created, on two brokers.          *)
Call(op, b, who) == [op |-> op, at |-> b, by |-> who]
Calls(c1, c2, c3, c4) == "c1" :> c1 @@ "c2" :> c2 @@ "c3" :> c3 @@ "c4" :> c4
NoCall  == Call("none", "b1", "u1")
Creates == Call("create", "b1", "u1")
Deletes == Call("delete", "b1", "u1")
MCJobs == {
    Calls(Creates, Call("create", "b2", "u2"), Deletes, NoCall),
    Calls(Creates, Call("delete", "b2", "u2"), Deletes, NoCall),
    Calls(Creates, Call("hydrate", "b1", "u1"), Deletes, Call("hydrate", "b1", "u1")),
    Calls(Creates, Call("alter", "b1", "r1"), Call("alter", "b1", "r2"), NoCall),
    Calls(Creates, Call("lookup", "b1", "u1"), Deletes, Call("alter", "b2", "r1"))}

(* Commits of two keys, over the log of a stable group.                    *)
MCRequested == {<<"k1", "k2">>}
MCLogs == {<<GroupTransitioned("Join"), GroupTransitioned("JoinBarrierComplete"),
             GroupTransitioned("SyncComplete")>>}

(* Logs that open with an event their group was not in the state for, as   *)
(* those written while joins were not logged do.                           *)
MCOldLogs == {<<GroupTransitioned("SyncComplete"), GroupTransitioned("Join"),
                GroupTransitioned("JoinBarrierComplete")>>}
MCAnyLogs == MCLogs \cup MCOldLogs

(* What a component may start from is tried in its own behaviours only.    *)
MCInit ==
    /\ focus \in Components
    /\ FollowerInit /\ CompactionInit /\ CatalogInit /\ GroupLogInit
    /\ focus # "catalog" => wanted = CHOOSE j \in Jobs : TRUE
    /\ focus # "follower" => line = <<>> /\ leads
    /\ focus # "offsets" => glog = CHOOSE l \in Logs : TRUE

MCNext ==
    /\ UNCHANGED focus
    /\ \/ focus = "follower" /\ Next /\ UNCHANGED <<compactionVars, catalogVars, groupLogVars>>
       \/ focus = "compaction" /\ CompactionNext /\ UNCHANGED <<vars, catalogVars, groupLogVars>>
       \/ focus = "catalog" /\ CatalogNext /\ UNCHANGED <<vars, compactionVars, groupLogVars>>
       \/ focus = "offsets" /\ GroupLogNext /\ UNCHANGED <<vars, compactionVars, catalogVars>>

MCSpec == MCInit /\ [][MCNext]_mcVars
=============================================================================
