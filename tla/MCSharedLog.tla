----------------------------- MODULE MCSharedLog -----------------------------
(* The shared log on three small instances, and beside it, with no state   *)
(* in common, the bytes of its segments and the store adapters under it.   *)
EXTENDS SharedLog, Segments, StoreAdapter

CONSTANT Parts   \* the components to check

VARIABLE part

Symmetric == Permutations(Node) \cup Permutations(Commit)

(* Every record of either log, each optional field both ways, and a string *)
(* as long as its length field allows and longer.                          *)
Id == <<1>>
At0 == <<<<2>>, 0>>
MetaEntries == <<
    <<1, <<"batch", Id, 2, <<<<At0, 1, <<0, 1>>, <<1, 0, -1>>>>, <<At0, 2, <<>>, <<>>>>>>>>>>,
    <<2, <<"manifest", At0, Id, 3>>>>,
    <<3, <<"compacted", At0, <<<<Id, 0, 2>>>>, <<>>>>>>,
    <<4, <<"trimmed", At0, 1>>>>,
    <<5, <<"epoch", 7>>>>,
    <<6, <<"retention", Id, <<-1>>>>>>,
    <<7, <<"retention", Id, <<>>>>>> >>
GroupEntries == <<
    <<1, <<"offset", Id, <<3>>, -1, 2>>>>,
    <<2, <<"transition", Id, "Expire">>>>,
    <<3, <<"roster", Id, <<<<>>, Id, <<Id, <<4>>>>>>>>>>,
    <<4, <<"roster", Id, <<>>>>>> >>
Named(n) == <<<<1, <<"retention", [i \in 1 .. n |-> 1], <<>>>>>>>>
Meta(entries) == [format |-> "meta", entries |-> entries]
MCSamples == {Meta(MetaEntries), Meta(<<MetaEntries[1]>>), Meta(<<MetaEntries[3], MetaEntries[6]>>),
              Meta(<<>>), Meta(Named(B - 1)), Meta(Named(B)),
              [format |-> "group", entries |-> GroupEntries]}

(* Limits under which a body of 7 takes two parts on S3 and three on GCS.  *)
MCLimits == [s3 |-> [max_part |-> 6, max_parts |-> 2, max_object |-> 11, max_single |-> 6],
             gcs |-> [max_part |-> 3, max_parts |-> 9, max_object |-> 11, max_single |-> 11],
             memory |-> [max_part |-> 99, max_parts |-> 99, max_object |-> 99, max_single |-> 99]]
Ask(what, key, size) == [what |-> what, key |-> key, size |-> size, pre |-> "none",
                         start |-> 0, limit |-> 0, push |-> <<>>]
Put(key, size, pre) == [Ask("put", key, size) EXCEPT !.pre = pre]
Stream(key, parts) == [Ask("stream", key, TotalOf(parts)) EXCEPT !.push = parts]
Get(key, from, size) == [Ask("get", key, size) EXCEPT !.start = from]
List(after, limit) == [Ask("list", 1, 0) EXCEPT !.start = after, !.limit = limit]
MCJobs == {
    <<Put(1, 7, "none"), Put(1, 2, "mine"), Get(1, 1, 2), Put(1, 1, "absent"), Get(1, 6, 1)>>,
    <<Put(1, 12, "none"), Put(2, 12, "absent"), Stream(2, <<2, 2, 1>>), Put(2, 1, "mine"),
      Ask("delete", 1, 2)>>,
    <<Stream(3, <<2, 2>>), Put(1, 1, "absent"), List(0, 2), Put(2, 1, "none"), List(1, 3),
      Ask("delete", 2, 2)>> }

mcVars == <<part, allVars, segVars, adapterVars>>

(* What a component may start from is tried in its own behaviours only.    *)
MCInit ==
    /\ part \in Parts
    /\ LogInit /\ SegInit /\ StoreInit
    /\ part # "segments" => sample = Meta(<<>>)
    /\ part # "adapter" => kind = "memory" /\ asks[1] = Put(1, 7, "none")

(* Four instances of the log: two generations of three commits, or of two  *)
(* and a restart; a late PUT around one checkpoint; three terms with one   *)
(* node's checkpoint, and three with a late PUT.                           *)
Checkpointing == {n \in Node : ckpt[n] # IdleCkpt}
MCNext ==
    /\ UNCHANGED part
    /\ \/ /\ part = "checkpoints" /\ LogNext /\ terms' <= 2 /\ late' = {}
          /\ Cardinality(Sent') <= 3 - restarts'
          /\ UNCHANGED <<segVars, adapterVars>>
       \/ /\ part = "late" /\ LogNext
          /\ terms' <= 2 /\ Len(bases') <= 1 /\ restarts' = 0 /\ Cardinality(Sent') <= 2
          /\ UNCHANGED <<segVars, adapterVars>>
       \/ /\ part = "terms" /\ LogNext
          /\ restarts' = 0 /\ Cardinality(Sent') <= 2
          /\ Len(bases') <= 1 /\ Cardinality(Checkpointing') <= (IF late' = {} THEN 1 ELSE 0)
          /\ UNCHANGED <<segVars, adapterVars>>
       \/ part = "segments" /\ SegNext /\ UNCHANGED <<allVars, adapterVars>>
       \/ part = "adapter" /\ StoreNext /\ UNCHANGED <<allVars, segVars>>

MCSpec == MCInit /\ [][MCNext]_mcVars
=============================================================================
