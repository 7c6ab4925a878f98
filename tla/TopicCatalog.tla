---------------------------- MODULE TopicCatalog ----------------------------
(***************************************************************************)
(* What a catalog promises of one topic name (oqueue-core/src/catalog.rs,  *)
(* TopicCatalog, and FakeTopicCatalog, which does each operation under one *)
(* lock): the name is claimed by one creator, for good; once deleted it is *)
(* reserved for ever and nothing serves it again.                          *)
(***************************************************************************)
CONSTANT Creators
VARIABLE topic     \* "absent", "deleted", or the creator of the live topic

TopicInit == topic = "absent"

CreateTopic == topic = "absent" /\ topic' \in Creators

(* A topic may be deleted before anyone could have found it.               *)
DeleteTopic == topic # "deleted" /\ topic' = "deleted"

TopicNext == CreateTopic \/ DeleteTopic

TopicSpec == TopicInit /\ [][TopicNext]_topic
=============================================================================
