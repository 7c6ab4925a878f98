----------------------------- MODULE GroupTable -----------------------------
(***************************************************************************)
(* The states of a consumer group and the events that move it between them *)
(* (oqueue-core/src/group_state.rs).                                       *)
(***************************************************************************)
GroupStates == {"Empty", "PreparingRebalance", "CompletingRebalance", "Stable", "Dead"}

(* The edges of the table, as (state, event, successor).                   *)
Table ==
    {<<s, "Join", "PreparingRebalance">> : s \in {"Empty", "Stable"}}
    \cup {<<"CompletingRebalance", "MemberJoinedDuringSync", "PreparingRebalance">>}
    \cup {<<s, "MemberLeft", "PreparingRebalance">> :
             s \in {"PreparingRebalance", "Stable", "CompletingRebalance"}}
    \cup {<<"PreparingRebalance", "JoinBarrierComplete", "CompletingRebalance">>}
    \cup {<<"CompletingRebalance", "SyncComplete", "Stable">>}
    \cup {<<s, "AllMembersGone", "Empty">> :
             s \in {"PreparingRebalance", "Stable", "CompletingRebalance"}}
    \cup {<<"Empty", "Expire", "Dead">>}

GroupEvents == {edge[2] : edge \in Table}

Legal(s, event) == \E edge \in Table : edge[1] = s /\ edge[2] = event

Successor(s, event) == CHOOSE n \in GroupStates : <<s, event, n>> \in Table
=============================================================================
