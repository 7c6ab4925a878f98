-------------------------- MODULE GroupTransitions --------------------------
(***************************************************************************)
(* A consumer group's record and the one task that may change it.          *)
(*   oqueue-core/src/group_state.rs          the transition table          *)
(*   oqueue-broker/src/group_transitions.rs  enqueue, serve, handle_one,   *)
(*                                           update_roster, append_durably *)
(* Handlers put requests in one queue and wait for their answers. A        *)
(* request is refused, or made durable and then applied, one at a time.    *)
(***************************************************************************)
EXTENDS Naturals, Sequences, GroupTable

CONSTANTS
    Task,      \* request handlers in flight at once
    Member,    \* member ids
    MaxFails   \* bound on the appends that fail

ASSUME TransitionsAssumption == MaxFails \in Nat

VARIABLES
    gstate,    \* the record: the group's state,
    gen,       \*   its generation,
    epoch,     \*   and the generation its target assignment is for
    roster,    \* the roster summary kept for administration
    queue,     \* requests not yet served
    reply,     \* what each handler's request was answered
    fails      \* appends that have failed

recordVars == <<gstate, gen, epoch, roster>>
actorVars == <<recordVars, queue, reply, fails>>

(* Only a completed join barrier starts a generation, and only a completed *)
(* sync gives it a target.                                                 *)
NextGen(event) == IF event = "JoinBarrierComplete" THEN gen + 1 ELSE gen

NextEpoch(event) == IF event = "SyncComplete" THEN gen ELSE epoch

-----------------------------------------------------------------------------
NoRoster == <<"no roster">>

NotSent == [res |-> "none", gen |-> 0]

Waiting == [res |-> "queued", gen |-> 0]

Settled(t) == reply[t].res \in {"ok", "illegal", "failed"}

(* enqueue: a send that never waits, so callers may hold a lock across it. *)
Enqueue(t, event) ==
    /\ queue' = Append(queue, [task |-> t, event |-> event, ids |-> NoRoster])
    /\ reply' = [reply EXCEPT ![t] = Waiting]

EnqueueRoster(t, ids) ==
    /\ queue' = Append(queue, [task |-> t, event |-> "Roster", ids |-> ids])
    /\ reply' = [reply EXCEPT ![t] = Waiting]

Answer(res, g) ==
    /\ queue' = Tail(queue)
    /\ reply' = [reply EXCEPT ![Head(queue).task] = [res |-> res, gen |-> g]]

(* handle_one: a refused event is never appended.                          *)
ServeIllegal ==
    /\ queue # <<>> /\ Head(queue).event # "Roster"
    /\ ~Legal(gstate, Head(queue).event)
    /\ Answer("illegal", 0)
    /\ UNCHANGED <<recordVars, fails>>

(* handle_one and update_roster: the append failed, or lost its version to *)
(* other writers of the log too many times; nothing is applied.            *)
ServeFailed ==
    /\ queue # <<>> /\ fails < MaxFails
    /\ Head(queue).event = "Roster" \/ Legal(gstate, Head(queue).event)
    /\ fails' = fails + 1
    /\ Answer("failed", 0)
    /\ UNCHANGED recordVars

ServeTransition ==
    LET event == Head(queue).event
    IN  /\ queue # <<>> /\ event # "Roster"
        /\ Legal(gstate, event)
        /\ gstate' = Successor(gstate, event)
        /\ gen' = NextGen(event)
        /\ epoch' = NextEpoch(event)
        /\ roster' = IF event \in {"AllMembersGone", "Expire"} THEN NoRoster ELSE roster
        /\ Answer("ok", NextGen(event))
        /\ UNCHANGED fails

ServeRoster ==
    /\ queue # <<>> /\ Head(queue).event = "Roster"
    /\ roster' = Head(queue).ids
    /\ Answer("ok", gen)
    /\ UNCHANGED <<gstate, gen, epoch, fails>>

Serve == ServeIllegal \/ ServeFailed \/ ServeTransition \/ ServeRoster
=============================================================================
