--------------------------- MODULE ConsumerGroup ---------------------------
(***************************************************************************)
(* One consumer group on the node that coordinates it: the handlers of     *)
(* JoinGroup, SyncGroup, Heartbeat and LeaveGroup over the three pieces of *)
(* state they share beside the record of GroupTransitions.tla.             *)
(*   oqueue-broker/src/join_group/mod.rs, round/*   rounds and their slot  *)
(*   oqueue-broker/src/sync_group.rs, barrier.rs    the assignment cell    *)
(*   oqueue-broker/src/heartbeat.rs, leave_group.rs sessions               *)
(*   oqueue-broker/src/fencing.rs                   fence                  *)
(* A handler is a task of its own; what it does under one lock is one      *)
(* step. Clocks are left open: a session, a round's deadline and every     *)
(* bounded wait may lapse whenever they are running.                       *)
(***************************************************************************)
EXTENDS GroupTransitions, FiniteSets, SequencesExt

CONSTANTS
    Incumbents,   \* the members of a group that has some at the start
    Starts,       \* the states the group may be in at the start
    Protocols,    \* the protocols each member offers
    Resends,      \* whether a client may send a join again before its answer
    MaxReplans,   \* MAX_JOIN_REPLANS
    MaxRequests,  \* bound on the requests clients send
    MaxFaults     \* bound on the appends that fail and the sessions that lapse

ASSUME GroupAssumption ==
    /\ IsFiniteSet(Task) /\ Member # {} /\ "no roster" \notin Member
    /\ Incumbents \in Seq(Member) /\ IsInjective(Incumbents) /\ Resends \in BOOLEAN
    /\ MaxReplans \in Nat \ {0} /\ MaxRequests \in Nat /\ MaxFaults \in Nat
    /\ Starts \subseteq {"Empty", "CompletingRebalance", "Stable"}

VARIABLES
    \* Entry of GroupJoins
    open,         \* the round the entry holds, 0 for none
    enrolled,     \* its members, in the order they came
    awaiting,     \* the ids it still waits for, AwaitsNobody for None
    expired,      \* whether its deadline has passed
    outcome,      \* what each round so far published
    lastRound,    \* last_round_members, NoRoster for None
    slot,         \* whether in_flight is set
    \* Heartbeats
    tracked,      \* ids with a session
    live,         \* those whose deadline has not passed
    lapses,       \* sessions that have lapsed
    lapsed,       \* (history) ids not live at some time since the round opened
    \* SyncGroups
    cell,         \* the assignment cell, generation 0 while it is None
    \* the handlers
    pc,           \* where each is
    who,          \* the member it serves
    at,           \* its round, or the generation it works for
    asked,        \* the generation its request names
    pass,         \* planning passes a join has spent
    tried,        \* deadline_tried
    \* the clients
    minted,       \* ids handed out
    told,         \* the round each member's last successful join named
    requests      \* requests sent

joinVars == <<open, enrolled, awaiting, expired, outcome, lastRound, slot>>
sessionVars == <<tracked, live, lapses, lapsed>>
taskVars == <<pc, who, at, asked, pass, tried>>
clientVars == <<minted, told, requests>>
vars == <<actorVars, joinVars, sessionVars, cell, taskVars, clientVars>>

AwaitsNobody == {"no roster"}

Unset == [is |-> "unset", gen |-> 0, ids |-> <<>>]

Abandoned == [is |-> "abandoned", gen |-> 0, ids |-> <<>>]

Closed(g, ids) == [is |-> "closed", gen |-> g, ids |-> ids]

Somebody == CHOOSE m \in Member : TRUE

(* A group nobody joined yet, or one whose first round has closed, before  *)
(* its sync or after.                                                      *)
Init ==
    LET ids == IF gstate = "Empty" THEN <<>> ELSE Incumbents
        first == IF gstate = "Empty" THEN 0 ELSE 1
    IN
    /\ gstate \in Starts
    /\ gen = first
    /\ epoch = IF gstate = "Stable" THEN first ELSE 0
    /\ roster = IF first = 0 THEN NoRoster ELSE ids
    /\ queue = <<>> /\ reply = [t \in Task |-> NotSent] /\ fails = 0
    /\ open = first
    /\ enrolled = <<>> /\ awaiting = AwaitsNobody /\ expired = FALSE
    /\ outcome = IF first = 0 THEN <<>> ELSE <<Closed(1, ids)>>
    /\ lastRound = roster
    /\ slot = FALSE
    /\ tracked = Range(ids) /\ live = Range(ids)
    /\ lapses = 0 /\ lapsed = {}
    /\ cell = [gen |-> epoch, map |-> gstate = "Stable"]
    /\ pc = [t \in Task |-> "idle"]
    /\ who = [t \in Task |-> Somebody]
    /\ at = [t \in Task |-> 0] /\ asked = at /\ pass = at
    /\ tried = [t \in Task |-> FALSE]
    /\ minted = Range(ids)
    /\ told = [m \in Member |-> IF m \in Range(ids) THEN 1 ELSE 0]
    /\ requests = 0

-----------------------------------------------------------------------------
(* Handlers come and go.                                                   *)
Goto(t, label) == pc' = [pc EXCEPT ![t] = label]

Accept(t, m, label, n, g) ==
    /\ pc[t] = "idle" /\ requests < MaxRequests
    /\ requests' = requests + 1
    /\ Goto(t, label)
    /\ who' = [who EXCEPT ![t] = m]
    /\ at' = [at EXCEPT ![t] = n] /\ asked' = [asked EXCEPT ![t] = g]
    /\ UNCHANGED <<pass, tried>>

Done(t) ==
    /\ Goto(t, "idle")
    /\ who' = [who EXCEPT ![t] = Somebody]
    /\ at' = [at EXCEPT ![t] = 0] /\ asked' = [asked EXCEPT ![t] = 0]
    /\ pass' = [pass EXCEPT ![t] = 0] /\ tried' = [tried EXCEPT ![t] = FALSE]

Forget(t) == reply' = [reply EXCEPT ![t] = NotSent] /\ UNCHANGED <<recordVars, queue, fails>>

Stay(t, label) == Goto(t, label) /\ UNCHANGED <<who, at, asked, pass, tried>>

-----------------------------------------------------------------------------

(* refuse publishes that generation g gets no assignment, and never over   *)
(* this generation's own or over a later one.                              *)
Refused(g) ==
    IF cell.gen > g \/ (cell.gen = g /\ cell.map) THEN cell ELSE [gen |-> g, map |-> FALSE]

Knows(g) == cell.gen >= g

StableAt(g) == gstate = "Stable" /\ gen = g

-----------------------------------------------------------------------------
(* JoinGroup: an empty member id is minted, a named one must be tracked.   *)
JoinNew(t, m) ==
    /\ m \notin minted
    /\ minted' = minted \cup {m}
    /\ Accept(t, m, "plan", 0, 0)
    /\ UNCHANGED told /\ UNCHANGED <<actorVars, joinVars, sessionVars, cell>>

Joining == {"plan", "openJoin", "openSync", "openedJoin", "openedSync", "close", "deadlineClose", "roster",
            "deadlineRoster", "pending", "withdraw", "register"}

Rejoin(t, m) ==
    /\ m \in tracked
    /\ ~Resends => ~\E u \in Task : pc[u] \in Joining /\ who[u] = m
    /\ Accept(t, m, "plan", 0, 0)
    /\ UNCHANGED <<minted, told>> /\ UNCHANGED <<actorVars, joinVars, sessionVars, cell>>

NeedsOpen == ~(open # 0 /\ outcome[open].is = "unset")

(* install_round: awaits every id of the last round's roster, live or not. *)
Install ==
    /\ open' = Len(outcome) + 1
    /\ outcome' = Append(outcome, Unset)
    /\ enrolled' = <<>> /\ expired' = FALSE
    /\ awaiting' = IF lastRound = NoRoster THEN AwaitsNobody ELSE Range(lastRound)
    /\ lapsed' = Member \ live

NextPass(t) == pass' = [pass EXCEPT ![t] = @ + 1]

(* Every pass spent: Busy, which asks the client to rejoin.                *)
PlanBusy(t) ==
    /\ pc[t] = "plan" /\ pass[t] = MaxReplans
    /\ Done(t)
    /\ UNCHANGED <<actorVars, joinVars, sessionVars, cell, clientVars>>

(* The slot is held: wait to be told, or out the budget, and plan again.   *)
PlanWait(t) ==
    /\ pc[t] = "plan" /\ pass[t] < MaxReplans
    /\ NeedsOpen /\ slot
    /\ NextPass(t)
    /\ UNCHANGED <<pc, who, at, asked, tried>>
    /\ UNCHANGED <<actorVars, joinVars, sessionVars, cell, clientVars>>

(* plan_open claims the slot and names the event the record calls for.     *)
PlanOpen(t) ==
    /\ pc[t] = "plan" /\ pass[t] < MaxReplans
    /\ NeedsOpen /\ ~slot
    /\ gstate # "PreparingRebalance"
    /\ slot' = TRUE
    /\ Stay(t, IF gstate = "CompletingRebalance" THEN "openSync" ELSE "openJoin")
    /\ UNCHANGED <<open, enrolled, awaiting, expired, outcome, lastRound>>
    /\ UNCHANGED <<actorVars, sessionVars, cell, clientVars>>

(* elect finds a protocol every member offers.                             *)
Electable(ids) == \E p \in UNION {Protocols[m] : m \in ids} : \A m \in ids : p \in Protocols[m]

(* Mutant of CanInstall: the slot is not claimed for an install that sends *)
(* no event.                                                               *)
CanInstallUnclaimed == gstate = "PreparingRebalance"

(* plan_open when the group is already collecting: a round may be put      *)
(* there at once, once the slot is claimed.                                *)
CanInstall == ~slot /\ gstate = "PreparingRebalance"

(* Mutant of RosterComplete: complete once as many have enrolled as the    *)
(* last round had.                                                         *)
RosterCounted(left, ids) == lastRound # NoRoster /\ Len(ids) >= Len(lastRound)

(* A round is complete when every id it awaited has enrolled.              *)
RosterComplete(left, ids) == left = {}

(* The rest of plan_join: enrol in the round that is open, or in one put   *)
(* there at once when the group is already collecting. Whoever completes   *)
(* the roster closes the round, unless the slot is held: then it waits on  *)
(* the round like everyone else.                                           *)
PlanEnrol(t) ==
    LET m == who[t]
        fresh == IF lastRound = NoRoster THEN AwaitsNobody ELSE Range(lastRound)
        was == IF NeedsOpen THEN <<>> ELSE enrolled
        left == (IF NeedsOpen THEN fresh ELSE awaiting) \ {m}
        ids == IF m \in Range(was) THEN was ELSE Append(was, m)
        full == RosterComplete(left, ids)
    IN  /\ pc[t] = "plan" /\ pass[t] < MaxReplans
        /\ NeedsOpen => CanInstall
        /\ Electable(Range(was) \cup {m})
        /\ enrolled' = ids
        /\ awaiting' = left
        /\ IF NeedsOpen
           THEN open' = Len(outcome) + 1 /\ outcome' = Append(outcome, Unset)
                /\ expired' = FALSE /\ lapsed' = Member \ live
           ELSE UNCHANGED <<open, outcome, expired, lapsed>>
        /\ slot' = (slot \/ full)
        /\ Goto(t, IF full /\ ~slot THEN "close" ELSE "pending")
        /\ at' = [at EXCEPT ![t] = open']
        /\ UNCHANGED <<who, asked, pass, tried>> /\ UNCHANGED <<lastRound, tracked, live, lapses>>
        /\ UNCHANGED <<actorVars, cell, clientVars>>

(* A member that shares no protocol with the round is refused.             *)
PlanRefused(t) ==
    /\ pc[t] = "plan" /\ pass[t] < MaxReplans
    /\ ~NeedsOpen /\ ~Electable(Range(enrolled) \cup {who[t]})
    /\ Done(t)
    /\ UNCHANGED <<actorVars, joinVars, sessionVars, cell, clientVars>>

EventOf == [openJoin |-> "Join", openSync |-> "MemberJoinedDuringSync",
            close |-> "JoinBarrierComplete", deadlineClose |-> "JoinBarrierComplete",
            sync |-> "SyncComplete"]

(* The lock is released before the event is sent.                          *)
Send(t) ==
    /\ pc[t] \in DOMAIN EventOf /\ reply[t] = NotSent
    /\ Enqueue(t, EventOf[pc[t]])
    /\ UNCHANGED <<recordVars, fails>>
    /\ UNCHANGED <<joinVars, sessionVars, cell, taskVars, clientVars>>

(* apply_open installs the round while the slot is held, then tells the    *)
(* followers of the generation the newcomer interrupts; the slot is freed  *)
(* and the join plans again.                                               *)
Opened(t) ==
    /\ pc[t] \in {"openJoin", "openSync"} /\ reply[t].res = "ok"
    /\ Install
    /\ Stay(t, IF pc[t] = "openSync" THEN "openedSync" ELSE "openedJoin")
    /\ UNCHANGED <<lastRound, slot, tracked, live, lapses>> /\ UNCHANGED <<actorVars, cell, clientVars>>

ReleaseOpened(t) ==
    /\ pc[t] \in {"openedJoin", "openedSync"}
    /\ cell' = IF pc[t] = "openedSync" THEN Refused(reply[t].gen) ELSE cell
    /\ slot' = FALSE
    /\ Forget(t) /\ Goto(t, "plan") /\ NextPass(t) /\ UNCHANGED <<who, at, asked, tried>>
    /\ UNCHANGED <<open, enrolled, awaiting, expired, outcome, lastRound>>
    /\ UNCHANGED <<sessionVars, clientVars>>

(* Raced: another handler moved the group first, so plan again.            *)
OpenRaced(t) ==
    /\ pc[t] \in {"openJoin", "openSync"} /\ reply[t].res = "illegal"
    /\ slot' = FALSE
    /\ Forget(t) /\ Goto(t, "plan") /\ NextPass(t) /\ UNCHANGED <<who, at, asked, tried>>
    /\ UNCHANGED <<open, enrolled, awaiting, expired, outcome, lastRound>>
    /\ UNCHANGED <<sessionVars, cell, clientVars>>

OpenUnavailable(t) ==
    /\ pc[t] \in {"openJoin", "openSync"} /\ reply[t].res = "failed"
    /\ slot' = FALSE
    /\ Forget(t) /\ Done(t)
    /\ UNCHANGED <<open, enrolled, awaiting, expired, outcome, lastRound>>
    /\ UNCHANGED <<sessionVars, cell, clientVars>>

-----------------------------------------------------------------------------
Closing == {"close", "deadlineClose"}

(* close_generation: what the barrier answered, 0 when it was refused.     *)
CloseGeneration(t) == IF reply[t].res = "ok" THEN reply[t].gen ELSE 0

(* The elements of s that are in S, in the order of s.                     *)
Kept(s, S) ==
    LET places == {i \in DOMAIN s : s[i] \in S}
        Nth(k) == CHOOSE i \in places : Cardinality({j \in places : j <= i}) = k
    IN  [k \in 1 .. Cardinality(places) |-> s[Nth(k)]]

(* Mutant of InOrder: the sort by the last roster keeps only what it finds *)
(* there.                                                                  *)
InOrderIncumbents(ids, previous) ==
    IF previous = NoRoster THEN ids ELSE Kept(previous, Range(ids))

(* finalize_close: incumbents first, in the order the group has had them.  *)
InOrder(ids, previous) ==
    Kept(previous, Range(ids)) \o Kept(ids, Range(ids) \ Range(previous))

(* Publish the close at the generation the barrier completed, and send the *)
(* roster after it. The slot is held until that is answered.               *)
Finalize(t) ==
    LET ids == InOrder(enrolled, lastRound)
    IN  /\ pc[t] \in Closing /\ Settled(t) /\ CloseGeneration(t) # 0
        /\ outcome' = [outcome EXCEPT ![open] = Closed(CloseGeneration(t), ids)]
        /\ enrolled' = <<>> /\ lastRound' = ids
        /\ EnqueueRoster(t, ids)
        /\ Stay(t, IF pc[t] = "close" THEN "roster" ELSE "deadlineRoster")
        /\ UNCHANGED <<open, awaiting, expired, slot>>
        /\ UNCHANGED <<recordVars, fails>> /\ UNCHANGED <<sessionVars, cell, clientVars>>

(* abandon_round: tell everyone enrolled, and forget the roster when the   *)
(* barrier was refused, for then its members are gone.                     *)
Abandon(t) ==
    /\ pc[t] \in Closing /\ Settled(t) /\ CloseGeneration(t) = 0
    /\ outcome' = [outcome EXCEPT ![open] = Abandoned]
    /\ open' = 0 /\ enrolled' = <<>> /\ awaiting' = AwaitsNobody /\ expired' = FALSE
    /\ lastRound' = IF reply[t].res = "illegal" THEN NoRoster ELSE lastRound
    /\ slot' = FALSE
    /\ Forget(t)
    /\ IF pc[t] = "close"
       THEN Goto(t, "plan") /\ NextPass(t) /\ at' = [at EXCEPT ![t] = 0] /\ UNCHANGED <<who, asked, tried>>
       ELSE Stay(t, "pending")
    /\ UNCHANGED <<sessionVars, cell, clientVars>>

(* persist_roster answered: a join that closed its own round is told       *)
(* Unavailable when the roster did not land.                               *)
RosterKept(t) ==
    /\ pc[t] \in {"roster", "deadlineRoster"} /\ Settled(t)
    /\ pc[t] = "roster" => reply[t].res = "ok"
    /\ slot' = FALSE
    /\ Forget(t) /\ Stay(t, IF pc[t] = "roster" THEN "register" ELSE "pending")
    /\ UNCHANGED <<open, enrolled, awaiting, expired, outcome, lastRound>>
    /\ UNCHANGED <<sessionVars, cell, clientVars>>

RosterLost(t) ==
    /\ pc[t] = "roster" /\ reply[t].res = "failed"
    /\ slot' = FALSE
    /\ Forget(t) /\ Done(t)
    /\ UNCHANGED <<open, enrolled, awaiting, expired, outcome, lastRound>>
    /\ UNCHANGED <<sessionVars, cell, clientVars>>

-----------------------------------------------------------------------------
(* wait_for_close.                                                         *)
IsOwnOpenRound(t) == open = at[t] /\ outcome[open].is = "unset"

PendingClosed(t) ==
    /\ pc[t] = "pending" /\ outcome[at[t]].is = "closed"
    /\ Stay(t, "register")
    /\ UNCHANGED <<actorVars, joinVars, sessionVars, cell, clientVars>>

PendingAbandoned(t) ==
    /\ pc[t] = "pending" /\ outcome[at[t]].is = "abandoned"
    /\ Done(t)
    /\ UNCHANGED <<actorVars, joinVars, sessionVars, cell, clientVars>>

(* reprune_awaiting strikes off the ids whose sessions have lapsed; when   *)
(* none is left the waiter closes the round, if it gets the slot.          *)
Reprune(t) ==
    /\ pc[t] = "pending" /\ IsOwnOpenRound(t) /\ awaiting # AwaitsNobody
    /\ awaiting' = awaiting \cap live
    /\ IF awaiting' = {} /\ ~slot
       THEN slot' = TRUE /\ Stay(t, "deadlineClose")
       ELSE UNCHANGED <<slot, taskVars>>
    /\ UNCHANGED <<open, enrolled, expired, outcome, lastRound>>
    /\ UNCHANGED <<actorVars, sessionVars, cell, clientVars>>

(* close_on_deadline: whoever gets the slot closes the round.              *)
DeadlineClaim(t) ==
    /\ pc[t] = "pending" /\ IsOwnOpenRound(t) /\ expired /\ ~slot
    /\ slot' = TRUE /\ Stay(t, "deadlineClose")
    /\ UNCHANGED <<open, enrolled, awaiting, expired, outcome, lastRound>>
    /\ UNCHANGED <<actorVars, sessionVars, cell, clientVars>>

(* The wait for the slot lapsed: once more, and then give up.              *)
DeadlineLapse(t) ==
    /\ pc[t] = "pending" /\ IsOwnOpenRound(t) /\ expired /\ slot
    /\ tried' = [tried EXCEPT ![t] = TRUE]
    /\ Goto(t, IF tried[t] THEN "withdraw" ELSE "pending") /\ UNCHANGED <<who, at, asked, pass>>
    /\ UNCHANGED <<actorVars, joinVars, sessionVars, cell, clientVars>>

(* withdraw: a member told to rejoin leaves the round it was enrolled in.  *)
Withdraw(t) ==
    /\ pc[t] = "withdraw"
    /\ enrolled' = IF IsOwnOpenRound(t)
                   THEN Kept(enrolled, Member \ {who[t]}) ELSE enrolled
    /\ Done(t)
    /\ UNCHANGED <<open, awaiting, expired, outcome, lastRound, slot>>
    /\ UNCHANGED <<actorVars, sessionVars, cell, clientVars>>

(* register, and the answer NONE with the round's generation.              *)
Register(t) ==
    /\ pc[t] = "register"
    /\ tracked' = tracked \cup {who[t]} /\ live' = live \cup {who[t]}
    /\ told' = [told EXCEPT ![who[t]] = at[t]]
    /\ Done(t)
    /\ UNCHANGED <<lapses, lapsed, minted, requests>> /\ UNCHANGED <<actorVars, joinVars, cell>>

-----------------------------------------------------------------------------
(* SyncGroup, from a member whose join was answered. The leader is the     *)
(* first of its round and submits; everyone else waits for it.             *)
Generation(m) == outcome[told[m]].gen

(* fence: tracked, at the group's generation, in a state it allows.        *)
Fenced(m, g, states) == m \in tracked /\ gen = g /\ gstate \in states

Sync(t, m) ==
    /\ told[m] # 0 /\ Fenced(m, Generation(m), {"CompletingRebalance", "Stable"})
    /\ Accept(t, m, IF m = Head(outcome[told[m]].ids) THEN "sync" ELSE "parked", Generation(m), Generation(m))
    /\ UNCHANGED <<minted, told>> /\ UNCHANGED <<actorVars, joinVars, sessionVars, cell>>

(* submit_assignment asks whether the group is Stable at its generation of *)
(* the record SyncComplete made, or of the record now if it was refused.   *)
Synced(t) ==
    \/ reply[t].res = "ok" /\ reply[t].gen = at[t]
    \/ reply[t].res = "illegal" /\ StableAt(at[t])

SyncAnswered(t) ==
    /\ pc[t] = "sync" /\ Settled(t) /\ Synced(t)
    /\ Forget(t) /\ Stay(t, "submit")
    /\ UNCHANGED <<joinVars, sessionVars, cell, clientVars>>

SyncRefused(t) ==
    /\ pc[t] = "sync" /\ Settled(t) /\ ~Synced(t)
    /\ cell' = Refused(at[t])
    /\ Forget(t) /\ Done(t)
    /\ UNCHANGED <<joinVars, sessionVars, clientVars>>

(* submit asks again under the cell's lock, and yields to a later map.     *)
Submit(t) ==
    /\ pc[t] = "submit"
    /\ cell' = IF cell.gen > at[t] \/ ~StableAt(at[t])
               THEN Refused(at[t]) ELSE [gen |-> at[t], map |-> TRUE]
    /\ Done(t)
    /\ UNCHANGED <<actorVars, joinVars, sessionVars, clientVars>>

(* wait_for_assignment returns once the cell answers for its generation.   *)
Released(t) ==
    /\ pc[t] = "parked" /\ Knows(at[t])
    /\ Done(t)
    /\ UNCHANGED <<actorVars, joinVars, sessionVars, cell, clientVars>>

ParkedTooLong(t) ==
    /\ pc[t] = "parked" /\ ~Knows(at[t])
    /\ Done(t)
    /\ UNCHANGED <<actorVars, joinVars, sessionVars, cell, clientVars>>

-----------------------------------------------------------------------------
(* Heartbeat sweeps the lapsed sessions, LeaveGroup drops a named one.     *)
(* Both read the generation first.                                         *)
Heartbeat(t, m) ==
    /\ told[m] # 0
    /\ Accept(t, m, "sweep", gen, Generation(m))
    /\ UNCHANGED <<minted, told>> /\ UNCHANGED <<actorVars, joinVars, sessionVars, cell>>

Leave(t, m) ==
    /\ told[m] # 0
    /\ Accept(t, m, "leave", gen, 0)
    /\ UNCHANGED <<minted, told>> /\ UNCHANGED <<actorVars, joinVars, sessionVars, cell>>

Lost(t) == IF pc[t] = "leave" THEN tracked \cap {who[t]} ELSE tracked \ live

(* remove_where: the sessions go and one event is queued under one lock.   *)
RemoveWhere(t) ==
    /\ pc[t] \in {"sweep", "leave"} /\ Lost(t) # {}
    /\ tracked' = tracked \ Lost(t) /\ live' = live \ Lost(t)
    /\ lapsed' = lapsed \cup Lost(t) /\ UNCHANGED lapses
    /\ Enqueue(t, IF tracked' = {} THEN "AllMembersGone" ELSE "MemberLeft")
    /\ Stay(t, IF pc[t] = "leave" THEN "left" ELSE "swept")
    /\ UNCHANGED <<recordVars, fails>> /\ UNCHANGED <<joinVars, cell, clientVars>>

RemoveNobody(t) ==
    /\ pc[t] \in {"sweep", "leave"} /\ Lost(t) = {}
    /\ IF pc[t] = "leave" THEN Done(t) ELSE Stay(t, "beat")
    /\ UNCHANGED <<actorVars, joinVars, sessionVars, cell, clientVars>>

(* Whatever the answer, the generation read before gets no assignment.     *)
Removed(t) ==
    /\ pc[t] \in {"swept", "left"} /\ Settled(t)
    /\ cell' = Refused(at[t])
    /\ Forget(t)
    /\ IF pc[t] = "left" THEN Done(t) ELSE Stay(t, "beat")
    /\ UNCHANGED <<joinVars, sessionVars, clientVars>>

(* A heartbeat renews in Stable and through a rebalance alike.             *)
Beat(t) ==
    /\ pc[t] = "beat"
    /\ live' = IF Fenced(who[t], asked[t], GroupStates) THEN live \cup {who[t]} ELSE live
    /\ Done(t)
    /\ UNCHANGED <<tracked, lapses, lapsed>> /\ UNCHANGED <<actorVars, joinVars, cell, clientVars>>

-----------------------------------------------------------------------------
(* Time.                                                                   *)
SessionLapses(m) ==
    /\ m \in live /\ lapses + fails < MaxFaults
    /\ lapses' = lapses + 1
    /\ live' = live \ {m} /\ lapsed' = lapsed \cup {m}
    /\ UNCHANGED tracked /\ UNCHANGED <<actorVars, joinVars, cell, taskVars, clientVars>>

DeadlinePasses ==
    /\ ~NeedsOpen /\ ~expired
    /\ expired' = TRUE
    /\ UNCHANGED <<open, enrolled, awaiting, outcome, lastRound, slot>>
    /\ UNCHANGED <<actorVars, sessionVars, cell, taskVars, clientVars>>

Actor == Serve /\ lapses + fails' <= MaxFaults
         /\ UNCHANGED <<joinVars, sessionVars, cell, taskVars, clientVars>>

Request(t, m) ==
    \/ JoinNew(t, m) \/ Rejoin(t, m) \/ Sync(t, m) \/ Heartbeat(t, m) \/ Leave(t, m)

Step(t) ==
    \/ PlanBusy(t) \/ PlanWait(t) \/ PlanOpen(t) \/ PlanEnrol(t) \/ PlanRefused(t)
    \/ Send(t) \/ Opened(t) \/ ReleaseOpened(t) \/ OpenRaced(t) \/ OpenUnavailable(t)
    \/ Finalize(t) \/ Abandon(t) \/ RosterKept(t) \/ RosterLost(t)
    \/ PendingClosed(t) \/ PendingAbandoned(t) \/ Reprune(t)
    \/ DeadlineClaim(t) \/ DeadlineLapse(t) \/ Withdraw(t) \/ Register(t)
    \/ SyncAnswered(t) \/ SyncRefused(t) \/ Submit(t) \/ Released(t) \/ ParkedTooLong(t)
    \/ RemoveWhere(t) \/ RemoveNobody(t) \/ Removed(t) \/ Beat(t)

Next ==
    \/ \E t \in Task, m \in Member : Request(t, m)
    \/ \E t \in Task : Step(t)
    \/ \E m \in Member : SessionLapses(m)
    \/ DeadlinePasses
    \/ Actor

Spec == Init /\ [][Next]_vars

-----------------------------------------------------------------------------
Holding == {"openJoin", "openSync", "openedJoin", "openedSync",
            "close", "deadlineClose", "roster", "deadlineRoster"}

Labels == Holding \cup Joining
          \cup {"idle", "sync", "submit", "parked", "sweep", "leave", "swept", "left", "beat"}

Ids == {s \in Seq(Member) : IsInjective(s)}

(* Everything has its type, only tracked sessions are live, and neither    *)
(* the assignment cell nor the target epoch runs ahead of the generation.  *)
TypeOK ==
    /\ gstate \in GroupStates \ {"Dead"} /\ epoch \in 0..gen
    /\ roster = NoRoster \/ roster \in Ids
    /\ Len(queue) <= Cardinality(Task) /\ fails \in 0..MaxFails
    /\ open \in 0..Len(outcome) /\ enrolled \in Ids
    /\ awaiting \subseteq Member \/ awaiting = AwaitsNobody
    /\ lastRound = NoRoster \/ lastRound \in Ids
    /\ lapses \in 0..MaxFaults /\ live \subseteq tracked /\ tracked \subseteq minted
    /\ cell.gen \in 0..gen /\ pc \in [Task -> Labels]
    /\ pass \in [Task -> 0..MaxReplans]

(* in_flight is set exactly while one handler is between its claim and its *)
(* guard's drop, never two, and a handler that closes a round closes the   *)
(* one it is enrolled in, which nobody has closed before: the early        *)
(* returns of finalize_close are never taken.                              *)
SlotSound ==
    /\ slot <=> \E t \in Task : pc[t] \in Holding
    /\ \A t, u \in Task : pc[t] \in Holding /\ pc[u] \in Holding => t = u
    /\ \A t \in Task : pc[t] \in Closing => IsOwnOpenRound(t)

(* No round is dropped from under those who wait on it: install_round only *)
(* ever replaces a round whose close or abandonment was published.         *)
WaitersHeard ==
    \A t \in Task : pc[t] = "pending" => open = at[t] \/ outcome[at[t]].is # "unset"

(* Two rounds never close at one generation, and a later round closes at a *)
(* later one: members of different rosters cannot pass each other's fence. *)
ClosesDistinct ==
    \A r, s \in DOMAIN outcome :
        r < s /\ outcome[r].is = "closed" /\ outcome[s].is = "closed"
            => outcome[r].gen < outcome[s].gen

(* A join answered with a generation is in the roster its leader is given, *)
(* so the leader can assign it something.                                  *)
AnsweredEnrolled ==
    \A t \in Task : pc[t] = "register" => who[t] \in Range(outcome[at[t]].ids)

(* The assignment cell never goes back to an earlier generation, and a     *)
(* published assignment is never withdrawn for the generation it is for.   *)
CellForward ==
    [][cell'.gen >= cell.gen /\ (cell'.gen = cell.gen /\ cell.map => cell'.map)]_cell

(* Revoke before reassign: a round closes over the head of an incumbent    *)
(* only past its deadline, or if the incumbent's session has lapsed or was *)
(* dropped since the round opened.                                         *)
IncumbentsHeard ==
    [][\A t \in Task : Finalize(t) =>
          \A m \in Range(lastRound) \cap Member :
              m \in Range(enrolled) \/ expired \/ m \in lapsed]_vars

(* A follower parked on a generation the group has left is told so, once   *)
(* every other handler is done. The code does not keep this: remove_where  *)
(* refuses the generation it read before its removal, and a barrier        *)
(* completed in between makes that the one before.                         *)
NoStranded ==
    (\A t \in Task : pc[t] \in {"idle", "parked"}) =>
        \A t \in Task :
            pc[t] = "parked" /\ ~(gen = at[t] /\ gstate \in {"CompletingRebalance", "Stable"})
                => Knows(at[t])

(* A round is closed once, by one handler, and those who wait are told.    *)
RoundsSound == TypeOK /\ SlotSound /\ WaitersHeard /\ ClosesDistinct

(* Neither an assignment nor an incumbent is passed over.                  *)
StepsHeard == CellForward /\ IncumbentsHeard
=============================================================================
