------------------------------ MODULE GroupLog ------------------------------
(***************************************************************************)
(* The group log and what is folded from it: committed offsets and the     *)
(* record of one consumer group, by the tasks that append to the log at    *)
(* once, across failed writes, restarts and the replay that follows them.  *)
(*   oqueue-broker/src/offset_commit.rs, offset_fetch.rs, fencing.rs,      *)
(*   group_transitions.rs (append_durably, handle_one, replay),            *)
(*   cluster/replay.rs, replay_gate.rs; oqueue-core/src/object_store_log.rs*)
(*   (Segments::append, Lazy), group_coordinator.rs                        *)
(* A version is a place in the log: writers only ever propose the next.    *)
(***************************************************************************)
EXTENDS Naturals, Sequences, GroupTable

CONSTANTS
    Committer,     \* offset commits in hand at once
    PartitionKey,  \* (topic, partition) keys of the group
    REPLAY_PAGE,   \* REPLAY_PAGE_SIZE
    MAX_RETRIES,   \* MAX_COMMIT_RETRIES, MAX_APPEND_RETRIES
    Requested,     \* the keys an OffsetCommit may name, in order
    Logs,          \* logs a process may boot over
    MaxLog, MaxErrs, MaxBoots   \* bounds: records, failed appends, restarts

TransitionsTask == "actor"
Writer == Committer \cup {TransitionsTask}

(* GroupMetadataRecord; the offset of a commit is named by who commits it. *)
OffsetCommitted(k, o)  == [kind |-> "offset", key |-> k, offset |-> o]
GroupTransitioned(e)   == [kind |-> "event", event |-> e]
GroupRosterUpdated(ms) == [kind |-> "roster", members |-> ms]
GroupRecords ==
    {OffsetCommitted(k, c) : k \in PartitionKey, c \in Committer}
    \cup {GroupTransitioned(e) : e \in GroupEvents} \cup {GroupRosterUpdated("members")}

ASSUME GroupLogAssumption ==
    /\ TransitionsTask \notin Committer
    /\ REPLAY_PAGE \in Nat \ {0}
    /\ Requested \subseteq Seq(PartitionKey) \ {<<>>}
    /\ Logs \subseteq Seq(GroupRecords)

VARIABLES
    glog,     \* the segments in the store, one record in each
    nextSeq,     \* how many of them this process knows of: next_seq
    offsets,  \* CommittedOffsets: version and offset of each key
    record,   \* the GroupCoordinator's record and roster of the group
    replay,     \* the replay: the half it is at, its place, the halves done, and what it read up to
    ready,    \* ReplayGate
    write,    \* each writer's append in hand
    answered,    \* the last version acknowledged for each key
    refused,  \* what the store has refused appends for
    errs, boots

groupLogVars == <<glog, nextSeq, offsets, record, replay, ready, write, answered, refused, errs, boots>>

NoOffset == [version |-> 0, offset |-> "none"]
FreshRecord == [state |-> "Empty", generation |-> 0, known |-> FALSE, roster |-> "none",
                poisoned |-> FALSE]
IdleWrite == [pc |-> "idle", rec |-> [kind |-> "none"], seen |-> 0, tries |-> 0, rest |-> <<>>]
Booting  == [half |-> "offsets", at |-> 1, done |-> {}, offsets |-> [k \in PartitionKey |-> NoOffset],
             upto |-> 0]

GroupLogInit ==
    /\ glog \in Logs /\ nextSeq = 0
    /\ offsets = [k \in PartitionKey |-> NoOffset]
    /\ record = FreshRecord
    /\ replay = Booting /\ ready = FALSE
    /\ write = [w \in Writer |-> IdleWrite]
    /\ answered = [k \in PartitionKey |-> 0]
    /\ refused = {}
    /\ errs = 0 /\ boots = 0

(* Mutant of ApplyOffset: the last insert wins.                            *)
ApplyOffsetAlways(held, version, rec) ==
    [held EXCEPT ![rec.key] = [version |-> version, offset |-> rec.offset]]

(* apply: a commit is inserted unless a later one already has been.        *)
ApplyOffset(held, version, rec) ==
    IF held[rec.key].version >= version THEN held
    ELSE [held EXCEPT ![rec.key] = [version |-> version, offset |-> rec.offset]]

(* GroupCoordinator::transition and set_roster, as serve and replay drive  *)
(* them: a group left by everyone has no roster. In a replay an event the  *)
(* table has no edge for poisons the group: it is skipped, and so is all   *)
(* the log says of the group after it.                                     *)
ApplyGroup(group, rec) ==
    IF group.poisoned \/ rec.kind = "offset" THEN group
    ELSE IF rec.kind = "roster" THEN [group EXCEPT !.roster = rec.members]
    ELSE IF ~Legal(group.state, rec.event) THEN [group EXCEPT !.poisoned = TRUE]
    ELSE [group EXCEPT
            !.state = Successor(group.state, rec.event),
            !.generation = IF rec.event = "JoinBarrierComplete" THEN @ + 1 ELSE @,
            !.known = TRUE,
            !.roster = IF rec.event \in {"AllMembersGone", "Expire"} THEN "none" ELSE @]

(* Which groups are poisoned is known to the replay alone: what it hands   *)
(* over is a group like any other, in the state the log's good part left.  *)
Handed(group) == IF group.poisoned THEN [group EXCEPT !.poisoned = FALSE] ELSE group

(* The two over a run of records, in the order of the log.                 *)
FoldOffsets(held, from, page) ==
    LET folded[i \in 0 .. Len(page)] ==
            IF i = 0 THEN held
            ELSE IF page[i].kind # "offset" THEN folded[i - 1]
            ELSE ApplyOffset(folded[i - 1], from + i - 1, page[i])
    IN  folded[Len(page)]

FoldGroup(group, page) ==
    LET folded[i \in 0 .. Len(page)] ==
            IF i = 0 THEN group ELSE ApplyGroup(folded[i - 1], page[i])
    IN  folded[Len(page)]

-----------------------------------------------------------------------------
(* replay_groups. A log that cannot be opened fails the half that asked,   *)
(* and the other is tried; once open, it is read from memory.              *)
OtherHalf(half) == IF half = "offsets" THEN "transitions" ELSE "offsets"

OpenFails ==
    /\ ~ready /\ replay.at = 1 /\ replay.done = {} /\ nextSeq = 0
    /\ replay' = [replay EXCEPT !.half = OtherHalf(@)]
    /\ UNCHANGED <<glog, nextSeq, offsets, record, ready, write, answered, refused, errs, boots>>

ReplayPage(from) == SubSeq(glog, from, IF from + REPLAY_PAGE - 1 < Len(glog)
                                 THEN from + REPLAY_PAGE - 1 ELSE Len(glog))

(* A short page is the last one.                                           *)
LastPage(page) == Len(page) < REPLAY_PAGE

(* The half is done: the other is next, or the replay is over.             *)
HalfDone ==
    [replay EXCEPT !.done = @ \cup {replay.half}, !.at = 1,
                 !.half = IF replay.done = {} THEN OtherHalf(@) ELSE "done"]

ReplayOffsets ==
    LET page == ReplayPage(replay.at)
        built == FoldOffsets(replay.offsets, replay.at, page)
    IN  /\ ~ready /\ replay.half = "offsets"
        /\ nextSeq' = Len(glog)
        /\ IF LastPage(page) THEN offsets' = built /\ replay' = HalfDone
           ELSE replay' = [replay EXCEPT !.at = @ + Len(page), !.offsets = built] /\ UNCHANGED offsets
        /\ UNCHANGED <<glog, record, ready, write, answered, refused, errs, boots>>

ReplayTransitions ==
    LET page == ReplayPage(replay.at)
    IN  /\ ~ready /\ replay.half = "transitions"
        /\ nextSeq' = Len(glog)
        /\ record' = FoldGroup(record, page)
        /\ replay' = IF LastPage(page) THEN HalfDone ELSE [replay EXCEPT !.at = @ + Len(page)]
        /\ UNCHANGED <<glog, offsets, ready, write, answered, refused, errs, boots>>

MarkReady ==
    /\ ~ready /\ replay.half = "done"
    /\ ready' = TRUE
    /\ replay' = [Booting EXCEPT !.half = "done", !.upto = nextSeq]
    /\ record' = Handed(record)
    /\ UNCHANGED <<glog, nextSeq, offsets, write, answered, refused, errs, boots>>

-----------------------------------------------------------------------------
(* fence: not while loading, and only for a known group, at its generation *)
(* and stable; asked once for all the partitions of a commit.              *)
FencedOut(generation) ==
    /\ ready /\ record.known
    /\ record.generation = generation /\ record.state = "Stable"

Propose(w, rec, rest) ==
    write' = [write EXCEPT ![w] = [IdleWrite EXCEPT !.pc = "last_version", !.rec = rec, !.rest = rest]]

(* A client of this generation commits, one partition or several.          *)
OffsetCommit(c, keys) ==
    /\ write[c].pc = "idle" /\ Len(glog) < MaxLog
    /\ FencedOut(record.generation)
    /\ Propose(c, OffsetCommitted(Head(keys), c), Tail(keys))
    /\ UNCHANGED <<glog, nextSeq, offsets, record, replay, ready, answered, refused, errs, boots>>

(* serve takes a request: an event is checked against the table first.     *)
ActorTakes(rec) ==
    /\ ready /\ write[TransitionsTask].pc = "idle" /\ Len(glog) < MaxLog
    /\ rec.kind = "event" => Legal(record.state, rec.event)
    /\ Propose(TransitionsTask, rec, <<>>)
    /\ UNCHANGED <<glog, nextSeq, offsets, record, replay, ready, answered, refused, errs, boots>>

LastVersion(w) ==
    /\ write[w].pc = "last_version"
    /\ write' = [write EXCEPT ![w].pc = "append", ![w].seen = nextSeq]
    /\ UNCHANGED <<glog, nextSeq, offsets, record, replay, ready, answered, refused, errs, boots>>

(* A writer is through with its record, appended or not: a commit goes on  *)
(* to the next partition of its request.                                   *)
GoesOn(w) ==
    IF w = TransitionsTask \/ write[w].rest = <<>> \/ Len(glog) >= MaxLog THEN IdleWrite
    ELSE [IdleWrite EXCEPT !.pc = "last_version",
                           !.rec = OffsetCommitted(Head(write[w].rest), w),
                           !.rest = Tail(write[w].rest)]

(* Segments::append: a version the process knows to be taken is refused,   *)
(* and its writer asks again.                                              *)
NonMonotonic(w) ==
    /\ write[w].pc = "append" /\ write[w].seen # nextSeq
    /\ IF write[w].tries + 1 < MAX_RETRIES
       THEN write' = [write EXCEPT ![w].pc = "last_version", ![w].tries = @ + 1]
       ELSE write' = [write EXCEPT ![w] = GoesOn(w)]
    /\ UNCHANGED <<glog, nextSeq, offsets, record, replay, ready, answered, refused, errs, boots>>

Sends(w) ==
    /\ write[w].pc = "append" /\ write[w].seen = nextSeq
    /\ write' = [write EXCEPT ![w].pc = "put"]
    /\ UNCHANGED <<glog, nextSeq, offsets, record, replay, ready, answered, refused, errs, boots>>

(* The conditional PUT of the next segment.                                *)
PutLandsAt(w) == glog' = Append(glog, write[w].rec)
GroupPuts(w) ==
    /\ write[w].pc = "put" /\ Len(glog) = write[w].seen
    /\ PutLandsAt(w)
    /\ write' = [write EXCEPT ![w].pc = "landed"]
    /\ UNCHANGED <<nextSeq, offsets, record, replay, ready, answered, refused, errs, boots>>

(* The segment was there already: PreconditionFailed, which is no error    *)
(* the writer asks again after.                                            *)
PreconditionFailed(w) ==
    /\ write[w].pc = "put" /\ Len(glog) # write[w].seen
    /\ write' = [write EXCEPT ![w] = GoesOn(w)]
    /\ refused' = refused \cup {"raced"}
    /\ UNCHANGED <<glog, nextSeq, offsets, record, replay, ready, answered, errs, boots>>

(* The store fails the PUT, which may have landed all the same.            *)
PutFails(w, landed) ==
    /\ write[w].pc = "put" /\ errs < MaxErrs
    /\ landed => Len(glog) = write[w].seen
    /\ IF landed THEN PutLandsAt(w) ELSE UNCHANGED glog
    /\ errs' = errs + 1
    /\ write' = [write EXCEPT ![w] = GoesOn(w)]
    /\ refused' = refused \cup {"store"}
    /\ UNCHANGED <<nextSeq, offsets, record, replay, ready, answered, boots>>

Advances(w) ==
    /\ write[w].pc = "landed"
    /\ nextSeq' = write[w].seen + 1
    /\ write' = [write EXCEPT ![w].pc = "apply"]
    /\ UNCHANGED <<glog, offsets, record, replay, ready, answered, refused, errs, boots>>

(* commit: inserted, acknowledged, and on to the next partition.           *)
Acknowledge(c) ==
    LET rec == write[c].rec
    IN  /\ write[c].pc = "apply"
        /\ offsets' = ApplyOffset(offsets, write[c].seen + 1, rec)
        /\ answered' = [answered EXCEPT ![rec.key] = IF @ < write[c].seen + 1 THEN write[c].seen + 1 ELSE @]
        /\ write' = [write EXCEPT ![c] = GoesOn(c)]
        /\ UNCHANGED <<glog, nextSeq, record, replay, ready, refused, errs, boots>>

(* handle_one, update_roster: durable first, then applied.                 *)
ActorApplies ==
    /\ write[TransitionsTask].pc = "apply"
    /\ record' = ApplyGroup(record, write[TransitionsTask].rec)
    /\ write' = [write EXCEPT ![TransitionsTask] = IdleWrite]
    /\ UNCHANGED <<glog, nextSeq, offsets, replay, ready, answered, refused, errs, boots>>

(* The process stops, and boots again with nothing but the log.            *)
Reboot ==
    /\ boots < MaxBoots
    /\ boots' = boots + 1
    /\ nextSeq' = 0 /\ record' = FreshRecord
    /\ replay' = Booting /\ ready' = FALSE
    /\ offsets' = [k \in PartitionKey |-> NoOffset]
    /\ write' = [w \in Writer |-> IdleWrite]
    /\ UNCHANGED <<glog, answered, refused, errs>>

GroupLogNext ==
    \/ OpenFails \/ ReplayOffsets \/ ReplayTransitions \/ MarkReady
    \/ \E c \in Committer, keys \in Requested : OffsetCommit(c, keys)
    \/ \E c \in Committer : Acknowledge(c)
    \/ \E e \in GroupEvents : ActorTakes(GroupTransitioned(e))
    \/ ActorTakes(GroupRosterUpdated("members"))
    \/ \E w \in Writer : LastVersion(w) \/ NonMonotonic(w) \/ Sends(w) \/ GroupPuts(w)
                         \/ PreconditionFailed(w) \/ Advances(w)
    \/ \E w \in Writer, b \in BOOLEAN : PutFails(w, b)
    \/ ActorApplies \/ Reboot

GroupLogSpec == GroupLogInit /\ [][GroupLogNext]_groupLogVars

-----------------------------------------------------------------------------
(* offset_fetch: nothing while the replay is under way.                    *)
OffsetFetch(k) == IF ready THEN offsets[k] ELSE [error |-> "COORDINATOR_LOAD_IN_PROGRESS"]

(* A consumer that fetches is never sent back before a commit it was       *)
(* acknowledged, however commits of one key race to be inserted and        *)
(* whatever restarts come between: it is given that commit or a later one, *)
(* and one the log holds.                                                  *)
OffsetsServed ==
    \A k \in PartitionKey : ready =>
        LET held == OffsetFetch(k)
        IN  /\ held.version >= answered[k]
            /\ held.version > 0 => glog[held.version] = OffsetCommitted(k, held.offset)

(* Each half of the replay folds the log once, whole, whatever its pages   *)
(* and whichever half had to be tried again. A process that knows the      *)
(* whole log serves the record its replay handed over with every event     *)
(* since applied to it; and where the log holds no event the table has no  *)
(* edge for, that is the record its log tells, so a restart changes        *)
(* nothing.                                                                *)
Told == FoldGroup(FreshRecord, glog)
Replayed(n) == Handed(FoldGroup(FreshRecord, SubSeq(glog, 1, n)))
Since(n) == FoldGroup(Replayed(n), SubSeq(glog, n + 1, Len(glog)))
Current == ready /\ nextSeq = Len(glog) /\ write[TransitionsTask].pc # "apply"

GroupRestored ==
    Current => /\ record = Since(replay.upto)
               /\ ~Told.poisoned => record = Told

(* GroupTransitionsTask::replay: re-firing the events of the log is        *)
(* "equivalent to what happened live before a restart".                    *)
RestartEquivalent == Current => record = Handed(Told)

(* append_durably: "A racing writer ... landed first; retry against the    *)
(* new last_version rather than fail a legal transition."                  *)
RacesRetried == "raced" \in refused => "store" \in refused

(* What a group's clients and its handlers are served is what its log says.*)
GroupsServed == OffsetsServed /\ GroupRestored
=============================================================================
