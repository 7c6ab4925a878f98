------------------------------ MODULE Catalog ------------------------------
(***************************************************************************)
(* Topics in object storage and in front of it: what creating, deleting,   *)
(* finding and configuring one topic name does to its objects, one request *)
(* at a time, and to the cache, the lifecycle lock and the grants of each  *)
(* broker.                                                                 *)
(*   oqueue-core/src/catalog/stored.rs, stored/{delete,config}.rs,         *)
(*   oqueue-broker/src/cluster/topics.rs, {create,delete}_topics.rs,       *)
(*   alter_configs.rs, dispatch.rs (hydrate_creator_grants)                *)
(* An entry is the principal who created it: the id is a function of the   *)
(* name. Any call may end in an error or a timeout at any await, and the   *)
(* write it was making may land later.                                     *)
(***************************************************************************)
EXTENDS Naturals, FiniteSets

CONSTANTS
    Broker,
    Creators,    \* principals
    Jobs         \* what the callers do: functions from a caller to its call

Nobody == "nobody"
Caller == UNION {DOMAIN j : j \in Jobs}

ASSUME CatalogAssumption ==
    /\ Nobody \notin Caller /\ {Nobody, "absent", "deleted"} \cap Creators = {}
    /\ \A j \in Jobs : DOMAIN j = Caller /\ \A c \in Caller :
           /\ j[c].at \in Broker
           /\ j[c].op \in {"create", "hydrate"} => j[c].by \in Creators

VARIABLES
    store,     \* the objects of the name
    cache,     \* each broker's TopicCache
    gen,       \* its cache_generation
    guards,    \* its topic_lifecycle lock: readers, and the writer
    grants,    \* its TopicGrants: who holds one on the topic
    loads,     \* its creator_topic_loads: what each creator's list says
    wanted,    \* the calls of this run
    call,      \* each call in progress
    late,      \* writes whose caller is gone
    told,      \* the outcome of each call
    journal    \* the last retention journalled; "?" once an alter failed

catalogVars == <<store, cache, gen, guards, grants, loads, wanted, call, late, told, journal>>

NoServed == [entry |-> Nobody, fresh |-> FALSE]

CatalogInit ==
    /\ store = [topic |-> Nobody, id |-> FALSE, owner |-> {}, tombstone |-> Nobody,
                retention |-> "unset"]
    /\ cache = [b \in Broker |-> NoServed]
    /\ gen = [b \in Broker |-> 0]
    /\ guards = [b \in Broker |-> [readers |-> {}, writer |-> Nobody]]
    /\ grants = [b \in Broker |-> {}]
    /\ loads = [b \in Broker |-> [c \in Creators |-> "unloaded"]]
    /\ wanted \in Jobs
    /\ call = [c \in Caller |-> [pc |-> "start", ret |-> "", entry |-> Nobody, gen |-> 0]]
    /\ late = {}
    /\ told = [c \in Caller |-> "nothing"]
    /\ journal = "unset"

At(c)    == wanted[c].at
CatalogEntry(c) == call[c].entry

-----------------------------------------------------------------------------
(* topic_lifecycle_read and _write: creating and hydrating read, deleting  *)
(* and altering write, finding takes no guard.                             *)
Reads  == {"create", "hydrate"}
Writes == {"delete", "alter"}

Locks(c) ==
    \/ wanted[c].op = "lookup" /\ UNCHANGED guards
    \/ /\ wanted[c].op \in Reads /\ guards[At(c)].writer = Nobody
       /\ guards' = [guards EXCEPT ![At(c)].readers = @ \cup {c}]
    \/ /\ wanted[c].op \in Writes /\ guards[At(c)] = [readers |-> {}, writer |-> Nobody]
       /\ guards' = [guards EXCEPT ![At(c)].writer = c]

Unlocks(c) ==
    guards' = [guards EXCEPT ![At(c)] =
        [readers |-> @.readers \ {c}, writer |-> IF @.writer = c THEN Nobody ELSE @.writer]]

Goto(c, pc) == call' = [call EXCEPT ![c].pc = pc]
Tells(c, outcome) ==
    /\ told' = [told EXCEPT ![c] = outcome]
    /\ Goto(c, "done")
    /\ Unlocks(c)

(* A find for the sake of a step; it comes back there with what it found.  *)
Finds(c, ret) == call' = [call EXCEPT ![c].pc = "find", ![c].ret = ret]
Found(c, entry) == call' = [call EXCEPT ![c].pc = call[c].ret, ![c].entry = entry]

(* Mutant of RememberIf: what was found is remembered whatever happened.   *)
RememberIfFound(b, entry, seen) == [entry |-> entry, fresh |-> TRUE]

(* remember_if_generation.                                                 *)
RememberIf(b, entry, seen) ==
    IF gen[b] = seen THEN [entry |-> entry, fresh |-> TRUE] ELSE cache[b]

(* forget, forget_name, forget_topic_name.                                 *)
ForgetTopic(b) ==
    /\ gen' = [gen EXCEPT ![b] = @ + 1]
    /\ cache' = [cache EXCEPT ![b] = NoServed]

-----------------------------------------------------------------------------
(* The start of each call. served answers from a fresh entry, and forgets  *)
(* a stale one before it asks the catalog.                                 *)
Start(c, op) == call[c].pc = "start" /\ wanted[c].op = op /\ Locks(c)

StartCreate(c) ==
    /\ Start(c, "create")
    /\ call' = [call EXCEPT ![c].pc = "tombstone?", ![c].gen = gen[At(c)],
                            ![c].entry = wanted[c].by]
    /\ UNCHANGED <<store, cache, gen, grants, loads, wanted, late, told, journal>>

StartDelete(c) ==
    /\ Start(c, "delete")
    /\ Goto(c, "deleted?")
    /\ UNCHANGED <<store, cache, gen, grants, loads, wanted, late, told, journal>>

Served(c, op) ==
    /\ Start(c, op)
    /\ IF cache[At(c)].fresh
       THEN /\ call' = [call EXCEPT ![c].pc = "served", ![c].gen = gen[At(c)],
                                    ![c].entry = cache[At(c)].entry]
            /\ UNCHANGED <<cache, gen>>
       ELSE /\ IF cache[At(c)] = NoServed THEN UNCHANGED <<cache, gen>> ELSE ForgetTopic(At(c))
            /\ call' = [call EXCEPT ![c].pc = "find", ![c].ret = "served", ![c].gen = gen'[At(c)]]
    /\ UNCHANGED <<store, grants, loads, wanted, late, told, journal>>

(* The entry's second lapses.                                              *)
Expire(b) ==
    /\ cache[b].fresh
    /\ cache' = [cache EXCEPT ![b].fresh = FALSE]
    /\ UNCHANGED <<store, gen, guards, grants, loads, wanted, call, late, told, journal>>

-----------------------------------------------------------------------------
(* find: no tombstone, an entry, its id, and still no tombstone.           *)
FindTombstone(c) ==
    /\ call[c].pc \in {"find", "find again"}
    /\ IF store.tombstone # Nobody THEN Found(c, Nobody)
       ELSE IF call[c].pc = "find" THEN Goto(c, "find entry")
       ELSE Found(c, CatalogEntry(c))
    /\ UNCHANGED <<store, cache, gen, guards, grants, loads, wanted, late, told, journal>>

FindEntry(c) ==
    /\ call[c].pc = "find entry"
    /\ IF store.topic = Nobody THEN Found(c, Nobody)
       ELSE call' = [call EXCEPT ![c].pc = "find id", ![c].entry = store.topic]
    /\ UNCHANGED <<store, cache, gen, guards, grants, loads, wanted, late, told, journal>>

FindId(c) ==
    /\ call[c].pc = "find id"
    /\ IF store.id THEN Goto(c, "find again") ELSE Found(c, Nobody)
    /\ UNCHANGED <<store, cache, gen, guards, grants, loads, wanted, late, told, journal>>

(* Mutant of PutAbsent: a PUT that replaces what is there.                    *)
PutAbsentOver(held, entry) == entry

(* put_absent: a PUT that only creates.                                    *)
PutAbsent(held, entry) == IF held = Nobody THEN entry ELSE held

(* What each write does to the objects of the name; a creation is of what  *)
(* is absent, and delete_live_indexes leaves the tombstone alone.          *)
Written(pc, entry) ==
    CASE pc = "put owner"     -> [store EXCEPT !.owner = @ \cup {entry}]
      [] pc = "put topic"     -> [store EXCEPT !.topic = PutAbsent(@, entry)]
      [] pc \in {"put id", "heal id"} -> [store EXCEPT !.id = TRUE]
      [] pc = "put tombstone" -> [store EXCEPT !.tombstone = PutAbsent(@, entry)]
      [] pc \in {"purge", "withdraw"} ->
             [store EXCEPT !.topic = Nobody, !.id = FALSE, !.retention = "unset", !.owner = @ \ {entry}]
      [] pc = "put retention" -> [store EXCEPT !.retention = entry]
Writing == {"put owner", "put topic", "put id", "heal id", "put tombstone", "purge",
            "withdraw", "put retention"}
(* The write a call that is dropped leaves behind.                         *)
InFlight(c) ==
    IF call[c].pc \in Writing THEN {[pc |-> call[c].pc, entry |-> CatalogEntry(c)]} ELSE {}
Puts(c) ==
    /\ store' = Written(call[c].pc, CatalogEntry(c))
    /\ UNCHANGED <<cache, gen, guards, grants, loads, wanted, late, told, journal>>

-----------------------------------------------------------------------------
(* insert_owned: the owner's key first, then the name, its id, and a look  *)
(* for the tombstone a delete may have left meanwhile.                     *)
CreateReserved(c) ==
    /\ call[c].pc \in {"tombstone?", "race", "heal"} /\ store.tombstone # Nobody
    /\ Tells(c, "reserved")
    /\ UNCHANGED <<store, cache, gen, grants, loads, wanted, late, journal>>

CreateAllowed(c) ==
    /\ call[c].pc = "tombstone?" /\ store.tombstone = Nobody
    /\ Goto(c, "put owner")
    /\ UNCHANGED <<store, cache, gen, guards, grants, loads, wanted, late, told, journal>>

PutOwner(c) == call[c].pc = "put owner" /\ Puts(c) /\ Goto(c, "put topic")

PutTopic(c) ==
    /\ call[c].pc = "put topic" /\ Puts(c)
    /\ Goto(c, IF store.topic = Nobody THEN "put id" ELSE "race")

PutId(c) == call[c].pc = "put id" /\ Puts(c) /\ Goto(c, "created?")

(* reject_if_tombstoned.                                                   *)
RejectTombstoned(c) ==
    /\ call[c].pc = "created?" /\ store.tombstone # Nobody
    /\ Goto(c, "withdraw")
    /\ UNCHANGED <<store, cache, gen, guards, grants, loads, wanted, late, told, journal>>

Withdraw(c) ==
    /\ call[c].pc = "withdraw"
    /\ store' = Written("withdraw", CatalogEntry(c))
    /\ Tells(c, "reserved")
    /\ UNCHANGED <<cache, gen, grants, loads, wanted, late, journal>>

(* create_one: remembered, the creator's list dropped, the grant made, and *)
(* only then the guard released.                                           *)
Created(c) ==
    /\ call[c].pc = "created?" /\ store.tombstone = Nobody
    /\ cache' = [cache EXCEPT ![At(c)] = RememberIf(At(c), CatalogEntry(c), call[c].gen)]
    /\ loads' = [loads EXCEPT ![At(c)][wanted[c].by] = "unloaded"]
    /\ Goto(c, "grant")
    /\ UNCHANGED <<store, gen, guards, grants, wanted, late, told, journal>>

Granted(c) ==
    /\ call[c].pc = "grant"
    /\ grants' = [grants EXCEPT ![At(c)] = @ \cup {wanted[c].by}]
    /\ Tells(c, "created")
    /\ UNCHANGED <<store, cache, gen, loads, wanted, late, journal>>

(* find_after_race: the entry that won, its id written for it if it was    *)
(* not, and found by everyone before it is answered.                       *)
Race(c) ==
    /\ call[c].pc = "race" /\ store.tombstone = Nobody
    /\ Goto(c, "race entry")
    /\ UNCHANGED <<store, cache, gen, guards, grants, loads, wanted, late, told, journal>>

RaceEntry(c) ==
    /\ call[c].pc = "race entry"
    /\ call' = [call EXCEPT ![c].pc = IF store.topic = Nobody THEN "race" ELSE "heal id",
                            ![c].entry = store.topic]
    /\ UNCHANGED <<store, cache, gen, guards, grants, loads, wanted, late, told, journal>>

HealId(c) == call[c].pc = "heal id" /\ Puts(c) /\ Finds(c, "raced")

Raced(c) ==
    /\ call[c].pc = "raced"
    /\ IF CatalogEntry(c) = Nobody
       THEN Goto(c, "race") /\ UNCHANGED <<cache, guards, told>>
       ELSE /\ cache' = [cache EXCEPT ![At(c)] = RememberIf(At(c), CatalogEntry(c), call[c].gen)]
            /\ Tells(c, "exists")
    /\ UNCHANGED <<store, gen, grants, loads, wanted, late, journal>>

-----------------------------------------------------------------------------
(* delete_topic: the tombstone first, then the live objects; a name        *)
(* already deleted has what is left of it removed again.                   *)
DeleteLooks(c) ==
    /\ call[c].pc = "deleted?"
    /\ IF store.tombstone # Nobody
       THEN call' = [call EXCEPT ![c].pc = "purge", ![c].entry = store.tombstone]
       ELSE Goto(c, "delete entry")
    /\ UNCHANGED <<store, cache, gen, guards, grants, loads, wanted, late, told, journal>>

DeleteMissing(c) ==
    /\ call[c].pc = "delete entry" /\ store.topic = Nobody
    /\ Tells(c, "missing")
    /\ UNCHANGED <<store, cache, gen, grants, loads, wanted, late, journal>>

DeleteEntry(c) ==
    /\ call[c].pc = "delete entry" /\ store.topic # Nobody
    /\ call' = [call EXCEPT ![c].pc = "put tombstone", ![c].entry = store.topic]
    /\ UNCHANGED <<store, cache, gen, guards, grants, loads, wanted, late, told, journal>>

PutTombstone(c) ==
    /\ call[c].pc = "put tombstone" /\ Puts(c)
    /\ Goto(c, IF store.tombstone = Nobody THEN "purge" ELSE "deleted?")

Purge(c) == call[c].pc = "purge" /\ Puts(c) /\ Goto(c, "forget")

(* Cluster::delete_topic: forgotten under the guard; delete_one revokes    *)
(* the grants once the guard is gone.                                      *)
ForgetDeleted(c) ==
    /\ call[c].pc = "forget"
    /\ ForgetTopic(At(c))
    /\ loads' = [loads EXCEPT ![At(c)] = [q \in Creators |-> "unloaded"]]
    /\ Unlocks(c)
    /\ Goto(c, "revoke")
    /\ UNCHANGED <<store, grants, wanted, late, told, journal>>

Revoke(c) ==
    /\ call[c].pc = "revoke"
    /\ grants' = [grants EXCEPT ![At(c)] = {}]
    /\ Tells(c, "deleted")
    /\ UNCHANGED <<store, cache, gen, loads, wanted, late, journal>>

(* A delete that failed looks, still holding the guard, whether the topic  *)
(* is gone, and evicts it if so; then, like one that ran out of time,      *)
(* reconcile_interrupted_delete looks once more without it.                *)
Deleting == {"deleted?", "delete entry", "put tombstone", "purge"}
DeleteFails(c) ==
    /\ call[c].pc \in Deleting
    /\ Finds(c, "evict")
    /\ late' = late \cup InFlight(c)
    /\ UNCHANGED <<store, cache, gen, guards, grants, loads, wanted, told, journal>>

EvictAbsent(c) ==
    /\ call[c].pc = "evict"
    /\ IF CatalogEntry(c) = Nobody
       THEN /\ ForgetTopic(At(c))
            /\ loads' = [loads EXCEPT ![At(c)] = [q \in Creators |-> "unloaded"]]
       ELSE UNCHANGED <<cache, gen, loads>>
    /\ Unlocks(c)
    /\ Finds(c, "reconcile")
    /\ UNCHANGED <<store, grants, wanted, late, told, journal>>

Reconcile(c) ==
    /\ call[c].pc = "reconcile"
    /\ IF CatalogEntry(c) = Nobody
       THEN /\ ForgetTopic(At(c))
            /\ loads' = [loads EXCEPT ![At(c)] = [q \in Creators |-> "unloaded"]]
            /\ grants' = [grants EXCEPT ![At(c)] = {}]
       ELSE UNCHANGED <<cache, gen, loads, grants>>
    /\ Tells(c, "failed")
    /\ UNCHANGED <<store, wanted, late, journal>>

-----------------------------------------------------------------------------
(* served's answer is what the cache holds once it has been remembered.    *)
LookedUp(c) ==
    /\ call[c].pc = "served" /\ wanted[c].op = "lookup"
    /\ cache' = IF CatalogEntry(c) = Nobody THEN cache
                ELSE [cache EXCEPT ![At(c)] = RememberIf(At(c), CatalogEntry(c), call[c].gen)]
    /\ Tells(c, IF CatalogEntry(c) # Nobody /\ cache'[At(c)] # NoServed THEN "served" ELSE "unknown")
    /\ UNCHANGED <<store, gen, grants, loads, wanted, late, journal>>

(* alter_one: a topic served, then write_retention between two finds, then *)
(* the record in the metadata log.                                         *)
AlterServed(c) ==
    /\ call[c].pc = "served" /\ wanted[c].op = "alter"
    /\ cache' = IF CatalogEntry(c) = Nobody THEN cache
                ELSE [cache EXCEPT ![At(c)] = RememberIf(At(c), CatalogEntry(c), call[c].gen)]
    /\ IF CatalogEntry(c) # Nobody /\ cache'[At(c)] # NoServed
       THEN Finds(c, "alter") /\ UNCHANGED <<guards, told>>
       ELSE Tells(c, "unknown")
    /\ UNCHANGED <<store, gen, grants, loads, wanted, late, journal>>

AlterUnknown(c) ==
    /\ call[c].pc \in {"alter", "altered"} /\ CatalogEntry(c) = Nobody
    /\ Tells(c, "unknown")
    /\ journal' = IF call[c].pc = "altered" THEN "?" ELSE journal
    /\ UNCHANGED <<store, cache, gen, grants, loads, wanted, late>>

AlterFound(c) ==
    /\ call[c].pc = "alter" /\ CatalogEntry(c) # Nobody
    /\ call' = [call EXCEPT ![c].pc = "put retention", ![c].entry = wanted[c].by]
    /\ UNCHANGED <<store, cache, gen, guards, grants, loads, wanted, late, told, journal>>

PutRetention(c) == call[c].pc = "put retention" /\ Puts(c) /\ Finds(c, "altered")

Journal(c) ==
    /\ call[c].pc = "altered" /\ CatalogEntry(c) # Nobody
    /\ journal' = IF journal = "?" THEN "?" ELSE wanted[c].by
    /\ Tells(c, "altered")
    /\ UNCHANGED <<store, cache, gen, grants, loads, wanted, late>>

-----------------------------------------------------------------------------
(* hydrate_creator_grants: the names the creator's list gives, loaded once *)
(* and kept, and of those the ones still there.                            *)
Listed(c) == loads[At(c)][wanted[c].by]
StartHydrate(c) ==
    /\ Start(c, "hydrate")
    /\ IF Listed(c) = "listed" THEN Finds(c, "hydrate") ELSE Goto(c, "list")
    /\ UNCHANGED <<store, cache, gen, grants, loads, wanted, late, told, journal>>

(* list_owned: the keys under the owner's prefix whose entry is theirs. A  *)
(* list the creator's own create has dropped meanwhile is used, not kept.  *)
ListOwned(c) ==
    /\ call[c].pc = "list"
    /\ IF Listed(c) = "unlisted" \/ wanted[c].by \notin store.owner
       THEN Goto(c, "list empty")
       ELSE Finds(c, "list found")
    /\ loads' = [loads EXCEPT ![At(c)][wanted[c].by] = IF @ = "unloaded" THEN "loading" ELSE @]
    /\ UNCHANGED <<store, cache, gen, guards, grants, wanted, late, told, journal>>

ListedNone(c) ==
    /\ \/ call[c].pc = "list empty"
       \/ call[c].pc = "list found" /\ CatalogEntry(c) # wanted[c].by
    /\ loads' = [loads EXCEPT ![At(c)][wanted[c].by] = IF @ = "loading" THEN "unlisted" ELSE @]
    /\ Tells(c, "hydrated")
    /\ UNCHANGED <<store, cache, gen, grants, wanted, late, journal>>

ListedOne(c) ==
    /\ call[c].pc = "list found" /\ CatalogEntry(c) = wanted[c].by
    /\ loads' = [loads EXCEPT ![At(c)][wanted[c].by] = IF @ = "loading" THEN "listed" ELSE @]
    /\ Finds(c, "hydrate")
    /\ UNCHANGED <<store, cache, gen, guards, grants, wanted, late, told, journal>>

Hydrated(c) ==
    /\ call[c].pc = "hydrate"
    /\ grants' = [grants EXCEPT ![At(c)] =
           IF CatalogEntry(c) = Nobody THEN {} ELSE @ \cup {wanted[c].by}]
    /\ Tells(c, "hydrated")
    /\ UNCHANGED <<store, cache, gen, loads, wanted, late, journal>>

-----------------------------------------------------------------------------
(* Any call may be dropped where it waits: its guard goes, and the write   *)
(* it was making may still land. A delete goes on to reconcile.            *)
Waiting == Writing \cup Deleting \cup
           {"find", "find entry", "find id", "find again", "tombstone?", "race",
            "race entry", "created?", "list"}
DroppedTopic(c) ==
    /\ call[c].pc \in Waiting
    /\ call[c].ret # "reconcile"
    /\ late' = late \cup InFlight(c)
    /\ journal' = IF call[c].pc = "put retention" \/ call[c].ret = "altered" THEN "?" ELSE journal
    /\ loads' = IF wanted[c].op # "hydrate" THEN loads
                ELSE [loads EXCEPT ![At(c)][wanted[c].by] = IF @ = "loading" THEN "unloaded" ELSE @]
    /\ IF wanted[c].op = "delete"
       THEN Unlocks(c) /\ Finds(c, "reconcile") /\ UNCHANGED told
       ELSE Tells(c, "failed")
    /\ UNCHANGED <<store, cache, gen, grants, wanted>>

LateLands(w) ==
    /\ w \in late
    /\ store' = Written(w.pc, w.entry)
    /\ late' = late \ {w}
    /\ UNCHANGED <<cache, gen, guards, grants, loads, wanted, call, told, journal>>

CatalogNext ==
    \/ \E c \in Caller :
        \/ StartCreate(c) \/ StartDelete(c) \/ StartHydrate(c)
        \/ Served(c, "lookup") \/ Served(c, "alter")
        \/ FindTombstone(c) \/ FindEntry(c) \/ FindId(c)
        \/ CreateReserved(c) \/ CreateAllowed(c) \/ PutOwner(c) \/ PutTopic(c) \/ PutId(c)
        \/ RejectTombstoned(c) \/ Withdraw(c) \/ Created(c) \/ Granted(c)
        \/ Race(c) \/ RaceEntry(c) \/ HealId(c) \/ Raced(c)
        \/ DeleteLooks(c) \/ DeleteMissing(c) \/ DeleteEntry(c) \/ PutTombstone(c)
        \/ Purge(c) \/ ForgetDeleted(c) \/ Revoke(c)
        \/ DeleteFails(c) \/ EvictAbsent(c) \/ Reconcile(c)
        \/ LookedUp(c) \/ AlterServed(c) \/ AlterUnknown(c) \/ AlterFound(c)
        \/ PutRetention(c) \/ Journal(c)
        \/ ListOwned(c) \/ ListedNone(c) \/ ListedOne(c) \/ Hydrated(c)
        \/ DroppedTopic(c)
    \/ \E b \in Broker : Expire(b)
    \/ \E w \in late : LateLands(w)

CatalogSpec == CatalogInit /\ [][CatalogNext]_catalogVars

-----------------------------------------------------------------------------
(* What a find would answer.                                               *)
Visible == store.tombstone = Nobody /\ store.topic # Nobody /\ store.id

TopicNow == IF store.tombstone # Nobody THEN "deleted"
            ELSE IF Visible THEN store.topic ELSE "absent"
Topic == INSTANCE TopicCatalog WITH topic <- TopicNow

(* The objects, written one by one by calls that race, fail half-way and   *)
(* land late, are one topic that is created once and deleted for good.     *)
CatalogImplements == Topic!TopicSpec

(* A topic a broker has answered as deleted is forgotten there for good:   *)
(* neither a lookup that was under way nor a create or a hydration that    *)
(* was about to grant it brings it back into that broker's cache or grants.*)
DeletedForgotten ==
    \A c \in Caller : told[c] = "deleted" =>
        /\ cache[At(c)].entry = Nobody
        /\ grants[At(c)] = {}

(* A principal told that its topic exists, created or found, is answered   *)
(* the one entry there ever is; and while the topic can be found, its      *)
(* creator's list names it.                                                *)
CreatorLists ==
    /\ Visible => store.topic \in store.owner
    /\ \A c, d \in Caller : told[c] = "created" /\ told[d] = "created" => c = d
    /\ \A c \in Caller : told[c] = "created" /\ store.tombstone = Nobody =>
           Visible /\ store.topic = wanted[c].by

(* Alters on two brokers hold two locks, and may be written in one order   *)
(* and journalled in the other.                                            *)
AltersAtOneBroker ==
    \A j \in Jobs : \A c, d \in Caller :
        j[c].op = "alter" /\ j[d].op = "alter" => j[c].at = j[d].at

(* The retention a describe reads is the one the metadata log, and so the  *)
(* follower that expires records, was told of last: however alters race on *)
(* one broker, as long as none of them failed.                             *)
RetentionJournalled ==
    (\A b \in Broker : guards[b].writer = Nobody) /\ journal # "?" /\ late = {} /\ Visible
        => store.retention = journal

(* A topic looks the same from every side: the cache and the grants of a   *)
(* broker, its creator's list, and the log.                                *)
TopicsSound == DeletedForgotten /\ CreatorLists /\ RetentionJournalled
=============================================================================
