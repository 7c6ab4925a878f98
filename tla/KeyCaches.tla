----------------------------- MODULE KeyCaches -----------------------------
(***************************************************************************)
(* The two caches of data encryption keys: a writer's live key of a topic, *)
(* retired by volume, age or a change of the customer's key, and a         *)
(* reader's keys unwrapped from what is stored. Several tasks wait on the  *)
(* key service at once, on a wall clock that may step back.                *)
(*   oqueue-crypto/src/dek_cache.rs, unwrap_cache.rs, region.rs;           *)
(*   oqueue-core/src/region_envelope.rs, key_domain.rs                     *)
(* A key is known by the order it was minted in. The cap on what it seals  *)
(* is looked at before a region is charged to it, so the region that       *)
(* crosses the cap is still sealed with it.                                *)
(***************************************************************************)
EXTENDS Naturals, Integers, FiniteSets

CONSTANTS
    Task,          \* tasks that seal or open
    CustomerKey,   \* key ids
    Sizes,         \* bytes a region may have
    DEK_CAP,       \* DEK_MAX_SEALED_BYTES
    DEK_AGE,       \* DEK_MAX_AGE_MS
    UNWRAP_TTL,    \* UNWRAPPED_DEK_TTL_MS
    ENTRIES,       \* UNWRAPPED_DEK_CACHE_ENTRIES
    MaxAge, MaxStep, MaxDeks, MaxUses   \* bounds: time, the clock's step back, keys, uses

ASSUME KeyAssumption ==
    /\ DEK_CAP \in Nat \ {0} /\ UNWRAP_TTL \in Nat \ {0} /\ ENTRIES \in Nat \ {0}
    /\ Sizes \subseteq Nat /\ MaxStep \in Nat /\ MaxDeks \in Nat

VARIABLES
    time,       \* as it passes
    back,       \* how far the wall clock has been stepped back
    configured, \* the topic's customer key
    live,       \* DekCache: the topic's live key
    unwrapped,  \* UnwrappedDekCache: what is held for each wrapped key
    uses,       \* its use counter
    task,       \* each task's wait on the key service
    deks,       \* keys minted
    regions,    \* the regions sealed: the key used, what it had sealed before, the envelope
    volume      \* the bytes each key has sealed, in every region of it

keyVars == <<time, back, configured, live, unwrapped, uses, task, deks, regions, volume>>

Now == time - back
NoLive == [dek |-> 0, key |-> "none", wrapped |-> <<>>, minted_at |-> 0, sealed |-> 0]
NoWait == [pc |-> "idle", key |-> "none", dek |-> 0, blob |-> <<>>, answered |-> 0]

(* What the key service makes of a key: it opens to that key, under that   *)
(* key id only.                                                            *)
Wrapped(key, dek) == <<key, dek>>

KeyInit ==
    /\ time = 0 /\ back = 0
    /\ configured \in CustomerKey
    /\ live = NoLive
    /\ unwrapped = {} /\ uses = 0
    /\ task = [t \in Task |-> NoWait]
    /\ deks = 0
    /\ regions = {} /\ volume = [d \in 1 .. MaxDeks |-> 0]

Ages ==
    /\ time < MaxAge
    /\ time' = time + 1
    /\ UNCHANGED <<back, configured, live, unwrapped, uses, task, deks, regions, volume>>

StepBack(n) ==
    /\ back = 0
    /\ back' = n
    /\ UNCHANGED <<time, configured, live, unwrapped, uses, task, deks, regions, volume>>

(* The topic is put under another customer key.                            *)
Reconfigure(key) ==
    /\ key # configured /\ deks < MaxDeks
    /\ configured' = key
    /\ UNCHANGED <<time, back, live, unwrapped, uses, task, deks, regions, volume>>

-----------------------------------------------------------------------------

(* LiveDek::usable.                                                        *)
Usable(entry, key) ==
    /\ entry.dek # 0 /\ entry.key = key
    /\ entry.sealed < DEK_CAP
    /\ Now - entry.minted_at < DEK_AGE

(* seal, with what one entry holds: its key, and the envelope stored       *)
(* beside the region, in the domain its topic asked for; its bytes are     *)
(* charged to the entry afterwards.                                        *)
SealsRegion(entry, key, bytes) ==
    /\ live' = [entry EXCEPT !.sealed = @ + bytes]
    /\ volume' = [volume EXCEPT ![entry.dek] = @ + bytes]
    /\ regions' = regions \cup {[dek |-> entry.dek, before |-> volume[entry.dek],
                                 wrapped |-> entry.wrapped, asked |-> key,
                                 nth |-> Cardinality(regions) + 1]}

(* with_live_dek: use_live under the lock, else mint and wait for a wrap.  *)
UseLive(t, bytes) ==
    /\ task[t].pc = "idle" /\ Cardinality(regions) < MaxDeks + 1
    /\ Usable(live, configured)
    /\ SealsRegion(live, configured, bytes)
    /\ UNCHANGED <<time, back, configured, unwrapped, uses, task, deks>>

MintDek(t) ==
    /\ task[t].pc = "idle" /\ deks < MaxDeks
    /\ ~Usable(live, configured)
    /\ deks' = deks + 1
    /\ task' = [task EXCEPT ![t] = [NoWait EXCEPT !.pc = "wrap", !.key = configured,
                                                  !.dek = deks + 1]]
    /\ UNCHANGED <<time, back, configured, live, unwrapped, uses, regions, volume>>

(* rotate_and_use: the key another task put in place meanwhile is used if  *)
(* it may be, and this task's dropped.                                     *)
Rotate(t, bytes) ==
    LET w     == task[t]
        fresh == [dek |-> w.dek, key |-> w.key, wrapped |-> Wrapped(w.key, w.dek),
                  minted_at |-> Now, sealed |-> 0]
    IN  /\ w.pc = "wrap"
        /\ SealsRegion(IF Usable(live, w.key) THEN live ELSE fresh, w.key, bytes)
        /\ task' = [task EXCEPT ![t] = NoWait]
        /\ UNCHANGED <<time, back, configured, unwrapped, uses, deks>>

(* The key service refuses, or the task is dropped.                        *)
ServiceFails(t) ==
    /\ task[t].pc # "idle"
    /\ task' = [task EXCEPT ![t] = NoWait]
    /\ UNCHANGED <<time, back, configured, live, unwrapped, uses, deks, regions, volume>>

-----------------------------------------------------------------------------
(* Mutant of FreshAt: an entry lives from its last use.                    *)
FreshAtUsed(entry) == Now - entry.used_at < UNWRAP_TTL

(* CachedDek::fresh_at.                                                    *)
FreshAt(entry) == Now - entry.unwrapped_at < UNWRAP_TTL

(* A region opened: by the key held for its envelope.                      *)
Used(entry) == [entry EXCEPT !.last_used = uses, !.used_at = Now, !.used_time = time]
HeldFor(blob) == {e \in unwrapped : e.blob = blob}

(* with_dek: use_fresh; an entry past its time is removed when it is met.  *)
UseFresh(t, region) ==
    /\ task[t].pc = "idle" /\ uses < MaxUses
    /\ \E e \in HeldFor(region.wrapped) :
           /\ FreshAt(e)
           /\ unwrapped' = (unwrapped \ {e}) \cup {Used(e)}
    /\ uses' = uses + 1
    /\ UNCHANGED <<time, back, configured, live, task, deks, regions, volume>>

Unwrap(t, region) ==
    /\ task[t].pc = "idle" /\ uses < MaxUses
    /\ ~\E e \in HeldFor(region.wrapped) : FreshAt(e)
    /\ unwrapped' = unwrapped \ HeldFor(region.wrapped)
    /\ task' = [task EXCEPT ![t] = [NoWait EXCEPT !.pc = "unwrap", !.blob = region.wrapped]]
    /\ UNCHANGED <<time, back, configured, live, uses, deks, regions, volume>>

(* make_room: what is past its time first, then the least recently used.   *)
Room(entries) ==
    LET kept == {e \in entries : FreshAt(e)}
        over == Cardinality(kept) - (ENTRIES - 1)
        older(e) == {f \in kept : f.last_used < e.last_used}
    IN  {e \in kept : Cardinality(older(e)) >= over}

(* fetch_and_use: an entry another task has put there meanwhile is kept.   *)
FetchAndUse(t) ==
    LET blob  == task[t].blob
        room  == Room(unwrapped)
        mine  == {e \in room : e.blob = blob}
        fresh == [blob |-> blob, dek |-> blob[2], unwrapped_at |-> Now, last_used |-> uses,
                  fetched |-> time, used_at |-> Now, used_time |-> time]
    IN  /\ task[t].pc = "unwrap"
        /\ unwrapped' = IF mine # {} THEN (room \ mine) \cup {Used(e) : e \in mine}
                        ELSE room \cup {fresh}
        /\ uses' = uses + 1
        /\ task' = [task EXCEPT ![t] = NoWait]
        /\ UNCHANGED <<time, back, configured, live, deks, regions, volume>>

KeyNext ==
    \/ Ages
    \/ \E n \in 1 .. MaxStep : StepBack(n)
    \/ \E k \in CustomerKey : Reconfigure(k)
    \/ \E t \in Task, n \in Sizes : UseLive(t, n) \/ Rotate(t, n)
    \/ \E t \in Task : MintDek(t) \/ ServiceFails(t) \/ FetchAndUse(t)
    \/ \E t \in Task, r \in regions : UseFresh(t, r) \/ Unwrap(t, r)

KeySpec == KeyInit /\ [][KeyNext]_keyVars

-----------------------------------------------------------------------------
(* Every region stored can be opened again: its envelope unwraps to the    *)
(* key that sealed it, under the key id its domain asked for, however      *)
(* rotations of several tasks and a change of that key interleave          *)
(* (validate_region refuses any other); and no key seals once it has       *)
(* sealed its cap, in all its regions by all tasks: it goes past the cap   *)
(* by its last region at most.                                             *)
RegionsOpen ==
    \A r \in regions : r.wrapped = Wrapped(r.asked, r.dek) /\ r.before < DEK_CAP

(* An unwrapped key is forgotten: none is used past its time since the key *)
(* service gave it, longer only by what the wall clock was stepped back,   *)
(* and a cache that several tasks fill stays within its size.              *)
KeysForgotten ==
    /\ \A e \in unwrapped : e.used_time - e.fetched < UNWRAP_TTL + back
    /\ Cardinality(unwrapped) <= ENTRIES

(* The two together: a cached key opens what it sealed, and no cache       *)
(* answers with one past its age, however the clock steps.                 *)
KeysSound == RegionsOpen /\ KeysForgotten
=============================================================================
