------------------------------ MODULE Consumer ------------------------------
(* What a client is told of where a partition begins and ends, and which   *)
(* of its reads a cached index may serve: CacheState::admits, ListOffsets  *)
(* and the fetch's range check, while the line grows, retention raises its *)
(* start, and the shard moves to a coordinator of a higher epoch, whose    *)
(* versions count from the beginning again.                                *)
(* The cache of another coordinator's line is the one staleness.rs         *)
(* describes. A broker of this commit answers ListOffsets and checks a     *)
(* fetch's range from its own index, which it takes for the line's end     *)
(* whoever leads and however far it has replayed.                          *)
EXTENDS Integers

CONSTANTS
    MAX_STALENESS,  \* MAX_METADATA_STALENESS_MS
    Policies,       \* what a client asks for: earliest, latest
    MaxWrites,      \* bound: records written
    MaxEpoch        \* bound: coordinator epochs

VARIABLES
    shard,      \* the coordinator: epoch, its versions, records carried into the epoch, log start
    own,        \* the records in the index of the broker that is asked
    cache,      \* a CacheState, and the records its line started with
    current,    \* the epoch the reader believes to be current
    mark,       \* the session's watermark, and the end of what the session wrote
    served,     \* the session's last answer: from where, how far it saw, how far it had written
    seat        \* the consumer: position, next request

consVars == <<shard, own, cache, current, mark, served, seat>>

None == -1

ConsInit ==
    /\ shard = [epoch |-> 1, version |-> 0, base |-> 0, start |-> 0]
    /\ own = 0
    /\ cache = [epoch |-> 1, applied |-> None, base |-> 0, silent |-> 0]
    /\ current = 1
    /\ mark = [epoch |-> 0, version |-> 0, end |-> 0]
    /\ served = [by |-> "cache", saw |-> 0, wrote |-> 0]
    /\ seat = [pos |-> 0, next |-> "fetch"]

EndOf(line) == line.base + line.version

-----------------------------------------------------------------------------
(* The session produces, and flush observes the watermark of the           *)
(* acknowledgement. The broker asked folds before it answers, if the       *)
(* produce is its own, and is left with an empty index when the fold       *)
(* fails; a produce acknowledged by another leader leaves its index alone. *)
Write ==
    /\ EndOf(shard) < MaxWrites
    /\ own' \in {own, 0, EndOf(shard) + 1}
    /\ shard' = [shard EXCEPT !.version = @ + 1]
    /\ mark' = [epoch |-> shard.epoch, version |-> shard.version + 1, end |-> EndOf(shard) + 1]
    /\ UNCHANGED <<cache, current, served, seat>>

(* Somebody else produces, at another broker.                              *)
WriteByOthers ==
    /\ EndOf(shard) < MaxWrites
    /\ shard' = [shard EXCEPT !.version = @ + 1]
    /\ UNCHANGED <<own, cache, current, mark, served, seat>>

(* Retention trims.                                                        *)
RaiseStart ==
    /\ \E s \in shard.start + 1 .. EndOf(shard) : shard' = [shard EXCEPT !.start = s]
    /\ UNCHANGED <<own, cache, current, mark, served, seat>>

Rebalance ==
    /\ shard.epoch < MaxEpoch
    /\ shard' = [shard EXCEPT !.epoch = @ + 1, !.base = EndOf(shard), !.version = 0]
    /\ UNCHANGED <<own, cache, current, mark, served, seat>>

LearnEpoch ==
    /\ current < shard.epoch
    /\ current' = shard.epoch
    /\ UNCHANGED <<shard, own, cache, mark, served, seat>>

(* The broker's own index folds what is new on the line, or is emptied: by *)
(* a restart, or by a rebuild that has yet to read the line again.         *)
OwnFolds ==
    /\ own' \in own + 1 .. EndOf(shard)
    /\ UNCHANGED <<shard, cache, current, mark, served, seat>>

OwnEmptied ==
    /\ own > 0
    /\ own' = 0
    /\ UNCHANGED <<shard, cache, current, mark, served, seat>>

(* The push stream: an entry, or silence; or the cache is thrown away and  *)
(* filled from the line of the epoch.                                      *)
Pushed ==
    /\ cache.epoch = shard.epoch
    /\ IF cache.applied = None THEN shard.version > 0 ELSE cache.applied < shard.version
    /\ cache' = [cache EXCEPT !.applied = IF @ = None THEN 1 ELSE @ + 1, !.silent = 0]
    /\ UNCHANGED <<shard, own, current, mark, served, seat>>

Silence ==
    /\ cache.silent <= MAX_STALENESS
    /\ cache' = [cache EXCEPT !.silent = @ + 1]
    /\ UNCHANGED <<shard, own, current, mark, served, seat>>

Rebuilt ==
    /\ cache.epoch < shard.epoch
    /\ cache' = [epoch |-> shard.epoch, applied |-> None, base |-> shard.base, silent |-> 0]
    /\ UNCHANGED <<shard, own, current, mark, served, seat>>

-----------------------------------------------------------------------------
(* Mutant of AdmitsRead: a watermark is compared by its version alone.         *)
AdmitsByVersion(mode) ==
    IF cache.epoch # current THEN "CacheFromAnotherEpoch"
    ELSE IF mode = "Linearizable" THEN "Authoritative"
    ELSE IF cache.silent > MAX_STALENESS THEN "PushStreamSilent"
    ELSE IF mode = "Stale" \/ cache.applied >= mark.version THEN "Ok" ELSE "NotYetVisible"

(* CacheState::admits: the epoch fence, the mode no cache may serve, the   *)
(* watermark of a newer epoch, the silence, and only then the version.     *)
AdmitsRead(mode) ==
    IF cache.epoch # current THEN "CacheFromAnotherEpoch"
    ELSE IF mode = "Linearizable" THEN "Authoritative"
    ELSE IF mode = "AtLeast" /\ mark.epoch > cache.epoch THEN "CacheFromAnOlderEpoch"
    ELSE IF cache.silent > MAX_STALENESS THEN "PushStreamSilent"
    ELSE IF mode = "Stale" THEN "Ok"
    ELSE IF mark.epoch # cache.epoch THEN "WatermarkFromAnotherEpoch"
    ELSE IF cache.applied # None /\ cache.applied >= mark.version THEN "Ok"
    ELSE "NotYetVisible"

ReadModes == {"Stale", "AtLeast", "Linearizable"}

(* A read of the session from the cache; AtLeast asks for what it wrote.   *)
ReadCached(mode) ==
    /\ mark.epoch > 0
    /\ AdmitsRead(mode) = "Ok"
    /\ served' = [by |-> "cache", saw |-> cache.base + (IF cache.applied = None THEN 0 ELSE cache.applied),
                  wrote |-> IF mode = "AtLeast" THEN mark.end ELSE 0]
    /\ UNCHANGED <<shard, own, cache, current, mark, seat>>

-----------------------------------------------------------------------------
(* Cluster::high_watermark: what the index of this broker holds, asked     *)
(* without a look at who leads or at how far the index has come.           *)
Latest == own

(* The fetch: resolve refuses what is above that watermark, and a read of  *)
(* what was reaped is out of range too; the consumer then resets.          *)
InRange(pos) == pos <= Latest /\ pos >= shard.start

FetchRecord ==
    /\ seat.next = "fetch" /\ InRange(seat.pos) /\ seat.pos < Latest
    /\ seat' = [seat EXCEPT !.pos = @ + 1]
    /\ UNCHANGED <<shard, own, cache, current, mark, served>>

FetchRefused ==
    /\ seat.next = "fetch" /\ ~InRange(seat.pos)
    /\ seat' = [seat EXCEPT !.next = "reset"]
    /\ UNCHANGED <<shard, own, cache, current, mark, served>>

(* ListOffsets one_partition: EARLIEST is a constant. LATEST asks whether  *)
(* this broker's index may answer a linearizable read, with the broker's   *)
(* own epoch on both sides of the fence, so it always does.                *)
Earliest == 0

ListOffsets(policy) ==
    /\ seat' = [pos |-> IF policy = "earliest" THEN Earliest ELSE Latest, next |-> "fetch"]
    /\ served' = IF policy = "latest"
                 THEN [by |-> "latest", saw |-> Latest, wrote |-> mark.end] ELSE served
    /\ UNCHANGED <<shard, own, cache, current, mark>>

ConsNext ==
    \/ Write \/ WriteByOthers \/ RaiseStart \/ Rebalance \/ LearnEpoch
    \/ OwnFolds \/ OwnEmptied
    \/ Pushed \/ Silence \/ Rebuilt \/ \E mode \in ReadModes : ReadCached(mode)
    \/ FetchRecord \/ FetchRefused \/ \E policy \in Policies : ListOffsets(policy)

ConsSpec == ConsInit /\ [][ConsNext]_consVars

-----------------------------------------------------------------------------
(* A session's read from a cache takes in everything the session had       *)
(* written, on whichever coordinator, however the shard has moved since    *)
(* and whoever has heard of it: versions of different epochs are never     *)
(* compared (CacheState::admits).                                          *)
SessionServed == served.by = "cache" => served.saw >= served.wrote

(* The doc of Cluster::cache_state: the index LATEST is answered from is   *)
(* never behind what has been acknowledged.                                *)
LatestAuthoritative == served.by = "latest" => served.saw >= served.wrote
=============================================================================
