# A TLA+ verification project for oqueue

oqueue is a Kafka-compatible broker whose only durable storage is an object
store. No node owns a partition: every node writes objects, and one node at a
time, the holder of a lease, orders the commits of all of them in one metadata
log, itself made of objects. What makes the broker correct is therefore the
lease, the log, what the leader folds out of the log, the tasks that follow it,
and the two paths a record takes: into an object and a commit, and out of them
again. This project models those parts from the Rust source, checks them with
TLC on small instances and proves the central ones with TLAPS for every
instance.

    tlc -workers 2 -config MCLease.cfg MCLease      # one run
    tlapm LeaseProofs.tla                           # one module's proofs

`PROJECT.json` lists the components, the runs, which source lines every
definition stands for, the hazards, and one mutant of the code per property.

## 1. Inventory

Paths are below `src/crates/` unless they begin with `bin/`.

### Leadership and the log

* **Coordinator lease** (`oqueue-core/src/lease.rs`, driven by
  `oqueue-broker/src/lease_renewal.rs`). State: one object `lease/<term>` per
  term with its holder and expiry, and in memory the term held, its write
  token and `valid_until`. Operations: `acquire` (search the newest term, wait
  out its expiry and the skew, create the next), `renew` (look for a
  successor, conditional overwrite), `lose`, `is_held`. Hard: clocks that
  disagree, an answer that arrives after a successor has read the old expiry,
  a PUT that lands after its caller gave up or restarted. Correct: one holder
  at a time, a term keeps its holder, its expiry never moves back.
* **Metadata log in object storage** (`oqueue-core/src/object_store_log.rs`,
  `object_store_log/base.rs`). State: one segment object per entry, created if
  absent; base generations, each naming the first segment not yet in a
  snapshot; snapshots. Operations: `open` (base, snapshot, walk the segments
  to the first absent one, look at the base again), `append`, `checkpoint`
  (capture, snapshot, tail test, base, delete). Hard: an open that walks while
  a checkpoint deletes, a crash between any two requests, an append that
  answers an error and lands. Correct: one line of commits that only grows.
* **Segment format** (`oqueue-core/src/metadata_segment.rs`,
  `group_segment.rs`): the bytes of an entry of either log. Hard: optional
  fields, lengths at their limit, a segment cut or damaged. Correct: what was
  written is read back, and nothing is accepted that would not be written so.
* **Object store adapters** (`oqueue-store`): S3, GCS and the in-memory store
  behind one trait. Operations: put, conditional put, streamed bundle, ranged
  read, list, delete, each retried. Hard: an attempt that landed and whose
  answer was lost, part uploads left open, tokens read from different fields.
  Correct: an Ok is true, a token is good for its generation only, a listing
  has no holes.
* **Leadership fence** (`oqueue-coordinator/src/serve/leadership.rs`). State:
  `replayed_term`. Operations: `may_write`, `current_for_term`, `refold`,
  `journal`, `still_leads_after_append`. Hard: a lease that lapses, or changes
  hands and comes back, inside one request. Correct: a leader appends only
  onto a view that is the tail, and acknowledges only what any later open
  reads.
* **Checkpoint task** (`oqueue-broker/src/checkpoint.rs`): looks at the lease
  and at the size appended since, and checkpoints.
* **Standby** (`oqueue-coordinator/src/standby.rs`): has no caller at this
  commit.

### Sequencing

* **Coordinator loop** (`oqueue-coordinator/src/serve.rs`, `coordinator.rs`,
  `commit.rs`). One task takes requests in turn: stage against the allocator,
  append, apply, publish, answer.
* **Allocator and admission** (`oqueue-coordinator/src/allocator.rs`,
  `allocator/admission.rs`, `allocator/expiry.rs`). State: the end of each
  partition, the last batch of each producer line, their recency. Operations:
  `stage`, `apply`, `replay`, `stage_trim`, retention, eviction at the cap.
  Hard: duplicated and reordered batches in one bundle, retries across an
  append in doubt or a failover, the wrap of the sequence space, the cap.
  Correct: no batch twice, none out of order, every answer true, every fold
  of the log the same.

### Reading

* **Index materialization** (`oqueue-core/src/index_state.rs` and its
  submodules): which commits are folded, end offsets, log starts, which
  objects are still named.
* **Index watch and delta stream** (`oqueue-coordinator/src/subscribe.rs`):
  the version fetches wait on, and a bounded broadcast that drops the oldest
  and reports a lag.
* **Fetch long poll and session** (`oqueue-broker/src/fetch/`, `session.rs`).
  State of one request: the samples taken before the read, the passes made.
  Hard: a commit between a read and the park, a partial replay answering
  requests. Correct: a connection reads its writes, no wakeup is lost, passes
  are bounded.
* **What a fetch reads** (`oqueue-broker/src/fetch/`, `read.rs`, `region.rs`).
  State: the byte budget, the objects and ranges already pulled, the failures.
  Hard: a damaged object in front of healthy ones, a budget crossed by the
  first batch, passes repeated on a growing index. Correct: an answer is never
  silently empty, a pass is bounded.
* **Staleness policy and ListOffsets** (`oqueue-core/src/staleness.rs`,
  `oqueue-broker/src/listoffsets.rs`). State: the watermark a session was
  given, with its epoch; what the asked broker's own index holds. Hard: a shard
  that moves, versions that count from the beginning again, an index that is
  behind the line. Correct: a session is never served from before its write.
* **Chunked single-flight reads** (`oqueue-core/src/chunk.rs`, `chunk/`,
  `merge.rs`): readers share one fetch of a chunk. Hard: a leader dropped in the
  middle, a reader that joins while it publishes. Correct: every sleeper has a
  leader, everybody gets the bytes of its own range.
* **Index applier and reader** (`oqueue-index`): the same fold behind a lock.

### Background deletion

* **Retention follower, expiry heap, lifecycle**
  (`oqueue-broker/src/retention.rs`, `oqueue-compact/src/retention.rs`,
  `oqueue-compact/src/lifecycle.rs`). State: an index of its own, the armed
  partitions, objects released and the clock each has run. Operations: fold a
  delta, rebuild from a log handle, a round (trim what is due, sweep). Hard:
  lag, missed entries, failed trims, which handle is read. Correct: an object
  a partition still names is not deleted, and an idle partition still expires.
* **Compaction** (`oqueue-compact`: sweep, plan, cost, layout, merge;
  `oqueue-core/src/partition_manifest.rs`). State: the slots of the index
  (history, tail, manifest) and the objects. Operations: survey and plan, merge
  into a new object, swap the references, publish a manifest. Hard: a plan
  that is stale when its swap arrives, trims and deletions in between.
  Correct: every offset still reads its own record.

### Groups, produce, tenancy

* **Consumer groups** (`oqueue-core/src/group_state.rs`,
  `oqueue-broker/src/join_group/`, `sync_group/`, `heartbeat.rs`,
  `leave_group.rs`, `fencing.rs`, `group_transitions.rs`, `replay_gate.rs`)
  with **offset commit and fetch**. State: the durable record (state,
  generation, assignment epoch, roster) behind one actor; per node the open
  round with its waiters, the slot held by whoever is in the middle of a
  durable transition, the assignment cell, the sessions. Operations:
  JoinGroup, SyncGroup, Heartbeat, LeaveGroup, and the actor's `serve`. Hard:
  every event is chosen under one lock and applied an append later; deadlines
  fire while a round is being closed; members leave while their round closes.
  Correct: one closer at a time, every waiter told, a generation names one
  roster, incumbents are waited for, an assignment is never unpublished.
* **Group log** (`offset_commit.rs`, `offset_fetch.rs`, `cluster/replay.rs`,
  `replay_gate.rs`): committed offsets and group transitions share one log,
  replayed at boot behind a gate. Hard: writers that propose the same version,
  inserts that arrive out of order, a half of the replay that fails. Correct:
  nobody is sent back before an acknowledged commit, a restarted group is the
  one its log tells.
* **Produce path** (`oqueue-broker/src/produce/`, `ingest.rs`, `flush.rs`,
  `oqueue-core/src/bundle.rs`; `oqueue-codec` for the record batch). State: the
  bundles of a request, the objects PUT, the session's watermark. Operations:
  verify, gather per key domain, name, PUT, commit, answer. Hard: one bundle
  of several failing, a PUT or commit that fails and took effect, a footer
  read from a short tail, a damaged object or batch. Correct: each partition
  is told the truth, what is committed is stored and can be read and served.
* **Topic catalog** (`oqueue-core/src/catalog/`, `cluster/topics.rs`,
  `create_topics.rs`, `delete_topics.rs`, `alter_configs.rs`): a topic's
  objects in the store, each broker's cache, lock and grants. Hard: creates,
  deletes, look-ups and alters of one name racing on several brokers, writes
  that land after their caller gave up. Correct: one creation, one deletion for
  good, nothing brings a deleted topic back.
* **Nonces, writer epochs, key caches** (`writer_epoch.rs`, `nonce.rs`,
  `oqueue-crypto`). Hard: two allocators at once, full fields, rotation under
  several tasks, a clock that steps back. Correct: no nonce twice, what was
  sealed opens, keys are forgotten in time.
* **Rate governor, connections and quotas** (`rate_governor.rs`,
  `connection.rs`, `dispatch.rs`, `principal_quota.rs`). Hard: remainders carried
  across ceilings; requests of one connection running side by side while the
  session re-authenticates, and outliving the connection. Correct: the rate is
  held, answers are in order, each request is charged once and acts as whoever
  it was charged to.
* **Producer identities** (`init_producer_id.rs`): a number from the process
  id, the clock and a counter.
* **Process wiring** (`bin/oqueue/src/`): which log handle each task is given,
  and that connections are accepted while the replay runs.
* Request and response schemas, TLS, SCRAM, health, telemetry: generated byte
  formats, I/O and observation, not modelled.

How they interact: the loop asks the lease before and after each append; the
checkpoint task and the loop share the log; the loop publishes to the index,
then to the watch and the delta stream; fetches wait on the watch and read the
index; retention folds the deltas, asks the loop for trims, and deletes. The
handlers of a group share its record through the actor's queue, and its rounds,
its assignment cell and its sessions through three locks, never held across an
`await`. A produce request PUTs its bundle and then asks the loop to commit it; a
fetch resolves offsets in the index and reads ranges of the objects it names.

## 2. Modules

| Module | Models | Composes |
|---|---|---|
| `Leadership` | what the lease promises: terms, at most one led | |
| `Lease` | `lease.rs`, `lease_renewal.rs`: clocks, objects, requests | implements `Leadership` |
| `DurableLog` | what the log promises: one growing line, true acknowledgements | |
| `SharedLog` | `object_store_log.rs`, `base.rs`, `leadership.rs`, `checkpoint.rs` | extends `Leadership`, implements `DurableLog` |
| `Sequencing` | `allocator.rs`, `admission.rs`, `expiry.rs`, the loop around them | stands on one durable line |
| `IndexLoop` | `serve.rs`'s publish and rebuild, replay and refold, watch, deltas | stands on the same line |
| `FetchPark` | one long-poll fetch | extends `IndexLoop` |
| `Follower` | retention and lifecycle | extends `IndexLoop` |
| `GroupTable`, `GroupTransitions` | `group_state.rs`, `group_transitions.rs`: a group's record and its actor | |
| `ConsumerGroup` | `join_group/`, `sync_group/`, `heartbeat.rs`, `leave_group.rs`, `fencing.rs` | extends `GroupTransitions` |
| `GroupLog` | offset commit and fetch, the group log, its replay and gate | extends `GroupTable` |
| `Segments` | the segment formats of both logs | |
| `StoreAdapter` | the adapters of the object store | |
| `RecordBatch` | a record batch from verify to the consumer | |
| `BundleFormat` | a bundle's regions and footer | |
| `Produce` | produce requests, flush, naming | |
| `FetchRead` | the passes of one fetch over several partitions | |
| `Consumer` | staleness, ListOffsets, the range check | |
| `ChunkReads` | single-flight chunks, merged ranges | |
| `IndexSlot` | the fold of the log into history, tail and manifest | |
| `Compaction` | sweep, plan, merge, swap, manifests, deletion | extends `IndexSlot` |
| `TopicCatalog` | what a catalog promises of one name | |
| `Catalog` | a topic's objects, caches, locks and grants | implements `TopicCatalog` |
| `WriterNonces`, `KeyCaches` | what regions are sealed under | |
| `RateGovernor` | the token buckets | |
| `Connection` | connections, authentication, in-flight quotas | |
| `LeaseProofs`, `IndexLoopProofs`, `SharedLogProofs`, `FollowerProofs`, `WriteProofs`, `ServeProofs`, `ConsumerGroupProofs`, `CatalogProofs` | theorems (section 4), also of `RateGovernor` and `StoreAdapter` (`LeaseProofs`), `FetchRead` (`ServeProofs`) and `GroupLog` (`ConsumerGroupProofs`); `WriteProofs` is of `WriterNonces`, `KeyCaches`, `Produce` and `Sequencing` | each extends what it is about |
| `MC*` | the instances, and which components a run puts side by side | |

An MC module puts components that share no state side by side: `Init` chooses
which of them a behaviour is of (a variable `part` or `focus`), and only that one
steps.
Nothing is concluded about the product of two of them; a run simply asks its
questions of each.

**Lease.** Per node the wall clock, the `Held` record as three functions
(`term`, `token`, `until`), and where its one operation is (`pc`, `started`,
`target`); `phase` and `asleep` are the task around it. Every `await` is a
separate step: `AcquireStart` is the search (it may answer any term between
the newest at its start and the newest at its end), `AcquireNext`/`AcquireTaken`
the wait on expiry plus skew, `Land`/`Refuse` the conditional PUT, `Acquired`,
`Renewed` and the refusals what is done with the answer. `Errs` is an error or
timeout, which may leave the PUT in `late`; `LateLand` lands it; `Restart`
forgets the process. `Tick` moves one clock, clocks staying within `SKEW`.
*External*: the store's conditional PUT.

**SharedLog.** `seg`, `bases` and `snap` are the store; `view[n]` is a node's
open log, `loop[n]` its request under way, `ckpt[n]` its checkpoint under way.
The request actions follow the code call by call (`MayWrite`, `BeginOpen`,
`ReadBase`, `ReadSnapshot`, `WalkSegment`, `WalkEnd`, `Rewalk`, `Opened`,
`Journal`, `AppendLands`, `AppendRefused`, `Acknowledge`, and the fences), the
checkpoint actions likewise. `Restart` stops a process anywhere. The lease is
`Leadership`'s four actions.

**Sequencing.** The durable `log` of entries, the leader's `alloc`, the entry
being journaled, and what the clients know. A batch's sequence is Kafka's
`base_sequence`, which `ingest.rs` passes on as the client sent it: the number of
its first record in its line (the constant `First`), modulo the sequence space. Because clients resend whatever
they hold no answer for and the network may duplicate and reorder, a request is
any bundle of batches a client has been free to send; what `MaxBatch` and the
window leave out are copies older than the sequence space. `Classify` and
`Admit` are `admission.rs`, `EvictOverCap` is `expiry.rs`, `Refold` a failover.

**IndexLoop.** `line` is the durable line, `index` the versions folded, a
version being 0 for the code's `None`. Replays, refolds and rebuilds go page by
page. `boot`, `view` and `opened` say how much each of the three log handles
holds: the one opened at boot is never reopened. `Lapse`, `Take` and
`OtherAppends` are other nodes. With `Fails`, each of the four reads and folds may
fail: a failed replay leaves the index empty and starts over (`ReplayFails`), a
failed refold keeps the pages it folded and tells nobody of them (`RefoldFails`),
a fold that `publish` finds refused empties the index (`PublishClears`), and so does a
rebuild that fails after its clear (`RebuildBreaks`); `publish` then tells the watch
`None`, and the commit is acknowledged all the same, as `serve.rs` documents and the
test in `cache.rs` pins. The history variable `emptied` says that this has happened, or `drop_cache`, and
that the index has not been made whole since.

**FetchPark.** One request of one partition: `CatchUp` waits for the session's
watermark, two samples, resolve, read, then answer, park or give up; each await
is a step, each deadline may fire whenever it is waited on.

**Follower.** `findex`, `armed`, `released`, `atZero`, `leaving` and `gone`
are the follower's index, its heap and the lifecycle's stages. Ages are left
open: a partition may come due at any round. A pushed entry the rebuild already
read is stripped, as `fold` does; with the handles `compose.rs` wires this
never happens, because the boot handle is opened before anything is pushed.

**GroupTransitions** has the table as a set of edges, the record, and the queue
with one answer per handler; an append that fails applies nothing.
**ConsumerGroup** runs a few handlers (`Task`) against it. `pc[t]` says where a
handler is between two awaits; what it does under one lock is one action. A
join goes from `plan` through the opening events (`openJoin`, `openSync`, then
`openedJoin`, `openedSync` until the slot is freed) back to `plan`, enrols, and
either closes the round (`close`, `roster`) or waits on it (`pending`, and from
there `deadlineClose`, `deadlineRoster` or `withdraw`) until it can `register`
and answer. A sync is `sync` and `submit` for the leader, `parked` for a
follower. A heartbeat or leave is `sweep` or `leave`, `swept` or `left`, `beat`.
`outcome` numbers the rounds, so that a waiter holds the index of its own where
the code holds an `Arc`. Sessions, round deadlines and bounded waits may lapse
whenever they run; how long they are is left out, so the sync backstop is the
step `ParkedTooLong`. Clients name what they were last told; `Resends` lets one
join again while its first join is in flight. `finalize_close` has early returns
for a round that is gone or closed: `SlotSound` shows they are never taken, so
`Finalize` has none.

**GroupLog.** `glog` is the durable log, `nextSeq` how much of it the process's
handle knows of, `offsets` and `record` the two folds. A committer proposes the next
version, appends, and inserts what it appended under a version guard; the group's
actor appends transitions to the same log. `Restart` forgets both folds, and the
two halves of the replay read pages until both are done and the gate opens. The set of
groups a replay has given up on is the replay's own, so `Handed` forgets it when the
gate opens: from there on the group's live transitions are applied to the record as
the replay left it. One partition of a request that fails does not stop the ones
after it (`GoesOn`).

**Segments.** No steps of its own beyond choosing entries, encoding them,
altering the bytes and decoding: a byte has `B` values, a magic is one byte. It is
checked as a function over small inputs.

**StoreAdapter.** Objects are sizes with a generation. Each request is made of
attempts that fail, land, or land and lose their answer; parts of an upload go
up separately and complete at once. *External*: the SDKs and the services' rules
for conditions, parts and listing pages, taken from how the adapters use them.

**RecordBatch, BundleFormat.** Both lay cells out as the encoders do, damage one
cell or cut the end, and parse. A CRC is the content it was computed over: a
changed cell is always noticed, which a real CRC does but for collisions.

**Produce.** `put` and `committed` are the store and the log, a request's
partitions carry the defects `verify` would report, and each bundle is named,
PUT and committed in turn; any of those may fail with or without effect.

**FetchRead.** `fetch` is the request in hand and `memo` what each range it pulled
answered, with the failures; objects may fail, be reaped or be damaged between passes. **Consumer** has the line, its
start and its epoch, a cache that hears of them late, and sessions that write and
read. `own` is what the index of the broker that is asked holds: it is folded before the
broker's own acknowledgements, later for other leaders' entries, and may be
emptied. `Latest`, which ListOffsets and the fetch's range check answer from, is `own`: the
epoch that would fence it is compared with itself. **ChunkReads** has the registry and one cell per flight; a leader's
publication is three steps because three locks are taken.

**IndexSlot, Compaction.** A slot is its history, its tail and its manifest as in
`partition.rs`; `Apply` stages a page of entries and applies all of it or none. A
sweep plans from one state of the index and its swap is folded in a later one.
The records of a swap and of a publication are journalled the way the
repository's tests do it, since nothing else does yet. There are two ways to read an
object: the compactor takes all of a partition's regions (`RegionsOf`,
`take_regions`), the broker takes the only one and refuses a second (`Slice`,
`region_for`), unless a manifest gives it the byte range.

**Catalog.** `store` has the name's objects (topic, tombstone, configuration,
creators' lists), and each broker its `cache`, `gen`, `guards` and `grants`; each call's `await`s are separate steps, and a write whose call
was given up may land later.

**WriterNonces, KeyCaches, RateGovernor, Connection.** The first lists and
creates epoch objects and hands out sequences and indices up to their limits. The
second has a topic's live key and a cache of unwrapped keys, with a clock that may be
set back; a region has a size, and `usable` is asked before the size is charged. The third keeps tokens and remainders in `SCALE`-ths. The fourth has,
per connection, the frames taken, the tasks running, the writer's place, and the
session all its tasks share; quotas are shared by connections of one principal.
*External*: the key service and AES-GCM, the socket.

## 3. Runs

| Run | Result | What it asks |
|---|---|---|
| `lease` | pass | Whatever runs on a clock or counter of its own: one holder of the lease, terms only extend, refinement of `Leadership` (`LeaseMutex`, `TermsOnlyExtend`, `Implements`); no epoch or nonce twice (`NoncesSound`); sealed regions open, no key seals once it has sealed its cap, and keys are forgotten (`KeysSound`); the rate is held and delays are honoured (`RateExact`); answers in order (`AnsweredInOrder`); each request charged to whom it acts for (`ChargedOnce`) |
| `shared_log` | pass | The log opens after any crash and a leader's view is the tail (`LogSound`), refinement of `DurableLog` (`Implements`); segments decode to what was written or are refused (`SegmentsExact`); an adapter's answers, tokens and listings are true (`AdapterHonest`) |
| `shared_log_span` | violation | finding 1 |
| `sequencing` | pass | No duplicate and in order (`LinesExact`), true answers (`AnswersTrue`), retries of a line's last batch deduplicated and the batch after one of one record admitted (`RetriesServed`), the allocator is the fold of the log, the cap forgets the oldest, trims within the end (`FoldsTrue`); partitions told the truth (`AnswersHold`), commits stored and seen by their session (`CommitsReadable`), one object per name (`NamesOneObject`), bundles and batches readable (`BundlesRead`, `BatchesServed`) |
| `sequencing_records` | violation | finding 5 |
| `fetch_park` | pass | What is acknowledged is in the index, or the index was emptied and the watch does not name it (`AckedReadable`); a fetch reads its writes and loses no wake-up (`FetchSound`), and growth is read (`GrowthIsRead`, liveness); a pass moves and is bounded (`PassSound`); sessions served by a cache from after their writes (`SessionServed`); readers of a chunk get their own bytes (`ReadsOwnBytes`) |
| `fetch_boot` | violation | finding 2 |
| `follower` | pass | No named object is deleted (`SweepSafe`), the follower is the line (`FollowerFaithful`); through compaction the object the index names for an offset is there and holds its record, and the broker's way of reading agrees but for merged objects (`Retained`), and folds agree and plans install (`PlansHold`) |
| `follower_gaps` | pass | Through other leaders, lag, failed reads, folds and rebuilds and dropped caches: the index a prefix (`IndexFaithful`), the watch honest (`WatchHonest`), idle partitions armed (`HeapSound`); a deleted topic forgotten, creators' lists and journalled retention (`TopicsSound`), refinement of `TopicCatalog` (`CatalogImplements`); offsets as their log has them, groups as their last replay and what followed it make them (`GroupsServed`) |
| `follower_terms` | violation | finding 3 |
| `group_log_race` | violation | finding 4 |
| `group` | pass | One closer at a time, waiters told, one roster per generation (`RoundsSound`), the answered enrolled (`AnsweredEnrolled`), incumbents waited for and assignments kept (`StepsHeard`) |

Where a property has parts, the parts are named definitions: `LogSound` is
`LogReadable` and `LeaderViewCurrent`; `FoldsTrue` is `TypeOK`,
`AllocatorMatchesLog`, `ForgetsOldest` and `TrimsWithinEnd`; `RoundsSound` is
`TypeOK`, `SlotSound`, `WaitersHeard` and `ClosesDistinct`; `FetchSound` is
`TypeOK`, `ReadsItsWrites` and `NoLostWakeup`; `AdapterHonest` is `StoreHonest`,
`TokensMatch` and `ListingsWhole`; `TopicsSound` is `DeletedForgotten`,
`CreatorLists` and `RetentionJournalled`; the others are conjunctions of two that
stand right above them or in the module each is about.

### Bounds, and why they are enough

* `lease`: two nodes, a TTL of 3 and a skew of 1, clocks to 5, one takeover, one
  late PUT. Mutual exclusion involves a holder and a successor; a third node can
  only repeat what the second does. The theorems remove the bound. Nonces: every
  field's maximum is 0 to 2, so that each one fills; two attempts per
  allocation. Keys: regions of one and of two bytes, so that a key is passed its cap
  of two by its last region or stops on it, two ticks retire a key, one entry fits the
  reader's cache. Governor: rates up to 5 in fifths of a token, so that
  remainders do not cancel. Connections: two, of two users, two requests in
  flight, a quota of one, so that permits and places run out separately; one
  connection ends early or one handler panics.
* `shared_log`, three instances: `checkpoints`, with two terms, two base
  generations and three commits, or two and a restart, so that a second
  checkpoint prunes the first; `late`, with a PUT that lands after its caller gave up; `terms`, with
  three terms and one checkpoint at a time, so that a node leads again after
  another has written. Segments: a
  byte of 8 values, so that lengths reach their limit and signed fields their
  sign. Adapter: two clients and three keys on each backend, payloads of more than one
  part, two attempts and one fault.
* `sequencing`, two instances: `line`, with `SeqMax` 3, so that the fifth batch
  would wrap to the sequence of the first, two batches in flight, two spans in a
  bundle, two incarnations of the producer and one append in doubt; `lines`, with two
  partitions, a cap of one and record counts of one and two, so that offsets,
  sequences and batch numbers all differ. Batches of up to two records, varints of up to three digits of radix 4.
* `fetch_park`: a line of two entries, at most one of them at boot, two terms, pages and a delta buffer
  of one so that a replay takes several steps. No symmetry, because it checks
  liveness. Reads: three partitions of three objects, a budget of 4 that one
  object can cross, a cap of two failures. Consumer: two epochs, two writes.
  Chunks: three readers of one chunk, so that one leads, one joins and one comes
  while the first publishes.
* `follower`: two partitions sharing an object, a line of five entries, enough
  to commit, trim, sweep twice and commit again. Compaction: a tail of one entry,
  so that history exists after two commits, three offsets, six entries: commit
  twice, plan, trim, swap, delete. `follower_gaps`: a buffer of one, so that lag
  happens; two brokers and two creators of a name; two committers, two keys,
  pages of two entries of a log of five, one error and one restart.
* `group`: three handlers and three requests, of two members that agree and a
  newcomer only one of them can join with, from a group that is empty and from
  one whose first round has just closed; two planning passes instead of eight,
  and one failed append or one lapsed session. Three handlers are one that
  holds the slot, one that waits on the round and one that changes the group
  under both.

The passing `shared_log` run sets `SpansTerms` and `CkptPauses` to `FALSE` and
the passing `follower` run sets `Others` and `ReadFails` to `FALSE` with a buffer
that never overflows; `group` sets `Resends` to `FALSE`, and `follower_gaps` has the
alters of a topic at one broker. Those are the cases section 5 is about; what the
runs show holds outside them.

### Fairness

Only `FetchPark`'s `FairSpec` assumes any: weak fairness of the loop's own steps
(`Serving`) and of the handler's (`Handling`), because tokio polls a woken task
again. No deadline, lease change, commit or request is promised, and the
liveness property says what happens with no further commit. Elsewhere liveness
depends on the store answering, which the code does not promise, so nothing is
claimed. `CHECK_DEADLOCK FALSE` is there because the bounds on time, terms and
entries bring every instance to an end.

## 4. Proofs

Each theorem holds for every value of the constants that the named assumption
allows; the assumptions only give the constants their kinds and are evaluated by
the runs. A component's safety properties are seldom inductive, so each proof is
about a stronger invariant, which TLC checked on the small instance first: initial
states have it, one lemma per action shows that a step keeps it, and it implies
the property.

**`LeaseProofs`**: from `LeaseAssumption` (a positive TTL and skew; any nodes,
any bounds) it proves `TypeOK`, `LeaseMutex` and `TermsOnlyExtend`. Mutual
exclusion is not inductive: that two nodes do not hold at once says nothing
about a renewal in flight. `LeaseInv` adds that clocks stay within the skew,
that terms are contiguous, that whatever a node holds, is asking for or left in
flight is no later than what the object of that term records
(`HeldRecorded`, `OpRecorded`, `LateRecorded`), and `SuccessorWaited`: a term
above `t` exists only if the holder of `t` has let it lapse by every clock within
the skew. `LeaseImplements` is the refinement: the abstract term is the newest
term object, its leader the one node that holds by its own clock, its claimant the
one whose claim has landed and is not yet taken up. Each step maps to a claim, a lead, a lapse, a
withdrawal or a stutter; a `Tick` past an expiry is the lapse.
Two more theorems are about what a node calls. From `GovAssumption` (positive
ceilings, a bucket's scale and cap), for any requests and any time between them,
`RateSafety` shows `RateExact` of `RateGovernor`. `GovInv` accounts for each answer
given: what was admitted since, what is left and what is carried were full once or
earned since (`SpentOf`), and while everything since was refused nothing earned is
lost (`Waited`), which is what makes the delay a client was told true. Ceilings
double, so a ceiling never falls between two answers. `TokensAreExact` shows
`TokensMatch` of `StoreAdapter`, the part of `AdapterHonest` that every conditional
write above relies on.

**`IndexLoopProofs`**: from `IndexLoopAssumption` it proves that the index is a
prefix of the durable line (`IndexFaithful`), that the watch never names a
version the index does not hold (`WatchHonest`), and that every acknowledged version
is in the index unless it was emptied and not made whole since, and then is not named
by the watch either (`AckedReadable`), with every read and fold free to fail. The
invariant adds what each handle holds (`Handles`), where
a fold under way is (`Folding`), what may be assumed once the loop stands
still (`Standing`: its index is level with its handle or empty), and what an index
that was not emptied still owes to its acknowledgements (`Kept`).

**`SharedLogProofs`**: with `SpansTerms` and `CkptPauses` FALSE it proves
`LogSound`, `AckedDurable` and the refinement of `DurableLog`
(`LogImplements`, the abstract log being `Recovered`, what an open would read
now). Both hypotheses are needed: section 5 has the traces without them. The
difficulty is that no variable holds the log. The invariant `HasLine` says that
some sequence of commits `L`, the durable line, is what the base's snapshot and
the segments above it hold, without a hole and with nothing behind it (`IsLine`),
and that what each node holds, is reading or is about to write stands in a certain
relation to it. That relation cannot be "a beginning of `L`": a deposed writer's
PUT may land in a hole the checkpoint's deletes have left, and then its view and
whatever its checkpoint captures are of no line at all. `Sound` allows that only to
a writer of an older base generation whose view is no longer than the base, and
shows that none of it can be appended to or committed. `L` grows with an append
that lands above the base and otherwise stays; deletes cannot shorten it because a base above
them was committed first.

**`FollowerProofs`**: three theorems on the retention follower, over the loop of
`IndexLoopProofs`. `HeapSafety` shows `HeapSound` without any hypothesis: through
lag, failed reads and other leaders' entries no partition with something left to
expire drops out of the heap for good. What is out of it is on its way back, and
`HeapInv` says where: in the follower's hands or the loop's (`InHand`), or trimmed by
an entry it has not yet folded (`Pending`); besides that the deltas on their way are
news and in order (`Stream`). `FollowerIsFaithful` and `SweepIsSafe` show
`FollowerFaithful` and `SweepSafe` for one node that keeps its lease once it has it,
reads that do not fail, appends whose outcome is known, and a follower that never lags
past its buffer (`Alone`, `[][leads => leads']_vars`, `[]~lagged`). These are
hypotheses on the behaviour, not on the bounds, and TLC finds `SweepSafe` violated when
any of them is dropped: finding 3 is the first, and section 5 lists the others.
`SteadyInv` says that index, deltas and the entry being told make up the line with
nothing missing (`Level`, `Told`), that no entry trims past the end below it
(`LineSound`), and that what retention has in hand is folded and nothing on its way to
deletion is named by the line (`Dead`): the sweep works from a prefix that may be
behind, and is safe only because an object once unnamed is never named again.

**`WriteProofs`**: `NonceSafety` (from `NonceAssumption`) and `KeySafety`
(from `KeyAssumption`). `NonceInv` adds to `NoncesSound` that every epoch handed out keeps its term
object until the store is wiped, after which the marker forbids all allocation
(`TermsKept`), that an epoch has one owner at a time (`EpochsOwned`), and that an
owner's counters are past everything spent under it (`CountersPast`). `KeyInv`
adds to `KeysSound` that the live key has its own envelope and counts no less than the
bytes it sealed (`volume`, a history variable), that a key waiting to be wrapped is one task's and has sealed nothing, and
that the cache has one entry per wrapped key, dated no later than the key service
gave it. From `ProduceAssumption` (a request has a number of entries), for any
requests, partitions, domains and connections, any number of restarts and any
outcome of each PUT and commit, `ProducersToldTruth` shows `AnswersHold`,
`CommitsAreReadable` shows `CommitsReadable` and `KeysNameOneObject` the action
property `NamesOneObject`. The answers alone say nothing of a request under way, so
`ProduceInv` follows one from its first partition to its reply: a slot points at the
region of its own partition and no two regions of a request share one (`Slotted`),
what of the request is in the log is of the bundles it is done with (`Flowed`), and
each outcome it has been told is already true of the log as the session has seen it
(`OutcomesTrue`). Two facts keep that while others commit: a request's number is its
own, even after it was answered (`Numbered`), so an entry another connection
journals moves nothing before it and adds no place to this one's batches; and a name
is given out once (`Named`), so a PUT, also one whose answer was lost, never lands on
an object a commit names. A restart keeps `Named` only because the new writer id puts
every earlier name behind it.

The same module has `Sequencing`, from `SequencingAssumption` (no value of the model
stands for no producer and no state) and `NumberingAssumption` (a client numbers its
records from zero, and the batches it may have unanswered at once are fewer records
than the sequence space):
`LinesHeld` shows `LinesExact`, `AnswersAreTrue` `AnswersTrue`, `FoldsAreTrue`
`FoldsTrue`, `LinesMoveOn` the part `NextOfOneAdmitted` of `RetriesServed` and
`RetriesAreServed` the whole of it, for any window and any record counts. What they do
not say is what the code does not do: the batch after one of several records is
refused (finding 5), and of several batches in flight only the last of the line is
remembered (section 5). Only the log's own order is visible in these
properties, and an entry is decided long before it lands, so `SeqInv` says of every
entry, in the log, in the loop's hand or late, that it carries on the line below its
own version wherever it lands there (`Fits`): a conditional append lands at that
version or nowhere. With it go that every answer, also one about to be given, is true
of the log its allocator folded (`Vouched`), that a client knows of a batch only from
an answer (`GotAt`), and that the allocator is the fold of a prefix (`AllocAt`).
Sequences are compared modulo the space; that equal ones are the same batch needs
all a client may send to lie within one turn of it of the line's last batch, which
`Near` gets from the window and from what the client knows (`CloseAgree`). That the
tracker is in the order of the lines' last spans, which `ForgetsOldest` needs at an
eviction, is an induction over spans and entries (`StageTracks`, `FoldTracks`).

**`ServeProofs`**: the components of the read path and the connections. `SessionSafety` shows
`SessionServed`, which is about what a cache is let answer, not about ListOffsets
(section 5); `OneLine` says that watermark, cache and shard agree on where an
epoch's versions begin whenever they are of one epoch, although no two of them
learn of a new epoch together. `SleeperSafety` shows `SleepersLed`, the part of `ReadsOwnBytes` that needs an
argument over all interleavings: no reader sleeps on a flight whose leader is
gone without a wake-up under way. `FetchSafety` shows `FetchSound` for `SparingSpec`, in which the index is
emptied only before the request takes its samples, as in the run; section 5 says what
happens otherwise. It rests on the invariant
of `IndexLoopProofs`. From `FetchReadAssumption` (sizes, offsets and bounds are
numbers, and some object is the largest), for any layout of batches and any
request, `PassIsSound` shows `PassSound`: `Charged` keeps the account of what was
pulled against the budget left, with one object for each failure `Counted` and one
for the batch that crosses the budget, and `Moves` ties the exemption of the first
batch to a partition that has returned something. From `ConnAssumption`, for any clients and frames,
`OrderSafety` shows `AnsweredInOrder`: `OrderInv` adds that the channel between
reader and writer holds exactly the frames read and not joined, in order, and
that everything up to the last frame joined is told. `ChargeSafety` shows
`ChargedOnce`: `ChargeInv` adds that a request under way that is not a SASL one was
charged to the principal its session is bound to, which with credentials
configured is never nobody, so the one step that binds a session finds none
running.

**`ConsumerGroupProofs`**: from `GroupAssumption` (finitely many handlers, at
least one member, incumbents without repetition). `RoundsSafety` shows `RoundsSound`,
`StepsSafety` the action property `StepsHeard`, and `EnrolledSafety`, when no
client sends a join again before its answer (`~Resends`), `AnsweredEnrolled`;
section 5 has the trace without that hypothesis. The argument is that of the
in-flight slot: a round is replaced, closed or abandoned only by the slot's holder
or while nobody holds it, so the round a handler looked at before it waited for the
actor is the one it acts on afterwards. None of this is inductive, because
between a claim and its release a handler waits for the actor, and others enrol,
withdraw, lapse and queue requests of their own. `GroupInv` therefore says of every
place a handler can wait in what it may still rely on (`TaskOK`: a handler about to
open finds no open round, a closer's round is open and complete or past its
deadline, the generation its barrier was given is above every closed round's), of the
queue that each handler has at most one request in it and of the kind its place
asks for (`QueueOK`), of the rounds that only the last may be open (`RoundsOK`),
and of the incumbents that each is awaited, enrolled or excused (`AwaitsOK`).
`EnrolInv` adds that the member of every handler in a round is enrolled in it. The
order of a roster is written with `Kept`, a filter defined by rank, since what
`SelectSeq` returns for every sequence is out of the provers' reach.
From `GroupLogAssumption`, for any committers, keys and log booted over, any
outcome of each write and any number of restarts, `GroupLogServes` shows
`GroupsServed`. `GroupLogInv` says that nothing writes during the replay, that of
the writes under way at most one has landed unseen and it is at the end
(`WritesSound`), that an acknowledged commit stays in the log (`AnsweredLogged`),
and that the group's record is what the last replay handed over and the entries the
process knows of since, folded onto it (`ServedSound`; `ReplaySound` for each half of
the replay, as far as it has come). For a log that poisons nobody that is the fold of
the whole log, which needs that a prefix of it poisons nobody either (`FoldLonger`);
for one that does, section 5 has the difference.

**`CatalogProofs`**: from `CatalogAssumption` (callers and creators are not the
markers the model uses, every call is at a broker, and who creates or hydrates is a
creator), for any brokers, callers and calls, any of them dropped at any wait, and
writes that land late. `ForgottenSafety` shows `DeletedForgotten` and
`CreatorLists`, `CatalogRefines` shows `CatalogImplements`, and `TopicsSafety`
shows `TopicsSound`. The argument is `Grows`: while there is no tombstone no object of
the name is taken away or replaced, and a tombstone stays. Only a purge and a
withdrawal take objects away, and each of them, late or not, is of a call that has
seen the tombstone. So a call may rely on what it saw up to the tombstone, which is
what `CatalogInv` says of every place it can be in: the lock it holds (`LockOK`), what it
is about to write (`WriteOK`, also of the late writes), what it has seen (`SeenOK`),
that of the callers about to be told they created the topic there is one
(`OneCreator`), and that a call at a broker where a delete has forgotten the topic
either holds no entry or has a generation the cache no longer accepts (`BlindOK`).
The steps of all but the acting call are dealt with once (`OtherStands`,
`StepKeeps`). `JournalInv` adds, for `RetentionJournalled`, that between its write and
its record an alter holds the one lock there is and the store says what it will
record; the hypothesis `AltersAtOneBroker` makes it the one lock.

Induction over data is done where a proof needs it for the length of a log: the
folds of `GroupLog` and `Sequencing` are recursive functions on an initial segment of the naturals,
and `NatSetInduction` (from `WFMin` and the well-foundedness of `<`) is stated for
a set of naturals rather than for a predicate, which the provers can instantiate.

Only model-checked: the liveness property, which like `ENABLED` is outside the
prover's reach; `Retained` and `PlansHold` (the folds of `IndexSlot` and the sweep's
sorts); `SegmentsExact`; the pages of a listing and the
sums of a streamed put (`StoreHonest` and `ListingsWhole`, the other parts of
`AdapterHonest`);
`BundlesRead` and `BatchesServed`, whose decoders are `RECURSIVE`; and of
`ReadsOwnBytes` how merged ranges are cut. No module with a theorem reaches a
`RECURSIVE` operator.

## 5. Findings

1. *A request that outlives its term* (`leadership.rs`,
   `still_leads_after_append`): the fence after an append asks whether the
   lease is held, not under which term. A node whose append was held up while
   another led and checkpointed, and which took a later term before the answer
   came, acknowledges an entry no open reads.
2. *Fetches during the replay* (`fetch/partition.rs`): an index folded half way
   answers OFFSET_OUT_OF_RANGE for offsets the partition has.
3. *Entries of other terms are not pushed* (`leadership.rs`, `refold`): the
   retention follower's index accepts the next delta over the hole, its offsets
   are shifted, and it deletes an object still named.
4. *Two writers of the group log* (`group_transitions.rs`, `append_durably`): a
   comment says a writer that lost the race for a version is retried. The retry is
   on `NonMonotonicCommitVersion`; the production log answers the loser with
   `PreconditionFailed`, which is returned. After a PUT that failed and landed the
   handle's next version never advances, so appends fail until the process
   restarts.
5. *Sequences step by records* (`admission.rs`, `next_sequence`): the loop expects a
   batch's sequence to be one more than the last one's, and `ingest.rs` gives it
   Kafka's `base_sequence`, which an idempotent client advances by the number of
   records. The batch after one of two records is refused
   OUT_OF_ORDER_SEQUENCE_NUMBER by a leader that holds the whole line.

More can be seen by checking a property the modules define and the runs leave out, or
with other constants:

* *LATEST from the broker's own index* (`LatestAuthoritative` of `Consumer`): the doc
  of `Cluster::cache_state` says the index is never behind what has been
  acknowledged. It is when a fold or rebuild of `publish` failed, while the replay
  runs, and at a broker that leads no longer; the epoch it is fenced with in
  `listoffsets.rs` is the broker's own, so nothing notices.
* *Compacted objects* (`CompactedServed` of `Compaction`): a merge writes a region for
  each input, so the object it installs has at least two of the partition, and
  `region_for` refuses a second as damage. A range published in a manifest is read
  without the footer. `oqueue-compact/tests/it/layout.rs` says a fetch over a compacted
  range reads one span of one object; nothing drives swaps yet.
* *A poisoned group* (`RestartEquivalent` of `GroupLog`, booted over a log that begins
  with a SyncComplete): the set of groups whose replay met an illegal transition is
  local to one replay. The group then goes on live from the state the replay stopped
  in, with what it does appended to the log, and the next replay stops at the same
  record and drops all of it, where `group_transitions.rs` calls a replay "equivalent
  to what happened live before a restart".
* *The failure cap of a fetch* (`CapCountsObjects` of `FetchRead`): said in `read.rs` to
  count distinct objects, it counts ranges, because what was pulled is remembered by
  object and range. One damaged object read through two ranges reaches the cap, and
  healthy partitions behind it are refused.
* `SharedLog` with `CkptPauses` TRUE: a checkpoint task paused between its look
  at the lease and its capture commits a base over a stale view (`AckedDurable`).
* `Follower` with `Buffer` 1: a follower that lagged rebuilds from the handle
  opened at boot and misses what it lost; with `ReadFails` TRUE, one whose first
  open failed discards the deltas it folded meanwhile; with `Ambiguous` TRUE, or when
  the one node loses its lease and takes the next term, an entry that landed
  and was not acknowledged is refolded and not pushed, as in 3 (`SweepSafe` each time).
* `Sequencing` with `Window` 2: only the last batch of a line is remembered, so
  the retry of the older of two committed batches is refused as out of order, where
  `docs/protocol-support.md` says a retried batch is deduplicated.
  `RetriesDeduplicated` asks it of a client with several batches in flight for the last
  of its line only.
* `Sequencing` with `Window` and `SeqMax` 2 and `Cap` 1: a line forgotten at the cap
  while one of its batches was unanswered is begun again by that batch's copy, and a
  later batch of the same number modulo the space is then answered with the copy's
  offset. `LinesExact` and `AnswersTrue` leave out the lines the cap has forgotten,
  as `expiry.rs` does ("never evict a producer a retry still needs").
* `ConsumerGroup` with two members, four requests, no fault and a group that
  starts in CompletingRebalance (`NoStranded`): `remove_where` reads the
  generation before it removes a member and refuses that one after. If a barrier
  completes in between, a follower that synced at the new generation stays
  parked when the removal takes the group out of it, until the sync backstop
  fires. `heartbeat.rs` says the generation read "names the same one the actor
  would return".
* `ConsumerGroup` with `Resends` TRUE (`AnsweredEnrolled`): of two handlers of one
  member in the same round, one gives up and withdraws the member, and the other
  is answered with a roster the member is not in. `withdraw` says that telling
  rounds apart prevents this; it does when the two are in different rounds.
* `Catalog` with alters of one topic at two brokers (`RetentionJournalled`): the
  lifecycle lock of `alter_configs.rs` is the broker's own, and the catalog write
  and the record are two steps. One broker persists its retention, the other
  persists its own over it and journals it, and then the first journals: the log,
  and so the follower that expires records, is left with a retention the
  configuration no longer says. A broker journals only while it leads, so this takes
  a change of leader between the two records.
* `ConsumerGroup`: a leader's SyncComplete that waited in the queue while the
  next round closed makes the group Stable at the next generation before that
  generation has an assignment, as `sync_group.rs` knows; its own map is refused.

And by reading only:

* `object_store_log.rs` says an open that raced a checkpoint is started over, but
  a snapshot deleted between the base and its GET is returned as an error
  (`SnapshotGone`), which the loop's retry then absorbs.
* An index emptied between a fetch's samples and its park, by `drop_cache`, which
  nothing in production calls, or by a failed fold or rebuild, can cost it the wake-up
  until its deadline. What a failed refold had folded is told to nobody until a later
  refold succeeds, so a parked fetch may sleep over it (`GrowthIsRead` says so).
* `serve.rs:325` says of `publish` that the index already has what a producer was
  acknowledged; a fold or rebuild that fails leaves it empty, as the comment two
  paragraphs on and the test at `tests/it/cache.rs:90` have it.
* A data key may seal more than `DEK_MAX_SEALED_BYTES`: the bound is asked before a
  region's bytes are charged, so the last region may cross it by its own size, which
  `tests/it/dek_cache.rs:74` asserts.
* `listoffsets.rs:217` and `docs/protocol-support.md:28` speak of the earliest
  offset, but `EARLIEST_TIMESTAMP` is answered 0 (and `partition.rs:245` answers a
  log start of 0) while retention trims.
* `gcs.rs:170` against `gcs.rs:276`, where a streamed write answers the `e_tag`;
  the last part of a streamed bundle (`bundle_stream.rs:227`) may exceed the part
  size `gcs/put.rs:34` allows.
* `oqueue-compact/src/merge.rs:10` bounds its memory, while `push_sealed` keeps every sealed byte;
  mixing `push` and `push_sealed` misplaces regions.
* Compaction's swap and publication have no production caller; `read.rs:101` says
  manifest and index abut, which they need not. `ChunkedObjectStore`, `MergingObjectStore`,
  `RateGovernor`, `IndexQuota` and the index applier have no production caller
  either.
* A `retention.ms` so large that the deadline overflows (`retention.rs:324`)
  disarms a partition, and a later shorter retention re-arms only partitions that
  are armed: an idle one does not expire until its next commit or a rebuild.
* `init_producer_id.rs:135` folds process id, clock and counter with exclusive or,
  so two mints of one process, the first and the second, whose clocks differ in
  bit 22 alone get the same id, where its comment says the counter tells them
  apart.

* `dispatch.rs:287` holds the topic lock's read guard around a request, and a create
  takes the same guard again (`create_topics.rs:112`, `topics.rs:119`). tokio's lock
  lets a waiting writer go first, so a delete that queues between the two blocks both.
  `Catalog` lets the second guard be taken whenever no writer holds the lock, and
  claims no liveness.

## 6. Not modelled, and the plan

Abstracted within what is modelled, without effect on a property: `Produce` has one
reason for a rejected region and no replayed ones, and leaves out null records and a
topic without a key domain, which are refused like the defects it has. `Connection`
has a quota for everyone (without one `admit_quota` admits), constant grants, and no
handler that closes after it was admitted, which ends the connection as a panic does.
`StoreAdapter` leaves out the part size `finish` refuses, which the limits in use
never reach. Three things are assumed of what is outside: a writer id made
of pid, time and counter is unique (`MintWriter`, as `writer_id.rs` argues); a store
never gives one token to two generations of an object, though an S3 ETag of equal
bytes may repeat (`TokenOf`, as the repository's own tests demand of a store); and
whoever wipes the epoch objects leaves the marker and waits until nobody allocates
(`Wipe`).

Not modelled: `standby.rs` and the index applier and reader (no caller, and their
folds are `IndexLoop`'s and `IndexSlot`'s); health, telemetry and metrics
(observation); the length of the sync backstop and of sessions, since the model
lets any timer fire; producer identities (a pure function, see section 5); the
generated request and response schemas; TLS, SCRAM and AES-GCM arithmetic
(external); argument parsing and listeners; gc's listing of orphans; the look-up
of an offset by time; the validation of request fields.

What is left is proof rather than model: the invariants section 4 lists as only
model-checked, `Retained` of compaction first.
