----------------------------- MODULE Compaction -----------------------------
(***************************************************************************)
(* Compaction against the index it reads and the lifecycle that deletes:   *)
(* a sweep plans what history to rewrite, a merge copies it into one new   *)
(* object, and a swap retires the references it replaces, while commits,   *)
(* trims, manifests and deletions go on.                                   *)
(*   oqueue-compact/src/{sweep,plan,cost,read_amp,layout,merge,namer}.rs,  *)
(*   oqueue-core/src/{index_state,partition_manifest,bundle_stream}.rs,    *)
(*   oqueue-broker/src/read.rs, read/manifest.rs, region.rs                *)
(* Nothing in the repository drives a swap or a publication yet: their     *)
(* records are journalled here the way its tests apply them.               *)
(***************************************************************************)
EXTENDS IndexSlot

CONSTANTS
    THRESHOLD,        \* COMPACTION_READ_AMP_THRESHOLD
    TARGET_RECORDS,   \* COMPACTED_OBJECT_RECORDS
    PLAN_BUDGET,      \* COMPACTION_PLAN_RECORDS_BUDGET
    HOPS,             \* MAX_MANIFEST_HOPS
    Bundles,          \* the partitions a produced bundle may hold
    Counts,           \* records a span may carry
    MaxKeys, MaxEnd, MaxEntries   \* bounds: objects, offsets, log entries

Key == 1 .. MaxKeys

VARIABLES
    objects,   \* what the store holds under each key
    log,       \* the metadata log
    idx,       \* the IndexState folded from it
    minted,    \* keys handed out so far
    freed,     \* objects handed to the lifecycle
    comp       \* the compactor

compactionVars == <<objects, log, idx, minted, freed, comp>>

Absent == [kind |-> "absent"]
Bundled(regions) == [kind |-> "bundle", regions |-> regions]
ManifestObject(entries, previous) ==
    [kind |-> "manifest", entries |-> entries, previous |-> previous]

IdleCompactor == [phase |-> "idle", round |-> <<>>, budget |-> 0, out |-> 0,
                  at |-> <<1, 1>>, regions |-> <<>>]

CompactionInit ==
    /\ objects = [k \in Key |-> Absent]
    /\ log = <<>> /\ idx = NewIndex(Key)
    /\ minted = 0 /\ freed = {}
    /\ comp = IdleCompactor

(* A record of the log is appended only if the index takes it.             *)
Journals(entry) ==
    /\ Len(log) < MaxEntries
    /\ Applies(idx, <<entry>>)
    /\ log' = Append(log, entry)
    /\ idx' = Apply(idx, <<entry>>)

(* A bundle PUT and committed: one region for each of its partitions.      *)
CommitBatch(parts, count) ==
    /\ minted < MaxKeys
    /\ \A p \in parts : idx.slot[p].end + count <= MaxEnd
    /\ LET key   == minted + 1
           order == SetToSeq(parts)
       IN  /\ objects' = [objects EXCEPT ![key] = Bundled([i \in 1 .. Len(order) |->
                              [part |-> order[i], recs |-> [n \in 1 .. count |-> <<key, n>>]]])]
           /\ Journals(BatchCommitted(key, [i \in 1 .. Len(order) |->
                              [part |-> order[i], count |-> count]]))
           /\ minted' = key
    /\ UNCHANGED <<freed, comp>>

(* A trim, and the release of what it dropped.                             *)
TrimTo(p, start) ==
    /\ start > idx.slot[p].start
    /\ Journals(TrimmedRecord(p, start))
    /\ freed' = freed \cup {r.obj : r \in ToSet(TrimDrops(idx.slot[p], start))}
    /\ UNCHANGED <<objects, minted, comp>>

(* Mutant of Delete: whoever still names the object is not asked.          *)
DeleteReleased(k) ==
    /\ k \in freed
    /\ objects' = [objects EXCEPT ![k] = Absent]
    /\ freed' = freed \ {k}
    /\ UNCHANGED <<log, idx, minted, comp>>

(* LifecycleManager: a released object nothing references is deleted.      *)
Delete(k) ==
    /\ k \in freed /\ idx.refs[k] = 0
    /\ objects' = [objects EXCEPT ![k] = Absent]
    /\ freed' = freed \ {k}
    /\ UNCHANGED <<log, idx, minted, comp>>

-----------------------------------------------------------------------------
(* PartitionManifestBuilder: entries abut, and no object is named twice.   *)
Seals(entries) ==
    /\ entries # <<>>
    /\ \A i \in 1 .. Len(entries) - 1 : EndOf(entries[i]) = entries[i + 1].base
    /\ \A i, j \in 1 .. Len(entries) : entries[i].obj = entries[j].obj => i = j

(* A manifest over the history below upto, which either carries what the   *)
(* manifest before it held or spills to it, and its publication.           *)
Publish(p, upto, spills) ==
    LET slot    == idx.slot[p]
        held    == slot.manifest.obj
        fresh   == SelectSeq(slot.history, LAMBDA r : EndOf(r) <= upto)
        before  == IF held = 0 THEN ManifestObject(<<>>, 0) ELSE objects[held]
        built   == IF spills THEN ManifestObject(fresh, held)
                   ELSE ManifestObject(before.entries \o fresh, before.previous)
    IN  /\ minted < MaxKeys
        /\ spills => held # 0
        /\ fresh # <<>> /\ EndOf(Last(fresh)) = upto
        /\ Seals(built.entries)
        /\ objects' = [objects EXCEPT ![minted + 1] = built]
        /\ Journals(ManifestPublished(p, minted + 1, upto))
        /\ minted' = minted + 1
        /\ UNCHANGED <<freed, comp>>

-----------------------------------------------------------------------------
(* Walk: the references a survey of [from, to) visits, and of those the    *)
(* ones it may count: whole, and not straddling its start.                 *)
Visited(slot, from, to) ==
    LET all == SelectSeq(slot.history \o slot.tail, LAMBDA r : EndOf(r) > from)
    IN  SelectSeq(all, LAMBDA r : r.base < to)

Barred(slot, from) ==
    {r.obj : r \in {q \in ToSet(slot.history \o slot.tail) :
                       q.base < from /\ EndOf(q) >= from}}

(* finish: the first run of such references that abut.                     *)
Run(slot, from, to) ==
    LET whole == SelectSeq(Visited(slot, from, to), LAMBDA r :
                     /\ r.base >= from /\ EndOf(r) <= to
                     /\ r.obj \notin Barred(slot, from))
        abuts(n) == \A i \in 1 .. n - 1 : EndOf(whole[i]) = whole[i + 1].base
        longest  == CHOOSE n \in 0 .. Len(whole) :
                        abuts(n) /\ \A m \in 0 .. Len(whole) : abuts(m) => m <= n
    IN  SubSeq(whole, 1, longest)

(* Mutant of BeforeTail: the run goes on into the tail.                    *)
BeforeTailOff(slot, run) == run

(* before_tail: the run up to the first reference still in the tail.       *)
BeforeTail(slot, run) ==
    LET inTail(i) == Contains(slot.tail, run[i])
    IN  SubSeq(run, 1, Cardinality({i \in 1 .. Len(run) : \A j \in 1 .. i : ~inTail(j)}))

RecordsOf(refs) == FoldLeft(LAMBDA n, r : n + r.count, 0, refs)
ObjectsNeeded(records) == (records + TARGET_RECORDS - 1) \div TARGET_RECORDS

(* read_amp: a survey that starts below the log's start is taken from it.  *)
Surveyed(slot, from, to) ==
    LET start == IF BelowLogStart(slot, from) THEN slot.start ELSE from
    IN  BeforeTail(slot, Run(slot, start, to))

(* plan, and CostEstimate.                                                 *)
WorthIt(refs) ==
    refs # <<>> /\ Len(refs) > THRESHOLD * ObjectsNeeded(RecordsOf(refs))
WithinBudget(refs) == RecordsOf(refs) <= PLAN_BUDGET

Smaller(a, b) == IF a < b THEN a ELSE b

(* sweep: each candidate partition once, over a window of one budget; what *)
(* the round has no room for is held over.                                 *)
SweepStart ==
    /\ comp.phase = "idle"
    /\ comp' = [IdleCompactor EXCEPT !.phase = "sweeping", !.budget = PLAN_BUDGET]
    /\ UNCHANGED <<objects, log, idx, minted, freed>>

Candidate(p, from) ==
    LET slot == idx.slot[p]
        refs == Surveyed(slot, from, Smaller(from + PLAN_BUDGET, slot.end))
    IN  /\ comp.phase = "sweeping"
        /\ \A i \in 1 .. Len(comp.round) : comp.round[i].part # p
        /\ WorthIt(refs) /\ WithinBudget(refs)
        /\ RecordsOf(refs) <= comp.budget
        /\ comp' = [comp EXCEPT
               !.round = Append(@, [part |-> p, start |-> refs[1].base,
                                    end |-> EndOf(Last(refs)), inputs |-> <<>>]),
               !.budget = @ - RecordsOf(refs),
               !.phase = "deriving"]
        /\ UNCHANGED <<objects, log, idx, minted, freed>>

(* PlannedInputs::derive: what the index names in the planned range by the *)
(* time it is asked, each object once.                                     *)
Derive ==
    LET n    == Len(comp.round)
        plan == comp.round[n]
        slot == idx.slot[plan.part]
        from == IF BelowLogStart(slot, plan.start) THEN slot.start ELSE plan.start
    IN  /\ comp.phase = "deriving"
        /\ comp' = [comp EXCEPT !.round[n].inputs = Visited(slot, from, plan.end),
                                !.phase = "sweeping"]
        /\ UNCHANGED <<objects, log, idx, minted, freed>>

(* tiling: the inputs that overlap the plan cover exactly its range.       *)
Tiling(plan) ==
    LET touching == SelectSeq(plan.inputs, LAMBDA r : EndOf(r) > plan.start /\ r.base < plan.end)
    IN  /\ touching # <<>>
        /\ Contiguous(touching)
        /\ Spans(touching) = <<plan.start, plan.end>>

(* merge_round: the round is admissible, and a key is minted for it.       *)
Admissible(round) ==
    /\ \A i, j \in 1 .. Len(round) :
           i # j /\ round[i].part = round[j].part =>
               round[i].end <= round[j].start \/ round[j].end <= round[i].start
    /\ RecordsOf([i \in 1 .. Len(round) |-> [count |-> round[i].end - round[i].start]])
           <= PLAN_BUDGET

MergeStart ==
    /\ comp.phase = "sweeping" /\ comp.round # <<>>
    /\ Admissible(comp.round)
    /\ minted < MaxKeys
    /\ minted' = minted + 1
    /\ comp' = [comp EXCEPT !.phase = "merging", !.out = minted + 1]
    /\ UNCHANGED <<objects, log, idx, freed>>

(* take_regions: the compactor takes every region of the plan's partition; *)
(* gather reads one input at a time, the first of a plan after its tiling  *)
(* is checked.                                                             *)
RegionsOf(k, p) ==
    IF objects[k].kind # "bundle" THEN <<>>
    ELSE SelectSeq(objects[k].regions, LAMBDA r : r.part = p)
Held(regions) == FlattenSeq([i \in 1 .. Len(regions) |-> regions[i].recs])

AtPlan  == comp.round[comp.at[1]]
AtInput == AtPlan.inputs[comp.at[2]]
Gathers ==
    /\ Tiling(AtPlan)
    /\ Len(Held(RegionsOf(AtInput.obj, AtPlan.part))) = AtInput.count

MergeGet ==
    /\ comp.phase = "merging" /\ comp.at[1] <= Len(comp.round)
    /\ Gathers
    /\ comp' = [comp EXCEPT
           !.regions = @ \o RegionsOf(AtInput.obj, AtPlan.part),
           !.at = IF @[2] < Len(AtPlan.inputs) THEN <<@[1], @[2] + 1>> ELSE <<@[1] + 1, 1>>]
    /\ UNCHANGED <<objects, log, idx, minted, freed>>

(* A tiling refused, an input deleted meanwhile, one that holds another    *)
(* count, or a compactor that stops: the upload is aborted.                *)
Abandon ==
    /\ comp.phase # "idle"
    /\ comp' = IdleCompactor
    /\ UNCHANGED <<objects, log, idx, minted, freed>>

(* BundleStream::finish: the object appears whole.                         *)
MergeFinish ==
    /\ comp.phase = "merging" /\ comp.at[1] > Len(comp.round)
    /\ objects' = [objects EXCEPT ![comp.out] = Bundled(comp.regions)]
    /\ comp' = [comp EXCEPT !.phase = "swapping"]
    /\ UNCHANGED <<log, idx, minted, freed>>

(* One plan's swap: its inputs for the one reference that replaces them.   *)
Installed(plan) == <<Ref(comp.out, plan.start, plan.end - plan.start)>>
Rest(round) == IF Len(round) = 1 THEN IdleCompactor
               ELSE [comp EXCEPT !.round = Tail(@)]

Swap ==
    LET plan == Head(comp.round)
    IN  /\ comp.phase = "swapping"
        /\ Journals(RangeCompacted(plan.part, plan.inputs, Installed(plan)))
        /\ freed' = freed \cup {r.obj : r \in ToSet(plan.inputs)}
        /\ comp' = Rest(comp.round)
        /\ UNCHANGED <<objects, minted>>

(* SwapRefused: the index moved on; the object written is released, and    *)
(* lives on only where another plan of the round installed it.             *)
SwapRefused ==
    LET plan == Head(comp.round)
    IN  /\ comp.phase = "swapping"
        /\ ~Applies(idx, <<RangeCompacted(plan.part, plan.inputs, Installed(plan))>>)
        /\ comp' = Rest(comp.round)
        /\ UNCHANGED <<objects, log, idx, minted, freed>>

CompactionNext ==
    \/ \E parts \in Bundles, n \in Counts : CommitBatch(parts, n)
    \/ \E p \in Parts, start \in 1 .. MaxEnd : TrimTo(p, start)
    \/ \E k \in Key : Delete(k)
    \/ \E p \in Parts, upto \in 1 .. MaxEnd, s \in BOOLEAN : Publish(p, upto, s)
    \/ SweepStart
    \/ \E p \in Parts, from \in 0 .. MaxEnd : Candidate(p, from)
    \/ Derive \/ MergeStart \/ MergeGet \/ MergeFinish
    \/ Abandon \/ Swap \/ SwapRefused

CompactionSpec == CompactionInit /\ [][CompactionNext]_compactionVars

-----------------------------------------------------------------------------
(* What was committed to a partition, in the order of the log.             *)
Truth(p) ==
    FlattenSeq([i \in 1 .. Len(log) |->
        IF log[i].op # "commit" THEN <<>>
        ELSE FlattenSeq([s \in 1 .. Len(log[i].spans) |->
                 IF log[i].spans[s].part # p THEN <<>>
                 ELSE [n \in 1 .. log[i].spans[s].count |-> <<log[i].obj, n>>]])])

(* manifest_batches: the link of the chain whose entries hold the offset,  *)
(* 0 if none does within the hops a reader takes.                          *)
LinkFor(slot, from) ==
    LET chain[n \in 0 .. HOPS] ==
            IF n = 0 THEN slot.manifest.obj
            ELSE LET k == chain[n - 1]
                 IN  IF k = 0 \/ from >= objects[k].entries[1].base THEN k
                     ELSE objects[k].previous
        link == chain[HOPS - 1]
    IN  IF link # 0 /\ from >= objects[link].entries[1].base
                    /\ from < EndOf(Last(objects[link].entries))
        THEN link ELSE 0

FromManifest(slot, from) ==
    IF from >= slot.manifest.upto \/ LinkFor(slot, from) = 0 THEN <<>>
    ELSE LET kept == SelectSeq(objects[LinkFor(slot, from)].entries,
                         LAMBDA r : EndOf(r) > from /\ r.base < slot.manifest.upto)
         IN  SubSeq(kept, 1, Smaller(Len(kept), PAGE_BATCHES))

(* read_inner: what the manifest names, then what the index does.          *)
ReadPage(p, from) == FromManifest(idx.slot[p], from) \o FindBatches(idx.slot[p], from)

(* slice_region: a broker cuts a partition out of an object whose footer   *)
(* lists exactly one region of it, and refuses any other. A byte range a   *)
(* manifest names is read without the footer.                              *)
Slice(k, p) == IF Len(RegionsOf(k, p)) = 1 THEN RegionsOf(k, p)[1].recs ELSE <<>>

Compacted(k) ==
    \E i \in 1 .. Len(log) :
        log[i].op = "swap" /\ \E j \in 1 .. Len(log[i].installing) : log[i].installing[j].obj = k

(* Nothing a reader may still ask for is lost, whatever is compacted,      *)
(* deleted, trimmed or moved to a manifest meanwhile: a read at any offset *)
(* of the log finds a reference to it first (read_inner), the object named *)
(* holds there the record that was committed, and if no merge wrote that   *)
(* object the broker's cut of it is that record too (slice_region).        *)
Retained ==
    \A p \in Parts : \A o \in idx.slot[p].start .. idx.slot[p].end - 1 :
        LET page == ReadPage(p, o)
        IN  /\ page # <<>>
            /\ page[1].base <= o /\ o < EndOf(page[1])
            /\ LET recs == Held(RegionsOf(page[1].obj, p))
               IN  /\ recs # <<>> /\ recs[o - page[1].base + 1] = Truth(p)[o + 1]
                   /\ Compacted(page[1].obj) \/ Slice(page[1].obj, p) = recs

(* tests/it/layout.rs of oqueue-compact: after compaction, a fetch over    *)
(* the whole compacted range reads one contiguous span of one object. The  *)
(* object a merge writes has a region for each of its inputs, and what no  *)
(* manifest gives a byte range for is read through its footer.             *)
CompactedServed ==
    \A p \in Parts : \A o \in idx.slot[p].start .. idx.slot[p].end - 1 :
        LET ref == ReadPage(p, o)[1]
        IN  FromManifest(idx.slot[p], o) = <<>> /\ Compacted(ref.obj) => Slice(ref.obj, p) # <<>>

(* Whatever the size of the pages a replay folds, it ends with the index   *)
(* that folded the entries one by one (index_state.rs: "a rebuild that     *)
(* pages differently must agree").                                         *)
Rebuilt(size) ==
    LET pages == (Len(log) + size - 1) \div size
        page(i) == SubSeq(log, (i - 1) * size + 1, Smaller(i * size, Len(log)))
    IN  FoldLeft(LAMBDA index, i : Apply(index, page(i)), NewIndex(Key), [i \in 1 .. pages |-> i])

FoldsAlike ==
    comp.phase = "idle" => \A size \in {2, 3, Len(log)} \cap 2 .. Len(log) : Rebuilt(size) = idx

(* What sweep plans, the index takes: until something is folded after it   *)
(* was derived, a plan is tiled by its inputs and its swap is accepted, so *)
(* no round copies what can never be installed.                            *)
PlansInstall ==
    \A i \in 1 .. Len(comp.round) :
        LET plan == comp.round[i]
            refs == Surveyed(idx.slot[plan.part], plan.start, plan.end)
        IN  comp.phase = "sweeping" /\ refs # <<>> /\ Spans(refs) = <<plan.start, plan.end>>
            => Tiling(plan) /\ Swappable(idx.slot[plan.part], plan.inputs, Installed(plan))

(* What was planned or folded holds whenever it is used.                   *)
PlansHold == FoldsAlike /\ PlansInstall
=============================================================================
