----------------------------- MODULE IndexSlot -----------------------------
(***************************************************************************)
(* The fold of the metadata log into an index: what one partition's slot   *)
(* holds, what each record does to it, how a page of entries is staged and *)
(* projected before any of it is applied, and what a read finds.           *)
(*   oqueue-core/src/index_state.rs and index_state/{partition,projection, *)
(*   page,liveness,retention}.rs, coverage.rs, object_ref.rs               *)
(* A byte range is not kept: a tail entry is one whose range is known, a   *)
(* history entry one whose footer is read for it.                          *)
(***************************************************************************)
EXTENDS Naturals, Sequences, FiniteSets, SequencesExt

CONSTANTS Parts,           \* topic partitions
          TAIL_WINDOW,     \* TAIL_WINDOW_ENTRIES
          PAGE_BATCHES     \* MAX_BATCHES_PER_PAGE

ASSUME SlotAssumption == TAIL_WINDOW \in Nat \ {0} /\ PAGE_BATCHES \in Nat \ {0}

(* An ObjectRef: count records of one partition from base, in obj.         *)
Ref(obj, base, count) == [obj |-> obj, base |-> base, count |-> count]
EndOf(ref) == ref.base + ref.count

NoManifest == [obj |-> 0, upto |-> 0]

(* PartitionIndex::default.                                                *)
EmptySlot == [end |-> 0, tail |-> <<>>, history |-> <<>>, manifest |-> NoManifest,
              start |-> 0]

(* boundary: a manifest may stop only where an entry that could be in its  *)
(* history begins, whatever the page size that folded it.                  *)
MeetsHistory(slot, upto) ==
    LET refs  == slot.history \o slot.tail
        older == IF Len(refs) > TAIL_WINDOW THEN Len(refs) - TAIL_WINDOW ELSE 0
        limit == IF older < Len(refs) THEN refs[older + 1].base ELSE slot.end
    IN  upto = limit \/ \E i \in 1 .. older : refs[i].base = upto

(* absorb.                                                                 *)
Absorb(slot, manifest, upto) ==
    [slot EXCEPT !.history = SelectSeq(@, LAMBDA ref : EndOf(ref) > upto),
                 !.manifest = [obj |-> manifest, upto |-> upto]]

(* push: a tail over its window demotes its oldest entry.                  *)
Push(slot, ref) ==
    LET tail == Append(slot.tail, ref)
        over == Len(tail) > TAIL_WINDOW
    IN  [slot EXCEPT !.end = EndOf(ref),
                     !.tail = IF over THEN Tail(tail) ELSE tail,
                     !.history = IF over THEN Append(@, Head(tail)) ELSE @]

(* trim, and the objects whose references it drops, once for each.         *)
TrimSlot(slot, start) ==
    IF start <= slot.start THEN slot
    ELSE LET lives(ref) == EndOf(ref) > start
         IN  [slot EXCEPT !.history = SelectSeq(@, lives), !.tail = SelectSeq(@, lives),
                          !.manifest = IF @.upto <= start THEN NoManifest ELSE @,
                          !.start = start]
TrimDrops(slot, start) ==
    IF start <= slot.start THEN <<>>
    ELSE SelectSeq(slot.history \o slot.tail, LAMBDA ref : EndOf(ref) <= start)

Ordered(refs) == SortSeq(refs, LAMBDA a, b : a.base < b.base)

(* contiguous_span: no reference is empty, and none leaves a gap.          *)
Contiguous(refs) ==
    LET r == Ordered(refs)
    IN  /\ \A i \in 1 .. Len(r) : r[i].count > 0
        /\ \A i \in 1 .. Len(r) - 1 : EndOf(r[i]) = r[i + 1].base
Spans(refs) == <<Head(Ordered(refs)).base, EndOf(Last(Ordered(refs)))>>

(* covers.                                                                 *)
Covers(retiring, installing) ==
    /\ retiring # <<>> /\ installing # <<>>
    /\ Contiguous(retiring) /\ Contiguous(installing)
    /\ Spans(retiring) = Spans(installing)

(* apply_swap: what is retired must be covered, and held in history.       *)
Swappable(slot, retiring, installing) ==
    /\ Covers(retiring, installing)
    /\ \A i \in 1 .. Len(retiring) : Contains(slot.history, retiring[i])
ReplaceHistory(slot, retiring, installing) ==
    [slot EXCEPT !.history =
        Ordered(SelectSeq(@, LAMBDA ref : ~Contains(retiring, ref)) \o installing)]

-----------------------------------------------------------------------------
(* MetadataRecord.                                                         *)
BatchCommitted(obj, spans) == [op |-> "commit", obj |-> obj, spans |-> spans]
TrimmedRecord(p, start)    == [op |-> "trim", part |-> p, start |-> start]
ManifestPublished(p, m, u) == [op |-> "publish", part |-> p, obj |-> m, upto |-> u]
RangeCompacted(p, out, in) == [op |-> "swap", part |-> p, retiring |-> out, installing |-> in]

(* IndexState: its slots, and the references counted for each object.      *)
NewIndex(Obj) == [slot |-> [p \in Parts |-> EmptySlot], refs |-> [o \in Obj |-> 0]]

(* stage_span: the entries a page adds to a partition, each at the offset  *)
(* the one before it ends at.                                              *)
Staged(index, entries, p) ==
    LET spanned(e) == IF e.op # "commit" THEN <<>>
                      ELSE SelectSeq([i \in 1 .. Len(e.spans) |-> [part |-> e.spans[i].part,
                                        ref |-> Ref(e.obj, 0, e.spans[i].count)]],
                                     LAMBDA s : s.part = p)
        place(refs, s) == Append(refs,
            Ref(s.ref.obj, IF refs = <<>> THEN index.slot[p].end ELSE EndOf(Last(refs)),
                s.ref.count))
    IN  FoldLeft(place, <<>>, FlattenSeq([i \in 1 .. Len(entries) |-> spanned(entries[i])]))

(* apply_effect's refusals.                                                *)
EffectAllowed(slot, e) ==
    CASE e.op = "publish" -> MeetsHistory(slot, e.upto)
      [] e.op = "swap"    -> Swappable(slot, e.retiring, e.installing)
      [] e.op = "trim"    -> e.start <= slot.end

Affect(slot, e) ==
    CASE e.op = "publish" -> Absorb(slot, e.obj, e.upto)
      [] e.op = "swap"    -> ReplaceHistory(slot, e.retiring, e.installing)
      [] e.op = "trim"    -> TrimSlot(slot, e.start)

(* catch_up: push the staged entries up to the one an effect stands before.*)
CatchUp(slot, staged, from, to) == FoldLeft(Push, slot, SubSeq(staged, from + 1, to))

(* project: the page's effects on one partition, in the order of the log,  *)
(* each on the slot as the spans before it left it. changes are the        *)
(* references dropped and added by them.                                   *)
Project(index, entries, p) ==
    LET staged == Staged(index, entries, p)
        before(i) == Cardinality({<<j, n>> \in (1 .. i - 1) \X (1 .. Cardinality(Parts)) :
                         /\ entries[j].op = "commit" /\ n <= Len(entries[j].spans)
                         /\ entries[j].spans[n].part = p})
        step(acc, i) ==
            LET e    == entries[i]
                slot == CatchUp(acc.slot, staged, acc.taken, before(i))
            IN  [ok |-> acc.ok /\ EffectAllowed(slot, e), taken |-> before(i),
                 slot |-> IF EffectAllowed(slot, e) THEN Affect(slot, e) ELSE slot,
                 dropped |-> acc.dropped \o CASE e.op = "trim" -> TrimDrops(slot, e.start)
                                              [] e.op = "swap" -> e.retiring
                                              [] OTHER -> <<>>,
                 added |-> acc.added \o (IF e.op = "swap" THEN e.installing ELSE <<>>)]
        mine == SelectSeq([i \in 1 .. Len(entries) |-> i],
                    LAMBDA i : entries[i].op # "commit" /\ entries[i].part = p)
        done == FoldLeft(step, [ok |-> TRUE, taken |-> 0, slot |-> index.slot[p],
                                dropped |-> <<>>, added |-> <<>>], mine)
    IN  [done EXCEPT !.slot = CatchUp(@, staged, done.taken, Len(staged)),
                     !.added = @ \o staged]

(* References::apply: every addition of a page before any removal, and no  *)
(* count below zero.                                                       *)
Counted(refs, added, dropped) ==
    [o \in DOMAIN refs |->
        LET up   == refs[o] + Len(SelectSeq(added, LAMBDA r : r.obj = o))
            down == Len(SelectSeq(dropped, LAMBDA r : r.obj = o))
        IN  IF down > up THEN 0 ELSE up - down]

(* IndexState::apply: all of a page, or none of it.                        *)
Applies(index, entries) == \A p \in Parts : Project(index, entries, p).ok

Apply(index, entries) ==
    LET done  == [p \in Parts |-> Project(index, entries, p)]
        parts == SetToSeq(Parts)
        all(field(_)) == FlattenSeq([i \in 1 .. Len(parts) |-> field(done[parts[i]])])
    IN  [slot |-> [p \in Parts |-> done[p].slot],
         refs |-> Counted(index.refs, all(LAMBDA d : d.added), all(LAMBDA d : d.dropped))]

-----------------------------------------------------------------------------
(* find_batches, with an unbounded byte budget: refused below the log's    *)
(* start, else the first page of entries that end above it.                *)
BelowLogStart(slot, from) == from < slot.start

FindBatches(slot, from) ==
    LET all == SelectSeq(slot.history \o slot.tail, LAMBDA ref : EndOf(ref) > from)
    IN  SubSeq(all, 1, IF Len(all) > PAGE_BATCHES THEN PAGE_BATCHES ELSE Len(all))
=============================================================================
