----------------------------- MODULE FetchRead -----------------------------
(***************************************************************************)
(* What one Fetch reads: its partitions in the order it names them, under  *)
(* one byte budget and one memory of the objects already pulled, pass      *)
(* after pass until the answer is worth sending, against a store whose     *)
(* objects fail, are reaped or are damaged.                                *)
(*   oqueue-broker/src/fetch/{mod,target,pass,partition}.rs, read.rs,      *)
(*   read/batch.rs, region.rs; oqueue-core/src/index_state/page.rs         *)
(* When a parked fetch wakes is FetchPark's; here it may at any growth.    *)
(* No partition has a manifest: Compaction reads through those.            *)
(***************************************************************************)
EXTENDS Naturals, Sequences, FiniteSets, SequencesExt

CONSTANTS
    FetchPart,        \* partitions
    Object,           \* bundles
    SizeOf,           \* the bytes of each bundle
    FetchLayouts,     \* the batches each partition may have, in order
    Fetches,          \* the requests a client may send
    READ_BUDGET,      \* READ_BUDGET_BYTES
    MAX_FAILED,       \* MAX_FAILED_FETCHES_PER_REQUEST
    MAX_READS,        \* MAX_READS_PER_REQUEST
    MAX_PAGE,         \* MAX_BATCHES_PER_PAGE
    MaxHealthSteps    \* bound: changes of an object's health

(* A batch: its bundle, its bytes, and whether the index knows its range.  *)
BatchOf(obj, bytes, tier) == [obj |-> obj, bytes |-> bytes, tier |-> tier]
Batch ==
    {b \in [obj : Object, bytes : Nat, tier : {"tail", "history"}] : b.bytes <= SizeOf[b.obj]}

ASSUME FetchReadAssumption ==
    /\ SizeOf \in [Object -> Nat]
    /\ \E o \in Object : \A q \in Object : SizeOf[q] <= SizeOf[o]
    /\ FetchLayouts \subseteq [FetchPart -> [log : Seq(Batch), start : Nat]]
    /\ \A r \in Fetches : /\ {r.max, r.min, Len(r.entries)} \subseteq Nat
                          /\ \A i \in 1 .. Len(r.entries) : {r.entries[i].from, r.entries[i].max} \subseteq Nat
    /\ {READ_BUDGET, MAX_FAILED, MAX_READS, MAX_PAGE, MaxHealthSteps} \subseteq Nat

VARIABLES
    batches,   \* each partition's log: its batches and where it starts
    health,    \* what a GET of each object meets
    fetch,     \* the request in hand
    memo,      \* FetchedObjects: what each range answered, and the failures
    ghost      \* bytes pulled in this pass, changes of health so far

fetchReadVars == <<batches, health, fetch, memo, ghost>>

NoFetch == [pc |-> "idle", reads |-> 0, at |-> 1, page |-> <<>>, fetched |-> 0, records |-> <<>>,
            len |-> 0, left |-> 0, returned |-> FALSE, outcomes |-> <<>>, target |-> 0]
FreshMemo == [seen |-> <<>>, failed |-> 0, objects |-> {}]

FetchReadInit ==
    /\ batches \in FetchLayouts
    /\ health = [o \in Object |-> "ok"]
    /\ fetch = NoFetch /\ memo = FreshMemo
    /\ ghost = [pulled |-> 0, changes |-> 0, asked |-> <<>>]

AtMost(a, b) == IF a <= b THEN a ELSE b
AtLeast(a, b) == IF a >= b THEN a ELSE b
Bytes(recs) == FoldLeft(LAMBDA n, b : n + b.bytes, 0, recs)

-----------------------------------------------------------------------------
(* Budget::new: what the client asks for, within what the broker spends.   *)
Total(request) == AtMost(request.max, READ_BUDGET)

(* satisfiable_min_bytes: a minimum the budget can meet.                   *)
TargetOf(request) == AtMost(request.min, Total(request))

Asked == ghost.asked[1]
PartitionAsk(f) == Asked.entries[f.at]

(* Budget::allowance.                                                      *)
Share(f) == AtMost(PartitionAsk(f).max, f.left)
MayOvershoot(f) == ~f.returned

(* Mutant of SpendBudget: a read that only cost something takes the        *)
(* exemption with it.                                                      *)
SpendBudgetAnyCost(f, cost, recs) ==
    [f EXCEPT !.left = IF cost >= @ THEN 0 ELSE @ - cost, !.returned = @ \/ cost > 0]

(* Budget::spend.                                                          *)
SpendBudget(f, cost, recs) ==
    [f EXCEPT !.left = IF cost >= @ THEN 0 ELSE @ - cost, !.returned = @ \/ recs # <<>>]

(* A request is decoded and its first pass begins.                         *)
Passing(f, request) ==
    [NoFetch EXCEPT !.pc = "pass", !.reads = f.reads + 1, !.left = Total(request),
                    !.target = TargetOf(request)]

Fetch(request) ==
    /\ fetch.pc = "idle"
    /\ fetch' = Passing(NoFetch, request)
    /\ memo' = FreshMemo
    /\ ghost' = [ghost EXCEPT !.pulled = 0, !.asked = <<request>>]
    /\ UNCHANGED <<batches, health>>

(* Page::push: the first batch whatever its size, then while both bounds   *)
(* allow; a batch of unknown range is not priced.                          *)
PageOf(log, share) ==
    LET priced(n) == Bytes(SelectSeq(SubSeq(log, 1, n), LAMBDA b : b.tier = "tail"))
        admits(n) == n = 1 \/ (n <= MAX_PAGE /\ (log[n].tier = "tail" => priced(n) <= share))
    IN  SubSeq(log, 1, Cardinality({n \in 1 .. Len(log) : \A m \in 1 .. n : admits(m)}))

(* The outcome of one partition, and on to the next.                       *)
OutcomeOf(code, recs, page) == [code |-> code, records |-> recs, page |-> page]
Finishes(f, cost, outcome) ==
    [SpendBudget(f, cost, outcome.records) EXCEPT
        !.pc = "pass", !.at = @ + 1, !.page = <<>>, !.fetched = 0, !.records = <<>>, !.len = 0,
        !.outcomes = Append(@, outcome)]

(* one_topic, resolve: authorized, hosted, and an offset the log has.      *)
Refusal(entry) ==
    IF ~entry.authorized THEN "TOPIC_AUTHORIZATION_FAILED"
    ELSE IF entry.part \notin FetchPart THEN "UNKNOWN_TOPIC_OR_PARTITION"
    ELSE LET b == batches[entry.part]
         IN  IF entry.from \in b.start .. Len(b.log) THEN "NONE" ELSE "OFFSET_OUT_OF_RANGE"

StartEntry ==
    LET entry == PartitionAsk(fetch)
        log   == batches[entry.part].log
    IN  /\ fetch.pc = "pass" /\ fetch.at <= Len(Asked.entries)
        /\ fetch' = IF Refusal(entry) # "NONE"
                    THEN Finishes(fetch, 0, OutcomeOf(Refusal(entry), <<>>, <<>>))
                    ELSE [fetch EXCEPT !.pc = "reading",
                            !.page = PageOf(SubSeq(log, entry.from + 1, Len(log)), Share(fetch))]
        /\ UNCHANGED <<batches, health, memo, ghost>>

(* FetchedObjects::get: an object once answered for is not asked for       *)
(* again, and none is after so many failures.                              *)
RangeOf(batch, part) == <<batch.obj, IF batch.tier = "tail" THEN part ELSE "whole">>
Recalled(range) == \E i \in 1 .. Len(memo.seen) : memo.seen[i].range = range
Recall(range) == memo.seen[CHOOSE i \in 1 .. Len(memo.seen) : memo.seen[i].range = range].got
Missed(range) == ~Recalled(range) /\ memo.failed < MAX_FAILED
Got(range) ==
    IF Recalled(range) THEN Recall(range)
    ELSE IF memo.failed >= MAX_FAILED THEN "slow_down" ELSE health[range[1]]

(* slice_region and rewrite_base_offset: what is done with the bytes.      *)
Unsliced(batch, got) == batch.tier = "history" /\ got = "nofooter"
Unstamped(got) == got = "unstamped"
RefusedRead(got) == got \in {"gone", "down", "slow_down"}

CostOf(batch, got) ==
    IF RefusedRead(got) THEN 0 ELSE IF batch.tier = "tail" THEN batch.bytes ELSE SizeOf[batch.obj]

(* refusal_code.                                                           *)
CodeOf(got) == IF got = "gone" THEN "OFFSET_OUT_OF_RANGE" ELSE "OFFSET_NOT_AVAILABLE"

(* The line a read stops at: what it pulled, or what it returns.           *)
Over(f) == AtLeast(f.fetched, f.len) >= Share(f)

(* The next batch of the page: read_inner's loop, once.                    *)
ReadBatch ==
    LET f      == fetch
        batch  == Head(f.page)
        range  == RangeOf(batch, PartitionAsk(f).part)
        got    == Got(range)
        missed == Missed(range)
        bad    == RefusedRead(got) \/ Unsliced(batch, got) \/ Unstamped(got)
        cost   == f.fetched + IF missed THEN CostOf(batch, got) ELSE 0
        failed == Finishes(f, cost, OutcomeOf(CodeOf(got), <<>>, f.page))
        read   == Finishes(f, AtLeast(cost, f.len), OutcomeOf("NONE", f.records, f.page))
    IN  /\ f.pc = "reading" /\ f.page # <<>>
        /\ ~(Over(f) /\ ~(f.records = <<>> /\ MayOvershoot(f)))
        /\ fetch' = CASE bad /\ ~Unstamped(got) /\ f.records # <<>> -> read
                      [] bad /\ (Unstamped(got) \/ f.records = <<>>) -> failed
                      [] OTHER -> [f EXCEPT !.page = Tail(@), !.fetched = cost,
                                            !.records = Append(@, batch),
                                            !.len = @ + batch.bytes]
        /\ memo' = IF ~missed THEN memo
                   ELSE [memo EXCEPT !.seen = Append(@, [range |-> range, got |-> got]),
                                     !.failed = IF bad THEN @ + 1 ELSE @,
                                     !.objects = IF bad THEN @ \cup {batch.obj} ELSE @]
        /\ ghost' = [ghost EXCEPT !.pulled = IF missed THEN @ + CostOf(batch, got) ELSE @]
        /\ UNCHANGED <<batches, health>>

(* The page is done, or the allowance is.                                  *)
EndEntry ==
    /\ fetch.pc = "reading"
    /\ fetch.page = <<>> \/ (Over(fetch) /\ ~(fetch.records = <<>> /\ MayOvershoot(fetch)))
    /\ fetch' = Finishes(fetch, AtLeast(fetch.fetched, fetch.len),
                         OutcomeOf("NONE", fetch.records, fetch.page))
    /\ UNCHANGED <<batches, health, memo, ghost>>

-----------------------------------------------------------------------------
(* worth_answering: an error, or as much as was asked for.                 *)
PassDone == fetch.pc = "pass" /\ fetch.at > Len(Asked.entries)
WorthAnswering ==
    \/ \E i \in 1 .. Len(fetch.outcomes) : fetch.outcomes[i].code # "NONE"
    \/ FoldLeft(LAMBDA n, o : n + Bytes(o.records), 0, fetch.outcomes) >= fetch.target

(* The answer is sent, its pass the last; or a deadline passes.            *)
Answers ==
    /\ PassDone \/ fetch.pc = "parked"
    /\ fetch' = NoFetch
    /\ UNCHANGED <<batches, health, memo, ghost>>

Park ==
    /\ PassDone /\ ~WorthAnswering /\ fetch.reads < MAX_READS
    /\ fetch' = [fetch EXCEPT !.pc = "parked"]
    /\ UNCHANGED <<batches, health, memo, ghost>>

(* A partition of the request has grown: another pass, over the same memo. *)
Wake(p, batch) ==
    /\ fetch.pc = "parked" /\ Len(batches[p].log) < MAX_PAGE
    /\ p \in {Asked.entries[i].part : i \in 1 .. Len(Asked.entries)}
    /\ \A q \in FetchPart : ~Contains(batches[q].log, batch)
    /\ batches' = [batches EXCEPT ![p].log = Append(@, batch)]
    /\ fetch' = Passing(fetch, Asked)
    /\ ghost' = [ghost EXCEPT !.pulled = 0]
    /\ UNCHANGED <<health, memo>>

(* An object fails for a while, is damaged, or is gone for good.           *)
Health(o, to) ==
    /\ ghost.changes < MaxHealthSteps
    /\ health[o] # to /\ health[o] \in {"ok", "down"}
    /\ health' = [health EXCEPT ![o] = to]
    /\ ghost' = [ghost EXCEPT !.changes = @ + 1]
    /\ UNCHANGED <<batches, fetch, memo>>

FetchReadNext ==
    \/ \E r \in Fetches : Fetch(r)
    \/ StartEntry \/ ReadBatch \/ EndEntry \/ Answers \/ Park
    \/ \E p \in FetchPart, o \in Object : Wake(p, BatchOf(o, SizeOf[o], "tail"))
    \/ \E o \in Object, to \in {"ok", "down", "gone", "nofooter", "unstamped"} : Health(o, to)

FetchReadSpec == FetchReadInit /\ [][FetchReadNext]_fetchReadVars

-----------------------------------------------------------------------------
(* No answer is silently empty: a partition answered NONE without records, *)
(* though it has some at the offset asked for, comes after one that        *)
(* returned records, so a consumer that is not told of an error moves on   *)
(* somewhere. A partition that only failed must not use up the exemption   *)
(* that lets one batch cross the line.                                     *)
SomethingMoves ==
    \A i \in 1 .. Len(fetch.outcomes) :
        LET o == fetch.outcomes[i]
        IN  o.code = "NONE" /\ o.records = <<>> /\ o.page # <<>>
            => \E j \in 1 .. i - 1 : fetch.outcomes[j].records # <<>>

(* A pass pulls no more than its budget, the object that crosses it, and   *)
(* one for each failure the request has met, however the client splits its *)
(* ranges and whatever the bundles hold besides them.                      *)
PassBounded ==
    LET largest == CHOOSE n \in {SizeOf[o] : o \in Object} : \A o \in Object : SizeOf[o] <= n
    IN  fetch.pc # "idle" => ghost.pulled <= Total(Asked) + (memo.failed + 1) * largest

(* Fetched: "the failure cap counts distinct objects ... counting the      *)
(* second is how one corrupt bundle refuses the healthy partitions behind  *)
(* it": the cap is reached by as many objects that failed.                 *)
CapCountsObjects == memo.failed >= MAX_FAILED => Cardinality(memo.objects) >= MAX_FAILED

(* A pass is neither silent about a partition that has records nor free to *)
(* read without bound.                                                     *)
PassSound == SomethingMoves /\ PassBounded
=============================================================================
