----------------------------- MODULE ChunkReads -----------------------------
(* ChunkedObjectStore: readers of one chunk share one fetch.  The first to *)
(* ask leads; the others join its cell and sleep until it publishes.  The  *)
(* registry and each cell have a lock of their own, so publishing is three *)
(* steps, and readers come, poll and are dropped between them.  With it    *)
(* MergingObjectStore::get_many, which answers a batch of ranges from      *)
(* fewer fetches.                                                          *)
EXTENDS Integers, FiniteSets, SequencesExt

CONSTANTS
    Reader,
    Chunk,          \* (key, chunk_index, length)
    MaxLeads,       \* bound: fetches led
    OBJECT_SIZE,    \* of the object get_many reads
    Batches,        \* the batches of ranges get_many is asked for
    Thresholds      \* sparsity_threshold

VARIABLES
    registry,   \* in_flight: the cell of a chunk, 0 for none
    cells,      \* each cell: result, wakers, leader
    reader,     \* each reader: where it is, its cell
    woken,      \* readers the executor will poll
    many        \* the batch answered last: ranges, answers, fetches

chunkVars == <<registry, cells, reader, woken, many>>

Away == [pc |-> "away", cell |-> 0, chunk |-> "none", result |-> "none", wake |-> {}]

ChunkInit ==
    /\ registry = [k \in Chunk |-> 0]
    /\ cells = <<>>
    /\ reader = [r \in Reader |-> Away]
    /\ woken = {}
    /\ many = [spans |-> <<>>, answers |-> <<>>]

-----------------------------------------------------------------------------
(* join_or_lead: under the registry's lock.                                *)
JoinsFlight(r, k) ==
    /\ reader[r].pc = "away" /\ registry[k] # 0
    /\ reader' = [reader EXCEPT ![r] = [Away EXCEPT !.pc = "join", !.cell = registry[k], !.chunk = k]]
    /\ woken' = woken \cup {r}
    /\ UNCHANGED <<registry, cells, many>>

LeadsFlight(r, k) ==
    /\ reader[r].pc = "away" /\ registry[k] = 0 /\ Len(cells) < MaxLeads
    /\ cells' = Append(cells, [result |-> "none", wakers |-> {}])
    /\ registry' = [registry EXCEPT ![k] = Len(cells) + 1]
    /\ reader' = [reader EXCEPT ![r] = [Away EXCEPT !.pc = "lead", !.cell = Len(cells) + 1, !.chunk = k]]
    /\ UNCHANGED <<woken, many>>

(* Join::poll, under the cell's lock: the result, or leave a waker.        *)
PollReady(r) ==
    /\ reader[r].pc = "join" /\ r \in woken
    /\ cells[reader[r].cell].result # "none"
    /\ reader' = [reader EXCEPT ![r] = Away]
    /\ woken' = woken \ {r}
    /\ UNCHANGED <<registry, cells, many>>

PollPending(r) ==
    /\ reader[r].pc = "join" /\ r \in woken
    /\ cells[reader[r].cell].result = "none"
    /\ cells' = [cells EXCEPT ![reader[r].cell].wakers = @ \cup {r}]
    /\ woken' = woken \ {r}
    /\ UNCHANGED <<registry, reader, many>>

-----------------------------------------------------------------------------
(* The leader's fetch ends, or its future is dropped: LeaderGuard::finish  *)
(* or drop.  Both publish: the registry entry goes first, ...              *)
(* Mutant of OnDrop: a leader dropped publishes nothing.                   *)
OnDropSilent(r) ==
    /\ registry' = [registry EXCEPT ![reader[r].chunk] = 0]
    /\ reader' = [reader EXCEPT ![r] = Away]

Unregisters(r, result) ==
    /\ registry' = [registry EXCEPT ![reader[r].chunk] = 0]
    /\ reader' = [reader EXCEPT ![r].pc = "publish", ![r].result = result]

OnDrop(r) == Unregisters(r, "Transient")

FetchEnds(r, result) ==
    /\ reader[r].pc = "lead"
    /\ Unregisters(r, result)
    /\ UNCHANGED <<cells, woken, many>>

LeaderDropped(r) ==
    /\ reader[r].pc = "lead"
    /\ OnDrop(r)
    /\ UNCHANGED <<cells, woken, many>>

(* ... then the cell is resolved and its wakers taken, and then they are   *)
(* woken.                                                                  *)
Resolves(r) ==
    /\ reader[r].pc = "publish"
    /\ cells' = [cells EXCEPT ![reader[r].cell] = [result |-> reader[r].result, wakers |-> {}]]
    /\ reader' = [reader EXCEPT ![r].pc = "waking", ![r].wake = cells[reader[r].cell].wakers]
    /\ UNCHANGED <<registry, woken, many>>

WakesAll(r) ==
    /\ reader[r].pc = "waking"
    /\ woken' = woken \cup {s \in reader[r].wake : reader[s].pc # "away"}
    /\ reader' = [reader EXCEPT ![r] = Away]
    /\ UNCHANGED <<registry, cells, many>>

(* A joined reader's future is dropped; its waker stays where it is.       *)
JoinDropped(r) ==
    /\ reader[r].pc = "join"
    /\ reader' = [reader EXCEPT ![r] = Away]
    /\ woken' = woken \ {r}
    /\ UNCHANGED <<registry, cells, many>>

-----------------------------------------------------------------------------

(* plan_merge: spans <<index, start, end>> by start; one joins the group   *)
(* before it when the gap is at most the threshold.                        *)
Widened(group, span) ==
    [group EXCEPT !.to = IF @ >= span[3] THEN @ ELSE span[3], !.members = Append(@, span)]

PlanMerge(spans, threshold) ==
    FoldLeft(LAMBDA groups, span :
                 IF groups # <<>> /\ span[2] <= Last(groups).to + threshold
                 THEN Append(Front(groups), Widened(Last(groups), span))
                 ELSE Append(groups, [from |-> span[2], to |-> span[3], members |-> <<span>>]),
             <<>>, SortSeq(spans, LAMBDA a, b : a[2] < b[2]))

(* get_many: what the one fetch of a group makes each member's answer; a   *)
(* group that reaches past the object fails as a whole.                    *)
ReadRefused == <<-1, -1>>

Slice(group, span) ==
    IF group.to > OBJECT_SIZE THEN ReadRefused
    ELSE <<group.from + (span[2] - group.from),
           IF span[3] - group.from <= group.to - group.from THEN span[3] ELSE group.to>>

GetMany(spans, threshold) ==
    LET groups == PlanMerge(spans, threshold)
        of(span) == CHOOSE i \in 1 .. Len(groups) : span \in ToSet(groups[i].members)
    IN  /\ many.spans = <<>>
        /\ many' = [spans |-> spans,
                    answers |-> [i \in 1 .. Len(spans) |-> Slice(groups[of(spans[i])], spans[i])]]
        /\ UNCHANGED <<registry, cells, reader, woken>>

ReadNext ==
    \E r \in Reader :
        \/ \E k \in Chunk : JoinsFlight(r, k) \/ LeadsFlight(r, k)
        \/ PollReady(r) \/ PollPending(r) \/ JoinDropped(r)
        \/ \E result \in {"Ok", "error"} : FetchEnds(r, result)
        \/ LeaderDropped(r) \/ Resolves(r) \/ WakesAll(r)

ManyNext == \E spans \in Batches, t \in Thresholds : GetMany(spans, t)

ChunkNext == ReadNext \/ ManyNext

ChunkSpec == ChunkInit /\ [][ChunkNext]_chunkVars

-----------------------------------------------------------------------------
(* A reader that sleeps will be woken: it left its waker on a cell whose   *)
(* leader is still to resolve it, or that leader is about to wake it.      *)
SleepersLed ==
    \A r \in Reader : reader[r].pc = "join" /\ r \notin woken =>
        \E l \in Reader :
            \/ /\ reader[l].pc \in {"lead", "publish"} /\ reader[l].cell = reader[r].cell
               /\ r \in cells[reader[r].cell].wakers
            \/ reader[l].pc = "waking" /\ r \in reader[l].wake

(* get_many answers each range with its own bytes, and refuses only what   *)
(* was asked for in one batch with a range that ends past the object.      *)
ManyOwnBytes ==
    \A i \in 1 .. Len(many.spans) :
        \/ many.answers[i] = <<many.spans[i][2], many.spans[i][3]>>
        \/ /\ many.answers[i] = ReadRefused
           /\ \E j \in 1 .. Len(many.spans) : many.spans[j][3] > OBJECT_SIZE

(* Nobody sleeps on a chunk no one fetches, and a merged fetch hands each  *)
(* reader its own bytes.                                                   *)
ReadsOwnBytes == SleepersLed /\ ManyOwnBytes
=============================================================================
