------------------------------ MODULE Sequencing ------------------------------
(***************************************************************************)
(* Offsets and producer sequences: how the coordinator's loop turns spans  *)
(* into a line of offsets, and why a retried batch is not written twice.   *)
(*   oqueue-coordinator/src/allocator.rs            stage, apply, replay   *)
(*   oqueue-coordinator/src/allocator/admission.rs  classify, admit        *)
(*   oqueue-coordinator/src/allocator/expiry.rs     the bounded recency    *)
(*   oqueue-coordinator/src/serve.rs                admit, journal, ack    *)
(* over the one durable line of entries DurableLog.tla describes.          *)
(*                                                                         *)
(* Kafka's clients number the records of each partition, a batch going by  *)
(* its first, and resend what they hold no answer for; the loop expects    *)
(* each batch one after the last. The network delays, reorders, duplicates *)
(* and drops freely, so any batch a client has ever been free to send may  *)
(* reach the loop at any moment; only copies older than the sequence space *)
(* are excluded.                                                           *)
(***************************************************************************)
EXTENDS Integers, Sequences, SequencesExt, FiniteSetsExt

CONSTANTS Producer,   \* producer ids
          Partition,  \* partitions, of whatever topics
          None,       \* no producer identity; no state
          SeqMax,     \* i32::MAX, where a sequence wraps to zero
          Cap,        \* MAX_TRACKED_PRODUCERS
          Window,     \* batches a client keeps unanswered per partition
          Counts,     \* record counts of a batch
          First,      \* First[k][e][b]: the records of line k, epoch e, before its batch b
          Claims,     \* counts a client may send under another batch's sequence
          MaxBatch,   \* bound: batches per producer, partition and epoch
          MaxEpoch,   \* bound: epochs of a producer
          MaxBundle,  \* bound: spans in one commit
          MaxLog,     \* bound: entries in the log
          MaxLate     \* bound: appends in flight whose caller is gone

ASSUME SequencingAssumption ==
    /\ None \notin Producer
    /\ None \notin [epoch : Nat, sequence : Nat, base : Nat, count : Nat]
    /\ SeqMax \in Nat \ {0} /\ Cap \in Nat \ {0} /\ Window \in 1 .. SeqMax
    /\ Counts \subseteq Nat \ {0} /\ Claims \subseteq Counts
    /\ {MaxBatch, MaxEpoch, MaxBundle, MaxLog, MaxLate} \subseteq Nat

(* A client counts from zero, a batch holds records, and the batches that  *)
(* may be unanswered at once are fewer records than the sequence space.    *)
ASSUME NumberingAssumption ==
    /\ First \in [Producer \X Partition -> [0 .. MaxEpoch -> [0 .. MaxBatch -> Nat]]]
    /\ \A k \in Producer \X Partition : \A e \in 0 .. MaxEpoch :
          /\ First[k][e][0] = 0
          /\ \A b \in 0 .. MaxBatch - 1 : First[k][e][b + 1] - First[k][e][b] \in Counts
          /\ \A a, b \in 0 .. MaxBatch : a < b =>
                First[k][e][a] < First[k][e][b]
                /\ (b <= a + Window => First[k][e][b] <= First[k][e][a] + SeqMax)

VARIABLES
    log,      \* the durable entries; entry i has version i - 1
    alloc,    \* the leader's Allocator
    current,  \* whether alloc was folded under this term and no append refused
    pc,       \* where the loop is: idle, put, landed
    job,      \* what it is journaling: the entry, and what to answer
    late,     \* appends still in flight though their caller is gone
    epoch,    \* epoch[p]: the epoch of p's newest incarnation
    got,      \* got[k][e]: the batches of line k, epoch e, its client knows of
    answers   \* every offset ever answered, delivered or not

vars == <<log, alloc, current, pc, job, late, epoch, got, answers>>

Epoch == 0 .. MaxEpoch

Batch == 0 .. MaxBatch - 1

Key == Producer \X Partition

KeyOf(s) == <<s.p, s.part>>

(* A batch of line k and epoch e, the b-th of its client.                  *)
BatchOf(k, e, b, count) == [p |-> k[1], part |-> k[2], epoch |-> e, batch |-> b,
                            first |-> First[k][e][b], count |-> count]

(* The base_sequence on the wire: its first record's number, wrapped.      *)
Sequence(s) == s.first % (SeqMax + 1)

-----------------------------------------------------------------------------
(* The allocator.                                                          *)

NewAllocator == [next |-> 0,
                 ends |-> [q \in Partition |-> 0],
                 state |-> [k \in Key |-> None],
                 recency |-> <<>>]

(* next_sequence: wraps from i32::MAX to zero, as clients do.              *)
NextSequence(last) == IF last = SeqMax THEN 0 ELSE last + 1

(* What one span's sequence decides against the state on record. A state   *)
(* admitted earlier in the same bundle has no offset yet: it orders, and   *)
(* answers no replay.                                                      *)
Classify(cur, provisional, s) ==
    IF cur = None \/ s.epoch > cur.epoch THEN IF Sequence(s) = 0 THEN "admit" ELSE "outOfOrder"
    ELSE IF s.epoch < cur.epoch THEN "staleEpoch"
    ELSE IF Sequence(s) = NextSequence(cur.sequence) THEN "admit"
    ELSE IF ~provisional /\ Sequence(s) = cur.sequence
         THEN IF s.count = cur.count THEN "replay" ELSE "duplicate"
    ELSE "outOfOrder"

StateOf(s, base) == [epoch |-> s.epoch, sequence |-> Sequence(s), base |-> base, count |-> s.count]

Answer(s, base) == [p |-> s.p, part |-> s.part, epoch |-> s.epoch, batch |-> s.batch,
                    base |-> base, count |-> s.count]

(* Mutant of Admit: the spans of a bundle are not checked against each     *)
(* other.                                                                  *)
AdmitEachAlone(a, spans) ==
    LET d(s) == IF s.p = None THEN "admit" ELSE Classify(a.state[KeyOf(s)], FALSE, s)
    IN  [admitted |-> SelectSeq(spans, LAMBDA s : d(s) = "admit"),
         replayed |-> {Answer(s, a.state[KeyOf(s)].base) : s \in {s \in ToSet(spans) : d(s) = "replay"}}]

(* record_decision: a span that is admitted stands in for its producer's   *)
(* committed state from there on; one that repeats what is committed is    *)
(* answered from it.                                                       *)
Decide(a, acc, s) ==
    LET k == KeyOf(s)
        provisional == acc.running[k] # None
        cur == IF provisional THEN acc.running[k] ELSE a.state[k]
        d == Classify(cur, provisional, s)
    IN  IF s.p = None THEN [acc EXCEPT !.admitted = Append(acc.admitted, s)]
        ELSE IF d = "admit"
             THEN [acc EXCEPT !.admitted = Append(acc.admitted, s),
                              !.running = [acc.running EXCEPT ![k] = StateOf(s, 0)]]
        ELSE IF d = "replay"
             THEN [acc EXCEPT !.replayed = acc.replayed \cup {Answer(s, cur.base)}]
        ELSE acc

(* admit: the spans in order, the first n of them here.                    *)
AdmitTo(a, spans, n) ==
    LET after[i \in 0 .. Len(spans)] ==
            IF i = 0 THEN [admitted |-> <<>>, replayed |-> {}, running |-> [k \in Key |-> None]]
            ELSE Decide(a, after[i - 1], spans[i])
    IN  after[n]

Admit(a, spans) == AdmitTo(a, spans, Len(spans))

(* Mutant of Touch: a line touched again keeps its old place.              *)
TouchOnce(recency, k) == IF k \in ToSet(recency) THEN recency ELSE Append(recency, k)

(* Recency::touch: the line leaves the place it had, if any, and becomes   *)
(* the most recently touched.                                              *)
Touch(recency, k) ==
    LET old == CHOOSE i \in DOMAIN recency : recency[i] = k
    IN  Append(IF k \in ToSet(recency) THEN RemoveAt(recency, old) ELSE recency, k)

(* stage: a span's records begin where its partition ends, which runs on   *)
(* from there, and its producer's line with it; the first n spans.         *)
PlaceSpan(acc, s) ==
    LET base == acc.ends[s.part]
    IN  [bases |-> Append(acc.bases, base),
         ends |-> [acc.ends EXCEPT ![s.part] = base + s.count],
         state |-> IF s.p = None THEN acc.state ELSE [acc.state EXCEPT ![KeyOf(s)] = StateOf(s, base)],
         recency |-> IF s.p = None THEN acc.recency ELSE Touch(acc.recency, KeyOf(s))]

StageTo(a, spans, n) ==
    LET after[i \in 0 .. Len(spans)] ==
            IF i = 0 THEN [bases |-> <<>>, ends |-> a.ends, state |-> a.state, recency |-> a.recency]
            ELSE PlaceSpan(after[i - 1], spans[i])
    IN  after[n]

Stage(a, spans) == StageTo(a, spans, Len(spans))

(* evict_over_cap: the least recently touched go until Cap remain.         *)
EvictOverCap(a) ==
    LET over == Len(a.recency) - Cap
        gone == ToSet(SubSeq(a.recency, 1, over))
    IN  IF over <= 0 THEN a
        ELSE [next |-> a.next, ends |-> a.ends,
              state |-> [k \in Key |-> IF k \in gone THEN None ELSE a.state[k]],
              recency |-> SubSeq(a.recency, over + 1, Len(a.recency))]

(* apply, and replay's use of it: a commit moves its partitions' ends and  *)
(* its producers' lines; every other record takes a version and no more.   *)
Apply(a, e) ==
    LET staged == Stage(a, e.spans)
    IN  EvictOverCap([next |-> a.next + 1, ends |-> staged.ends, state |-> staged.state,
                      recency |-> staged.recency])

(* Coordinator::replay, refold: an allocator folded from the whole log, or *)
(* from its first n entries.                                               *)
FoldTo(entries, n) ==
    LET after[i \in 0 .. Len(entries)] ==
            IF i = 0 THEN NewAllocator ELSE Apply(after[i - 1], entries[i])
    IN  after[n]

Replay == FoldTo(log, Len(log))

-----------------------------------------------------------------------------
(* The clients.                                                            *)

Lowest(k, e) == CHOOSE b \in 0 .. MaxBatch : b \notin got[k][e] /\ 0 .. b - 1 \subseteq got[k][e]

(* The batches its client has been free to send.                           *)
Free(k, e) == {b \in Batch : b < Lowest(k, e) + Window}

(* What may reach the loop now for line k: a batch its client has been     *)
(* free to send, of this or an earlier incarnation, no older than the      *)
(* sequence space tells apart from those it has been free to send since.   *)
Requests(k) ==
    LET counts(e, b) == {First[k][e][b + 1] - First[k][e][b]} \cup Claims
        young(e) == {b \in Free(k, e) : \A x \in Free(k, e) : First[k][e][x] < First[k][e][b] + SeqMax}
    IN  UNION {UNION {{BatchOf(k, e, b, c) : c \in counts(e, b)} : b \in young(e)} : e \in 0 .. epoch[k[1]]}

(* A batch with no producer identity.                                      *)
Plain == [p : {None}, part : Partition, epoch : {0}, batch : {0}, first : {0}, count : Counts]

(* Bundles of spans of some partitions and sizes.                          *)
Bundles(parts, counts) ==
    LET all == {s \in Plain \cup UNION {Requests(k) : k \in Key} : s.part \in parts /\ s.count \in counts}
    IN  UNION {[1 .. n -> all] : n \in 1 .. MaxBundle}

NoJob == [entry |-> None, replayed |-> {}, assigned |-> {}]

(* The answers leave; each reaches its client or is lost.                  *)
Reply(as) ==
    /\ answers' = answers \cup {a \in as : a.p # None}
    /\ \E heard \in SUBSET {a \in as : a.p # None} :
          got' = [k \in Key |-> [e \in Epoch |->
                    got[k][e] \cup {a.batch : a \in {x \in heard : KeyOf(x) = k /\ x.epoch = e}}]]

-----------------------------------------------------------------------------
Init ==
    /\ log = <<>> /\ alloc = NewAllocator /\ current = TRUE
    /\ pc = "idle" /\ job = NoJob /\ late = {}
    /\ epoch = [p \in Producer |-> 0]
    /\ got = [k \in Key |-> [e \in Epoch |-> {}]]
    /\ answers = {}

(* serve, up to the journal step: admission, and the answers of the spans  *)
(* that repeat what is committed, offsets as recorded.                     *)
Outcome(spans) ==
    LET admission == Admit(alloc, spans)
        spanned == admission.admitted
    IN  [entry |-> [kind |-> "commit", spans |-> spanned, part |-> None, start |-> 0],
         replayed |-> admission.replayed,
         assigned |-> {Answer(spanned[j], Stage(alloc, spanned).bases[j]) : j \in 1 .. Len(spanned)}]

(* Something is admitted: the entry goes to the journal.                   *)
Serve(spans) ==
    /\ pc = "idle" /\ current /\ Len(log) < MaxLog
    /\ LET o == Outcome(spans)
       IN  o.entry.spans # <<>> /\ job' = o
    /\ pc' = "put"
    /\ UNCHANGED <<log, alloc, current, late, epoch, got, answers>>

(* Nothing is: no entry, and the answers at once.                          *)
ServeNothing(spans) ==
    /\ pc = "idle" /\ current
    /\ LET o == Outcome(spans)
       IN  o.entry.spans = <<>> /\ Reply(o.replayed)
    /\ UNCHANGED <<log, alloc, current, pc, job, late, epoch>>

TrimEntry(q, start) == [kind |-> "trim", spans |-> <<>>, part |-> q, start |-> start]

(* serve_trim: staged unless it is past the partition's end.               *)
ServeTrim(q, start) ==
    /\ pc = "idle" /\ current /\ Len(log) < MaxLog
    /\ start <= alloc.ends[q]
    /\ job' = [NoJob EXCEPT !.entry = TrimEntry(q, start)]
    /\ pc' = "put"
    /\ UNCHANGED <<log, alloc, current, late, epoch, got, answers>>

(* serve_retention: an entry that takes a version and nothing else.        *)
ServeRetention ==
    /\ pc = "idle" /\ current /\ Len(log) < MaxLog
    /\ job' = [NoJob EXCEPT !.entry = [kind |-> "retention", spans |-> <<>>, part |-> None,
                                       start |-> 0]]
    /\ pc' = "put"
    /\ UNCHANGED <<log, alloc, current, late, epoch, got, answers>>

(* Mutant of Lands: the version is not conditional on the line's end.      *)
LandsAnywhere ==
    /\ pc = "put"
    /\ log' = Append(log, job.entry)
    /\ pc' = "landed"
    /\ UNCHANGED <<alloc, current, job, late, epoch, got, answers>>

(* The append lands: its version is the line's next.                       *)
Lands ==
    /\ pc = "put" /\ alloc.next = Len(log)
    /\ log' = Append(log, job.entry)
    /\ pc' = "landed"
    /\ UNCHANGED <<alloc, current, job, late, epoch, got, answers>>

(* The version is taken, by an append of this loop whose answer was lost   *)
(* or by another writer: the next request replays first.                   *)
Refused ==
    /\ pc = "put" /\ alloc.next # Len(log)
    /\ current' = FALSE
    /\ pc' = "idle" /\ job' = NoJob
    /\ UNCHANGED <<log, alloc, late, epoch, got, answers>>

(* The append returned and the lease is still held: the position is taken, *)
(* and every span answered.                                                *)
Ack ==
    /\ pc = "landed"
    /\ alloc' = Apply(alloc, job.entry)
    /\ Reply(job.replayed \cup job.assigned)
    /\ pc' = "idle" /\ job' = NoJob
    /\ UNCHANGED <<log, current, late, epoch>>

(* A journal call fails: the allocator stays where it was, and what was    *)
(* sent is lost, is already in the log, or lands later.                    *)
Abandon ==
    /\ pc' = "idle" /\ job' = NoJob
    /\ \/ UNCHANGED late
       \/ /\ pc = "put" /\ Cardinality(late) < MaxLate
          /\ late' = late \cup {[version |-> alloc.next, entry |-> job.entry]}

Errs ==
    /\ pc \in {"put", "landed"}
    /\ Abandon
    /\ UNCHANGED <<log, alloc, current, epoch, got, answers>>

(* The lease lapses, or the process stops: whoever leads next folds first. *)
Deposed ==
    /\ current
    /\ current' = FALSE
    /\ Abandon
    /\ UNCHANGED <<log, alloc, epoch, got, answers>>

(* Mutant of Refold: the offsets come back, the producers' lines do not.   *)
RefoldOffsetsOnly ==
    /\ ~current
    /\ alloc' = [Replay EXCEPT !.state = NewAllocator.state, !.recency = <<>>]
    /\ current' = TRUE
    /\ UNCHANGED <<log, pc, job, late, epoch, got, answers>>

(* current_for_term, refold: a fresh view and an allocator folded from it. *)
Refold ==
    /\ ~current
    /\ alloc' = Replay
    /\ current' = TRUE
    /\ UNCHANGED <<log, pc, job, late, epoch, got, answers>>

LateLands(w) ==
    /\ late' = late \ {w}
    /\ log' = IF w.version = Len(log) THEN Append(log, w.entry) ELSE log
    /\ UNCHANGED <<alloc, current, pc, job, epoch, got, answers>>

(* InitProducerId again: a new incarnation of p, its batches from zero.    *)
Bump(p) ==
    /\ epoch[p] < MaxEpoch
    /\ epoch' = [epoch EXCEPT ![p] = @ + 1]
    /\ UNCHANGED <<log, alloc, current, pc, job, late, got, answers>>

(* A step, of clients that use only these partitions and record counts.    *)
NextOver(parts, counts) ==
    \/ pc = "idle" /\ \E spans \in Bundles(parts, counts) : Serve(spans) \/ ServeNothing(spans)
    \/ \E q \in parts : \E start \in 0 .. alloc.ends[q] + 1 : ServeTrim(q, start)
    \/ ServeRetention
    \/ Lands \/ Refused \/ Ack \/ Errs \/ Deposed \/ Refold
    \/ \E w \in late : LateLands(w)
    \/ \E p \in Producer : Bump(p)

Next == NextOver(Partition, Counts)

Spec == Init /\ [][Next]_vars
-----------------------------------------------------------------------------
(* Properties, against the log read as one flat sequence of spans.         *)

FlatTo(entries, n) ==
    LET flat[i \in 0 .. Len(entries)] == IF i = 0 THEN <<>> ELSE flat[i - 1] \o entries[i].spans
    IN  flat[n]
Flat(entries) == FlatTo(entries, Len(entries))

(* The first i spans of a line of spans hold this many records of q.       *)
Records(spans, i, q) ==
    LET held[j \in 0 .. Len(spans)] ==
            IF j = 0 THEN 0 ELSE held[j - 1] + (IF spans[j].part = q THEN spans[j].count ELSE 0)
    IN  held[i]

Same(s, t) == s.p = t.p /\ s.part = t.part /\ s.epoch = t.epoch /\ s.batch = t.batch

Tracked == {k \in Key : alloc.state[k] # None}

(* The lines some fold of the log has had and forgotten at the cap.        *)
Forgotten ==
    {k \in Key : \E n \in DOMAIN log :
        /\ \E i \in 1 .. n : \E j \in DOMAIN log[i].spans : KeyOf(log[i].spans[j]) = k
        /\ FoldTo(log, n).state[k] = None}

(* The type invariant; the recency tracker names the tracked lines, once   *)
(* each, and no more of them than the cap.                                 *)
TypeOK ==
    /\ alloc.next \in 0 .. Len(log) /\ Len(log) <= MaxLog + MaxLate
    /\ \A i \in DOMAIN log : log[i].kind \in {"commit", "trim", "retention"}
    /\ ToSet(alloc.recency) = Tracked /\ Len(alloc.recency) = Cardinality(Tracked)
    /\ Cardinality(Tracked) <= Cap
    /\ current \in BOOLEAN /\ pc \in {"idle", "put", "landed"}
    /\ Cardinality(late) <= MaxLate
    /\ epoch \in [Producer -> Epoch]
    /\ got \in [Key -> [Epoch -> SUBSET Batch]]

(* A batch is in the log at most once, whatever is retried, duplicated or  *)
(* in doubt, through failed appends and failovers (admission.rs, admit);   *)
(* only a line forgotten at the cap can be begun again (expiry.rs).        *)
NoDuplicate ==
    LET f == Flat(log)
        again == Forgotten
    IN  \A i, j \in DOMAIN f :
            i < j /\ f[i].p # None /\ KeyOf(f[i]) \notin again => ~Same(f[i], f[j])

(* A producer's batches are in the log in its order and with none missing, *)
(* and a superseded incarnation's never follow its successor's             *)
(* (admission.rs, classify).                                               *)
InOrder ==
    LET f == Flat(log)
        again == Forgotten
        line(i) == {j \in 1 .. i - 1 : KeyOf(f[j]) = KeyOf(f[i])}
    IN  \A i \in DOMAIN f : f[i].p # None /\ KeyOf(f[i]) \notin again =>
          /\ \A j \in line(i) : f[j].epoch <= f[i].epoch
          /\ f[i].batch = Cardinality({j \in line(i) : f[j].epoch = f[i].epoch})

(* Every offset answered, on a first commit or on a retry, is where the    *)
(* log puts that batch, and with that many records (serve.rs, serve); of a *)
(* line forgotten at the cap and begun again, a batch may be taken for     *)
(* another of its number modulo the sequence space.                        *)
Told(f, a) ==
    \E i \in DOMAIN f : Same(f[i], a) /\ f[i].count = a.count /\ a.base = Records(f, i - 1, a.part)
AnswersTrue ==
    LET f == Flat(log)
        again == Forgotten
    IN  \A a \in answers : KeyOf(a) \in again \/ Told(f, a)

(* The allocator is what its part of the log says: each partition's end is *)
(* its records counted, each tracked line is its last span where that span *)
(* lies (allocator.rs, replay).                                            *)
AllocatorMatchesLog ==
    LET f == FlatTo(log, alloc.next)
        last(k) == {i \in DOMAIN f : KeyOf(f[i]) = k /\
                                     \A j \in i + 1 .. Len(f) : KeyOf(f[j]) # k}
    IN  /\ \A q \in Partition : alloc.ends[q] = Records(f, Len(f), q)
        /\ \A k \in Tracked : \E i \in last(k) :
              alloc.state[k] = StateOf(f[i], Records(f, i - 1, k[2]))

(* The lines it tracks are the most recently committed: one it forgot has  *)
(* had Cap others committed since (expiry.rs, evict_oldest).               *)
ForgetsOldest ==
    LET f == FlatTo(log, alloc.next)
    IN  \A i \in DOMAIN f : f[i].p # None /\ KeyOf(f[i]) \notin Tracked =>
          Cardinality({KeyOf(f[j]) : j \in {j \in i + 1 .. Len(f) : f[j].p # None}}) >= Cap

(* No trim in the log is past its partition's end as of that entry, so     *)
(* every fold of the log accepts it (allocator.rs, stage_trim).            *)
TrimsWithinEnd ==
    \A i \in DOMAIN log : log[i].kind = "trim" =>
        LET f == FlatTo(log, i - 1)
        IN  log[i].start <= Records(f, Len(f), log[i].part)

(* While it is not forgotten, a client's line moves: the batch after its   *)
(* last committed one is the one next_sequence expects, through the wrap   *)
(* of the sequence space and across epochs (admission.rs, next_sequence).  *)
Admits(k, e, n) == \A c \in Counts : Classify(alloc.state[k], FALSE, BatchOf(k, e, n, c)) = "admit"

Committed(k, e) ==
    LET f == Flat(log)
    IN  Cardinality({i \in DOMAIN f : KeyOf(f[i]) = k /\ f[i].epoch = e})

NextAdmitted ==
    current /\ alloc.next = Len(log) =>
        \A k \in Key \ Forgotten : Admits(k, epoch[k[1]], Committed(k, epoch[k[1]]))

(* It does where the batch before held one record; the code gives no more. *)
NextOfOneAdmitted ==
    current /\ alloc.next = Len(log) =>
        \A k \in Key \ Forgotten :
            LET e == epoch[k[1]]
                n == Committed(k, e)
            IN  n = 0 \/ First[k][e][n] = First[k][e][n - 1] + 1 => Admits(k, e, n)

(* A batch that is in the log and whose client holds no answer is answered *)
(* as committed when it is sent again; of a client with several in flight, *)
(* the last of its line, which is all that is kept of a line               *)
(* (admission.rs, Decision::Replay).                                       *)
RetriesDeduplicated ==
    current /\ alloc.next = Len(log) =>
        LET f == Flat(log)
        IN  \A i \in DOMAIN f :
              /\ f[i].p # None /\ KeyOf(f[i]) \notin Forgotten
              /\ f[i].epoch = epoch[f[i].p] /\ f[i].batch \notin got[KeyOf(f[i])][f[i].epoch]
              /\ Window = 1 \/ \A j \in i + 1 .. Len(f) : KeyOf(f[j]) # KeyOf(f[i])
              => Classify(alloc.state[KeyOf(f[i])], FALSE, f[i]) = "replay"

(* The parts of the three promises, together: a line of batches is written *)
(* once and in order;                                                      *)
LinesExact == NoDuplicate /\ InOrder

(* a client that retries, or moves on from a batch of one record, gets on; *)
RetriesServed == RetriesDeduplicated /\ NextOfOneAdmitted

(* and every fold of the log, by the leader and by its successors, accepts *)
(* it and forgets the same lines.                                          *)
FoldsTrue == TypeOK /\ AllocatorMatchesLog /\ ForgetsOldest /\ TrimsWithinEnd
=============================================================================
