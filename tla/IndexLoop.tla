------------------------------ MODULE IndexLoop ------------------------------
(***************************************************************************)
(* The coordinator's index and its two feeds: how one node's loop keeps a  *)
(* materialization of the line it shares with other nodes, and tells       *)
(* fetches (the watch) and followers (the delta stream) how far it is.     *)
(*   oqueue-coordinator/src/serve.rs             publish, rebuild          *)
(*   oqueue-coordinator/src/serve/leadership.rs  replay, refold, the fence *)
(*   oqueue-coordinator/src/coordinator.rs       replay, drop_cache        *)
(*   oqueue-core/src/index_state.rs              apply, clear              *)
(* Versions count from 1 here, so that 0 is the code's None. Which node    *)
(* leads, and that a term's leader appends at the tail, are Lease.tla's    *)
(* and SharedLog.tla's; this module starts where those end.                *)
(***************************************************************************)
EXTENDS Integers, Sequences, FiniteSets, FiniteSetsExt

CONSTANTS Partition,  \* partitions, of whatever topics
          Bundle,     \* the sets of partitions one commit's spans may name
          Page,       \* REBUILD_PAGE_ENTRIES
          Buffer,     \* DELTA_BUFFER_ENTRIES
          Drops,      \* whether anybody calls drop_cache
          Others,     \* whether another node ever leads
          Ambiguous,  \* whether an append can land and answer an error
          Fails,      \* whether a read of the log, or a fold into the index, can fail
          MaxBoot,    \* bound: entries in the line when the node boots
          MaxLine,    \* bound: entries in the line
          MaxTerm     \* bound: terms this node holds; the last never lapses

ASSUME IndexLoopAssumption ==
    /\ Bundle \subseteq SUBSET Partition
    /\ Page \in Nat \ {0} /\ Buffer \in Nat \ {0} /\ MaxTerm \in Nat \ {0}
    /\ {Drops, Others, Ambiguous, Fails} \subseteq BOOLEAN
    /\ MaxLine \in Nat /\ MaxBoot \in 0 .. MaxLine

VARIABLES
    line,       \* the durable entries, whoever wrote them
    leads,      \* lease.is_held()
    term,       \* lease.term(), 0 for None
    terms,      \* how many terms this node has held
    boot,       \* entries the deferred handle was opened with; -1 unopened
    view,       \* entries the loop's own handle holds
    opened,     \* entries of the handle a refold reads
    replayed,   \* replayed_term, 0 for None
    forTerm,    \* the term a refold began under
    pc,         \* where the loop is
    cursor,     \* the last version a replay, refold or rebuild has read
    job,        \* the entry being journaled
    index,      \* the versions folded into the index
    applied,    \* the index's applied_upto, 0 for None
    published,  \* the watch's value, 0 for None
    deltas,     \* versions sent and not yet received by the follower
    lagged,     \* whether the follower missed some
    acked,      \* versions answered Ok
    outcome,    \* the answer to the follower's trim: none, ok, err
    emptied     \* whether the index was emptied and not yet made whole again

handles == <<line, leads, term, terms, boot, view, opened, replayed, forTerm>>

tidings == <<published, deltas, lagged, acked, outcome>>

feeds == <<published, deltas, lagged, acked, outcome, emptied>>

loopVars == <<line, leads, term, terms, boot, view, opened, replayed, forTerm,
              pc, cursor, job, index, applied, published, deltas, lagged, acked,
              outcome, emptied>>

Version == 1 .. MaxLine

Commit(b) == [kind |-> "commit", spans |-> b, start |-> 0]

Trim(p, start) == [kind |-> "trim", spans |-> {p}, start |-> start]

NoJob == [kind |-> "none"]

Entry == {Commit(b) : b \in Bundle} \cup {Trim(p, n) : p \in Partition, n \in 0 .. MaxLine}

-----------------------------------------------------------------------------
(* What a set of folded versions answers. A commit holds one record of     *)
(* each partition its spans name, in the object of its own version.        *)

Of(folded, kind, p) == {v \in folded : line[v].kind = kind /\ p \in line[v].spans}

Commits(folded, p) == Of(folded, "commit", p)

(* end_offset: a partition the fold has not seen is based at zero, so what *)
(* is missing below a folded commit shifts it down.                        *)
EndOffset(folded, p) == Cardinality(Commits(folded, p))

OffsetOf(folded, p, v) == Cardinality({u \in Commits(folded, p) : u < v})

LogStart(folded, p) ==
    Max({0} \cup {line[v].start : v \in Of(folded, "trim", p)})

(* references: the objects a partition still names.                        *)
Named(folded, p) == {v \in Commits(folded, p) : OffsetOf(folded, p, v) >= LogStart(folded, p)}

(* IndexState::apply refuses a version at or below the last, and a trim    *)
(* past the end; it does not ask that versions be contiguous.              *)
Foldable(folded, upto, v) ==
    /\ v > upto
    /\ \A p \in line[v].spans : line[v].start <= EndOffset(folded, p)

(* read_from(from + 1, REBUILD_PAGE_ENTRIES) of a handle of upto entries.  *)
PageEnd(from, upto) == IF from + Page < upto THEN from + Page ELSE upto

PageAfter(from, upto) == from + 1 .. PageEnd(from, upto)

-----------------------------------------------------------------------------
Init ==
    /\ line \in UNION {[1 .. n -> {Commit(b) : b \in Bundle}] : n \in 0 .. MaxBoot}
    /\ leads \in BOOLEAN
    /\ term = (IF leads THEN 1 ELSE 0) /\ terms = term
    /\ boot = -1 /\ view = 0 /\ opened = 0
    /\ replayed = 0 /\ forTerm = 0
    /\ pc = "new" /\ cursor = 0 /\ job = NoJob
    /\ index = {} /\ applied = 0 /\ published = 0
    /\ deltas = <<>> /\ lagged = FALSE
    /\ acked = {} /\ outcome = "none" /\ emptied = FALSE

(* try_replay of a deferred open, which retries until the store answers:   *)
(* the first read opens the shared handle, and only then is the index      *)
(* cleared.                                                                *)
ReplayStart ==
    /\ pc = "new"
    /\ boot' = IF boot = -1 THEN Len(line) ELSE boot
    /\ view' = boot'
    /\ index' = {} /\ applied' = 0
    /\ pc' = "replay" /\ cursor' = 0
    /\ UNCHANGED <<line, leads, term, terms, opened, replayed, forTerm, job>>
    /\ UNCHANGED feeds

(* One page of a fold that reads everything: replay, and publish's rebuild.*)
FoldPage ==
    /\ pc \in {"replay", "rebuild"}
    /\ cursor < view
    /\ index' = index \cup PageAfter(cursor, view)
    /\ applied' = PageEnd(cursor, view) /\ cursor' = PageEnd(cursor, view)
    /\ UNCHANGED <<pc, job>> /\ UNCHANGED handles /\ UNCHANGED feeds

(* The empty page: publish_applied, and the loop serves.                   *)
ReplayDone ==
    /\ pc = "replay" /\ cursor = view
    /\ published' = applied
    /\ pc' = "idle" /\ cursor' = 0
    /\ UNCHANGED <<job, index, applied, deltas, lagged, acked, outcome, emptied>>
    /\ UNCHANGED handles

(* replay clears the index again on a failure after the first page, and    *)
(* run_retrying starts over.                                               *)
ReplayFails ==
    /\ Fails /\ pc = "replay"
    /\ index' = {} /\ applied' = 0
    /\ pc' = "new" /\ cursor' = 0
    /\ UNCHANGED job /\ UNCHANGED handles /\ UNCHANGED feeds

-----------------------------------------------------------------------------

(* current_for_term: about to write under a term it has not replayed       *)
(* under, the loop opens the log afresh.                                   *)
RefoldStart ==
    /\ pc = "idle" /\ leads
    /\ term = 0 \/ term # replayed
    /\ opened' = Len(line) /\ forTerm' = term
    /\ pc' = "refold" /\ cursor' = 0
    /\ UNCHANGED <<line, leads, term, terms, boot, view, replayed, job, index, applied>>
    /\ UNCHANGED feeds

(* refold folds into the index only what it lacks.                         *)
RefoldPage ==
    /\ pc = "refold" /\ cursor < opened
    /\ index' = index \cup {v \in PageAfter(cursor, opened) : v > applied}
    /\ applied' = IF PageEnd(cursor, opened) > applied THEN PageEnd(cursor, opened) ELSE applied
    /\ cursor' = PageEnd(cursor, opened)
    /\ UNCHANGED <<pc, job>> /\ UNCHANGED handles /\ UNCHANGED feeds

RefoldDone ==
    /\ pc = "refold" /\ cursor = opened
    /\ view' = opened /\ replayed' = forTerm
    /\ published' = applied
    /\ pc' = "idle" /\ cursor' = 0
    /\ opened' = 0 /\ forTerm' = 0
    /\ emptied' = FALSE
    /\ UNCHANGED <<line, leads, term, terms, boot>>
    /\ UNCHANGED <<job, index, applied, deltas, lagged, acked, outcome>>

(* A refold that fails leaves the index the longer prefix it has become,   *)
(* which nobody is told of; the loop is not current.                       *)
RefoldFails ==
    /\ Fails /\ pc = "refold"
    /\ pc' = "idle" /\ cursor' = 0
    /\ opened' = 0 /\ forTerm' = 0
    /\ UNCHANGED <<line, leads, term, terms, boot, view, replayed>>
    /\ UNCHANGED <<job, index, applied>> /\ UNCHANGED feeds

-----------------------------------------------------------------------------
(* The request is answered and the loop takes the next.                    *)
Answer(how) ==
    /\ outcome' = IF job.kind = "trim" THEN how ELSE outcome
    /\ job' = NoJob /\ pc' = "idle"

(* serve and serve_trim, up to the append: may_write passes, the allocator *)
(* stages at its own tail, and the lease is looked at once more.           *)
Stage(e) ==
    /\ pc = "idle" /\ leads
    /\ term # 0 /\ term = replayed
    /\ \A p \in e.spans : e.start <= EndOffset(1 .. view, p)
    /\ Len(line) < MaxLine
    /\ job' = e /\ pc' = "append"
    /\ UNCHANGED <<cursor, index, applied>> /\ UNCHANGED handles /\ UNCHANGED feeds

(* A trim the loop turns away: fenced, or past the end its allocator has.  *)
TurnAway(e) ==
    /\ e.kind = "trim"
    /\ pc = "idle"
    /\ \/ ~leads
       \/ term # 0 /\ term = replayed /\ \E p \in e.spans : e.start > EndOffset(1 .. view, p)
    /\ outcome' = "err"
    /\ UNCHANGED <<pc, cursor, job, index, applied, published, deltas, lagged, acked, emptied>>
    /\ UNCHANGED handles

(* The create-only write of the handle's next segment.                     *)
Lands ==
    /\ pc = "append" /\ view = Len(line)
    /\ line' = Append(line, job) /\ view' = view + 1
    /\ pc' = "landed"
    /\ UNCHANGED <<leads, term, terms, boot, opened, replayed, forTerm>>
    /\ UNCHANGED <<cursor, job, index, applied>> /\ UNCHANGED feeds

(* journal: PreconditionFailed means another writer holds the line.        *)
Refused ==
    /\ pc = "append" /\ view < Len(line)
    /\ replayed' = 0 /\ Answer("err")
    /\ UNCHANGED <<line, leads, term, terms, boot, view, opened, forTerm>>
    /\ UNCHANGED <<cursor, index, applied, published, deltas, lagged, acked, emptied>>

(* journal: any other error; the write may have landed all the same.       *)
Errs ==
    /\ pc = "append"
    /\ \/ UNCHANGED line
       \/ Ambiguous /\ view = Len(line) /\ line' = Append(line, job)
    /\ Answer("err")
    /\ UNCHANGED <<leads, term, terms, boot, view, opened, replayed, forTerm>>
    /\ UNCHANGED <<cursor, index, applied, published, deltas, lagged, acked, emptied>>

(* still_leads_after_append.                                               *)
Fenced ==
    /\ pc = "landed" /\ ~leads
    /\ replayed' = 0 /\ Answer("err")
    /\ UNCHANGED <<line, leads, term, terms, boot, view, opened, forTerm>>
    /\ UNCHANGED <<cursor, index, applied, published, deltas, lagged, acked, emptied>>

(* Mutants: folding without asking where the index is; acknowledging       *)
(* without folding.                                                        *)
PublishBlindly ==
    /\ pc = "landed" /\ leads
    /\ index' = index \cup {view} /\ applied' = view
    /\ pc' = "tell"
    /\ UNCHANGED <<cursor, job>> /\ UNCHANGED handles /\ UNCHANGED feeds

PublishAfterAck ==
    /\ pc = "landed" /\ leads
    /\ pc' = "tell"
    /\ UNCHANGED <<cursor, job, index, applied>> /\ UNCHANGED handles /\ UNCHANGED feeds

(* publish: fold the entry if the index is exactly one below it, rebuild   *)
(* from the log otherwise.                                                 *)
PublishNext ==
    /\ pc = "landed" /\ leads
    /\ applied + 1 = view
    /\ index' = index \cup {view} /\ applied' = view /\ emptied' = FALSE
    /\ pc' = "tell"
    /\ UNCHANGED <<cursor, job>> /\ UNCHANGED handles /\ UNCHANGED tidings

(* The fold is refused by an index whose position the loop knew: emptied.  *)
PublishClears ==
    /\ Fails /\ pc = "landed" /\ leads
    /\ applied + 1 = view
    /\ index' = {} /\ applied' = 0 /\ emptied' = TRUE
    /\ pc' = "cleared"
    /\ UNCHANGED <<cursor, job>> /\ UNCHANGED handles /\ UNCHANGED tidings

PublishRebuild ==
    /\ pc = "landed" /\ leads
    /\ applied + 1 # view
    /\ index' = {} /\ applied' = 0
    /\ pc' = "rebuild" /\ cursor' = 0
    /\ UNCHANGED job /\ UNCHANGED handles /\ UNCHANGED feeds

RebuildDone ==
    /\ pc = "rebuild" /\ cursor = view
    /\ pc' = "tell" /\ cursor' = 0 /\ emptied' = FALSE
    /\ UNCHANGED <<job, index, applied>> /\ UNCHANGED handles /\ UNCHANGED tidings

(* A rebuild that fails leaves the index empty rather than partial, and    *)
(* the commit is acknowledged all the same.                                *)
RebuildBreaks ==
    /\ Fails /\ pc = "rebuild"
    /\ index' = {} /\ applied' = 0 /\ emptied' = TRUE
    /\ pc' = "tell" /\ cursor' = 0
    /\ UNCHANGED job /\ UNCHANGED handles /\ UNCHANGED tidings

(* Mutants of Tell: the watch is forgotten; it takes the entry's version   *)
(* without asking the index.                                               *)
TellDeltaOnly ==
    /\ pc \in {"tell", "cleared"}
    /\ deltas' = Append(IF Len(deltas) < Buffer THEN deltas ELSE Tail(deltas), view)
    /\ lagged' = (lagged \/ Len(deltas) >= Buffer)
    /\ acked' = acked \cup {view} /\ Answer("ok")
    /\ UNCHANGED <<cursor, index, applied, published, emptied>> /\ UNCHANGED handles

TellItsVersion ==
    /\ pc \in {"tell", "cleared"}
    /\ published' = view
    /\ deltas' = Append(IF Len(deltas) < Buffer THEN deltas ELSE Tail(deltas), view)
    /\ lagged' = (lagged \/ Len(deltas) >= Buffer)
    /\ acked' = acked \cup {view} /\ Answer("ok")
    /\ UNCHANGED <<cursor, index, applied, emptied>> /\ UNCHANGED handles

(* publish's end and the acknowledgement: the watch, the delta, the reply. *)
(* A full broadcast buffer overwrites its oldest entry. Nothing that       *)
(* happened to the index fails the commit.                                 *)
Tell ==
    /\ pc \in {"tell", "cleared"}
    /\ published' = applied
    /\ deltas' = Append(IF Len(deltas) < Buffer THEN deltas ELSE Tail(deltas), view)
    /\ lagged' = (lagged \/ Len(deltas) >= Buffer)
    /\ acked' = acked \cup {view} /\ Answer("ok")
    /\ UNCHANGED <<cursor, index, applied, emptied>> /\ UNCHANGED handles

(* drop_cache, served in the loop's own order: clear, then publish that.   *)
DropCache ==
    /\ Drops /\ pc = "idle" /\ applied > 0
    /\ index' = {} /\ applied' = 0 /\ emptied' = TRUE
    /\ pc' = "dropping"
    /\ UNCHANGED <<cursor, job>> /\ UNCHANGED tidings /\ UNCHANGED handles

Dropped ==
    /\ pc = "dropping"
    /\ published' = applied
    /\ pc' = "idle"
    /\ UNCHANGED <<cursor, job, index, applied, deltas, lagged, acked, outcome, emptied>>
    /\ UNCHANGED handles

-----------------------------------------------------------------------------
(* The lease's own task, and the other nodes. A lapse is seen by the clock *)
(* before lose() forgets the term; a new term is never an old one.         *)
Lapse ==
    /\ leads /\ terms < MaxTerm
    /\ leads' = FALSE
    /\ term' \in {term, 0}
    /\ UNCHANGED <<line, terms, boot, view, opened, replayed, forTerm>>
    /\ UNCHANGED <<pc, cursor, job, index, applied>> /\ UNCHANGED feeds

Take ==
    /\ ~leads /\ terms < MaxTerm
    /\ leads' = TRUE /\ terms' = terms + 1 /\ term' = terms + 1
    /\ UNCHANGED <<line, boot, view, opened, replayed, forTerm>>
    /\ UNCHANGED <<pc, cursor, job, index, applied>> /\ UNCHANGED feeds

OtherAppends(b) ==
    /\ Others /\ ~leads /\ Len(line) < MaxLine
    /\ line' = Append(line, Commit(b))
    /\ UNCHANGED <<leads, term, terms, boot, view, opened, replayed, forTerm>>
    /\ UNCHANGED <<pc, cursor, job, index, applied>> /\ UNCHANGED feeds

(* The loop's own steps, taken without waiting for anyone.                 *)
Serving ==
    \/ ReplayStart \/ FoldPage \/ ReplayDone
    \/ RefoldPage \/ RefoldDone
    \/ Lands \/ Refused \/ Fenced
    \/ PublishNext \/ PublishRebuild \/ RebuildDone \/ Tell \/ Dropped

(* What goes wrong with the log or the index.                              *)
Failing == ReplayFails \/ RefoldFails \/ PublishClears \/ RebuildBreaks

LoopNext ==
    \/ Serving \/ Failing
    \/ RefoldStart \/ Errs \/ DropCache \/ Lapse \/ Take
    \/ \E b \in Bundle : Stage(Commit(b)) \/ OtherAppends(b)

LoopSpec == Init /\ [][LoopNext]_loopVars

-----------------------------------------------------------------------------
(* The type invariant; what is pushed and not received never exceeds       *)
(* DELTA_BUFFER_ENTRIES (subscribe.rs).                                    *)
LoopTypeOK ==
    /\ line \in Seq(Entry) /\ Len(line) <= MaxLine
    /\ leads \in BOOLEAN /\ term \in 0 .. MaxTerm /\ terms \in 0 .. MaxTerm
    /\ boot \in -1 .. MaxLine /\ view \in 0 .. MaxLine /\ opened \in 0 .. MaxLine
    /\ replayed \in 0 .. MaxTerm /\ forTerm \in 0 .. MaxTerm
    /\ pc \in {"new", "replay", "idle", "refold", "append", "landed", "rebuild",
               "tell", "cleared", "dropping"}
    /\ cursor \in 0 .. MaxLine /\ job \in Entry \cup {NoJob}
    /\ index \subseteq Version /\ applied \in 0 .. MaxLine
    /\ published \in 0 .. MaxLine
    /\ deltas \in Seq(Version) /\ Len(deltas) <= Buffer /\ lagged \in BOOLEAN
    /\ acked \subseteq Version /\ outcome \in {"none", "ok", "err"} /\ emptied \in BOOLEAN

(* The index is a prefix of the durable line, without a hole, whatever     *)
(* term, refusal, lost answer, failed read or dropped cache came between:  *)
(* a fold onto a hole would place records at offsets below the             *)
(* acknowledged ones (publish: "An index that is wrong is worse than one   *)
(* that is empty").                                                        *)
IndexFaithful ==
    /\ index = 1 .. applied
    /\ applied <= Len(line)

(* Between a clear and its publication the watch still names what is gone. *)
Clearing == pc \in {"dropping", "cleared"}

(* The watch never names a version the index does not hold, a failed fold  *)
(* or rebuild included, which would wake a reader onto an index that       *)
(* cannot answer it (publish_applied; "empty and says so" in cache.rs);    *)
(* only between a clear and the publication after it does it lag.          *)
WatchHonest == ~Clearing => published <= applied

(* Read-your-writes: an acknowledged version is in the index a fetch on    *)
(* this node reads (publish: "Before the ack returns"), unless the index   *)
(* was emptied, by drop_cache, a refused fold or a failed rebuild, and has *)
(* not been made whole since; and then the watch does not name the version *)
(* either, so its reader waits. The first rebuild, refold or fold that     *)
(* succeeds brings all of them back.                                       *)
AckedReadable == \A v \in acked \ index : emptied /\ (~Clearing => published < v)
=============================================================================
