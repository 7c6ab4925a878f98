------------------------------ MODULE Follower ------------------------------
(***************************************************************************)
(* Retention: a follower that folds the coordinator's deltas into an index *)
(* of its own, trims what has expired through the loop of IndexLoop.tla,   *)
(* and deletes the objects those trims released.                           *)
(*   oqueue-broker/src/retention.rs     run, fold, rebuild, round, below   *)
(*   oqueue-compact/src/retention.rs    ExpiryHeap track, due              *)
(*   oqueue-compact/src/lifecycle.rs    release, promote, sweep            *)
(*   bin/oqueue/src/compose.rs          which handle its rebuild reads     *)
(* Ages are left open: an armed partition may come due at any round, and   *)
(* FR-35's delay may have passed at any sweep.                             *)
(***************************************************************************)
EXTENDS IndexLoop

CONSTANT ReadFails  \* whether the follower's opening of the log may fail

ASSUME FollowerAssumption == ReadFails \in BOOLEAN

VARIABLES
    fpc,       \* where the task is
    fcursor,   \* the last version a rebuild has read
    findex,    \* the versions folded into the follower's index
    fapplied,  \* its applied_upto, 0 for None
    synced,    \* whether findex is taken to hold the log
    armed,     \* partitions in the expiry heap
    ask,       \* the trim put to the coordinator
    dropped,   \* the objects that trim drops
    released,  \* objects the lifecycle was handed
    atZero,    \* those the last sweep saw unnamed
    leaving,   \* those queued for deletion
    gone       \* objects deleted from the store

followerVars == <<fpc, fcursor, findex, fapplied, synced, armed, ask, dropped,
                  released, atZero, leaving, gone>>

vars == <<loopVars, followerVars>>

FollowerInit ==
    /\ Init
    /\ fpc = "rebuild" /\ fcursor = 0 /\ findex = {} /\ fapplied = 0 /\ synced = FALSE
    /\ armed = {} /\ ask = NoJob /\ dropped = {}
    /\ released = {} /\ atZero = {} /\ leaving = {} /\ gone = {}

(* rebuild starts by forgetting the index and the heap.                    *)
Forget ==
    /\ fpc' = "rebuild" /\ fcursor' = 0
    /\ findex' = {} /\ fapplied' = 0 /\ synced' = FALSE /\ armed' = {}

(* arm: track every partition a folded commit touched.                     *)
Touched(folded) == {p \in Partition : Commits(folded, p) # {}}

(* The handle compose.rs hands retention is the deferred one, opened by    *)
(* whoever reads it first and never reopened.                              *)
OpenBoot ==
    /\ fpc = "rebuild" /\ boot = -1
    /\ boot' = Len(line)
    /\ UNCHANGED <<line, leads, term, terms, view, opened, replayed, forTerm>>
    /\ UNCHANGED <<pc, cursor, job, index, applied>> /\ UNCHANGED feeds
    /\ UNCHANGED followerVars

RebuildPage ==
    /\ fpc = "rebuild" /\ boot > fcursor
    /\ findex' = findex \cup PageAfter(fcursor, boot)
    /\ fapplied' = PageEnd(fcursor, boot) /\ fcursor' = PageEnd(fcursor, boot)
    /\ armed' = armed \cup Touched(PageAfter(fcursor, boot))
    /\ UNCHANGED <<fpc, synced, ask, dropped, released, atZero, leaving, gone>>
    /\ UNCHANGED loopVars

(* Mutant: what was pushed while the log was being read is thrown away.    *)
RebuildSyncedDrains ==
    /\ fpc = "rebuild" /\ boot = fcursor
    /\ synced' = TRUE /\ fpc' = "idle" /\ fcursor' = 0
    /\ deltas' = <<>>
    /\ UNCHANGED <<findex, fapplied, armed, ask, dropped, released, atZero, leaving, gone>>
    /\ UNCHANGED handles /\ UNCHANGED <<pc, cursor, job, index, applied>>
    /\ UNCHANGED <<published, lagged, acked, outcome, emptied>>

RebuildSynced ==
    /\ fpc = "rebuild" /\ boot = fcursor
    /\ synced' = TRUE /\ fpc' = "idle" /\ fcursor' = 0
    /\ UNCHANGED <<findex, fapplied, armed, ask, dropped, released, atZero, leaving, gone>>
    /\ UNCHANGED loopVars

(* Opening the log failed (an open handle answers from memory): unsynced   *)
(* until a round tries again, the follower meanwhile folds what it is      *)
(* pushed onto nothing.                                                    *)
RebuildFails ==
    /\ ReadFails /\ fpc = "rebuild" /\ boot = -1
    /\ findex' = {} /\ fapplied' = 0
    /\ fpc' = "idle" /\ fcursor' = 0
    /\ UNCHANGED <<synced, armed, ask, dropped, released, atZero, leaving, gone>>
    /\ UNCHANGED loopVars

RoundUnsynced ==
    /\ fpc = "idle" /\ ~synced
    /\ Forget
    /\ UNCHANGED <<ask, dropped, released, atZero, leaving, gone>>
    /\ UNCHANGED loopVars

(* recv: a lag is reported once, before what is still buffered.            *)
RecvLagged ==
    /\ fpc = "idle" /\ lagged
    /\ lagged' = FALSE
    /\ Forget
    /\ UNCHANGED <<ask, dropped, released, atZero, leaving, gone>>
    /\ UNCHANGED handles /\ UNCHANGED <<pc, cursor, job, index, applied>>
    /\ UNCHANGED <<published, deltas, acked, outcome, emptied>>

Receives(v) ==
    /\ fpc = "idle" /\ ~lagged
    /\ deltas # <<>> /\ v = Head(deltas)
    /\ deltas' = Tail(deltas)
    /\ UNCHANGED <<ask, dropped, released, atZero, leaving, gone>>
    /\ UNCHANGED handles /\ UNCHANGED <<pc, cursor, job, index, applied>>
    /\ UNCHANGED <<published, lagged, acked, outcome, emptied>>

(* fold: an entry already held is stripped, a new one applied and armed; a *)
(* refusal re-derives everything.                                          *)
FoldDelta(v) ==
    LET new == {w \in {v} : w > fapplied}
    IN  /\ Receives(v)
        /\ new # {} => Foldable(findex, fapplied, v)
        /\ findex' = findex \cup new
        /\ fapplied' = Max(new \cup {fapplied})
        /\ armed' = armed \cup Touched(new)
        /\ UNCHANGED <<fpc, fcursor, synced>>

FoldRefused(v) ==
    /\ Receives(v)
    /\ v > fapplied /\ ~Foldable(findex, fapplied, v)
    /\ Forget

-----------------------------------------------------------------------------
(* round: an armed partition whose newest commit has aged out is popped    *)
(* and trimmed to the end the follower knows.                              *)
Due(p) ==
    /\ fpc = "idle" /\ synced
    /\ p \in armed
    /\ armed' = armed \ {p}
    /\ LogStart(findex, p) < EndOffset(findex, p)
    /\ ask' = Trim(p, EndOffset(findex, p))
    /\ dropped' = Named(findex, p)
    /\ fpc' = "asking"
    /\ UNCHANGED <<fcursor, findex, fapplied, synced, released, atZero, leaving, gone>>
    /\ UNCHANGED loopVars

DueNothing ==
    /\ fpc = "idle" /\ synced
    /\ armed' \in {armed} \cup {armed \ {p} : p \in {q \in armed :
                        LogStart(findex, q) = EndOffset(findex, q)}}
    /\ fpc' = "sweep"
    /\ UNCHANGED <<fcursor, findex, fapplied, synced, ask, dropped, released, atZero, leaving, gone>>
    /\ UNCHANGED loopVars

(* The loop takes the trim from its queue, or turns it away.               *)
LoopTakes ==
    /\ fpc = "asking"
    /\ Stage(ask)
    /\ fpc' = "waiting"
    /\ UNCHANGED <<fcursor, findex, fapplied, synced, armed, ask, dropped, released, atZero, leaving, gone>>

LoopTurnsAway ==
    /\ fpc = "asking"
    /\ TurnAway(ask)
    /\ fpc' = "waiting"
    /\ UNCHANGED <<fcursor, findex, fapplied, synced, armed, ask, dropped, released, atZero, leaving, gone>>

Trimmed ==
    /\ outcome' = "none"
    /\ ask' = NoJob /\ dropped' = {} /\ fpc' = "sweep"
    /\ UNCHANGED <<fcursor, findex, fapplied, synced, atZero, leaving, gone>>
    /\ UNCHANGED handles /\ UNCHANGED <<pc, cursor, job, index, applied>>
    /\ UNCHANGED <<published, deltas, lagged, acked, emptied>>

TrimJournaled ==
    /\ fpc = "waiting" /\ outcome = "ok"
    /\ released' = released \cup (dropped \ leaving)
    /\ UNCHANGED armed
    /\ Trimmed

(* Mutant: the popped partition waits for its next commit.                 *)
TrimFailedForgets ==
    /\ fpc = "waiting" /\ outcome = "err"
    /\ UNCHANGED <<armed, released>>
    /\ Trimmed

(* A trim that failed is armed again: an idle partition gets no commit to  *)
(* arm it.                                                                 *)
TrimFailed ==
    /\ fpc = "waiting" /\ outcome = "err"
    /\ armed' = armed \cup ask.spans
    /\ UNCHANGED released
    /\ Trimmed

(* Mutant: a release taken for zero references.                            *)
UnnamedOrNot == released

(* promote: what the last sweep saw unnamed, and still is, may be queued.  *)
Unnamed == {o \in released : \A p \in Partition : o \notin Named(findex, p)}

(* sweep: promote, then delete of the queue what the store will; a refused *)
(* key stays queued, and is not looked up again.                           *)
Sweep ==
    /\ fpc = "sweep"
    /\ \E due \in SUBSET (atZero \cap Unnamed) :
       \E deleted \in SUBSET (leaving \cup due) :
           /\ gone' = gone \cup deleted
           /\ leaving' = (leaving \cup due) \ deleted
           /\ released' = released \ due
           /\ atZero' = Unnamed \ due
    /\ fpc' = "idle"
    /\ UNCHANGED <<fcursor, findex, fapplied, synced, armed, ask, dropped>>
    /\ UNCHANGED loopVars

Next ==
    \/ LoopNext /\ UNCHANGED followerVars
    \/ OpenBoot \/ RebuildPage \/ RebuildSynced \/ RebuildFails \/ RoundUnsynced
    \/ RecvLagged
    \/ \E v \in Version : FoldDelta(v) \/ FoldRefused(v)
    \/ \E p \in Partition : Due(p)
    \/ DueNothing \/ LoopTakes \/ LoopTurnsAway \/ TrimJournaled \/ TrimFailed \/ Sweep

Spec == FollowerInit /\ [][Next]_vars

-----------------------------------------------------------------------------
(* The type invariant; the clock of an object that came back, or was       *)
(* queued, is forgotten with it (promote).                                 *)
TypeOK ==
    /\ fpc \in {"rebuild", "idle", "asking", "waiting", "sweep"}
    /\ fcursor \in 0 .. MaxLine
    /\ findex \subseteq Version /\ fapplied \in 0 .. MaxLine /\ synced \in BOOLEAN
    /\ armed \subseteq Partition /\ ask \in Entry \cup {NoJob}
    /\ dropped \subseteq Version /\ released \subseteq Version
    /\ atZero \subseteq released
    /\ leaving \subseteq Version /\ gone \subseteq Version

(* Deleting is safe: no partition, read at the whole durable line, still   *)
(* names an object retention has deleted (retention.rs: "A lagging         *)
(* follower is safe for deletion").                                        *)
SweepSafe ==
    \A p \in Partition : Named(DOMAIN line, p) \cap gone = {}

(* A follower taken to be synced holds a prefix of the line without a      *)
(* hole, however its subscription and its first read of the log overlap.   *)
FollowerFaithful == synced => findex = 1 .. fapplied

(* FR-33, "including on partitions nobody is writing to": once every delta *)
(* is folded, a partition with something left to expire is in the heap, so *)
(* no failed trim leaves it waiting for a commit that may never come.      *)
IdleStaysArmed ==
    fpc = "idle" /\ synced /\ deltas = <<>> /\ ~lagged
        => \A p \in Partition : Named(findex, p) # {} => p \in armed

(* The heap and the clocks stay what the follower's rounds rely on.        *)
HeapSound == TypeOK /\ IdleStaysArmed
=============================================================================
