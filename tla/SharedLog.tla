------------------------------ MODULE SharedLog ------------------------------
(***************************************************************************)
(* The metadata log in object storage, its writers and its checkpoints:    *)
(*   oqueue-core/src/object_store_log.rs      open, append, checkpoint     *)
(*   oqueue-core/src/object_store_log/base.rs the base generations         *)
(*   oqueue-coordinator/src/serve.rs          the loop that journals       *)
(*   oqueue-coordinator/src/serve/leadership.rs  who may, from which view  *)
(*   oqueue-broker/src/checkpoint.rs          the checkpoint task          *)
(* under the leadership Leadership.tla describes and Lease.tla implements. *)
(*                                                                         *)
(* Each process runs a coordinator loop, one request at a time, and a      *)
(* checkpoint task beside it; both suspend at every call on the store. The *)
(* loop journals one entry per append, so segment s holds version s and a  *)
(* view's next segment is the number of entries it holds.                  *)
(***************************************************************************)
EXTENDS Leadership, Integers, Sequences, SequencesExt

CONSTANTS Commit,      \* the entries producers ask to commit
          MaxTerms,    \* bound: terms created
          MaxGen,      \* bound: base generations written
          MaxLate,     \* bound: PUTs in flight whose caller is gone
          MaxRestart,  \* bound: times a process stops and starts again
          SpansTerms,  \* whether one request of the loop may last from one
                       \* term of its node into another
          CkptPauses   \* whether the lease may lapse between the checkpoint
                       \* task's look at it and the capture that follows

ASSUME SharedLogAssumption ==
    /\ None \notin Node /\ None \notin Commit /\ None \notin Seq(Commit)
    /\ IsFiniteSet(Commit)
    /\ MaxTerms \in Nat /\ MaxGen \in Nat /\ MaxLate \in Nat /\ MaxRestart \in Nat
    /\ SpansTerms \in BOOLEAN /\ CkptPauses \in BOOLEAN

VARIABLES
    seg,       \* seg[s]: the commit in object log/<s>; None: no such object
    bases,     \* bases[g]: the segment base generation g - 1 starts at
    snap,      \* snap[s]: the entries in the snapshot of versions below s; None
    late,      \* PUTs still in flight though their caller is gone
    view,      \* view[n]: the log n's loop has open: entries, gen, base, dirty
    replayed,  \* replayed[n]: replayed_term, 0 for none (term t is written t + 1)
    loop,      \* loop[n]: where n's coordinator loop is, with what it captured
    ckpt,      \* ckpt[n]: where n's checkpoint task is, with what it captured
    acked,     \* acked[c]: the place acknowledged for c (version + 1), 0 for none
    restarts   \* how many times a process has stopped

storeVars == <<seg, bases, snap, late>>
logVars == <<storeVars, view, replayed, loop, ckpt, acked, restarts>>
allVars == <<vars, logVars>>

MaxSeq == Cardinality(Commit)

NoView == [entries |-> <<>>, gen |-> 0, base |-> 0, dirty |-> FALSE]

IdleLoop == [pc |-> "idle", term |-> 0, gen |-> 0, base |-> 0, entries |-> <<>>, commit |-> None]

IdleCkpt == [pc |-> "idle", own |-> TRUE, seq |-> 0, gen |-> 0, base |-> 0, tail |-> 0,
             entries |-> <<>>, retired |-> <<>>]

Present(s) == s < MaxSeq /\ seg[s] # None

Leads(n) == leader = n

LogInit ==
    /\ Init
    /\ seg = [s \in 0 .. MaxSeq - 1 |-> None]
    /\ bases = <<>>
    /\ snap = [s \in 1 .. MaxSeq |-> None]
    /\ late = {}
    /\ view = [n \in Node |-> NoView]
    /\ replayed = [n \in Node |-> 0]
    /\ loop = [n \in Node |-> IdleLoop]
    /\ ckpt = [n \in Node |-> IdleCkpt]
    /\ acked = [c \in Commit |-> 0]
    /\ restarts = 0

Goto(n, place) == loop' = [loop EXCEPT ![n].pc = place]

EndRequest(n) == loop' = [loop EXCEPT ![n] = IdleLoop]

-----------------------------------------------------------------------------
(* Opening the log: read_base, walk, read_base again.                      *)

Generation == Len(bases)

BaseSeq == IF bases = <<>> THEN 0 ELSE Last(bases)

(* Mutant of MayWrite: having replayed under any term will do.             *)
MayWriteAnyTerm(n) ==
    /\ loop[n].pc = "idle" /\ Leads(n) /\ replayed[n] # 0
    /\ Goto(n, "stage")
    /\ UNCHANGED <<vars, storeVars, view, replayed, ckpt, acked, restarts>>

(* may_write: it leads, and has replayed under this very term.             *)
MayWrite(n) ==
    /\ loop[n].pc = "idle" /\ Leads(n) /\ replayed[n] = terms
    /\ Goto(n, "stage")
    /\ UNCHANGED <<vars, storeVars, view, replayed, ckpt, acked, restarts>>

(* current_for_term: it leads under a term it has not replayed under, so   *)
(* the log is opened afresh; the term is the one of this moment.           *)
BeginOpen(n) ==
    /\ loop[n].pc = "idle" /\ Leads(n) /\ replayed[n] # terms
    /\ loop' = [loop EXCEPT ![n].pc = "base", ![n].term = terms]
    /\ UNCHANGED <<vars, storeVars, view, replayed, ckpt, acked, restarts>>

ReadBase(n) ==
    /\ loop[n].pc = "base"
    /\ loop' = [loop EXCEPT ![n].gen = Generation, ![n].base = BaseSeq, ![n].entries = <<>>,
                            ![n].pc = IF BaseSeq = 0 THEN "walk" ELSE "snapshot"]
    /\ UNCHANGED <<vars, storeVars, view, replayed, ckpt, acked, restarts>>

ReadSnapshot(n) ==
    /\ loop[n].pc = "snapshot" /\ snap[loop[n].base] # None
    /\ loop' = [loop EXCEPT ![n].entries = snap[loop[n].base], ![n].pc = "walk"]
    /\ UNCHANGED <<vars, storeVars, view, replayed, ckpt, acked, restarts>>

(* A snapshot deleted since its base was read fails the open, which is     *)
(* tried again by the next request.                                        *)
SnapshotGone(n) ==
    /\ loop[n].pc = "snapshot" /\ snap[loop[n].base] = None
    /\ EndRequest(n)
    /\ UNCHANGED <<vars, storeVars, view, replayed, ckpt, acked, restarts>>

WalkSegment(n) ==
    /\ loop[n].pc = "walk" /\ Present(Len(loop[n].entries))
    /\ loop' = [loop EXCEPT ![n].entries = Append(@, seg[Len(@)])]
    /\ UNCHANGED <<vars, storeVars, view, replayed, ckpt, acked, restarts>>

WalkEnd(n) ==
    /\ loop[n].pc = "walk" /\ ~Present(Len(loop[n].entries))
    /\ Goto(n, "recheck")
    /\ UNCHANGED <<vars, storeVars, view, replayed, ckpt, acked, restarts>>

(* A checkpoint moved the base meanwhile: the walk is started over.        *)
Rewalk(n) ==
    /\ loop[n].pc = "recheck" /\ Generation # loop[n].gen
    /\ Goto(n, "base")
    /\ UNCHANGED <<vars, storeVars, view, replayed, ckpt, acked, restarts>>

(* Mutant of Opened: the walk is taken though the base moved under it.     *)
OpenedUnchecked(n) ==
    /\ loop[n].pc = "recheck"
    /\ view' = [view EXCEPT ![n] = [entries |-> loop[n].entries, gen |-> loop[n].gen,
                                    base |-> loop[n].base, dirty |-> FALSE]]
    /\ replayed' = [replayed EXCEPT ![n] = loop[n].term]
    /\ loop' = [loop EXCEPT ![n] = [IdleLoop EXCEPT !.pc = "stage"]]
    /\ UNCHANGED <<vars, storeVars, ckpt, acked, restarts>>

(* The fresh view replaces the old one, which a checkpoint under way still *)
(* holds and finishes with.                                                *)
Opened(n) ==
    /\ loop[n].pc = "recheck" /\ Generation = loop[n].gen
    /\ view' = [view EXCEPT ![n] = [entries |-> loop[n].entries, gen |-> loop[n].gen,
                                    base |-> loop[n].base, dirty |-> FALSE]]
    /\ replayed' = [replayed EXCEPT ![n] = loop[n].term]
    /\ ckpt' = [ckpt EXCEPT ![n] = IF @.pc = "idle" \/ ~@.own THEN @
                                   ELSE [@ EXCEPT !.own = FALSE, !.tail = Len(view[n].entries)]]
    /\ loop' = [loop EXCEPT ![n] = [IdleLoop EXCEPT !.pc = "stage"]]
    /\ UNCHANGED <<vars, storeVars, acked, restarts>>

-----------------------------------------------------------------------------
(* Journaling one entry.                                                   *)

Sent == {c \in Commit : \/ \E n \in Node : loop[n].commit = c
                        \/ \E p \in late : p.commit = c
                        \/ \E s \in DOMAIN seg : seg[s] = c
                        \/ \E s \in DOMAIN snap : snap[s] # None /\ c \in ToSet(snap[s])
                        \/ \E n \in Node : c \in ToSet(view[n].entries)}

(* serve: staged, and still leading at the journal step: the PUT is sent.  *)
Journal(n, c) ==
    /\ loop[n].pc = "stage" /\ Leads(n) /\ Len(view[n].entries) < MaxSeq /\ c \notin Sent
    /\ loop' = [loop EXCEPT ![n].pc = "put", ![n].commit = c]
    /\ UNCHANGED <<vars, storeVars, view, replayed, ckpt, acked, restarts>>

(* The lease lapsed since may_write: Fenced.                               *)
FencedBefore(n) ==
    /\ loop[n].pc = "stage" /\ ~Leads(n)
    /\ EndRequest(n)
    /\ UNCHANGED <<vars, storeVars, view, replayed, ckpt, acked, restarts>>

AppendLands(n) ==
    /\ loop[n].pc = "put" /\ ~Present(Len(view[n].entries))
    /\ seg' = [seg EXCEPT ![Len(view[n].entries)] = loop[n].commit]
    /\ Goto(n, "landed")
    /\ UNCHANGED <<vars, bases, snap, late, view, replayed, ckpt, acked, restarts>>

(* The key is taken: another writer holds the line, so the next write      *)
(* replays afresh.                                                         *)
AppendRefused(n) ==
    /\ loop[n].pc = "put" /\ Present(Len(view[n].entries))
    /\ replayed' = [replayed EXCEPT ![n] = 0]
    /\ EndRequest(n)
    /\ UNCHANGED <<vars, storeVars, view, ckpt, acked, restarts>>

Extended(n) == [view EXCEPT ![n].entries = Append(@, loop[n].commit), ![n].dirty = TRUE]

(* The answer: append extends the view, the loop still leads, and the      *)
(* producer is told the place.                                             *)
Acknowledge(n) ==
    /\ loop[n].pc = "landed" /\ Leads(n)
    /\ view' = Extended(n)
    /\ acked' = [acked EXCEPT ![loop[n].commit] = Len(view[n].entries) + 1]
    /\ EndRequest(n)
    /\ UNCHANGED <<vars, storeVars, replayed, ckpt, restarts>>

(* still_leads_after_append: it does not, so no acknowledgement.           *)
FencedAfter(n) ==
    /\ loop[n].pc = "landed" /\ ~Leads(n)
    /\ view' = Extended(n)
    /\ replayed' = [replayed EXCEPT ![n] = 0]
    /\ EndRequest(n)
    /\ UNCHANGED <<vars, storeVars, ckpt, acked, restarts>>

(* A PUT whose caller is gone is lost, or may land yet.                    *)
Leave(ps) == \/ UNCHANGED late
             \/ /\ ps # {} /\ Cardinality(late \cup ps) <= MaxLate
                /\ late' = late \cup ps

SegPut(n) == IF loop[n].pc = "put"
             THEN {[kind |-> "seg", key |-> Len(view[n].entries), commit |-> loop[n].commit]}
             ELSE {}

(* Any store call of the request fails with something other than a refused *)
(* precondition. What was sent may have landed, or land later.             *)
RequestErrs(n) ==
    /\ loop[n].pc \in {"base", "snapshot", "walk", "recheck", "put", "landed"}
    /\ Leave(SegPut(n))
    /\ EndRequest(n)
    /\ UNCHANGED <<vars, seg, bases, snap, view, replayed, ckpt, acked, restarts>>

-----------------------------------------------------------------------------
(* The checkpoint task.                                                    *)

CkptGoto(n, place) == ckpt' = [ckpt EXCEPT ![n].pc = place]

CkptEnd(n) == ckpt' = [ckpt EXCEPT ![n] = IdleCkpt]

(* The lease is held. Without a pause before the capture, a look that      *)
(* finds nothing appended since the last checkpoint comes to nothing.      *)
CkptHeld(n) ==
    /\ ckpt[n].pc = "idle" /\ Leads(n) /\ (view[n].dirty \/ CkptPauses)
    /\ CkptGoto(n, "armed")
    /\ UNCHANGED <<vars, storeVars, view, replayed, loop, acked, restarts>>

(* What the current view holds now is what this checkpoint will write.     *)
CkptCapture(n) ==
    /\ ckpt[n].pc = "armed" /\ (CkptPauses \/ Leads(n))
    /\ view[n].dirty /\ view[n].entries # <<>> /\ Len(view[n].entries) # view[n].base
    /\ ckpt' = [ckpt EXCEPT ![n] =
          [pc |-> "snapshot", own |-> TRUE, seq |-> Len(view[n].entries), gen |-> view[n].gen,
           base |-> view[n].base, tail |-> 0, entries |-> view[n].entries, retired |-> <<>>]]
    /\ UNCHANGED <<vars, storeVars, view, replayed, loop, acked, restarts>>

(* The view was replaced meanwhile by one with nothing to fold.            *)
CkptNothing(n) ==
    /\ ckpt[n].pc = "armed"
    /\ \/ ~view[n].dirty \/ view[n].entries = <<>> \/ Len(view[n].entries) = view[n].base
       \/ ~CkptPauses /\ ~Leads(n)
    /\ CkptEnd(n)
    /\ UNCHANGED <<vars, storeVars, view, replayed, loop, acked, restarts>>

(* put_if_absent: a snapshot already under this key is taken as this one.  *)
CkptSnapshot(n) ==
    /\ ckpt[n].pc = "snapshot"
    /\ snap' = [snap EXCEPT ![ckpt[n].seq] = IF @ = None THEN ckpt[n].entries ELSE @]
    /\ ckpt' = [ckpt EXCEPT ![n].pc = "tail",
                            ![n].tail = IF ckpt[n].own THEN Len(view[n].entries) ELSE @]
    /\ UNCHANGED <<vars, seg, bases, late, view, replayed, loop, acked, restarts>>

(* still_the_tail: the segment after the view's last is absent.            *)
CkptTail(n) ==
    /\ ckpt[n].pc = "tail" /\ ~Present(ckpt[n].tail)
    /\ CkptGoto(n, "base")
    /\ UNCHANGED <<vars, storeVars, view, replayed, loop, acked, restarts>>

CkptNotTail(n) ==
    /\ ckpt[n].pc = "tail" /\ Present(ckpt[n].tail)
    /\ CkptEnd(n)
    /\ UNCHANGED <<vars, storeVars, view, replayed, loop, acked, restarts>>

(* The base generation is written only if absent: the commit point.        *)
CkptBase(n) ==
    /\ ckpt[n].pc = "base" /\ Generation = ckpt[n].gen /\ Generation < MaxGen
    /\ bases' = Append(bases, ckpt[n].seq)
    /\ CkptGoto(n, "committed")
    /\ UNCHANGED <<vars, seg, snap, late, view, replayed, loop, acked, restarts>>

CkptRefused(n) ==
    /\ ckpt[n].pc = "base" /\ Generation > ckpt[n].gen
    /\ CkptEnd(n)
    /\ UNCHANGED <<vars, storeVars, view, replayed, loop, acked, restarts>>

(* The base's answer: the view moves to it, and what it replaced is listed *)
(* for deletion, the segments in order and then the old snapshot.          *)
CkptCommitted(n) ==
    /\ ckpt[n].pc = "committed"
    /\ view' = IF ckpt[n].own
               THEN [view EXCEPT ![n].gen = ckpt[n].gen + 1, ![n].base = ckpt[n].seq,
                                 ![n].dirty = FALSE]
               ELSE view
    /\ ckpt' = [ckpt EXCEPT ![n].pc = "delete",
          ![n].retired = [i \in 1 .. ckpt[n].seq - ckpt[n].base |->
                             [kind |-> "seg", key |-> ckpt[n].base + i - 1]]
                         \o (IF ckpt[n].base = 0 THEN <<>>
                             ELSE <<[kind |-> "snap", key |-> ckpt[n].base]>>)]
    /\ UNCHANGED <<vars, storeVars, replayed, loop, acked, restarts>>

CkptDelete(n) ==
    /\ ckpt[n].pc = "delete" /\ ckpt[n].retired # <<>>
    /\ LET k == Head(ckpt[n].retired)
       IN  /\ seg' = IF k.kind = "seg" THEN [seg EXCEPT ![k.key] = None] ELSE seg
           /\ snap' = IF k.kind = "snap" THEN [snap EXCEPT ![k.key] = None] ELSE snap
    /\ ckpt' = [ckpt EXCEPT ![n].retired = Tail(@)]
    /\ UNCHANGED <<vars, bases, late, view, replayed, loop, acked, restarts>>

CkptDone(n) ==
    /\ ckpt[n].pc = "delete" /\ ckpt[n].retired = <<>>
    /\ CkptEnd(n)
    /\ UNCHANGED <<vars, storeVars, view, replayed, loop, acked, restarts>>

BasePut(n) == IF ckpt[n].pc = "base"
              THEN {[kind |-> "base", key |-> ckpt[n].gen, seq |-> ckpt[n].seq, commit |-> None]}
              ELSE {}

(* Any store call of the checkpoint fails: it stops where it is, and the   *)
(* task looks again later.                                                 *)
CkptErrs(n) ==
    /\ ckpt[n].pc \in {"snapshot", "tail", "base", "committed", "delete"}
    /\ Leave(BasePut(n))
    /\ CkptEnd(n)
    /\ UNCHANGED <<vars, seg, bases, snap, view, replayed, loop, acked, restarts>>

-----------------------------------------------------------------------------
(* The environment.                                                        *)

(* A PUT nobody waits for reaches the store, which takes it if the key is  *)
(* absent.                                                                 *)
LateLands(p) ==
    /\ late' = late \ {p}
    /\ IF p.kind = "seg"
       THEN /\ seg' = IF Present(p.key) THEN seg ELSE [seg EXCEPT ![p.key] = p.commit]
            /\ UNCHANGED bases
       ELSE /\ bases' = IF Generation = p.key /\ Generation < MaxGen
                        THEN Append(bases, p.seq) ELSE bases
            /\ UNCHANGED seg
    /\ UNCHANGED <<vars, snap, view, replayed, loop, ckpt, acked, restarts>>

(* The lease, as Leadership has it. Unless requests may span terms, a node *)
(* whose loop is inside one does not begin to lead.                        *)
LeaseChanges ==
    /\ \/ terms < MaxTerms /\ \E n \in Node : Create(n)
       \/ \E n \in Node : (SpansTerms \/ loop[n].pc = "idle") /\ Lead(n)
       \/ Forfeit
       \/ Lapse
    /\ UNCHANGED logVars

(* The process stops, with everything in its memory, and starts again.     *)
Restart(n) ==
    /\ restarts < MaxRestart
    /\ restarts' = restarts + 1
    /\ leader' = IF leader = n THEN None ELSE leader
    /\ pending' = IF pending = n THEN None ELSE pending
    /\ Leave(SegPut(n) \cup BasePut(n))
    /\ view' = [view EXCEPT ![n] = NoView]
    /\ replayed' = [replayed EXCEPT ![n] = 0]
    /\ EndRequest(n)
    /\ CkptEnd(n)
    /\ UNCHANGED <<terms, seg, bases, snap, acked>>

Request(n) ==
    \/ MayWrite(n) \/ BeginOpen(n) \/ ReadBase(n) \/ ReadSnapshot(n) \/ SnapshotGone(n)
    \/ WalkSegment(n) \/ WalkEnd(n) \/ Rewalk(n) \/ Opened(n)
    \/ \E c \in Commit : Journal(n, c)
    \/ FencedBefore(n) \/ AppendLands(n) \/ AppendRefused(n) \/ Acknowledge(n) \/ FencedAfter(n)
    \/ RequestErrs(n)

Checkpoint(n) ==
    \/ CkptHeld(n) \/ CkptCapture(n) \/ CkptNothing(n) \/ CkptSnapshot(n) \/ CkptTail(n)
    \/ CkptNotTail(n) \/ CkptBase(n) \/ CkptRefused(n) \/ CkptCommitted(n) \/ CkptDelete(n)
    \/ CkptDone(n) \/ CkptErrs(n)

LogNext ==
    \/ \E n \in Node : Request(n) \/ Checkpoint(n) \/ Restart(n)
    \/ \E p \in late : LateLands(p)
    \/ LeaseChanges

LogSpec == LogInit /\ [][LogNext]_allVars

-----------------------------------------------------------------------------
(* Properties.                                                             *)

(* What an open would read now: the newest base's snapshot, and the        *)
(* segments after it up to the first that is absent.                       *)
Recovered ==
    LET from == BaseSeq
        to == CHOOSE s \in from .. MaxSeq :
                 ~Present(s) /\ \A r \in from .. s - 1 : Present(r)
        head == IF from = 0 THEN <<>> ELSE snap[from]
    IN  head \o [i \in 1 .. to - from |-> seg[from + i - 1]]

(* A checkpoint stopped anywhere leaves a log that opens: the base names a *)
(* snapshot that exists (object_store_log.rs, checkpoint).                 *)
LogReadable == BaseSeq # 0 => snap[BaseSeq] # None

(* The view a leader appends to, once it has replayed under its term, is a *)
(* prefix of what any open would read: never behind a base, never another  *)
(* line (leadership.rs, reopening_with).                                   *)
LeaderViewCurrent ==
    \A n \in Node : Leads(n) /\ replayed[n] = terms /\ loop[n].pc # "landed" =>
        /\ Len(view[n].entries) >= BaseSeq
        /\ IsPrefix(view[n].entries, Recovered)

(* An acknowledged commit is where its acknowledgement says, in what any   *)
(* open would read (leadership.rs, still_leads_after_append).              *)
AckedDurable ==
    \A c \in Commit : acked[c] # 0 =>
        acked[c] <= Len(Recovered) /\ Recovered[acked[c]] = c

D == INSTANCE DurableLog WITH log <- Recovered

(* The segments, bases and snapshots together are one line of commits that *)
(* only grows at its end, and an acknowledgement names a commit's place in *)
(* it, through every crash, lapse and checkpoint (DurableLog.tla).         *)
Implements == D!Spec

(* The two together: the log always opens, and who leads appends to what   *)
(* anyone who opened it would read.                                        *)
LogSound == LogReadable /\ LeaderViewCurrent
=============================================================================
