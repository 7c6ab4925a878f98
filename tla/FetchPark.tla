------------------------------ MODULE FetchPark ------------------------------
(***************************************************************************)
(* One long-poll fetch of one partition against the coordinator's index,   *)
(* while the loop of IndexLoop.tla commits, replays and changes term       *)
(* underneath it.                                                          *)
(*   oqueue-broker/src/fetch/park.rs       read_or_park                    *)
(*   oqueue-broker/src/fetch/pass.rs       read_all, watermarks            *)
(*   oqueue-broker/src/fetch/partition.rs  resolve, one_partition          *)
(*   oqueue-broker/src/session.rs          catch_up                        *)
(*   oqueue-coordinator/src/subscribe.rs   wait_for, wait_past             *)
(* Every await of the handler is a step of its own, so the index may move  *)
(* between any two of them; both deadlines may fire whenever they are      *)
(* waited on. Records count for bytes.                                     *)
(***************************************************************************)
EXTENDS IndexLoop

CONSTANTS MaxReads,  \* MAX_READS_PER_REQUEST
          Targets    \* what min_bytes may ask for, in records

ASSUME FetchParkAssumption == MaxReads \in Nat \ {0} /\ Targets \subseteq Nat

VARIABLES
    rpc,     \* where the fetch is
    part,    \* the partition it names
    from,    \* the offset it asks for
    want,    \* the session's watermark, 0 for none
    target,  \* the records it wants before its deadline
    before,  \* the watermark sampled before the read
    seen,    \* the watch sampled before the read
    high,    \* the watermark resolve() found
    upto,    \* the offset its records run to
    reads,   \* passes made
    code     \* the answer: none, records, range, unavailable

fetchVars == <<rpc, part, from, want, target, before, seen, high, upto, reads, code>>

vars == <<loopVars, fetchVars>>

FetchInit ==
    /\ rpc = "off" /\ part \in Partition /\ from = 0 /\ want = 0 /\ target \in Targets
    /\ before = 0 /\ seen = 0 /\ high = 0 /\ upto = 0 /\ reads = 0 /\ code = "none"

(* A request. Its consumer's position is one the durable line has reached, *)
(* learnt from this node or another; its connection may hold the watermark *)
(* of any commit this node has acknowledged.                               *)
Request ==
    /\ rpc = "off"
    /\ from' \in 0 .. EndOffset(DOMAIN line, part)
    /\ want' \in {0} \cup acked
    /\ rpc' = "catchup"
    /\ UNCHANGED <<part, target, before, seen, high, upto, reads, code>>

(* Session::catch_up: the index already holds it, or the watch says so and *)
(* the index agrees when asked again, or the staleness budget runs out.    *)
CaughtUp ==
    /\ rpc = "catchup" /\ want <= applied
    /\ rpc' = "sample"
    /\ UNCHANGED <<part, from, want, target, before, seen, high, upto, reads, code>>

CatchUpWaits ==
    /\ rpc = "catchup" /\ want > applied
    /\ rpc' = "waitfor"
    /\ UNCHANGED <<part, from, want, target, before, seen, high, upto, reads, code>>

WaitForArrives ==
    /\ rpc = "waitfor" /\ published >= want
    /\ rpc' = IF want <= applied THEN "sample" ELSE "done"
    /\ code' = IF want <= applied THEN code ELSE "unavailable"
    /\ UNCHANGED <<part, from, want, target, before, seen, high, upto, reads>>

WaitForExpires ==
    /\ rpc = "waitfor"
    /\ rpc' = "done" /\ code' = "unavailable"
    /\ UNCHANGED <<part, from, want, target, before, seen, high, upto, reads>>

(* Both samples come before the read.                                      *)
SampleWatermark ==
    /\ rpc = "sample"
    /\ before' = EndOffset(index, part)
    /\ rpc' = "watch"
    /\ UNCHANGED <<part, from, want, target, seen, high, upto, reads, code>>

SampleWatch ==
    /\ rpc = "watch"
    /\ seen' = published
    /\ rpc' = "resolve"
    /\ UNCHANGED <<part, from, want, target, before, high, upto, reads, code>>

(* resolve: past the watermark is out of range, and worth answering.       *)
Resolve ==
    /\ rpc = "resolve"
    /\ high' = EndOffset(index, part)
    /\ reads' = reads + 1
    /\ rpc' = IF from > high' THEN "done" ELSE "read"
    /\ code' = IF from > high' THEN "range" ELSE code
    /\ UNCHANGED <<part, from, want, target, before, seen, upto>>

(* find_batches and the object reads.                                      *)
Read ==
    /\ rpc = "read"
    /\ upto' = Max({from, EndOffset(index, part)})
    /\ rpc' = "judge"
    /\ UNCHANGED <<part, from, want, target, before, seen, high, reads, code>>

Answered ==
    /\ rpc = "judge"
    /\ upto - from >= target \/ reads >= MaxReads
    /\ rpc' = "done" /\ code' = "records"
    /\ UNCHANGED <<part, from, want, target, before, seen, high, upto, reads>>

(* Mutant of Parks: the watch is sampled after the read.                   *)
ParksResampling ==
    /\ rpc = "judge"
    /\ upto - from < target /\ reads < MaxReads
    /\ seen' = published
    /\ rpc' = "parked"
    /\ UNCHANGED <<part, from, want, target, before, high, upto, reads, code>>

Parks ==
    /\ rpc = "judge"
    /\ upto - from < target /\ reads < MaxReads
    /\ rpc' = "parked"
    /\ UNCHANGED <<part, from, want, target, before, seen, high, upto, reads, code>>

(* wait_past: the watch is past the sample; then the watermark decides     *)
(* whether the wake-up was for this partition.                             *)
Wakes ==
    /\ rpc = "parked" /\ published > seen
    /\ seen' = published
    /\ rpc' = "compare"
    /\ UNCHANGED <<part, from, want, target, before, high, upto, reads, code>>

Compares ==
    /\ rpc = "compare"
    /\ rpc' = IF EndOffset(index, part) # before THEN "sample" ELSE "parked"
    /\ UNCHANGED <<part, from, want, target, before, seen, high, upto, reads, code>>

(* The client's deadline, looked at after a read and raced while parked.   *)
Expires ==
    /\ rpc \in {"judge", "parked"}
    /\ rpc' = "done" /\ code' = "records"
    /\ UNCHANGED <<part, from, want, target, before, seen, high, upto, reads>>

(* Everything but the deadlines: what the runtime runs as soon as it can.  *)
Handling ==
    \/ CaughtUp \/ CatchUpWaits \/ WaitForArrives \/ SampleWatermark \/ SampleWatch
    \/ Resolve \/ Read \/ Answered \/ Parks \/ Wakes \/ Compares

FetchNext == Request \/ Handling \/ WaitForExpires \/ Expires

FetchParkInit == Init /\ FetchInit

Next ==
    \/ LoopNext /\ UNCHANGED fetchVars
    \/ FetchNext /\ UNCHANGED loopVars

Spec == FetchParkInit /\ [][Next]_vars

(* Tokio polls a woken task again, so the loop's own steps and the         *)
(* handler's happen; no deadline, lease or request is promised.            *)
FairSpec ==
    /\ Spec
    /\ WF_vars(Serving /\ UNCHANGED fetchVars)
    /\ WF_vars(Handling /\ UNCHANGED loopVars)

-----------------------------------------------------------------------------
(* The type invariant; a fetch makes no more than MaxReads passes over the *)
(* object store, however often it is woken (read_or_park).                 *)
TypeOK ==
    /\ LoopTypeOK
    /\ rpc \in {"off", "catchup", "waitfor", "sample", "watch", "resolve", "read",
                "judge", "parked", "compare", "done"}
    /\ part \in Partition /\ target \in Targets
    /\ {from, want, before, seen, high, upto} \subseteq 0 .. MaxLine
    /\ reads \in 0 .. MaxReads
    /\ code \in {"none", "records", "range", "unavailable"}

(* The session's promise: records answered to a connection that holds an   *)
(* acknowledgement for this partition report a watermark above that        *)
(* record, whichever way the handler's awaits fell (catch_up).             *)
ReadsItsWrites ==
    code = "records" /\ want \in Commits(DOMAIN line, part)
        => high > OffsetOf(DOMAIN line, part, want)

(* No commit falls between the samples and the park: once the loop has     *)
(* told what it folded, a parked fetch whose partition has grown past what *)
(* it read is awake, and its wake-up will be taken for its own             *)
(* (read_or_park, "Both samples come before the read").                    *)
NoLostWakeup ==
    rpc = "parked" /\ published = applied /\ EndOffset(index, part) > upto
        => published > seen /\ EndOffset(index, part) # before

(* And so a parked fetch whose partition has grown reads again, or its     *)
(* client gives up, without a further commit having to nudge it; unless    *)
(* what it grew by came from a refold that then failed, of which the loop  *)
(* tells nobody.                                                           *)
GrowthIsRead ==
    rpc \in {"parked", "compare"} /\ EndOffset(index, part) > upto
        ~> \/ rpc \in {"sample", "done"}
           \/ pc = "idle" /\ published < applied /\ (term = 0 \/ term # replayed)

(* OFFSET_OUT_OF_RANGE sends a consumer to its auto.offset.reset, so it is *)
(* answered only for an offset the partition does not have: an index that  *)
(* has not caught up "is answered by a reader waiting out its deadline"    *)
(* (rebuild in serve.rs).                                                  *)
RangeHonest == code # "range"

(* The session's promise and the park's, in every state of the handler.    *)
FetchSound == TypeOK /\ ReadsItsWrites /\ NoLostWakeup
=============================================================================
