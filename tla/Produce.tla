------------------------------ MODULE Produce ------------------------------
(***************************************************************************)
(* The produce path: a request's partitions are checked and gathered into  *)
(* one bundle for each key domain, each bundle is named, PUT and committed *)
(* in turn, and every partition is answered from what its bundle got.      *)
(*   oqueue-broker/src/produce/{mod,answer}.rs, ingest.rs, flush.rs,       *)
(*   writer_id.rs; oqueue-core/src/bundle.rs, bundle_name.rs               *)
(* A partition's batch is a set of defects, of which verify reports the    *)
(* first. What the coordinator rejects of a bundle is left open, and so is *)
(* whether a PUT or a commit that failed took effect.                      *)
(***************************************************************************)
EXTENDS Naturals, Sequences, FiniteSets, SequencesExt

CONSTANTS
    Handler,       \* connections with a produce in hand
    Request,       \* requests a client may send
    DomainOf,      \* the key domain of each hosted partition's topic
    Sealing,       \* domains that require sealing
    MaxRequests, MaxRestarts

ASSUME ProduceAssumption == \A r \in Request : Len(r.entries) \in Nat

Hosted == DOMAIN DomainOf

VARIABLES
    put,        \* the bundles in the store: key to regions
    committed,  \* the metadata log: entries of a key and its spans
    namer,      \* the process's BundleNamer: its writer id and next sequence
    asked,      \* requests received, in order
    work,       \* each handler's request in progress
    seen,       \* the watermark each session has observed
    replies     \* what each answered request was told

produceVars == <<put, committed, namer, asked, work, seen, replies>>

Idle == [pc |-> "idle", nth |-> 0, slots |-> <<>>, bundles |-> <<>>, at |-> 1,
         key |-> <<0, 0>>, outcomes |-> <<>>]

ProduceInit ==
    /\ put = <<>> /\ committed = <<>> /\ asked = <<>>
    /\ namer = [writer |-> 1, next |-> 0]
    /\ work = [h \in Handler |-> Idle]
    /\ seen = [h \in Handler |-> 0]
    /\ replies = {}

Rejected(code) == [kind |-> "refused", code |-> code]

(* verify: the code of the first check a batch fails.                      *)
Checks == <<[defect |-> "magic",      code |-> "UNSUPPORTED_FOR_MESSAGE_FORMAT"],
            [defect |-> "length",     code |-> "INVALID_RECORD"],
            [defect |-> "crc",        code |-> "CORRUPT_MESSAGE"],
            [defect |-> "compressed", code |-> "UNSUPPORTED_COMPRESSION_TYPE"],
            [defect |-> "count",      code |-> "INVALID_RECORD"]>>
Verify(defects) ==
    LET failed == SelectSeq(Checks, LAMBDA c : c.defect \in defects)
    IN  IF failed = <<>> THEN "NONE" ELSE failed[1].code

(* admitted: the acknowledgement asked for, then the topic, then the       *)
(* principal's right to it.                                                *)
Admitted(request) ==
    IF request.acks \notin {"all", "none", "leader"} THEN "INVALID_REQUIRED_ACKS"
    ELSE IF ~request.known THEN "UNKNOWN_TOPIC_ID"
    ELSE IF ~request.authorized THEN "TOPIC_AUTHORIZATION_FAILED" ELSE "NONE"

(* Mutant of AlreadyPushed: a partition is taken twice in one request.     *)
AlreadyPushedNever(w, part) == FALSE

(* Pending::seen: whether the request brought this partition before.       *)
AlreadyPushed(w, part) ==
    \E i \in 1 .. Len(w.slots) : w.slots[i].kind # "refused" /\ w.slots[i].part = part

(* one_partition: what a partition of the request is turned away for.      *)
Turned(w, request, part) ==
    LET entry == request.entries[Len(w.slots) + 1]
    IN  IF Admitted(request) # "NONE" THEN Admitted(request)
        ELSE IF part \notin Hosted THEN "UNKNOWN_TOPIC_OR_PARTITION"
        ELSE IF Verify(entry.defects) # "NONE" THEN Verify(entry.defects)
        ELSE IF AlreadyPushed(w, part) THEN "INVALID_RECORD" ELSE "NONE"

(* Pending::push: the region joins its domain's bundle, opened on demand.  *)
BundleFor(w, domain) ==
    LET same == {b \in 1 .. Len(w.bundles) : w.bundles[b].domain = domain}
    IN  IF same = {} THEN Len(w.bundles) + 1 ELSE CHOOSE b \in same : TRUE
Pushed(w, part) ==
    LET b      == BundleFor(w, DomainOf[part])
        region == [part |-> part, batch |-> <<w.nth, Len(w.slots) + 1>>]
        open   == IF b > Len(w.bundles) THEN [domain |-> DomainOf[part], regions |-> <<>>]
                  ELSE w.bundles[b]
        filled == [domain |-> open.domain, regions |-> Append(open.regions, region)]
    IN  [w EXCEPT
           !.slots = Append(w.slots, [kind |-> "pushed", part |-> part, bundle |-> b,
                                      local |-> Len(filled.regions)]),
           !.bundles = IF b > Len(w.bundles) THEN Append(w.bundles, filled)
                       ELSE [w.bundles EXCEPT ![b] = filled]]

RequestOf(h) == asked[work[h].nth]

Receive(h, request) ==
    /\ work[h].pc = "idle" /\ Len(asked) < MaxRequests
    /\ asked' = Append(asked, request)
    /\ work' = [work EXCEPT ![h] = [Idle EXCEPT !.pc = "building", !.nth = Len(asked) + 1]]
    /\ UNCHANGED <<put, committed, namer, seen, replies>>

(* The next partition of the request; sealing a region may fail.           *)
Gather(h, sealed) ==
    LET w     == work[h]
        entry == RequestOf(h).entries[Len(w.slots) + 1]
        code  == Turned(w, RequestOf(h), entry.part)
    IN  /\ w.pc = "building" /\ Len(w.slots) < Len(RequestOf(h).entries)
        /\ ~sealed => code = "NONE" /\ DomainOf[entry.part] \in Sealing
        /\ work' = [work EXCEPT ![h] =
               IF code # "NONE" THEN [w EXCEPT !.slots = Append(@, Rejected(code))]
               ELSE IF ~sealed THEN [w EXCEPT !.slots = Append(@, Rejected("INVALID_REQUEST"))]
               ELSE Pushed(w, entry.part)]
        /\ UNCHANGED <<put, committed, namer, asked, seen, replies>>

(* flush: the next bundle is sealed and named.                             *)
NextKey(h) ==
    LET w == work[h]
    IN  /\ \/ w.pc = "building" /\ Len(w.slots) = Len(RequestOf(h).entries)
           \/ w.pc = "flushed"
        /\ w.at <= Len(w.bundles)
        /\ namer' = [namer EXCEPT !.next = @ + 1]
        /\ work' = [work EXCEPT ![h].pc = "putting", ![h].key = <<namer.writer, namer.next>>]
        /\ UNCHANGED <<put, committed, asked, seen, replies>>

Stored(h) == [k \in DOMAIN put \cup {work[h].key} |->
                 IF k = work[h].key THEN work[h].bundles[work[h].at].regions ELSE put[k]]

PutLands(h) ==
    /\ work[h].pc = "putting"
    /\ put' = Stored(h)
    /\ work' = [work EXCEPT ![h].pc = "committing"]
    /\ UNCHANGED <<committed, namer, asked, seen, replies>>

(* The first bundle to fail fails itself and the rest: what earlier ones   *)
(* were assigned stands (failed_outcomes).                                 *)
Failed(w, code) ==
    [w EXCEPT !.pc = "answering",
              !.outcomes = w.outcomes \o [i \in 1 .. Len(w.bundles) - Len(w.outcomes) |->
                  [j \in 1 .. Len(w.bundles[Len(w.outcomes) + i].regions) |-> Rejected(code)]]]

PutErrs(h, landed) ==
    /\ work[h].pc = "putting"
    /\ put' = IF landed THEN Stored(h) ELSE put
    /\ work' = [work EXCEPT ![h] = Failed(@, "NOT_ENOUGH_REPLICAS")]
    /\ UNCHANGED <<committed, namer, asked, seen, replies>>

(* The coordinator admits some of the spans, journals those, and assigns   *)
(* each the end its partition had (external: Sequencing.tla). An entry's   *)
(* spans are of different partitions, so their order says nothing.         *)
Spans(n) == UNION {{i} \X committed[i].spans : i \in 1 .. n}
EndBefore(part, n) == Cardinality({at \in Spans(n) : at[2].part = part})
EntryOf(h, admitted) ==
    LET w == work[h]
    IN  [key |-> w.key,
         spans |-> {r \in Range(w.bundles[w.at].regions) : r.part \in admitted}]
Journalled(h, admitted) ==
    committed' = IF admitted = {} THEN committed ELSE Append(committed, EntryOf(h, admitted))

BundleOutcome(region, admitted) ==
    IF region.part \in admitted
    THEN [kind |-> "assigned", offset |-> EndBefore(region.part, Len(committed))]
    ELSE Rejected("OUT_OF_ORDER_SEQUENCE_NUMBER")

CommitAcked(h, admitted) ==
    LET w    == work[h]
        held == w.bundles[w.at].regions
    IN  /\ w.pc = "committing"
        /\ admitted \subseteq {held[i].part : i \in 1 .. Len(held)}
        /\ Journalled(h, admitted)
        /\ seen' = IF admitted = {} THEN seen
                   ELSE [seen EXCEPT ![h] = Len(committed')]
        /\ work' = [work EXCEPT ![h] = [w EXCEPT !.pc = "flushed", !.at = @ + 1,
               !.outcomes = Append(@, [i \in 1 .. Len(held) |-> BundleOutcome(held[i], admitted)])]]
        /\ UNCHANGED <<put, namer, asked, replies>>

CommitErrs(h, landed) ==
    LET w    == work[h]
        held == w.bundles[w.at].regions
    IN  /\ w.pc = "committing"
        /\ IF landed THEN Journalled(h, {held[i].part : i \in 1 .. Len(held)})
           ELSE UNCHANGED committed
        /\ work' = [work EXCEPT ![h] = Failed(w, "LEADER_NOT_AVAILABLE")]
        /\ UNCHANGED <<put, namer, asked, seen, replies>>

(* Mutant of AnswerOf: outcomes are taken as the bundles were flushed, not *)
(* by the bundle and place the partition was pushed to.                    *)
AnswerOfInOrder(w, slot) ==
    IF slot.kind = "refused" THEN slot
    ELSE LET pushed == SelectSeq(w.slots, LAMBDA s : s.kind # "refused")
         IN  FlattenSeq(w.outcomes)[CHOOSE i \in DOMAIN pushed : pushed[i] = slot]

AnswerOf(w, slot) ==
    IF slot.kind = "refused" THEN slot ELSE w.outcomes[slot.bundle][slot.local]

(* answer, and nothing at all for a request that wants no answer.          *)
SendAnswers(h) ==
    LET w == work[h]
    IN  /\ \/ w.pc = "answering"
           \/ w.pc = "flushed" /\ w.at > Len(w.bundles)
           \/ /\ w.pc = "building" /\ Len(w.slots) = Len(RequestOf(h).entries)
              /\ w.bundles = <<>>
        /\ replies' = IF RequestOf(h).acks = "none" THEN replies
                      ELSE replies \cup {[nth |-> w.nth, by |-> h, answers |->
                             [i \in 1 .. Len(w.slots) |-> AnswerOf(w, w.slots[i])]]}
        /\ work' = [work EXCEPT ![h] = Idle]
        /\ UNCHANGED <<put, committed, namer, asked, seen>>

(* Mutant of MintWriter: a process comes back under the id it had.         *)
MintWriterAgain(writer) == writer

(* WriterId::mint.                                                         *)
MintWriter(writer) == writer + 1

(* The process stops and starts: its requests and sessions go, and a new   *)
(* writer id begins its names again at zero.                               *)
RestartBroker ==
    /\ namer.writer <= MaxRestarts
    /\ namer' = [writer |-> MintWriter(namer.writer), next |-> 0]
    /\ work' = [h \in Handler |-> Idle]
    /\ seen' = [h \in Handler |-> 0]
    /\ UNCHANGED <<put, committed, asked, replies>>

ProduceNext ==
    \/ \E h \in Handler, r \in Request : Receive(h, r)
    \/ \E h \in Handler, b \in BOOLEAN : Gather(h, b) \/ PutErrs(h, b) \/ CommitErrs(h, b)
    \/ \E h \in Handler : NextKey(h) \/ PutLands(h) \/ SendAnswers(h)
    \/ \E h \in Handler, admitted \in SUBSET Hosted : CommitAcked(h, admitted)
    \/ RestartBroker

ProduceSpec == ProduceInit /\ [][ProduceNext]_produceVars

-----------------------------------------------------------------------------
(* Where a batch stands in the log: the entries and spans that carry it.   *)
Places(batch) == {at \in Spans(Len(committed)) : at[2].batch = batch}

(* A producer is told the truth of each partition of its request, however  *)
(* the bundles of one request fare: an offset is where its batch, and no   *)
(* other, is committed; a refusal for the batch's or the request's sake    *)
(* (all but the two codes that say "try again") means it is committed      *)
(* nowhere; and no batch is committed twice by one request.                *)
Retriable == {"NOT_ENOUGH_REPLICAS", "LEADER_NOT_AVAILABLE"}
AnswersHold ==
    \A r \in replies : \A i \in 1 .. Len(r.answers) :
        LET places == Places(<<r.nth, i>>)
            entry  == asked[r.nth].entries[i]
        IN  /\ Cardinality(places) <= 1
            /\ r.answers[i].kind = "assigned" =>
                   \E at \in places :
                       /\ at[2].part = entry.part
                       /\ r.answers[i].offset = EndBefore(entry.part, at[1] - 1)
            /\ r.answers[i].kind = "refused" /\ r.answers[i].code \notin Retriable =>
                   places = {}

(* Whatever the log names is in the store, and each span of it is the      *)
(* region the object holds for that partition: the only one, since a       *)
(* reader refuses an object with two (region.rs).                          *)
CommittedStored ==
    \A i \in 1 .. Len(committed) : \A span \in committed[i].spans :
        /\ committed[i].key \in DOMAIN put
        /\ LET held == put[committed[i].key]
           IN  \E j \in DOMAIN held :
                   /\ held[j] = span
                   /\ \A k \in DOMAIN held : held[k].part = span.part => k = j

(* ADR-0037: a key names one object for ever, across restarts.             *)
NamesOneObject == [][\A k \in DOMAIN put : k \in DOMAIN put' /\ put'[k] = put[k]]_put

(* session.observe: a connection that was given an offset and is still     *)
(* served by the same process reads no view older than that commit.        *)
SessionSees ==
    \A h \in Handler : \A b \in 1 .. Len(work[h].outcomes) :
        \A j \in 1 .. Len(work[h].outcomes[b]) :
            work[h].outcomes[b][j].kind = "assigned" =>
                \A at \in Places(work[h].bundles[b].regions[j].batch) : seen[h] >= at[1]

(* The two together: what is committed can be read, by its producer first. *)
CommitsReadable == CommittedStored /\ SessionSees
=============================================================================
