---------------------------- MODULE StoreAdapter ----------------------------
(* oqueue-store: what S3Store, GcsStore and the in-memory FakeObjectStore  *)
(* make of the ObjectStore trait.  A put goes up as one request or in      *)
(* parts, a bundle is streamed in parts of BUNDLE_PART_BYTES, a read asks  *)
(* for a range, a listing walks pages.  Requests of several clients meet   *)
(* in the store one attempt at a time, and an attempt may fail, or land    *)
(* and have its answer lost.  Payloads are their sizes; a token names the  *)
(* generation it was handed out for and the field it was read from.        *)
EXTENDS Integers, FiniteSets, SequencesExt

CONSTANTS
    Kinds,          \* the backends: among "s3", "gcs" and "memory"
    LimitsOf,       \* [kind -> MultipartLimits]
    Client,
    Keys,           \* 1 .. n, in the byte order of the names
    Jobs,           \* the requests clients make
    BUNDLE_PART_BYTES,
    FOOTER,         \* size of the footer a stream ends with
    MAX_ATTEMPTS,   \* RetryPolicy.max_bounded_attempts
    MaxFaults       \* bound: attempts that fail or lose their answer

VARIABLES
    kind,       \* the backend in use
    slots,      \* the objects: [live, generation, size]
    job,        \* each client's request
    tokens,     \* the tokens handed out with an Ok, and for what
    deleted,    \* the keys ever deleted
    reads,      \* the bytes reads were answered
    asks,       \* requests still to be made
    faults

adapterVars == <<kind, slots, job, tokens, deleted, reads, asks, faults>>

NoJob == [pc |-> "idle", what |-> "none", key |-> 1, size |-> 0, pre |-> <<"none", 0>>,
          parts |-> <<>>, sent |-> <<>>, tries |-> 0, buffer |-> 0, push |-> <<>>,
          start |-> 0, limit |-> 0, found |-> <<>>, began |-> {}, out |-> "none"]

StoreInit ==
    /\ kind \in Kinds
    /\ slots = [k \in Keys |-> [live |-> FALSE, generation |-> 0, size |-> 0]]
    /\ job = [c \in Client |-> NoJob]
    /\ tokens = {} /\ deleted = {} /\ reads = {}
    /\ asks \in Jobs
    /\ faults = 0

Limits == LimitsOf[kind]
TotalOf(parts) == FoldLeft(LAMBDA a, b : a + b, 0, parts)
Live == {k \in Keys : slots[k].live}
Ends(c, out) == job' = [job EXCEPT ![c].pc = "idle", ![c].out = out]
Fault == faults < MaxFaults /\ faults' = faults + 1

-----------------------------------------------------------------------------
(* MultipartSession::add_part, then put_strategy_for: the parts a payload  *)
(* goes up in (one for a single request), or why it is refused.            *)
AddPart(parts, bytes) ==
    IF bytes > Limits.max_part THEN "PartTooLarge"
    ELSE IF Len(parts) + 1 > Limits.max_parts THEN "TooManyParts"
    ELSE IF TotalOf(parts) + bytes > Limits.max_object THEN "ObjectTooLarge" ELSE "ok"

Chunks(size) ==
    LET n == (size + Limits.max_part - 1) \div Limits.max_part
    IN  [i \in 1 .. n |-> IF i < n THEN Limits.max_part ELSE size - (n - 1) * Limits.max_part]

PutStrategy(size, pre) ==
    IF pre[1] # "none"
    THEN IF size <= Limits.max_single THEN <<size>> ELSE <<>>
    ELSE IF size <= Limits.max_part THEN <<size>>
    ELSE LET chunks == Chunks(size)
         IN  IF \A i \in 1 .. Len(chunks) : AddPart(SubSeq(chunks, 1, i - 1), chunks[i]) = "ok"
             THEN chunks ELSE <<>>

-----------------------------------------------------------------------------
(* Mutant of TokenOf: every backend's ETag.                                *)
TokenOfETag(generation) == <<"etag", generation>>

(* The token of a whole-payload put, and put_options_for: the field each   *)
(* backend compares.                                                       *)
TokenOf(generation) == <<IF kind = "s3" THEN "etag" ELSE "version", generation>>

Compares(slot) == <<IF kind = "s3" THEN "etag" ELSE "version", slot.generation>>

(* The token StreamingWriter::finish returns: the ETag, on both backends.  *)
StreamToken(generation) ==
    IF kind = "memory" THEN TokenOf(generation) ELSE <<"etag", generation>>

Holds(pre, slot) ==
    CASE pre[1] = "none"   -> TRUE
      [] pre[1] = "absent" -> ~slot.live
      [] OTHER             -> slot.live /\ pre = Compares(slot)

(* A write reaches the store; deleting keeps the generation count.         *)
WritesKey(k, size) ==
    slots' = [slots EXCEPT ![k] = [live |-> TRUE, generation |-> @.generation + 1, size |-> size]]

Tokens(j, token, size) ==
    tokens' = tokens \cup {[key |-> j.key, what |-> j.what, asked |-> size, token |-> token,
                            generation |-> slots'[j.key].generation,
                            stored |-> slots'[j.key].size]}

Begins(c, ask) ==
    job' = [job EXCEPT ![c] = [NoJob EXCEPT
        !.what = ask.what, !.key = ask.key, !.size = ask.size, !.start = ask.start,
        !.limit = ask.limit, !.push = ask.push, !.out = "none", !.began = Live,
        !.pre = IF ask.pre = "mine" THEN \* the token of the newest write
                    LET newest == {t \in tokens : t.key = ask.key /\ t.what = "put" /\
                                      \A u \in tokens : u.key = t.key => u.generation <= t.generation}
                    IN  IF newest = {} THEN <<"absent", 0>> ELSE (CHOOSE t \in newest : TRUE).token
                ELSE <<ask.pre, 0>>,
        !.pc = ask.what]]

StartJob(c) ==
    /\ job[c].pc = "idle" /\ asks # <<>>
    /\ Begins(c, Head(asks))
    /\ asks' = Tail(asks)
    /\ UNCHANGED <<kind, slots, tokens, deleted, reads, faults>>

-----------------------------------------------------------------------------
(* put: refused, one request, or a multipart upload opened.                *)
PutRefused(c) ==
    /\ job[c].pc = "put" /\ PutStrategy(job[c].size, job[c].pre) = <<>>
    /\ Ends(c, "Permanent")
    /\ UNCHANGED <<kind, slots, tokens, deleted, reads, asks, faults>>

OpensUpload(c) ==
    LET parts == PutStrategy(job[c].size, job[c].pre)
    IN  /\ job[c].pc = "put" /\ Len(parts) > 1
        /\ job' = [job EXCEPT ![c].pc = "parts", ![c].parts = parts]
        /\ UNCHANGED <<kind, slots, tokens, deleted, reads, asks, faults>>

Single(c) == job[c].pc = "put" /\ Len(PutStrategy(job[c].size, job[c].pre)) = 1

PutOnce(c) ==
    LET j == job[c]
    IN  /\ Single(c) /\ Holds(j.pre, slots[j.key])
        /\ WritesKey(j.key, j.size)
        /\ Tokens(j, TokenOf(slots'[j.key].generation), j.size)
        /\ Ends(c, "Ok")
        /\ UNCHANGED <<kind, deleted, reads, asks, faults>>

PutFailsIt(c) ==
    /\ Single(c) /\ ~Holds(job[c].pre, slots[job[c].key])
    /\ Ends(c, "PreconditionFailed")
    /\ UNCHANGED <<kind, slots, tokens, deleted, reads, asks, faults>>

(* An attempt whose answer never comes, landed or not: retry_config_for    *)
(* makes it max_bounded_attempts in all, and then it is Transient.         *)
Attempts == IF kind = "memory" THEN 1 ELSE MAX_ATTEMPTS

Attempted(c) ==
    IF job[c].tries + 1 < Attempts THEN job' = [job EXCEPT ![c].tries = @ + 1]
    ELSE Ends(c, "Transient")

PutLost(c, lands) ==
    LET j == job[c]
    IN  /\ Single(c) /\ Fault
        /\ lands => Holds(j.pre, slots[j.key])
        /\ IF lands THEN WritesKey(j.key, j.size) ELSE UNCHANGED slots
        /\ Attempted(c)
        /\ UNCHANGED <<kind, tokens, deleted, reads, asks>>

-----------------------------------------------------------------------------
(* put_multipart and the streaming writers: parts, then complete.          *)
PutPart(c) ==
    LET j == job[c]
    IN  /\ j.pc = "parts" /\ j.parts # <<>>
        /\ job' = [job EXCEPT ![c].sent = Append(@, Head(j.parts)), ![c].parts = Tail(@)]
        /\ UNCHANGED <<kind, slots, tokens, deleted, reads, asks, faults>>

(* BundleStream::push: a part whenever one is full.                        *)
PushPart(c) ==
    LET j == job[c]
    IN  /\ j.pc = "stream" /\ j.buffer < BUNDLE_PART_BYTES /\ j.push # <<>>
        /\ job' = [job EXCEPT ![c].buffer = @ + Head(j.push), ![c].push = Tail(@)]
        /\ UNCHANGED <<kind, slots, tokens, deleted, reads, asks, faults>>

(* StreamingWriter::write_part; an error ends the stream.                  *)
WritePart(c, bytes, rest, then) ==
    LET j == job[c] IN
    /\ IF kind = "memory" \/ AddPart(j.sent, bytes) = "ok"
       THEN job' = [job EXCEPT ![c].sent = Append(@, bytes), ![c].buffer = rest, ![c].pc = then]
       ELSE Ends(c, AddPart(j.sent, bytes))
    /\ UNCHANGED <<kind, slots, tokens, deleted, reads, asks, faults>>

WriteFull(c) ==
    /\ job[c].pc = "stream" /\ job[c].buffer >= BUNDLE_PART_BYTES
    /\ WritePart(c, BUNDLE_PART_BYTES, job[c].buffer - BUNDLE_PART_BYTES, "stream")

(* BundleStream::finish: what is left and the footer are the last part.    *)
WriteFooter(c) ==
    /\ job[c].pc = "stream" /\ job[c].buffer < BUNDLE_PART_BYTES /\ job[c].push = <<>>
    /\ WritePart(c, job[c].buffer + FOOTER, 0, "parts")

(* complete: the object appears whole, and unconditionally.                *)
Completes(c) ==
    LET j == job[c]
    IN  /\ j.pc = "parts" /\ j.parts = <<>>
        /\ WritesKey(j.key, TotalOf(j.sent))
        /\ Tokens(j, IF j.what = "stream" THEN StreamToken(slots'[j.key].generation)
                     ELSE TokenOf(slots'[j.key].generation),
                  IF j.what = "stream" THEN j.size + FOOTER ELSE j.size)
        /\ Ends(c, "Ok")
        /\ UNCHANGED <<kind, deleted, reads, asks, faults>>

(* A part or the completion fails: abort, and the error is returned.  The  *)
(* completion may have landed.                                             *)
UploadFails(c, lands) ==
    /\ job[c].pc \in {"parts", "stream"} /\ Fault
    /\ lands => job[c].pc = "parts" /\ job[c].parts = <<>>
    /\ IF lands THEN WritesKey(job[c].key, TotalOf(job[c].sent)) ELSE UNCHANGED slots
    /\ Ends(c, "Transient")
    /\ UNCHANGED <<kind, tokens, deleted, reads, asks>>

-----------------------------------------------------------------------------
(* get of a range: the backend truncates at the end of the object, and     *)
(* refuses a start past it with an error that says no more than Transient. *)
Requested(j) == <<j.start, j.start + j.size>>
Truncated(j, slot) == <<j.start, IF j.start + j.size < slot.size THEN j.start + j.size ELSE slot.size>>

TruncatedError(requested, actual) == actual # requested

GetServed(c) ==
    LET j == job[c]
        slot == slots[j.key]
        actual == Truncated(j, slot)
    IN  /\ j.pc = "get" /\ slot.live /\ (kind # "memory" => j.start < slot.size)
        /\ IF TruncatedError(Requested(j), actual)
           THEN /\ Ends(c, "ByteRangeOutOfBounds") /\ UNCHANGED reads
           ELSE /\ Ends(c, "Ok")
                /\ reads' = reads \cup {[asked |-> Requested(j), got |-> actual]}
        /\ UNCHANGED <<kind, slots, tokens, deleted, asks, faults>>

GetMissing(c) ==
    /\ job[c].pc = "get" /\ ~slots[job[c].key].live
    /\ Ends(c, "ObjectNotFound")
    /\ UNCHANGED <<kind, slots, tokens, deleted, reads, asks, faults>>

GetTransient(c) ==
    LET slot == slots[job[c].key]
    IN  /\ job[c].pc = "get"
        /\ IF kind # "memory" /\ slot.live /\ job[c].start >= slot.size
           THEN UNCHANGED faults ELSE Fault
        /\ IF kind = "memory" THEN Ends(c, "Transient") ELSE job' = [job EXCEPT ![c].pc = "head"]
        /\ UNCHANGED <<kind, slots, tokens, deleted, reads, asks>>

(* disambiguate_failed_ranged_get: only a HEAD that shows the range to end *)
(* past the object changes the answer.                                     *)
HeadServed(c) ==
    LET j == job[c]
    IN  /\ j.pc = "head"
        /\ Ends(c, IF slots[j.key].live /\ j.start + j.size > slots[j.key].size
                   THEN "ByteRangeOutOfBounds" ELSE "Transient")
        /\ UNCHANGED <<kind, slots, tokens, deleted, reads, asks, faults>>

-----------------------------------------------------------------------------
(* delete: key after key; a failure leaves the ones before it deleted.     *)
DeletesOne(c) ==
    LET j == job[c]
    IN  /\ j.pc = "delete"
        /\ slots' = [slots EXCEPT ![j.key].live = FALSE]
        /\ deleted' = deleted \cup {j.key}
        /\ IF j.key + 1 \in Keys /\ j.size > 1
           THEN job' = [job EXCEPT ![c].key = @ + 1, ![c].size = @ - 1]
           ELSE Ends(c, "Ok")
        /\ UNCHANGED <<kind, tokens, reads, asks, faults>>

DeleteStops(c) ==
    /\ job[c].pc = "delete" /\ Fault
    /\ Ends(c, "Transient")
    /\ UNCHANGED <<kind, slots, tokens, deleted, reads, asks>>

(* list_keys: page after page while more is wanted and the backend says    *)
(* there is more.  A page may be shorter than was asked for.               *)
PageStarts(j) == IF j.found = <<>> THEN j.start ELSE Last(j.found)

Listed(j, found, more) == Len(found) >= j.limit \/ ~more

ListPage(c, n) ==
    LET j     == job[c]
        after == {k \in Live : k > PageStarts(j)}
        page  == SubSeq(SortSeq(SetToSeq(after), <), 1, n)
        found == j.found \o page
        more  == n < Cardinality(after)
    IN  /\ j.pc = "list" /\ n <= Cardinality(after) /\ n <= j.limit - Len(j.found)
        /\ n = 0 => after = {}
        /\ IF Listed(j, found, more)
           THEN job' = [job EXCEPT ![c].pc = "idle", ![c].out = "Ok", ![c].found = found]
           ELSE job' = [job EXCEPT ![c].found = found]
        /\ UNCHANGED <<kind, slots, tokens, deleted, reads, asks, faults>>

StoreNext ==
    \E c \in Client :
        \/ StartJob(c) \/ PutRefused(c) \/ OpensUpload(c) \/ PutOnce(c) \/ PutFailsIt(c)
        \/ PutPart(c) \/ PushPart(c) \/ WriteFull(c) \/ WriteFooter(c) \/ Completes(c)
        \/ GetServed(c) \/ GetMissing(c) \/ GetTransient(c) \/ HeadServed(c)
        \/ DeletesOne(c) \/ DeleteStops(c)
        \/ \E lands \in BOOLEAN : PutLost(c, lands) \/ UploadFails(c, lands)
        \/ \E n \in 0 .. Cardinality(Keys) : ListPage(c, n)

StoreSpec == StoreInit /\ [][StoreNext]_adapterVars

-----------------------------------------------------------------------------
(* An Ok is honest: a write acknowledged was stored whole, every part of   *)
(* it, and a read answered has exactly the bytes of the range it asked.    *)
StoreHonest ==
    /\ \A t \in tokens : t.stored = t.asked
    /\ \A r \in reads : r.got = r.asked

(* The token an acknowledged whole-payload put returned is good for a      *)
(* conditional write for as long as nobody has written the key since, and  *)
(* for no other generation.                                                *)
TokensMatch ==
    \A t \in tokens : t.what = "put" =>
        \A k \in Keys : k = t.key =>
            (Holds(t.token, slots[k]) <=> slots[k].live /\ slots[k].generation = t.generation)

(* A listing has no holes: a key that was there before it began and was    *)
(* never deleted is in it, unless it lies past the last key of a listing   *)
(* filled to its limit.  Callers go on from the last key they were given,  *)
(* so a hole would never be visited.                                       *)
ListingsWhole ==
    \A c \in Client : LET j == job[c] IN
        j.what = "list" /\ j.out = "Ok" =>
            \A k \in j.began \ deleted :
                k > j.start /\ (Len(j.found) < j.limit \/ k < Last(j.found)) => k \in ToSet(j.found)

(* The three together: what an adapter says of a write, of a token and of  *)
(* a listing is so, on every backend.                                      *)
AdapterHonest == StoreHonest /\ TokensMatch /\ ListingsWhole
=============================================================================
