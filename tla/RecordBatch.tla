---------------------------- MODULE RecordBatch ----------------------------
(***************************************************************************)
(* A Kafka record batch from the producer that seals it to the consumer    *)
(* that reads it: verify at ingest, which counts the records without       *)
(* reading them, and the stamping of the base offset when it is served.    *)
(*   oqueue-codec/src/{batch,records,varint,wire,attributes}.rs,           *)
(*   records/count.rs; oqueue-broker/src/ingest.rs, read.rs                *)
(* A batch is a sequence of cells: one for each header field, one for each *)
(* byte of a record, and one digit of a varint, with the continuation bit  *)
(* as RADIX. The stored CRC is what it was computed over; the timestamps   *)
(* of the header, which nothing here reads, are left out.                  *)
(***************************************************************************)
EXTENDS Integers, Sequences

CONSTANTS
    RADIX,       \* a varint's digits, 128 in the code
    MAX_VARINT,  \* and how many it may have
    WIDTH,       \* the values of the integer read, 2^32 in the code
    Values,      \* the lengths of a record's value, -1 for null
    Cell,        \* what a cell may be changed to
    MaxRecords

ASSUME BatchAssumption ==
    /\ RADIX \in Nat \ {0, 1} /\ MAX_VARINT \in Nat \ {0} /\ WIDTH \in Nat \ {0}
    /\ Values \subseteq {-1} \cup Nat /\ Cell \subseteq Int /\ MaxRecords \in Nat

VARIABLES
    sealed,   \* the records and the producer the client was asked to send
    batch,    \* the cells and the stored CRC
    fault,    \* what became of them on the way: none, or where
    verdict,  \* what verify answered
    served    \* the batch as a fetch returned it

batchVars == <<sealed, batch, fault, verdict, served>>

(* The cells of the header, in the order they are written.                 *)
MAGIC_V2 == 2
BATCH_HEADER_LEN == 10
LENGTH_END == 2
CRC_COVERAGE_START == 5
MIN_RECORD_BODY_LEN == 6

-----------------------------------------------------------------------------
(* varint.rs: put_unsigned_varint, and zigzag in front of it.              *)
RECURSIVE PutUnsigned(_)
PutUnsigned(n) ==
    IF n < RADIX THEN <<n>> ELSE <<RADIX + (n % RADIX)>> \o PutUnsigned(n \div RADIX)
PutVarint(n) == PutUnsigned(IF n >= 0 THEN 2 * n ELSE -2 * n - 1)

(* read_varint: <<value, the position after it>>, or <<0, 0>> when the     *)
(* cells run out or no digit of the first MAX_VARINT is the last.          *)
NoVarint == <<0, 0>>
RECURSIVE Digits(_, _, _)
Digits(cells, at, n) ==
    IF n = 1 THEN cells[at] % RADIX
    ELSE (cells[at] % RADIX) + RADIX * Digits(cells, at + 1, n - 1)
ZigZag(raw) == IF raw % 2 = 0 THEN raw \div 2 ELSE -((raw + 1) \div 2)
ReadVarint(cells, at) ==
    LET ends == {n \in 1 .. MAX_VARINT : at + n - 1 <= Len(cells) /\ cells[at + n - 1] < RADIX}
        n    == CHOOSE k \in ends : \A j \in ends : k <= j
    IN  IF at = 0 \/ ends = {} THEN NoVarint
        ELSE <<ZigZag(Digits(cells, at, n) % WIDTH), at + n>>

-----------------------------------------------------------------------------
(* A client's record and batch (external).                                 *)
PutSized(n) == PutVarint(n) \o [i \in 1 .. IF n > 0 THEN n ELSE 0 |-> 0]
RecordBody(i, n) == <<0>> \o PutVarint(0) \o PutVarint(i - 1) \o PutSized(-1)
                       \o PutSized(n) \o PutVarint(0)
EncodeRecord(i, n) == PutVarint(Len(RecordBody(i, n))) \o RecordBody(i, n)
RECURSIVE EncodeRecords(_, _)
EncodeRecords(values, i) ==
    IF i > Len(values) THEN <<>>
    ELSE EncodeRecord(i, values[i]) \o EncodeRecords(values, i + 1)

EncodeBatchHeader(records, count, producer) ==
    <<0, BATCH_HEADER_LEN - LENGTH_END + Len(records), -1, MAGIC_V2,
      0, count - 1, producer, IF producer = -1 THEN -1 ELSE 0, 0, count>>

Coverage(cells) == SubSeq(cells, CRC_COVERAGE_START, Len(cells))
SealBatch(values, producer) ==
    LET records == EncodeRecords(values, 1)
        cells   == EncodeBatchHeader(records, Len(values), producer) \o records
    IN  [cells |-> cells, crc |-> Coverage(cells)]

Verdict(code, records, producer) ==
    [code |-> code, records |-> records, producer |-> producer]

BatchInit ==
    /\ \E n \in 0 .. MaxRecords : \E values \in [1 .. n -> Values], producer \in {-1, 1} :
          /\ sealed = [values |-> values, producer |-> producer]
          /\ batch = SealBatch(values, producer)
    /\ fault = "none" /\ verdict = Verdict("pending", 0, "none") /\ served = <<>>

-----------------------------------------------------------------------------
(* decode_batch_header: the magic is looked at before what follows it.     *)
DecodeBatchHeader(cells) ==
    CASE Len(cells) < 4 -> [is |-> "CORRUPT_MESSAGE"]
      [] Len(cells) >= 4 /\ cells[4] # MAGIC_V2 -> [is |-> "UNSUPPORTED_FOR_MESSAGE_FORMAT"]
      [] Len(cells) >= 4 /\ cells[4] = MAGIC_V2 /\ Len(cells) < BATCH_HEADER_LEN ->
             [is |-> "CORRUPT_MESSAGE"]
      [] OTHER -> [is |-> "header", base_offset |-> cells[1], batch_length |-> cells[2],
                   partition_leader_epoch |-> cells[3], compression |-> cells[5] % 8,
                   last_offset_delta |-> cells[6], producer_id |-> cells[7],
                   producer_epoch |-> cells[8], base_sequence |-> cells[9],
                   record_count |-> cells[10]]

(* crc_coverage: up to the declared end, <<>> when that is out of bounds.  *)
CrcCoverage(b) ==
    LET end == b.cells[2] + LENGTH_END
    IN  IF end > Len(b.cells) \/ end < BATCH_HEADER_LEN THEN <<>>
        ELSE SubSeq(b.cells, CRC_COVERAGE_START, end)

(* count_records: by their length prefixes alone; -1 for an error.         *)
RECURSIVE CountFrom(_, _)
CountFrom(cells, at) ==
    LET length == ReadVarint(cells, at)
        next   == length[2] + length[1]
        rest   == CountFrom(cells, next)
    IN  IF at = Len(cells) + 1 THEN 0
        ELSE IF length = NoVarint \/ length[1] < MIN_RECORD_BODY_LEN \/ next > Len(cells) + 1
        THEN -1
        ELSE IF rest = -1 THEN -1 ELSE rest + 1
CountRecords(b) ==
    CountFrom(CrcCoverage(b), BATCH_HEADER_LEN - CRC_COVERAGE_START + 2)

(* producer_identity: -1 is no producer; an id or an epoch below 0 is none *)
(* there can be.                                                           *)
Identity(header) ==
    IF header.producer_id = -1 THEN "none"
    ELSE IF header.producer_id < 0 \/ header.producer_epoch < 0 THEN "refused" ELSE "producer"

(* Mutant of DeclaredWhole: what follows the declared end is let be.       *)
DeclaredWithin(header, cells) == header.batch_length + LENGTH_END <= Len(cells)

(* The declared length is all there is of the batch.                       *)
DeclaredWhole(header, cells) == header.batch_length + LENGTH_END = Len(cells)

(* verify: the code a batch is refused with, or its count and producer.    *)
VerifyBatch(b) ==
    LET header  == DecodeBatchHeader(b.cells)
        counted == CountRecords(b)
        bad(code) == Verdict(code, 0, "none")
    IN  IF header.is # "header" THEN bad(header.is)
        ELSE IF ~DeclaredWhole(header, b.cells) THEN bad("INVALID_RECORD")
        ELSE IF CrcCoverage(b) # b.crc THEN bad("CORRUPT_MESSAGE")
        ELSE IF header.compression # 0 THEN bad("UNSUPPORTED_COMPRESSION_TYPE")
        ELSE IF counted < 1 \/ header.record_count # counted
                \/ header.last_offset_delta # counted - 1 \/ Identity(header) = "refused"
        THEN bad("INVALID_RECORD")
        ELSE Verdict("NONE", counted, Identity(header))

(* rewrite_base_offset.                                                    *)
RewriteBaseOffset(b, base, epoch) ==
    [b EXCEPT !.cells = [@ EXCEPT ![1] = base, ![3] = epoch]]

-----------------------------------------------------------------------------
(* A cell changed before the CRC was computed over it, by the producer; or *)
(* after, on the way, with the batch cut short or lengthened too.          *)
Miswritten(i, cell) ==
    /\ verdict.code = "pending" /\ fault = "none" /\ cell # batch.cells[i]
    /\ LET cells == [batch.cells EXCEPT ![i] = cell]
       IN  batch' = [cells |-> cells, crc |-> Coverage(cells)]
    /\ fault' = "producer"
    /\ UNCHANGED <<sealed, verdict, served>>

Mangled(cells) ==
    /\ verdict.code = "pending" /\ fault = "none" /\ cells # batch.cells
    /\ batch' = [batch EXCEPT !.cells = cells]
    /\ fault' = "transit"
    /\ UNCHANGED <<sealed, verdict, served>>

Ingest ==
    /\ verdict.code = "pending"
    /\ verdict' = VerifyBatch(batch)
    /\ UNCHANGED <<sealed, batch, fault, served>>

(* read_inner: what is stored is stamped with where it landed.             *)
ServeBatch(base) ==
    /\ verdict.code = "NONE" /\ served = <<>>
    /\ served' = <<base, RewriteBaseOffset(batch, base, 0)>>
    /\ UNCHANGED <<sealed, batch, fault, verdict>>

BatchNext ==
    \/ \E i \in 1 .. Len(batch.cells), cell \in Cell :
          /\ i > BATCH_HEADER_LEN => cell >= 0
          /\ \/ Miswritten(i, cell)
             \/ Mangled([batch.cells EXCEPT ![i] = cell])
    \/ \E n \in 0 .. Len(batch.cells) - 1 : Mangled(SubSeq(batch.cells, 1, n))
    \/ \E cell \in Cell : Mangled(Append(batch.cells, cell))
    \/ Ingest
    \/ \E base \in 1 .. 2 : ServeBatch(base)

BatchSpec == BatchInit /\ [][BatchNext]_batchVars

-----------------------------------------------------------------------------
(* iter_records, as a consumer reads what it was served: the position      *)
(* after a sized field and after a record's headers, 0 for an error.       *)
AfterSized(cells, at) ==
    LET length == ReadVarint(cells, at)
        next   == length[2] + (IF length[1] = -1 THEN 0 ELSE length[1])
    IN  IF length = NoVarint \/ length[1] < -1 \/ next > Len(cells) + 1 THEN 0 ELSE next
RECURSIVE AfterHeaders(_, _, _)
AfterHeaders(cells, at, n) ==
    IF n = 0 \/ at = 0 THEN at
    ELSE IF ReadVarint(cells, at)[1] = -1 THEN 0
    ELSE AfterHeaders(cells, AfterSized(cells, AfterSized(cells, at)), n - 1)

(* read_one_record: its fields fill the length it declares.                *)
ReadsRecord(body) ==
    LET deltas  == ReadVarint(body, ReadVarint(body, 2)[2])
        value   == AfterSized(body, AfterSized(body, deltas[2]))
        headers == ReadVarint(body, value)
    IN  /\ headers # NoVarint /\ headers[1] >= 0
        /\ AfterHeaders(body, headers[2], headers[1]) = Len(body) + 1

(* The records read before the first that is not one.                      *)
RECURSIVE RecordsFrom(_, _)
RecordsFrom(cells, at) ==
    LET length == ReadVarint(cells, at)
        next   == length[2] + length[1]
    IN  IF at > Len(cells) \/ length = NoVarint \/ length[1] < 0 \/ next > Len(cells) + 1
        THEN 0
        ELSE IF ~ReadsRecord(SubSeq(cells, length[2], next - 1)) THEN 0
        ELSE 1 + RecordsFrom(cells, next)
IterRecords(b) == RecordsFrom(b.cells, BATCH_HEADER_LEN + 1)

-----------------------------------------------------------------------------
(* What verify (ingest.rs) lets in can be served as it is: a batch nothing *)
(* happened to is let in with the records and the producer it was sealed   *)
(* with, unless it has none; one changed on the way is let in only if the  *)
(* change is in the two fields that are overwritten when it is served; the *)
(* count the log assigns offsets by is the header's, and is what a reader  *)
(* of the records finds unless the producer wrote one that is none; and    *)
(* the CRC a consumer checks still holds after rewrite_base_offset.        *)
BatchesServed ==
    verdict.code # "pending" =>
        /\ fault = "none" =>
              IF sealed.values = <<>> THEN verdict.code = "INVALID_RECORD"
              ELSE /\ verdict.code = "NONE" /\ verdict.records = Len(sealed.values)
                   /\ verdict.producer = IF sealed.producer = -1 THEN "none" ELSE "producer"
        /\ verdict.code = "NONE" =>
              /\ fault = "transit" =>
                    Coverage(batch.cells) = Coverage(SealBatch(sealed.values, sealed.producer).cells)
              /\ fault # "producer" => IterRecords(batch) = verdict.records
              /\ IterRecords(batch) <= verdict.records
              /\ batch.cells[10] = verdict.records
              /\ served # <<>> =>
                    /\ VerifyBatch(served[2]) = verdict
                    /\ DecodeBatchHeader(served[2].cells).base_offset = served[1]
                    /\ IterRecords(served[2]) = IterRecords(batch)
=============================================================================
