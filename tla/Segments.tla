------------------------------ MODULE Segments ------------------------------
(* The bytes of one segment of the metadata log (metadata_segment.rs) and  *)
(* of the group log (group_segment.rs): what one process writes and        *)
(* another, later, reads back, whole or not.  Every integer field is one   *)
(* byte of B values, the upper half of them negative where it is signed; a *)
(* magic is one byte too.  A record is a tuple of its name and fields.     *)
EXTENDS Integers, Sequences, SequencesExt

CONSTANTS
    B,          \* values of a byte, and of a length field
    Samples,    \* [format, entries]: the segments some append carries
    MaxDamage   \* bound: bytes changed, lost or added on the way

MAGIC == [meta |-> B - 1, group |-> B - 2]
FORMAT == 1
Refused == -1

VARIABLES
    sample,     \* the segment written
    bytes,      \* what the object holds when it is read
    damages

segVars == <<sample, bytes, damages>>

-----------------------------------------------------------------------------
(* Encoding: a piece that does not fit its field is Refused.               *)

PutInt(v) == <<v % B>>

PutLen(n) == IF n < B THEN <<n>> ELSE <<Refused>>

PutStr(s) == PutLen(Len(s)) \o s

PutAll(Put(_), list) == FlattenSeq([i \in DOMAIN list |-> Put(list[i])])

PutList(Put(_), list) == PutLen(Len(list)) \o PutAll(Put, list)

(* A value that may be absent, as a sequence of none or of its fields.     *)
PutOption(fields) == IF fields = <<>> THEN <<0>> ELSE <<1>> \o PutAll(PutInt, fields)

PutPartition(p) == PutStr(p[1]) \o PutInt(p[2])

PutRef(r) == PutStr(r[1]) \o PutInt(r[2]) \o PutInt(r[3])

EncodeSpan(s) == PutPartition(s[1]) \o PutInt(s[2]) \o PutOption(s[3]) \o PutOption(s[4])

EncodeRecord(r) ==
    CASE r[1] = "batch" -> <<1>> \o PutStr(r[2]) \o PutInt(r[3]) \o PutList(EncodeSpan, r[4])
      [] r[1] = "manifest" -> <<2>> \o PutPartition(r[2]) \o PutStr(r[3]) \o PutInt(r[4])
      [] r[1] = "compacted" -> <<3>> \o PutPartition(r[2]) \o PutList(PutRef, r[3]) \o PutList(PutRef, r[4])
      [] r[1] = "trimmed" -> <<4>> \o PutPartition(r[2]) \o PutInt(r[3])
      [] r[1] = "epoch" -> <<5>> \o PutInt(r[2])
      [] r[1] = "retention" -> <<6>> \o PutStr(r[2]) \o PutOption(r[3])

Event == <<"Join", "JoinBarrierComplete", "SyncComplete", "MemberJoinedDuringSync",
           "MemberLeft", "AllMembersGone", "Expire">>

PutRoster(roster) ==
    IF roster = <<>> THEN <<0>>
    ELSE <<1>> \o PutStr(roster[1]) \o PutStr(roster[2]) \o PutList(PutStr, roster[3])

EncodeGroupRecord(r) ==
    CASE r[1] = "offset" -> <<1>> \o PutStr(r[2]) \o PutStr(r[3]) \o PutInt(r[4]) \o PutInt(r[5])
      [] r[1] = "transition" -> <<2>> \o PutStr(r[2]) \o <<CHOOSE t \in DOMAIN Event : Event[t] = r[3]>>
      [] r[1] = "roster" -> <<3>> \o PutStr(r[2]) \o PutRoster(r[3])

(* encode_segment and group_segment::encode; an entry is its version and   *)
(* its record.                                                             *)
Encode(format, entries) ==
    LET PutEntry(e) == PutInt(e[1]) \o (IF format = "meta" THEN EncodeRecord(e[2]) ELSE EncodeGroupRecord(e[2]))
        out == <<MAGIC[format], FORMAT>> \o PutList(PutEntry, entries)
    IN  IF Contains(out, Refused) THEN <<Refused>> ELSE out

-----------------------------------------------------------------------------
(* Decoding: a cursor moves over the bytes and collects what it read, or   *)
(* is malformed and reads nothing more.                                    *)

CursorAt(b) == [bytes |-> b, at |-> 1, ok |-> TRUE, got |-> <<>>]

Malformed(c) == [c EXCEPT !.ok = FALSE]

Collect(c, n, value) == [c EXCEPT !.at = @ + n, !.got = Append(@, value)]

HasRoom(c, n) == c.ok /\ c.at + n - 1 <= Len(c.bytes)

Byte(c) == IF HasRoom(c, 1) THEN Collect(c, 1, c.bytes[c.at]) ELSE Malformed(c)

Signed(c) ==
    IF HasRoom(c, 1)
    THEN Collect(c, 1, IF c.bytes[c.at] < B \div 2 THEN c.bytes[c.at] ELSE c.bytes[c.at] - B)
    ELSE Malformed(c)

(* Offset, PartitionId, Timestamp, ProducerId and ProducerEpoch refuse a   *)
(* negative value.                                                         *)
Natural(c) ==
    LET d == Signed(c) IN IF d.ok => Last(d.got) >= 0 THEN d ELSE Malformed(c)

Text(c) ==
    IF HasRoom(c, 1) /\ HasRoom(c, 1 + c.bytes[c.at])
    THEN Collect(c, 1 + c.bytes[c.at], SubSeq(c.bytes, c.at + 1, c.at + c.bytes[c.at]))
    ELSE Malformed(c)

(* ObjectKey, TopicId and GroupId refuse the empty string.                 *)
Name(c) ==
    LET d == Text(c) IN IF d.ok => Last(d.got) /= <<>> THEN d ELSE Malformed(c)

(* What Read collects, as one value.                                       *)
Whole(Read(_), c) ==
    LET d == Read([c EXCEPT !.got = <<>>]) IN [d EXCEPT !.got = Append(c.got, d.got)]

Times(Read(_), n, c) ==
    LET after[i \in 0 .. n] ==
            IF i = 0 THEN c
            ELSE LET d == after[i - 1] IN IF d.ok THEN Read(d) ELSE d
    IN  after[n]

Several(Read(_), c) ==
    LET n == Byte(c)
        Rest(d) == Times(Read, Last(n.got), d)
    IN  IF n.ok THEN Whole(Rest, [n EXCEPT !.got = c.got]) ELSE n

Option(Read(_), c) ==
    LET mark == Byte(c)
        Nothing(d) == d
    IN  IF ~ mark.ok THEN mark
        ELSE IF Last(mark.got) = 0 THEN Whole(Nothing, [mark EXCEPT !.got = c.got])
        ELSE IF Last(mark.got) = 1 THEN Whole(Read, [mark EXCEPT !.got = c.got])
        ELSE Malformed(mark)

Partition(c) == LET Both(d) == Natural(Name(d)) IN Whole(Both, c)

(* ByteRange::bounded refuses a length of 0.                               *)
Bounded(c) ==
    LET d == Byte(Byte(c)) IN IF d.ok => Last(d.got) > 0 THEN d ELSE Malformed(c)

DecodeSpan(c) ==
    LET Producer(d) == Signed(Natural(Natural(d)))
        Span(d) == Option(Producer, Option(Bounded, Byte(Partition(d))))
    IN  Whole(Span, c)

Refs(c) ==
    LET Ref(d) == Byte(Natural(Name(d)))
        One(d) == Whole(Ref, d)
    IN  Several(One, c)

(* decode_record: the tag chooses the reader, and leads the tuple.         *)
DecodeRecord(c) ==
    LET tag == Byte(c)
        d == [tag EXCEPT !.got = <<>>]
        As(name, e) == [e EXCEPT !.got = Append(c.got, <<name>> \o @)]
    IN  IF ~ tag.ok THEN tag
        ELSE CASE Last(tag.got) = 1 -> As("batch", Several(DecodeSpan, Natural(Name(d))))
               [] Last(tag.got) = 2 -> As("manifest", Natural(Name(Partition(d))))
               [] Last(tag.got) = 3 -> As("compacted", Refs(Refs(Partition(d))))
               [] Last(tag.got) = 4 -> As("trimmed", Natural(Partition(d)))
               [] Last(tag.got) = 5 -> As("epoch", Byte(d))
               [] Last(tag.got) = 6 -> As("retention", Option(Signed, Name(d)))
               [] OTHER -> Malformed(tag)

Roster(c) ==
    LET Members(d) == Several(Text, Text(Text(d))) IN Option(Members, c)

EventFrom(c) ==
    LET tag == Byte(c)
    IN  IF tag.ok /\ Last(tag.got) \in DOMAIN Event
        THEN [tag EXCEPT !.got = Append(c.got, Event[Last(tag.got)])]
        ELSE Malformed(tag)

DecodeGroupRecord(c) ==
    LET tag == Byte(c)
        d == [tag EXCEPT !.got = <<>>]
        As(name, e) == [e EXCEPT !.got = Append(c.got, <<name>> \o @)]
    IN  IF ~ tag.ok THEN tag
        ELSE CASE Last(tag.got) = 1 -> As("offset", Signed(Signed(Name(Name(d)))))
               [] Last(tag.got) = 2 -> As("transition", EventFrom(Name(d)))
               [] Last(tag.got) = 3 -> As("roster", Roster(Name(d)))
               [] OTHER -> Malformed(tag)

(* Mutant of Consumed: what follows the last entry is left unread.         *)
ConsumedOrNot(c) == TRUE

Consumed(c) == c.at = Len(c.bytes) + 1

(* decode_segment and group_segment::decode.                               *)
Decode(format, b) ==
    LET Pair(c) == IF format = "meta" THEN DecodeRecord(Byte(c)) ELSE DecodeGroupRecord(Byte(c))
        One(c) == Whole(Pair, c)
        head == Byte(Byte(CursorAt(b)))
        all == Several(One, head)
        fine == head.ok /\ head.got = <<MAGIC[format], FORMAT>> /\ all.ok /\ Consumed(all)
    IN  [ok |-> fine, entries |-> IF fine THEN all.got[3] ELSE <<>>]

-----------------------------------------------------------------------------
SegInit ==
    /\ sample \in Samples
    /\ bytes = Encode(sample.format, sample.entries)
    /\ damages = 0

Stored == bytes /= <<Refused>> /\ damages < MaxDamage /\ damages' = damages + 1 /\ UNCHANGED sample

Changed == Stored /\ \E i \in DOMAIN bytes, v \in 0 .. B - 1 : bytes' = [bytes EXCEPT ![i] = v]

Cut == Stored /\ \E n \in 0 .. Len(bytes) - 1 : bytes' = SubSeq(bytes, 1, n)

Lengthened == Stored /\ \E v \in 0 .. B - 1 : bytes' = Append(bytes, v)

SegNext == Changed \/ Cut \/ Lengthened

SegSpec == SegInit /\ [][SegNext]_segVars

-----------------------------------------------------------------------------
(* A segment that was written decodes to the entries it was written from,  *)
(* every optional field either way and a string at the limit of its length *)
(* field included; and the decoder never guesses: bytes it accepts are     *)
(* exactly those its own reading would be written as, so a cut, extended   *)
(* or altered segment is refused or is another well-formed one.            *)
SegmentsExact ==
    LET read == Decode(sample.format, bytes)
    IN  bytes /= <<Refused>> =>
            /\ damages = 0 => read = [ok |-> TRUE, entries |-> sample.entries]
            /\ read.ok => Encode(sample.format, read.entries) = bytes
=============================================================================
