---------------------------- MODULE BundleFormat ----------------------------
(* The bundled object: BundleBuilder and BundleStream lay regions one      *)
(* behind the other and write a footer behind them, encode_footer;         *)
(* parse_footer finds the footer in however much of the object's tail it   *)
(* was given and refuses one that does not tile the payload.  An object    *)
(* may come back damaged: one cell changed, or its end missing.            *)
(* A cell stands for a byte or for a fixed-width number.                   *)
EXTENDS Integers, FiniteSetsExt, SequencesExt

CONSTANTS
    TopicName,      \* names of topic partitions, each a sequence of cells
    MAX_NAME,       \* MAX_TOPIC_NAME_LEN
    Lengths,        \* sizes of the records pushed
    KEY,            \* the key identifier's cells
    MaxRegions      \* bound: regions of one object

VARIABLES
    build,      \* how the object is written, the payload's own length, its regions
    object,     \* the cells stored, and what is committed for them
    damage      \* what became of it

bundleVars == <<build, object, damage>>

TRAILER_LEN == 3
VERSION == 1
Missing == <<>>

BundleInit ==
    /\ build \in [by : {"put", "stream", "sealed_stream"}, payload : {0}, written : {0},
                  regions : {<<>>}, producers : {<<>>}, state : {"open"}]
    /\ object = [cells |-> Missing, spans |-> <<>>, regions |-> <<>>]
    /\ damage = "none"

-----------------------------------------------------------------------------
Region(topic, offset, length, count, env) ==
    [topic |-> topic, offset |-> offset, length |-> length, count |-> count, envelope |-> env]

Admissible(topic, count, length) == Len(topic) <= MAX_NAME /\ count > 0 /\ length > 0

(* Mutant of At: a streamed region's offset is that of the builder's own   *)
(* payload, which a stream never fills.                                    *)
AtPayload(b) == b.payload

(* Where the next region starts: what the builder holds (push,             *)
(* push_sealed), or what the stream has written (push_streamed).           *)
At(b) == IF b.by = "stream" THEN b.written ELSE b.payload

(* A put bundle takes plain and sealed regions; a compaction's stream      *)
(* takes one or the other, as its key domain says.                         *)
Seals(b) == IF b.by = "put" THEN {FALSE, TRUE} ELSE {b.by = "sealed_stream"}

PushRegion(topic, length, count, sealed, producer) ==
    /\ build.state = "open" /\ Len(build.regions) < MaxRegions
    /\ Admissible(topic, count, length) /\ sealed \in Seals(build)
    /\ build' = [build EXCEPT
           !.regions = Append(@, Region(topic, At(build), length, count,
                                        IF sealed THEN <<KEY, length>> ELSE Missing)),
           !.producers = Append(@, producer),
           !.payload = IF build.by = "stream" THEN @ ELSE @ + length,
           !.written = @ + length]
    /\ UNCHANGED <<object, damage>>

(* encode_footer and encode_envelope.                                      *)
EncodeEnvelope(region) ==
    IF region.envelope = Missing THEN <<0>>
    ELSE <<1, Len(KEY)>> \o KEY \o <<1, region.envelope[2], 9>>

EncodeRegion(region) ==
    <<Len(region.topic)>> \o region.topic \o <<region.count, region.offset, region.length>>
        \o EncodeEnvelope(region)

EncodeFooter(regions) ==
    LET footer == FlattenSeq([i \in DOMAIN regions |-> EncodeRegion(regions[i])])
    IN  footer \o <<Len(regions), VERSION, Len(footer)>>

(* Payload cells carry the number of their region.                         *)
Payload(regions) ==
    FlattenSeq([i \in DOMAIN regions |-> [k \in 1 .. regions[i].length |-> i]])

(* seal, into_footer: the footer goes behind the payload, and each region  *)
(* is a span to commit, with its producer.                                 *)
Seal ==
    /\ build.state = "open" /\ build.regions # <<>>
    /\ build' = [build EXCEPT !.state = "sealed"]
    /\ object' = [cells |-> Payload(build.regions) \o EncodeFooter(build.regions),
                  regions |-> build.regions,
                  spans |-> [i \in DOMAIN build.regions |->
                                [at |-> build.regions[i].offset, length |-> build.regions[i].length,
                                 producer |-> build.producers[i]]]]
    /\ UNCHANGED damage

(* The stored object comes back changed in one cell, or cut short.         *)
Damage(i, cell) ==
    /\ build.state = "sealed" /\ damage = "none" /\ object.cells[i] # cell
    /\ object' = [object EXCEPT !.cells[i] = cell]
    /\ damage' = "changed"
    /\ UNCHANGED build

CutShort(n) ==
    /\ build.state = "sealed" /\ damage = "none"
    /\ object' = [object EXCEPT !.cells = SubSeq(@, 1, n)]
    /\ damage' = "cut"
    /\ UNCHANGED build

-----------------------------------------------------------------------------
Malformed == [is |-> "malformed"]
TooShort(needed, size) ==
    IF size < needed THEN Malformed ELSE [is |-> "too_short", needed |-> needed]

(* Cursor: a take past the end is refused; a cursor that failed stays so.  *)
Take(cur, n) ==
    IF cur.ok /\ n >= 0 /\ cur.at + n <= Len(cur.cells)
    THEN [cur EXCEPT !.at = @ + n, !.got = SubSeq(cur.cells, cur.at + 1, cur.at + n)]
    ELSE [cur EXCEPT !.ok = FALSE]

One(cur) == IF cur.ok THEN cur.got[1] ELSE 0

ParseEnvelope(cur) ==
    LET klen == Take(cur, 1)
        key == Take(klen, One(klen))
        wlen == Take(key, 1)
        wrapped == IF One(wlen) = 0 THEN [wlen EXCEPT !.ok = FALSE] ELSE Take(wlen, One(wlen))
    IN  [cur |-> Take(wrapped, 1), envelope |-> <<key.got, One(wrapped)>>]

ParseRegion(cur) ==
    LET nlen == Take(cur, 1)
        name == Take(nlen, One(nlen))
        nums == Take(name, 3)
        alg == Take(nums, 1)
        env == IF alg.ok /\ One(alg) = 0 THEN [cur |-> alg, envelope |-> Missing]
               ELSE IF alg.ok /\ One(alg) = 1 THEN ParseEnvelope(alg)
               ELSE [cur |-> [alg EXCEPT !.ok = FALSE], envelope |-> Missing]
        good == env.cur.ok /\ name.got # <<>> /\ nums.got[3] > 0
    IN  IF good
        THEN [env.cur EXCEPT !.regions = Append(@, Region(name.got, nums.got[2], nums.got[3],
                                                          nums.got[1], env.envelope))]
        ELSE [env.cur EXCEPT !.ok = FALSE]

(* check_regions: each starts where the one before it ended, the last ends *)
(* where the payload does.                                                 *)
CheckRegions(regions, payload) ==
    /\ \A i \in DOMAIN regions :
           /\ regions[i].count > 0
           /\ regions[i].offset = IF i = 1 THEN 0
                                  ELSE regions[i - 1].offset + regions[i - 1].length
    /\ Last(regions).offset + Last(regions).length = payload

ParseFooter(tail, size) ==
    IF Len(tail) < TRAILER_LEN THEN TooShort(TRAILER_LEN, size)
    ELSE LET at == Len(tail) - TRAILER_LEN
             count == tail[at + 1]
             flen == tail[at + 3]
             start == [cells |-> SubSeq(tail, at - flen + 1, at), at |-> 0, ok |-> TRUE,
                       got |-> <<>>, regions |-> <<>>]
             end == FoldLeft(LAMBDA cur, i : ParseRegion(cur), start, [i \in 1 .. count |-> i])
         IN  IF tail[at + 2] # VERSION \/ count = 0 THEN Malformed
             ELSE IF flen > at THEN TooShort(flen + TRAILER_LEN, size)
             ELSE IF /\ end.ok /\ end.at = Len(end.cells)
                     /\ size >= flen + TRAILER_LEN
                     /\ CheckRegions(end.regions, size - flen - TRAILER_LEN)
                  THEN [is |-> "regions", regions |-> end.regions]
                  ELSE Malformed

LastCells(cells, n) == SubSeq(cells, Len(cells) - n + 1, Len(cells))

BundleNext ==
    \/ \E topic \in TopicName, length \in Lengths, count \in 0 .. 1, sealed \in BOOLEAN,
          producer \in {0, 1} : PushRegion(topic, length, count, sealed, producer)
    \/ Seal
    \/ \E i \in DOMAIN object.cells, cell \in 0 .. 3 : Damage(i, cell)
    \/ \E n \in 0 .. Len(object.cells) - 1 : CutShort(n)

BundleSpec == BundleInit /\ [][BundleNext]_bundleVars

-----------------------------------------------------------------------------
(* However little of a whole object's tail is read, parsing it gives back  *)
(* exactly the regions that were pushed, or asks for more of the object    *)
(* than was read and no more than there is; and each region is where the   *)
(* span committed for it says, and holds its own records.                  *)
TailsSuffice ==
    build.state = "sealed" /\ damage = "none" =>
        LET size == Len(object.cells)
        IN  /\ \A n \in 0 .. size :
                   LET got == ParseFooter(LastCells(object.cells, n), size)
                   IN  \/ got.is = "regions" /\ got.regions = object.regions
                       \/ got.is = "too_short" /\ got.needed > n /\ got.needed <= size
            /\ \A i \in DOMAIN object.spans :
                   LET span == object.spans[i]
                   IN  SubSeq(object.cells, span.at + 1, span.at + span.length)
                           = [k \in 1 .. span.length |-> i]

(* A damaged object that still parses gives each of its payload's bytes to *)
(* exactly one region: no batch is served short, and none holds another's. *)
DamageTiles ==
    build.state = "sealed" =>
        LET size == Len(object.cells)
            got == ParseFooter(object.cells, size)
        IN  got.is = "regions" =>
                LET footer == object.cells[size]
                    covers(k) == {i \in DOMAIN got.regions :
                        /\ got.regions[i].offset < k
                        /\ k <= got.regions[i].offset + got.regions[i].length}
                IN  \A k \in 1 .. size - footer - TRAILER_LEN : Cardinality(covers(k)) = 1

(* The two together: a tail is enough to read a bundle, and a damaged      *)
(* bundle is never read as another.                                        *)
BundlesRead == TailsSuffice /\ DamageTiles
=============================================================================
