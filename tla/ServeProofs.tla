----------------------------- MODULE ServeProofs -----------------------------
(***************************************************************************)
(* What a client may rely on, for every number of clients, partitions,     *)
(* readers, chunks, epochs and writes:                                     *)
(*   - a session's read from a cache takes in what the session wrote, on   *)
(*     whichever coordinator (Consumer.tla);                               *)
(*   - a reader that joined a chunk's fetch sleeps only while somebody is  *)
(*     still to wake it (ChunkReads.tla);                                  *)
(*   - a fetch reports a watermark above what its session was acknowledged *)
(*     and loses no wake-up to the commit that lands between its read and  *)
(*     its park (FetchPark.tla);                                           *)
(*   - one pass of a fetch asks the store for no more than its budget, a   *)
(*     batch and its failures, and moves on where there is something to    *)
(*     read (FetchRead.tla);                                               *)
(*   - on its connection answers reach the wire in the order of the        *)
(*     requests with none left out, a request acts for the principal it    *)
(*     was charged to, and the quota counts exactly the requests that run  *)
(*     (Connection.tla).                                                   *)
(***************************************************************************)
EXTENDS FetchPark, FetchRead, IndexLoopProofs, Consumer, ChunkReads, Connection, FiniteSetTheorems

-----------------------------------------------------------------------------
(* The session and the cache. SessionServed speaks of the answer alone; it *)
(* is kept because the watermark, the cache and the shard agree on where   *)
(* an epoch's versions begin whenever they are of one epoch, although no   *)
(* two of them learn of a new epoch together.                              *)
SessionType ==
    /\ shard \in [epoch : Nat, version : Nat, base : Nat, start : Nat]
    /\ cache \in [epoch : Nat, applied : Nat \cup {None}, base : Nat, silent : Nat]
    /\ mark \in [epoch : Nat, version : Nat, end : Nat]
    /\ served \in [by : {"cache", "latest"}, saw : Nat, wrote : Nat]
    /\ own \in Nat

OneLine ==
    /\ cache.epoch <= shard.epoch /\ mark.epoch <= shard.epoch
    /\ cache.epoch = shard.epoch => cache.base = shard.base
    /\ mark.epoch = shard.epoch => mark.end = shard.base + mark.version
    /\ mark.epoch = cache.epoch => mark.end = cache.base + mark.version
    /\ mark.end <= EndOf(shard)

SessionInv == SessionType /\ OneLine /\ SessionServed

(* CacheState::admits lets an AtLeast read through only from a cache of    *)
(* the watermark's own epoch that has applied the watermark's version.     *)
LEMMA AdmittedHolds ==
    ASSUME SessionType, AdmitsRead("AtLeast") = "Ok"
    PROVE  /\ mark.epoch = cache.epoch
           /\ cache.applied # None /\ cache.applied >= mark.version
BY DEF AdmitsRead

(* ConsInit establishes the invariant.                                     *)
LEMMA SessionStarts == ConsInit => SessionInv
BY DEF ConsInit, SessionInv, SessionType, OneLine, SessionServed, EndOf, None

(* A read from the cache keeps the invariant: the case the property is     *)
(* about.                                                                  *)
LEMMA ReadCachedKeeps ==
    ASSUME SessionInv, NEW mode \in ReadModes, ReadCached(mode)
    PROVE  SessionInv'
<1>1. SessionType'
  BY DEF SessionInv, SessionType, ReadCached, None
<1>2. OneLine'
  BY DEF SessionInv, OneLine, ReadCached, EndOf
<1>3. CASE mode = "AtLeast"
  <2>1. /\ mark.epoch = cache.epoch
        /\ cache.applied # None /\ cache.applied >= mark.version
    BY <1>3, AdmittedHolds DEF SessionInv, ReadCached
  <2>2. SessionServed'
    BY <1>3, <2>1 DEF SessionInv, SessionType, OneLine, SessionServed, ReadCached, None
  <2> QED
    BY <1>1, <1>2, <2>2 DEF SessionInv
<1>4. CASE mode # "AtLeast"
  BY <1>1, <1>2, <1>4 DEF SessionInv, SessionType, SessionServed, ReadCached, None
<1> QED
  BY <1>3, <1>4

(* Every step keeps the invariant.                                         *)
LEMMA ConsNextKeeps ==
    ASSUME SessionInv, [ConsNext]_consVars
    PROVE  SessionInv'
<1> USE DEF SessionInv, SessionType, OneLine, SessionServed, EndOf, None
<1>1. CASE Write
  BY <1>1 DEF Write
<1>2. CASE WriteByOthers
  BY <1>2 DEF WriteByOthers
<1>3. CASE RaiseStart
  BY <1>3 DEF RaiseStart
<1>4. CASE Rebalance
  <2>0. shard.epoch + 1 \in Nat /\ shard.base + shard.version \in Nat
    OBVIOUS
  <2>1. /\ shard' \in [epoch : Nat, version : Nat, base : Nat, start : Nat]
        /\ shard'.epoch = shard.epoch + 1 /\ shard'.version = 0
        /\ shard'.base = shard.base + shard.version
    BY <1>4, <2>0 DEF Rebalance
  <2> QED
    BY <1>4, <2>1 DEF Rebalance
<1>5. CASE LearnEpoch
  BY <1>5 DEF LearnEpoch
<1>6. CASE Pushed
  <2>1. (IF cache.applied = None THEN 1 ELSE cache.applied + 1) \in Nat
    OBVIOUS
  <2>2. /\ cache' \in [epoch : Nat, applied : Nat \cup {None}, base : Nat, silent : Nat]
        /\ cache'.epoch = cache.epoch /\ cache'.base = cache.base
    BY <1>6, <2>1 DEF Pushed
  <2> QED
    BY <1>6, <2>2 DEF Pushed
<1>7. CASE Silence
  BY <1>7 DEF Silence
<1>8. CASE Rebuilt
  BY <1>8 DEF Rebuilt
<1>9. CASE \E mode \in ReadModes : ReadCached(mode)
  BY <1>9, ReadCachedKeeps
<1>10. CASE FetchRecord
  BY <1>10 DEF FetchRecord
<1>11. CASE FetchRefused
  BY <1>11 DEF FetchRefused
<1>12. CASE \E policy \in Policies : ListOffsets(policy)
  BY <1>12 DEF ListOffsets, Latest
<1>13. CASE UNCHANGED consVars
  BY <1>13 DEF consVars
<1>14. CASE OwnFolds
  BY <1>14 DEF OwnFolds
<1>15. CASE OwnEmptied
  BY <1>15 DEF OwnEmptied
<1> QED
  BY <1>1, <1>2, <1>3, <1>4, <1>5, <1>6, <1>7, <1>8, <1>9, <1>10, <1>11, <1>12, <1>13,
     <1>14, <1>15
     DEF ConsNext

(* Whatever a session is served from a cache takes in all the session had  *)
(* written (CacheState::admits), through any number of rebalances.         *)
THEOREM SessionSafety == ConsSpec => []SessionServed
<1>1. SessionInv => SessionServed
  BY DEF SessionInv
<1> QED
  BY SessionStarts, ConsNextKeeps, <1>1, PTL DEF ConsSpec

-----------------------------------------------------------------------------
(* The readers of one chunk. A sleeper's waker is on a cell; that somebody *)
(* takes it from there needs an unresolved cell to have a leader, and only *)
(* one, whichever of the three steps of publishing that leader has done.   *)
Led(l, i) == reader[l].pc \in {"lead", "publish"} /\ reader[l].cell = i

Results == {"none", "Ok", "error", "Transient"}

CellState == [result : Results, wakers : SUBSET Reader]

ReaderState ==
    [pc : {"away", "join", "lead", "publish", "waking"}, cell : Nat,
     chunk : Chunk \cup {"none"}, result : Results, wake : SUBSET Reader]

ChunkType ==
    /\ cells \in Seq(CellState)
    /\ reader \in [Reader -> ReaderState]
    /\ registry \in [Chunk -> Nat]
    /\ woken \subseteq Reader

CellsKnown ==
    /\ \A k \in Chunk : registry[k] \in 0 .. Len(cells)
    /\ \A r \in Reader : reader[r].pc \in {"join", "lead", "publish"} =>
           reader[r].cell \in 1 .. Len(cells)
    /\ \A r \in Reader : reader[r].pc = "publish" => reader[r].result # "none"

(* A cell has a leader exactly while it has no result, and one only.       *)
CellsLed ==
    /\ \A l, m \in Reader : Led(l, reader[m].cell) /\ Led(m, reader[m].cell) => l = m
    /\ \A i \in 1 .. Len(cells) : cells[i].result = "none" => \E l \in Reader : Led(l, i)

SleepersHeard ==
    \A r \in Reader : reader[r].pc = "join" /\ r \notin woken =>
        \/ cells[reader[r].cell].result = "none" /\ r \in cells[reader[r].cell].wakers
        \/ \E l \in Reader : reader[l].pc = "waking" /\ r \in reader[l].wake

ChunkInv == ChunkType /\ CellsKnown /\ CellsLed /\ SleepersHeard

(* What a reader is when it goes away.                                     *)
LEMMA AwayIs ==
    /\ Away \in ReaderState
    /\ Away.pc = "away"
BY DEF Away, ReaderState, Results

(* ChunkInit establishes the invariant.                                    *)
LEMMA ChunkStarts == ChunkInit => ChunkInv
<1> SUFFICES ASSUME ChunkInit PROVE ChunkInv
  OBVIOUS
<1>1. ChunkType
  BY AwayIs DEF ChunkInit, ChunkType
<1>2. \A r \in Reader : reader[r].pc = "away"
  BY AwayIs DEF ChunkInit
<1> QED
  BY <1>1, <1>2 DEF ChunkInit, ChunkInv, CellsKnown, CellsLed, SleepersHeard, Led

LEMMA JoinsFlightKeeps ==
    ASSUME ChunkInv, NEW r \in Reader, NEW k \in Chunk, JoinsFlight(r, k)
    PROVE  ChunkInv'
<1> DEFINE v == [Away EXCEPT !.pc = "join", !.cell = registry[k], !.chunk = k]
<1>1. /\ v \in ReaderState
      /\ v.pc = "join" /\ v.cell = registry[k] /\ v.wake = {}
  BY DEF Away, ReaderState, Results, ChunkInv, ChunkType
<1>2. reader' = [reader EXCEPT ![r] = v] /\ woken' = woken \cup {r}
      /\ UNCHANGED <<registry, cells>> /\ registry[k] # 0 /\ reader[r].pc = "away"
  BY DEF JoinsFlight
<1> HIDE DEF v
<1>3. ChunkType'
  BY <1>1, <1>2 DEF ChunkInv, ChunkType
<1>4. CellsKnown'
  BY <1>1, <1>2 DEF ChunkInv, ChunkType, CellsKnown
<1>5. CellsLed'
  BY <1>1, <1>2 DEF ChunkInv, ChunkType, CellsLed, Led
<1>6. SleepersHeard'
  BY <1>1, <1>2 DEF ChunkInv, ChunkType, SleepersHeard
<1> QED
  BY <1>3, <1>4, <1>5, <1>6 DEF ChunkInv

LEMMA LeadsFlightKeeps ==
    ASSUME ChunkInv, NEW r \in Reader, NEW k \in Chunk, LeadsFlight(r, k)
    PROVE  ChunkInv'
<1> DEFINE i == Len(cells) + 1
           v == [Away EXCEPT !.pc = "lead", !.cell = i, !.chunk = k]
           c == [result |-> "none", wakers |-> {}]
<1>0. i \in Nat /\ c \in CellState
  BY DEF ChunkInv, ChunkType, CellState, Results
<1>1. /\ v \in ReaderState
      /\ v.pc = "lead" /\ v.cell = i /\ v.wake = {}
  BY <1>0 DEF Away, ReaderState, Results
<1>2. /\ reader' = [reader EXCEPT ![r] = v] /\ UNCHANGED woken
      /\ registry' = [registry EXCEPT ![k] = i]
      /\ cells' = Append(cells, c) /\ reader[r].pc = "away"
  BY DEF LeadsFlight
<1>3. /\ cells' \in Seq(CellState)
      /\ Len(cells') = i /\ i = Len(cells) + 1 /\ Len(cells) \in Nat
      /\ \A j \in 1 .. Len(cells) : cells'[j] = cells[j]
      /\ cells'[i] = c
  BY <1>0, <1>2 DEF ChunkInv, ChunkType
<1> HIDE DEF v, c, i
<1>4. ChunkType'
  BY <1>0, <1>1, <1>2, <1>3 DEF ChunkInv, ChunkType
<1>5. CellsKnown'
  BY <1>1, <1>2, <1>3 DEF ChunkInv, ChunkType, CellsKnown
<1>6. CellsLed'
  <2>1. \A l \in Reader : l # r => reader'[l] = reader[l]
    BY <1>2 DEF ChunkInv, ChunkType
  <2>2. reader'[r] = v /\ reader'[r].pc = "lead" /\ reader'[r].cell = i
    BY <1>1, <1>2 DEF ChunkInv, ChunkType, Led
  <2>3. \A l \in Reader, j \in 1 .. Len(cells) : Led(l, j) => l # r /\ Led(l, j)'
    BY <1>2, <2>1 DEF Led
  <2>4. \A l \in Reader : l # r /\ reader'[l].pc \in {"lead", "publish"} =>
            reader'[l].cell # i
    BY <1>3, <2>1 DEF ChunkInv, CellsKnown
  <2>5. ASSUME NEW l \in Reader, NEW m \in Reader,
               Led(l, reader[m].cell)', Led(m, reader[m].cell)'
        PROVE  l = m
    BY <1>1, <2>1, <2>2, <2>4, <2>5 DEF Led, ChunkInv, CellsLed
  <2>6. ASSUME NEW j \in 1 .. Len(cells'), cells'[j].result = "none"
        PROVE  \E l \in Reader : Led(l, j)'
    <3>1. CASE j = i
      BY <2>2, <3>1 DEF Led
    <3>2. CASE j # i
      <4>1. j \in 1 .. Len(cells)
        BY <1>3, <3>2
      <4>2. PICK l \in Reader : Led(l, j)
        BY <1>3, <2>6, <4>1 DEF ChunkInv, CellsLed
      <4> QED
        BY <2>3, <4>1, <4>2
    <3> QED
      BY <3>1, <3>2
  <2> QED
    BY <2>5, <2>6 DEF CellsLed
<1>7. SleepersHeard'
  BY <1>1, <1>2, <1>3 DEF ChunkInv, ChunkType, CellsKnown, SleepersHeard
<1> QED
  BY <1>4, <1>5, <1>6, <1>7 DEF ChunkInv

(* A reader that only goes away, or is no leader, changes little: the two  *)
(* polls and the drop of a joined reader.                                  *)
LEMMA JoinGoesKeeps ==
    ASSUME ChunkInv, NEW r \in Reader, reader[r].pc = "join",
           reader' = [reader EXCEPT ![r] = Away], woken' = woken \ {r},
           UNCHANGED <<registry, cells>>
    PROVE  ChunkInv'
<1>1. ChunkType'
  BY AwayIs DEF ChunkInv, ChunkType
<1>2. CellsKnown'
  BY AwayIs DEF ChunkInv, ChunkType, CellsKnown
<1>3. CellsLed'
  BY AwayIs DEF ChunkInv, ChunkType, CellsLed, Led
<1>4. SleepersHeard'
  BY AwayIs DEF ChunkInv, ChunkType, SleepersHeard
<1> QED
  BY <1>1, <1>2, <1>3, <1>4 DEF ChunkInv

LEMMA PollPendingKeeps ==
    ASSUME ChunkInv, NEW r \in Reader, PollPending(r)
    PROVE  ChunkInv'
<1> DEFINE i == reader[r].cell
<1>1. /\ i \in 1 .. Len(cells) /\ cells[i].result = "none"
      /\ cells' = [cells EXCEPT ![i].wakers = @ \cup {r}]
      /\ woken' = woken \ {r} /\ UNCHANGED <<registry, reader>>
  BY DEF PollPending, ChunkInv, CellsKnown
<1>a. \A j \in 1 .. Len(cells) : cells[j] \in CellState
  BY DEF ChunkInv, ChunkType
<1> DEFINE w == [cells[i] EXCEPT !.wakers = @ \cup {r}]
<1>b. /\ w \in CellState
      /\ w.result = cells[i].result /\ w.wakers = cells[i].wakers \cup {r}
  BY <1>1, <1>a DEF CellState
<1>2. /\ cells' \in Seq(CellState)
      /\ Len(cells') = Len(cells) /\ r \in cells'[i].wakers
      /\ \A j \in 1 .. Len(cells) : /\ cells'[j].result = cells[j].result
                                    /\ cells[j].wakers \subseteq cells'[j].wakers
  <2>1. cells' = [cells EXCEPT ![i] = w]
    BY <1>1
  <2> HIDE DEF w
  <2>2. cells' \in Seq(CellState) /\ Len(cells') = Len(cells)
    BY <1>1, <1>b, <2>1 DEF ChunkInv, ChunkType
  <2>3. \A j \in 1 .. Len(cells) : j # i => cells'[j] = cells[j]
    BY <1>1, <2>1 DEF ChunkInv, ChunkType
  <2>4. cells'[i] = w
    BY <1>1, <2>1 DEF ChunkInv, ChunkType
  <2> QED
    BY <1>b, <2>2, <2>3, <2>4
<1>3. ChunkType'
  BY <1>1, <1>2 DEF ChunkInv, ChunkType
<1>4. CellsKnown'
  BY <1>1, <1>2 DEF ChunkInv, CellsKnown
<1>5. CellsLed'
  BY <1>1, <1>2 DEF ChunkInv, CellsLed, Led
<1>6. SleepersHeard'
  BY <1>1, <1>2 DEF ChunkInv, ChunkType, CellsKnown, SleepersHeard
<1> QED
  BY <1>3, <1>4, <1>5, <1>6 DEF ChunkInv

(* The fetch ends or its leader is dropped: the chunk may be led again,    *)
(* the cell is led still.                                                  *)
LEMMA UnregistersKeeps ==
    ASSUME ChunkInv, NEW r \in Reader, NEW result \in {"Ok", "error", "Transient"},
           reader[r].pc = "lead", Unregisters(r, result), UNCHANGED <<cells, woken>>
    PROVE  ChunkInv'
<1>1. /\ reader' \in [Reader -> ReaderState]
      /\ reader'[r].pc = "publish" /\ reader'[r].cell = reader[r].cell
      /\ reader'[r].result = result
      /\ \A s \in Reader : s # r => reader'[s] = reader[s]
  BY ZenonT(30) DEF Unregisters, ChunkInv, ChunkType, ReaderState, Results
<1>2. registry' \in [Chunk -> Nat] /\ \A k \in Chunk : registry'[k] \in {0, registry[k]}
  BY DEF Unregisters, ChunkInv, ChunkType
<1>3. ChunkType'
  BY <1>1, <1>2 DEF ChunkInv, ChunkType
<1>4. CellsKnown'
  BY <1>1, <1>2 DEF ChunkInv, CellsKnown
<1>5. CellsLed'
  BY <1>1 DEF ChunkInv, ChunkType, CellsLed, Led
<1>6. SleepersHeard'
  BY <1>1 DEF ChunkInv, ChunkType, SleepersHeard
<1> QED
  BY <1>3, <1>4, <1>5, <1>6 DEF ChunkInv

LEMMA ResolvesKeeps ==
    ASSUME ChunkInv, NEW r \in Reader, Resolves(r)
    PROVE  ChunkInv'
<1> DEFINE i == reader[r].cell
<1>1. /\ i \in 1 .. Len(cells) /\ Led(r, i) /\ reader[r].pc = "publish"
      /\ reader[r].result # "none"
  BY DEF Resolves, ChunkInv, CellsKnown, Led
<1>2. /\ cells' \in Seq(CellState)
      /\ Len(cells') = Len(cells) /\ cells'[i].result # "none"
      /\ \A j \in 1 .. Len(cells) : j # i => cells'[j] = cells[j]
  BY <1>1 DEF Resolves, ChunkInv, ChunkType, CellState, ReaderState
<1>3. cells[i].wakers \subseteq Reader
  <2>1. cells[i] \in CellState
    BY <1>1 DEF ChunkInv, ChunkType
  <2> QED
    BY <2>1 DEF CellState
<1>4. /\ reader' \in [Reader -> ReaderState]
      /\ reader'[r].pc = "waking" /\ reader'[r].wake = cells[i].wakers
      /\ \A s \in Reader : s # r => reader'[s] = reader[s]
  BY <1>3 DEF Resolves, ChunkInv, ChunkType, ReaderState
<1>5. UNCHANGED <<registry, woken>>
  BY DEF Resolves
<1>6. \A l \in Reader : Led(l, i) => l = r
  BY <1>1 DEF ChunkInv, CellsLed
<1> HIDE DEF i
<1>7. ChunkType'
  BY <1>2, <1>4, <1>5 DEF ChunkInv, ChunkType
<1>8. CellsKnown'
  BY <1>2, <1>4, <1>5 DEF ChunkInv, ChunkType, CellsKnown
<1>9. CellsLed'
  <2>1. \A l \in Reader, j \in 1 .. Len(cells) : Led(l, j) /\ j # i => Led(l, j)'
    <3>1. \A j : Led(r, j) => j = i
      BY DEF Led, i
    <3> QED
      BY <1>4, <3>1 DEF Led
  <2>2. \A l \in Reader, j \in Nat : Led(l, j)' => l # r /\ Led(l, j)
    BY <1>4 DEF Led
  <2>3. ASSUME NEW l \in Reader, NEW m \in Reader,
               Led(l, reader[m].cell)', Led(m, reader[m].cell)'
        PROVE  l = m
    <3>1. l # r /\ m # r /\ reader'[l] = reader[l] /\ reader'[m] = reader[m]
      BY <1>4, <2>3 DEF Led
    <3> QED
      BY <2>3, <3>1 DEF ChunkInv, CellsLed, Led
  <2>4. ASSUME NEW j \in 1 .. Len(cells'), cells'[j].result = "none"
        PROVE  \E l \in Reader : Led(l, j)'
    <3>1. j \in 1 .. Len(cells) /\ j # i /\ cells[j].result = "none"
      BY <1>2, <2>4
    <3> QED
      BY <2>1, <3>1 DEF ChunkInv, CellsLed
  <2> QED
    BY <2>3, <2>4 DEF CellsLed
<1>10. SleepersHeard'
  <2> SUFFICES ASSUME NEW s \in Reader, reader'[s].pc = "join", s \notin woken'
               PROVE  \/ /\ cells'[reader'[s].cell].result = "none"
                         /\ s \in cells'[reader'[s].cell].wakers
                      \/ \E l \in Reader : reader'[l].pc = "waking" /\ s \in reader'[l].wake
    BY DEF SleepersHeard
  <2>1. s # r /\ reader'[s] = reader[s] /\ reader[s].pc = "join" /\ s \notin woken
    BY <1>4, <1>5
  <2>2. reader[s].cell \in 1 .. Len(cells)
    BY <2>1 DEF ChunkInv, CellsKnown
  <2>3. CASE \E l \in Reader : reader[l].pc = "waking" /\ s \in reader[l].wake
    BY <1>1, <1>4, <2>3
  <2>4. CASE /\ cells[reader[s].cell].result = "none"
             /\ s \in cells[reader[s].cell].wakers
    BY <1>2, <1>4, <2>1, <2>2, <2>4
  <2> QED
    BY <2>1, <2>3, <2>4 DEF ChunkInv, SleepersHeard
<1> QED
  BY <1>7, <1>8, <1>9, <1>10 DEF ChunkInv

LEMMA WakesAllKeeps ==
    ASSUME ChunkInv, NEW r \in Reader, WakesAll(r)
    PROVE  ChunkInv'
<1>1. /\ reader' \in [Reader -> ReaderState]
      /\ reader'[r].pc = "away" /\ reader[r].pc = "waking"
      /\ \A s \in Reader : s # r => reader'[s] = reader[s]
  BY AwayIs DEF WakesAll, ChunkInv, ChunkType
<1>2. /\ woken \subseteq woken' /\ woken' \subseteq Reader
      /\ \A s \in reader[r].wake : reader[s].pc = "join" => s \in woken'
      /\ UNCHANGED <<registry, cells>>
  BY DEF WakesAll, ChunkInv, ChunkType, ReaderState
<1>3. ChunkType'
  BY <1>1, <1>2 DEF ChunkInv, ChunkType
<1>4. CellsKnown'
  BY <1>1, <1>2 DEF ChunkInv, ChunkType, CellsKnown
<1>5. CellsLed'
  BY SMTT(30), <1>1, <1>2 DEF ChunkInv, ChunkType, CellsLed, Led
<1>6. SleepersHeard'
  BY <1>1, <1>2 DEF ChunkInv, ChunkType, SleepersHeard
<1> QED
  BY <1>3, <1>4, <1>5, <1>6 DEF ChunkInv

(* Every step keeps the invariant.                                         *)
LEMMA ChunkNextKeeps ==
    ASSUME ChunkInv, [ChunkNext]_chunkVars
    PROVE  ChunkInv'
<1>1. ASSUME NEW r \in Reader, NEW k \in Chunk, JoinsFlight(r, k) \/ LeadsFlight(r, k)
      PROVE  ChunkInv'
  BY <1>1, JoinsFlightKeeps, LeadsFlightKeeps
<1>2. ASSUME NEW r \in Reader, PollReady(r) \/ JoinDropped(r)
      PROVE  ChunkInv'
  BY <1>2, JoinGoesKeeps DEF PollReady, JoinDropped
<1>3. ASSUME NEW r \in Reader, NEW result \in {"Ok", "error"}, FetchEnds(r, result)
      PROVE  ChunkInv'
  BY <1>3, UnregistersKeeps DEF FetchEnds
<1>4. ASSUME NEW r \in Reader, LeaderDropped(r)
      PROVE  ChunkInv'
  BY <1>4, UnregistersKeeps DEF LeaderDropped, OnDrop
<1>5. CASE ManyNext \/ UNCHANGED chunkVars
  <2>1. UNCHANGED <<registry, cells, reader, woken>>
    BY <1>5 DEF ManyNext, GetMany, chunkVars
  <2> QED
    BY <2>1 DEF ChunkInv, ChunkType, CellsKnown, CellsLed, SleepersHeard, Led
<1> QED
  BY <1>1, <1>2, <1>3, <1>4, <1>5, PollPendingKeeps, ResolvesKeeps, WakesAllKeeps
     DEF ChunkNext, ReadNext

(* A reader that sleeps on a chunk's cell will be woken, whether the       *)
(* leader finishes or is dropped and between whichever of its publishing   *)
(* steps the reader polls (single_flight.rs).                              *)
THEOREM SleeperSafety == ChunkSpec => []SleepersLed
<1>1. ChunkInv => SleepersLed
  <2> SUFFICES ASSUME ChunkInv, NEW r \in Reader, reader[r].pc = "join", r \notin woken
               PROVE  \E l \in Reader :
                          \/ /\ reader[l].pc \in {"lead", "publish"}
                             /\ reader[l].cell = reader[r].cell
                             /\ r \in cells[reader[r].cell].wakers
                          \/ reader[l].pc = "waking" /\ r \in reader[l].wake
    BY DEF SleepersLed
  <2>1. reader[r].cell \in 1 .. Len(cells)
    BY DEF ChunkInv, CellsKnown
  <2> QED
    BY <2>1 DEF ChunkInv, SleepersHeard, CellsLed, Led
<1> QED
  BY ChunkStarts, ChunkNextKeeps, <1>1, PTL DEF ChunkSpec
-----------------------------------------------------------------------------
(* The long poll. An index emptied, by drop_cache, a refused fold or a     *)
(* failed rebuild or replay, takes back what a fetch has sampled, and      *)
(* neither the session's promise nor the park's outlives that, so the      *)
(* theorem is about behaviours that empty it, if they do, before the fetch *)
(* takes its samples.                                                      *)
Sparing ==
    /\ Next
    /\ Clearing' \/ ~(index \subseteq index') => rpc' \in {"off", "catchup", "waitfor"}

SparingSpec == FetchParkInit /\ [][Sparing]_vars

(* The watch and the index are level wherever the loop may write.          *)
WatchLevel ==
    /\ pc = "idle" /\ replayed # 0 /\ replayed = term => published = applied
    /\ pc \in {"append", "landed"} => published = applied
    /\ pc = "new" => applied = 0

(* FetchSound is not inductive: that nothing is lost between the samples   *)
(* and the park needs what the samples and the read bound, step by step.   *)
Sampled ==
    /\ Clearing => rpc \in {"off", "catchup", "waitfor"}
    /\ want <= Len(line)
    /\ rpc \in {"sample", "watch", "resolve", "read", "judge", "parked", "compare"} =>
           want <= applied
    /\ rpc \in {"watch", "resolve", "read", "judge", "parked", "compare"} =>
           before <= EndOffset(index, part)
    /\ rpc \in {"resolve", "read", "judge", "parked", "compare"} => seen <= published
    /\ rpc \in {"judge", "parked"} => EndOffset(1 .. seen, part) <= upto
    /\ rpc \in {"judge", "parked", "compare"} => before <= upto
    /\ rpc \notin {"read", "judge", "done"} => reads < MaxReads
    /\ rpc # "done" => code = "none"

(* The watermark a read reports, once resolve has found one.               *)
Reported ==
    rpc \in {"read", "judge", "parked", "compare"} \/ code = "records" =>
        (want \in Commits(DOMAIN line, part) => high > OffsetOf(DOMAIN line, part, want))

FetchInv == IndexInv /\ Kept /\ WatchLevel /\ TypeOK /\ Sampled /\ Reported

(* The commits of a partition among the first n entries of a line.         *)
CommitsIn(l, n, p) == {v \in 1 .. n : l[v].kind = "commit" /\ p \in l[v].spans}

LEMMA EndOffsetIs ==
    \A n, p : EndOffset(1 .. n, p) = Cardinality(CommitsIn(line, n, p))
<1> SUFFICES ASSUME NEW n, NEW p
             PROVE  EndOffset(1 .. n, p) = Cardinality(CommitsIn(line, n, p))
  OBVIOUS
<1>1. Commits(1 .. n, p) = CommitsIn(line, n, p)
  BY DEF Commits, Of, CommitsIn
<1> QED
  BY <1>1 DEF EndOffset

(* A longer prefix holds as many commits or more, and never more than      *)
(* entries.                                                                *)
LEMMA CountGrows ==
    ASSUME NEW l, NEW p, NEW m \in Nat, NEW n \in Nat, m <= n
    PROVE  /\ IsFiniteSet(CommitsIn(l, n, p))
           /\ Cardinality(CommitsIn(l, m, p)) \in Nat
           /\ Cardinality(CommitsIn(l, n, p)) \in Nat
           /\ Cardinality(CommitsIn(l, m, p)) <= Cardinality(CommitsIn(l, n, p))
           /\ Cardinality(CommitsIn(l, n, p)) <= n
<1>1. IsFiniteSet(1 .. n) /\ Cardinality(1 .. n) <= n
  BY FS_Interval
<1>2. CommitsIn(l, n, p) \in SUBSET (1 .. n)
  BY DEF CommitsIn
<1>3. CommitsIn(l, m, p) \in SUBSET CommitsIn(l, n, p)
  BY DEF CommitsIn
<1>4. IsFiniteSet(CommitsIn(l, n, p)) /\ Cardinality(CommitsIn(l, n, p)) <= Cardinality(1 .. n)
  BY <1>1, <1>2, FS_Subset
<1>5. /\ IsFiniteSet(CommitsIn(l, m, p))
      /\ Cardinality(CommitsIn(l, m, p)) <= Cardinality(CommitsIn(l, n, p))
  BY <1>3, <1>4, FS_Subset
<1>6. /\ Cardinality(CommitsIn(l, n, p)) \in Nat /\ Cardinality(CommitsIn(l, m, p)) \in Nat
      /\ Cardinality(1 .. n) \in Nat
  BY <1>1, <1>4, <1>5, FS_CardinalityType
<1> QED
  BY <1>1, <1>4, <1>5, <1>6

(* Entries behind a prefix change nothing in it.                           *)
LEMMA CountKept ==
    ASSUME NEW l, NEW k, NEW p, NEW n \in Nat, \A v \in 1 .. n : k[v] = l[v]
    PROVE  CommitsIn(k, n, p) = CommitsIn(l, n, p)
BY DEF CommitsIn

(* A commit's offset is below the end of every prefix that holds it.       *)
LEMMA OffsetBelowEnd ==
    ASSUME NEW l, NEW p, NEW m \in Nat, NEW n \in Nat, m <= n,
           NEW v \in CommitsIn(l, n, p), v <= m
    PROVE  Cardinality({u \in CommitsIn(l, n, p) : u < v}) < Cardinality(CommitsIn(l, m, p))
<1> DEFINE S == CommitsIn(l, m, p)
           T == {u \in CommitsIn(l, n, p) : u < v}
<1>1. IsFiniteSet(S) /\ Cardinality(S) \in Nat
  BY CountGrows
<1>2. T \in SUBSET S /\ v \in S /\ v \notin T
  BY DEF CommitsIn
<1>3. IsFiniteSet(T) /\ Cardinality(T) <= Cardinality(S) /\ (Cardinality(S) = Cardinality(T) => S = T)
  BY <1>1, <1>2, FS_Subset
<1>4. Cardinality(T) \in Nat
  BY <1>3, FS_CardinalityType
<1>5. Cardinality(T) < Cardinality(S)
  <2> HIDE DEF S, T
  <2> QED
    BY <1>1, <1>2, <1>3, <1>4
<1> QED
  BY <1>5

-----------------------------------------------------------------------------
(* What a step of the loop does to what a fetch looks at: the line is only *)
(* added to, and unless the index is emptied neither it nor the watch goes *)
(* back.                                                                   *)
Advances ==
    /\ Len(line) <= Len(line') /\ \A v \in 1 .. Len(line) : line'[v] = line[v]
    /\ ~Clearing /\ ~Clearing' /\ index \subseteq index' => applied <= applied' /\ published <= published'

(* A prefix that an emptied index still holds is the empty one.            *)
LEMMA EmptiedIndex == \A n \in Nat : 1 .. n \subseteq {} => n = 0
OBVIOUS

LEMMA LoopAdvances ==
    ASSUME IndexInv, WatchLevel, LoopNext
    PROVE  Advances /\ WatchLevel'
<1> USE IndexLoopAssumption DEF IndexInv, LoopTypeOK, WatchLevel, Advances, Clearing
<1>1. CASE ReplayStart
  BY <1>1 DEF ReplayStart, feeds, Standing
<1>2. CASE FoldPage
  <2>1. /\ PageEnd(cursor, view) \in Nat
        /\ cursor < PageEnd(cursor, view) /\ PageEnd(cursor, view) <= view
    BY <1>2, PageEndBounds DEF FoldPage
  <2> QED
    BY <1>2, <2>1 DEF FoldPage, handles, feeds, Folding
<1>3. CASE ReplayDone
  BY <1>3 DEF ReplayDone, handles, WatchHonest, Standing
<1>4. CASE RefoldStart
  <2>1. UNCHANGED <<line, applied, published>> /\ pc' = "refold"
    BY <1>4 DEF RefoldStart, feeds
  <2> QED
    BY <2>1
<1>5. CASE RefoldPage
  BY <1>5, PageEndBounds DEF RefoldPage, handles, feeds, Folding
<1>6. CASE RefoldDone
  BY <1>6 DEF RefoldDone, WatchHonest
<1>7. CASE Lands
  <2>1. job \in Entry
    BY <1>7 DEF Lands, Handles
  <2>2. Len(line') = Len(line) + 1 /\ \A v \in 1 .. Len(line) : line'[v] = line[v]
    BY <1>7, <2>1 DEF Lands
  <2> QED
    BY <1>7, <2>2 DEF Lands, feeds
<1>8. CASE Refused
  BY <1>8 DEF Refused, Answer
<1>9. CASE Errs
  <2>1. job \in Entry
    BY <1>9 DEF Errs, Handles
  <2>2. line \in Seq(Entry) /\ (line' = line \/ line' = Append(line, job))
    BY <1>9 DEF Errs
  <2> HIDE DEF LoopTypeOK, IndexInv, WatchLevel
  <2>3. Len(line) <= Len(line') /\ \A v \in 1 .. Len(line) : line'[v] = line[v]
    BY <2>1, <2>2
  <2> USE DEF LoopTypeOK, IndexInv, WatchLevel
  <2>4. UNCHANGED <<applied, published, replayed, term>> /\ pc = "append" /\ pc' = "idle"
    BY <1>9 DEF Errs, Answer
  <2> QED
    BY <2>3, <2>4
<1>10. CASE Fenced
  BY <1>10 DEF Fenced, Answer
<1>11. CASE PublishNext
  BY <1>11 DEF PublishNext, handles, tidings
<1>12. CASE PublishRebuild
  BY <1>12 DEF PublishRebuild, handles, feeds, Standing, LevelWith
<1>13. CASE RebuildDone
  BY <1>13 DEF RebuildDone, handles, tidings
<1>21. CASE ReplayFails
  BY <1>21, EmptiedIndex DEF ReplayFails, handles, feeds, Standing, IndexFaithful
<1>22. CASE RefoldFails
  BY <1>22 DEF RefoldFails, feeds, Folding
<1>23. CASE PublishClears
  BY <1>23 DEF PublishClears, handles, tidings
<1>24. CASE RebuildBreaks
  BY <1>24, EmptiedIndex DEF RebuildBreaks, handles, tidings, IndexFaithful
<1>14. CASE Tell
  BY <1>14 DEF Tell, handles, Answer, WatchHonest
<1>15. CASE DropCache
  BY <1>15 DEF DropCache, handles, tidings
<1>16. CASE Dropped
  BY <1>16 DEF Dropped, handles
<1>17. CASE Lapse
  BY <1>17 DEF Lapse, feeds
<1>18. CASE Take
  BY <1>18 DEF Take, feeds, Handles
<1>19. ASSUME NEW b \in Bundle, Stage(Commit(b)) PROVE Advances /\ WatchLevel'
  BY <1>19 DEF Stage, handles, feeds
<1>20. ASSUME NEW b \in Bundle, OtherAppends(b) PROVE Advances /\ WatchLevel'
  <2>1. Commit(b) \in Entry
    BY DEF Entry
  <2>2. Len(line') = Len(line) + 1 /\ \A v \in 1 .. Len(line) : line'[v] = line[v]
    BY <1>20, <2>1 DEF OtherAppends
  <2> QED
    BY <1>20, <2>2 DEF OtherAppends, feeds
<1> QED
  BY <1>1, <1>2, <1>3, <1>4, <1>5, <1>6, <1>7, <1>8, <1>9, <1>10, <1>11,
     <1>12, <1>13, <1>14, <1>15, <1>16, <1>17, <1>18, <1>19, <1>20,
     <1>21, <1>22, <1>23, <1>24 DEF LoopNext, Serving, Failing

(* Counts of the index as counts of the line, in this state and the next.  *)
LEMMA CountsOfIndex ==
    ASSUME IndexInv, TypeOK
    PROVE  /\ EndOffset(index, part) = Cardinality(CommitsIn(line, applied, part))
           /\ EndOffset(index, part) \in 0 .. applied
           /\ EndOffset(1 .. seen, part) = Cardinality(CommitsIn(line, seen, part))
           /\ EndOffset(1 .. seen, part) \in Nat
           /\ applied <= Len(line) /\ Len(line) <= MaxLine
<1>1. index = 1 .. applied /\ applied \in Nat /\ seen \in Nat /\ applied <= Len(line)
      /\ Len(line) <= MaxLine
  BY IndexLoopAssumption DEF IndexInv, IndexFaithful, LoopTypeOK, TypeOK
<1>2. /\ Cardinality(CommitsIn(line, applied, part)) \in Nat
      /\ Cardinality(CommitsIn(line, applied, part)) <= applied
  BY <1>1, CountGrows
<1>3. Cardinality(CommitsIn(line, seen, part)) \in Nat
  BY <1>1, CountGrows
<1>4. /\ EndOffset(index, part) = Cardinality(CommitsIn(line, applied, part))
      /\ EndOffset(1 .. seen, part) = Cardinality(CommitsIn(line, seen, part))
  BY <1>1, EndOffsetIs
<1> QED
  BY <1>1, <1>2, <1>3, <1>4

(* The loop's steps keep what the fetch has sampled, read and reported.    *)
LEMMA LoopKeepsFetch ==
    ASSUME FetchInv, LoopNext, UNCHANGED fetchVars,
           Clearing' \/ ~(index \subseteq index') => rpc' \in {"off", "catchup", "waitfor"}
    PROVE  FetchInv'
<1>1. IndexInv' /\ Kept' /\ WatchLevel' /\ Advances
  BY LoopNextKeeps, LoopNextKeepsAcked, LoopAdvances DEF FetchInv
<1>2. TypeOK'
  BY <1>1 DEF FetchInv, TypeOK, fetchVars, IndexInv
<1>3. /\ line \in Seq(Entry) /\ line' \in Seq(Entry) /\ Len(line) \in Nat /\ Len(line') \in Nat
      /\ applied \in Nat /\ applied' \in Nat /\ published \in Nat /\ published' \in Nat
      /\ want \in Nat /\ seen \in Nat /\ before \in Nat /\ upto \in Nat /\ high \in Nat
      /\ applied <= Len(line) /\ applied' <= Len(line')
      /\ index = 1 .. applied /\ index' = 1 .. applied'
  <2>1. /\ line \in Seq(Entry) /\ Len(line) \in Nat /\ applied \in Nat /\ published \in Nat
        /\ applied <= Len(line) /\ index = 1 .. applied
    BY IndexLoopAssumption DEF FetchInv, IndexInv, IndexFaithful, LoopTypeOK
  <2>2. /\ line' \in Seq(Entry) /\ Len(line') \in Nat /\ applied' \in Nat /\ published' \in Nat
        /\ applied' <= Len(line') /\ index' = 1 .. applied'
    BY <1>1, IndexLoopAssumption DEF IndexInv, IndexFaithful, LoopTypeOK
  <2>3. want \in Nat /\ seen \in Nat /\ before \in Nat /\ upto \in Nat /\ high \in Nat
    BY IndexLoopAssumption DEF FetchInv, TypeOK
  <2> QED
    BY <2>1, <2>2, <2>3
<1>4. UNCHANGED <<rpc, part, from, want, target, before, seen, high, upto, reads, code>>
  BY DEF fetchVars
<1>5. Len(line) <= Len(line') /\ \A v \in 1 .. Len(line) : line'[v] = line[v]
  BY <1>1 DEF Advances
<1> DEFINE N(l, n) == Cardinality(CommitsIn(l, n, part))
<1>6. EndOffset(index, part) = N(line, applied) /\ EndOffset(1 .. seen, part) = N(line, seen)
  BY CountsOfIndex DEF FetchInv
<1>7. EndOffset(index, part)' = N(line', applied') /\ EndOffset(1 .. seen, part)' = N(line', seen)
  <2>1. Commits(index, part)' = CommitsIn(line', applied', part)
    BY <1>3, <1>4 DEF Commits, Of, CommitsIn
  <2>2. Commits(1 .. seen, part)' = CommitsIn(line', seen, part)
    BY <1>4 DEF Commits, Of, CommitsIn
  <2> QED
    BY <2>1, <2>2 DEF EndOffset
<1>8. N(line', applied) = N(line, applied) /\ (seen <= Len(line) => N(line', seen) = N(line, seen))
  BY <1>3, <1>5, CountKept
<1>9. applied <= applied' => N(line', applied) <= N(line', applied')
  BY <1>3, CountGrows
<1>10. N(line, applied) \in Nat /\ N(line', applied') \in Nat /\ N(line, seen) \in Nat
  BY <1>3, CountGrows
<1>11. Sampled'
  <2>1. CASE rpc \in {"off", "catchup", "waitfor", "done"}
    <3>1. want' <= Len(line')
      BY <1>3, <1>4, <1>5 DEF FetchInv, Sampled
    <3>2. Clearing' => rpc' \in {"off", "catchup", "waitfor"}
      OBVIOUS
    <3> QED
      BY <2>1, <1>4, <3>1, <3>2 DEF FetchInv, Sampled
  <2>2. CASE rpc \notin {"off", "catchup", "waitfor", "done"}
    <3>1. ~Clearing /\ ~Clearing' /\ index \subseteq index'
      BY <1>4, <2>2 DEF FetchInv, Sampled
    <3>2. applied <= applied' /\ published <= published' /\ published <= applied
      BY <1>1, <3>1 DEF Advances, FetchInv, IndexInv, WatchHonest
    <3>3. rpc \in {"watch", "resolve", "read", "judge", "parked", "compare"} =>
              before <= N(line', applied')
      BY <1>6, <1>8, <1>9, <1>10, <1>3, <3>2 DEF FetchInv, Sampled
    <3>4. rpc \in {"judge", "parked"} => N(line', seen) <= upto
      BY <1>6, <1>8, <1>3, <3>2 DEF FetchInv, Sampled
    <3> HIDE DEF N
    <3>5. want' <= Len(line') /\ (rpc \in {"sample", "watch", "resolve", "read", "judge", "parked", "compare"} => want <= applied')
          /\ (rpc \in {"resolve", "read", "judge", "parked", "compare"} => seen <= published')
      BY <1>3, <1>4, <1>5, <3>2 DEF FetchInv, Sampled
    <3> QED
      BY <1>4, <1>7, <3>1, <3>3, <3>4, <3>5 DEF FetchInv, Sampled
  <2> QED
    BY <2>1, <2>2
<1>12. Reported'
  <2> SUFFICES ASSUME rpc' \in {"read", "judge", "parked", "compare"} \/ code' = "records",
                      want' \in Commits(DOMAIN line, part)'
               PROVE  high' > OffsetOf(DOMAIN line, part, want)'
    BY DEF Reported
  <2>1. want <= Len(line)
    BY DEF FetchInv, Sampled
  <2>2. want \in Commits(DOMAIN line, part)
    BY <1>3, <1>4, <1>5, <2>1 DEF Commits, Of
  <2>3. {u \in Commits(DOMAIN line, part) : u < want} = {u \in Commits(DOMAIN line, part)' : u < want}
    BY <1>3, <1>4, <1>5, <2>1 DEF Commits, Of
  <2>4. OffsetOf(DOMAIN line, part, want)' = OffsetOf(DOMAIN line, part, want)
    BY <1>4, <2>3 DEF OffsetOf
  <2> QED
    BY <1>4, <2>2, <2>4 DEF FetchInv, Reported
<1> QED
  BY <1>1, <1>2, <1>11, <1>12 DEF FetchInv

(* Max of two, as the read uses it.                                        *)
LEMMA MaxOfTwo ==
    ASSUME NEW a \in Nat, NEW b \in Nat
    PROVE  Max({a, b}) \in {a, b} /\ Max({a, b}) >= a /\ Max({a, b}) >= b
<1>1. \E x \in {a, b} : \A y \in {a, b} : x >= y
  <2>1. CASE a >= b
    BY <2>1
  <2>2. CASE b >= a
    BY <2>2
  <2> QED
    BY <2>1, <2>2
<1>2. Max({a, b}) \in {a, b} /\ \A y \in {a, b} : Max({a, b}) >= y
  BY <1>1 DEF Max
<1> QED
  BY <1>2

(* The handler's own steps keep it.                                        *)
LEMMA FetchKeepsFetch ==
    ASSUME FetchInv, FetchNext, UNCHANGED loopVars,
           Clearing' => rpc' \in {"off", "catchup", "waitfor"}
    PROVE  FetchInv'
<1> DEFINE E == EndOffset(index, part)
<1>1. /\ UNCHANGED <<line, pc, index, applied, published, acked>> /\ (Clearing' <=> Clearing)
      /\ IndexInv' /\ Kept' /\ WatchLevel' /\ LoopTypeOK'
  <2>1. UNCHANGED <<line, pc, index, applied, published, acked, replayed, term>> /\ (Clearing' <=> Clearing)
    BY DEF loopVars, Clearing
  <2>2. IndexInv' /\ Kept'
    BY LoopNextKeeps, LoopNextKeepsAcked DEF FetchInv
  <2>3. WatchLevel' /\ LoopTypeOK'
    BY <2>1, <2>2 DEF FetchInv, WatchLevel, IndexInv
  <2> QED
    BY <2>1, <2>2, <2>3
<1>2. /\ E = Cardinality(CommitsIn(line, applied, part)) /\ E \in 0 .. applied
      /\ EndOffset(1 .. seen, part) = Cardinality(CommitsIn(line, seen, part))
      /\ EndOffset(1 .. seen, part) \in Nat
      /\ applied <= Len(line) /\ Len(line) <= MaxLine
  BY CountsOfIndex DEF FetchInv
<1>3. /\ line \in Seq(Entry) /\ Len(line) \in Nat /\ applied \in Nat /\ published \in Nat
      /\ published <= MaxLine /\ MaxLine \in Nat /\ MaxReads \in Nat \ {0}
      /\ index = 1 .. applied /\ acked \subseteq 1 .. Len(line) /\ Targets \subseteq Nat
  BY IndexLoopAssumption, FetchParkAssumption
     DEF FetchInv, IndexInv, IndexFaithful, LoopTypeOK, Handles, Kept
<1>4. /\ part \in Partition /\ target \in Targets
      /\ from \in 0 .. MaxLine /\ want \in 0 .. MaxLine /\ before \in 0 .. MaxLine
      /\ seen \in 0 .. MaxLine /\ high \in 0 .. MaxLine /\ upto \in 0 .. MaxLine
      /\ reads \in 0 .. MaxReads
      /\ code \in {"none", "records", "range", "unavailable"}
  BY DEF FetchInv, TypeOK
<1>5. ~Clearing => published <= applied
  BY DEF FetchInv, IndexInv, WatchHonest
<1>6. \A n \in Nat : n <= applied =>
          /\ EndOffset(1 .. n, part) \in Nat
          /\ EndOffset(1 .. n, part) <= E
  <2> SUFFICES ASSUME NEW n \in Nat, n <= applied
               PROVE  EndOffset(1 .. n, part) \in Nat /\ EndOffset(1 .. n, part) <= E
    OBVIOUS
  <2>1. EndOffset(1 .. n, part) = Cardinality(CommitsIn(line, n, part))
    BY EndOffsetIs
  <2> QED
    BY <1>2, <1>3, <2>1, CountGrows
<1>7. UNCHANGED part
  BY DEF FetchNext, Handling, Request, CaughtUp, CatchUpWaits, WaitForArrives, WaitForExpires,
         SampleWatermark, SampleWatch, Resolve, Read, Answered, Parks, Wakes, Compares, Expires
<1>8. /\ EndOffset(index, part)' = E
      /\ \A n : EndOffset(1 .. n, part)' = EndOffset(1 .. n, part)
  BY <1>1, <1>7 DEF EndOffset, Commits, Of
<1>9. EndOffset(1 .. seen, part)' = EndOffset(1 .. seen', part)
  BY <1>1, <1>7 DEF EndOffset, Commits, Of
<1>10. UNCHANGED want => (OffsetOf(DOMAIN line, part, want)' = OffsetOf(DOMAIN line, part, want)
                          /\ Commits(DOMAIN line, part)' = Commits(DOMAIN line, part))
  <2>1. Commits(DOMAIN line, part)' = Commits(DOMAIN line, part)
    BY <1>1, <1>7 DEF Commits, Of
  <2>2. UNCHANGED want => {u \in Commits(DOMAIN line, part)' : u < want'} = {u \in Commits(DOMAIN line, part) : u < want}
    BY <2>1
  <2> QED
    BY <2>1, <2>2 DEF OffsetOf
<1> HIDE DEF E
<1>21. CASE Request
  <2>0. EndOffset(DOMAIN line, part) \in 0 .. MaxLine
    <3>1. DOMAIN line = 1 .. Len(line)
      BY <1>3
    <3>2. EndOffset(DOMAIN line, part) = Cardinality(CommitsIn(line, Len(line), part))
      BY <3>1, EndOffsetIs
    <3> QED
      BY <1>2, <1>3, <3>2, CountGrows
  <2>1. TypeOK'
    BY <1>21, <1>1, <1>2, <1>3, <1>4, <2>0 DEF Request, FetchInv, TypeOK, Sampled, E
  <2>2. Sampled'
    BY <1>21, <1>1, <1>2, <1>3, <1>4, <1>5, <1>6, <1>8, <1>9 DEF Request, FetchInv, TypeOK, Sampled, E
  <2>3. Reported'
    BY <1>21, <1>1, <1>4, <1>10 DEF Request, FetchInv, TypeOK, Sampled, Reported
  <2> QED
    BY <1>1, <2>1, <2>2, <2>3 DEF FetchInv
<1>22. CASE CaughtUp
  <2>1. TypeOK'
    BY <1>22, <1>1, <1>2, <1>3, <1>4 DEF CaughtUp, FetchInv, TypeOK, Sampled, E
  <2>2. Sampled'
    BY <1>22, <1>1, <1>2, <1>3, <1>4, <1>5, <1>6, <1>8, <1>9 DEF CaughtUp, FetchInv, TypeOK, Sampled, E
  <2>3. Reported'
    BY <1>22, <1>1, <1>4, <1>10 DEF CaughtUp, FetchInv, TypeOK, Sampled, Reported
  <2> QED
    BY <1>1, <2>1, <2>2, <2>3 DEF FetchInv
<1>23. CASE CatchUpWaits
  <2>1. TypeOK'
    BY <1>23, <1>1, <1>2, <1>3, <1>4 DEF CatchUpWaits, FetchInv, TypeOK, Sampled, E
  <2>2. Sampled'
    BY <1>23, <1>1, <1>2, <1>3, <1>4, <1>5, <1>6, <1>8, <1>9 DEF CatchUpWaits, FetchInv, TypeOK, Sampled, E
  <2>3. Reported'
    BY <1>23, <1>1, <1>4, <1>10 DEF CatchUpWaits, FetchInv, TypeOK, Sampled, Reported
  <2> QED
    BY <1>1, <2>1, <2>2, <2>3 DEF FetchInv
<1>24. CASE WaitForArrives
  <2>1. TypeOK'
    BY <1>24, <1>1, <1>2, <1>3, <1>4 DEF WaitForArrives, FetchInv, TypeOK, Sampled, E
  <2>2. Sampled'
    BY <1>24, <1>1, <1>2, <1>3, <1>4, <1>5, <1>6, <1>8, <1>9 DEF WaitForArrives, FetchInv, TypeOK, Sampled, E
  <2>3. Reported'
    BY <1>24, <1>1, <1>4, <1>10 DEF WaitForArrives, FetchInv, TypeOK, Sampled, Reported
  <2> QED
    BY <1>1, <2>1, <2>2, <2>3 DEF FetchInv
<1>25. CASE WaitForExpires
  <2>1. TypeOK'
    BY <1>25, <1>1, <1>2, <1>3, <1>4 DEF WaitForExpires, FetchInv, TypeOK, Sampled, E
  <2>2. Sampled'
    BY <1>25, <1>1, <1>2, <1>3, <1>4, <1>5, <1>6, <1>8, <1>9 DEF WaitForExpires, FetchInv, TypeOK, Sampled, E
  <2>3. Reported'
    BY <1>25, <1>1, <1>4, <1>10 DEF WaitForExpires, FetchInv, TypeOK, Sampled, Reported
  <2> QED
    BY <1>1, <2>1, <2>2, <2>3 DEF FetchInv
<1>26. CASE SampleWatermark
  <2>1. TypeOK'
    BY <1>26, <1>1, <1>2, <1>3, <1>4 DEF SampleWatermark, FetchInv, TypeOK, Sampled, E
  <2>2. Sampled'
    BY <1>26, <1>1, <1>2, <1>3, <1>4, <1>5, <1>6, <1>8, <1>9 DEF SampleWatermark, FetchInv, TypeOK, Sampled, E
  <2>3. Reported'
    BY <1>26, <1>1, <1>4, <1>10 DEF SampleWatermark, FetchInv, TypeOK, Sampled, Reported
  <2> QED
    BY <1>1, <2>1, <2>2, <2>3 DEF FetchInv
<1>27. CASE SampleWatch
  <2>1. TypeOK'
    BY <1>27, <1>1, <1>2, <1>3, <1>4 DEF SampleWatch, FetchInv, TypeOK, Sampled, E
  <2>2. Sampled'
    BY <1>27, <1>1, <1>2, <1>3, <1>4, <1>5, <1>6, <1>8, <1>9 DEF SampleWatch, FetchInv, TypeOK, Sampled, E
  <2>3. Reported'
    BY <1>27, <1>1, <1>4, <1>10 DEF SampleWatch, FetchInv, TypeOK, Sampled, Reported
  <2> QED
    BY <1>1, <2>1, <2>2, <2>3 DEF FetchInv
<1>28. CASE Resolve
  <2>1. TypeOK'
    BY <1>28, <1>1, <1>2, <1>3, <1>4 DEF Resolve, FetchInv, TypeOK, Sampled, E
  <2>2. Sampled'
    BY <1>28, <1>1, <1>2, <1>3, <1>4, <1>5, <1>6, <1>8, <1>9 DEF Resolve, FetchInv, TypeOK, Sampled, E
  <2>3. Reported'
    <3> SUFFICES ASSUME want \in Commits(DOMAIN line, part)
                 PROVE  E > OffsetOf(DOMAIN line, part, want)
      BY <1>28, <1>1, <1>4, <1>8, <1>10 DEF Resolve, FetchInv, Sampled, Reported, E
    <3>1. want <= applied /\ DOMAIN line = 1 .. Len(line)
      BY <1>28, <1>3 DEF Resolve, FetchInv, Sampled
    <3>2. Commits(DOMAIN line, part) = CommitsIn(line, Len(line), part)
      BY <3>1 DEF Commits, Of, CommitsIn
    <3>3. Cardinality({u \in CommitsIn(line, Len(line), part) : u < want})
              < Cardinality(CommitsIn(line, applied, part))
      BY <1>2, <1>3, <3>1, <3>2, OffsetBelowEnd
    <3>4. Cardinality({u \in CommitsIn(line, Len(line), part) : u < want})
              = OffsetOf(DOMAIN line, part, want)
      BY <3>2 DEF OffsetOf
    <3>5. OffsetOf(DOMAIN line, part, want) < E
      BY <1>2, <3>3, <3>4
    <3>6. OffsetOf(DOMAIN line, part, want) \in Nat
      <4>1. IsFiniteSet(CommitsIn(line, Len(line), part))
        BY <1>3, CountGrows
      <4>2. {u \in CommitsIn(line, Len(line), part) : u < want} \in
                SUBSET CommitsIn(line, Len(line), part)
        OBVIOUS
      <4>3. IsFiniteSet({u \in CommitsIn(line, Len(line), part) : u < want})
        BY <4>1, <4>2, FS_Subset
      <4> QED
        BY <3>4, <4>3, FS_CardinalityType
    <3> QED
      BY <1>2, <3>5, <3>6
  <2> QED
    BY <1>1, <2>1, <2>2, <2>3 DEF FetchInv
<1>29. CASE Read
  <2>0. /\ upto' \in {from, E} /\ upto' >= from /\ upto' >= E
        /\ rpc = "read" /\ rpc' = "judge"
        /\ UNCHANGED <<part, from, want, target, before, seen, high, reads, code>>
    BY <1>29, <1>2, <1>4, MaxOfTwo DEF Read, E
  <2>1. TypeOK'
    BY <1>1, <1>2, <1>3, <1>4, <2>0 DEF FetchInv, TypeOK, Sampled
  <2>2. Sampled'
    <3>1. before <= E /\ seen <= published /\ ~Clearing
      BY <2>0 DEF FetchInv, Sampled, E
    <3>2. EndOffset(1 .. seen, part) <= E
      BY <1>3, <1>4, <1>5, <1>6, <3>1
    <3>3. before' <= upto' /\ EndOffset(1 .. seen', part) <= upto' /\ upto' \in Nat
      BY <1>2, <1>3, <1>4, <2>0, <3>1, <3>2
    <3> QED
      BY <1>1, <1>8, <1>9, <2>0, <3>3 DEF FetchInv, Sampled, E
  <2>3. Reported'
    BY <1>29, <1>1, <1>4, <1>10 DEF Read, FetchInv, TypeOK, Sampled, Reported
  <2> QED
    BY <1>1, <2>1, <2>2, <2>3 DEF FetchInv
<1>30. CASE Answered
  <2>1. TypeOK'
    BY <1>30, <1>1, <1>2, <1>3, <1>4 DEF Answered, FetchInv, TypeOK, Sampled, E
  <2>2. Sampled'
    BY <1>30, <1>1, <1>2, <1>3, <1>4, <1>5, <1>6, <1>8, <1>9 DEF Answered, FetchInv, TypeOK, Sampled, E
  <2>3. Reported'
    BY <1>30, <1>1, <1>4, <1>10 DEF Answered, FetchInv, TypeOK, Sampled, Reported
  <2> QED
    BY <1>1, <2>1, <2>2, <2>3 DEF FetchInv
<1>31. CASE Parks
  <2>1. TypeOK'
    BY <1>31, <1>1, <1>2, <1>3, <1>4 DEF Parks, FetchInv, TypeOK, Sampled, E
  <2>2. Sampled'
    BY <1>31, <1>1, <1>2, <1>3, <1>4, <1>5, <1>6, <1>8, <1>9 DEF Parks, FetchInv, TypeOK, Sampled, E
  <2>3. Reported'
    BY <1>31, <1>1, <1>4, <1>10 DEF Parks, FetchInv, TypeOK, Sampled, Reported
  <2> QED
    BY <1>1, <2>1, <2>2, <2>3 DEF FetchInv
<1>32. CASE Wakes
  <2>1. TypeOK'
    BY <1>32, <1>1, <1>2, <1>3, <1>4 DEF Wakes, FetchInv, TypeOK, Sampled, E
  <2>2. Sampled'
    BY <1>32, <1>1, <1>2, <1>3, <1>4, <1>5, <1>6, <1>8, <1>9 DEF Wakes, FetchInv, TypeOK, Sampled, E
  <2>3. Reported'
    BY <1>32, <1>1, <1>4, <1>10 DEF Wakes, FetchInv, TypeOK, Sampled, Reported
  <2> QED
    BY <1>1, <2>1, <2>2, <2>3 DEF FetchInv
<1>33. CASE Compares
  <2>1. TypeOK'
    BY <1>33, <1>1, <1>2, <1>3, <1>4 DEF Compares, FetchInv, TypeOK, Sampled, E
  <2>2. Sampled'
    BY <1>33, <1>1, <1>2, <1>3, <1>4, <1>5, <1>6, <1>8, <1>9 DEF Compares, FetchInv, TypeOK, Sampled, E
  <2>3. Reported'
    BY <1>33, <1>1, <1>4, <1>10 DEF Compares, FetchInv, TypeOK, Sampled, Reported
  <2> QED
    BY <1>1, <2>1, <2>2, <2>3 DEF FetchInv
<1>34. CASE Expires
  <2>1. TypeOK'
    BY <1>34, <1>1, <1>2, <1>3, <1>4 DEF Expires, FetchInv, TypeOK, Sampled, E
  <2>2. Sampled'
    BY <1>34, <1>1, <1>2, <1>3, <1>4, <1>5, <1>6, <1>8, <1>9 DEF Expires, FetchInv, TypeOK, Sampled, E
  <2>3. Reported'
    BY <1>34, <1>1, <1>4, <1>10 DEF Expires, FetchInv, TypeOK, Sampled, Reported
  <2> QED
    BY <1>1, <2>1, <2>2, <2>3 DEF FetchInv
<1> QED
  BY <1>21, <1>22, <1>23, <1>24, <1>25, <1>26, <1>27, <1>28, <1>29, <1>30, <1>31, <1>32, <1>33, <1>34 DEF FetchNext, Handling

(* FetchInv at the start, and what it says of a parked fetch: when the     *)
(* watch is level with the index, that holds more commits of the partition *)
(* than the sampled versions did.                                          *)
LEMMA FetchStarts == FetchParkInit => FetchInv
<1> SUFFICES ASSUME FetchParkInit PROVE FetchInv
  OBVIOUS
<1>1. IndexInv
  BY InitEstablishesIndex DEF FetchParkInit
<1>2. Kept /\ WatchLevel
  BY IndexLoopAssumption DEF FetchParkInit, Init, Kept, WatchLevel, Clearing
<1>3. TypeOK
  BY <1>1, IndexLoopAssumption, FetchParkAssumption DEF FetchParkInit, FetchInit, TypeOK, IndexInv
<1>4. Sampled
  BY <1>1, IndexLoopAssumption, FetchParkAssumption
     DEF FetchParkInit, Init, FetchInit, Sampled, IndexInv, LoopTypeOK
<1>5. Reported
  BY DEF FetchParkInit, FetchInit, Reported
<1> QED
  BY <1>1, <1>2, <1>3, <1>4, <1>5 DEF FetchInv

LEMMA FetchInvSound == FetchInv => FetchSound
<1> SUFFICES ASSUME FetchInv PROVE FetchSound
  OBVIOUS
<1>1. TypeOK /\ ReadsItsWrites
  BY DEF FetchInv, Reported, ReadsItsWrites
<1>2. NoLostWakeup
  <2> SUFFICES ASSUME rpc = "parked", published = applied, EndOffset(index, part) > upto
               PROVE  published > seen /\ EndOffset(index, part) # before
    BY DEF NoLostWakeup
  <2>1. /\ EndOffset(1 .. seen, part) <= upto /\ before <= upto /\ seen <= published
        /\ published = applied /\ index = 1 .. applied
    BY DEF FetchInv, Sampled, WatchLevel, IndexInv, IndexFaithful
  <2>2. EndOffset(index, part) \in Nat /\ upto \in Nat /\ before \in Nat /\ seen \in Nat
        /\ applied \in Nat
    BY CountsOfIndex, IndexLoopAssumption DEF FetchInv, TypeOK, LoopTypeOK
  <2>3. seen # applied
    BY <2>1, <2>2, CountsOfIndex DEF FetchInv
  <2> QED
    BY <2>1, <2>2, <2>3
<1> QED
  BY <1>1, <1>2 DEF FetchSound

(* A fetch answers with a watermark above everything its session was       *)
(* acknowledged, never makes more than MaxReads passes, and parks without  *)
(* losing the wake-up of a commit that lands between its samples and its   *)
(* park (read_or_park, catch_up), however the loop's folds, terms and      *)
(* refolds fall between its awaits.                                        *)
THEOREM FetchSafety == SparingSpec => []FetchSound
<1>1. FetchInv /\ [Sparing]_vars => FetchInv'
  <2> SUFFICES ASSUME FetchInv, [Sparing]_vars PROVE FetchInv'
    OBVIOUS
  <2>1. CASE Sparing
    BY <2>1, LoopKeepsFetch, FetchKeepsFetch DEF Sparing, Next
  <2>2. CASE UNCHANGED vars
    <3>1. UNCHANGED loopVars /\ UNCHANGED fetchVars
      BY <2>2 DEF vars
    <3>2. IndexInv' /\ Kept'
      BY <3>1, LoopNextKeeps, LoopNextKeepsAcked DEF FetchInv
    <3>3. WatchLevel' /\ TypeOK'
      BY <3>1, <3>2 DEF FetchInv, WatchLevel, TypeOK, IndexInv, loopVars, fetchVars
    <3>4. UNCHANGED <<line, pc, index, applied, published>> /\ (Clearing' <=> Clearing)
      BY <3>1 DEF loopVars, Clearing
    <3>5. UNCHANGED <<rpc, part, want, before, seen, high, upto, reads, code>>
      BY <3>1 DEF fetchVars
    <3>6. Sampled' /\ Reported'
      BY <3>4, <3>5 DEF FetchInv, Sampled, Reported, EndOffset, OffsetOf, Commits, Of
    <3> QED
      BY <3>2, <3>3, <3>6 DEF FetchInv
  <2> QED
    BY <2>1, <2>2
<1> QED
  BY FetchStarts, FetchInvSound, <1>1, PTL DEF SparingSpec

-----------------------------------------------------------------------------
(* The connection. Neither of its promises is inductive. The order rests   *)
(* on the channel between reader and writer holding exactly the frames     *)
(* that were read and not yet joined, in their order (SockOK); the charge  *)
(* rests on a session being set at most once, and never before a request   *)
(* that is not a SASL one has run under no name (ChargeInv).               *)

Reading == {"reading", "permit", "sending"}
Socks == [reader : Reading \cup {"FrameTooLarge", "ended", "aborted"},
          writer : {"recv", "join", "over"}, read : Nat, join : Nat,
          channel : Seq(Nat), wire : Seq(Nat),
          ended : {"open", "HandlerClosed", "HandlerPanicked", "TimedOut", "Drained", "Dropped"}]
Hands == [pc : {"unborn", "begin", "handle", "done"}, charged : User \cup {Nameless},
          told : User \cup {Nameless}, out : {"none", "Reply", "Silent", "Close", "Panic"}]
HandMaps == UNION {[1 .. k -> Hands] : k \in Nat}

(* Of one connection: s its socket, h its handlers.                        *)

ToldOf(s, h, n) == (\E i \in 1 .. Len(s.wire) : s.wire[i] = n) \/ h[n].out = "Silent"

(* How many handles the reader has given the writer, and up to which frame *)
(* the writer has settled.                                                 *)
Sent(s) == IF s.reader \in {"permit", "sending"} THEN s.read - 1 ELSE s.read
Settled(s) == IF s.writer = "join" THEN s.join - 1 ELSE Sent(s) - Len(s.channel)

ReadOK(s, h, len) ==
    /\ s.read <= len
    /\ s.reader \in {"permit", "sending"} => s.read >= 1
    /\ \A n \in 1 .. len : n > s.read \/ (s.reader = "permit" /\ n = s.read) => h[n].pc = "unborn"
    /\ s.writer = "over" => s.reader \notin Reading
    /\ s.writer = "over" <=> s.ended # "open"

(* The channel holds what was read and not joined, in order.               *)
ChannelOK(s) ==
    /\ Len(s.channel) <= Sent(s)
    /\ \A i \in 1 .. Len(s.channel) : s.channel[i] = Sent(s) - Len(s.channel) + i
    /\ s.writer = "join" => s.join >= 1 /\ s.join = Sent(s) - Len(s.channel)

WireOK(s, h) ==
    /\ \A i \in 1 .. Len(s.wire) - 1 : s.wire[i] < s.wire[i + 1]
    /\ \A i \in 1 .. Len(s.wire) : \A n \in 1 .. s.wire[i] - 1 : ToldOf(s, h, n)
    /\ s.ended = "Drained" => \A n \in 1 .. s.read : ToldOf(s, h, n)

SettledOK(s, h) ==
    /\ \A n \in 1 .. Settled(s) : ToldOf(s, h, n)
    /\ \A i \in 1 .. Len(s.wire) : s.wire[i] <= Settled(s)

SockOK(s, h, len) ==
    /\ ReadOK(s, h, len) /\ WireOK(s, h)
    /\ s.writer # "over" => ChannelOK(s) /\ SettledOK(s, h)
    /\ \A n \in 1 .. len : h[n].out = "Silent" => h[n].pc = "done"

OrderInv ==
    /\ sock \in [Conn -> Socks] /\ hand \in [Conn -> HandMaps]
    /\ \A c \in Conn : DOMAIN hand[c] = 1 .. Len(FramesOf[c])
    /\ \A c \in Conn : SockOK(sock[c], hand[c], Len(FramesOf[c]))

-----------------------------------------------------------------------------
QuotaType ==
    /\ quota \in [User -> [in_flight : Nat, limit : Int, most : Int]]
    /\ \A u \in User : /\ IsFiniteSet(HeldBy(hand, u))
                       /\ quota[u].most >= QUOTA /\ quota[u].most >= quota[u].limit

(* A request that is not a SASL one runs for whom its session is bound to, *)
(* and no session is bound where there are no credentials.                 *)
SessionsKept ==
    /\ session \in [Conn -> User \cup {Nameless}]
    /\ ~Configured => \A c \in Conn : session[c] = Nameless
    /\ \A c \in Conn : \A n \in DOMAIN hand[c] :
           hand[c][n].pc = "handle" /\ Frame(c, n).kind # "sasl" =>
               /\ hand[c][n].charged = session[c]
               /\ Configured => session[c] # Nameless

ChargeInv ==
    /\ hand \in [Conn -> HandMaps]
    /\ \A c \in Conn : DOMAIN hand[c] = 1 .. Len(FramesOf[c])
    /\ QuotaType /\ SessionsKept /\ ActsAsCharged /\ QuotaExact

-----------------------------------------------------------------------------
(* Answers in order.                                                       *)

(* What is told stays told.                                                *)
LEMMA ToldStays ==
    ASSUME NEW s, NEW t, NEW h, NEW g, NEW n, Len(s.wire) \in Nat, Len(t.wire) \in Nat,
           Len(s.wire) <= Len(t.wire),
           \A i \in 1 .. Len(s.wire) : t.wire[i] = s.wire[i],
           h[n].out = "Silent" => g[n].out = "Silent", ToldOf(s, h, n)
    PROVE  ToldOf(t, g, n)
BY DEF ToldOf

(* The conditions on one connection suffice.                               *)
LEMMA OneConn ==
    ASSUME OrderInv, NEW c \in Conn, NEW s \in Socks, NEW h \in [1 .. Len(FramesOf[c]) -> Hands],
           sock' = [sock EXCEPT ![c] = s], hand' = [hand EXCEPT ![c] = h],
           SockOK(s, h, Len(FramesOf[c]))
    PROVE  OrderInv'
<1>1. h \in HandMaps /\ DOMAIN h = 1 .. Len(FramesOf[c])
  BY ConnAssumption DEF HandMaps
<1>2. /\ sock'[c] = s /\ hand'[c] = h
      /\ \A d \in Conn : d # c => sock'[d] = sock[d] /\ hand'[d] = hand[d]
  BY DEF OrderInv
<1>3. sock' \in [Conn -> Socks] /\ hand' \in [Conn -> HandMaps]
  BY <1>1 DEF OrderInv
<1>4. \A d \in Conn : /\ DOMAIN hand'[d] = 1 .. Len(FramesOf[d])
                      /\ SockOK(sock'[d], hand'[d], Len(FramesOf[d]))
  BY <1>1, <1>2 DEF OrderInv
<1> QED
  BY <1>3, <1>4 DEF OrderInv

(* What is known of one connection.                                        *)
LEMMA ConnIs ==
    ASSUME OrderInv, NEW c \in Conn
    PROVE  /\ sock[c] \in Socks /\ hand[c] \in [1 .. Len(FramesOf[c]) -> Hands]
           /\ Len(FramesOf[c]) \in Nat
           /\ SockOK(sock[c], hand[c], Len(FramesOf[c]))
<1>1. hand[c] \in HandMaps /\ DOMAIN hand[c] = 1 .. Len(FramesOf[c])
  BY DEF OrderInv
<1>2. PICK k \in Nat : hand[c] \in [1 .. k -> Hands]
  BY <1>1 DEF HandMaps
<1> QED
  BY <1>1, <1>2, ConnAssumption DEF OrderInv

LEMMA SockTypes ==
    ASSUME NEW s \in Socks
    PROVE  /\ s.read \in Nat /\ s.join \in Nat /\ s.channel \in Seq(Nat) /\ s.wire \in Seq(Nat)
           /\ Sent(s) \in Int /\ Len(s.wire) \in Nat /\ Len(s.channel) \in Nat /\ Settled(s) \in Int
<1>1. s.read \in Nat /\ s.join \in Nat /\ s.channel \in Seq(Nat) /\ s.wire \in Seq(Nat)
  BY DEF Socks
<1>2. Len(s.wire) \in Nat /\ Len(s.channel) \in Nat
  BY <1>1
<1> QED
  BY <1>1, <1>2 DEF Sent, Settled

(* A handler that goes on or ends tells no less than before.               *)
LEMMA HandlerMoves ==
    ASSUME OrderInv, NEW c \in Conn, NEW n \in 1 .. Len(FramesOf[c]), NEW w \in Hands,
           hand[c][n].pc \in {"begin", "handle"}, w.pc \in {"handle", "done"},
           w.out = "Silent" => w.pc = "done",
           UNCHANGED sock, hand' = [hand EXCEPT ![c] = [hand[c] EXCEPT ![n] = w]]
    PROVE  OrderInv'
<1> DEFINE s == sock[c]
           h == hand[c]
           g == [hand[c] EXCEPT ![n] = w]
<1>1. /\ s \in Socks /\ h \in [1 .. Len(FramesOf[c]) -> Hands] /\ Len(FramesOf[c]) \in Nat
      /\ SockOK(s, h, Len(FramesOf[c]))
  BY ConnIs
<1>2. g \in [1 .. Len(FramesOf[c]) -> Hands] /\ g[n] = w
      /\ \A m \in 1 .. Len(FramesOf[c]) : m # n => g[m] = h[m]
  BY <1>1
<1>3. h[n].out # "Silent"
  BY <1>1 DEF SockOK
<1>4. \A m : h[m].out = "Silent" => g[m].out = "Silent"
  <2> SUFFICES ASSUME NEW m, h[m].out = "Silent", m # n PROVE g[m] = h[m]
    BY <1>3
  <2> QED
    BY <1>1
<1> HIDE DEF g, h, s
<1>5. \A m : ToldOf(s, h, m) => ToldOf(s, g, m)
  BY <1>4 DEF ToldOf
<1>6. ReadOK(s, g, Len(FramesOf[c]))
  BY <1>1, <1>2 DEF SockOK, ReadOK, h
<1>7. SockOK(s, g, Len(FramesOf[c]))
  BY <1>1, <1>2, <1>5, <1>6 DEF SockOK, WireOK, SettledOK
<1>8. sock' = [sock EXCEPT ![c] = s]
  BY DEF OrderInv, s
<1> QED
  BY <1>1, <1>2, <1>7, <1>8, OneConn DEF g

(* A step of the reader or the writer.                                     *)
LEMMA SockMoves ==
    ASSUME OrderInv, NEW c \in Conn, NEW s \in Socks, SockOK(s, hand[c], Len(FramesOf[c])),
           sock' = [sock EXCEPT ![c] = s], UNCHANGED hand
    PROVE  OrderInv'
<1>1. hand' = [hand EXCEPT ![c] = hand[c]]
  BY DEF OrderInv
<1> QED
  BY <1>1, ConnIs, OneConn

(* A step of the reader that gives the writer nothing.                     *)
LEMMA ReaderMoves ==
    ASSUME OrderInv, NEW c \in Conn, NEW s \in Socks, sock' = [sock EXCEPT ![c] = s], UNCHANGED hand,
           sock[c].reader = "reading", ReadOK(s, hand[c], Len(FramesOf[c])), Sent(s) = Sent(sock[c]),
           s.writer = sock[c].writer, s.join = sock[c].join, s.channel = sock[c].channel,
           s.wire = sock[c].wire, s.ended = sock[c].ended
    PROVE  OrderInv'
<1> DEFINE t == sock[c]
           h == hand[c]
<1>1. t \in Socks /\ SockOK(t, h, Len(FramesOf[c]))
  BY ConnIs
<1>2. t.writer # "over" /\ t.ended = "open"
  BY <1>1 DEF SockOK, ReadOK, Reading
<1> HIDE DEF h, t
<1>3. \A n : ToldOf(t, h, n) => ToldOf(s, h, n)
  BY DEF ToldOf, t
<1>4. Settled(s) = Settled(t)
  BY DEF Settled, t
<1>5. ChannelOK(s)
  BY <1>1, <1>2 DEF SockOK, ChannelOK, t
<1>6. WireOK(s, h)
  BY <1>1, <1>2, <1>3 DEF SockOK, WireOK, t
<1>7. SettledOK(s, h)
  BY <1>1, <1>2, <1>3, <1>4 DEF SockOK, SettledOK, t
<1>8. SockOK(s, h, Len(FramesOf[c]))
  BY <1>1, <1>5, <1>6, <1>7 DEF SockOK, h
<1> QED
  BY <1>8, SockMoves DEF h

LEMMA ReadFrameKeeps ==
    ASSUME OrderInv, NEW c \in Conn, ReadFrame(c)
    PROVE  OrderInv'
<1>1. /\ sock[c] \in Socks /\ SockOK(sock[c], hand[c], Len(FramesOf[c])) /\ Len(FramesOf[c]) \in Nat
      /\ sock[c].reader = "reading" /\ sock[c].read < Len(FramesOf[c]) /\ UNCHANGED hand
  BY ConnIs DEF ReadFrame
<1>2. sock[c].read \in Nat
  BY <1>1, SockTypes
<1>3. CASE Frame(c, sock[c].read + 1).kind = "too_large"
  <2> DEFINE s == [sock[c] EXCEPT !.reader = "FrameTooLarge"]
  <2>1. sock' = [sock EXCEPT ![c] = s]
    BY <1>3 DEF ReadFrame
  <2>2. /\ s \in Socks /\ s.reader = "FrameTooLarge" /\ s.read = sock[c].read
        /\ s.writer = sock[c].writer /\ s.join = sock[c].join /\ s.channel = sock[c].channel
        /\ s.wire = sock[c].wire /\ s.ended = sock[c].ended
    BY <1>1 DEF Socks
  <2> HIDE DEF s
  <2>3. ReadOK(s, hand[c], Len(FramesOf[c])) /\ Sent(s) = Sent(sock[c])
    BY <1>1, <2>2 DEF SockOK, ReadOK, Sent, Reading
  <2> QED
    BY <1>1, <2>1, <2>2, <2>3, ReaderMoves
<1>4. CASE Frame(c, sock[c].read + 1).kind # "too_large"
  <2> DEFINE r == sock[c].read + 1
             s == [sock[c] EXCEPT !.reader = "permit", !.read = r]
  <2>1. sock' = [sock EXCEPT ![c] = s]
    BY <1>4 DEF ReadFrame
  <2>r. r \in Nat /\ r = sock[c].read + 1
    BY <1>2
  <2> HIDE DEF r
  <2>2. /\ s \in Socks /\ s.reader = "permit" /\ s.read = r
        /\ s.writer = sock[c].writer /\ s.join = sock[c].join /\ s.channel = sock[c].channel
        /\ s.wire = sock[c].wire /\ s.ended = sock[c].ended
    BY <1>1, <2>r DEF Socks, Reading
  <2> HIDE DEF s
  <2>3. ReadOK(s, hand[c], Len(FramesOf[c])) /\ Sent(s) = Sent(sock[c])
    BY <1>1, <1>2, <2>r, <2>2 DEF SockOK, ReadOK, Sent, Reading
  <2> QED
    BY <1>1, <2>1, <2>2, <2>3, ReaderMoves
<1> QED
  BY <1>3, <1>4

LEMMA ReadEndsKeeps ==
    ASSUME OrderInv, NEW c \in Conn, ReadEnds(c)
    PROVE  OrderInv'
<1> DEFINE s == [sock[c] EXCEPT !.reader = "ended"]
<1>1. /\ sock[c] \in Socks /\ SockOK(sock[c], hand[c], Len(FramesOf[c])) /\ Len(FramesOf[c]) \in Nat
      /\ sock[c].reader = "reading" /\ UNCHANGED hand /\ sock' = [sock EXCEPT ![c] = s]
  BY ConnIs DEF ReadEnds
<1>2. /\ s \in Socks /\ s.reader = "ended" /\ s.read = sock[c].read
      /\ s.writer = sock[c].writer /\ s.join = sock[c].join /\ s.channel = sock[c].channel
      /\ s.wire = sock[c].wire /\ s.ended = sock[c].ended
  BY <1>1 DEF Socks
<1> HIDE DEF s
<1>3. ReadOK(s, hand[c], Len(FramesOf[c])) /\ Sent(s) = Sent(sock[c])
  BY <1>1, <1>2 DEF SockOK, ReadOK, Sent, Reading
<1> QED
  BY <1>1, <1>2, <1>3, ReaderMoves

(* A permit is had: the frame's handler is born.                           *)
LEMMA SpawnKeeps ==
    ASSUME OrderInv, NEW c \in Conn, Spawn(c)
    PROVE  OrderInv'
<1> DEFINE s == [sock[c] EXCEPT !.reader = "sending"]
           w == [hand[c][sock[c].read] EXCEPT !.pc = "begin"]
           g == [hand[c] EXCEPT ![sock[c].read] = w]
           t == sock[c]
           h == hand[c]
<1>1. /\ t \in Socks /\ SockOK(t, h, Len(FramesOf[c])) /\ Len(FramesOf[c]) \in Nat
      /\ h \in [1 .. Len(FramesOf[c]) -> Hands]
      /\ t.reader = "permit" /\ sock' = [sock EXCEPT ![c] = s] /\ hand' = [hand EXCEPT ![c] = g]
  BY ConnIs DEF Spawn
<1>2. /\ s \in Socks /\ s.reader = "sending" /\ s.read = t.read
      /\ s.writer = t.writer /\ s.join = t.join /\ s.channel = t.channel
      /\ s.wire = t.wire /\ s.ended = t.ended
  BY <1>1 DEF Socks, Reading
<1>3. t.read \in 1 .. Len(FramesOf[c])
  BY <1>1, SockTypes DEF SockOK, ReadOK
<1>4. h[t.read] \in Hands /\ h[t.read].pc = "unborn"
  BY <1>1, <1>3 DEF SockOK, ReadOK
<1>5. w \in Hands /\ w.out = h[t.read].out
  BY <1>4 DEF Hands
<1> HIDE DEF w
<1>6. /\ g \in [1 .. Len(FramesOf[c]) -> Hands]
      /\ \A n \in 1 .. Len(FramesOf[c]) : n # t.read => g[n] = h[n]
      /\ g[t.read] = w
  BY <1>1, <1>3, <1>5
<1>7. \A n : h[n].out = "Silent" => g[n].out = "Silent"
  <2> SUFFICES ASSUME NEW n, n # t.read PROVE g[n] = h[n]
    BY <1>5, <1>6
  <2> QED
    BY <1>1
<1> HIDE DEF g, s, t, h
<1>8. t.writer # "over"
  BY <1>1 DEF SockOK, ReadOK, Reading
<1>9. \A n : ToldOf(t, h, n) => ToldOf(s, g, n)
  BY <1>2, <1>7 DEF ToldOf
<1>10. Sent(s) = Sent(t) /\ Settled(s) = Settled(t)
  BY <1>1, <1>2 DEF Sent, Settled
<1>11. ReadOK(s, g, Len(FramesOf[c]))
  <2>1. \A n \in 1 .. Len(FramesOf[c]) : n > s.read => n # t.read
    BY <1>2, <1>3
  <2> QED
    BY <1>1, <1>2, <1>6, <1>8, <2>1 DEF SockOK, ReadOK, Reading
<1>12. ChannelOK(s)
  BY <1>1, <1>2, <1>8, <1>10 DEF SockOK, ChannelOK
<1>13. WireOK(s, g) /\ SettledOK(s, g)
  BY <1>1, <1>2, <1>8, <1>9, <1>10 DEF SockOK, WireOK, SettledOK
<1>14. \A n \in 1 .. Len(FramesOf[c]) : g[n].out = "Silent" => g[n].pc = "done"
  BY <1>1, <1>4, <1>5, <1>6 DEF SockOK
<1>15. SockOK(s, g, Len(FramesOf[c]))
  BY <1>11, <1>12, <1>13, <1>14 DEF SockOK
<1> QED
  BY <1>1, <1>2, <1>6, <1>15, OneConn

(* The handle goes into the channel, behind the others.                    *)
LEMMA SendHandleKeeps ==
    ASSUME OrderInv, NEW c \in Conn, SendHandle(c)
    PROVE  OrderInv'
<1> DEFINE t == sock[c]
           h == hand[c]
           q == Append(sock[c].channel, sock[c].read)
           s == [sock[c] EXCEPT !.reader = "reading", !.channel = q]
<1>1. /\ t \in Socks /\ SockOK(t, h, Len(FramesOf[c])) /\ Len(FramesOf[c]) \in Nat
      /\ t.reader = "sending" /\ sock' = [sock EXCEPT ![c] = s] /\ UNCHANGED hand
  BY ConnIs DEF SendHandle
<1>2. /\ t.channel \in Seq(Nat) /\ t.read \in Nat /\ Len(t.channel) \in Nat /\ t.wire \in Seq(Nat)
      /\ Len(t.wire) \in Nat
  BY <1>1, SockTypes
<1>3. /\ q \in Seq(Nat) /\ Len(q) = Len(t.channel) + 1 /\ q[Len(t.channel) + 1] = t.read
      /\ \A i \in 1 .. Len(t.channel) : q[i] = t.channel[i]
  BY <1>2
<1> HIDE DEF q
<1>4. /\ s \in Socks /\ s.reader = "reading" /\ s.read = t.read
      /\ s.writer = t.writer /\ s.join = t.join /\ s.channel = q
      /\ s.wire = t.wire /\ s.ended = t.ended
  BY <1>1, <1>3 DEF Socks, Reading
<1> HIDE DEF s, t, h
<1>5. t.writer # "over"
  BY <1>1 DEF SockOK, ReadOK, Reading
<1>6. \A n : ToldOf(t, h, n) => ToldOf(s, h, n)
  BY <1>4 DEF ToldOf
<1>7. Sent(s) = t.read /\ Sent(t) = t.read - 1
  BY <1>1, <1>4 DEF Sent
<1>8. ChannelOK(t) /\ SettledOK(t, h)
  BY <1>1, <1>5 DEF SockOK
<1>9. Settled(s) = Settled(t)
  <2>1. Sent(s) - Len(s.channel) = Sent(t) - Len(t.channel)
    <3> DEFINE k == Len(t.channel)
               r == t.read
    <3>1. k \in Int /\ r \in Int /\ Len(s.channel) = k + 1
      BY <1>2, <1>3, <1>4
    <3>2. Sent(s) = r /\ Sent(t) = r - 1
      BY <1>7
    <3> HIDE DEF k, r
    <3>3. r - (k + 1) = (r - 1) - k
      BY <3>1
    <3>4. Sent(s) - Len(s.channel) = r - (k + 1)
      BY <3>1, <3>2
    <3>5. Sent(t) - Len(t.channel) = (r - 1) - k
      BY <3>2 DEF k
    <3> QED
      BY <3>3, <3>4, <3>5
  <2> QED
    BY <1>4, <2>1 DEF Settled
<1>10. ChannelOK(s)
  <2>1. ASSUME NEW i \in 1 .. Len(q) PROVE q[i] = Sent(s) - Len(q) + i
    <3>1. CASE i = Len(t.channel) + 1
      BY <1>2, <1>3, <1>7, <3>1
    <3>2. CASE i # Len(t.channel) + 1
      <4>1. i \in 1 .. Len(t.channel)
        BY <1>2, <1>3, <3>2
      <4>2. q[i] = Sent(t) - Len(t.channel) + i
        BY <1>3, <1>8, <4>1 DEF ChannelOK
      <4> QED
        BY <1>2, <1>3, <1>7, <4>1, <4>2
    <3> QED
      BY <3>1, <3>2
  <2>2. Len(q) <= Sent(s)
    BY <1>2, <1>3, <1>7, <1>8 DEF ChannelOK
  <2>3. s.writer = "join" => s.join >= 1 /\ s.join = Sent(s) - Len(q)
    BY <1>2, <1>3, <1>4, <1>7, <1>8 DEF ChannelOK
  <2> QED
    BY <1>4, <2>1, <2>2, <2>3 DEF ChannelOK
<1>11. WireOK(s, h) /\ SettledOK(s, h)
  BY <1>1, <1>4, <1>6, <1>8, <1>9 DEF SockOK, WireOK, SettledOK
<1>12. ReadOK(s, h, Len(FramesOf[c]))
  BY <1>1, <1>4, <1>5 DEF SockOK, ReadOK
<1>13. SockOK(s, h, Len(FramesOf[c]))
  BY <1>1, <1>10, <1>11, <1>12 DEF SockOK
<1> QED
  BY <1>1, <1>4, <1>13, SockMoves DEF h

(* The writer takes the oldest handle.                                     *)
LEMMA ReceiveKeeps ==
    ASSUME OrderInv, NEW c \in Conn, Receive(c)
    PROVE  OrderInv'
<1> DEFINE t == sock[c]
           h == hand[c]
           q == Tail(sock[c].channel)
           j == Head(sock[c].channel)
           s == [sock[c] EXCEPT !.writer = "join", !.join = j, !.channel = q]
<1>1. /\ t \in Socks /\ SockOK(t, h, Len(FramesOf[c])) /\ Len(FramesOf[c]) \in Nat
      /\ t.writer = "recv" /\ t.channel # <<>>
      /\ sock' = [sock EXCEPT ![c] = s] /\ UNCHANGED hand
  BY ConnIs DEF Receive
<1>2. /\ t.channel \in Seq(Nat) /\ t.read \in Nat /\ Len(t.channel) \in Nat /\ t.wire \in Seq(Nat)
      /\ Len(t.wire) \in Nat /\ Sent(t) \in Int
  BY <1>1, SockTypes
<1>3. /\ q \in Seq(Nat) /\ Len(q) = Len(t.channel) - 1 /\ j = t.channel[1] /\ j \in Nat
      /\ \A i \in 1 .. Len(q) : q[i] = t.channel[i + 1]
      /\ Len(t.channel) >= 1
  BY <1>1, <1>2
<1> HIDE DEF q, j
<1>4. /\ s \in Socks /\ s.reader = t.reader /\ s.read = t.read
      /\ s.writer = "join" /\ s.join = j /\ s.channel = q
      /\ s.wire = t.wire /\ s.ended = t.ended
  <2>1. s \in Socks
    BY <1>1, <1>3 DEF Socks
  <2>2. s.reader = t.reader /\ s.read = t.read
    BY <1>1 DEF Socks
  <2>3. s.writer = "join"
    BY <1>1 DEF Socks
  <2>4. s.join = j
    BY <1>1 DEF Socks
  <2>5. s.channel = q
    BY <1>1 DEF Socks
  <2>6. s.wire = t.wire /\ s.ended = t.ended
    BY <1>1 DEF Socks
  <2> HIDE DEF s, t
  <2> QED
    BY <2>1, <2>2, <2>3, <2>4, <2>5, <2>6
<1> HIDE DEF s, t, h
<1>6. \A n : ToldOf(t, h, n) => ToldOf(s, h, n)
  BY <1>4 DEF ToldOf
<1>7. Sent(s) = Sent(t)
  BY <1>4 DEF Sent
<1>8. ChannelOK(t) /\ SettledOK(t, h)
  BY <1>1 DEF SockOK
<1> DEFINE m == Len(t.channel)
<1>5. m \in Nat /\ m >= 1 /\ Len(q) = m - 1
  BY <1>2, <1>3
<1>9. j = Sent(t) - Len(t.channel) + 1 /\ Len(t.channel) <= Sent(t)
  <2>1. m <= Sent(t) /\ \A i \in 1 .. m : t.channel[i] = Sent(t) - m + i
    BY <1>8 DEF ChannelOK
  <2> HIDE DEF m
  <2>2. 1 \in 1 .. m
    BY <1>5
  <2>3. t.channel[1] = Sent(t) - m + 1
    BY <2>1, <2>2
  <2>4. j = t.channel[1]
    BY <1>3
  <2> QED
    BY <2>1, <2>3, <2>4 DEF m
<1>10. ChannelOK(s)
  <2>1. ASSUME NEW i \in 1 .. Len(q) PROVE q[i] = Sent(s) - Len(q) + i
    <3>1. i + 1 \in 1 .. Len(t.channel)
      <4>1. i \in 1 .. m - 1
        BY <1>5
      <4> HIDE DEF m
      <4>2. i + 1 \in 1 .. m
        BY <1>5, <4>1
      <4> QED
        BY <4>2 DEF m
    <3>2. t.channel[i + 1] = Sent(t) - Len(t.channel) + (i + 1)
      BY <1>8, <3>1 DEF ChannelOK
    <3>3. Sent(t) - Len(t.channel) + (i + 1) = Sent(s) - Len(q) + i
      <4> DEFINE k == Len(t.channel)
                 a == Sent(t)
      <4>1. k \in Int /\ a \in Int /\ i \in Int /\ Len(q) = k - 1 /\ Sent(s) = a
        BY <1>2, <1>3, <1>7
      <4> HIDE DEF k, a
      <4>2. a - k + (i + 1) = a - (k - 1) + i
        BY <4>1
      <4>3. Sent(s) - Len(q) + i = a - (k - 1) + i
        BY <4>1
      <4> QED
        BY <4>2, <4>3 DEF a, k
    <3> QED
      BY <1>3, <3>2, <3>3
  <2>2. Len(q) <= Sent(s) /\ j >= 1 /\ j = Sent(s) - Len(q)
    BY <1>2, <1>3, <1>7, <1>9
  <2> QED
    BY <1>4, <2>1, <2>2 DEF ChannelOK
<1>11. Settled(s) = Settled(t)
  BY <1>1, <1>2, <1>3, <1>4, <1>9 DEF Settled
<1>12. WireOK(s, h) /\ SettledOK(s, h)
  BY <1>1, <1>4, <1>6, <1>8, <1>11 DEF SockOK, WireOK, SettledOK
<1>13. ReadOK(s, h, Len(FramesOf[c]))
  BY <1>1, <1>4 DEF SockOK, ReadOK
<1>14. SockOK(s, h, Len(FramesOf[c]))
  BY <1>1, <1>10, <1>12, <1>13 DEF SockOK
<1> QED
  BY <1>1, <1>4, <1>14, SockMoves DEF h

(* A joined frame is settled, whether its answer went on the wire or none  *)
(* is wanted.                                                              *)
LEMMA WriterSettles ==
    ASSUME OrderInv, NEW c \in Conn, NEW s \in Socks, sock' = [sock EXCEPT ![c] = s], UNCHANGED hand,
           sock[c].writer = "join", s.writer = "recv", s.reader = sock[c].reader,
           s.read = sock[c].read, s.channel = sock[c].channel, s.ended = sock[c].ended,
           \/ s.wire = Append(sock[c].wire, sock[c].join)
           \/ s.wire = sock[c].wire /\ hand[c][sock[c].join].out = "Silent"
    PROVE  OrderInv'
<1> DEFINE t == sock[c]
           h == hand[c]
           j == sock[c].join
           k == Len(sock[c].wire)
<1>1. t \in Socks /\ SockOK(t, h, Len(FramesOf[c])) /\ t.writer # "over"
  BY ConnIs
<1>2. /\ j \in Nat /\ k \in Nat /\ t.wire \in Seq(Nat) /\ Len(s.wire) \in Nat
      /\ Sent(t) \in Int /\ Len(t.channel) \in Nat
  BY <1>1, SockTypes
<1>3. ChannelOK(t) /\ SettledOK(t, h) /\ WireOK(t, h) /\ t.ended = "open"
  BY <1>1 DEF SockOK, ReadOK
<1>4. j >= 1 /\ j = Sent(t) - Len(t.channel)
  BY <1>3 DEF ChannelOK
<1>5. Settled(t) = j - 1 /\ Settled(s) = j
  <2>1. Sent(s) = Sent(t)
    BY DEF Sent
  <2> QED
    BY <1>4, <2>1 DEF Settled
<1>6. /\ \A i \in 1 .. k : s.wire[i] = t.wire[i]
      /\ \/ Len(s.wire) = k
         \/ Len(s.wire) = k + 1 /\ s.wire[k + 1] = j
  <2>1. CASE s.wire = Append(t.wire, j)
    BY <1>2, <2>1
  <2>2. CASE s.wire = t.wire
    BY <1>2, <2>2
  <2> QED
    BY <2>1, <2>2
<1>7. \A n : ToldOf(t, h, n) => ToldOf(s, h, n)
  <2>1. Len(t.wire) \in Nat /\ Len(s.wire) \in Nat /\ Len(t.wire) <= Len(s.wire)
    BY <1>2, <1>6
  <2>2. \A i \in 1 .. Len(t.wire) : s.wire[i] = t.wire[i]
    BY <1>6
  <2> HIDE DEF t, h, j, k
  <2> QED
    BY <2>1, <2>2, ToldStays
<1>8. ToldOf(s, h, j)
  <2>1. CASE s.wire = Append(t.wire, j)
    <3>1. Len(s.wire) = k + 1 /\ s.wire[k + 1] = j
      BY <1>2, <2>1
    <3> QED
      BY <1>2, <3>1 DEF ToldOf
  <2>2. CASE h[j].out = "Silent"
    BY <2>2 DEF ToldOf
  <2> QED
    BY <2>1, <2>2
<1>9. \A i \in 1 .. k : t.wire[i] \in Nat /\ t.wire[i] <= j - 1
  BY SMTT(30), <1>2, <1>3, <1>5 DEF SettledOK
<1>10. \A i \in 1 .. Len(s.wire) : i \in 1 .. k \/ (i = k + 1 /\ s.wire[i] = j)
  BY <1>2, <1>6
<1> HIDE DEF t, h, j, k
<1>11. SettledOK(s, h)
  <2>1. ASSUME NEW n \in 1 .. j PROVE ToldOf(s, h, n)
    <3>1. n = j \/ n \in 1 .. j - 1
      BY <1>2
    <3> QED
      BY <1>3, <1>5, <1>7, <1>8, <3>1 DEF SettledOK
  <2>2. ASSUME NEW i \in 1 .. Len(s.wire) PROVE s.wire[i] <= j
    <3>1. CASE i \in 1 .. k
      <4> DEFINE v == s.wire[i]
      <4>1. v \in Nat /\ v <= j - 1
        BY <1>6, <1>9, <3>1
      <4> HIDE DEF v
      <4>2. v <= j
        BY <1>2, <4>1
      <4> QED
        BY <4>2 DEF v
    <3>2. CASE s.wire[i] = j
      BY <1>2, <3>2
    <3> QED
      BY <1>10, <3>1, <3>2
  <2> QED
    BY <1>5, <2>1, <2>2 DEF SettledOK
<1>12. WireOK(s, h)
  <2>1. ASSUME NEW i \in 1 .. Len(s.wire) - 1 PROVE s.wire[i] < s.wire[i + 1]
    <3>1. i \in 1 .. k /\ i + 1 \in 1 .. Len(s.wire)
      BY <1>2, <1>6
    <3>2. CASE i + 1 \in 1 .. k
      <4>1. i \in 1 .. Len(t.wire) - 1
        BY <1>2, <3>1, <3>2 DEF k, t
      <4>2. t.wire[i] < t.wire[i + 1]
        BY <1>3, <4>1 DEF WireOK
      <4> QED
        BY <1>6, <3>1, <3>2, <4>2
    <3>3. CASE s.wire[i + 1] = j
      BY SMTT(30), <1>2, <1>6, <1>9, <3>1, <3>3
    <3> QED
      BY <1>10, <3>1, <3>2, <3>3
  <2>2. ASSUME NEW i \in 1 .. Len(s.wire), NEW n \in 1 .. s.wire[i] - 1 PROVE ToldOf(s, h, n)
    <3>1. CASE i \in 1 .. k
      <4>1. i \in 1 .. Len(t.wire) /\ n \in 1 .. t.wire[i] - 1
        BY <1>6, <3>1 DEF k, t
      <4> QED
        BY <1>3, <1>7, <4>1 DEF WireOK
    <3>2. CASE s.wire[i] = j
      BY <1>3, <1>5, <1>7, <3>2 DEF SettledOK
    <3> QED
      BY <1>10, <3>1, <3>2
  <2> QED
    BY <1>3, <2>1, <2>2 DEF WireOK, t
<1>13. ReadOK(s, h, Len(FramesOf[c]))
  BY <1>1, <1>3 DEF SockOK, ReadOK, t
<1>14. ChannelOK(s)
  BY <1>3 DEF ChannelOK, Sent, t
<1>15. SockOK(s, h, Len(FramesOf[c]))
  BY <1>1, <1>11, <1>12, <1>13, <1>14 DEF SockOK
<1> QED
  BY <1>15, SockMoves DEF h

LEMMA WriteReplyKeeps ==
    ASSUME OrderInv, NEW c \in Conn, WriteReply(c)
    PROVE  OrderInv'
<1> DEFINE W == Append(sock[c].wire, sock[c].join)
           s == [sock[c] EXCEPT !.writer = "recv", !.wire = W]
<1>1. /\ sock[c] \in Socks /\ sock[c].writer = "join" /\ sock' = [sock EXCEPT ![c] = s]
      /\ UNCHANGED hand
  BY ConnIs DEF WriteReply, Joined
<1>2. W \in Seq(Nat)
  BY <1>1, SockTypes
<1>3. W = Append(sock[c].wire, sock[c].join)
  OBVIOUS
<1> HIDE DEF W
<1>4. /\ s \in Socks /\ s.reader = sock[c].reader /\ s.read = sock[c].read /\ s.writer = "recv"
      /\ s.channel = sock[c].channel /\ s.wire = W /\ s.ended = sock[c].ended
  BY <1>1, <1>2 DEF Socks
<1> HIDE DEF s
<1> QED
  BY <1>1, <1>3, <1>4, WriterSettles

LEMMA SkipSilentKeeps ==
    ASSUME OrderInv, NEW c \in Conn, SkipSilent(c)
    PROVE  OrderInv'
<1> DEFINE s == [sock[c] EXCEPT !.writer = "recv"]
<1>1. /\ sock[c] \in Socks /\ sock[c].writer = "join" /\ sock' = [sock EXCEPT ![c] = s]
      /\ UNCHANGED hand /\ hand[c][sock[c].join].out = "Silent"
  BY ConnIs DEF SkipSilent, Joined, JoinedOut
<1>2. /\ s \in Socks /\ s.reader = sock[c].reader /\ s.read = sock[c].read /\ s.writer = "recv"
      /\ s.channel = sock[c].channel /\ s.wire = sock[c].wire /\ s.ended = sock[c].ended
  BY <1>1 DEF Socks
<1> HIDE DEF s
<1> QED
  BY <1>1, <1>2, WriterSettles

(* The connection ends, drained only if everything it read is told.        *)
LEMMA StopsKeeps ==
    ASSUME OrderInv, NEW c \in Conn, NEW why \in {"HandlerClosed", "HandlerPanicked", "TimedOut",
                                                  "Drained", "Dropped"},
           Stops(c, why), UNCHANGED hand, sock[c].ended = "open",
           why = "Drained" => \A n \in 1 .. sock[c].read : ToldOf(sock[c], hand[c], n)
    PROVE  OrderInv'
<1> DEFINE t == sock[c]
           h == hand[c]
           r == IF t.reader \in {"reading", "permit", "sending"} THEN "aborted" ELSE t.reader
           s == [t EXCEPT !.writer = "over", !.ended = why, !.reader = r]
<1>1. /\ t \in Socks /\ SockOK(t, h, Len(FramesOf[c])) /\ sock' = [sock EXCEPT ![c] = s]
      /\ t.ended = "open"
  BY ConnIs DEF Stops
<1>2. r \in {"FrameTooLarge", "ended", "aborted"}
  BY <1>1 DEF Socks, Reading
<1> HIDE DEF r
<1>3. s \in Socks
  BY <1>1, <1>2 DEF Socks
<1>4. s.read = t.read /\ s.wire = t.wire
  BY <1>1 DEF Socks
<1>5. s.writer = "over"
  BY <1>1 DEF Socks
<1>6. s.ended = why
  BY <1>1 DEF Socks
<1>7. s.reader = r
  BY <1>1 DEF Socks
<1>8. why = "Drained" => \A n \in 1 .. t.read : ToldOf(t, h, n)
  OBVIOUS
<1> HIDE DEF s, t, h
<1>9. ReadOK(s, h, Len(FramesOf[c]))
  BY <1>1, <1>2, <1>4, <1>5, <1>6, <1>7 DEF SockOK, ReadOK, Reading
<1>10. \A n : ToldOf(t, h, n) => ToldOf(s, h, n)
  BY <1>4 DEF ToldOf
<1>11. WireOK(s, h)
  BY <1>1, <1>4, <1>6, <1>8, <1>10 DEF SockOK, WireOK
<1>12. SockOK(s, h, Len(FramesOf[c]))
  BY <1>1, <1>5, <1>9, <1>11 DEF SockOK
<1> QED
  BY <1>1, <1>3, <1>12, SockMoves DEF h

LEMMA DrainsKeeps ==
    ASSUME OrderInv, NEW c \in Conn, Drains(c)
    PROVE  OrderInv'
<1> DEFINE t == sock[c]
           h == hand[c]
<1>1. /\ t \in Socks /\ SockOK(t, h, Len(FramesOf[c])) /\ t.ended = "open" /\ UNCHANGED hand
      /\ t.reader \notin {"permit", "sending"} /\ t.writer = "recv" /\ t.channel = <<>>
      /\ Stops(c, "Drained")
  BY ConnIs DEF Drains, MayDrain, Open
<1>2. t.read \in Nat
  BY <1>1, SockTypes
<1>3. Settled(t) = t.read
  BY <1>1, <1>2 DEF Settled, Sent
<1>4. \A n \in 1 .. t.read : ToldOf(t, h, n)
  BY <1>1, <1>3 DEF SockOK, SettledOK
<1> QED
  BY <1>1, <1>4, StopsKeeps

(* Every handler step, for the order.                                      *)
LEMMA HandlersKeepOrder ==
    ASSUME OrderInv, SessionsKept, NEW c \in Conn, NEW n \in DOMAIN hand[c],
           \/ BeginRefused(c, n) \/ BeginVersions(c, n) \/ BeginAdmitted(c, n)
           \/ HandleData(c, n) \/ HandleSasl(c, n) \/ HandleAlter(c, n) \/ HandlePanics(c, n)
    PROVE  OrderInv'
<1> DEFINE x == hand[c][n]
<1>1. /\ n \in 1 .. Len(FramesOf[c]) /\ x \in Hands /\ UNCHANGED sock
      /\ x.pc \in {"begin", "handle"} /\ x.out # "Silent"
  <2>1. n \in 1 .. Len(FramesOf[c])
    BY DEF OrderInv
  <2>2. x \in Hands /\ SockOK(sock[c], hand[c], Len(FramesOf[c]))
    BY <2>1, ConnIs
  <2>3. UNCHANGED sock /\ x.pc \in {"begin", "handle"}
    BY DEF BeginRefused, BeginVersions, BeginAdmitted, HandleData, HandleSasl, HandleAlter, HandlePanics
  <2> QED
    BY <2>1, <2>2, <2>3 DEF SockOK
<1>2. ASSUME NEW out \in {"Reply", "Silent", "Close", "Panic"}, HandlerEnds(c, n, out)
      PROVE  OrderInv'
  <2> DEFINE w == [x EXCEPT !.pc = "done", !.out = out]
  <2>1. hand' = [hand EXCEPT ![c] = [hand[c] EXCEPT ![n] = w]]
    BY <1>2 DEF HandlerEnds
  <2>2. w \in Hands /\ w.pc = "done"
    BY <1>1 DEF Hands
  <2> HIDE DEF w
  <2> QED
    BY <1>1, <2>1, <2>2, HandlerMoves
<1>3. CASE BeginAdmitted(c, n)
  <2> DEFINE u == session[c]
             w == [x EXCEPT !.pc = "handle", !.charged = u]
  <2>1. hand' = [hand EXCEPT ![c] = [hand[c] EXCEPT ![n] = w]]
    BY <1>3 DEF BeginAdmitted
  <2>2. u \in User \cup {Nameless}
    BY DEF SessionsKept
  <2> HIDE DEF u
  <2>3. w \in Hands /\ w.pc = "handle" /\ w.out = x.out
    BY <1>1, <2>2 DEF Hands
  <2> HIDE DEF w
  <2> QED
    BY <1>1, <2>1, <2>3, HandlerMoves
<1>4. CASE HandleSasl(c, n)
  <2> DEFINE f == Frame(c, n)
             v == IF Verified(f) /\ Authenticate(c, f.user) THEN f.user ELSE x.told
             w == [x EXCEPT !.pc = "done", !.out = "Reply", !.told = v]
  <2>1. hand' = [hand EXCEPT ![c] = [hand[c] EXCEPT ![n] = w]]
    BY <1>4 DEF HandleSasl
  <2>2. v \in User \cup {Nameless}
    BY <1>1, ConnAssumption DEF Frame, Hands
  <2> HIDE DEF v
  <2>3. w \in Hands
    BY <1>1, <2>2 DEF Hands
  <2>4. w.pc = "done"
    BY <1>1 DEF Hands
  <2> HIDE DEF w
  <2> QED
    BY <1>1, <2>1, <2>3, <2>4, HandlerMoves
<1> QED
  BY <1>2, <1>3, <1>4 DEF BeginRefused, BeginVersions, HandleData, HandleAlter, HandlePanics

-----------------------------------------------------------------------------
(* Charged once.                                                           *)

LEMMA HeldIs ==
    ASSUME NEW h, NEW u, NEW x
    PROVE  x \in HeldBy(h, u) <=> \E d \in Conn : \E m \in DOMAIN h[d] :
                                      x = <<d, m>> /\ h[d][m].pc = "handle" /\ h[d][m].charged = u
<1>1. ASSUME x \in HeldBy(h, u)
      PROVE  \E d \in Conn : \E m \in DOMAIN h[d] :
                 x = <<d, m>> /\ h[d][m].pc = "handle" /\ h[d][m].charged = u
  <2>1. PICK d \in Conn : x \in {d} \X DOMAIN h[d]
    BY <1>1 DEF HeldBy
  <2>2. PICK m \in DOMAIN h[d] : x = <<d, m>>
    BY <2>1
  <2>3. x[1] = d /\ x[2] = m
    BY <2>2
  <2>4. h[x[1]][x[2]].pc = "handle" /\ h[x[1]][x[2]].charged = u
    BY <1>1 DEF HeldBy
  <2> QED
    BY <2>2, <2>3, <2>4
<1>2. ASSUME NEW d \in Conn, NEW m \in DOMAIN h[d], x = <<d, m>>, h[d][m].pc = "handle",
             h[d][m].charged = u
      PROVE  x \in HeldBy(h, u)
  <2>1. x \in {d} \X DOMAIN h[d] /\ x[1] = d /\ x[2] = m
    BY <1>2
  <2> QED
    BY <1>2, <2>1 DEF HeldBy
<1> QED
  BY <1>1, <1>2

(* Between tasks h and tasks g only task n of connection c changed.        *)
OnlyTask(h, g, c, n) ==
    /\ n \in DOMAIN h[c] /\ DOMAIN g[c] = DOMAIN h[c]
    /\ \A m \in DOMAIN h[c] : m # n => g[c][m] = h[c][m]
    /\ \A d \in Conn : d # c => g[d] = h[d]

(* One task changed: its place is the only one that may differ.            *)
LEMMA HeldHere ==
    ASSUME NEW h, NEW c \in Conn, NEW n \in DOMAIN h[c], NEW u
    PROVE  <<c, n>> \in HeldBy(h, u) <=> (h[c][n].pc = "handle" /\ h[c][n].charged = u)
BY HeldIs

LEMMA HeldElse ==
    ASSUME NEW h, NEW g, NEW c \in Conn, NEW n, NEW u, OnlyTask(h, g, c, n), NEW x, x # <<c, n>>
    PROVE  x \in HeldBy(g, u) <=> x \in HeldBy(h, u)
<1> USE DEF OnlyTask
<1>1. ASSUME x \in HeldBy(g, u) PROVE x \in HeldBy(h, u)
  <2>0. PICK d \in Conn : \E m \in DOMAIN g[d] :
            x = <<d, m>> /\ g[d][m].pc = "handle" /\ g[d][m].charged = u
    BY <1>1, HeldIs
  <2>1. PICK m \in DOMAIN g[d] :
            x = <<d, m>> /\ g[d][m].pc = "handle" /\ g[d][m].charged = u
    BY <2>0
  <2>2. m \in DOMAIN h[d] /\ g[d][m] = h[d][m]
    BY <2>1
  <2> QED
    BY <2>1, <2>2, HeldIs
<1>2. ASSUME x \in HeldBy(h, u) PROVE x \in HeldBy(g, u)
  <2>0. PICK d \in Conn : \E m \in DOMAIN h[d] :
            x = <<d, m>> /\ h[d][m].pc = "handle" /\ h[d][m].charged = u
    BY <1>2, HeldIs
  <2>1. PICK m \in DOMAIN h[d] :
            x = <<d, m>> /\ h[d][m].pc = "handle" /\ h[d][m].charged = u
    BY <2>0
  <2>2. m \in DOMAIN g[d] /\ g[d][m] = h[d][m]
    BY <2>1
  <2> QED
    BY <2>1, <2>2, HeldIs
<1> QED
  BY <1>1, <1>2

(* The task n of connection c becomes w.                                   *)
Becomes(c, n, w) == hand' = [hand EXCEPT ![c] = [hand[c] EXCEPT ![n] = w]]

LEMMA TaskIs ==
    ASSUME ChargeInv, NEW c \in Conn, NEW n \in DOMAIN hand[c]
    PROVE  /\ n \in 1 .. Len(FramesOf[c]) /\ hand[c] \in [1 .. Len(FramesOf[c]) -> Hands]
           /\ hand[c][n] \in Hands /\ session[c] \in User \cup {Nameless}
           /\ Frame(c, n).user \in User /\ Frame(c, n).limit \in Int
<1>1. hand[c] \in HandMaps /\ DOMAIN hand[c] = 1 .. Len(FramesOf[c])
  BY DEF ChargeInv
<1>2. PICK k \in Nat : hand[c] \in [1 .. k -> Hands]
  BY <1>1 DEF HandMaps
<1>3. hand[c] \in [1 .. Len(FramesOf[c]) -> Hands] /\ hand[c][n] \in Hands
  BY <1>1, <1>2
<1> QED
  BY <1>1, <1>3, ConnAssumption DEF ChargeInv, SessionsKept, Frame

LEMMA BecomesIs ==
    ASSUME ChargeInv, NEW c \in Conn, NEW n \in DOMAIN hand[c], NEW w \in Hands, Becomes(c, n, w)
    PROVE  /\ hand' \in [Conn -> HandMaps]
           /\ \A d \in Conn : DOMAIN hand'[d] = DOMAIN hand[d]
           /\ \A d \in Conn : DOMAIN hand'[d] = 1 .. Len(FramesOf[d])
           /\ \A d \in Conn : d # c => hand'[d] = hand[d]
           /\ \A m \in DOMAIN hand[c] : m # n => hand'[c][m] = hand[c][m]
           /\ hand'[c][n] = w
<1> DEFINE h == [hand[c] EXCEPT ![n] = w]
<1>1. /\ h \in [1 .. Len(FramesOf[c]) -> Hands] /\ h[n] = w /\ DOMAIN h = DOMAIN hand[c]
      /\ \A m \in DOMAIN hand[c] : m # n => h[m] = hand[c][m]
  BY TaskIs
<1>2. h \in HandMaps
  BY <1>1, ConnAssumption DEF HandMaps
<1>3. hand \in [Conn -> HandMaps] /\ \A d \in Conn : DOMAIN hand[d] = 1 .. Len(FramesOf[d])
  BY DEF ChargeInv
<1>4. hand' = [hand EXCEPT ![c] = h]
  BY DEF Becomes
<1> HIDE DEF h
<1>5. hand' \in [Conn -> HandMaps] /\ hand'[c] = h /\ \A d \in Conn : d # c => hand'[d] = hand[d]
  BY <1>2, <1>3, <1>4
<1> QED
  BY <1>1, <1>3, <1>5

(* The count follows when it moves with the one place.                     *)
LEMMA PlacesFollow ==
    ASSUME ChargeInv, NEW c \in Conn, NEW n \in DOMAIN hand[c], NEW w \in Hands, Becomes(c, n, w),
           quota' \in [User -> [in_flight : Int, limit : Int, most : Int]],
           \A u \in User :
               LET was == hand[c][n].pc = "handle" /\ hand[c][n].charged = u
                   is == w.pc = "handle" /\ w.charged = u
               IN  /\ quota'[u].most >= QUOTA /\ quota'[u].most >= quota'[u].limit
                   /\ quota'[u].in_flight <= quota'[u].most
                   /\ (was <=> is) => quota'[u].in_flight = quota[u].in_flight
                   /\ is /\ ~was => quota'[u].in_flight = quota[u].in_flight + 1
                   /\ was /\ ~is => quota'[u].in_flight = quota[u].in_flight - 1
    PROVE  QuotaType' /\ QuotaExact'
<1>1. ASSUME NEW u \in User
      PROVE  /\ IsFiniteSet(HeldBy(hand', u))
             /\ quota'[u].in_flight = Cardinality(HeldBy(hand', u))
             /\ quota'[u].in_flight \in Nat
  <2> DEFINE was == hand[c][n].pc = "handle" /\ hand[c][n].charged = u
             is == w.pc = "handle" /\ w.charged = u
             H == HeldBy(hand, u)
             G == HeldBy(hand', u)
             x == <<c, n>>
  <2>1. /\ x \in H <=> was
        /\ is => G = H \cup {x}
        /\ ~is => G = H \ {x}
    <3>g. PICK g : g = hand'
      OBVIOUS
    <3>h. PICK h : h = hand
      OBVIOUS
    <3>1. OnlyTask(h, g, c, n)
      BY <3>g, <3>h, BecomesIs DEF OnlyTask
    <3>2. g[c][n] = w
      BY <3>g, BecomesIs
    <3>0. n \in DOMAIN h[c] /\ n \in DOMAIN g[c]
      BY <3>1 DEF OnlyTask
    <3>3. <<c, n>> \in HeldBy(h, u) <=> (h[c][n].pc = "handle" /\ h[c][n].charged = u)
      BY <3>0, HeldHere
    <3>4. <<c, n>> \in HeldBy(g, u) <=> (g[c][n].pc = "handle" /\ g[c][n].charged = u)
      BY <3>0, HeldHere
    <3>5. \A y : y # <<c, n>> => (y \in HeldBy(g, u) <=> y \in HeldBy(h, u))
      BY <3>1, HeldElse
    <3>6. (x \in H <=> was) /\ (x \in G <=> is) /\ \A y : y # x => (y \in G <=> y \in H)
      BY <3>g, <3>h, <3>2, <3>3, <3>4, <3>5
    <3> HIDE DEF was, is, H, G, x
    <3> QED
      BY <3>6
  <2>2. IsFiniteSet(H) /\ quota[u].in_flight = Cardinality(H)
    BY DEF ChargeInv, QuotaType, QuotaExact
  <2>3. /\ (was <=> is) => quota'[u].in_flight = quota[u].in_flight
        /\ is /\ ~was => quota'[u].in_flight = quota[u].in_flight + 1
        /\ was /\ ~is => quota'[u].in_flight = quota[u].in_flight - 1
    OBVIOUS
  <2> HIDE DEF was, is, H, G, x
  <2>4. Cardinality(H) \in Nat
    BY <2>2, FS_CardinalityType
  <2>5. /\ x \notin H => IsFiniteSet(H \cup {x}) /\ Cardinality(H \cup {x}) = Cardinality(H) + 1
        /\ x \in H => IsFiniteSet(H \ {x}) /\ Cardinality(H \ {x}) = Cardinality(H) - 1
    BY <2>2, FS_AddElement, FS_RemoveElement
  <2>6. CASE was <=> is
    <3>1. G = H
      BY <2>1, <2>6
    <3> QED
      BY <2>2, <2>3, <2>4, <2>6, <3>1 DEF G
  <2>7. CASE is /\ ~was
    <3>1. IsFiniteSet(G) /\ Cardinality(G) = Cardinality(H) + 1
      BY <2>1, <2>5, <2>7
    <3> QED
      BY <2>2, <2>3, <2>4, <2>7, <3>1 DEF G
  <2>8. CASE was /\ ~is
    <3>1. IsFiniteSet(G) /\ Cardinality(G) = Cardinality(H) - 1
      BY <2>1, <2>5, <2>8
    <3>2. Cardinality(G) \in Nat
      BY <3>1, FS_CardinalityType
    <3> QED
      BY <2>2, <2>3, <2>8, <3>1, <3>2 DEF G
  <2> QED
    BY <2>6, <2>7, <2>8
<1>2. quota' \in [User -> [in_flight : Nat, limit : Int, most : Int]]
  <2> SUFFICES ASSUME NEW u \in User
               PROVE  quota'[u] \in [in_flight : Nat, limit : Int, most : Int]
    OBVIOUS
  <2>1. quota'[u] \in [in_flight : Int, limit : Int, most : Int] /\ quota'[u].in_flight \in Nat
    BY <1>1
  <2> QED
    BY <2>1
<1> QED
  BY <1>1, <1>2 DEF QuotaType, QuotaExact

(* A step in which no task starts or stops holding a place.                *)
LEMMA NothingHeld ==
    ASSUME ChargeInv, NEW c \in Conn, NEW n \in DOMAIN hand[c], NEW w \in Hands, Becomes(c, n, w),
           w.pc # "handle", hand[c][n].pc # "handle", w.told = hand[c][n].told,
           UNCHANGED <<session, quota, acts>>
    PROVE  ChargeInv'
<1>1. /\ hand' \in [Conn -> HandMaps]
      /\ \A d \in Conn : DOMAIN hand'[d] = DOMAIN hand[d]
      /\ \A d \in Conn : DOMAIN hand'[d] = 1 .. Len(FramesOf[d])
      /\ \A d \in Conn : d # c => hand'[d] = hand[d]
      /\ \A m \in DOMAIN hand[c] : m # n => hand'[c][m] = hand[c][m]
      /\ hand'[c][n] = w
  BY BecomesIs
<1>2. QuotaType' /\ QuotaExact'
  <2>1. quota \in [User -> [in_flight : Nat, limit : Int, most : Int]]
    BY DEF ChargeInv, QuotaType
  <2>2. quota' \in [User -> [in_flight : Int, limit : Int, most : Int]]
    <3> SUFFICES ASSUME NEW u \in User
                 PROVE  quota[u] \in [in_flight : Int, limit : Int, most : Int]
      BY <2>1
    <3> QED
      BY <2>1
  <2>3. \A u \in User : /\ quota'[u].most >= QUOTA /\ quota'[u].most >= quota'[u].limit
                        /\ quota'[u].in_flight <= quota'[u].most
                        /\ quota'[u].in_flight = quota[u].in_flight
    BY DEF ChargeInv, QuotaType, QuotaExact
  <2> QED
    BY <2>2, <2>3, PlacesFollow
<1>0. session' = session /\ acts' = acts
  OBVIOUS
<1>t. ASSUME NEW d \in Conn, NEW m \in DOMAIN hand'[d]
      PROVE  /\ m \in DOMAIN hand[d] /\ hand'[d][m].told = hand[d][m].told
             /\ hand'[d][m].pc = "handle" => hand'[d][m] = hand[d][m]
  <2>1. CASE d = c /\ m = n
    BY <1>1, <2>1
  <2>2. CASE ~(d = c /\ m = n)
    BY <1>1, <2>2
  <2> QED
    BY <2>1, <2>2
<1>3. SessionsKept'
  <2> SUFFICES ASSUME NEW d \in Conn, NEW m \in DOMAIN hand'[d], hand'[d][m].pc = "handle",
                      Frame(d, m).kind # "sasl"
               PROVE  hand'[d][m].charged = session'[d] /\ (Configured => session'[d] # Nameless)
    BY <1>0 DEF ChargeInv, SessionsKept, Frame
  <2> QED
    BY <1>0, <1>t DEF ChargeInv, SessionsKept
<1>4. ActsAsCharged'
  <2> SUFFICES ASSUME NEW d \in Conn, NEW m \in DOMAIN hand'[d], hand'[d][m].told # Nameless
               PROVE  hand'[d][m].told = session'[d]
    BY <1>0 DEF ChargeInv, ActsAsCharged, Frame
  <2> QED
    BY <1>0, <1>t DEF ChargeInv, ActsAsCharged
<1> QED
  BY <1>1, <1>2, <1>3, <1>4 DEF ChargeInv

LEMMA SocketsKeepCharges ==
    ASSUME ChargeInv, UNCHANGED <<session, hand, quota, acts>>
    PROVE  ChargeInv'
<1>1. QuotaType' /\ QuotaExact'
  BY DEF ChargeInv, QuotaType, QuotaExact
<1>2. SessionsKept'
  BY DEF ChargeInv, SessionsKept, Frame
<1>3. ActsAsCharged'
  BY DEF ChargeInv, ActsAsCharged, Frame
<1> QED
  BY <1>1, <1>2, <1>3 DEF ChargeInv

LEMMA SpawnKeepsCharges ==
    ASSUME OrderInv, ChargeInv, NEW c \in Conn, Spawn(c)
    PROVE  ChargeInv'
<1> DEFINE n == sock[c].read
           w == [hand[c][n] EXCEPT !.pc = "begin"]
<1>1. /\ sock[c] \in Socks /\ SockOK(sock[c], hand[c], Len(FramesOf[c])) /\ Len(FramesOf[c]) \in Nat
      /\ sock[c].reader = "permit"
  BY ConnIs DEF Spawn
<1>2. n \in 1 .. Len(FramesOf[c])
  BY <1>1, SockTypes DEF SockOK, ReadOK
<1>3. n \in DOMAIN hand[c] /\ hand[c][n].pc = "unborn"
  BY <1>1, <1>2 DEF SockOK, ReadOK, OrderInv
<1>4. hand[c][n] \in Hands
  BY <1>3, TaskIs
<1>5. Becomes(c, n, w) /\ UNCHANGED <<session, quota, acts>>
  BY DEF Spawn, Becomes
<1> HIDE DEF n
<1>6. w \in Hands /\ w.pc = "begin" /\ w.told = hand[c][n].told
  BY <1>4 DEF Hands
<1> HIDE DEF w
<1> QED
  BY <1>3, <1>5, <1>6, NothingHeld

LEMMA BeginEndsKeepCharges ==
    ASSUME ChargeInv, NEW c \in Conn, NEW n \in DOMAIN hand[c], BeginVersions(c, n) \/ BeginRefused(c, n)
    PROVE  ChargeInv'
<1>1. PICK out \in {"Reply", "Close"} : HandlerEnds(c, n, out)
  BY DEF BeginVersions, BeginRefused
<1> DEFINE w == [hand[c][n] EXCEPT !.pc = "done", !.out = out]
<1>2. hand[c][n] \in Hands
  BY TaskIs
<1>3. Becomes(c, n, w) /\ UNCHANGED <<session, quota, acts>> /\ hand[c][n].pc = "begin"
  <2>1. Becomes(c, n, w)
    BY <1>1 DEF HandlerEnds, Becomes
  <2> QED
    BY <2>1 DEF BeginVersions, BeginRefused
<1>4. w \in Hands /\ w.pc = "done" /\ w.told = hand[c][n].told
  BY <1>2 DEF Hands
<1> HIDE DEF w
<1> QED
  BY <1>3, <1>4, NothingHeld

(* A place is taken, one below the limit in force.                         *)
LEMMA AdmitKeepsCharges ==
    ASSUME ChargeInv, NEW c \in Conn, NEW n \in DOMAIN hand[c], BeginAdmitted(c, n)
    PROVE  ChargeInv'
<1> DEFINE p == session[c]
           w == [hand[c][n] EXCEPT !.pc = "handle", !.charged = p]
<1>1. hand[c][n] \in Hands /\ p \in User \cup {Nameless}
  BY TaskIs
<1>2. /\ Becomes(c, n, w) /\ UNCHANGED <<session, acts>> /\ hand[c][n].pc = "begin"
      /\ Frame(c, n).kind # "sasl" /\ Configured => p # Nameless
      /\ p \in User => quota[p].in_flight < LimitOf(p)
      /\ quota' = [u \in User |-> IF u = p THEN [quota[u] EXCEPT !.in_flight = quota[u].in_flight + 1]
                                  ELSE quota[u]]
  BY DEF BeginAdmitted, Becomes, MayRun, Unauthorized, PlaceLeft
<1>3. session' = session /\ p = session[c]
  BY <1>2
<1> HIDE DEF p
<1>4. w \in Hands /\ w.pc = "handle" /\ w.charged = p /\ w.told = hand[c][n].told
  BY <1>1 DEF Hands
<1> HIDE DEF w
<1>5. /\ hand' \in [Conn -> HandMaps]
      /\ \A d \in Conn : DOMAIN hand'[d] = DOMAIN hand[d]
      /\ \A d \in Conn : DOMAIN hand'[d] = 1 .. Len(FramesOf[d])
      /\ \A d \in Conn : d # c => hand'[d] = hand[d]
      /\ \A m \in DOMAIN hand[c] : m # n => hand'[c][m] = hand[c][m]
      /\ hand'[c][n] = w
  BY <1>2, <1>4, BecomesIs
<1>6. quota \in [User -> [in_flight : Nat, limit : Int, most : Int]]
  BY DEF ChargeInv, QuotaType
<1>7. ASSUME NEW u \in User
      PROVE  /\ quota'[u] \in [in_flight : Int, limit : Int, most : Int]
             /\ quota'[u].most >= QUOTA /\ quota'[u].most >= quota'[u].limit
             /\ quota'[u].in_flight <= quota'[u].most
             /\ u = p => quota'[u].in_flight = quota[u].in_flight + 1
             /\ u # p => quota'[u].in_flight = quota[u].in_flight
  <2>1. /\ quota[u].in_flight \in Nat /\ quota[u].limit \in Int /\ quota[u].most \in Int
        /\ quota[u].most >= QUOTA /\ quota[u].most >= quota[u].limit
        /\ quota[u].in_flight <= quota[u].most /\ quota[u] \in [in_flight : Nat, limit : Int, most : Int]
    BY <1>6 DEF ChargeInv, QuotaType, QuotaExact
  <2>2. CASE u # p
    <3>1. quota'[u] = quota[u]
      BY <1>2, <2>2
    <3> QED
      BY <2>1, <2>2, <3>1
  <2>3. CASE u = p
    <3> DEFINE k == quota[u].in_flight + 1
    <3>1. k \in Int /\ k = quota[u].in_flight + 1
      BY <2>1
    <3> HIDE DEF k
    <3>2. quota'[u] = [quota[u] EXCEPT !.in_flight = k]
      BY <1>2, <2>3, <3>1
    <3>3. /\ quota'[u] \in [in_flight : Int, limit : Int, most : Int] /\ quota'[u].in_flight = k
          /\ quota'[u].limit = quota[u].limit /\ quota'[u].most = quota[u].most
      BY <2>1, <3>1, <3>2
    <3>4. quota[u].in_flight < LimitOf(u) /\ LimitOf(u) \in Int /\ LimitOf(u) <= quota[u].most
      BY <1>2, <2>1, <2>3, ConnAssumption DEF LimitOf
    <3>5. k <= quota[u].most
      BY <2>1, <3>1, <3>4
    <3> QED
      BY <2>1, <2>3, <3>1, <3>3, <3>5
  <2> QED
    BY <2>2, <2>3
<1>8. quota' \in [User -> [in_flight : Int, limit : Int, most : Int]]
  BY <1>2, <1>7
<1>9. QuotaType' /\ QuotaExact'
  <2>1. \A u \in User :
            /\ quota'[u].most >= QUOTA /\ quota'[u].most >= quota'[u].limit
            /\ quota'[u].in_flight <= quota'[u].most
            /\ w.charged = u => quota'[u].in_flight = quota[u].in_flight + 1
            /\ ~(w.charged = u) => quota'[u].in_flight = quota[u].in_flight
    BY <1>4, <1>7
  <2>2. w.pc = "handle" /\ ~(hand[c][n].pc = "handle") /\ Becomes(c, n, w) /\ w \in Hands
    BY <1>2, <1>4
  <2> QED
    BY <1>8, <2>1, <2>2, PlacesFollow
<1>10. SessionsKept'
  <2> SUFFICES ASSUME NEW d \in Conn, NEW m \in DOMAIN hand'[d], hand'[d][m].pc = "handle",
                      Frame(d, m).kind # "sasl"
               PROVE  hand'[d][m].charged = session[d] /\ (Configured => session[d] # Nameless)
    BY <1>3 DEF ChargeInv, SessionsKept, Frame
  <2>1. CASE d = c /\ m = n
    BY <1>2, <1>3, <1>4, <1>5, <2>1
  <2>2. CASE ~(d = c /\ m = n)
    BY <1>5, <2>2 DEF ChargeInv, SessionsKept
  <2> QED
    BY <2>1, <2>2
<1>11. ActsAsCharged'
  BY <1>2, <1>4, <1>5 DEF ChargeInv, ActsAsCharged, Frame
<1> QED
  BY <1>5, <1>9, <1>10, <1>11 DEF ChargeInv

Placed(q) ==
    /\ q \in [User -> [in_flight : Int, limit : Int, most : Int]]
    /\ \A u \in User : q[u].most >= QUOTA /\ q[u].most >= q[u].limit /\ q[u].in_flight <= q[u].most

(* What the end of a running request leaves of the quota.                  *)
LEMMA ReleaseIs ==
    ASSUME ChargeInv, NEW c \in Conn, NEW n \in DOMAIN hand[c], NEW out
    PROVE  /\ Placed(Release(c, n, out))
           /\ \A u \in User :
                  /\ hand[c][n].charged = u => Release(c, n, out)[u].in_flight = quota[u].in_flight - 1
                  /\ hand[c][n].charged # u => Release(c, n, out)[u].in_flight = quota[u].in_flight
<1> DEFINE q == Release(c, n, out)
           p == hand[c][n].charged
<1>1. ASSUME NEW u \in User
      PROVE  /\ q[u] \in [in_flight : Int, limit : Int, most : Int]
             /\ q[u].most >= QUOTA /\ q[u].most >= q[u].limit /\ q[u].in_flight <= q[u].most
             /\ u = p => q[u].in_flight = quota[u].in_flight - 1
             /\ u # p => q[u].in_flight = quota[u].in_flight
  <2>1. /\ quota[u].in_flight \in Nat /\ quota[u].limit \in Int /\ quota[u].most \in Int
        /\ quota[u].most >= QUOTA /\ quota[u].most >= quota[u].limit
        /\ quota[u].in_flight <= quota[u].most /\ quota[u] \in [in_flight : Nat, limit : Int, most : Int]
    BY DEF ChargeInv, QuotaType, QuotaExact
  <2>2. CASE u # p
    <3>1. q[u] = quota[u]
      BY <2>2 DEF Release
    <3> HIDE DEF q, p
    <3> QED
      BY <2>1, <2>2, <3>1
  <2>3. CASE u = p
    <3> DEFINE k == quota[u].in_flight - 1
    <3>1. k \in Int /\ k = quota[u].in_flight - 1 /\ k <= quota[u].most
      BY <2>1
    <3>2. q[u] = [quota[u] EXCEPT !.in_flight = k]
      BY <2>3 DEF Release
    <3> HIDE DEF k, q, p
    <3>3. /\ q[u] \in [in_flight : Int, limit : Int, most : Int] /\ q[u].in_flight = k
          /\ q[u].limit = quota[u].limit /\ q[u].most = quota[u].most
      BY <2>1, <3>1, <3>2
    <3> QED
      BY <2>1, <2>3, <3>1, <3>3
  <2> QED
    BY <2>2, <2>3
<1>2. q \in [User -> [in_flight : Int, limit : Int, most : Int]]
  BY <1>1 DEF Release
<1> HIDE DEF q, p
<1>3. Placed(q) /\ \A u \in User : /\ p = u => q[u].in_flight = quota[u].in_flight - 1
                                   /\ p # u => q[u].in_flight = quota[u].in_flight
  BY <1>1, <1>2 DEF Placed
<1> QED
  BY <1>3 DEF q, p

(* An override may only raise what has been in force.                      *)
LEMMA OverrideIs ==
    ASSUME NEW q, Placed(q), NEW f, f.user \in User, f.limit \in Int
    PROVE  Placed(SetOverride(q, f)) /\ \A u \in User : SetOverride(q, f)[u].in_flight = q[u].in_flight
<1> DEFINE v == f.user
           x == f.limit
           m == IF x > q[v].most THEN x ELSE q[v].most
           r == [q[v] EXCEPT !.limit = x, !.most = m]
           s == SetOverride(q, f)
<1>1. q[v] \in [in_flight : Int, limit : Int, most : Int] /\ q[v].most >= QUOTA /\ q[v].in_flight <= q[v].most
  BY DEF Placed
<1>2. x \in Int /\ m \in Int /\ m >= q[v].most /\ m >= x /\ v \in User
  BY <1>1
<1>3. s = [q EXCEPT ![v] = r]
  BY DEF SetOverride
<1> HIDE DEF m, x, v
<1>4. /\ r \in [in_flight : Int, limit : Int, most : Int] /\ r.in_flight = q[v].in_flight
      /\ r.limit = x /\ r.most = m
  BY <1>1, <1>2
<1> HIDE DEF r, s
<1>5. r.most >= QUOTA /\ r.most >= r.limit /\ r.in_flight <= r.most
  <2>1. q[v].most \in Int /\ q[v].in_flight \in Int
    BY <1>1
  <2> QED
    BY <1>1, <1>2, <1>4, <2>1, ConnAssumption
<1>6. s \in [User -> [in_flight : Int, limit : Int, most : Int]] /\ s[v] = r
      /\ \A u \in User : u # v => s[u] = q[u]
  BY <1>2, <1>3, <1>4 DEF Placed
<1>7. Placed(s) /\ \A u \in User : s[u].in_flight = q[u].in_flight
  BY <1>4, <1>5, <1>6 DEF Placed
<1> QED
  BY <1>7 DEF s

(* A place is given back, whatever else the request did to the limits.     *)
LEMMA PlaceFreed ==
    ASSUME ChargeInv, NEW c \in Conn, NEW n \in DOMAIN hand[c], NEW w \in Hands, Becomes(c, n, w),
           hand[c][n].pc = "handle", w.pc = "done", Placed(quota'), NEW out,
           \A u \in User : quota'[u].in_flight = Release(c, n, out)[u].in_flight
    PROVE  QuotaType' /\ QuotaExact'
<1>1. \A u \in User :
          /\ hand[c][n].charged = u => quota'[u].in_flight = quota[u].in_flight - 1
          /\ ~(hand[c][n].charged = u) => quota'[u].in_flight = quota[u].in_flight
  BY ReleaseIs
<1>2. /\ quota' \in [User -> [in_flight : Int, limit : Int, most : Int]]
      /\ \A u \in User : /\ quota'[u].most >= QUOTA /\ quota'[u].most >= quota'[u].limit
                         /\ quota'[u].in_flight <= quota'[u].most
  BY DEF Placed
<1> QED
  BY <1>1, <1>2, PlacesFollow

(* A request that is not a SASL one ends, having acted as who it runs for. *)
LEMMA DoneKeepsCharges ==
    ASSUME ChargeInv, NEW c \in Conn, NEW n \in DOMAIN hand[c], NEW w \in Hands, Becomes(c, n, w),
           hand[c][n].pc = "handle", w.pc = "done", w.told = hand[c][n].told, UNCHANGED session,
           acts' = acts \/ (Frame(c, n).kind # "sasl" /\ acts' = acts \cup Act(c, n)),
           QuotaType' /\ QuotaExact'
    PROVE  ChargeInv'
<1>1. /\ hand' \in [Conn -> HandMaps]
      /\ \A d \in Conn : DOMAIN hand'[d] = DOMAIN hand[d]
      /\ \A d \in Conn : DOMAIN hand'[d] = 1 .. Len(FramesOf[d])
      /\ \A d \in Conn : d # c => hand'[d] = hand[d]
      /\ \A m \in DOMAIN hand[c] : m # n => hand'[c][m] = hand[c][m]
      /\ hand'[c][n] = w
  BY BecomesIs
<1>2. ASSUME NEW d \in Conn, NEW m \in DOMAIN hand'[d]
      PROVE  /\ m \in DOMAIN hand[d] /\ hand'[d][m].told = hand[d][m].told
             /\ hand'[d][m].pc = "handle" => hand'[d][m] = hand[d][m]
  <2>1. CASE d = c /\ m = n
    BY <1>1, <2>1
  <2>2. CASE ~(d = c /\ m = n)
    BY <1>1, <2>2
  <2> QED
    BY <2>1, <2>2
<1>3. SessionsKept'
  <2> SUFFICES ASSUME NEW d \in Conn, NEW m \in DOMAIN hand'[d], hand'[d][m].pc = "handle",
                      Frame(d, m).kind # "sasl"
               PROVE  hand'[d][m].charged = session'[d] /\ (Configured => session'[d] # Nameless)
    BY DEF ChargeInv, SessionsKept, Frame
  <2> QED
    BY <1>2 DEF ChargeInv, SessionsKept
<1>4. ASSUME NEW a \in acts'
      PROVE  /\ a.charged = a.as
             /\ Configured => <<a.as, Frame(a.conn, a.frame).name>> \in Grants
  <2>1. CASE a \in acts
    BY <2>1 DEF ChargeInv, ActsAsCharged
  <2>2. CASE a \notin acts
    <3>1. a \in Act(c, n) /\ Frame(c, n).kind # "sasl"
      BY <2>2
    <3>2. /\ Authorized(session[c], Frame(c, n).name)
          /\ a = [conn |-> c, frame |-> n, charged |-> hand[c][n].charged, as |-> session[c]]
      BY <3>1 DEF Act
    <3>3. hand[c][n].charged = session[c]
      BY <3>1 DEF ChargeInv, SessionsKept
    <3>4. a.conn = c /\ a.frame = n /\ a.charged = hand[c][n].charged /\ a.as = session[c]
      BY <3>2
    <3> QED
      BY <3>2, <3>3, <3>4 DEF Authorized
  <2> QED
    BY <2>1, <2>2
<1>5. ActsAsCharged'
  <2>1. ASSUME NEW d \in Conn, NEW m \in DOMAIN hand'[d], hand'[d][m].told # Nameless
        PROVE  hand'[d][m].told = session'[d]
    BY <1>2, <2>1 DEF ChargeInv, ActsAsCharged
  <2> QED
    BY <1>4, <2>1 DEF ActsAsCharged, Frame
<1> QED
  BY <1>1, <1>3, <1>5 DEF ChargeInv

LEMMA EndedIs ==
    ASSUME ChargeInv, NEW c \in Conn, NEW n \in DOMAIN hand[c],
           NEW out \in {"Reply", "Silent", "Close", "Panic"}, HandlerEnds(c, n, out)
    PROVE  \E w \in Hands : Becomes(c, n, w) /\ w.pc = "done" /\ w.told = hand[c][n].told
<1> DEFINE w == [hand[c][n] EXCEPT !.pc = "done", !.out = out]
<1>1. hand[c][n] \in Hands
  BY TaskIs
<1>2. Becomes(c, n, w)
  BY DEF HandlerEnds, Becomes
<1>3. w \in Hands /\ w.pc = "done" /\ w.told = hand[c][n].told
  BY <1>1 DEF Hands
<1> HIDE DEF w
<1> QED
  BY <1>2, <1>3

LEMMA DataKeepsCharges ==
    ASSUME ChargeInv, NEW c \in Conn, NEW n \in DOMAIN hand[c], HandleData(c, n)
    PROVE  ChargeInv'
<1>1. PICK out \in {"Reply", "Silent"} : HandlerEnds(c, n, out)
  BY DEF HandleData
<1>2. PICK w \in Hands : Becomes(c, n, w) /\ w.pc = "done" /\ w.told = hand[c][n].told
  BY <1>1, EndedIs
<1>3. /\ hand[c][n].pc = "handle" /\ UNCHANGED session /\ Frame(c, n).kind # "sasl"
      /\ acts' = acts \cup Act(c, n) /\ quota' = Release(c, n, "Reply")
  BY DEF HandleData
<1>4. QuotaType' /\ QuotaExact'
  BY <1>2, <1>3, ReleaseIs, PlaceFreed
<1> QED
  BY <1>2, <1>3, <1>4, DoneKeepsCharges

LEMMA AlterKeepsCharges ==
    ASSUME ChargeInv, NEW c \in Conn, NEW n \in DOMAIN hand[c], HandleAlter(c, n)
    PROVE  ChargeInv'
<1> DEFINE f == Frame(c, n)
           q == Release(c, n, "Reply")
<1>1. HandlerEnds(c, n, "Reply")
  BY DEF HandleAlter
<1>2. PICK w \in Hands : Becomes(c, n, w) /\ w.pc = "done" /\ w.told = hand[c][n].told
  BY <1>1, EndedIs
<1>3. /\ hand[c][n].pc = "handle" /\ UNCHANGED session /\ Frame(c, n).kind # "sasl"
      /\ acts' = acts \cup Act(c, n) /\ (quota' = SetOverride(q, f) \/ quota' = q)
  BY DEF HandleAlter
<1>4. Placed(q) /\ f.user \in User /\ f.limit \in Int
  BY ReleaseIs, TaskIs
<1>5. Placed(quota') /\ \A u \in User : quota'[u].in_flight = q[u].in_flight
  BY <1>3, <1>4, OverrideIs
<1>6. QuotaType' /\ QuotaExact'
  BY <1>2, <1>3, <1>5, PlaceFreed
<1> QED
  BY <1>2, <1>3, <1>6, DoneKeepsCharges

LEMMA PanicKeepsCharges ==
    ASSUME ChargeInv, NEW c \in Conn, NEW n \in DOMAIN hand[c], HandlePanics(c, n)
    PROVE  ChargeInv'
<1>1. HandlerEnds(c, n, "Panic")
  BY DEF HandlePanics
<1>2. PICK w \in Hands : Becomes(c, n, w) /\ w.pc = "done" /\ w.told = hand[c][n].told
  BY <1>1, EndedIs
<1>3. /\ hand[c][n].pc = "handle" /\ UNCHANGED <<session, acts>> /\ quota' = Release(c, n, "Panic")
  BY DEF HandlePanics
<1>4. QuotaType' /\ QuotaExact'
  BY <1>2, <1>3, ReleaseIs, PlaceFreed
<1> QED
  BY <1>2, <1>3, <1>4, DoneKeepsCharges

(* The one step that binds a session: nobody else ran on it, and nobody    *)
(* was told a name.                                                        *)
LEMMA SaslKeepsCharges ==
    ASSUME ChargeInv, NEW c \in Conn, NEW n \in DOMAIN hand[c], HandleSasl(c, n)
    PROVE  ChargeInv'
<1> DEFINE f == Frame(c, n)
           won == Verified(f) /\ Authenticate(c, f.user)
           x == hand[c][n]
           v == IF won THEN f.user ELSE x.told
           w == [x EXCEPT !.pc = "done", !.out = "Reply", !.told = v]
<1>1. x \in Hands /\ f.user \in User /\ session[c] \in User \cup {Nameless}
  BY TaskIs
<1>2. /\ Becomes(c, n, w) /\ x.pc = "handle" /\ f.kind = "sasl" /\ acts' = acts
      /\ quota' = Release(c, n, "Reply")
      /\ session' = IF won THEN [session EXCEPT ![c] = f.user] ELSE session
  BY DEF HandleSasl, Becomes
<1>3. v \in User \cup {Nameless}
  BY <1>1 DEF Hands
<1>v. v = IF won THEN f.user ELSE x.told
  OBVIOUS
<1> HIDE DEF v
<1>4. w \in Hands
  BY <1>1, <1>3 DEF Hands
<1>5. w.pc = "done"
  BY <1>1 DEF Hands
<1>6. w.told = v
  BY <1>1 DEF Hands
<1> HIDE DEF w
<1>7. QuotaType' /\ QuotaExact'
  BY <1>2, <1>4, <1>5, ReleaseIs, PlaceFreed
<1>8. CASE ~won
  <2>1. w.told = x.told /\ session' = session
    BY <1>2, <1>6, <1>8, <1>v
  <2> QED
    BY <1>2, <1>4, <1>5, <1>7, <2>1, DoneKeepsCharges
<1>9. CASE won
  <2>1. /\ w.told = f.user /\ session[c] = Nameless /\ Configured
        /\ session' = [session EXCEPT ![c] = f.user]
    BY <1>2, <1>6, <1>9, <1>v DEF Verified, Authenticate
  <2>2. session \in [Conn -> User \cup {Nameless}]
    BY DEF ChargeInv, SessionsKept
  <2>3. /\ session' \in [Conn -> User \cup {Nameless}] /\ session'[c] = f.user
        /\ \A d \in Conn : d # c => session'[d] = session[d]
    BY <1>1, <2>1, <2>2
  <2>4. /\ hand' \in [Conn -> HandMaps]
        /\ \A d \in Conn : DOMAIN hand'[d] = DOMAIN hand[d]
        /\ \A d \in Conn : DOMAIN hand'[d] = 1 .. Len(FramesOf[d])
        /\ \A d \in Conn : d # c => hand'[d] = hand[d]
        /\ \A m \in DOMAIN hand[c] : m # n => hand'[c][m] = hand[c][m]
        /\ hand'[c][n] = w
    BY <1>2, <1>4, BecomesIs
  <2>5. SessionsKept'
    <3>1. ASSUME NEW d \in Conn, NEW m \in DOMAIN hand'[d], hand'[d][m].pc = "handle",
                 Frame(d, m).kind # "sasl"
          PROVE  hand'[d][m].charged = session'[d] /\ (Configured => session'[d] # Nameless)
      <4>1. CASE d = c
        <5>1. m \in DOMAIN hand[c] /\ m # n /\ hand[c][m].pc = "handle"
          BY <1>5, <2>4, <3>1, <4>1
        <5>2. Configured => session[c] # Nameless
          BY <3>1, <4>1, <5>1 DEF ChargeInv, SessionsKept
        <5> QED
          BY <2>1, <5>2
      <4>2. CASE d # c
        BY <2>3, <2>4, <3>1, <4>2 DEF ChargeInv, SessionsKept
      <4> QED
        BY <4>1, <4>2
    <3> QED
      BY <2>1, <2>3, <3>1 DEF SessionsKept, Frame
  <2>6. ActsAsCharged'
    <3>1. ASSUME NEW d \in Conn, NEW m \in DOMAIN hand'[d], hand'[d][m].told # Nameless
          PROVE  hand'[d][m].told = session'[d]
      <4>1. CASE d = c /\ m = n
        BY <2>1, <2>3, <2>4, <4>1
      <4>2. CASE d = c /\ m # n
        <5>1. m \in DOMAIN hand[c] /\ hand[c][m].told # Nameless
          BY <2>4, <3>1, <4>2
        <5>2. hand[c][m].told = session[c]
          BY <5>1 DEF ChargeInv, ActsAsCharged
        <5> QED
          BY <2>1, <5>1, <5>2
      <4>3. CASE d # c
        BY <2>3, <2>4, <3>1, <4>3 DEF ChargeInv, ActsAsCharged
      <4> QED
        BY <4>1, <4>2, <4>3
    <3> QED
      BY <1>2, <3>1 DEF ChargeInv, ActsAsCharged, Frame
  <2> QED
    BY <1>7, <2>4, <2>5, <2>6 DEF ChargeInv
<1> QED
  BY <1>8, <1>9

-----------------------------------------------------------------------------
LEMMA ConnStart ==
    ASSUME ConnInit
    PROVE  OrderInv /\ ChargeInv
<1>0. Unborn \in Hands
  BY DEF Unborn, Hands
<1>1. hand \in [Conn -> HandMaps]
  <2> SUFFICES ASSUME NEW c \in Conn PROVE [n \in 1 .. Len(FramesOf[c]) |-> Unborn] \in HandMaps
    BY DEF ConnInit
  <2> QED
    BY <1>0, ConnAssumption DEF HandMaps
<1>2. \A c \in Conn : /\ DOMAIN hand[c] = 1 .. Len(FramesOf[c])
                      /\ \A n \in 1 .. Len(FramesOf[c]) : hand[c][n] = Unborn
  BY DEF ConnInit
<1>3. Unborn.pc = "unborn" /\ Unborn.out = "none" /\ Unborn.told = Nameless
  BY DEF Unborn
<1>4. ASSUME NEW c \in Conn
      PROVE  sock[c] \in Socks /\ SockOK(sock[c], hand[c], Len(FramesOf[c]))
  <2> DEFINE s == sock[c]
             h == hand[c]
  <2>1. s = [reader |-> "reading", writer |-> "recv", read |-> 0, join |-> 0,
             channel |-> <<>>, wire |-> <<>>, ended |-> "open"]
    BY DEF ConnInit
  <2>2. s \in Socks
    BY <2>1 DEF Socks, Reading
  <2>3. /\ s.reader = "reading" /\ s.writer = "recv" /\ s.read = 0 /\ s.channel = <<>>
        /\ s.wire = <<>> /\ s.ended = "open"
    BY <2>1
  <2>4. \A n \in 1 .. Len(FramesOf[c]) : h[n].pc = "unborn" /\ h[n].out = "none"
    BY <1>2, <1>3
  <2> HIDE DEF s, h
  <2>5. Sent(s) = 0 /\ Len(s.channel) = 0 /\ Len(s.wire) = 0
    BY <2>3 DEF Sent
  <2>6. Settled(s) = 0
    <3>1. Settled(s) = Sent(s) - Len(s.channel)
      BY <2>3 DEF Settled
    <3>2. Settled(s) = 0 - 0
      BY <2>5, <3>1
    <3> QED
      BY <3>2
  <2>7. ReadOK(s, h, Len(FramesOf[c]))
    BY <2>3, <2>4, ConnAssumption DEF ReadOK
  <2>8. ChannelOK(s)
    BY <2>3, <2>5 DEF ChannelOK
  <2>9. WireOK(s, h) /\ SettledOK(s, h)
    BY <2>3, <2>5, <2>6 DEF WireOK, SettledOK
  <2>10. SockOK(s, h, Len(FramesOf[c]))
    BY <2>4, <2>7, <2>8, <2>9 DEF SockOK
  <2> QED
    BY <2>2, <2>10 DEF s, h
<1>5. OrderInv
  <2>1. sock \in [Conn -> Socks]
    BY <1>4 DEF ConnInit
  <2> QED
    BY <1>1, <1>2, <1>4, <2>1 DEF OrderInv
<1>6. \A u \in User : HeldBy(hand, u) = {}
  <2> SUFFICES ASSUME NEW u \in User, NEW x \in HeldBy(hand, u) PROVE FALSE
    OBVIOUS
  <2>1. PICK d \in Conn : \E m \in DOMAIN hand[d] : x = <<d, m>> /\ hand[d][m].pc = "handle"
    BY HeldIs
  <2> QED
    BY <1>2, <1>3, <2>1
<1>7. QuotaType /\ QuotaExact
  <2>1. IsFiniteSet({}) /\ Cardinality({}) = 0
    BY FS_EmptySet
  <2>2. quota = [u \in User |-> [in_flight |-> 0, limit |-> -1, most |-> QUOTA]]
    BY DEF ConnInit, NoLimit
  <2>3. ASSUME NEW u \in User
        PROVE  /\ quota[u] \in [in_flight : Nat, limit : Int, most : Int] /\ quota[u].in_flight = 0
               /\ quota[u].limit = -1 /\ quota[u].most = QUOTA
    BY <2>2, ConnAssumption
  <2>4. quota \in [User -> [in_flight : Nat, limit : Int, most : Int]]
    BY <2>2, <2>3
  <2>5. QUOTA \in Nat /\ QUOTA >= -1 /\ QUOTA >= 0 /\ QUOTA >= QUOTA
    BY ConnAssumption
  <2> QED
    BY <1>6, <2>1, <2>3, <2>4, <2>5 DEF QuotaType, QuotaExact
<1>8. SessionsKept /\ ActsAsCharged
  BY <1>2, <1>3 DEF ConnInit, SessionsKept, ActsAsCharged
<1> QED
  BY <1>1, <1>2, <1>5, <1>7, <1>8 DEF ChargeInv

LEMMA ConnStep ==
    ASSUME OrderInv, ChargeInv, [ConnNext]_connVars
    PROVE  OrderInv' /\ ChargeInv'
<1>0. SessionsKept
  BY DEF ChargeInv
<1>1. CASE UNCHANGED connVars
  <2>1. ChargeInv'
    BY <1>1, SocketsKeepCharges DEF connVars
  <2>2. OrderInv'
    BY <1>1 DEF OrderInv, connVars
  <2> QED
    BY <2>1, <2>2
<1>2. ASSUME NEW c \in Conn, ReadFrame(c) PROVE OrderInv' /\ ChargeInv'
  BY <1>2, ReadFrameKeeps, SocketsKeepCharges DEF ReadFrame
<1>3. ASSUME NEW c \in Conn, ReadEnds(c) PROVE OrderInv' /\ ChargeInv'
  BY <1>3, ReadEndsKeeps, SocketsKeepCharges DEF ReadEnds
<1>4. ASSUME NEW c \in Conn, Spawn(c) PROVE OrderInv' /\ ChargeInv'
  BY <1>4, SpawnKeeps, SpawnKeepsCharges
<1>5. ASSUME NEW c \in Conn, SendHandle(c) PROVE OrderInv' /\ ChargeInv'
  BY <1>5, SendHandleKeeps, SocketsKeepCharges DEF SendHandle
<1>6. ASSUME NEW c \in Conn, Receive(c) PROVE OrderInv' /\ ChargeInv'
  BY <1>6, ReceiveKeeps, SocketsKeepCharges DEF Receive
<1>7. ASSUME NEW c \in Conn, WriteReply(c) PROVE OrderInv' /\ ChargeInv'
  BY <1>7, WriteReplyKeeps, SocketsKeepCharges DEF WriteReply
<1>8. ASSUME NEW c \in Conn, SkipSilent(c) PROVE OrderInv' /\ ChargeInv'
  BY <1>8, SkipSilentKeeps, SocketsKeepCharges DEF SkipSilent
<1>9. ASSUME NEW c \in Conn, WriterCloses(c) \/ WriteFails(c) \/ Drains(c) \/ ConnDropped(c)
      PROVE  OrderInv' /\ ChargeInv'
  <2>1. UNCHANGED <<session, hand, quota, acts>>
    BY <1>9 DEF WriterCloses, WriteFails, Drains, ConnDropped
  <2>4. ChargeInv'
    BY <2>1, SocketsKeepCharges
  <2>2. CASE Drains(c)
    BY <2>2, <2>4, DrainsKeeps
  <2>3. CASE ~Drains(c)
    <3>1. sock[c].writer = "join" => sock[c].ended = "open"
      BY ConnIs DEF SockOK, ReadOK
    <3>2. sock[c].ended = "open"
      BY <1>9, <2>3, <3>1 DEF WriterCloses, WriteFails, ConnDropped, Joined, Open
    <3>3. \E why \in {"HandlerClosed", "HandlerPanicked", "TimedOut", "Dropped"} : Stops(c, why)
      BY <1>9, <2>3 DEF WriterCloses, WriteFails, ConnDropped
    <3> QED
      BY <2>1, <2>4, <3>2, <3>3, StopsKeeps
  <2> QED
    BY <2>2, <2>3
<1>10. ASSUME NEW c \in Conn, NEW n \in DOMAIN hand[c],
              \/ BeginRefused(c, n) \/ BeginVersions(c, n) \/ BeginAdmitted(c, n)
              \/ HandleData(c, n) \/ HandleSasl(c, n) \/ HandleAlter(c, n) \/ HandlePanics(c, n)
       PROVE  OrderInv' /\ ChargeInv'
  <2>1. OrderInv'
    BY <1>0, <1>10, HandlersKeepOrder
  <2>2. ChargeInv'
    BY <1>10, BeginEndsKeepCharges, AdmitKeepsCharges, DataKeepsCharges, SaslKeepsCharges,
       AlterKeepsCharges, PanicKeepsCharges
  <2> QED
    BY <2>1, <2>2
<1> QED
  BY <1>1, <1>2, <1>3, <1>4, <1>5, <1>6, <1>7, <1>8, <1>9, <1>10 DEF ConnNext

LEMMA ConnInvariant == ConnSpec => [](OrderInv /\ ChargeInv)
<1>1. ConnInit => OrderInv /\ ChargeInv
  BY ConnStart
<1>2. (OrderInv /\ ChargeInv) /\ [ConnNext]_connVars => (OrderInv /\ ChargeInv)'
  BY ConnStep
<1> QED
  BY <1>1, <1>2, PTL DEF ConnSpec

(* Answers reach the wire in the order the requests came and none is left  *)
(* out, whatever the handlers do, however the peer or the writer ends the  *)
(* connection, for any number of connections and frames.                   *)
THEOREM OrderSafety == ConnSpec => []AnsweredInOrder
<1>1. OrderInv => AnsweredInOrder
  <2> SUFFICES ASSUME OrderInv, NEW c \in Conn
               PROVE  /\ \A i \in 1 .. Len(sock[c].wire) - 1 : sock[c].wire[i] < sock[c].wire[i + 1]
                      /\ \A i \in 1 .. Len(sock[c].wire) : \A n \in 1 .. sock[c].wire[i] - 1 :
                             n \in ToSet(sock[c].wire) \/ hand[c][n].out = "Silent"
                      /\ sock[c].ended = "Drained" => \A n \in 1 .. sock[c].read :
                             n \in ToSet(sock[c].wire) \/ hand[c][n].out = "Silent"
    BY DEF AnsweredInOrder
  <2>1. sock[c] \in Socks /\ WireOK(sock[c], hand[c])
    BY ConnIs DEF SockOK
  <2>2. \A n : ToldOf(sock[c], hand[c], n) => n \in ToSet(sock[c].wire) \/ hand[c][n].out = "Silent"
    BY <2>1, SockTypes DEF ToldOf, ToSet
  <2> QED
    BY <2>1, <2>2 DEF WireOK
<1> QED
  BY <1>1, ConnInvariant, PTL

(* A request does what it does for the principal it is charged to, one     *)
(* that may, whatever the other requests of its connection authenticate    *)
(* meanwhile; and a principal's count is the number of its requests that   *)
(* run over all its connections, never above the largest limit in force.   *)
THEOREM ChargeSafety == ConnSpec => []ChargedOnce
<1>1. ChargeInv => ChargedOnce
  BY DEF ChargeInv, ChargedOnce
<1> QED
  BY <1>1, ConnInvariant, PTL

-----------------------------------------------------------------------------
(* What one fetch reads. The bound on a pass is kept because the bytes     *)
(* pulled and the budget left are two sides of one account: while budget   *)
(* is left, all that was pulled has been charged or is about to be; once   *)
(* none is, one batch may still cross the line, and every failure one.     *)
ReadResults == {"ok", "down", "gone", "nofooter", "unstamped", "slow_down"}
ReadRanges == Object \X (FetchPart \cup {"whole"})
FetchCodes == {"TOPIC_AUTHORIZATION_FAILED", "UNKNOWN_TOPIC_OR_PARTITION", "OFFSET_OUT_OF_RANGE",
               "OFFSET_NOT_AVAILABLE", "NONE"}
Outcome == [code : FetchCodes, records : Seq(Batch), page : Seq(Batch)]
InHand == [pc : {"idle", "pass", "reading", "parked"}, reads : Nat, at : Nat \ {0}, page : Seq(Batch),
           fetched : Nat, records : Seq(Batch), len : Nat, left : Nat, returned : BOOLEAN,
           outcomes : Seq(Outcome), target : Nat]

PassType ==
    /\ batches \in [FetchPart -> [log : Seq(Batch), start : Nat]]
    /\ health \in [Object -> ReadResults]
    /\ fetch \in InHand
    /\ memo \in [seen : Seq([range : ReadRanges, got : ReadResults]), failed : Nat,
                 objects : SUBSET Object]
    /\ ghost \in [pulled : Nat, changes : Nat, asked : Seq(Fetches)]

(* A request is in hand; an entry that is read is of a hosted partition.   *)
PassPlaced(f, asked) ==
    /\ f.pc # "idle" => asked # <<>>
    /\ f.pc = "reading" => /\ f.at \in 1 .. Len(asked[1].entries)
                           /\ asked[1].entries[f.at].part \in FetchPart
    /\ f.pc = "pass" => f.records = <<>>

Largest == CHOOSE n \in {SizeOf[o] : o \in Object} : \A o \in Object : SizeOf[o] <= n
Slack(n, big) == n * big

(* The two sides of the account of a pass.                                 *)
Charged(f, n, pulled, total, big) ==
    /\ f.records = <<>> => f.fetched = 0 /\ f.len = 0
    /\ f.left > 0 => pulled + f.left <= total + f.fetched /\ f.fetched <= f.left + big
    /\ f.left = 0 => pulled <= total + Slack(n, big)
                                 + (IF f.returned \/ f.records # <<>> THEN big ELSE 0)

(* A batch the memory holds as unstamped was counted as a failure.         *)
Counted(m) == (\E i \in 1 .. Len(m.seen) : m.seen[i].got = "unstamped") => m.failed >= 1

(* The exemption is gone only when something was returned.                 *)
Silent(o) == o.code = "NONE" /\ o.records = <<>> /\ o.page # <<>>
Moves(f) ==
    /\ f.returned => \E j \in 1 .. Len(f.outcomes) : f.outcomes[j].records # <<>>
    /\ \A i \in 1 .. Len(f.outcomes) :
          Silent(f.outcomes[i]) => \E j \in 1 .. i - 1 : f.outcomes[j].records # <<>>

PassInv ==
    /\ PassPlaced(fetch, ghost.asked)
    /\ fetch.pc # "idle" => Charged(fetch, memo.failed, ghost.pulled, Total(ghost.asked[1]), Largest)
    /\ Counted(memo)
    /\ Moves(fetch)

LEMMA LargestBounds ==
    /\ Largest \in Nat
    /\ \A o \in Object : SizeOf[o] <= Largest
<1>1. \E n \in {SizeOf[o] : o \in Object} : \A o \in Object : SizeOf[o] <= n
    BY FetchReadAssumption
<1>2. Largest \in {SizeOf[o] : o \in Object} /\ \A o \in Object : SizeOf[o] <= Largest
    BY <1>1, Zenon DEF Largest
<1>3. QED
    BY <1>2, FetchReadAssumption

LEMMA CostBounded ==
    ASSUME NEW b \in Batch, NEW got
    PROVE  /\ CostOf(b, got) \in Nat
           /\ CostOf(b, got) <= Largest
BY LargestBounds, FetchReadAssumption DEF CostOf, Batch

LEMMA SlackGrows ==
    ASSUME NEW n \in Nat, NEW big \in Nat
    PROVE  /\ Slack(n, big) \in Nat
           /\ Slack(n + 1, big) = Slack(n, big) + big
           /\ n >= 1 => Slack(n, big) >= big
<1>1. n * big \in Nat /\ (n + 1) * big = n * big + big
    OBVIOUS
<1>2. ASSUME n >= 1 PROVE n * big >= big
    <2>1. PICK m \in Nat : n = m + 1
        BY <1>2
    <2>2. (m + 1) * big = m * big + big /\ m * big \in Nat
        OBVIOUS
    <2>3. QED
        BY <2>1, <2>2
<1>3. QED
    BY <1>1, <1>2 DEF Slack

(* What is known of a request.                                             *)
LEMMA RequestTyped ==
    ASSUME NEW r \in Fetches
    PROVE  /\ Total(r) \in Nat
           /\ TargetOf(r) \in Nat
           /\ \A i \in 1 .. Len(r.entries) : r.entries[i].from \in Nat /\ r.entries[i].max \in Nat
           /\ Len(r.entries) \in Nat
BY FetchReadAssumption DEF Total, TargetOf, AtMost

LEMMA LengthCounts ==
    ASSUME NEW n \in Nat
    PROVE  IsFiniteSet(1 .. n) /\ Cardinality(1 .. n) = n
BY FS_Interval

(* A page is a prefix of what the log holds from the offset on.            *)
LEMMA PageTyped ==
    ASSUME NEW log \in Seq(Batch), NEW share
    PROVE  PageOf(log, share) \in Seq(Batch)
<1> DEFINE priced(n) == Bytes(SelectSeq(SubSeq(log, 1, n), LAMBDA b : b.tier = "tail"))
           admits(n) == n = 1 \/ (n <= MAX_PAGE /\ (log[n].tier = "tail" => priced(n) <= share))
           S == {n \in 1 .. Len(log) : \A m \in 1 .. n : admits(m)}
<1>1. PageOf(log, share) = SubSeq(log, 1, Cardinality(S))
    BY DEF PageOf
<1> HIDE DEF admits, priced
<1>2. Len(log) \in Nat
    OBVIOUS
<1>3. IsFiniteSet(1 .. Len(log)) /\ Cardinality(1 .. Len(log)) = Len(log)
    BY <1>2, LengthCounts
<1>4. S \subseteq 1 .. Len(log)
    OBVIOUS
<1> HIDE DEF S
<1>5. IsFiniteSet(S) /\ Cardinality(S) <= Len(log)
    BY <1>3, <1>4, FS_Subset
<1>6. Cardinality(S) \in Nat
    BY <1>5, FS_CardinalityType
<1>7. \A n \in Nat : n <= Len(log) => SubSeq(log, 1, n) \in Seq(Batch)
    OBVIOUS
<1>8. QED
    BY <1>1, <1>5, <1>6, <1>7

LEMMA NothingTyped == <<>> \in Seq(Batch)
OBVIOUS

(* An entry ends: what is left, what was returned, and the outcome kept.   *)
Spent(f, l, r) == [f EXCEPT !.left = l, !.returned = r]
Closed(g, o) ==
    [g EXCEPT !.pc = "pass", !.at = @ + 1, !.page = <<>>, !.fetched = 0, !.records = <<>>,
              !.len = 0, !.outcomes = Append(@, o)]
Ended(f, l, r, o, h) ==
    /\ h \in InHand
    /\ h.pc = "pass" /\ h.records = <<>> /\ h.fetched = 0 /\ h.len = 0
    /\ h.left = l
    /\ h.returned = r
    /\ h.outcomes = Append(f.outcomes, o)

Finished(f, cost, o, g) ==
    /\ g \in InHand
    /\ g.pc = "pass" /\ g.records = <<>> /\ g.fetched = 0 /\ g.len = 0
    /\ g.left = (IF cost >= f.left THEN 0 ELSE f.left - cost)
    /\ g.returned = (f.returned \/ o.records # <<>>)
    /\ g.outcomes = Append(f.outcomes, o)

LEMMA CloseTyped ==
    ASSUME NEW SB, NEW SO, NEW NS, NEW PS,
           NEW g \in [pc : {"idle", "pass", "reading", "parked"}, reads : NS, at : PS, page : SB,
                      fetched : NS, records : SB, len : NS, left : NS, returned : BOOLEAN,
                      outcomes : SO, target : NS],
           NEW e \in SB, NEW w \in SO, NEW n \in PS, NEW z \in NS
    PROVE  [g EXCEPT !.pc = "pass", !.at = n, !.page = e, !.fetched = z, !.records = e,
                     !.len = z, !.outcomes = w]
              \in [pc : {"idle", "pass", "reading", "parked"}, reads : NS, at : PS, page : SB,
                   fetched : NS, records : SB, len : NS, left : NS, returned : BOOLEAN,
                   outcomes : SO, target : NS]
OBVIOUS

LEMMA SpentFields ==
    ASSUME NEW f \in InHand, NEW l \in Nat, NEW r \in BOOLEAN, NEW o \in Outcome,
           NEW g, g = Spent(f, l, r), NEW h, h = Closed(g, o)
    PROVE  Ended(f, l, r, o, h)
<1>1. g \in InHand /\ g.left = l /\ g.returned = r /\ g.outcomes = f.outcomes
    BY DEF InHand, Spent, Closed
<1>2. Append(g.outcomes, o) \in Seq(Outcome)
    BY <1>1 DEF InHand, Spent, Closed
<1>3. g.at + 1 \in Nat \ {0}
    <2>1. g.at \in Nat \ {0}
        BY <1>1 DEF InHand
    <2>2. QED
        BY <2>1
<1>4. h \in InHand
    <2>1. 0 \in Nat
        OBVIOUS
    <2>2. QED
        BY <1>1, <1>2, <1>3, <2>1, NothingTyped, CloseTyped, ZenonT(40) DEF InHand, Closed
<1>5. h.pc = "pass" /\ h.records = <<>> /\ h.fetched = 0 /\ h.len = 0
    BY <1>1 DEF InHand, Spent, Closed
<1>6. h.left = l /\ h.returned = r /\ h.outcomes = Append(f.outcomes, o)
    BY <1>1 DEF InHand, Spent, Closed
<1>7. QED
    BY <1>4, <1>5, <1>6 DEF Ended

LEMMA FinishFields ==
    ASSUME NEW f \in InHand, NEW cost \in Nat, NEW o \in Outcome,
           NEW g, g = Finishes(f, cost, o)
    PROVE  Finished(f, cost, o, g)
<1> DEFINE l == IF cost >= f.left THEN 0 ELSE f.left - cost
           r == (f.returned \/ o.records # <<>>)
           s == SpendBudget(f, cost, o.records)
<1>1. l \in Nat
    BY DEF InHand
<1>2. r \in BOOLEAN
    BY Zenon
<1>3. s = Spent(f, l, r)
    BY Zenon DEF SpendBudget, Spent
<1>4. g = Closed(s, o)
    BY Zenon DEF Finishes, Closed
<1> HIDE DEF l, r, s
<1>5. Ended(f, l, r, o, g)
    BY <1>1, <1>2, <1>3, <1>4, SpentFields, Zenon
<1>6. QED
    BY <1>5, Zenon DEF Ended, Finished, l, r

(* An outcome that is silent comes after the exemption went.               *)
LEMMA FinishMoves ==
    ASSUME NEW f \in InHand, NEW g, NEW o \in Outcome, Moves(f),
           g.returned = (f.returned \/ o.records # <<>>),
           g.outcomes = Append(f.outcomes, o),
           Silent(o) => f.returned
    PROVE  Moves(g)
<1> DEFINE q == f.outcomes
<1>1. q \in Seq(Outcome)
    BY DEF InHand
<1>2. /\ Len(Append(q, o)) = Len(q) + 1 /\ Len(q) \in Nat
      /\ \A i \in 1 .. Len(q) : Append(q, o)[i] = q[i]
      /\ Append(q, o)[Len(q) + 1] = o
    BY <1>1
<1>3. ASSUME g.returned
      PROVE  \E j \in 1 .. Len(g.outcomes) : g.outcomes[j].records # <<>>
    <2>1. CASE f.returned
        <3>1. PICK j \in 1 .. Len(q) : q[j].records # <<>>
            BY <2>1 DEF Moves
        <3>2. QED
            BY <1>2, <3>1
    <2>2. CASE o.records # <<>>
        BY <1>2, <2>2
    <2>3. QED
        BY <1>3, <2>1, <2>2
<1>4. ASSUME NEW i \in 1 .. Len(g.outcomes), Silent(g.outcomes[i])
      PROVE  \E j \in 1 .. i - 1 : g.outcomes[j].records # <<>>
    <2>1. CASE i \in 1 .. Len(q)
        <3>1. Silent(q[i])
            BY <1>2, <1>4, <2>1
        <3>2. PICK j \in 1 .. i - 1 : q[j].records # <<>>
            BY <2>1, <3>1 DEF Moves
        <3>3. QED
            BY <1>2, <2>1, <3>2
    <2>2. CASE i = Len(q) + 1
        <3>1. f.returned
            BY <1>2, <1>4, <2>2
        <3>2. PICK j \in 1 .. Len(q) : q[j].records # <<>>
            BY <3>1 DEF Moves
        <3>3. QED
            BY <1>2, <2>2, <3>2
    <2>3. QED
        BY <1>2, <2>1, <2>2
<1>5. QED
    BY <1>3, <1>4 DEF Moves

(* The account when an entry ends for at least what it pulled.             *)
LEMMA FinishCharged ==
    ASSUME NEW f \in InHand, NEW g \in InHand, NEW cost \in Nat, NEW pulled \in Nat,
           NEW total \in Nat, NEW big \in Nat, NEW n \in Nat, NEW c \in Nat,
           g.records = <<>>, g.fetched = 0, g.len = 0,
           g.left = (IF cost >= f.left THEN 0 ELSE f.left - cost),
           cost >= c,
           f.left > 0 => pulled + f.left <= total + c /\ c <= f.left + big,
           f.left > 0 /\ cost > 0 => g.returned \/ n >= 1,
           f.left = 0 => pulled <= total + Slack(n, big) + (IF g.returned THEN big ELSE 0)
    PROVE  Charged(g, n, pulled, total, big)
<1>1. Slack(n, big) \in Nat /\ (n >= 1 => Slack(n, big) >= big)
    BY SlackGrows
<1>2. f.left \in Nat
    BY DEF InHand
<1>3. ASSUME g.left > 0 PROVE pulled + g.left <= total + g.fetched /\ g.fetched <= g.left + big
    BY <1>2, <1>3
<1>4. ASSUME g.left = 0, f.left > 0
      PROVE  pulled <= total + Slack(n, big) + (IF g.returned THEN big ELSE 0)
    <2>1. cost > 0 /\ pulled <= total + big
        BY <1>2, <1>4
    <2>2. CASE g.returned
        BY <1>1, <2>1, <2>2
    <2>3. CASE n >= 1
        BY <1>1, <2>1, <2>3
    <2>4. QED
        BY <1>4, <2>1, <2>2, <2>3
<1>5. ASSUME g.left = 0
      PROVE  pulled <= total + Slack(n, big) + (IF g.returned THEN big ELSE 0)
    BY <1>2, <1>4, <1>5
<1>6. QED
    BY <1>3, <1>5 DEF Charged

LEMMA AskedTyped ==
    ASSUME PassType, PassPlaced(fetch, ghost.asked), fetch.pc # "idle"
    PROVE  /\ Asked = ghost.asked[1]
           /\ Asked \in Fetches
           /\ Total(Asked) \in Nat
           /\ Len(Asked.entries) \in Nat
           /\ \A i \in 1 .. Len(Asked.entries) : Asked.entries[i].from \in Nat /\ Asked.entries[i].max \in Nat
<1>1. ghost.asked \in Seq(Fetches) /\ ghost.asked # <<>>
    BY DEF PassType, PassPlaced
<1>2. Asked \in Fetches
    BY <1>1 DEF Asked
<1>3. Asked = ghost.asked[1]
    BY DEF Asked
<1>4. QED
    BY <1>2, <1>3, RequestTyped

(* The fields the account looks at.                                        *)
SameAccount(f, g) ==
    /\ g.records = f.records /\ g.fetched = f.fetched /\ g.len = f.len
    /\ g.left = f.left /\ g.returned = f.returned

LEMMA SameCharged ==
    ASSUME NEW f, NEW g, NEW n, NEW pulled, NEW total, NEW big,
           SameAccount(f, g), Charged(f, n, pulled, total, big)
    PROVE  Charged(g, n, pulled, total, big)
BY Zenon DEF SameAccount, Charged

LEMMA SameMoves ==
    ASSUME NEW f, NEW g, g.returned = f.returned, g.outcomes = f.outcomes, Moves(f)
    PROVE  Moves(g)
BY Zenon DEF Moves

LEMMA RefusalTyped ==
    ASSUME NEW entry
    PROVE  Refusal(entry) \in FetchCodes
BY Zenon DEF Refusal, FetchCodes

LEMMA Unrefused ==
    ASSUME PassType, NEW entry, entry.from \in Nat, Refusal(entry) = "NONE"
    PROVE  /\ entry.part \in FetchPart
           /\ entry.from <= Len(batches[entry.part].log)
<1>1. entry.part \in FetchPart
    BY DEF Refusal
<1>2. batches[entry.part].start \in Nat /\ Len(batches[entry.part].log) \in Nat
    BY <1>1 DEF PassType
<1>3. entry.from \in batches[entry.part].start .. Len(batches[entry.part].log)
    BY <1>1 DEF Refusal
<1>4. QED
    BY <1>1, <1>2, <1>3

LEMMA StartKeeps ==
    ASSUME PassType, PassInv, StartEntry
    PROVE  PassType' /\ PassInv'
<1> DEFINE entry == PartitionAsk(fetch)
           total == Total(ghost.asked[1])
<1>1. /\ fetch \in InHand /\ ghost.asked \in Seq(Fetches) /\ ghost.pulled \in Nat
      /\ memo.failed \in Nat
    BY DEF PassType
<1>2. fetch.pc = "pass" /\ fetch.at <= Len(Asked.entries) /\ PassPlaced(fetch, ghost.asked)
    BY DEF StartEntry, PassInv
<1>3. /\ Asked = ghost.asked[1] /\ total \in Nat
      /\ \A i \in 1 .. Len(Asked.entries) : Asked.entries[i].from \in Nat /\ Asked.entries[i].max \in Nat
      /\ Len(Asked.entries) \in Nat
    BY <1>2, AskedTyped
<1>4. UNCHANGED <<batches, health, memo, ghost>>
    BY DEF StartEntry
<1>5. /\ Charged(fetch, memo.failed, ghost.pulled, total, Largest)
      /\ Counted(memo) /\ Moves(fetch) /\ fetch.records = <<>> /\ ghost.asked # <<>>
    BY <1>2 DEF PassInv, PassPlaced
<1>6. Largest \in Nat
    BY LargestBounds
<1> HIDE DEF total
<1>7. CASE Refusal(entry) # "NONE"
    <2> DEFINE o == OutcomeOf(Refusal(entry), <<>>, <<>>)
    <2>1. o \in Outcome /\ o.records = <<>> /\ ~ Silent(o)
        BY <1>7, RefusalTyped, NothingTyped DEF OutcomeOf, Outcome, Silent
    <2>2. fetch' = Finishes(fetch, 0, o)
        BY <1>7 DEF StartEntry
    <2> HIDE DEF o
    <2>3. Finished(fetch, 0, o, fetch')
        BY <1>1, <2>1, <2>2, FinishFields
    <2>4. Moves(fetch')
        BY <1>1, <1>5, <2>1, <2>3, FinishMoves DEF Finished
    <2>5. fetch'.returned = fetch.returned
        BY <1>1, <2>1, <2>3 DEF Finished, InHand
    <2>6. Charged(fetch', memo.failed, ghost.pulled, total, Largest)
        <3>a. fetch.left \in Nat
            BY <1>1 DEF InHand
        <3>b. fetch'.left = (IF 0 >= fetch.left THEN 0 ELSE fetch.left - 0)
            BY <2>3 DEF Finished
        <3>c. fetch'.records = <<>> /\ fetch'.fetched = 0 /\ fetch'.len = 0
            BY <2>3 DEF Finished
        <3>d. fetch'.left = fetch.left
            BY <3>a, <3>b
        <3>1. /\ fetch.left \in Nat /\ fetch'.left = fetch.left /\ fetch'.records = <<>>
              /\ fetch'.fetched = 0 /\ fetch'.len = 0
            BY <3>a, <3>c, <3>d
        <3>2. fetch.fetched = 0 /\ fetch.len = 0
            BY <1>5 DEF Charged
        <3>3. SameAccount(fetch, fetch')
            BY <1>5, <2>5, <3>1, <3>2 DEF SameAccount
        <3>4. QED
            BY <1>5, <3>3, SameCharged
    <2>7. QED
        BY <1>4, <1>5, <2>3, <2>4, <2>6 DEF PassType, PassInv, PassPlaced, Finished, total
<1>8. CASE Refusal(entry) = "NONE"
    <2> DEFINE log == batches[entry.part].log
               page == PageOf(SubSeq(log, entry.from + 1, Len(log)), Share(fetch))
    <2>1. fetch' = [fetch EXCEPT !.pc = "reading", !.page = page]
        BY <1>8 DEF StartEntry
    <2>a. fetch.at \in 1 .. Len(Asked.entries)
        BY <1>1, <1>2, <1>3 DEF InHand
    <2>2. entry.from \in Nat /\ fetch.at \in 1 .. Len(Asked.entries)
        BY <1>3, <2>a DEF PartitionAsk
    <2>3. entry.part \in FetchPart /\ entry.from <= Len(log)
        BY <1>8, <2>2, Unrefused
    <2>4. log \in Seq(Batch)
        BY <2>3 DEF PassType
    <2>5. SubSeq(log, entry.from + 1, Len(log)) \in Seq(Batch)
        BY <2>2, <2>3, <2>4
    <2>6. page \in Seq(Batch)
        BY <2>5, PageTyped
    <2> HIDE DEF page
    <2>7. /\ fetch' \in InHand /\ fetch'.pc = "reading" /\ fetch'.at = fetch.at
          /\ SameAccount(fetch, fetch') /\ fetch'.outcomes = fetch.outcomes
        BY <1>1, <2>1, <2>6 DEF InHand, SameAccount
    <2>8. Charged(fetch', memo.failed, ghost.pulled, total, Largest)
        BY <1>5, <2>7, SameCharged
    <2>9. Moves(fetch')
        BY <1>5, <2>7, SameMoves DEF SameAccount
    <2>10. PassPlaced(fetch', ghost.asked)
        BY <1>3, <1>5, <2>2, <2>3, <2>7 DEF PassPlaced, PartitionAsk
    <2>11. QED
        BY <1>4, <1>5, <2>7, <2>8, <2>9, <2>10 DEF PassType, PassInv, total
<1>9. QED
    BY <1>7, <1>8

LEMMA EndKeeps ==
    ASSUME PassType, PassInv, EndEntry
    PROVE  PassType' /\ PassInv'
<1> DEFINE o == OutcomeOf("NONE", fetch.records, fetch.page)
           cost == AtLeast(fetch.fetched, fetch.len)
           total == Total(ghost.asked[1])
<1>1. /\ fetch \in InHand /\ ghost.asked \in Seq(Fetches) /\ ghost.pulled \in Nat
      /\ memo.failed \in Nat /\ Largest \in Nat
    BY LargestBounds DEF PassType
<1>2. fetch.pc = "reading" /\ PassPlaced(fetch, ghost.asked)
    BY DEF EndEntry, PassInv
<1>3. total \in Nat
    BY <1>2, AskedTyped
<1>4. UNCHANGED <<batches, health, memo, ghost>> /\ fetch' = Finishes(fetch, cost, o)
    BY DEF EndEntry
<1>5. /\ Charged(fetch, memo.failed, ghost.pulled, total, Largest)
      /\ Counted(memo) /\ Moves(fetch) /\ ghost.asked # <<>>
    BY <1>2 DEF PassInv, PassPlaced
<1>6. o \in Outcome /\ o.records = fetch.records /\ o.page = fetch.page
    BY <1>1 DEF OutcomeOf, Outcome, InHand, FetchCodes
<1>7. cost \in Nat /\ cost >= fetch.fetched /\ fetch.fetched \in Nat /\ fetch.left \in Nat
    BY <1>1 DEF AtLeast, InHand
<1>8. Silent(o) => fetch.returned
    BY <1>6 DEF Silent, EndEntry, MayOvershoot
<1>9. fetch.records = <<>> => cost = 0
    BY <1>5 DEF Charged, AtLeast
<1> HIDE DEF o, cost, total
<1>10. Finished(fetch, cost, o, fetch')
    BY <1>1, <1>4, <1>6, <1>7, FinishFields
<1>11. Moves(fetch')
    BY <1>1, <1>5, <1>6, <1>8, <1>10, FinishMoves DEF Finished
<1>12. fetch'.returned = (fetch.returned \/ fetch.records # <<>>)
    BY <1>6, <1>10 DEF Finished
<1>13. /\ fetch.left > 0 => /\ ghost.pulled + fetch.left <= total + fetch.fetched
                            /\ fetch.fetched <= fetch.left + Largest
    BY <1>5, <1>7 DEF Charged
<1>a. fetch.records # <<>> => fetch'.returned
    BY <1>12, Zenon
<1>b. fetch.left > 0 /\ cost > 0 => fetch'.returned \/ memo.failed >= 1
    BY <1>7, <1>9, <1>a
<1>14. fetch.left = 0 => ghost.pulled <= total + Slack(memo.failed, Largest)
                                          + (IF fetch'.returned THEN Largest ELSE 0)
    BY <1>5, <1>12 DEF Charged
<1>15. Charged(fetch', memo.failed, ghost.pulled, total, Largest)
    BY <1>1, <1>3, <1>7, <1>10, <1>13, <1>b, <1>14, FinishCharged DEF Finished
<1>16. QED
    BY <1>4, <1>5, <1>10, <1>11, <1>15 DEF PassType, PassInv, PassPlaced, Finished, total

(* A batch is read only where the line allows it: below it, or as the      *)
(* first that crosses it.                                                  *)
LEMMA Reads ==
    ASSUME NEW f \in InHand, NEW n \in Nat, NEW pulled \in Nat, NEW total \in Nat, NEW big \in Nat,
           NEW paid \in Nat, paid <= big, NEW share \in Nat, share <= f.left,
           Charged(f, n, pulled, total, big),
           ~ (AtLeast(f.fetched, f.len) >= share) \/ (f.records = <<>> /\ ~ f.returned)
    PROVE  /\ f.left > 0 => /\ (pulled + paid) + f.left <= total + (f.fetched + paid)
                            /\ f.fetched + paid <= f.left + big
           /\ f.left = 0 => f.records = <<>> /\ ~ f.returned /\ pulled <= total + Slack(n, big)
<1>1. f.left \in Nat /\ f.fetched \in Nat /\ f.len \in Nat
    BY DEF InHand
<1>2. AtLeast(f.fetched, f.len) \in Nat /\ AtLeast(f.fetched, f.len) >= f.fetched
    BY <1>1 DEF AtLeast
<1>3. Slack(n, big) \in Nat
    BY SlackGrows
<1>4. CASE f.left > 0
    <2>1. pulled + f.left <= total + f.fetched
        BY <1>4 DEF Charged
    <2>2. CASE f.records = <<>>
        <3>1. f.fetched = 0
            BY <2>2 DEF Charged
        <3>2. QED
            BY <1>1, <1>4, <2>1, <3>1
    <2>3. CASE f.records # <<>>
        <3>1. f.fetched < f.left
            BY <1>1, <1>2, <2>3
        <3>2. f.fetched + paid <= f.left + big
            BY <1>1, <3>1
        <3>3. (pulled + paid) + f.left <= total + (f.fetched + paid)
            BY <1>1, <2>1, SMTT(30)
        <3>4. ~ (f.left = 0)
            BY <1>1, <1>4
        <3>5. QED
            BY <3>2, <3>3, <3>4, Zenon
    <2>4. QED
        BY <2>2, <2>3
<1>5. CASE f.left = 0
    <2>1. share = 0
        BY <1>5
    <2>2. f.records = <<>> /\ ~ f.returned
        BY <1>2, <2>1
    <2>3. pulled <= total + Slack(n, big) + 0
        BY <1>5, <2>2 DEF Charged
    <2>4. QED
        BY <1>3, <1>5, <2>2, <2>3
<1>6. QED
    BY <1>1, <1>4, <1>5

LEMMA SeqElement ==
    ASSUME NEW S, NEW q \in Seq(S), NEW i \in 1 .. Len(q)
    PROVE  q[i] \in S
OBVIOUS

(* What the memory or the store answers.                                   *)
LEMMA GotTyped ==
    ASSUME PassType, Counted(memo), NEW range \in ReadRanges
    PROVE  /\ Got(range) \in ReadResults
           /\ Unstamped(Got(range)) /\ ~ Missed(range) => memo.failed >= 1
<1>1. memo.seen \in Seq([range : ReadRanges, got : ReadResults]) /\ memo.failed \in Nat /\ MAX_FAILED \in Nat
    BY FetchReadAssumption DEF PassType
<1>2. CASE Recalled(range)
    <2> DEFINE i == CHOOSE k \in 1 .. Len(memo.seen) : memo.seen[k].range = range
    <2>1. i \in 1 .. Len(memo.seen)
        BY <1>2, Zenon DEF Recalled
    <2>2. Got(range) = memo.seen[i].got
        BY <1>2, Zenon DEF Got, Recall
    <2> HIDE DEF i
    <2>a. memo.seen[i] \in [range : ReadRanges, got : ReadResults]
        BY <1>1, <2>1, SeqElement, Zenon
    <2>3. Got(range) \in ReadResults
        BY <2>2, <2>a
    <2>4. Unstamped(Got(range)) => memo.failed >= 1
        BY <2>1, <2>2 DEF Counted, Unstamped
    <2>5. QED
        BY <2>3, <2>4
<1>3. CASE ~ Recalled(range) /\ memo.failed >= MAX_FAILED
    <2>1. Got(range) = "slow_down"
        BY <1>3, Zenon DEF Got
    <2>2. QED
        BY <2>1 DEF Unstamped, ReadResults
<1>4. CASE ~ Recalled(range) /\ ~ (memo.failed >= MAX_FAILED)
    <2>1. Got(range) = health[range[1]]
        BY <1>4, Zenon DEF Got
    <2>2. Missed(range)
        BY <1>1, <1>4 DEF Missed
    <2>3. range[1] \in Object
        BY DEF ReadRanges
    <2>4. QED
        BY <2>1, <2>2, <2>3 DEF PassType
<1>5. QED
    BY <1>2, <1>3, <1>4

(* A batch joins the answer.                                               *)
WithBatch(f, b, c) ==
    [f EXCEPT !.page = Tail(@), !.fetched = c, !.records = Append(@, b), !.len = @ + b.bytes]
BatchJoined(f, c, g) ==
    /\ g \in InHand
    /\ g.pc = f.pc /\ g.at = f.at /\ g.fetched = c /\ g.records # <<>>
    /\ g.left = f.left /\ g.returned = f.returned /\ g.outcomes = f.outcomes

LEMMA JoinedFields ==
    ASSUME NEW f \in InHand, NEW b \in Batch, NEW c \in Nat, f.page # <<>>,
           NEW g, g = WithBatch(f, b, c)
    PROVE  BatchJoined(f, c, g)
<1>1. Tail(f.page) \in Seq(Batch)
    BY DEF InHand
<1>a. f.records \in Seq(Batch)
    BY DEF InHand
<1>b. Append(f.records, b) \in Seq(Batch) /\ Len(Append(f.records, b)) = Len(f.records) + 1
    BY <1>a
<1>c. Len(Append(f.records, b)) # 0
    BY <1>a, <1>b
<1>2. Append(f.records, b) \in Seq(Batch) /\ Append(f.records, b) # <<>>
    BY <1>b, <1>c
<1>3. f.len + b.bytes \in Nat
    BY DEF InHand, Batch
<1>4. QED
    BY <1>1, <1>2, <1>3 DEF InHand, WithBatch, BatchJoined

(* The memory after a read that reached the store.                         *)
LEMMA MemoKeeps ==
    ASSUME NEW m \in [seen : Seq([range : ReadRanges, got : ReadResults]), failed : Nat,
                      objects : SUBSET Object],
           Counted(m), NEW range \in ReadRanges, NEW got \in ReadResults, NEW bad \in BOOLEAN,
           NEW obj \in Object, got = "unstamped" => bad,
           NEW k, k = [m EXCEPT !.seen = Append(@, [range |-> range, got |-> got]),
                                !.failed = IF bad THEN @ + 1 ELSE @,
                                !.objects = IF bad THEN @ \cup {obj} ELSE @]
    PROVE  /\ k \in [seen : Seq([range : ReadRanges, got : ReadResults]), failed : Nat,
                     objects : SUBSET Object]
           /\ Counted(k)
           /\ k.failed = (IF bad THEN m.failed + 1 ELSE m.failed)
<1> DEFINE S == [range : ReadRanges, got : ReadResults]
           e == [range |-> range, got |-> got]
           q == m.seen
<1>1. e \in S /\ e.got = got /\ q \in Seq(S) /\ m.failed \in Nat
    OBVIOUS
<1>2. /\ k.seen = Append(q, e)
      /\ k.failed = (IF bad THEN m.failed + 1 ELSE m.failed)
      /\ k.objects = (IF bad THEN m.objects \cup {obj} ELSE m.objects)
      /\ k = [seen |-> k.seen, failed |-> k.failed, objects |-> k.objects]
    OBVIOUS
<1> HIDE DEF S, e, q
<1>3. /\ Append(q, e) \in Seq(S) /\ Len(q) \in Nat
      /\ \A i \in 1 .. Len(Append(q, e)) :
             (i \in 1 .. Len(q) /\ Append(q, e)[i] = q[i]) \/ Append(q, e)[i] = e
    BY <1>1
<1>4. k.failed \in Nat /\ k.failed >= m.failed /\ (bad => k.failed >= 1)
    BY <1>1, <1>2
<1>5. k.objects \in SUBSET Object
    BY <1>2
<1>6. Counted(k)
    <2>1. SUFFICES ASSUME NEW i \in 1 .. Len(k.seen), k.seen[i].got = "unstamped"
                   PROVE  k.failed >= 1
        BY DEF Counted
    <2>2. CASE i \in 1 .. Len(q) /\ Append(q, e)[i] = q[i]
        <3>1. m.failed >= 1
            BY <1>2, <2>1, <2>2 DEF Counted, q
        <3>2. QED
            BY <1>1, <1>4, <3>1
    <2>3. CASE Append(q, e)[i] = e
        BY <1>1, <1>2, <1>4, <2>1, <2>3
    <2>4. QED
        BY <1>2, <1>3, <2>2, <2>3
<1>7. k \in [seen : Seq(S), failed : Nat, objects : SUBSET Object]
    BY <1>2, <1>3, <1>4, <1>5
<1>8. QED
    BY <1>2, <1>6, <1>7 DEF S

LEMMA ReadKeeps ==
    ASSUME PassType, PassInv, ReadBatch
    PROVE  PassType' /\ PassInv'
<1> DEFINE f      == fetch
           batch  == Head(f.page)
           range  == RangeOf(batch, PartitionAsk(f).part)
           got    == Got(range)
           missed == Missed(range)
           bad    == RefusedRead(got) \/ Unsliced(batch, got) \/ Unstamped(got)
           paid   == IF missed THEN CostOf(batch, got) ELSE 0
           cost   == f.fetched + paid
           total  == Total(ghost.asked[1])
           lost   == OutcomeOf(CodeOf(got), <<>>, f.page)
           kept   == OutcomeOf("NONE", f.records, f.page)
           pulled == ghost.pulled + paid
<1>1. /\ f \in InHand /\ ghost.asked \in Seq(Fetches) /\ ghost.pulled \in Nat
      /\ memo.failed \in Nat /\ Largest \in Nat
    BY LargestBounds DEF PassType
<1>2. f.pc = "reading" /\ f.page # <<>> /\ PassPlaced(f, ghost.asked)
    BY DEF ReadBatch, PassInv
<1>3. /\ Asked = ghost.asked[1] /\ total \in Nat
      /\ \A i \in 1 .. Len(Asked.entries) : Asked.entries[i].max \in Nat
    BY <1>2, AskedTyped
<1>4. /\ Charged(f, memo.failed, ghost.pulled, total, Largest)
      /\ Counted(memo) /\ Moves(f) /\ ghost.asked # <<>>
    BY <1>2 DEF PassInv, PassPlaced
<1>5. f.at \in 1 .. Len(Asked.entries) /\ PartitionAsk(f).part \in FetchPart
    BY <1>2, <1>3 DEF PassPlaced, PartitionAsk
<1>6. batch \in Batch /\ batch.obj \in Object
    <2>1. f.page \in Seq(Batch)
        BY <1>1 DEF InHand
    <2>2. batch \in Batch
        BY <1>2, <2>1
    <2>3. QED
        BY <2>2 DEF Batch
<1>7. range \in ReadRanges
    BY <1>5, <1>6 DEF RangeOf, ReadRanges
<1>8. got \in ReadResults /\ (Unstamped(got) /\ ~ missed => memo.failed >= 1)
    BY <1>4, <1>7, GotTyped
<1>9. UNCHANGED <<batches, health>>
    BY DEF ReadBatch
<1>10. ghost' = [ghost EXCEPT !.pulled = IF missed THEN @ + CostOf(batch, got) ELSE @]
    BY DEF ReadBatch
<1>11. memo' = IF ~ missed THEN memo
               ELSE [memo EXCEPT !.seen = Append(@, [range |-> range, got |-> got]),
                                 !.failed = IF bad THEN @ + 1 ELSE @,
                                 !.objects = IF bad THEN @ \cup {batch.obj} ELSE @]
    BY DEF ReadBatch
<1>12. fetch' = CASE bad /\ ~ Unstamped(got) /\ f.records # <<>> ->
                         Finishes(f, AtLeast(cost, f.len), kept)
                  [] bad /\ (Unstamped(got) \/ f.records = <<>>) -> Finishes(f, cost, lost)
                  [] OTHER -> [f EXCEPT !.page = Tail(@), !.fetched = cost,
                                        !.records = Append(@, batch), !.len = @ + batch.bytes]
    BY DEF ReadBatch
<1>13. ~ (Over(f) /\ ~ (f.records = <<>> /\ MayOvershoot(f)))
    BY DEF ReadBatch
<1>14. Share(f) \in Nat /\ Share(f) <= f.left
    <2>1. PartitionAsk(f).max \in Nat
        BY <1>3, <1>5 DEF PartitionAsk
    <2>2. f.left \in Nat
        BY <1>1 DEF InHand
    <2> HIDE DEF f
    <2>3. QED
        BY <2>1, <2>2 DEF Share, AtMost
<1>15. paid \in Nat /\ paid <= Largest
    <2>1. CostOf(batch, got) \in Nat /\ CostOf(batch, got) <= Largest
        BY <1>6, CostBounded
    <2> HIDE DEF batch, got, missed
    <2>2. QED
        BY <1>1, <2>1
<1>16. bad \in BOOLEAN /\ (got = "unstamped" => bad)
    BY Zenon DEF Unstamped
<1>17. /\ f.fetched \in Nat /\ f.left \in Nat /\ f.len \in Nat
       /\ f.records \in Seq(Batch) /\ f.page \in Seq(Batch)
    BY <1>1 DEF InHand
<1>18. kept \in Outcome /\ kept.records = f.records
    BY <1>17 DEF OutcomeOf, Outcome, FetchCodes
<1>19. lost \in Outcome /\ lost.records = <<>> /\ ~ Silent(lost)
    BY <1>17, NothingTyped DEF OutcomeOf, Outcome, Silent, CodeOf, FetchCodes
<1>20. ghost' \in [pulled : Nat, changes : Nat, asked : Seq(Fetches)]
       /\ ghost'.pulled = pulled /\ ghost'.asked = ghost.asked
    <2> HIDE DEF batch, got, missed
    <2>1. ghost \in [pulled : Nat, changes : Nat, asked : Seq(Fetches)]
        BY DEF PassType
    <2>2. CASE missed
        <3>1. ghost' = [ghost EXCEPT !.pulled = @ + paid]
            BY <1>10, <2>2
        <3>2. QED
            BY <1>15, <2>1, <3>1
    <2>3. CASE ~ missed
        <3>1. ghost' = ghost /\ pulled = ghost.pulled
            BY <1>1, <1>10, <2>1, <2>3
        <3>2. QED
            BY <2>1, <3>1
    <2>4. QED
        BY <2>2, <2>3
<1> HIDE DEF batch, range, got, missed, paid, total, bad, kept, lost, f
<1>21. /\ memo' \in [seen : Seq([range : ReadRanges, got : ReadResults]), failed : Nat,
                     objects : SUBSET Object]
       /\ Counted(memo')
       /\ memo'.failed = (IF missed /\ bad THEN memo.failed + 1 ELSE memo.failed)
    <2>1. memo \in [seen : Seq([range : ReadRanges, got : ReadResults]), failed : Nat,
                    objects : SUBSET Object]
        BY DEF PassType
    <2>2. CASE missed
        <3>1. memo' = [memo EXCEPT !.seen = Append(@, [range |-> range, got |-> got]),
                                   !.failed = IF bad THEN @ + 1 ELSE @,
                                   !.objects = IF bad THEN @ \cup {batch.obj} ELSE @]
            BY <1>11, <2>2
        <3>2. QED
            BY <1>4, <1>6, <1>7, <1>8, <1>16, <2>1, <2>2, <3>1, MemoKeeps
    <2>3. CASE ~ missed
        BY <1>4, <1>11, <2>1, <2>3
    <2>4. QED
        BY <2>2, <2>3
<1>22. ~ (AtLeast(f.fetched, f.len) >= Share(f)) \/ (f.records = <<>> /\ ~ f.returned)
    BY <1>13 DEF Over, MayOvershoot
<1>23. /\ f.left > 0 => /\ pulled + f.left <= total + cost
                        /\ cost <= f.left + Largest
       /\ f.left = 0 => /\ f.records = <<>> /\ ~ f.returned
                        /\ ghost.pulled <= total + Slack(memo.failed, Largest)
    BY <1>1, <1>3, <1>4, <1>14, <1>15, <1>22, Reads
<1>24. cost \in Nat /\ pulled \in Nat /\ cost >= f.fetched
    <2>1. \A x, y \in Nat : x + y \in Nat /\ x + y >= x
        OBVIOUS
    <2>2. QED
        BY <1>1, <1>15, <1>17, <2>1
<1>25. /\ Slack(memo.failed, Largest) \in Nat
       /\ Slack(memo.failed + 1, Largest) = Slack(memo.failed, Largest) + Largest
    BY <1>1, SlackGrows
<1> HIDE DEF cost, pulled
<1>26. SUFFICES /\ fetch' \in InHand /\ PassPlaced(fetch', ghost.asked)
                /\ Charged(fetch', memo'.failed, pulled, total, Largest)
                /\ Moves(fetch')
    BY <1>9, <1>20, <1>21 DEF PassType, PassInv, total
(* The batch cannot be had, and what was read before it is answered.       *)
<1>27. CASE bad /\ ~ Unstamped(got) /\ f.records # <<>>
    <2> DEFINE k == AtLeast(cost, f.len)
    <2>1. fetch' = Finishes(f, k, kept)
        BY <1>12, <1>27
    <2>2. k \in Nat /\ k >= cost
        BY <1>17, <1>24 DEF AtLeast
    <2> HIDE DEF k
    <2>3. Finished(f, k, kept, fetch')
        BY <1>1, <1>18, <2>1, <2>2, FinishFields
    <2>4. Moves(fetch')
        BY <1>1, <1>4, <1>18, <1>27, <2>3, FinishMoves DEF Finished, Silent
    <2>5. fetch'.returned
        BY <1>18, <1>27, <2>3, Zenon DEF Finished
    <2>6. f.left > 0
        BY <1>17, <1>23, <1>27
    <2>7. memo'.failed \in Nat
        BY <1>21
    <2>8. Charged(fetch', memo'.failed, pulled, total, Largest)
        <3>1. /\ f.left > 0 => pulled + f.left <= total + cost /\ cost <= f.left + Largest
              /\ f.left > 0 /\ k > 0 => fetch'.returned \/ memo'.failed >= 1
              /\ f.left = 0 => pulled <= total + Slack(memo'.failed, Largest)
                                          + (IF fetch'.returned THEN Largest ELSE 0)
            BY <1>17, <1>23, <2>5, <2>6
        <3>2. QED
            BY <1>1, <1>3, <1>24, <2>2, <2>3, <2>7, <3>1, FinishCharged DEF Finished
    <2>9. QED
        BY <1>4, <2>3, <2>4, <2>8 DEF Finished, PassPlaced
(* Nothing can be answered, and what the attempt cost is charged.          *)
<1>28. CASE bad /\ (Unstamped(got) \/ f.records = <<>>)
    <2>1. fetch' = Finishes(f, cost, lost)
        BY <1>12, <1>28
    <2>2. Finished(f, cost, lost, fetch')
        BY <1>1, <1>19, <1>24, <2>1, FinishFields
    <2>3. Moves(fetch')
        BY <1>1, <1>4, <1>19, <2>2, FinishMoves DEF Finished
    <2>4. memo'.failed \in Nat /\ (missed => memo'.failed = memo.failed + 1)
          /\ (~ missed => memo'.failed = memo.failed)
        BY <1>21, <1>28
    <2>5. ~ missed => paid = 0
        BY DEF paid
    <2>6. f.left > 0 /\ cost > 0 => fetch'.returned \/ memo'.failed >= 1
        <3>1. CASE missed
            BY <1>1, <2>4, <3>1
        <3>2. CASE ~ missed
            <4>1. f.records = <<>> => cost = 0
                BY <1>4, <2>5, <3>2 DEF Charged, cost
            <4>2. Unstamped(got) => memo'.failed >= 1
                BY <1>8, <2>4, <3>2
            <4>3. QED
                BY <1>28, <4>1, <4>2
        <3>3. QED
            BY <3>1, <3>2
    <2>7. f.left = 0 => pulled <= total + Slack(memo'.failed, Largest)
        <3>1. CASE missed
            BY <1>1, <1>3, <1>15, <1>23, <1>25, <2>4, <3>1 DEF pulled
        <3>2. CASE ~ missed
            BY <1>1, <1>3, <1>23, <1>25, <2>4, <2>5, <3>2 DEF pulled
        <3>3. QED
            BY <3>1, <3>2
    <2>8. f.left = 0 => pulled <= total + Slack(memo'.failed, Largest)
                                   + (IF fetch'.returned THEN Largest ELSE 0)
        <3>1. Slack(memo'.failed, Largest) \in Nat
            BY <1>1, <2>4, SlackGrows
        <3>2. QED
            BY <1>1, <1>3, <1>24, <2>7, <3>1
    <2>9. Charged(fetch', memo'.failed, pulled, total, Largest)
        <3>1. f.left > 0 => pulled + f.left <= total + cost /\ cost <= f.left + Largest
            BY <1>23
        <3>2. cost >= cost
            BY <1>24
        <3>3. QED
            BY <1>1, <1>3, <1>24, <2>2, <2>4, <2>6, <2>8, <3>1, <3>2, FinishCharged DEF Finished
    <2>10. QED
        BY <1>4, <2>2, <2>3, <2>9 DEF Finished, PassPlaced
(* The batch joins the answer.                                             *)
<1>29. CASE ~ bad
    <2>1. fetch' = WithBatch(f, batch, cost)
        BY <1>12, <1>29 DEF WithBatch
    <2>2. BatchJoined(f, cost, fetch')
        BY <1>1, <1>2, <1>6, <1>24, <2>1, JoinedFields
    <2>3. Moves(fetch')
        BY <1>4, <2>2, SameMoves DEF BatchJoined
    <2>4. PassPlaced(fetch', ghost.asked)
        BY <1>2, <2>2 DEF PassPlaced, BatchJoined
    <2>5. memo'.failed = memo.failed
        BY <1>21, <1>29
    <2>6. f.left = 0 => pulled <= total + Slack(memo.failed, Largest) + Largest
        BY <1>1, <1>3, <1>15, <1>23, <1>25 DEF pulled
    <2>7. Charged(fetch', memo'.failed, pulled, total, Largest)
        BY <1>23, <2>2, <2>5, <2>6 DEF Charged, BatchJoined
    <2>8. QED
        BY <2>2, <2>3, <2>4, <2>7 DEF BatchJoined
<1>30. QED
    BY <1>16, <1>27, <1>28, <1>29

(* A pass begins with nothing pulled and the whole budget left.            *)
LEMMA NoFetchTyped ==
    /\ NoFetch \in InHand
    /\ NoFetch.pc = "idle" /\ NoFetch.outcomes = <<>> /\ ~ NoFetch.returned
BY NothingTyped DEF NoFetch, InHand

LEMMA PassingKeeps ==
    ASSUME NEW f \in InHand, NEW r \in Fetches, NEW n \in Nat, NEW g, g = Passing(f, r)
    PROVE  /\ g \in InHand /\ g.pc = "pass" /\ g.records = <<>>
           /\ Charged(g, n, 0, Total(r), Largest)
           /\ Moves(g)
<1>1. Total(r) \in Nat /\ TargetOf(r) \in Nat
    BY RequestTyped
<1>2. f.reads + 1 \in Nat
    BY DEF InHand
<1>3. /\ g \in InHand /\ g.pc = "pass" /\ g.left = Total(r)
      /\ g.records = NoFetch.records /\ g.fetched = NoFetch.fetched /\ g.len = NoFetch.len
      /\ g.returned = NoFetch.returned /\ g.outcomes = NoFetch.outcomes
    BY <1>1, <1>2, NoFetchTyped DEF Passing, InHand
<1>4. NoFetch.records = <<>> /\ NoFetch.fetched = 0 /\ NoFetch.len = 0
    BY DEF NoFetch
<1>5. Largest \in Nat /\ Slack(n, Largest) \in Nat
    BY LargestBounds, SlackGrows
<1>6. Charged(g, n, 0, Total(r), Largest)
    BY <1>1, <1>3, <1>4, <1>5 DEF Charged
<1>7. Moves(g)
    BY <1>3, NoFetchTyped DEF Moves
<1>8. QED
    BY <1>3, <1>4, <1>6, <1>7

LEMMA FetchKeeps ==
    ASSUME PassType, PassInv, NEW r \in Fetches, Fetch(r)
    PROVE  PassType' /\ PassInv'
<1>1. fetch' = Passing(NoFetch, r) /\ memo' = FreshMemo /\ UNCHANGED <<batches, health>>
    BY DEF Fetch
<1>2. /\ ghost' \in [pulled : Nat, changes : Nat, asked : Seq(Fetches)]
      /\ ghost'.pulled = 0 /\ ghost'.asked = <<r>>
    <2>1. ghost \in [pulled : Nat, changes : Nat, asked : Seq(Fetches)]
        BY DEF PassType
    <2>2. ghost' = [ghost EXCEPT !.pulled = 0, !.asked = <<r>>]
        BY DEF Fetch
    <2>3. <<r>> \in Seq(Fetches)
        OBVIOUS
    <2>4. QED
        BY <2>1, <2>2, <2>3
<1>3. /\ memo' \in [seen : Seq([range : ReadRanges, got : ReadResults]), failed : Nat,
                    objects : SUBSET Object]
      /\ memo'.failed = 0 /\ Counted(memo')
    BY <1>1 DEF FreshMemo, Counted
<1>4. /\ fetch' \in InHand /\ fetch'.pc = "pass" /\ fetch'.records = <<>>
      /\ Charged(fetch', 0, 0, Total(r), Largest)
      /\ Moves(fetch')
    BY <1>1, NoFetchTyped, PassingKeeps
<1>5. ghost'.asked # <<>> /\ ghost'.asked[1] = r
    BY <1>2
<1>6. Total(ghost'.asked[1]) = Total(r)
    BY <1>5
<1>7. PassPlaced(fetch', ghost'.asked)
    BY <1>4, <1>5 DEF PassPlaced
<1>8. QED
    BY <1>1, <1>2, <1>3, <1>4, <1>6, <1>7 DEF PassType, PassInv

LEMMA WakeKeeps ==
    ASSUME PassType, PassInv, NEW p \in FetchPart, NEW o \in Object,
           Wake(p, BatchOf(o, SizeOf[o], "tail"))
    PROVE  PassType' /\ PassInv'
<1> DEFINE b == BatchOf(o, SizeOf[o], "tail")
<1>1. b \in Batch
    BY FetchReadAssumption DEF BatchOf, Batch
<1> HIDE DEF b
<1>2. /\ fetch.pc = "parked" /\ batches' = [batches EXCEPT ![p].log = Append(@, b)]
      /\ fetch' = Passing(fetch, Asked) /\ ghost' = [ghost EXCEPT !.pulled = 0]
      /\ UNCHANGED <<health, memo>>
    BY DEF Wake, b
<1>3. /\ fetch \in InHand /\ memo.failed \in Nat
      /\ ghost \in [pulled : Nat, changes : Nat, asked : Seq(Fetches)]
      /\ PassPlaced(fetch, ghost.asked) /\ Counted(memo)
    BY DEF PassType, PassInv
<1>4. Asked = ghost.asked[1] /\ Asked \in Fetches /\ ghost.asked # <<>>
    BY <1>2, <1>3, AskedTyped DEF PassPlaced
<1>5. /\ fetch' \in InHand /\ fetch'.pc = "pass" /\ fetch'.records = <<>>
      /\ Charged(fetch', memo.failed, 0, Total(Asked), Largest)
      /\ Moves(fetch')
    BY <1>2, <1>3, <1>4, PassingKeeps
<1>6. /\ ghost' \in [pulled : Nat, changes : Nat, asked : Seq(Fetches)]
      /\ ghost'.pulled = 0 /\ ghost'.asked = ghost.asked
    BY <1>2, <1>3
<1>7. batches' \in [FetchPart -> [log : Seq(Batch), start : Nat]]
    <2>1. batches \in [FetchPart -> [log : Seq(Batch), start : Nat]]
        BY DEF PassType
    <2>2. Append(batches[p].log, b) \in Seq(Batch)
        BY <1>1, <2>1
    <2>3. QED
        BY <1>2, <2>1, <2>2
<1>8. Total(ghost'.asked[1]) = Total(Asked)
    BY <1>4, <1>6
<1>9. PassPlaced(fetch', ghost'.asked)
    BY <1>4, <1>5, <1>6 DEF PassPlaced
<1>10. QED
    BY <1>2, <1>3, <1>5, <1>6, <1>7, <1>8, <1>9 DEF PassType, PassInv

LEMMA AnswersKeeps ==
    ASSUME PassType, PassInv, Answers
    PROVE  PassType' /\ PassInv'
<1>1. fetch' = NoFetch /\ UNCHANGED <<batches, health, memo, ghost>>
    BY DEF Answers
<1>2. Moves(NoFetch)
    BY NoFetchTyped DEF Moves
<1>3. PassPlaced(NoFetch, ghost.asked)
    BY NoFetchTyped DEF PassPlaced
<1>4. QED
    BY <1>1, <1>2, <1>3, NoFetchTyped DEF PassType, PassInv

LEMMA ParkKeeps ==
    ASSUME PassType, PassInv, Park
    PROVE  PassType' /\ PassInv'
<1>1. /\ fetch' = [fetch EXCEPT !.pc = "parked"] /\ UNCHANGED <<batches, health, memo, ghost>>
      /\ fetch.pc = "pass"
    BY DEF Park, PassDone
<1>2. fetch \in InHand
    BY DEF PassType
<1>3. /\ fetch' \in InHand /\ fetch'.pc = "parked"
      /\ SameAccount(fetch, fetch') /\ fetch'.outcomes = fetch.outcomes
    BY <1>1, <1>2 DEF InHand, SameAccount
<1>4. Charged(fetch', memo.failed, ghost.pulled, Total(ghost.asked[1]), Largest)
    BY <1>1, <1>3, SameCharged DEF PassInv
<1>5. Moves(fetch')
    BY <1>3, SameMoves DEF PassInv, SameAccount
<1>6. PassPlaced(fetch', ghost.asked)
    BY <1>1, <1>3 DEF PassInv, PassPlaced
<1>7. QED
    BY <1>1, <1>3, <1>4, <1>5, <1>6 DEF PassType, PassInv

LEMMA HealthKeeps ==
    ASSUME PassType, PassInv, NEW o \in Object,
           NEW to \in {"ok", "down", "gone", "nofooter", "unstamped"}, Health(o, to)
    PROVE  PassType' /\ PassInv'
<1>1. /\ UNCHANGED <<batches, fetch, memo>> /\ health' = [health EXCEPT ![o] = to]
      /\ ghost' = [ghost EXCEPT !.changes = @ + 1]
    BY DEF Health
<1>2. to \in ReadResults
    BY DEF ReadResults
<1>3. health' \in [Object -> ReadResults]
    BY <1>1, <1>2 DEF PassType
<1>4. /\ ghost' \in [pulled : Nat, changes : Nat, asked : Seq(Fetches)]
      /\ ghost'.pulled = ghost.pulled /\ ghost'.asked = ghost.asked
    <2>1. ghost \in [pulled : Nat, changes : Nat, asked : Seq(Fetches)]
        BY DEF PassType
    <2>2. ghost.changes + 1 \in Nat
        BY <2>1
    <2>3. QED
        BY <1>1, <2>1, <2>2
<1>5. QED
    BY <1>1, <1>3, <1>4 DEF PassType, PassInv

LEMMA PassBegins ==
    ASSUME FetchReadInit
    PROVE  PassType /\ PassInv
<1>1. /\ batches \in [FetchPart -> [log : Seq(Batch), start : Nat]]
      /\ health \in [Object -> ReadResults]
    BY FetchReadAssumption DEF FetchReadInit, ReadResults
<1>2. fetch = NoFetch /\ memo = FreshMemo /\ ghost = [pulled |-> 0, changes |-> 0, asked |-> <<>>]
    BY DEF FetchReadInit
<1>3. /\ memo \in [seen : Seq([range : ReadRanges, got : ReadResults]), failed : Nat,
                   objects : SUBSET Object]
      /\ Counted(memo)
    BY <1>2 DEF FreshMemo, Counted
<1>4. ghost \in [pulled : Nat, changes : Nat, asked : Seq(Fetches)]
    BY <1>2
<1>5. Moves(NoFetch) /\ PassPlaced(NoFetch, ghost.asked)
    BY NoFetchTyped DEF Moves, PassPlaced
<1>6. QED
    BY <1>1, <1>2, <1>3, <1>4, <1>5, NoFetchTyped DEF PassType, PassInv

LEMMA PassStep ==
    ASSUME PassType, PassInv, [FetchReadNext]_fetchReadVars
    PROVE  PassType' /\ PassInv'
<1>1. CASE UNCHANGED fetchReadVars
    BY <1>1 DEF fetchReadVars, PassType, PassInv
<1>2. CASE \E r \in Fetches : Fetch(r)
    BY <1>2, FetchKeeps
<1>3. CASE \E p \in FetchPart, o \in Object : Wake(p, BatchOf(o, SizeOf[o], "tail"))
    BY <1>3, WakeKeeps
<1>4. CASE \E o \in Object, to \in {"ok", "down", "gone", "nofooter", "unstamped"} : Health(o, to)
    BY <1>4, HealthKeeps
<1>5. QED
    BY <1>1, <1>2, <1>3, <1>4, StartKeeps, ReadKeeps, EndKeeps, AnswersKeeps, ParkKeeps
       DEF FetchReadNext

LEMMA PassInvSound ==
    ASSUME PassType, PassInv
    PROVE  PassSound
<1>1. SomethingMoves
    BY DEF PassInv, Moves, SomethingMoves, Silent
<1>2. ASSUME fetch.pc # "idle"
      PROVE  ghost.pulled <= Total(Asked) + (memo.failed + 1) * Largest
    <2>1. /\ ghost.pulled \in Nat /\ memo.failed \in Nat /\ Largest \in Nat
          /\ fetch.left \in Nat /\ fetch.fetched \in Nat
        BY LargestBounds DEF PassType, InHand
    <2>2. Total(Asked) \in Nat /\ Asked = ghost.asked[1]
        BY <1>2, AskedTyped DEF PassInv
    <2>3. Charged(fetch, memo.failed, ghost.pulled, Total(Asked), Largest)
        BY <1>2, <2>2 DEF PassInv
    <2>4. /\ Slack(memo.failed, Largest) \in Nat
          /\ Slack(memo.failed + 1, Largest) = Slack(memo.failed, Largest) + Largest
        BY <2>1, SlackGrows
    <2>5. ghost.pulled <= Total(Asked) + (Slack(memo.failed, Largest) + Largest)
        <3>1. CASE fetch.left > 0
            <4>1. /\ ghost.pulled + fetch.left <= Total(Asked) + fetch.fetched
                  /\ fetch.fetched <= fetch.left + Largest
                BY <2>3, <3>1 DEF Charged
            <4>2. \A p, l, t, f, b, k \in Nat :
                     p + l <= t + f /\ f <= l + b => p <= t + (k + b)
                OBVIOUS
            <4>3. QED
                BY <2>1, <2>2, <2>4, <4>1, <4>2
        <3>2. CASE fetch.left = 0
            BY <2>1, <2>2, <2>3, <2>4, <3>2 DEF Charged
        <3>3. QED
            BY <2>1, <3>1, <3>2
    <2>6. QED
        BY <2>4, <2>5 DEF Slack
<1>3. PassBounded
    BY <1>2 DEF PassBounded, Largest
<1>4. QED
    BY <1>1, <1>3 DEF PassSound

(* For every layout of batches, every request and every bound: a pass over *)
(* a request's partitions (read_partitions) leaves no partition that has   *)
(* records unmentioned unless another returned some, and pulls at most its *)
(* budget, the batch that crosses it and one object for each failure.      *)
THEOREM PassIsSound == FetchReadSpec => []PassSound
<1>1. FetchReadInit => PassType /\ PassInv
    BY PassBegins
<1>2. PassType /\ PassInv /\ [FetchReadNext]_fetchReadVars => (PassType /\ PassInv)'
    BY PassStep
<1>3. PassType /\ PassInv => PassSound
    BY PassInvSound
<1>4. QED
    BY <1>1, <1>2, <1>3, PTL DEF FetchReadSpec
=============================================================================
