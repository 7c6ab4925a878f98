--------------------------- MODULE FollowerProofs ---------------------------
(***************************************************************************)
(* For every set of partitions, page and buffer size, and number of terms  *)
(* and entries. No partition with something left to expire is ever         *)
(* forgotten by the heap, through lag, failed reads and other leaders'     *)
(* entries. And where every entry reaches the follower, its index is the   *)
(* line's and it deletes nothing the line still names.                     *)
(*                                                                         *)
(* What is out of the heap is on its way back: asked of the loop, refused  *)
(* and about to be armed again, or trimmed by an entry not yet received.   *)
(***************************************************************************)
EXTENDS Follower, IndexLoopProofs, FiniteSetTheorems, WellFoundedInduction

(* Where a version the loop is about to tell of stands.                    *)
Fresh(v) == v > fapplied /\ v > boot /\ \A i \in 1 .. Len(deltas) : v > deltas[i]

(* What is on its way comes in order and is news.                          *)
Stream ==
    /\ boot = -1 => pc = "new" /\ deltas = <<>>
    /\ pc \in {"landed", "rebuild", "tell", "cleared"} => Fresh(view) /\ view \in 1 .. Len(line) /\ line[view] = job
    /\ \A i \in 1 .. Len(deltas) : deltas[i] <= Len(line) /\ deltas[i] > fapplied /\ deltas[i] > boot
    /\ \A i, j \in 1 .. Len(deltas) : i < j => deltas[i] < deltas[j]

(* What the follower has read is in the line.                              *)
Read ==
    /\ findex \subseteq 1 .. Len(line) /\ fapplied <= Len(line)
    /\ fpc = "rebuild" => fapplied = fcursor /\ (boot = -1 => fcursor = 0) /\ (boot # -1 => fcursor <= boot)

(* Whose trim the loop has in hand.                                        *)
Asked ==
    /\ fpc \in {"asking", "waiting"} => \E p \in Partition : ask = Trim(p, EndOffset(findex, p))
    /\ fpc # "waiting" => outcome = "none"
    /\ job # NoJob => pc \in {"append", "landed", "rebuild", "tell", "cleared"}
    /\ job.kind = "trim" => fpc = "waiting" /\ outcome = "none" /\ job = ask

(* A trim of all the follower holds of a partition is still to be folded.  *)
Pending(p) ==
    \E i \in 1 .. Len(deltas) :
        LET e == line[deltas[i]]
        IN  e.kind = "trim" /\ p \in e.spans /\ e.start >= EndOffset(findex, p)

InHand(p) == fpc \in {"asking", "waiting"} /\ p \in ask.spans /\ outcome # "ok"

NoneForgotten ==
    \A p \in Partition : Named(findex, p) # {} => p \in armed \/ lagged \/ InHand(p) \/ Pending(p)

HeapInv == IndexInv /\ TypeOK /\ Stream /\ Read /\ Asked /\ NoneForgotten
-----------------------------------------------------------------------------
(* What a fold of a line answers, with the line as a parameter.            *)

OfIn(l, folded, kind, p) == {v \in folded : l[v].kind = kind /\ p \in l[v].spans}

EndIn(l, folded, p) == Cardinality(OfIn(l, folded, "commit", p))

StartIn(l, folded, p) == Max({0} \cup {l[v].start : v \in OfIn(l, folded, "trim", p)})

NamedIn(l, folded, p) ==
    {v \in OfIn(l, folded, "commit", p) :
        Cardinality({u \in OfIn(l, folded, "commit", p) : u < v}) >= StartIn(l, folded, p)}

(* What the model's operators are, of the line as it is.                   *)
Answers ==
    \A F, p : /\ Commits(F, p) = OfIn(line, F, "commit", p)
              /\ EndOffset(F, p) = EndIn(line, F, p)
              /\ LogStart(F, p) = StartIn(line, F, p)
              /\ Named(F, p) = NamedIn(line, F, p)

LEMMA AnswersNow == Answers
BY DEF Answers, Commits, Of, EndOffset, LogStart, Named, OffsetOf, OfIn, EndIn, StartIn, NamedIn

LEMMA AnswersThen == Answers'
BY DEF Answers, Commits, Of, EndOffset, LogStart, Named, OffsetOf, OfIn, EndIn, StartIn, NamedIn

(* Entries behind what is folded change nothing in it.                     *)
LEMMA AnswersKept ==
    ASSUME NEW l, NEW k, NEW F, NEW p, \A v \in F : k[v] = l[v]
    PROVE  /\ EndIn(k, F, p) = EndIn(l, F, p)
           /\ NamedIn(k, F, p) = NamedIn(l, F, p)
<1>1. \A kind : OfIn(k, F, kind, p) = OfIn(l, F, kind, p)
  BY DEF OfIn
<1>2. {k[v].start : v \in OfIn(l, F, "trim", p)} = {l[v].start : v \in OfIn(l, F, "trim", p)}
  BY DEF OfIn
<1>3. StartIn(k, F, p) = StartIn(l, F, p)
  BY <1>1, <1>2 DEF StartIn
<1> QED
  BY <1>1, <1>3 DEF EndIn, NamedIn

(* Max, of a bounded set of naturals.                                      *)
LEMMA MaxIs ==
    ASSUME NEW N \in Nat, NEW S, S \subseteq 0 .. N, S # {}
    PROVE  Max(S) \in S /\ \A x \in S : Max(S) >= x
<1> DEFINE T == {N - x : x \in S}
<1>0. \A x \in S : x \in Int /\ N - x \in Nat
  OBVIOUS
<1>1. T \subseteq Nat /\ T # {}
  BY <1>0
<1>2. PICK m \in T : \A y \in T : ~(<<y, m>> \in OpToRel(<, Nat))
  BY <1>1, NatLessThanWellFounded, WFMin
<1>3. \A y \in T : ~(y < m)
  BY <1>1, <1>2 DEF OpToRel
<1>4. PICK x \in S : m = N - x
  OBVIOUS
<1>5. \A y \in S : x >= y
  <2>1. SUFFICES ASSUME NEW y \in S PROVE x >= y
    OBVIOUS
  <2>2. N - y \in T
    OBVIOUS
  <2>3. ~(N - y < N - x)
    BY <1>3, <1>4, <2>2
  <2> QED
    BY <2>3
<1> QED
  BY <1>5 DEF Max

(* An entry's start is a natural within the bound on the line.             *)
LEMMA EntryStarts ==
    ASSUME NEW e \in Entry
    PROVE  e.start \in 0 .. MaxLine /\ e.kind \in {"commit", "trim"} /\ e.spans \subseteq Partition
<1>1. CASE \E b \in Bundle : e = Commit(b)
  BY <1>1, IndexLoopAssumption DEF Commit
<1>2. CASE \E p \in Partition, n \in 0 .. MaxLine : e = Trim(p, n)
  BY <1>2, IndexLoopAssumption DEF Trim
<1> QED
  BY <1>1, <1>2 DEF Entry

(* The log start: at or above every trim folded, and within the bound.     *)
LEMMA StartIs ==
    ASSUME NEW l \in Seq(Entry), NEW F, F \subseteq 1 .. Len(l), NEW p
    PROVE  /\ StartIn(l, F, p) \in 0 .. MaxLine
           /\ \A v \in OfIn(l, F, "trim", p) : StartIn(l, F, p) >= l[v].start
           /\ StartIn(l, F, p) \in {0} \cup {l[v].start : v \in OfIn(l, F, "trim", p)}
<1> DEFINE S == {0} \cup {l[v].start : v \in OfIn(l, F, "trim", p)}
<1>1. \A v \in F : l[v] \in Entry
  OBVIOUS
<1>2. MaxLine \in Nat
  BY IndexLoopAssumption
<1>3. S \subseteq 0 .. MaxLine /\ S # {}
  BY <1>1, <1>2, EntryStarts DEF OfIn
<1>4. Max(S) \in S /\ \A x \in S : Max(S) >= x
  BY <1>2, <1>3, MaxIs
<1> QED
  BY <1>3, <1>4 DEF StartIn

(* Folding more never lowers the log start.                                *)
LEMMA StartGrows ==
    ASSUME NEW l \in Seq(Entry), NEW F, NEW G, F \subseteq G, G \subseteq 1 .. Len(l), NEW p
    PROVE  StartIn(l, F, p) <= StartIn(l, G, p)
<1>1. /\ StartIn(l, F, p) \in {0} \cup {l[v].start : v \in OfIn(l, F, "trim", p)}
      /\ StartIn(l, G, p) \in 0 .. MaxLine
      /\ \A v \in OfIn(l, G, "trim", p) : StartIn(l, G, p) >= l[v].start
  BY StartIs
<1>2. OfIn(l, F, "trim", p) \subseteq OfIn(l, G, "trim", p)
  BY DEF OfIn
<1>3. \A v \in OfIn(l, G, "trim", p) : l[v].start \in 0 .. MaxLine
  BY EntryStarts DEF OfIn
<1> QED
  BY <1>1, <1>2, <1>3, IndexLoopAssumption

(* The end offset: a natural, at most as many as there are entries; and    *)
(* every offset is below it.                                               *)
LEMMA EndIs ==
    ASSUME NEW l, NEW n \in Nat, NEW F, F \subseteq 1 .. n, NEW p
    PROVE  /\ EndIn(l, F, p) \in 0 .. n
           /\ IsFiniteSet(OfIn(l, F, "commit", p))
           /\ \A v \in OfIn(l, F, "commit", p) :
                 /\ Cardinality({u \in OfIn(l, F, "commit", p) : u < v}) \in Nat
                 /\ Cardinality({u \in OfIn(l, F, "commit", p) : u < v}) < EndIn(l, F, p)
<1> DEFINE S == OfIn(l, F, "commit", p)
<1>1. IsFiniteSet(1 .. n) /\ Cardinality(1 .. n) = n
  BY FS_Interval
<1>2. S \in SUBSET (1 .. n)
  BY DEF OfIn
<1>3. IsFiniteSet(S) /\ Cardinality(S) <= n
  BY <1>1, <1>2, FS_Subset
<1>4. Cardinality(S) \in Nat
  BY <1>3, FS_CardinalityType
<1>5. ASSUME NEW v \in S
      PROVE  Cardinality({u \in S : u < v}) \in Nat /\ Cardinality({u \in S : u < v}) < Cardinality(S)
  <2> DEFINE T == {u \in S : u < v}
  <2>1. T \in SUBSET S /\ v \notin T
    BY <1>2
  <2>2. IsFiniteSet(T) /\ Cardinality(T) <= Cardinality(S) /\ (Cardinality(S) = Cardinality(T) => S = T)
    BY <1>3, <2>1, FS_Subset
  <2>3. Cardinality(T) \in Nat
    BY <2>2, FS_CardinalityType
  <2>4. Cardinality(T) # Cardinality(S)
    BY <1>5, <2>1, <2>2
  <2> HIDE DEF T, S
  <2>5. Cardinality(T) < Cardinality(S)
    BY <1>4, <2>2, <2>3, <2>4
  <2> QED
    BY <2>3, <2>5 DEF T
<1> QED
  BY <1>3, <1>4, <1>5 DEF EndIn

(* A log start at the end leaves nothing named.                            *)
LEMMA NothingNamed ==
    ASSUME NEW l \in Seq(Entry), NEW F, F \subseteq 1 .. Len(l), NEW p,
           StartIn(l, F, p) >= EndIn(l, F, p)
    PROVE  NamedIn(l, F, p) = {}
<1>0. Len(l) \in Nat
  OBVIOUS
<1>1. EndIn(l, F, p) \in Nat /\ StartIn(l, F, p) \in Nat
  <2>1. EndIn(l, F, p) \in 0 .. Len(l)
    BY <1>0, EndIs
  <2>2. StartIn(l, F, p) \in 0 .. MaxLine
    BY StartIs
  <2> QED
    BY <1>0, <2>1, <2>2, IndexLoopAssumption
<1>2. \A v \in OfIn(l, F, "commit", p) :
         /\ Cardinality({u \in OfIn(l, F, "commit", p) : u < v}) \in Nat
         /\ Cardinality({u \in OfIn(l, F, "commit", p) : u < v}) < EndIn(l, F, p)
  BY <1>0, EndIs
<1> QED
  BY <1>1, <1>2 DEF NamedIn

(* Folding more that commits nothing of a partition adds nothing to what   *)
(* it names, and leaves its end where it was.                              *)
LEMMA SameCommits ==
    ASSUME NEW l \in Seq(Entry), NEW F, NEW G, F \subseteq G, G \subseteq 1 .. Len(l), NEW p,
           OfIn(l, G, "commit", p) = OfIn(l, F, "commit", p)
    PROVE  /\ EndIn(l, G, p) = EndIn(l, F, p)
           /\ NamedIn(l, G, p) \subseteq NamedIn(l, F, p)
<1>0. Len(l) \in Nat /\ F \subseteq 1 .. Len(l)
  OBVIOUS
<1>1. StartIn(l, F, p) <= StartIn(l, G, p) /\ StartIn(l, F, p) \in Nat /\ StartIn(l, G, p) \in Nat
  <2>1. StartIn(l, F, p) <= StartIn(l, G, p)
    BY StartGrows
  <2>2. StartIn(l, F, p) \in 0 .. MaxLine /\ StartIn(l, G, p) \in 0 .. MaxLine
    BY <1>0, StartIs
  <2> QED
    BY <2>1, <2>2, IndexLoopAssumption
<1>2. \A w \in OfIn(l, F, "commit", p) : Cardinality({u \in OfIn(l, F, "commit", p) : u < w}) \in Nat
  <2>1. \A w \in OfIn(l, F, "commit", p) :
           /\ Cardinality({u \in OfIn(l, F, "commit", p) : u < w}) \in Nat
           /\ Cardinality({u \in OfIn(l, F, "commit", p) : u < w}) < EndIn(l, F, p)
    BY ZenonT(30), <1>0, EndIs
  <2> QED
    BY <2>1
<1>3. EndIn(l, G, p) = EndIn(l, F, p)
  BY DEF EndIn
<1>4. ASSUME NEW w \in NamedIn(l, G, p) PROVE w \in NamedIn(l, F, p)
  <2>1. w \in OfIn(l, F, "commit", p)
    BY <1>4 DEF NamedIn
  <2>2. Cardinality({u \in OfIn(l, G, "commit", p) : u < w}) >= StartIn(l, G, p)
    BY <1>4 DEF NamedIn
  <2> DEFINE c == Cardinality({u \in OfIn(l, F, "commit", p) : u < w})
  <2>3. c >= StartIn(l, G, p)
    BY <2>2
  <2>4. c \in Nat
    BY <1>2, <2>1
  <2> HIDE DEF c
  <2>5. c >= StartIn(l, F, p)
    BY <1>1, <2>3, <2>4
  <2> QED
    BY <2>1, <2>5 DEF NamedIn, c
<1> QED
  BY <1>3, <1>4

-----------------------------------------------------------------------------
(* What a step of the loop and its lease does to what the follower looks   *)
(* at: the line is only added to, and only Tell sends or acknowledges.     *)
LoopEffect ==
    /\ line' \in Seq(Entry) /\ Len(line) <= Len(line')
    /\ \A v \in 1 .. Len(line) : line'[v] = line[v]
    /\ boot' = boot \/ (boot = -1 /\ boot' = Len(line))
    /\ \/ Tell
       \/ /\ deltas' = deltas /\ lagged' = lagged
          /\ outcome' = outcome \/ (job.kind = "trim" /\ outcome' = "err")

LEMMA LoopHasEffect ==
    ASSUME IndexInv, LoopNext
    PROVE  LoopEffect
<1>0. line \in Seq(Entry)
  BY DEF IndexInv, LoopTypeOK
<1>00. \A e \in Entry : /\ Append(line, e) \in Seq(Entry) /\ Len(Append(line, e)) = Len(line) + 1
                        /\ \A v \in 1 .. Len(line) : Append(line, e)[v] = line[v]
  BY <1>0
<1>000. pc = "append" => job \in Entry
  BY DEF IndexInv, Handles
<1> USE DEF LoopEffect
<1>1. CASE ReplayStart
  BY <1>1, <1>0 DEF ReplayStart, feeds
<1>2. CASE FoldPage
  BY <1>2, <1>0 DEF FoldPage, handles, feeds
<1>3. CASE ReplayDone
  BY <1>3, <1>0 DEF ReplayDone, handles
<1>4. CASE RefoldStart
  BY <1>4, <1>0 DEF RefoldStart, feeds
<1>5. CASE RefoldPage
  BY <1>5, <1>0 DEF RefoldPage, handles, feeds
<1>6. CASE RefoldDone
  BY <1>6, <1>0 DEF RefoldDone
<1>7. CASE Lands
  BY <1>7, <1>0, <1>00, <1>000 DEF Lands, feeds
<1>8. CASE Refused
  BY <1>8, <1>0 DEF Refused, Answer
<1>9. CASE Errs
  BY <1>9, <1>0, <1>00, <1>000 DEF Errs, Answer
<1>10. CASE Fenced
  BY <1>10, <1>0 DEF Fenced, Answer
<1>11. CASE PublishNext
  BY <1>11, <1>0 DEF PublishNext, handles, tidings
<1>12. CASE PublishRebuild
  BY <1>12, <1>0 DEF PublishRebuild, handles, feeds
<1>13. CASE RebuildDone
  BY <1>13, <1>0 DEF RebuildDone, handles, tidings
<1>22. CASE Failing
  BY <1>22, <1>0 DEF Failing, ReplayFails, RefoldFails,
       PublishClears, RebuildBreaks, handles, feeds, tidings
<1>14. CASE Tell
  BY <1>14, <1>0 DEF Tell, handles
<1>15. CASE DropCache
  BY <1>15, <1>0 DEF DropCache, handles, tidings
<1>16. CASE Dropped
  BY <1>16, <1>0 DEF Dropped, handles
<1>17. CASE Lapse
  BY <1>17, <1>0 DEF Lapse, feeds
<1>18. CASE Take
  BY <1>18, <1>0 DEF Take, feeds
<1>19. ASSUME NEW b \in Bundle, Stage(Commit(b)) PROVE LoopEffect
  BY <1>19, <1>0 DEF Stage, handles, feeds
<1>20. ASSUME NEW b \in Bundle, OtherAppends(b) PROVE LoopEffect
  BY <1>20, <1>0, <1>00 DEF OtherAppends, feeds, Entry
<1> QED
  BY <1>1, <1>2, <1>3, <1>4, <1>5, <1>6, <1>7, <1>8, <1>9, <1>10,
     <1>11, <1>12, <1>13, <1>14, <1>15, <1>16, <1>17, <1>18, <1>19, <1>20,
     <1>22 DEF LoopNext, Serving

(* An entry appended behind the stream leaves it be.                       *)
LEMMA StreamStays ==
    ASSUME Stream, LoopTypeOK, Len(line') \in Nat, Len(line) <= Len(line'),
           \A v \in 1 .. Len(line) : line'[v] = line[v],
           boot' = boot, deltas' = deltas, fapplied' = fapplied,
           view' = view, \/ pc' = "idle" /\ boot # -1
                         \/ pc' = pc /\ job' = job
    PROVE  Stream'
<1>0. deltas \in Seq(Version)
  BY DEF LoopTypeOK
<1>1. (\A i \in 1 .. Len(deltas) : deltas[i] \in Int) /\ Len(deltas) \in Nat
  BY <1>0, IndexLoopAssumption DEF Version
<1>2. Len(line) \in Nat /\ view \in Int
  BY IndexLoopAssumption DEF LoopTypeOK
<1> QED
  BY <1>1, <1>2 DEF Stream, Fresh

(* What is on its way stays in order and news.                             *)
LEMMA LoopKeepsStream ==
    ASSUME HeapInv, LoopNext, UNCHANGED followerVars
    PROVE  Stream'
<1> USE IndexLoopAssumption DEF followerVars
<1>0. IndexInv /\ TypeOK /\ Stream /\ Read /\ LoopTypeOK /\ Handles
  BY DEF HeapInv, IndexInv
<1>00. /\ Len(line) \in Nat /\ Len(line') \in Nat /\ Len(line) <= Len(line')
       /\ \A v \in 1 .. Len(line) : line'[v] = line[v]
  BY <1>0, LoopHasEffect, SMTT(40) DEF LoopEffect, LoopTypeOK
<1> USE DEF Stream, Fresh, Read
<1>1. CASE ReplayStart
  BY <1>1, <1>0 DEF ReplayStart, feeds, LoopTypeOK, Handles, TypeOK
<1>2. CASE FoldPage
  BY <1>2, <1>0 DEF FoldPage, handles, feeds, LoopTypeOK, Handles, TypeOK
<1>3. CASE ReplayDone
  BY <1>3, <1>0 DEF ReplayDone, handles, LoopTypeOK, Handles, TypeOK
<1>4. CASE RefoldStart
  BY <1>4, <1>0 DEF RefoldStart, feeds, LoopTypeOK, Handles, TypeOK
<1>5. CASE RefoldPage
  BY <1>5, <1>0 DEF RefoldPage, handles, feeds, LoopTypeOK, Handles, TypeOK
<1>6. CASE RefoldDone
  BY <1>6, <1>0 DEF RefoldDone, LoopTypeOK, Handles, TypeOK
<1>7. CASE Lands
  <2>1. job \in Entry /\ line \in Seq(Entry)
    BY <1>0, <1>7 DEF Lands, Handles, LoopTypeOK
  <2>2. view' = Len(line) + 1 /\ Len(line') = Len(line) + 1 /\ line'[Len(line) + 1] = job
    BY <1>7, <2>1 DEF Lands
  <2>3. deltas' = deltas /\ boot' = boot /\ job' = job /\ pc' = "landed" /\ boot # -1
    BY <1>0, <1>7 DEF Lands, feeds
  <2>4. /\ \A i \in 1 .. Len(deltas) : deltas[i] \in Int
        /\ fapplied \in Int /\ boot \in Int /\ boot <= Len(line) /\ Len(deltas) \in Nat
    BY <1>0 DEF LoopTypeOK, Handles, TypeOK, Version
  <2>5. \A i \in 1 .. Len(deltas) : deltas[i] <= Len(line) /\ deltas[i] > fapplied /\ deltas[i] > boot
    BY <1>0
  <2>6. fapplied <= Len(line) /\ fapplied' = fapplied
    BY <1>0
  <2>7. Fresh(view)' /\ view' \in 1 .. Len(line') /\ line'[view'] = job'
    BY <1>00, <2>2, <2>3, <2>4, <2>5, <2>6
  <2>8. \A i \in 1 .. Len(deltas') :
          deltas'[i] <= Len(line') /\ deltas'[i] > fapplied' /\ deltas'[i] > boot'
    BY <1>00, <2>2, <2>3, <2>4, <2>5, <2>6
  <2> QED
    BY <1>0, <2>3, <2>7, <2>8
<1>8. CASE Refused
  BY <1>8, <1>0 DEF Refused, Answer, LoopTypeOK, Handles, TypeOK
<1>9. CASE Errs
  <2>1. /\ boot' = boot /\ deltas' = deltas /\ fapplied' = fapplied /\ view' = view
        /\ pc' = "idle" /\ boot # -1
    BY <1>9, <1>0 DEF Errs, Answer
  <2>2. \/ pc' = "idle" /\ boot # -1
        \/ pc' = pc /\ job' = job
    BY <2>1
  <2> QED
    BY <1>0, <1>00, <2>1, <2>2, StreamStays
<1>10. CASE Fenced
  BY <1>10, <1>0 DEF Fenced, Answer, LoopTypeOK, Handles, TypeOK
<1>11. CASE PublishNext
  BY <1>11, <1>0 DEF PublishNext, handles, tidings, LoopTypeOK, Handles, TypeOK
<1>12. CASE PublishRebuild
  BY <1>12, <1>0 DEF PublishRebuild, handles, feeds, LoopTypeOK, Handles, TypeOK
<1>13. CASE RebuildDone
  BY <1>13, <1>0 DEF RebuildDone, handles, tidings, LoopTypeOK, Handles, TypeOK
<1>22. CASE Failing
  BY <1>22, <1>0 DEF Failing, ReplayFails, RefoldFails,
       PublishClears, RebuildBreaks, handles, feeds, tidings, LoopTypeOK, Handles, TypeOK
<1>14. CASE Tell
  BY <1>14, <1>0, SMTT(40) DEF Tell, handles, Answer, LoopTypeOK, Handles, TypeOK
<1>15. CASE DropCache
  BY <1>15, <1>0 DEF DropCache, handles, tidings, LoopTypeOK, Handles, TypeOK
<1>16. CASE Dropped
  BY <1>16, <1>0 DEF Dropped, handles, LoopTypeOK, Handles, TypeOK
<1>17. CASE Lapse
  BY <1>17, <1>0 DEF Lapse, feeds, LoopTypeOK, Handles, TypeOK
<1>18. CASE Take
  BY <1>18, <1>0 DEF Take, feeds, LoopTypeOK, Handles, TypeOK
<1>19. ASSUME NEW b \in Bundle, Stage(Commit(b)) PROVE Stream'
  BY <1>19, <1>0 DEF Stage, handles, feeds, LoopTypeOK, Handles, TypeOK
<1>20. ASSUME NEW b \in Bundle, OtherAppends(b) PROVE Stream'
  BY <1>20, <1>0, <1>00, StreamStays DEF OtherAppends, feeds
<1> QED
  BY <1>1, <1>2, <1>3, <1>4, <1>5, <1>6, <1>7, <1>8, <1>9, <1>10,
     <1>11, <1>12, <1>13, <1>14, <1>15, <1>16, <1>17, <1>18, <1>19, <1>20,
     <1>22 DEF LoopNext, Serving

(* A trim in the loop's hands is the one the follower waits for.           *)
LEMMA LoopKeepsJob ==
    ASSUME HeapInv, LoopNext, UNCHANGED followerVars
    PROVE  /\ fpc' # "waiting" => outcome' = "none"
           /\ job' # NoJob => pc' \in {"append", "landed", "rebuild", "tell", "cleared"}
           /\ job'.kind = "trim" => fpc' = "waiting" /\ outcome' = "none" /\ job' = ask'
<1> DEFINE G == /\ fpc' # "waiting" => outcome' = "none"
                /\ job' # NoJob => pc' \in {"append", "landed", "rebuild", "tell", "cleared"}
                /\ job'.kind = "trim" => fpc' = "waiting" /\ outcome' = "none" /\ job' = ask'
<1> SUFFICES G
  OBVIOUS
<1>0. Asked /\ NoJob.kind # "trim" /\ \A b : Commit(b).kind # "trim" /\ Commit(b) # NoJob
  BY DEF HeapInv, NoJob, Commit
<1> USE DEF followerVars, Asked
<1>1. CASE ReplayStart
  BY <1>1, <1>0 DEF ReplayStart, feeds
<1>2. CASE FoldPage
  BY <1>2, <1>0 DEF FoldPage, handles, feeds
<1>3. CASE ReplayDone
  BY <1>3, <1>0 DEF ReplayDone, handles
<1>4. CASE RefoldStart
  BY <1>4, <1>0 DEF RefoldStart, feeds
<1>5. CASE RefoldPage
  BY <1>5, <1>0 DEF RefoldPage, handles, feeds
<1>6. CASE RefoldDone
  BY <1>6, <1>0 DEF RefoldDone
<1>7. CASE Lands
  BY <1>7, <1>0 DEF Lands, feeds
<1>8. CASE Refused
  BY <1>8, <1>0 DEF Refused, Answer
<1>9. CASE Errs
  BY <1>9, <1>0 DEF Errs, Answer
<1>10. CASE Fenced
  BY <1>10, <1>0 DEF Fenced, Answer
<1>11. CASE PublishNext
  BY <1>11, <1>0 DEF PublishNext, handles, tidings
<1>12. CASE PublishRebuild
  BY <1>12, <1>0 DEF PublishRebuild, handles, feeds
<1>13. CASE RebuildDone
  BY <1>13, <1>0 DEF RebuildDone, handles, tidings
<1>22. CASE Failing
  BY <1>22, <1>0 DEF Failing, ReplayFails, RefoldFails,
       PublishClears, RebuildBreaks, handles, feeds, tidings
<1>14. CASE Tell
  BY <1>14, <1>0 DEF Tell, handles, Answer
<1>15. CASE DropCache
  BY <1>15, <1>0 DEF DropCache, handles, tidings
<1>16. CASE Dropped
  BY <1>16, <1>0 DEF Dropped, handles
<1>17. CASE Lapse
  BY <1>17, <1>0 DEF Lapse, feeds
<1>18. CASE Take
  BY <1>18, <1>0 DEF Take, feeds
<1>19. ASSUME NEW b \in Bundle, Stage(Commit(b)) PROVE G
  BY <1>19, <1>0 DEF Stage, handles, feeds
<1>20. ASSUME NEW b \in Bundle, OtherAppends(b) PROVE G
  BY <1>20, <1>0 DEF OtherAppends, feeds
<1> QED
  BY <1>1, <1>2, <1>3, <1>4, <1>5, <1>6, <1>7, <1>8, <1>9, <1>10,
     <1>11, <1>12, <1>13, <1>14, <1>15, <1>16, <1>17, <1>18, <1>19, <1>20,
     <1>22 DEF LoopNext, Serving

(* What the loop does forgets no partition: what it takes from the stream  *)
(* it reports as lag, and a trim it acknowledges it has sent.              *)
LEMMA LoopForgetsNone ==
    ASSUME HeapInv, LoopEffect, UNCHANGED followerVars
    PROVE  NoneForgotten'
<1> DEFINE E(p) == EndIn(line, findex, p)
<1>0. line \in Seq(Entry) /\ findex \subseteq 1 .. Len(line) /\ Len(line) \in Nat
  BY DEF HeapInv, IndexInv, LoopTypeOK, Read
<1>1. \A v \in 1 .. Len(line) : line'[v] = line[v]
  BY DEF LoopEffect
<1>2. fpc' = fpc /\ findex' = findex /\ armed' = armed /\ ask' = ask
  BY DEF followerVars
<1>3. \A p : EndIn(line', findex, p) = E(p) /\ NamedIn(line', findex, p) = NamedIn(line, findex, p)
  <2>1. \A v \in findex : line'[v] = line[v]
    BY <1>0, <1>1
  <2> QED
    BY <2>1, AnswersKept
<1>4. \A p : /\ EndOffset(findex, p) = E(p) /\ EndOffset(findex, p)' = E(p)
             /\ Named(findex, p)' = Named(findex, p)
  BY <1>2, <1>3, AnswersNow, AnswersThen DEF Answers
<1> HIDE DEF E
<1>5. SUFFICES ASSUME NEW p \in Partition, Named(findex, p)' # {},
                      p \notin armed', ~lagged', ~InHand(p)'
               PROVE  Pending(p)'
  BY DEF NoneForgotten
<1>6. Named(findex, p) # {} /\ p \notin armed
  BY <1>2, <1>4, <1>5
<1>7. p \in armed \/ lagged \/ InHand(p) \/ Pending(p)
  BY <1>6 DEF HeapInv, NoneForgotten
<1>8. deltas \in Seq(Version) /\ Len(deltas) \in Nat /\ Stream /\ Asked /\ lagged \in BOOLEAN
  BY DEF HeapInv, IndexInv, LoopTypeOK
<1>9. \A i \in 1 .. Len(deltas) : deltas[i] \in 1 .. Len(line)
  BY <1>0, <1>8, IndexLoopAssumption DEF Stream, Version
<1>10. CASE Tell
  <2>1. /\ lagged' = (lagged \/ Len(deltas) >= Buffer)
        /\ deltas' = Append(IF Len(deltas) < Buffer THEN deltas ELSE Tail(deltas), view)
        /\ outcome' = IF job.kind = "trim" THEN "ok" ELSE outcome
        /\ pc \in {"tell", "cleared"} /\ line' = line
    BY <1>10 DEF Tell, Answer, handles
  <2>2. ~lagged /\ Len(deltas) < Buffer
    <3>1. ~(Len(deltas) >= Buffer) /\ ~lagged
      BY <1>5, <1>8, <2>1
    <3> QED
      BY <1>8, <3>1, IndexLoopAssumption
  <2>3. deltas' = Append(deltas, view)
    BY <2>1, <2>2
  <2>4. view \in 1 .. Len(line) /\ line[view] = job
    BY <1>8, <2>1 DEF Stream
  <2>5. view \in Version
    BY <1>0, <2>4, IndexLoopAssumption DEF HeapInv, IndexInv, LoopTypeOK, Version
  <2>6. /\ Len(deltas') = Len(deltas) + 1 /\ deltas'[Len(deltas) + 1] = view
        /\ \A i \in 1 .. Len(deltas) : deltas'[i] = deltas[i]
    BY <1>8, <2>3, <2>5
  <2>7. CASE Pending(p)
    <3>1. PICK i \in 1 .. Len(deltas) : /\ line[deltas[i]].kind = "trim" /\ p \in line[deltas[i]].spans
                                        /\ line[deltas[i]].start >= EndOffset(findex, p)
      BY <2>7 DEF Pending
    <3>2. i \in 1 .. Len(deltas') /\ line'[deltas'[i]] = line[deltas[i]]
      BY <1>8, <2>1, <2>6
    <3> QED
      BY <1>4, <3>1, <3>2 DEF Pending
  <2>8. CASE InHand(p)
    <3>1. fpc \in {"asking", "waiting"} /\ p \in ask.spans /\ outcome # "ok" /\ outcome' = "ok"
      BY <1>2, <1>5, <2>8 DEF InHand
    <3>2. job.kind = "trim" /\ job = ask
      BY <1>8, <2>1, <3>1 DEF Asked
    <3>3. PICK q \in Partition : ask = Trim(q, EndOffset(findex, q))
      BY <1>8, <3>1 DEF Asked
    <3>4. ask.kind = "trim" /\ ask.spans = {q} /\ ask.start = EndOffset(findex, q)
      BY <3>3 DEF Trim
    <3>5. q = p
      BY <3>1, <3>4
    <3>6. E(p) \in Nat
      <4>1. E(p) \in 0 .. Len(line)
        BY <1>0, EndIs DEF E
      <4> QED
        BY <1>0, <4>1
    <3>7. line'[deltas'[Len(deltas) + 1]] = ask /\ Len(deltas) + 1 \in 1 .. Len(deltas')
      BY <1>8, <2>1, <2>4, <2>6, <3>2
    <3>8. ask.start >= E(p)
      BY <1>4, <3>4, <3>5, <3>6
    <3> QED
      BY <1>4, <3>4, <3>5, <3>7, <3>8 DEF Pending
  <2> QED
    BY <1>6, <1>7, <2>2, <2>7, <2>8
<1>11. CASE ~Tell
  <2>1. /\ deltas' = deltas /\ lagged' = lagged
        /\ outcome' = outcome \/ (job.kind = "trim" /\ outcome' = "err")
    BY <1>11 DEF LoopEffect
  <2>2. ~InHand(p)
    BY <1>2, <1>5, <2>1 DEF InHand
  <2>3. PICK i \in 1 .. Len(deltas) : /\ line[deltas[i]].kind = "trim" /\ p \in line[deltas[i]].spans
                                      /\ line[deltas[i]].start >= EndOffset(findex, p)
    BY <1>5, <1>6, <1>7, <2>1, <2>2 DEF Pending
  <2>4. line'[deltas'[i]] = line[deltas[i]] /\ i \in 1 .. Len(deltas')
    BY <1>1, <1>9, <2>1
  <2> QED
    BY <1>4, <2>3, <2>4 DEF Pending
<1> QED
  BY <1>10, <1>11

(* Every step of the loop, its lease and the other nodes keeps HeapInv.    *)
LEMMA LoopKeepsHeap ==
    ASSUME HeapInv, LoopNext, UNCHANGED followerVars
    PROVE  HeapInv'
<1>0. IndexInv /\ TypeOK /\ Read /\ Asked
  BY DEF HeapInv
<1>1. IndexInv'
  BY <1>0, LoopNextKeeps
<1>2. LoopEffect
  BY <1>0, LoopHasEffect
<1>3. TypeOK'
  BY <1>0 DEF TypeOK, followerVars
<1>4. Read'
  <2>1. /\ Len(line) \in Nat /\ Len(line') \in Nat /\ Len(line) <= Len(line')
        /\ boot' = boot \/ (boot = -1 /\ boot' = Len(line))
    BY <1>0, <1>2 DEF LoopEffect, IndexInv, LoopTypeOK
  <2>2. findex \subseteq 1 .. Len(line) /\ fapplied <= Len(line) /\ fapplied \in Nat
    BY <1>0, IndexLoopAssumption DEF Read, TypeOK
  <2>3. fpc = "rebuild" => /\ fapplied = fcursor /\ (boot = -1 => fcursor = 0)
                           /\ (boot # -1 => fcursor <= boot)
    BY <1>0 DEF Read
  <2>4. fpc' = fpc /\ fcursor' = fcursor /\ findex' = findex /\ fapplied' = fapplied
    BY DEF followerVars
  <2>5. findex' \subseteq 1 .. Len(line') /\ fapplied' <= Len(line')
    BY <2>1, <2>2, <2>4
  <2> QED
    BY <2>1, <2>3, <2>4, <2>5 DEF Read
<1>5. Asked'
  <2>1. /\ fpc' # "waiting" => outcome' = "none"
        /\ job' # NoJob => pc' \in {"append", "landed", "rebuild", "tell", "cleared"}
        /\ job'.kind = "trim" => fpc' = "waiting" /\ outcome' = "none" /\ job' = ask'
    BY LoopKeepsJob
  <2>2. \A p : EndIn(line', findex, p) = EndIn(line, findex, p)
    <3>1. \A v \in findex : line'[v] = line[v]
      BY <1>0, <1>2 DEF LoopEffect, Read
    <3> QED
      BY <3>1, AnswersKept
  <2>3. \A p : EndOffset(findex, p)' = EndOffset(findex, p)
    BY <2>2, AnswersNow, AnswersThen DEF Answers, followerVars
  <2>4. fpc' \in {"asking", "waiting"} => \E p \in Partition : ask' = Trim(p, EndOffset(findex, p)')
    BY <1>0, <2>3 DEF Asked, followerVars
  <2> QED
    BY <2>1, <2>4 DEF Asked, Trim
<1>6. Stream' /\ NoneForgotten'
  BY <1>2, LoopKeepsStream, LoopForgetsNone
<1> QED
  BY <1>1, <1>3, <1>4, <1>5, <1>6 DEF HeapInv
-----------------------------------------------------------------------------
(* The follower takes from the loop's feeds without disturbing the loop.   *)
LEMMA FeedsKeepIndex ==
    ASSUME IndexInv,
           UNCHANGED <<line, leads, term, terms, view, opened, replayed, forTerm>>,
           UNCHANGED <<pc, cursor, job, index, applied, published, acked, emptied>>,
           boot' \in -1 .. MaxLine, boot' <= Len(line),
           deltas' \in Seq(Version), Len(deltas') <= Buffer, lagged' \in BOOLEAN,
           outcome' \in {"none", "ok", "err"}
    PROVE  IndexInv'
<1> USE DEF IndexInv
<1>1. LoopTypeOK'
  BY DEF LoopTypeOK
<1>2. IndexFaithful' /\ WatchHonest'
  BY DEF IndexFaithful, WatchHonest, Clearing
<1>3. Handles' /\ Folding' /\ Standing'
  BY DEF Handles, Folding, Standing, LevelWith
<1> QED
  BY <1>1, <1>2, <1>3

(* And most of its steps leave the loop alone.                             *)
LEMMA LoopAtRest ==
    ASSUME IndexInv, UNCHANGED loopVars
    PROVE  IndexInv'
BY LoopNextKeeps

(* What the steps below take from the invariant.                           *)
LEMMA HeapFacts ==
    ASSUME HeapInv
    PROVE  /\ MaxLine \in Nat
           /\ line \in Seq(Entry) /\ Len(line) \in Nat /\ Len(line) <= MaxLine
           /\ findex \subseteq 1 .. Len(line) /\ fapplied \in Nat /\ fapplied <= Len(line)
           /\ fcursor \in Nat /\ boot \in Int /\ boot <= Len(line) /\ boot >= -1
           /\ view \in Nat /\ deltas \in Seq(Version) /\ Len(deltas) \in Nat /\ Len(deltas) <= Buffer
           /\ \A i \in 1 .. Len(deltas) : deltas[i] \in 1 .. Len(line)
           /\ lagged \in BOOLEAN /\ outcome \in {"none", "ok", "err"}
           /\ \A p : EndOffset(findex, p) \in 0 .. MaxLine
<1>1. /\ MaxLine \in Nat
      /\ line \in Seq(Entry) /\ Len(line) \in Nat /\ Len(line) <= MaxLine
      /\ findex \subseteq 1 .. Len(line) /\ fapplied \in Nat /\ fapplied <= Len(line)
      /\ fcursor \in Nat /\ boot \in Int /\ boot <= Len(line) /\ boot >= -1
      /\ view \in Nat /\ deltas \in Seq(Version) /\ Len(deltas) \in Nat /\ Len(deltas) <= Buffer
      /\ lagged \in BOOLEAN /\ outcome \in {"none", "ok", "err"}
  BY IndexLoopAssumption DEF HeapInv, IndexInv, LoopTypeOK, Handles, Read, TypeOK
<1>2. \A i \in 1 .. Len(deltas) : deltas[i] \in Version /\ deltas[i] <= Len(line)
  BY <1>1 DEF HeapInv, Stream
<1>3. \A p : EndOffset(findex, p) \in 0 .. MaxLine
  <2>1. \A p : EndIn(line, findex, p) \in 0 .. Len(line)
    BY <1>1, EndIs
  <2>2. \A p : EndOffset(findex, p) \in 0 .. Len(line)
    BY <2>1, AnswersNow DEF Answers
  <2> QED
    BY <1>1, <2>2
<1>4. \A i \in 1 .. Len(deltas) : deltas[i] \in 1 .. Len(line)
  BY <1>1, <1>2 DEF Version
<1> QED
  BY <1>1, <1>3, <1>4

(* A fold of nothing names nothing.                                        *)
LEMMA EmptyNamesNothing ==
    \A p : Named({}, p) = {} /\ Named({}, p)' = {}
BY DEF Named, Commits, Of

(* The deferred handle is opened by the follower.                          *)
LEMMA HeapOpenBoot ==
    ASSUME HeapInv, OpenBoot
    PROVE  HeapInv'
<1> USE HeapFacts
<1>0. /\ IndexInv /\ TypeOK /\ Stream /\ Read /\ Asked /\ NoneForgotten
      /\ pc = "new" /\ deltas = <<>> /\ fcursor = 0 /\ fapplied = 0 /\ fpc = "rebuild"
  BY DEF HeapInv, OpenBoot, Stream, Read
<1>1. /\ boot' = Len(line) /\ line' = line /\ deltas' = deltas /\ lagged' = lagged
      /\ outcome' = outcome /\ pc' = pc /\ job' = job /\ view' = view
      /\ UNCHANGED followerVars
  BY DEF OpenBoot, feeds
<1>2. IndexInv'
  BY <1>0, <1>1, FeedsKeepIndex DEF OpenBoot, feeds
<1>3. TypeOK'
  BY <1>0, <1>1 DEF TypeOK, followerVars
<1>4. Stream'
  BY <1>0, <1>1 DEF Stream, followerVars
<1>5. Read'
  BY <1>0, <1>1 DEF Read, followerVars
<1>6. Asked'
  BY <1>0, <1>1 DEF Asked, followerVars, EndOffset, Commits, Of, Trim
<1>7. NoneForgotten'
  <2>1. findex' = findex /\ fpc' = fpc /\ armed' = armed /\ ask' = ask
    BY <1>1 DEF followerVars
  <2>2. \A p : Named(findex, p)' = Named(findex, p)
    BY <1>1, <2>1, AnswersNow, AnswersThen DEF Answers
  <2>3. \A p : ~Pending(p)
    BY <1>0 DEF Pending
  <2> QED
    BY <1>0, <1>1, <2>1, <2>2, <2>3 DEF NoneForgotten, InHand
<1> QED
  BY <1>2, <1>3, <1>4, <1>5, <1>6, <1>7 DEF HeapInv

(* Asked, where the follower waits for nothing before or after.            *)
LEMMA AskedIdle ==
    ASSUME Asked, fpc \notin {"asking", "waiting"}, fpc' \notin {"asking", "waiting"},
           outcome' = outcome, job' = job, pc' = pc
    PROVE  Asked'
BY DEF Asked

(* A page of the follower's rebuild: everything it touches is armed.       *)
LEMMA HeapRebuildPage ==
    ASSUME HeapInv, RebuildPage
    PROVE  HeapInv'
<1> USE HeapFacts
<1> DEFINE n == PageEnd(fcursor, boot)
           new == PageAfter(fcursor, boot)
<1>0. /\ IndexInv /\ TypeOK /\ Stream /\ Read /\ Asked /\ NoneForgotten
      /\ fpc = "rebuild" /\ fapplied = fcursor /\ boot > fcursor
  BY DEF HeapInv, RebuildPage, Read
<1>1. UNCHANGED loopVars /\ fpc' = fpc /\ fapplied' = n /\ fcursor' = n /\ findex' = findex \cup new
  BY DEF RebuildPage
<1>2. line' = line /\ deltas' = deltas /\ lagged' = lagged /\ boot' = boot /\ view' = view
      /\ outcome' = outcome /\ pc' = pc /\ job' = job
  BY <1>1 DEF loopVars
<1>3. n \in Nat /\ fcursor < n /\ n <= boot
  BY <1>0, PageEndBounds
<1>4. new = fcursor + 1 .. n
  BY DEF PageAfter
<1>5. IndexInv'
  BY <1>0, <1>1, LoopAtRest
<1> HIDE DEF n, new
<1>6. findex' \subseteq 1 .. Len(line)
  BY <1>1, <1>3, <1>4
<1>7. TypeOK'
  <2>1. findex' \subseteq Version /\ fapplied' \in 0 .. MaxLine /\ fcursor' \in 0 .. MaxLine
    BY <1>1, <1>3, <1>6 DEF Version
  <2>2. armed' \subseteq Partition
    BY <1>0 DEF RebuildPage, Touched, TypeOK
  <2> QED
    BY <1>0, <2>1, <2>2 DEF TypeOK, RebuildPage
<1>8. Stream'
  <2>1. boot # -1
    BY <1>0
  <2>2. \A i \in 1 .. Len(deltas) : deltas[i] > n
    BY <1>0, <1>3 DEF Stream
  <2>3. pc \in {"landed", "rebuild", "tell", "cleared"} => view > n
    BY <1>0, <1>3 DEF Stream, Fresh
  <2> QED
    BY <1>0, <1>1, <1>2, <2>1, <2>2, <2>3 DEF Stream, Fresh
<1>9. Read'
  BY <1>0, <1>1, <1>2, <1>3, <1>6 DEF Read
<1>10. Asked'
  BY <1>0, <1>1, <1>2, AskedIdle
<1>11. NoneForgotten'
  <2>1. SUFFICES ASSUME NEW p \in Partition, Named(findex, p)' # {}, p \notin armed', ~lagged'
                 PROVE  Pending(p)'
    BY DEF NoneForgotten
  <2>2. p \notin Touched(new) /\ p \notin armed
    BY <2>1 DEF RebuildPage, new
  <2>3. OfIn(line, new, "commit", p) = {}
    BY <2>2, AnswersNow DEF Touched, Answers
  <2>4. OfIn(line, findex', "commit", p) = OfIn(line, findex, "commit", p)
    BY <1>1, <2>3 DEF OfIn
  <2>5. EndIn(line, findex', p) = EndIn(line, findex, p) /\ NamedIn(line, findex', p) \subseteq NamedIn(line, findex, p)
    <3>1. findex \subseteq findex'
      BY <1>1
    <3> QED
      BY <1>6, <2>4, <3>1, SameCommits
  <2>6. EndOffset(findex, p)' = EndOffset(findex, p) /\ Named(findex, p)' \subseteq Named(findex, p)
    BY <1>2, <2>5, AnswersNow, AnswersThen DEF Answers
  <2>7. Pending(p)
    BY <1>0, <1>2, <2>1, <2>2, <2>6 DEF NoneForgotten, InHand
  <2> QED
    BY <1>2, <2>6, <2>7 DEF Pending
<1> QED
  BY <1>5, <1>7, <1>8, <1>9, <1>10, <1>11 DEF HeapInv

(* What is left of the stream once its head is received.                   *)
LEMMA TailIs ==
    ASSUME NEW d \in Seq(Version), d # <<>>
    PROVE  /\ Len(d) >= 1 /\ Head(d) = d[1] /\ d[1] \in Version
           /\ Tail(d) \in Seq(Version) /\ Len(Tail(d)) = Len(d) - 1
           /\ \A i \in 1 .. Len(Tail(d)) : Tail(d)[i] = d[i + 1]
OBVIOUS

(* A follower that forgets what it holds has nothing to keep armed.        *)
LEMMA ForgottenHeap ==
    ASSUME HeapInv, IndexInv',
           findex' = {}, fapplied' = 0, fcursor' = 0, fpc' \in {"rebuild", "idle"},
           fpc \notin {"asking", "waiting"}, armed' \subseteq Partition, synced' \in BOOLEAN,
           UNCHANGED <<ask, dropped, released, atZero, leaving, gone>>,
           line' = line, boot' = boot, view' = view, pc' = pc, job' = job, outcome' = outcome,
           \/ deltas' = deltas
           \/ deltas # <<>> /\ deltas' = Tail(deltas)
    PROVE  HeapInv'
<1> USE HeapFacts
<1>0. TypeOK /\ Stream /\ Read /\ Asked
  BY DEF HeapInv
<1>1. TypeOK'
  BY <1>0 DEF TypeOK
<1>2. Stream'
  <2>1. CASE deltas' = deltas
    BY <1>0, <2>1 DEF Stream, Fresh
  <2>2. CASE deltas # <<>> /\ deltas' = Tail(deltas)
    <3>1. Len(deltas') = Len(deltas) - 1 /\ \A i \in 1 .. Len(deltas') : deltas'[i] = deltas[i + 1]
      BY <2>2, TailIs
    <3>2. \A i \in 1 .. Len(deltas') : i + 1 \in 1 .. Len(deltas)
      BY <3>1
    <3>3. boot # -1
      BY <1>0, <2>2 DEF Stream
    <3>4. \A i, j \in 1 .. Len(deltas') : i < j => deltas'[i] < deltas'[j]
      <4>1. SUFFICES ASSUME NEW i \in 1 .. Len(deltas'), NEW j \in 1 .. Len(deltas'), i < j
                     PROVE  deltas'[i] < deltas'[j]
        OBVIOUS
      <4>2. i + 1 < j + 1 /\ i + 1 \in 1 .. Len(deltas) /\ j + 1 \in 1 .. Len(deltas)
        BY <3>1, <3>2, <4>1
      <4> QED
        BY <1>0, <3>1, <4>1, <4>2 DEF Stream
    <3>5. \A i \in 1 .. Len(deltas') : deltas'[i] <= Len(line) /\ deltas'[i] > 0 /\ deltas'[i] > boot
      BY <1>0, <3>1, <3>2 DEF Stream
    <3>6. pc \in {"landed", "rebuild", "tell", "cleared"} => \A i \in 1 .. Len(deltas') : view > deltas'[i]
      BY <1>0, <3>1, <3>2 DEF Stream, Fresh
    <3> QED
      BY <1>0, <3>3, <3>4, <3>5, <3>6 DEF Stream, Fresh
  <2> QED
    BY <2>1, <2>2
<1>3. Read'
  BY DEF Read
<1>4. Asked'
  BY <1>0, AskedIdle
<1>5. NoneForgotten'
  BY EmptyNamesNothing DEF NoneForgotten
<1> QED
  BY <1>1, <1>2, <1>3, <1>4, <1>5 DEF HeapInv

(* Receiving leaves the loop as it was.                                    *)
LEMMA ReceivesKeepsIndex ==
    ASSUME HeapInv, NEW v, Receives(v)
    PROVE  IndexInv'
<1> USE HeapFacts
<1>1. /\ UNCHANGED <<line, leads, term, terms, view, opened, replayed, forTerm>>
      /\ UNCHANGED <<pc, cursor, job, index, applied, published, acked, emptied>>
      /\ boot' = boot /\ deltas' = Tail(deltas) /\ deltas # <<>> /\ lagged' = lagged
      /\ outcome' = outcome
  BY DEF Receives, handles
<1>2. deltas' \in Seq(Version) /\ Len(deltas') = Len(deltas) - 1
  BY <1>1, TailIs
<1>3. Len(deltas') <= Buffer
  BY <1>2, IndexLoopAssumption
<1>4. boot' \in -1 .. MaxLine
  BY <1>1
<1> QED
  BY <1>1, <1>2, <1>3, <1>4, FeedsKeepIndex DEF HeapInv

(* Every step that forgets: a failed read, an unsynced round, a lag, a     *)
(* delta refused.                                                          *)
LEMMA HeapForgets ==
    ASSUME HeapInv, RebuildFails \/ RoundUnsynced \/ RecvLagged \/ \E v \in Version : FoldRefused(v)
    PROVE  HeapInv'
<1> USE HeapFacts
<1>0. IndexInv /\ TypeOK
  BY DEF HeapInv
<1>1. CASE RebuildFails
  <2>1. UNCHANGED loopVars
    BY <1>1 DEF RebuildFails
  <2>2. IndexInv'
    BY <1>0, <2>1, LoopAtRest
  <2>3. /\ line' = line /\ boot' = boot /\ view' = view /\ pc' = pc /\ job' = job
        /\ outcome' = outcome /\ deltas' = deltas
    BY <2>1 DEF loopVars
  <2>4. armed' \subseteq Partition /\ synced' \in BOOLEAN
    BY <1>0, <1>1 DEF RebuildFails, TypeOK
  <2> QED
    BY <1>1, <2>2, <2>3, <2>4, ForgottenHeap DEF RebuildFails
<1>2. CASE RoundUnsynced
  <2>1. UNCHANGED loopVars
    BY <1>2 DEF RoundUnsynced
  <2>2. IndexInv'
    BY <1>0, <2>1, LoopAtRest
  <2>3. /\ line' = line /\ boot' = boot /\ view' = view /\ pc' = pc /\ job' = job
        /\ outcome' = outcome /\ deltas' = deltas
    BY <2>1 DEF loopVars
  <2>4. armed' \subseteq Partition /\ synced' \in BOOLEAN
    BY <1>2 DEF RoundUnsynced, Forget
  <2> QED
    BY <1>2, <2>2, <2>3, <2>4, ForgottenHeap DEF RoundUnsynced, Forget
<1>3. CASE RecvLagged
  <2>2. IndexInv'
    <3>1. /\ UNCHANGED <<line, leads, term, terms, view, opened, replayed, forTerm>>
          /\ UNCHANGED <<pc, cursor, job, index, applied, published, acked, emptied>>
          /\ boot' = boot /\ deltas' = deltas /\ lagged' = FALSE /\ outcome' = outcome
      BY <1>3 DEF RecvLagged, handles
    <3>2. boot' \in -1 .. MaxLine
      BY <3>1
    <3> QED
      BY <1>0, <3>1, <3>2, FeedsKeepIndex
  <2>3. /\ line' = line /\ boot' = boot /\ view' = view /\ pc' = pc /\ job' = job
        /\ outcome' = outcome /\ deltas' = deltas
    BY <1>3 DEF RecvLagged, handles
  <2>4. armed' \subseteq Partition /\ synced' \in BOOLEAN
    BY <1>3 DEF RecvLagged, Forget
  <2> QED
    BY <1>3, <2>2, <2>3, <2>4, ForgottenHeap DEF RecvLagged, Forget
<1>4. ASSUME NEW v \in Version, FoldRefused(v) PROVE HeapInv'
  <2>2. IndexInv'
    BY <1>4, ReceivesKeepsIndex DEF FoldRefused
  <2>3. /\ line' = line /\ boot' = boot /\ view' = view /\ pc' = pc /\ job' = job
        /\ outcome' = outcome /\ deltas # <<>> /\ deltas' = Tail(deltas)
    BY <1>4 DEF FoldRefused, Receives, handles
  <2>4. armed' \subseteq Partition /\ synced' \in BOOLEAN
    BY <1>4 DEF FoldRefused, Forget
  <2> QED
    BY <1>4, <2>2, <2>3, <2>4, ForgottenHeap DEF FoldRefused, Receives, Forget
<1> QED
  BY <1>1, <1>2, <1>3, <1>4

(* A delta is folded: a commit arms what it touches, and a trim of all the *)
(* follower holds leaves nothing to expire.                                *)
LEMMA HeapFoldDelta ==
    ASSUME HeapInv, NEW v \in Version, FoldDelta(v)
    PROVE  HeapInv'
<1> USE HeapFacts
<1>0. TypeOK /\ Stream /\ Read /\ Asked /\ NoneForgotten /\ IndexInv
  BY DEF HeapInv
<1>1. /\ fpc = "idle" /\ ~lagged /\ deltas # <<>> /\ v = Head(deltas) /\ deltas' = Tail(deltas)
      /\ UNCHANGED <<ask, dropped, released, atZero, leaving, gone>>
      /\ line' = line /\ boot' = boot /\ view' = view /\ pc' = pc /\ job' = job
      /\ outcome' = outcome /\ lagged' = lagged
      /\ fpc' = fpc /\ fcursor' = fcursor /\ synced' = synced
  BY DEF FoldDelta, Receives, handles
<1>2. /\ Len(deltas) >= 1 /\ v = deltas[1] /\ Len(deltas') = Len(deltas) - 1
      /\ \A i \in 1 .. Len(deltas') : deltas'[i] = deltas[i + 1]
  BY <1>1, TailIs
<1>3. v > fapplied /\ v > boot /\ v \in 1 .. Len(line)
  BY <1>0, <1>2 DEF Stream
<1>4. {w \in {v} : w > fapplied} = {v}
  BY <1>3
<1>5. findex' = findex \cup {v} /\ fapplied' = Max({v} \cup {fapplied}) /\ armed' = armed \cup Touched({v})
  BY <1>4 DEF FoldDelta
<1>6. fapplied' = v
  <2>1. {v} \cup {fapplied} \subseteq 0 .. Len(line)
    BY <1>3
  <2>2. /\ Max({v} \cup {fapplied}) \in {v} \cup {fapplied}
        /\ \A x \in {v} \cup {fapplied} : Max({v} \cup {fapplied}) >= x
    BY <2>1, MaxIs
  <2>3. fapplied' \in {v, fapplied} /\ fapplied' >= v
    BY <1>5, <2>2
  <2>4. v \in Nat /\ v > fapplied
    BY <1>3
  <2> QED
    BY <2>3, <2>4, HeapFacts
<1>7. findex' \subseteq 1 .. Len(line)
  BY <1>3, <1>5
<1>8. IndexInv'
  BY ReceivesKeepsIndex DEF FoldDelta
<1>9. TypeOK'
  <2>1. findex' \subseteq Version /\ fapplied' \in 0 .. MaxLine
    BY <1>3, <1>6, <1>7 DEF Version
  <2>2. armed' \subseteq Partition
    BY <1>0, <1>5 DEF Touched, TypeOK
  <2> QED
    BY <1>0, <1>1, <2>1, <2>2 DEF TypeOK
<1>10. Stream'
  <2>1. \A i \in 1 .. Len(deltas') : /\ deltas'[i] = deltas[i + 1] /\ i + 1 \in 1 .. Len(deltas)
                                     /\ deltas'[i] > v
    BY <1>0, <1>2 DEF Stream
  <2>2. pc \in {"landed", "rebuild", "tell", "cleared"} => view > v
    BY <1>0, <1>2 DEF Stream, Fresh
  <2>3. boot # -1
    BY <1>0, <1>1 DEF Stream
  <2>4. \A i, j \in 1 .. Len(deltas') : i < j => deltas'[i] < deltas'[j]
    <3>1. SUFFICES ASSUME NEW i \in 1 .. Len(deltas'), NEW j \in 1 .. Len(deltas'), i < j
                   PROVE  deltas'[i] < deltas'[j]
      OBVIOUS
    <3>2. i + 1 < j + 1 /\ i + 1 \in 1 .. Len(deltas) /\ j + 1 \in 1 .. Len(deltas)
      BY <1>2, <3>1
    <3> QED
      BY <1>0, <1>2, <3>1, <3>2 DEF Stream
  <2>5. \A i \in 1 .. Len(deltas') : deltas'[i] <= Len(line) /\ deltas'[i] > boot
    BY <1>0, <2>1 DEF Stream
  <2>6. pc \in {"landed", "rebuild", "tell", "cleared"} => \A i \in 1 .. Len(deltas') : view > deltas'[i]
    BY <1>0, <2>1 DEF Stream, Fresh
  <2> QED
    BY <1>0, <1>1, <1>6, <2>1, <2>2, <2>3, <2>4, <2>5, <2>6 DEF Stream, Fresh
<1>11. Read'
  BY <1>1, <1>3, <1>6, <1>7 DEF Read
<1>12. Asked'
  BY <1>0, <1>1, AskedIdle
<1>13. NoneForgotten'
  <2>1. SUFFICES ASSUME NEW p \in Partition, Named(findex, p)' # {}, p \notin armed'
                 PROVE  Pending(p)'
    BY DEF NoneForgotten
  <2>2. p \notin armed /\ OfIn(line, {v}, "commit", p) = {}
    BY <1>5, <2>1, AnswersNow DEF Touched, Answers
  <2>3. OfIn(line, findex', "commit", p) = OfIn(line, findex, "commit", p)
    BY <1>5, <2>2 DEF OfIn
  <2>4. findex \subseteq findex'
    BY <1>5
  <2>5. EndIn(line, findex', p) = EndIn(line, findex, p) /\ NamedIn(line, findex', p) \subseteq NamedIn(line, findex, p)
    BY <1>7, <2>3, <2>4, SameCommits
  <2>6. EndOffset(findex, p)' = EndOffset(findex, p) /\ Named(findex, p)' \subseteq Named(findex, p)
    BY <1>1, <2>5, AnswersNow, AnswersThen DEF Answers
  <2>7. Pending(p)
    BY <1>0, <1>1, <2>1, <2>2, <2>6 DEF NoneForgotten, InHand
  <2>8. PICK i \in 1 .. Len(deltas) : /\ line[deltas[i]].kind = "trim" /\ p \in line[deltas[i]].spans
                                      /\ line[deltas[i]].start >= EndOffset(findex, p)
    BY <2>7 DEF Pending
  <2>9. i # 1
    <3>1. SUFFICES ASSUME i = 1 PROVE FALSE
      OBVIOUS
    <3>2. v \in OfIn(line, findex', "trim", p) /\ line[v].start >= EndIn(line, findex', p)
      BY <1>2, <1>5, <2>5, <2>8, <3>1, AnswersNow DEF OfIn, Answers
    <3>3. /\ StartIn(line, findex', p) >= line[v].start
          /\ StartIn(line, findex', p) \in 0 .. MaxLine
      BY <1>7, <3>2, StartIs
    <3>4. line[v].start \in 0 .. MaxLine
      BY <1>3, EntryStarts
    <3>5. EndIn(line, findex', p) \in 0 .. Len(line)
      BY <1>7, EndIs
    <3>6. StartIn(line, findex', p) >= EndIn(line, findex', p)
      BY <3>2, <3>3, <3>4, <3>5
    <3>7. NamedIn(line, findex', p) = {}
      BY <1>7, <3>6, NothingNamed
    <3> QED
      BY <1>1, <2>1, <3>7, AnswersThen DEF Answers
  <2>10. i - 1 \in 1 .. Len(deltas') /\ deltas'[i - 1] = deltas[i]
    BY <1>2, <2>9
  <2> QED
    BY <1>1, <2>6, <2>8, <2>10 DEF Pending
<1> QED
  BY <1>8, <1>9, <1>10, <1>11, <1>12, <1>13 DEF HeapInv

(* What a step that folds nothing leaves as it was.                        *)
LEMMA NothingFolded ==
    ASSUME HeapInv, UNCHANGED <<line, boot, view, deltas, findex, fapplied, lagged>>, fpc' # "rebuild",
           \/ pc' = pc /\ job' = job
           \/ pc' = "append" /\ pc # "new"
    PROVE  /\ Stream' /\ Read'
           /\ \A p : /\ EndOffset(findex, p)' = EndOffset(findex, p)
                     /\ Named(findex, p)' = Named(findex, p)
                     /\ Pending(p)' <=> Pending(p)
<1>0. Stream /\ Read
  BY DEF HeapInv
<1>1. \A p : /\ EndOffset(findex, p)' = EndOffset(findex, p)
             /\ Named(findex, p)' = Named(findex, p)
  BY AnswersNow, AnswersThen DEF Answers
<1>2. Stream' /\ Read'
  BY <1>0 DEF Stream, Fresh, Read
<1>3. \A p : Pending(p)' <=> Pending(p)
  BY <1>1 DEF Pending
<1> QED
  BY <1>1, <1>2, <1>3

(* The rebuild has read all its handle holds.                              *)
LEMMA HeapRebuildSynced ==
    ASSUME HeapInv, RebuildSynced
    PROVE  HeapInv'
<1>0. IndexInv /\ TypeOK /\ Asked /\ NoneForgotten
  BY DEF HeapInv
<1>1. /\ UNCHANGED loopVars /\ fpc = "rebuild" /\ fpc' = "idle" /\ fcursor' = 0 /\ synced' = TRUE
      /\ UNCHANGED <<findex, fapplied, armed, ask, dropped, released, atZero, leaving, gone>>
  BY DEF RebuildSynced
<1>2. UNCHANGED <<line, boot, view, deltas, lagged, pc, job, outcome>>
  BY <1>1 DEF loopVars
<1>3. IndexInv'
  BY <1>0, <1>1, LoopAtRest
<1>4. TypeOK'
  BY <1>0, <1>1, IndexLoopAssumption DEF TypeOK
<1>5. /\ Stream' /\ Read'
      /\ \A p : Named(findex, p)' = Named(findex, p) /\ (Pending(p)' <=> Pending(p))
  BY <1>1, <1>2, NothingFolded
<1>6. Asked'
  BY <1>0, <1>1, <1>2, AskedIdle
<1>7. NoneForgotten'
  BY <1>0, <1>1, <1>2, <1>5 DEF NoneForgotten, InHand
<1> QED
  BY <1>3, <1>4, <1>5, <1>6, <1>7 DEF HeapInv

(* A partition comes due: what is popped is in hand.                       *)
LEMMA HeapDue ==
    ASSUME HeapInv, NEW p \in Partition, Due(p)
    PROVE  HeapInv'
<1> USE HeapFacts
<1>0. IndexInv /\ TypeOK /\ Asked /\ NoneForgotten
  BY DEF HeapInv
<1>1. /\ UNCHANGED loopVars /\ fpc = "idle" /\ fpc' = "asking" /\ armed' = armed \ {p}
      /\ ask' = Trim(p, EndOffset(findex, p)) /\ dropped' = Named(findex, p)
      /\ UNCHANGED <<fcursor, findex, fapplied, synced, released, atZero, leaving, gone>>
  BY DEF Due
<1>2. UNCHANGED <<line, boot, view, deltas, lagged, pc, job, outcome>>
  BY <1>1 DEF loopVars
<1>3. IndexInv'
  BY <1>0, <1>1, LoopAtRest
<1>4. TypeOK'
  <2>1. ask' \in Entry
    BY <1>1 DEF Entry
  <2>2. dropped' \subseteq Version /\ armed' \subseteq Partition
    BY <1>0, <1>1 DEF TypeOK, Named, Commits, Of
  <2> QED
    BY <1>0, <1>1, <2>1, <2>2 DEF TypeOK
<1>5. /\ Stream' /\ Read'
      /\ \A q : /\ EndOffset(findex, q)' = EndOffset(findex, q)
                /\ Named(findex, q)' = Named(findex, q) /\ (Pending(q)' <=> Pending(q))
  BY <1>1, <1>2, NothingFolded
<1>6. ask'.spans = {p} /\ ask' = Trim(p, EndOffset(findex, p)')
  BY <1>1, <1>5 DEF Trim
<1>7. outcome = "none"
  BY <1>0, <1>1 DEF Asked
<1>8. Asked'
  <2>1. fpc' \in {"asking", "waiting"} => \E q \in Partition : ask' = Trim(q, EndOffset(findex, q)')
    BY <1>6
  <2>2. /\ fpc' # "waiting" => outcome' = "none"
        /\ job' # NoJob => pc' \in {"append", "landed", "rebuild", "tell", "cleared"}
        /\ job'.kind # "trim"
    BY <1>0, <1>1, <1>2, <1>7 DEF Asked
  <2> QED
    BY <2>1, <2>2 DEF Asked, Trim
<1>9. NoneForgotten'
  <2>1. SUFFICES ASSUME NEW q \in Partition, Named(findex, q)' # {}, q \notin armed', ~lagged',
                        ~InHand(q)'
                 PROVE  Pending(q)'
    BY DEF NoneForgotten
  <2>2. q # p
    BY <1>1, <1>2, <1>6, <1>7, <2>1 DEF InHand
  <2> QED
    BY <1>0, <1>1, <1>2, <1>5, <2>1, <2>2 DEF NoneForgotten, InHand
<1> QED
  BY <1>3, <1>4, <1>5, <1>8, <1>9 DEF HeapInv

(* A round with nothing due; what it drops from the heap has nothing left. *)
LEMMA HeapDueNothing ==
    ASSUME HeapInv, DueNothing
    PROVE  HeapInv'
<1> USE HeapFacts
<1>0. IndexInv /\ TypeOK /\ Asked /\ NoneForgotten
  BY DEF HeapInv
<1>1. /\ UNCHANGED loopVars /\ fpc = "idle" /\ fpc' = "sweep"
      /\ UNCHANGED <<fcursor, findex, fapplied, synced, ask, dropped, released, atZero, leaving, gone>>
      /\ armed' \subseteq armed
      /\ \A q \in armed \ armed' : LogStart(findex, q) = EndOffset(findex, q)
  BY DEF DueNothing
<1>2. UNCHANGED <<line, boot, view, deltas, lagged, pc, job, outcome>>
  BY <1>1 DEF loopVars
<1>3. IndexInv'
  BY <1>0, <1>1, LoopAtRest
<1>4. TypeOK'
  BY <1>0, <1>1 DEF TypeOK
<1>5. /\ Stream' /\ Read'
      /\ \A q : /\ Named(findex, q)' = Named(findex, q) /\ (Pending(q)' <=> Pending(q))
  BY <1>1, <1>2, NothingFolded
<1>6. Asked'
  BY <1>0, <1>1, <1>2, AskedIdle
<1>7. \A q \in armed \ armed' : Named(findex, q) = {}
  <2>1. SUFFICES ASSUME NEW q \in armed \ armed' PROVE Named(findex, q) = {}
    OBVIOUS
  <2>2. StartIn(line, findex, q) = EndIn(line, findex, q)
    BY <1>1, AnswersNow DEF Answers
  <2>3. EndIn(line, findex, q) \in 0 .. Len(line)
    BY EndIs
  <2>4. StartIn(line, findex, q) >= EndIn(line, findex, q)
    BY <2>2, <2>3
  <2>5. NamedIn(line, findex, q) = {}
    BY <2>4, NothingNamed
  <2> QED
    BY <2>5, AnswersNow DEF Answers
<1>8. NoneForgotten'
  BY <1>0, <1>1, <1>2, <1>5, <1>7 DEF NoneForgotten, InHand
<1> QED
  BY <1>3, <1>4, <1>5, <1>6, <1>8 DEF HeapInv

(* The loop takes the trim, or turns it away: it stays in hand.            *)
LEMMA HeapLoopTakes ==
    ASSUME HeapInv, LoopTakes
    PROVE  HeapInv'
<1> USE HeapFacts
<1>0. IndexInv /\ TypeOK /\ Asked /\ NoneForgotten
  BY DEF HeapInv
<1>1. /\ Stage(ask) /\ fpc = "asking" /\ fpc' = "waiting"
      /\ UNCHANGED <<fcursor, findex, fapplied, synced, armed, ask, dropped, released, atZero, leaving, gone>>
  BY DEF LoopTakes
<1>2. /\ UNCHANGED <<line, boot, view, deltas, lagged, outcome>> /\ pc = "idle" /\ pc' = "append" /\ job' = ask
  BY <1>1 DEF Stage, handles, feeds
<1>3. PICK p \in Partition : ask = Trim(p, EndOffset(findex, p))
  BY <1>0, <1>1 DEF Asked
<1>4. ask \in Entry
  BY <1>3 DEF Entry
<1>5. IndexInv'
  BY <1>0, <1>1, <1>4, StageKeeps
<1>6. TypeOK'
  BY <1>0, <1>1 DEF TypeOK
<1>7. /\ Stream' /\ Read'
      /\ \A q : /\ EndOffset(findex, q)' = EndOffset(findex, q)
                /\ Named(findex, q)' = Named(findex, q) /\ (Pending(q)' <=> Pending(q))
  BY <1>1, <1>2, NothingFolded
<1>8. Asked'
  <2>1. ask' = Trim(p, EndOffset(findex, p)')
    BY <1>1, <1>3, <1>7
  <2>2. outcome' = "none"
    BY <1>0, <1>1, <1>2 DEF Asked
  <2> QED
    BY <1>1, <1>2, <2>1, <2>2 DEF Asked, Trim
<1>9. NoneForgotten'
  BY <1>0, <1>1, <1>2, <1>7 DEF NoneForgotten, InHand
<1> QED
  BY <1>5, <1>6, <1>7, <1>8, <1>9 DEF HeapInv

LEMMA HeapLoopTurnsAway ==
    ASSUME HeapInv, LoopTurnsAway
    PROVE  HeapInv'
<1> USE HeapFacts
<1>0. IndexInv /\ TypeOK /\ Asked /\ NoneForgotten
  BY DEF HeapInv
<1>1. /\ TurnAway(ask) /\ fpc = "asking" /\ fpc' = "waiting"
      /\ UNCHANGED <<fcursor, findex, fapplied, synced, armed, ask, dropped, released, atZero, leaving, gone>>
  BY DEF LoopTurnsAway
<1>2. /\ UNCHANGED <<line, leads, term, terms, boot, view, opened, replayed, forTerm>>
      /\ UNCHANGED <<pc, cursor, job, index, applied, published, deltas, lagged, acked, emptied>>
      /\ outcome' = "err"
  BY <1>1 DEF TurnAway, handles
<1>3. PICK p \in Partition : ask = Trim(p, EndOffset(findex, p))
  BY <1>0, <1>1 DEF Asked
<1>5. IndexInv'
  <2>1. boot' \in -1 .. MaxLine
    BY <1>2
  <2> QED
    BY <1>0, <1>2, <2>1, FeedsKeepIndex
<1>6. TypeOK'
  BY <1>0, <1>1 DEF TypeOK
<1>7. /\ Stream' /\ Read'
      /\ \A q : /\ EndOffset(findex, q)' = EndOffset(findex, q)
                /\ Named(findex, q)' = Named(findex, q) /\ (Pending(q)' <=> Pending(q))
  BY <1>1, <1>2, NothingFolded
<1>8. Asked'
  <2>1. ask' = Trim(p, EndOffset(findex, p)')
    BY <1>1, <1>3, <1>7
  <2>2. job'.kind # "trim" /\ (job' # NoJob => pc' \in {"append", "landed", "rebuild", "tell", "cleared"})
    BY <1>0, <1>1, <1>2 DEF Asked
  <2> QED
    BY <1>1, <2>1, <2>2 DEF Asked, Trim
<1>9. NoneForgotten'
  BY <1>0, <1>1, <1>2, <1>7 DEF NoneForgotten, InHand
<1> QED
  BY <1>5, <1>6, <1>7, <1>8, <1>9 DEF HeapInv

(* The answer comes: a trim that failed puts its partition back.           *)
LEMMA HeapTrimmed ==
    ASSUME HeapInv, TrimJournaled \/ TrimFailed
    PROVE  HeapInv'
<1> USE HeapFacts
<1>0. IndexInv /\ TypeOK /\ Asked /\ NoneForgotten
  BY DEF HeapInv
<1>1. /\ UNCHANGED <<line, leads, term, terms, boot, view, opened, replayed, forTerm>>
      /\ UNCHANGED <<pc, cursor, job, index, applied, published, deltas, lagged, acked, emptied>>
      /\ UNCHANGED <<fcursor, findex, fapplied, synced, atZero, leaving, gone>>
      /\ outcome' = "none" /\ ask' = NoJob /\ dropped' = {} /\ fpc = "waiting" /\ fpc' = "sweep"
  BY DEF TrimJournaled, TrimFailed, Trimmed, handles
<1>2. \/ outcome = "ok" /\ released' = released \cup (dropped \ leaving) /\ armed' = armed
      \/ outcome = "err" /\ released' = released /\ armed' = armed \cup ask.spans
  BY DEF TrimJournaled, TrimFailed
<1>3. IndexInv'
  <2>1. boot' \in -1 .. MaxLine
    BY <1>1
  <2> QED
    BY <1>0, <1>1, <2>1, FeedsKeepIndex
<1>4. ask.spans \subseteq Partition
  BY <1>0, <1>1 DEF Asked, Trim
<1>5. TypeOK'
  <2>1. armed' \subseteq Partition /\ released' \subseteq Version /\ atZero' \subseteq released'
    BY <1>0, <1>1, <1>2, <1>4 DEF TypeOK
  <2> QED
    BY <1>0, <1>1, <2>1 DEF TypeOK
<1>6. /\ Stream' /\ Read'
      /\ \A q : Named(findex, q)' = Named(findex, q) /\ (Pending(q)' <=> Pending(q))
  BY <1>1, NothingFolded
<1>7. Asked'
  BY <1>0, <1>1, <1>2 DEF Asked
<1>8. NoneForgotten'
  BY <1>0, <1>1, <1>2, <1>6 DEF NoneForgotten, InHand
<1> QED
  BY <1>3, <1>5, <1>6, <1>7, <1>8 DEF HeapInv

LEMMA HeapSweep ==
    ASSUME HeapInv, Sweep
    PROVE  HeapInv'
<1>0. IndexInv /\ TypeOK /\ Asked /\ NoneForgotten
  BY DEF HeapInv
<1>1. /\ UNCHANGED loopVars /\ fpc = "sweep" /\ fpc' = "idle"
      /\ UNCHANGED <<fcursor, findex, fapplied, synced, armed, ask, dropped>>
  BY DEF Sweep
<1>2. UNCHANGED <<line, boot, view, deltas, lagged, pc, job, outcome>>
  BY <1>1 DEF loopVars
<1>3. IndexInv'
  BY <1>0, <1>1, LoopAtRest
<1>4. TypeOK'
  <2>1. PICK due \in SUBSET (atZero \cap Unnamed) : \E deleted \in SUBSET (leaving \cup due) :
           /\ gone' = gone \cup deleted
           /\ leaving' = (leaving \cup due) \ deleted
           /\ released' = released \ due
           /\ atZero' = Unnamed \ due
    BY DEF Sweep
  <2>2. Unnamed \subseteq released
    BY DEF Unnamed
  <2>3. /\ gone' \subseteq Version /\ leaving' \subseteq Version /\ released' \subseteq Version
        /\ atZero' \subseteq released'
    BY <1>0, <2>1, <2>2 DEF TypeOK
  <2> QED
    BY <1>0, <1>1, <2>3 DEF TypeOK
<1>5. /\ Stream' /\ Read'
      /\ \A q : Named(findex, q)' = Named(findex, q) /\ (Pending(q)' <=> Pending(q))
  BY <1>1, <1>2, NothingFolded
<1>6. Asked'
  BY <1>0, <1>1, <1>2, AskedIdle
<1>7. NoneForgotten'
  BY <1>0, <1>1, <1>2, <1>5 DEF NoneForgotten, InHand
<1> QED
  BY <1>3, <1>4, <1>5, <1>6, <1>7 DEF HeapInv

(* The follower starts with nothing read, armed or asked.                  *)
LEMMA HeapStarts == FollowerInit => HeapInv
<1> SUFFICES ASSUME FollowerInit PROVE HeapInv
  OBVIOUS
<1>1. IndexInv
  BY InitEstablishesIndex DEF FollowerInit
<1>2. TypeOK /\ Read
  <2>1. Len(line) \in Nat
    BY <1>1 DEF IndexInv, LoopTypeOK
  <2>2. TypeOK
    <3>1. 0 \in 0 .. MaxLine
      BY IndexLoopAssumption
    <3> QED
      BY <3>1 DEF FollowerInit, TypeOK
  <2>3. Read
    BY <2>1 DEF FollowerInit, Init, Read
  <2> QED
    BY <2>2, <2>3
<1>3. Stream
  BY DEF FollowerInit, Init, Stream
<1>4. Asked
  BY DEF FollowerInit, Init, Asked, NoJob
<1>5. NoneForgotten
  BY EmptyNamesNothing DEF FollowerInit, NoneForgotten
<1> QED
  BY <1>1, <1>2, <1>3, <1>4, <1>5 DEF HeapInv

(* Every step of the system keeps HeapInv.                                 *)
LEMMA NextKeepsHeap ==
    HeapInv /\ [Next]_vars => HeapInv'
<1> SUFFICES ASSUME HeapInv, [Next]_vars PROVE HeapInv'
  OBVIOUS
<1>1. CASE UNCHANGED vars
  <2>1. UNCHANGED loopVars /\ UNCHANGED followerVars
    BY <1>1 DEF vars
  <2>2. IndexInv'
    BY <2>1, LoopAtRest DEF HeapInv
  <2>3. UNCHANGED <<line, boot, view, deltas, lagged, pc, job, outcome>>
    BY <2>1 DEF loopVars
  <2>4. \A q : /\ EndOffset(findex, q)' = EndOffset(findex, q) /\ Named(findex, q)' = Named(findex, q)
    BY <2>1, <2>3, AnswersNow, AnswersThen DEF Answers, followerVars
  <2>5. TypeOK' /\ Stream' /\ Read'
    BY <2>1, <2>3 DEF HeapInv, followerVars, TypeOK, Stream, Fresh, Read
  <2>6. Asked'
    BY <2>1, <2>3, <2>4 DEF HeapInv, followerVars, Asked, Trim
  <2>7. NoneForgotten'
    BY <2>1, <2>3, <2>4 DEF HeapInv, followerVars, NoneForgotten, InHand, Pending
  <2> QED
    BY <2>2, <2>5, <2>6, <2>7 DEF HeapInv
<1>2. CASE LoopNext /\ UNCHANGED followerVars
  BY <1>2, LoopKeepsHeap
<1>3. CASE OpenBoot \/ RebuildPage \/ RebuildSynced \/ RebuildFails \/ RoundUnsynced \/ RecvLagged
  BY <1>3, HeapOpenBoot, HeapRebuildPage, HeapRebuildSynced, HeapForgets
<1>4. CASE \E v \in Version : FoldDelta(v) \/ FoldRefused(v)
  BY <1>4, HeapFoldDelta, HeapForgets
<1>5. CASE \E p \in Partition : Due(p)
  BY <1>5, HeapDue
<1>6. CASE DueNothing \/ LoopTakes \/ LoopTurnsAway \/ TrimJournaled \/ TrimFailed \/ Sweep
  BY <1>6, HeapDueNothing, HeapLoopTakes, HeapLoopTurnsAway, HeapTrimmed, HeapSweep
<1> QED
  BY <1>1, <1>2, <1>3, <1>4, <1>5, <1>6 DEF Next

(* The inductive invariant holds in every reachable state.                 *)
THEOREM HeapInvariant == Spec => []HeapInv
<1> QED
  BY HeapStarts, NextKeepsHeap, PTL DEF Spec

(* FR-33: through lag, failed and partial reads, refused and lost trims    *)
(* and other leaders' entries, a follower that is idle, synced and has     *)
(* folded all it was sent still has in its heap every partition with       *)
(* something left to expire (arm, round, "including on partitions nobody   *)
(* is writing to"); and the heap and the lifecycle's clocks are well typed.*)
THEOREM HeapSafety == Spec => []HeapSound
<1>1. HeapInv => HeapSound
  <2> SUFFICES ASSUME HeapInv PROVE HeapSound
    OBVIOUS
  <2>1. deltas = <<>> => \A p : ~Pending(p)
    BY DEF Pending
  <2> QED
    BY <2>1 DEF HeapInv, HeapSound, IdleStaysArmed, NoneForgotten, InHand
<1> QED
  BY <1>1, HeapInvariant, PTL
-----------------------------------------------------------------------------
(* Where every entry reaches the follower: no other node leads, no append  *)
(* lands and answers an error, the follower's first read of the log does   *)
(* not fail, the lease once taken is kept, and the follower keeps up.      *)

Alone == ~Others /\ ~Ambiguous /\ ~ReadFails

(* The last version the loop has told of, or need not tell.                *)
Tip == IF pc \in {"landed", "rebuild", "tell", "cleared"} THEN Len(line) - 1 ELSE Len(line)

(* The loop's handles are level with a line only it appends to.            *)
Level ==
    /\ boot # -1 /\ pc \in {"new", "replay"} => boot = Len(line)
    /\ pc # "new" => view = Len(line)
    /\ pc = "refold" => opened = Len(line)
    /\ pc \in {"append", "landed"} => leads
    /\ pc = "append" => \A p \in job.spans : job.start <= EndOffset(1 .. view, p)

(* No entry trims past the end the entries below it make.                  *)
LineSound ==
    \A v \in 1 .. Len(line) : \A p \in line[v].spans : line[v].start <= EndOffset(1 .. (v - 1), p)

(* What was sent and not received runs up to the tip without a hole, and   *)
(* what was received runs on from what the rebuild read.                   *)
Told ==
    /\ boot # -1 => \A i \in 1 .. Len(deltas) : deltas[i] = Tip - Len(deltas) + i
    /\ ~synced => /\ fpc = "rebuild" /\ findex = 1 .. fcursor
                  /\ boot # -1 => boot = Tip - Len(deltas)
    /\ synced => /\ fpc # "rebuild" /\ boot # -1
                 /\ findex = 1 .. fapplied /\ fapplied = Tip - Len(deltas)

(* What retention has its hands on it has folded, and what it has queued   *)
(* or deleted nothing in the line names.                                   *)
Dead ==
    /\ dropped \cup released \cup leaving \cup gone \subseteq findex
    /\ \A p \in Partition : Named(1 .. Len(line), p) \cap (leaving \cup gone) = {}

SteadyInv == Level /\ LineSound /\ Told /\ Dead

(* Prefixes of one line: what a prefix that holds an object no longer      *)
(* names, no longer one names either.                                      *)
LEMMA NamedOnlyShrinks ==
    ASSUME NEW l \in Seq(Entry), NEW k \in Nat, NEW m \in Nat, k <= m, m <= Len(l), NEW p,
           NEW o \in 1 .. k, o \in NamedIn(l, 1 .. m, p)
    PROVE  o \in NamedIn(l, 1 .. k, p)
<1> DEFINE C(n) == OfIn(l, 1 .. n, "commit", p)
           c == Cardinality({u \in C(m) : u < o})
<1>1. 1 .. k \subseteq 1 .. m /\ 1 .. m \subseteq 1 .. Len(l) /\ 1 .. k \subseteq 1 .. Len(l)
  OBVIOUS
<1>2. o \in C(m) /\ c >= StartIn(l, 1 .. m, p)
  BY DEF NamedIn
<1>3. o \in C(k) /\ {u \in C(k) : u < o} = {u \in C(m) : u < o}
  BY <1>2 DEF OfIn
<1>4. c \in Nat
  <2>1. \A v \in C(m) : /\ Cardinality({u \in C(m) : u < v}) \in Nat
                        /\ Cardinality({u \in C(m) : u < v}) < EndIn(l, 1 .. m, p)
    BY ZenonT(30), EndIs
  <2> QED
    BY <1>2, <2>1
<1>5. StartIn(l, 1 .. k, p) <= StartIn(l, 1 .. m, p)
  BY <1>1, StartGrows
<1>6. StartIn(l, 1 .. k, p) \in 0 .. MaxLine /\ StartIn(l, 1 .. m, p) \in 0 .. MaxLine
  BY <1>1, StartIs
<1>7. c = Cardinality({u \in C(k) : u < o})
  BY <1>3
<1> HIDE DEF c, C
<1>8. c >= StartIn(l, 1 .. k, p)
  BY <1>2, <1>4, <1>5, <1>6, IndexLoopAssumption
<1>9. Cardinality({u \in C(k) : u < o}) >= StartIn(l, 1 .. k, p)
  BY <1>7, <1>8
<1> QED
  BY <1>3, <1>9 DEF NamedIn, C

(* Alone, the loop's own append is the line's only growth.                 *)
LEMMA AloneAppends ==
    ASSUME Alone, LoopNext
    PROVE  line' = line \/ Lands
<1> DEFINE G == line' = line \/ Lands
<1> SUFFICES G
  OBVIOUS
<1>0. ~Others /\ ~Ambiguous
  BY DEF Alone
<1>1. CASE ReplayStart
  BY <1>1, <1>0 DEF ReplayStart, feeds
<1>2. CASE FoldPage
  BY <1>2, <1>0 DEF FoldPage, handles, feeds
<1>3. CASE ReplayDone
  BY <1>3, <1>0 DEF ReplayDone, handles
<1>4. CASE RefoldStart
  BY <1>4, <1>0 DEF RefoldStart, feeds
<1>5. CASE RefoldPage
  BY <1>5, <1>0 DEF RefoldPage, handles, feeds
<1>6. CASE RefoldDone
  BY <1>6, <1>0 DEF RefoldDone
<1>7. CASE Lands
  BY <1>7, <1>0 DEF Lands, feeds
<1>8. CASE Refused
  BY <1>8, <1>0 DEF Refused, Answer
<1>9. CASE Errs
  BY <1>9, <1>0 DEF Errs, Answer
<1>10. CASE Fenced
  BY <1>10, <1>0 DEF Fenced, Answer
<1>11. CASE PublishNext
  BY <1>11, <1>0 DEF PublishNext, handles, tidings
<1>12. CASE PublishRebuild
  BY <1>12, <1>0 DEF PublishRebuild, handles, feeds
<1>13. CASE RebuildDone
  BY <1>13, <1>0 DEF RebuildDone, handles, tidings
<1>22. CASE Failing
  BY <1>22, <1>0 DEF Failing, ReplayFails, RefoldFails,
       PublishClears, RebuildBreaks, handles, feeds, tidings
<1>14. CASE Tell
  BY <1>14, <1>0 DEF Tell, handles, Answer
<1>15. CASE DropCache
  BY <1>15, <1>0 DEF DropCache, handles, tidings
<1>16. CASE Dropped
  BY <1>16, <1>0 DEF Dropped, handles
<1>17. CASE Lapse
  BY <1>17, <1>0 DEF Lapse, feeds
<1>18. CASE Take
  BY <1>18, <1>0 DEF Take, feeds
<1>19. ASSUME NEW b \in Bundle, Stage(Commit(b)) PROVE G
  BY <1>19, <1>0 DEF Stage, handles, feeds
<1>20. ASSUME NEW b \in Bundle, OtherAppends(b) PROVE G
  BY <1>20, <1>0 DEF OtherAppends, feeds
<1> QED
  BY <1>1, <1>2, <1>3, <1>4, <1>5, <1>6, <1>7, <1>8, <1>9, <1>10,
     <1>11, <1>12, <1>13, <1>14, <1>15, <1>16, <1>17, <1>18, <1>19, <1>20,
     <1>22 DEF LoopNext, Serving

(* The loop's handles stay level.                                          *)
LEMMA LoopKeepsLevel ==
    ASSUME HeapInv, HeapInv', Level, Alone, leads => leads', LoopNext
    PROVE  Level'
<1>0. /\ ~Others /\ ~Ambiguous /\ Len(line) \in Nat
      /\ line \in Seq(Entry) /\ (pc = "append" => job \in Entry)
      /\ (boot = -1 => pc = "new") /\ leads \in BOOLEAN /\ leads' \in BOOLEAN
  BY HeapFacts DEF Alone, HeapInv, Stream, IndexInv, LoopTypeOK, Handles
<1>00. line' = line => \A n, p : EndOffset(1 .. n, p)' = EndOffset(1 .. n, p)
  BY AnswersNow, AnswersThen DEF Answers
<1> USE DEF Level
<1>1. CASE ReplayStart
  BY <1>1, <1>0, <1>00 DEF ReplayStart, feeds
<1>2. CASE FoldPage
  BY <1>2, <1>0, <1>00 DEF FoldPage, handles, feeds
<1>3. CASE ReplayDone
  BY <1>3, <1>0, <1>00 DEF ReplayDone, handles
<1>4. CASE RefoldStart
  BY <1>4, <1>0, <1>00 DEF RefoldStart, feeds
<1>5. CASE RefoldPage
  BY <1>5, <1>0, <1>00 DEF RefoldPage, handles, feeds
<1>6. CASE RefoldDone
  BY <1>6, <1>0, <1>00 DEF RefoldDone
<1>7. CASE Lands
  <2>1. Len(line') = Len(line) + 1
    BY <1>7, <1>0 DEF Lands
  <2> QED
    BY <1>7, <1>0, <2>1 DEF Lands
<1>8. CASE Refused
  BY <1>8, <1>0, <1>00 DEF Refused, Answer
<1>9. CASE Errs
  BY <1>9, <1>0, <1>00 DEF Errs, Answer
<1>10. CASE Fenced
  BY <1>10, <1>0, <1>00 DEF Fenced, Answer
<1>11. CASE PublishNext
  BY <1>11, <1>0, <1>00 DEF PublishNext, handles, tidings
<1>12. CASE PublishRebuild
  BY <1>12, <1>0, <1>00 DEF PublishRebuild, handles, feeds
<1>13. CASE RebuildDone
  BY <1>13, <1>0, <1>00 DEF RebuildDone, handles, tidings
<1>22. CASE Failing
  BY <1>22, <1>0, <1>00 DEF Failing, ReplayFails, RefoldFails,
       PublishClears, RebuildBreaks, handles, feeds, tidings
<1>14. CASE Tell
  BY <1>14, <1>0, <1>00 DEF Tell, handles, Answer
<1>15. CASE DropCache
  BY <1>15, <1>0, <1>00 DEF DropCache, handles, tidings
<1>16. CASE Dropped
  BY <1>16, <1>0, <1>00 DEF Dropped, handles
<1>17. CASE Lapse
  BY <1>17, <1>0, <1>00 DEF Lapse, feeds
<1>18. CASE Take
  BY <1>18, <1>0, <1>00 DEF Take, feeds
<1>19. ASSUME NEW b \in Bundle, Stage(Commit(b)) PROVE Level'
  BY <1>19, <1>0, <1>00 DEF Stage, handles, feeds
<1>20. ASSUME NEW b \in Bundle, OtherAppends(b) PROVE Level'
  BY <1>20, <1>0, <1>00 DEF OtherAppends, feeds
<1> QED
  BY <1>1, <1>2, <1>3, <1>4, <1>5, <1>6, <1>7, <1>8, <1>9, <1>10,
     <1>11, <1>12, <1>13, <1>14, <1>15, <1>16, <1>17, <1>18, <1>19, <1>20,
     <1>22 DEF LoopNext, Serving

(* The stream keeps running up to the tip.                                 *)
LEMMA LoopKeepsTold ==
    ASSUME HeapInv, Level, Told, Alone, leads => leads', lagged' = FALSE, LoopNext, UNCHANGED followerVars
    PROVE  Told'
<1>0. /\ ~Others /\ ~Ambiguous /\ Len(line) \in Nat /\ Buffer \in Nat /\ boot \in Int
      /\ line \in Seq(Entry) /\ (pc = "append" => job \in Entry)
      /\ (boot = -1 => pc = "new" /\ deltas = <<>>) /\ leads \in BOOLEAN
      /\ deltas \in Seq(Version) /\ Len(deltas) \in Nat /\ lagged \in BOOLEAN
  BY HeapFacts, IndexLoopAssumption DEF Alone, HeapInv, Stream, IndexInv, LoopTypeOK, Handles
<1>00. /\ fpc' = fpc /\ fcursor' = fcursor /\ findex' = findex /\ fapplied' = fapplied /\ synced' = synced
  BY DEF followerVars
<1> USE DEF Told, Tip
<1>1. CASE ReplayStart
  <2>1. /\ boot' = IF boot = -1 THEN Len(line) ELSE boot
        /\ line' = line /\ deltas' = deltas /\ pc = "new" /\ pc' = "replay"
    BY <1>1 DEF ReplayStart, feeds
  <2>2. CASE boot = -1
    BY <1>0, <1>00, <2>1, <2>2
  <2>3. CASE boot # -1
    BY <1>0, <1>00, <2>1, <2>3
  <2> QED
    BY <2>2, <2>3
<1>2. CASE FoldPage
  BY <1>2, <1>0, <1>00 DEF FoldPage, handles, feeds, Level
<1>3. CASE ReplayDone
  BY <1>3, <1>0, <1>00 DEF ReplayDone, handles, Level
<1>4. CASE RefoldStart
  BY <1>4, <1>0, <1>00 DEF RefoldStart, feeds, Level
<1>5. CASE RefoldPage
  BY <1>5, <1>0, <1>00 DEF RefoldPage, handles, feeds, Level
<1>6. CASE RefoldDone
  BY <1>6, <1>0, <1>00 DEF RefoldDone, Level
<1>7. CASE Lands
  <2>1. Len(line') = Len(line) + 1
    BY <1>7, <1>0 DEF Lands
  <2> QED
    BY <1>7, <1>0, <1>00, <2>1 DEF Lands, feeds
<1>8. CASE Refused
  BY <1>8, <1>0, <1>00 DEF Refused, Answer, Level
<1>9. CASE Errs
  BY <1>9, <1>0, <1>00 DEF Errs, Answer, Level
<1>10. CASE Fenced
  BY <1>10, <1>0, <1>00 DEF Fenced, Answer, Level
<1>11. CASE PublishNext
  BY <1>11, <1>0, <1>00 DEF PublishNext, handles, tidings, Level
<1>12. CASE PublishRebuild
  BY <1>12, <1>0, <1>00 DEF PublishRebuild, handles, feeds, Level
<1>13. CASE RebuildDone
  BY <1>13, <1>0, <1>00 DEF RebuildDone, handles, tidings, Level
<1>22. CASE Failing
  BY <1>22, <1>0, <1>00 DEF Failing, ReplayFails, RefoldFails,
       PublishClears, RebuildBreaks, handles, feeds, tidings, Level
<1>14. CASE Tell
  <2>1. Len(deltas) < Buffer
    <3>1. ~(Len(deltas) >= Buffer)
      BY <1>14, <1>0 DEF Tell
    <3> QED
      BY <1>0, <3>1
  <2>2. deltas' = Append(deltas, view) /\ view = Len(line) /\ line' = line /\ boot' = boot /\ pc \in {"tell", "cleared"} /\ pc' = "idle"
    BY <1>14, <2>1 DEF Tell, Level, handles, Answer
  <2>3. view \in Version
    BY <1>14, IndexLoopAssumption DEF HeapInv, IndexInv, LoopTypeOK, Standing, Version, Tell
  <2>4. /\ Len(deltas') = Len(deltas) + 1 /\ deltas'[Len(deltas) + 1] = Len(line)
        /\ \A i \in 1 .. Len(deltas) : deltas'[i] = deltas[i]
    BY <1>0, <2>2, <2>3
  <2>5. \A i \in 1 .. Len(deltas') : i \in 1 .. Len(deltas) \/ i = Len(deltas) + 1
    BY <1>0, <2>4
  <2>6. boot # -1
    BY <1>0, <2>2
  <2>7. \A i \in 1 .. Len(deltas') : deltas'[i] = Len(line) - Len(deltas') + i
    BY <1>0, <2>2, <2>4, <2>5, <2>6
  <2> QED
    BY <1>0, <1>00, <2>2, <2>4, <2>7
<1>15. CASE DropCache
  BY <1>15, <1>0, <1>00 DEF DropCache, handles, tidings, Level
<1>16. CASE Dropped
  BY <1>16, <1>0, <1>00 DEF Dropped, handles, Level
<1>17. CASE Lapse
  BY <1>17, <1>0, <1>00 DEF Lapse, feeds, Level
<1>18. CASE Take
  BY <1>18, <1>0, <1>00 DEF Take, feeds, Level
<1>19. ASSUME NEW b \in Bundle, Stage(Commit(b)) PROVE Told'
  BY <1>19, <1>0, <1>00 DEF Stage, handles, feeds, Level
<1>20. ASSUME NEW b \in Bundle, OtherAppends(b) PROVE Told'
  BY <1>20, <1>0, <1>00 DEF OtherAppends, feeds, Level
<1> QED
  BY <1>1, <1>2, <1>3, <1>4, <1>5, <1>6, <1>7, <1>8, <1>9, <1>10,
     <1>11, <1>12, <1>13, <1>14, <1>15, <1>16, <1>17, <1>18, <1>19, <1>20,
     <1>22 DEF LoopNext, Serving

(* The line stays sound: what is appended was checked against all of it.   *)
LEMMA LoopKeepsSound ==
    ASSUME HeapInv, Level, LineSound, Alone, LoopNext
    PROVE  LineSound'
<1>0. Len(line) \in Nat /\ line \in Seq(Entry)
  BY HeapFacts
<1>1. CASE line' = line
  BY <1>1, AnswersNow, AnswersThen DEF LineSound, Answers
<1>2. CASE Lands
  <2>1. /\ job \in Entry /\ view = Len(line) /\ line' = Append(line, job)
        /\ \A p \in job.spans : job.start <= EndOffset(1 .. view, p)
    BY <1>2 DEF Lands, Level, HeapInv, IndexInv, Handles
  <2>2. /\ Len(line') = Len(line) + 1 /\ line'[Len(line) + 1] = job
        /\ \A v \in 1 .. Len(line) : line'[v] = line[v]
    BY <1>0, <2>1
  <2>3. SUFFICES ASSUME NEW v \in 1 .. Len(line'), NEW p \in line'[v].spans
                 PROVE  line'[v].start <= EndOffset(1 .. (v - 1), p)'
    BY DEF LineSound
  <2>4. \A u \in 1 .. (v - 1) : line'[u] = line[u]
    BY <1>0, <2>2
  <2>5. EndIn(line', 1 .. (v - 1), p) = EndIn(line, 1 .. (v - 1), p)
    BY <2>4, AnswersKept
  <2>6. EndOffset(1 .. (v - 1), p)' = EndOffset(1 .. (v - 1), p)
    BY <2>5, AnswersNow, AnswersThen DEF Answers
  <2>7. CASE v = Len(line) + 1
    <3>1. v - 1 = view /\ line'[v] = job
      BY <1>0, <2>1, <2>2, <2>7
    <3> QED
      BY <2>1, <2>3, <2>6, <3>1
  <2>8. CASE v \in 1 .. Len(line)
    BY <2>2, <2>3, <2>6, <2>8 DEF LineSound
  <2> QED
    BY <1>0, <2>2, <2>3, <2>7, <2>8
<1> QED
  BY <1>1, <1>2, AloneAppends

(* What was dead stays dead as the line grows.                             *)
LEMMA LoopKeepsDead ==
    ASSUME HeapInv, HeapInv', Dead, Alone, LoopNext, UNCHANGED followerVars
    PROVE  Dead'
<1>0. /\ Len(line) \in Nat /\ line \in Seq(Entry) /\ findex \subseteq 1 .. Len(line)
      /\ leaving \cup gone \subseteq findex
  BY HeapFacts DEF Dead
<1>1. LoopEffect
  BY LoopHasEffect DEF HeapInv
<1>2. /\ line' \in Seq(Entry) /\ Len(line') \in Nat /\ Len(line) <= Len(line')
      /\ \A v \in 1 .. Len(line) : line'[v] = line[v]
  BY <1>1 DEF LoopEffect
<1>3. /\ findex' = findex /\ dropped' = dropped /\ released' = released /\ leaving' = leaving /\ gone' = gone
  BY DEF followerVars
<1>4. ASSUME NEW p \in Partition, NEW o \in leaving \cup gone, o \in NamedIn(line', 1 .. Len(line'), p)
      PROVE  FALSE
  <2>1. o \in 1 .. Len(line)
    BY <1>0
  <2>2. o \in NamedIn(line', 1 .. Len(line), p)
    BY <1>0, <1>2, <1>4, <2>1, NamedOnlyShrinks
  <2>3. NamedIn(line', 1 .. Len(line), p) = NamedIn(line, 1 .. Len(line), p)
    <3>1. \A v \in 1 .. Len(line) : line'[v] = line[v]
      BY <1>2
    <3> QED
      BY <3>1, AnswersKept
  <2> QED
    BY <2>2, <2>3, AnswersNow DEF Answers, Dead
<1>5. \A p \in Partition : Named(1 .. Len(line), p)' = NamedIn(line', 1 .. Len(line'), p)
  BY AnswersThen DEF Answers
<1> QED
  BY <1>3, <1>4, <1>5 DEF Dead

(* The follower's own steps leave the line, the loop's handles and, but    *)
(* for what they queue or delete, what is dead as they were.               *)
LEMMA LineAtRest ==
    ASSUME Level, LineSound, line' = line, view' = view, opened' = opened, leads' = leads,
           \/ pc' = pc /\ job' = job /\ (boot' = boot \/ boot' = Len(line))
           \/ pc' = "append" /\ pc = "idle" /\ boot' = boot /\ leads
              /\ \A p \in job'.spans : job'.start <= EndOffset(1 .. view, p)
    PROVE  Level' /\ LineSound'
<1>1. \A n, p : EndOffset(1 .. n, p)' = EndOffset(1 .. n, p)
  BY AnswersNow, AnswersThen DEF Answers
<1>2. LineSound'
  BY <1>1 DEF LineSound
<1>3. Level'
  BY <1>1 DEF Level
<1> QED
  BY <1>2, <1>3

LEMMA DeadAtRest ==
    ASSUME Dead, line' = line, findex \subseteq findex', leaving' \cup gone' = leaving \cup gone,
           dropped' \subseteq findex, released' \subseteq findex
    PROVE  Dead'
<1>1. \A p : Named(1 .. Len(line), p)' = Named(1 .. Len(line), p)
  BY AnswersNow, AnswersThen DEF Answers
<1> QED
  BY <1>1 DEF Dead

(* The steps that read: the deferred handle, a page, its end, a delta.     *)
LEMMA ReadKeepsSteady ==
    ASSUME HeapInv, SteadyInv, OpenBoot \/ RebuildPage \/ RebuildSynced
    PROVE  SteadyInv'
<1> USE HeapFacts
<1>0. Level /\ LineSound /\ Told /\ Dead /\ Stream /\ Read
  BY DEF SteadyInv, HeapInv
<1>1. /\ line' = line /\ view' = view /\ opened' = opened /\ leads' = leads /\ pc' = pc /\ job' = job
      /\ boot' = boot \/ boot' = Len(line)
      /\ deltas' = deltas
      /\ dropped' = dropped /\ released' = released /\ leaving' = leaving /\ gone' = gone
  BY DEF OpenBoot, RebuildPage, RebuildSynced, loopVars, followerVars, feeds
<1>2. Level' /\ LineSound'
  BY <1>0, <1>1, LineAtRest
<1>3. Tip' = Tip /\ Tip \in Int
  BY <1>1 DEF Tip
<1>4. fpc = "rebuild" /\ ~synced /\ findex = 1 .. fcursor
  BY <1>0 DEF OpenBoot, RebuildPage, RebuildSynced, Told
<1>5. Told' /\ findex \subseteq findex'
  <2>1. CASE OpenBoot
    <3>1. pc = "new" /\ deltas = <<>> /\ boot' = Len(line) /\ UNCHANGED followerVars
      BY <1>0, <2>1 DEF OpenBoot, Stream
    <3>2. Tip' = Len(line) /\ Len(deltas') = 0
      BY <1>1, <1>3, <3>1 DEF Tip
    <3> QED
      BY <1>0, <1>1, <1>4, <3>1, <3>2 DEF Told, followerVars
  <2>2. CASE RebuildPage
    <3>1. /\ boot > fcursor /\ findex' = findex \cup (fcursor + 1 .. PageEnd(fcursor, boot))
          /\ fcursor' = PageEnd(fcursor, boot) /\ boot' = boot /\ fpc' = fpc /\ synced' = synced
      BY <2>2 DEF RebuildPage, PageAfter, loopVars
    <3>2. PageEnd(fcursor, boot) \in Nat /\ fcursor < PageEnd(fcursor, boot)
      BY <3>1, PageEndBounds
    <3>3. findex' = 1 .. fcursor'
      BY <1>4, <3>1, <3>2
    <3>4. findex \subseteq findex'
      BY <3>1
    <3> QED
      BY <1>0, <1>1, <1>3, <1>4, <3>1, <3>3, <3>4 DEF Told
  <2>3. CASE RebuildSynced
    <3>1. /\ boot = fcursor /\ boot' = boot /\ findex' = findex /\ fapplied' = fapplied
          /\ fpc' = "idle" /\ synced' = TRUE
      BY <2>3 DEF RebuildSynced, loopVars
    <3>2. fapplied = fcursor /\ boot # -1
      BY <1>0, <1>4, <3>1 DEF Read
    <3> QED
      BY <1>0, <1>1, <1>3, <1>4, <3>1, <3>2 DEF Told
  <2> QED
    BY <2>1, <2>2, <2>3
<1>6. Dead'
  BY <1>0, <1>1, <1>5, DeadAtRest DEF Dead
<1> QED
  BY <1>2, <1>5, <1>6 DEF SteadyInv

(* A delta: the very next version, and one the index takes.                *)
LEMMA DeltaIsNext ==
    ASSUME HeapInv, SteadyInv, NEW v, Receives(v)
    PROVE  /\ synced /\ boot # -1 /\ v = fapplied + 1 /\ findex = 1 .. fapplied
           /\ Foldable(findex, fapplied, v)
<1> USE HeapFacts
<1>0. Told /\ LineSound /\ Stream
  BY DEF SteadyInv, HeapInv
<1>1. fpc = "idle" /\ deltas # <<>> /\ v = deltas[1] /\ Len(deltas) >= 1
  BY TailIs DEF Receives
<1>2. synced /\ boot # -1 /\ findex = 1 .. fapplied /\ fapplied = Tip - Len(deltas)
  BY <1>0, <1>1 DEF Told
<1>3. v = Tip - Len(deltas) + 1 /\ Tip \in Int /\ v \in 1 .. Len(line)
  BY <1>0, <1>1, <1>2 DEF Told, Tip
<1>4. v = fapplied + 1 /\ fapplied = v - 1
  BY <1>2, <1>3
<1>5. \A p \in line[v].spans : line[v].start <= EndOffset(findex, p)
  BY <1>0, <1>2, <1>3, <1>4 DEF LineSound
<1> QED
  BY <1>2, <1>4, <1>5 DEF Foldable

LEMMA DeltaKeepsSteady ==
    ASSUME HeapInv, SteadyInv, NEW v \in Version, FoldDelta(v)
    PROVE  SteadyInv'
<1> USE HeapFacts
<1>0. Level /\ LineSound /\ Told /\ Dead
  BY DEF SteadyInv
<1>1. /\ synced /\ boot # -1 /\ v = fapplied + 1 /\ findex = 1 .. fapplied
  BY DeltaIsNext DEF FoldDelta
<1>2. /\ line' = line /\ view' = view /\ opened' = opened /\ leads' = leads /\ pc' = pc /\ job' = job
      /\ boot' = boot /\ deltas # <<>> /\ deltas' = Tail(deltas)
      /\ dropped' = dropped /\ released' = released /\ leaving' = leaving /\ gone' = gone
      /\ fpc' = fpc /\ synced' = synced /\ fpc = "idle"
  BY DEF FoldDelta, Receives, handles
<1>3. Level' /\ LineSound'
  BY <1>0, <1>2, LineAtRest
<1>4. {w \in {v} : w > fapplied} = {v}
  BY <1>1
<1>5. findex' = findex \cup {v} /\ fapplied' = Max({v} \cup {fapplied})
  BY <1>4 DEF FoldDelta
<1>6. fapplied' = v
  <2>1. fapplied + 1 \in Nat /\ {v} \cup {fapplied} \subseteq 0 .. (fapplied + 1)
    BY <1>1
  <2>2. /\ Max({v} \cup {fapplied}) \in {v} \cup {fapplied}
        /\ \A x \in {v} \cup {fapplied} : Max({v} \cup {fapplied}) >= x
    BY <2>1, MaxIs
  <2>3. fapplied' \in {v, fapplied} /\ fapplied' >= v
    BY <1>5, <2>2
  <2> QED
    BY <1>1, <2>3
<1>7. findex' = 1 .. fapplied' /\ findex \subseteq findex'
  BY <1>1, <1>5, <1>6
<1>8. /\ Len(deltas) >= 1 /\ Len(deltas') = Len(deltas) - 1
      /\ \A i \in 1 .. Len(deltas') : deltas'[i] = deltas[i + 1]
  BY <1>2, TailIs
<1>9. Tip' = Tip /\ Tip \in Int
  BY <1>2 DEF Tip
<1>10. \A i \in 1 .. Len(deltas') : deltas'[i] = Tip' - Len(deltas') + i
  <2>1. SUFFICES ASSUME NEW i \in 1 .. Len(deltas')
                 PROVE  deltas'[i] = Tip' - Len(deltas') + i
    OBVIOUS
  <2>2. i + 1 \in 1 .. Len(deltas) /\ deltas'[i] = deltas[i + 1]
    BY <1>8
  <2>3. deltas[i + 1] = Tip - Len(deltas) + (i + 1)
    BY <1>0, <1>1, <2>2 DEF Told
  <2> QED
    BY <1>8, <1>9, <2>2, <2>3
<1>11. Told'
  <2>1. fapplied = Tip - Len(deltas)
    BY <1>0, <1>1 DEF Told
  <2>2. fapplied' = Tip' - Len(deltas')
    BY <1>1, <1>6, <1>8, <1>9, <2>1
  <2> QED
    BY <1>1, <1>2, <1>7, <1>10, <2>2 DEF Told
<1>12. Dead'
  BY <1>0, <1>2, <1>7, DeadAtRest DEF Dead
<1> QED
  BY <1>3, <1>11, <1>12 DEF SteadyInv

(* A round's steps, up to the sweep.                                       *)
LEMMA RoundKeepsSteady ==
    ASSUME HeapInv, SteadyInv,
           \/ \E p \in Partition : Due(p)
           \/ DueNothing \/ LoopTakes \/ LoopTurnsAway \/ TrimJournaled \/ TrimFailed
    PROVE  SteadyInv'
<1> USE HeapFacts
<1>0. Level /\ LineSound /\ Told /\ Dead
  BY DEF SteadyInv
<1>1. /\ line' = line /\ view' = view /\ opened' = opened /\ leads' = leads
      /\ boot' = boot /\ deltas' = deltas
      /\ findex' = findex /\ fapplied' = fapplied /\ synced' = synced /\ fcursor' = fcursor
      /\ leaving' = leaving /\ gone' = gone /\ fpc # "rebuild" /\ fpc' # "rebuild"
  BY DEF Due, DueNothing, LoopTakes, LoopTurnsAway, TrimJournaled, TrimFailed, Trimmed, Stage, TurnAway,
         loopVars, handles, feeds
<1>2. \/ pc' = pc /\ job' = job
      \/ /\ pc' = "append" /\ pc = "idle" /\ leads
         /\ \A p \in job'.spans : job'.start <= EndOffset(1 .. view, p)
  BY DEF Due, DueNothing, LoopTakes, LoopTurnsAway, TrimJournaled, TrimFailed, Trimmed, Stage, TurnAway,
         loopVars, handles
<1>3. Level' /\ LineSound'
  BY <1>0, <1>1, <1>2, LineAtRest
<1>4. Tip' = Tip
  BY <1>1, <1>2 DEF Tip
<1>5. Told'
  BY <1>0, <1>1, <1>4 DEF Told
<1>6. dropped' \subseteq findex /\ released' \subseteq findex
  <2>1. \A p : Named(findex, p) \subseteq findex
    BY DEF Named, Commits, Of
  <2>2. dropped \subseteq findex /\ released \subseteq findex
    BY <1>0 DEF Dead
  <2>3. dropped' \in {dropped, {}} \cup {Named(findex, p) : p \in Partition}
    BY DEF Due, DueNothing, LoopTakes, LoopTurnsAway, TrimJournaled, TrimFailed, Trimmed
  <2>4. released' \subseteq released \cup dropped
    BY DEF Due, DueNothing, LoopTakes, LoopTurnsAway, TrimJournaled, TrimFailed
  <2> QED
    BY <2>1, <2>2, <2>3, <2>4
<1>7. Dead'
  BY <1>0, <1>1, <1>6, DeadAtRest
<1> QED
  BY <1>3, <1>5, <1>7 DEF SteadyInv

(* A sweep queues only what the follower's index no longer names, and what *)
(* a prefix of the line no longer names the whole of it does not either.   *)
LEMMA SweepKeepsSteady ==
    ASSUME HeapInv, SteadyInv, Sweep
    PROVE  SteadyInv'
<1> USE HeapFacts
<1>0. Level /\ LineSound /\ Told /\ Dead
  BY DEF SteadyInv
<1>1. UNCHANGED loopVars /\ fpc = "sweep" /\ fpc' = "idle"
      /\ UNCHANGED <<fcursor, findex, fapplied, synced, armed, ask, dropped>>
  BY DEF Sweep
<1>2. UNCHANGED <<line, view, opened, leads, boot, deltas, pc, job>>
  BY <1>1 DEF loopVars
<1>3. Level' /\ LineSound'
  BY <1>0, <1>2, LineAtRest
<1>4. Told'
  BY <1>0, <1>1, <1>2 DEF Told, Tip
<1>5. PICK due \in SUBSET (atZero \cap Unnamed) : \E deleted \in SUBSET (leaving \cup due) :
         /\ gone' = gone \cup deleted
         /\ leaving' = (leaving \cup due) \ deleted
         /\ released' = released \ due
         /\ atZero' = Unnamed \ due
  BY DEF Sweep
<1>6. leaving' \cup gone' = leaving \cup gone \cup due /\ released' \subseteq released
  BY <1>5
<1>7. due \subseteq released /\ \A o \in due : \A p \in Partition : o \notin Named(findex, p)
  BY <1>5 DEF Unnamed
<1>8. ASSUME NEW p \in Partition, NEW o \in due, o \in NamedIn(line, 1 .. Len(line), p)
      PROVE  FALSE
  <2>1. findex = 1 .. fapplied
    BY <1>0, <1>1 DEF Told
  <2>2. o \in 1 .. fapplied
    BY <1>0, <1>7, <2>1 DEF Dead
  <2>3. o \in NamedIn(line, 1 .. fapplied, p)
    BY <1>8, <2>2, NamedOnlyShrinks
  <2> QED
    BY <1>7, <2>1, <2>3, AnswersNow DEF Answers
<1>9. \A p : Named(1 .. Len(line), p)' = NamedIn(line, 1 .. Len(line), p)
             /\ Named(1 .. Len(line), p) = NamedIn(line, 1 .. Len(line), p)
  BY <1>2, AnswersNow, AnswersThen DEF Answers
<1>10. Dead'
  <2>1. dropped' \cup released' \cup leaving' \cup gone' \subseteq findex'
    BY <1>0, <1>1, <1>6, <1>7 DEF Dead
  <2>2. \A p \in Partition : Named(1 .. Len(line), p)' \cap (leaving' \cup gone') = {}
    BY <1>0, <1>6, <1>8, <1>9 DEF Dead
  <2> QED
    BY <2>1, <2>2 DEF Dead
<1> QED
  BY <1>3, <1>4, <1>10 DEF SteadyInv

(* The start: nothing told, and a line of commits only.                    *)
LEMMA SteadyStarts == FollowerInit => SteadyInv
<1> SUFFICES ASSUME FollowerInit PROVE SteadyInv
  OBVIOUS
<1>0. HeapInv
  BY HeapStarts
<1>1. PICK n \in 0 .. MaxBoot : line \in [1 .. n -> {Commit(b) : b \in Bundle}]
  BY DEF FollowerInit, Init
<1>2. /\ boot = -1 /\ pc = "new" /\ deltas = <<>> /\ fpc = "rebuild" /\ fcursor = 0 /\ findex = {}
      /\ synced = FALSE /\ dropped = {} /\ released = {} /\ leaving = {} /\ gone = {}
  BY DEF FollowerInit, Init
<1>3. Level
  BY <1>2 DEF Level
<1>4. LineSound
  <2>1. SUFFICES ASSUME NEW v \in 1 .. Len(line), NEW p
                 PROVE  line[v].start <= EndOffset(1 .. (v - 1), p)
    BY DEF LineSound
  <2>2. Len(line) = n
    BY <1>1, IndexLoopAssumption
  <2>3. line[v].start = 0
    BY <1>1, <2>1, <2>2 DEF Commit
  <2>4. v - 1 \in Nat
    BY <2>1, <2>2
  <2>5. EndIn(line, 1 .. (v - 1), p) \in 0 .. (v - 1)
    BY <2>4, EndIs
  <2>6. EndOffset(1 .. (v - 1), p) = EndIn(line, 1 .. (v - 1), p)
    BY AnswersNow DEF Answers
  <2> QED
    BY <2>3, <2>4, <2>5, <2>6
<1>5. Told
  <2>1. 1 .. 0 = {}
    OBVIOUS
  <2> QED
    BY <1>2, <2>1 DEF Told
<1>6. Dead
  BY <1>2 DEF Dead
<1> QED
  BY <1>3, <1>4, <1>5, <1>6 DEF SteadyInv

(* Every step, with the lease kept and no lag.                             *)
LEMMA NextKeepsSteady ==
    ASSUME Alone, HeapInv, HeapInv', SteadyInv, [Next]_vars, [leads => leads']_vars, ~lagged, ~lagged'
    PROVE  SteadyInv'
<1> USE HeapFacts
<1>1. CASE UNCHANGED vars
  <2>1. UNCHANGED <<line, view, opened, leads, boot, deltas, pc, job>> /\ UNCHANGED followerVars
    BY <1>1 DEF vars, loopVars
  <2>2. Level' /\ LineSound'
    BY <2>1, LineAtRest DEF SteadyInv
  <2>3. Told' /\ Dead'
    <3>1. Told'
      BY <2>1 DEF SteadyInv, Told, Tip, followerVars
    <3>2. Dead'
      BY <2>1, DeadAtRest DEF SteadyInv, Dead, followerVars
    <3> QED
      BY <3>1, <3>2
  <2> QED
    BY <2>2, <2>3 DEF SteadyInv
<1>2. CASE LoopNext /\ UNCHANGED followerVars
  <2>1. lagged' = FALSE /\ (leads => leads')
    <3>1. lagged' \in BOOLEAN /\ leads \in BOOLEAN /\ leads' \in BOOLEAN
      BY DEF HeapInv, IndexInv, LoopTypeOK
    <3>2. leads => leads'
      BY DEF vars, loopVars
    <3> QED
      BY <3>1, <3>2
  <2> QED
    BY <1>2, <2>1, LoopKeepsLevel, LoopKeepsSound, LoopKeepsTold, LoopKeepsDead DEF SteadyInv
<1>3. CASE OpenBoot \/ RebuildPage \/ RebuildSynced
  BY <1>3, ReadKeepsSteady
<1>4. CASE RebuildFails \/ RoundUnsynced \/ RecvLagged
  BY <1>4 DEF RebuildFails, RoundUnsynced, RecvLagged, Alone, SteadyInv, Told
<1>5. ASSUME NEW v \in Version, FoldDelta(v) \/ FoldRefused(v) PROVE SteadyInv'
  BY <1>5, DeltaKeepsSteady, DeltaIsNext DEF FoldRefused
<1>6. CASE (\E p \in Partition : Due(p)) \/ DueNothing \/ LoopTakes \/ LoopTurnsAway \/ TrimJournaled \/ TrimFailed
  BY <1>6, RoundKeepsSteady
<1>7. CASE Sweep
  BY <1>7, SweepKeepsSteady
<1> QED
  BY <1>1, <1>2, <1>3, <1>4, <1>5, <1>6, <1>7 DEF Next

(* The inductive invariant holds in every state, under these assumptions.  *)
THEOREM SteadyInvariant ==
    ASSUME Alone
    PROVE  Spec /\ [][leads => leads']_vars /\ []~lagged => []SteadyInv
<1>1. HeapInv /\ HeapInv' /\ SteadyInv /\ [Next]_vars /\ [leads => leads']_vars /\ ~lagged /\ ~lagged'
        => SteadyInv'
  BY NextKeepsSteady
<1> QED
  BY <1>1, SteadyStarts, HeapInvariant, PTL DEF Spec

(* A single node that keeps its lease, and a follower that keeps up: its   *)
(* index is at every moment a hole-free prefix of the line, however its    *)
(* subscription and its rebuild's read of the deferred handle overlap      *)
(* (run, rebuild, fold).                                                   *)
THEOREM FollowerIsFaithful ==
    ASSUME Alone
    PROVE  Spec /\ [][leads => leads']_vars /\ []~lagged => []FollowerFaithful
<1>1. SteadyInv => FollowerFaithful
  BY DEF SteadyInv, Told, FollowerFaithful
<1> QED
  BY <1>1, SteadyInvariant, PTL

(* And however far it lags within the buffer, a sweep deletes nothing any  *)
(* partition still names at the durable line's end (release, promote,      *)
(* sweep: "A lagging follower is safe for deletion").                      *)
THEOREM SweepIsSafe ==
    ASSUME Alone
    PROVE  Spec /\ [][leads => leads']_vars /\ []~lagged => []SweepSafe
<1>1. HeapInv /\ SteadyInv => SweepSafe
  <2> SUFFICES ASSUME HeapInv, SteadyInv PROVE SweepSafe
    OBVIOUS
  <2>1. DOMAIN line = 1 .. Len(line)
    BY HeapFacts
  <2> QED
    BY <2>1 DEF SteadyInv, Dead, SweepSafe
<1> QED
  BY <1>1, SteadyInvariant, HeapInvariant, PTL
=============================================================================
