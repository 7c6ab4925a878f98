--------------------------- MODULE IndexLoopProofs ---------------------------
(***************************************************************************)
(* For every set of partitions, page size, buffer size and number of terms *)
(* and entries, whatever reads and folds fail: the coordinator loop's      *)
(* index is a prefix of the durable line, and the watch never runs ahead   *)
(* of the index.                                                           *)
(*                                                                         *)
(* IndexFaithful and WatchHonest are not inductive. A rebuild empties the  *)
(* index, so the watch must already be at nothing when one begins; that    *)
(* holds because an index that is not level with the loop's handle, under  *)
(* a term the loop has replayed under, can only be an emptied one: a       *)
(* refold that failed left the loop without such a term. IndexInv says     *)
(* where the index stands at each place the loop can be.                   *)
(***************************************************************************)
EXTENDS IndexLoop, TLAPS

(* The index is level with the loop's handle, or was emptied.              *)
LevelWith(n) == applied = n \/ (applied = 0 /\ published = 0)

(* What the loop has in hand never exceeds the durable line.               *)
Handles ==
    /\ view <= Len(line) /\ boot <= Len(line) /\ opened <= Len(line)
    /\ term <= terms /\ replayed <= terms /\ forTerm <= terms
    /\ pc = "append" => job \in Entry /\ view < MaxLine /\ replayed # 0

(* Where a fold has got to, between two of its pages.                      *)
Folding ==
    /\ pc \in {"replay", "rebuild"} => cursor = applied /\ applied <= view
    /\ pc = "refold" => cursor <= applied /\ applied <= opened /\ cursor <= opened
                        /\ (replayed = 0 \/ replayed # term)

(* Where the index and the watch stand, at each place of the loop.         *)
Standing ==
    /\ pc \in {"new", "replay", "rebuild"} => published = 0
    /\ pc = "idle" /\ replayed # 0 /\ replayed = term => LevelWith(view)
    /\ pc = "append" => LevelWith(view)
    /\ pc = "landed" => view > 0 /\ LevelWith(view - 1)
    /\ pc = "rebuild" => view > 0
    /\ pc = "tell" => (applied = view \/ applied = 0) /\ view > 0
    /\ pc = "cleared" => applied = 0 /\ view > 0
    /\ pc = "dropping" => applied = 0

IndexInv ==
    /\ LoopTypeOK
    /\ IndexFaithful /\ WatchHonest
    /\ Handles /\ Folding /\ Standing
-----------------------------------------------------------------------------
(* Facts the actions share. *)

(* PageEnd: a page ends past where it began, and within its handle.        *)
LEMMA PageEndBounds ==
    ASSUME NEW from \in Nat, NEW upto \in Nat, from < upto
    PROVE  /\ PageEnd(from, upto) \in Nat
           /\ from < PageEnd(from, upto) /\ PageEnd(from, upto) <= upto
BY IndexLoopAssumption DEF PageEnd

(* The buffer a broadcast send leaves: typed, and still within its limit.  *)
LEMMA SentBuffer ==
    ASSUME NEW d \in Seq(Version), Len(d) <= Buffer, NEW v \in Version,
           NEW e, e = Append(IF Len(d) < Buffer THEN d ELSE Tail(d), v)
    PROVE  e \in Seq(Version) /\ Len(e) <= Buffer
<1>0. Buffer \in Nat \ {0}
  BY IndexLoopAssumption
<1>1. CASE Len(d) < Buffer
  BY <1>0, <1>1
<1>2. CASE ~(Len(d) < Buffer)
  <2>1. d # <<>>
    BY <1>0, <1>2
  <2>2. Tail(d) \in Seq(Version) /\ Len(Tail(d)) = Len(d) - 1
    BY <2>1
  <2> QED
    BY <1>0, <1>2, <2>2
<1> QED
  BY <1>1, <1>2

(* The line after an append: one entry longer, and still within its bound. *)
LEMMA AppendedLine ==
    ASSUME NEW l \in Seq(Entry), NEW e \in Entry
    PROVE  Append(l, e) \in Seq(Entry) /\ Len(Append(l, e)) = Len(l) + 1
OBVIOUS

-----------------------------------------------------------------------------
(* A deferred replay begins: the invariant is kept.                       *)
LEMMA ReplayStartKeeps ==
    ASSUME IndexInv, ReplayStart
    PROVE  IndexInv'
<1> USE IndexLoopAssumption DEF IndexInv
<1>1. LoopTypeOK'
  BY DEF ReplayStart, feeds, LoopTypeOK, IndexFaithful, Handles, Folding,
       Standing, Version
<1>2. IndexFaithful' /\ WatchHonest'
  BY DEF ReplayStart, feeds, LoopTypeOK, IndexFaithful, WatchHonest, Clearing, Handles,
       Folding, Standing, LevelWith
<1>3. Handles'
  BY DEF ReplayStart, feeds, LoopTypeOK, Handles, IndexFaithful
<1>4. Folding'
  BY DEF ReplayStart, feeds, LoopTypeOK, IndexFaithful, Handles, Folding
<1>5. Standing'
  BY DEF ReplayStart, feeds, LoopTypeOK, IndexFaithful, WatchHonest, Clearing, Handles,
       Folding, Standing, LevelWith
<1> QED
  BY <1>1, <1>2, <1>3, <1>4, <1>5

(* A page of a replay or rebuild: the invariant is kept.                  *)
LEMMA FoldPageKeeps ==
    ASSUME IndexInv, FoldPage
    PROVE  IndexInv'
<1> USE IndexLoopAssumption DEF IndexInv
<1>0. /\ PageEnd(cursor, view) \in Nat
      /\ cursor < PageEnd(cursor, view) /\ PageEnd(cursor, view) <= view
  BY PageEndBounds DEF FoldPage, LoopTypeOK
<1>1. LoopTypeOK'
  <2>1. /\ index' \subseteq Version /\ applied' \in 0 .. MaxLine /\ cursor' \in 0 .. MaxLine
    <3>1. cursor \in 0 .. MaxLine /\ view \in 0 .. MaxLine /\ index \subseteq Version
      BY DEF LoopTypeOK
    <3>2. index' = index \cup PageAfter(cursor, view) /\ applied' = PageEnd(cursor, view)
          /\ cursor' = PageEnd(cursor, view)
      BY DEF FoldPage
    <3>3. PageAfter(cursor, view) \subseteq Version
      BY <1>0, <3>1 DEF PageAfter, Version
    <3> QED
      BY <1>0, <3>1, <3>2, <3>3
  <2> QED
    BY <2>1 DEF FoldPage, handles, feeds, LoopTypeOK
<1>2. IndexFaithful' /\ WatchHonest'
  BY <1>0 DEF FoldPage, handles, feeds, PageAfter, LoopTypeOK, IndexFaithful,
       WatchHonest, Clearing, Handles, Folding, Standing, LevelWith
<1>3. Handles'
  BY <1>0 DEF FoldPage, handles, feeds, PageAfter, LoopTypeOK, Handles,
       IndexFaithful
<1>4. Folding'
  BY <1>0 DEF FoldPage, handles, feeds, PageAfter, LoopTypeOK, IndexFaithful,
       Handles, Folding
<1>5. Standing'
  BY <1>0 DEF FoldPage, handles, feeds, PageAfter, LoopTypeOK, IndexFaithful,
       WatchHonest, Clearing, Handles, Folding, Standing, LevelWith
<1> QED
  BY <1>1, <1>2, <1>3, <1>4, <1>5

(* A replay ends: the invariant is kept.                                  *)
LEMMA ReplayDoneKeeps ==
    ASSUME IndexInv, ReplayDone
    PROVE  IndexInv'
<1> USE IndexLoopAssumption DEF IndexInv
<1>1. LoopTypeOK'
  BY DEF ReplayDone, handles, LoopTypeOK, IndexFaithful, Handles, Folding,
       Standing, Version
<1>2. IndexFaithful' /\ WatchHonest'
  BY DEF ReplayDone, handles, LoopTypeOK, IndexFaithful, WatchHonest, Clearing, Handles,
       Folding, Standing, LevelWith
<1>3. Handles'
  BY DEF ReplayDone, handles, LoopTypeOK, Handles, IndexFaithful
<1>4. Folding'
  BY DEF ReplayDone, handles, LoopTypeOK, IndexFaithful, Handles, Folding
<1>5. Standing'
  BY DEF ReplayDone, handles, LoopTypeOK, IndexFaithful, WatchHonest, Clearing, Handles,
       Folding, Standing, LevelWith
<1> QED
  BY <1>1, <1>2, <1>3, <1>4, <1>5

(* A refold begins: the invariant is kept.                                *)
LEMMA RefoldStartKeeps ==
    ASSUME IndexInv, RefoldStart
    PROVE  IndexInv'
<1> USE IndexLoopAssumption DEF IndexInv
<1>1. LoopTypeOK'
  BY DEF RefoldStart, feeds, LoopTypeOK, IndexFaithful, Handles, Folding,
       Standing, Version
<1>2. IndexFaithful' /\ WatchHonest'
  BY DEF RefoldStart, feeds, LoopTypeOK, IndexFaithful, WatchHonest, Clearing, Handles,
       Folding, Standing, LevelWith
<1>3. Handles'
  BY DEF RefoldStart, feeds, LoopTypeOK, Handles, IndexFaithful
<1>4. Folding'
  BY DEF RefoldStart, feeds, LoopTypeOK, IndexFaithful, Handles, Folding
<1>5. Standing'
  BY DEF RefoldStart, feeds, LoopTypeOK, IndexFaithful, WatchHonest, Clearing, Handles,
       Folding, Standing, LevelWith
<1> QED
  BY <1>1, <1>2, <1>3, <1>4, <1>5

(* A page of a refold: the invariant is kept.                             *)
LEMMA RefoldPageKeeps ==
    ASSUME IndexInv, RefoldPage
    PROVE  IndexInv'
<1> USE IndexLoopAssumption DEF IndexInv
<1>0. /\ PageEnd(cursor, opened) \in Nat
      /\ cursor < PageEnd(cursor, opened) /\ PageEnd(cursor, opened) <= opened
  BY PageEndBounds DEF RefoldPage, LoopTypeOK
<1>1. LoopTypeOK'
  BY <1>0 DEF RefoldPage, handles, feeds, PageAfter, LoopTypeOK, IndexFaithful,
       Handles, Folding, Standing, Version
<1>2. IndexFaithful' /\ WatchHonest'
  BY <1>0 DEF RefoldPage, handles, feeds, PageAfter, LoopTypeOK, IndexFaithful,
       WatchHonest, Clearing, Handles, Folding, Standing, LevelWith
<1>3. Handles'
  BY <1>0 DEF RefoldPage, handles, feeds, PageAfter, LoopTypeOK, Handles,
       IndexFaithful
<1>4. Folding'
  BY <1>0 DEF RefoldPage, handles, feeds, PageAfter, LoopTypeOK, IndexFaithful,
       Handles, Folding
<1>5. Standing'
  BY <1>0 DEF RefoldPage, handles, feeds, PageAfter, LoopTypeOK, IndexFaithful,
       WatchHonest, Clearing, Handles, Folding, Standing, LevelWith
<1> QED
  BY <1>1, <1>2, <1>3, <1>4, <1>5

(* A refold ends: the invariant is kept.                                  *)
LEMMA RefoldDoneKeeps ==
    ASSUME IndexInv, RefoldDone
    PROVE  IndexInv'
<1> USE IndexLoopAssumption DEF IndexInv
<1>1. LoopTypeOK'
  <2>1. /\ view' \in 0 .. MaxLine /\ opened' \in 0 .. MaxLine /\ cursor' \in 0 .. MaxLine
        /\ replayed' \in 0 .. MaxTerm /\ forTerm' \in 0 .. MaxTerm /\ published' \in 0 .. MaxLine
    BY DEF RefoldDone, LoopTypeOK
  <2>2. emptied' \in BOOLEAN
    BY DEF RefoldDone
  <2> QED
    BY <2>1, <2>2 DEF RefoldDone, LoopTypeOK
<1>2. IndexFaithful' /\ WatchHonest'
  BY DEF RefoldDone, LoopTypeOK, IndexFaithful, WatchHonest, Clearing, Handles, Folding,
       Standing, LevelWith
<1>3. Handles'
  BY DEF RefoldDone, LoopTypeOK, Handles, IndexFaithful
<1>4. Folding'
  BY DEF RefoldDone, LoopTypeOK, IndexFaithful, Handles, Folding
<1>5. Standing'
  BY DEF RefoldDone, LoopTypeOK, IndexFaithful, WatchHonest, Clearing, Handles, Folding,
       Standing, LevelWith
<1> QED
  BY <1>1, <1>2, <1>3, <1>4, <1>5

(* An entry is staged: the invariant is kept.                             *)
LEMMA StageKeeps ==
    ASSUME IndexInv, NEW e \in Entry, Stage(e)
    PROVE  IndexInv'
<1> USE IndexLoopAssumption DEF IndexInv
<1>1. LoopTypeOK'
  BY DEF Stage, handles, feeds, LoopTypeOK, IndexFaithful, Handles,
       Folding, Standing, Version
<1>2. IndexFaithful' /\ WatchHonest'
  BY DEF Stage, handles, feeds, LoopTypeOK, IndexFaithful, WatchHonest, Clearing,
       Handles, Folding, Standing, LevelWith
<1>3. Handles'
  BY DEF Stage, handles, feeds, LoopTypeOK, Handles, IndexFaithful
<1>4. Folding'
  BY DEF Stage, handles, feeds, LoopTypeOK, IndexFaithful, Handles, Folding
<1>5. Standing'
  BY DEF Stage, handles, feeds, LoopTypeOK, IndexFaithful, WatchHonest, Clearing,
       Handles, Folding, Standing, LevelWith
<1> QED
  BY <1>1, <1>2, <1>3, <1>4, <1>5

(* The append lands: the invariant is kept.                               *)
LEMMA LandsKeeps ==
    ASSUME IndexInv, Lands
    PROVE  IndexInv'
<1> USE IndexLoopAssumption DEF IndexInv
<1>0. /\ job \in Entry /\ Append(line, job) \in Seq(Entry)
      /\ Len(Append(line, job)) = Len(line) + 1
  BY AppendedLine DEF Lands, LoopTypeOK, Handles
<1>1. LoopTypeOK'
  BY <1>0 DEF Lands, feeds, LoopTypeOK, IndexFaithful, Handles, Folding,
       Standing, Version
<1>2. IndexFaithful' /\ WatchHonest'
  BY <1>0 DEF Lands, feeds, LoopTypeOK, IndexFaithful, WatchHonest, Clearing, Handles,
       Folding, Standing, LevelWith
<1>3. Handles'
  BY <1>0 DEF Lands, feeds, LoopTypeOK, Handles, IndexFaithful
<1>4. Folding'
  BY <1>0 DEF Lands, feeds, LoopTypeOK, IndexFaithful, Handles, Folding
<1>5. Standing'
  BY <1>0 DEF Lands, feeds, LoopTypeOK, IndexFaithful, WatchHonest, Clearing, Handles,
       Folding, Standing, LevelWith
<1> QED
  BY <1>1, <1>2, <1>3, <1>4, <1>5

(* The append is refused: the invariant is kept.                          *)
LEMMA RefusedKeeps ==
    ASSUME IndexInv, Refused
    PROVE  IndexInv'
<1> USE IndexLoopAssumption DEF IndexInv
<1>1. LoopTypeOK'
  BY DEF Refused, Answer, LoopTypeOK, IndexFaithful, Handles, Folding, Standing,
       Version
<1>2. IndexFaithful' /\ WatchHonest'
  BY DEF Refused, Answer, LoopTypeOK, IndexFaithful, WatchHonest, Clearing, Handles,
       Folding, Standing, LevelWith
<1>3. Handles'
  BY DEF Refused, Answer, LoopTypeOK, Handles, IndexFaithful
<1>4. Folding'
  BY DEF Refused, Answer, LoopTypeOK, IndexFaithful, Handles, Folding
<1>5. Standing'
  BY DEF Refused, Answer, LoopTypeOK, IndexFaithful, WatchHonest, Clearing, Handles,
       Folding, Standing, LevelWith
<1> QED
  BY <1>1, <1>2, <1>3, <1>4, <1>5

(* The append errs, landed or not: the invariant is kept.                 *)
LEMMA ErrsKeeps ==
    ASSUME IndexInv, Errs
    PROVE  IndexInv'
<1> USE IndexLoopAssumption DEF IndexInv
<1>0. /\ job \in Entry /\ Append(line, job) \in Seq(Entry)
      /\ Len(Append(line, job)) = Len(line) + 1
  BY AppendedLine DEF Errs, LoopTypeOK, Handles
<1>1. LoopTypeOK'
  <2>1. line' \in Seq(Entry) /\ Len(line') <= MaxLine
    BY SMTT(30), <1>0 DEF Errs, LoopTypeOK, Handles
  <2>2. outcome' \in {"none", "ok", "err"} /\ job' \in Entry \cup {NoJob} /\ pc' = "idle"
    BY DEF Errs, Answer, LoopTypeOK
  <2> QED
    BY <2>1, <2>2 DEF Errs, LoopTypeOK
<1>2. IndexFaithful' /\ WatchHonest'
  BY <1>0 DEF Errs, Answer, LoopTypeOK, IndexFaithful, WatchHonest, Clearing, Handles,
       Folding, Standing, LevelWith
<1>3. Handles'
  BY <1>0 DEF Errs, Answer, LoopTypeOK, Handles, IndexFaithful
<1>4. Folding'
  BY <1>0 DEF Errs, Answer, LoopTypeOK, IndexFaithful, Handles, Folding
<1>5. Standing'
  BY <1>0 DEF Errs, Answer, LoopTypeOK, IndexFaithful, WatchHonest, Clearing, Handles,
       Folding, Standing, LevelWith
<1> QED
  BY <1>1, <1>2, <1>3, <1>4, <1>5

(* The lease lapsed under the append: the invariant is kept.              *)
LEMMA FencedKeeps ==
    ASSUME IndexInv, Fenced
    PROVE  IndexInv'
<1> USE IndexLoopAssumption DEF IndexInv
<1>1. LoopTypeOK'
  BY DEF Fenced, Answer, LoopTypeOK, IndexFaithful, Handles, Folding, Standing,
       Version
<1>2. IndexFaithful' /\ WatchHonest'
  BY DEF Fenced, Answer, LoopTypeOK, IndexFaithful, WatchHonest, Clearing, Handles,
       Folding, Standing, LevelWith
<1>3. Handles'
  BY DEF Fenced, Answer, LoopTypeOK, Handles, IndexFaithful
<1>4. Folding'
  BY DEF Fenced, Answer, LoopTypeOK, IndexFaithful, Handles, Folding
<1>5. Standing'
  BY DEF Fenced, Answer, LoopTypeOK, IndexFaithful, WatchHonest, Clearing, Handles,
       Folding, Standing, LevelWith
<1> QED
  BY <1>1, <1>2, <1>3, <1>4, <1>5

(* Publish folds one entry: the invariant is kept.                        *)
LEMMA PublishNextKeeps ==
    ASSUME IndexInv, PublishNext
    PROVE  IndexInv'
<1> USE IndexLoopAssumption DEF IndexInv
<1>1. LoopTypeOK'
  <2>1. index' \subseteq Version /\ applied' \in 0 .. MaxLine
    BY DEF PublishNext, handles, LoopTypeOK, Version
  <2>2. emptied' \in BOOLEAN
    BY DEF PublishNext
  <2> QED
    BY <2>1, <2>2 DEF PublishNext, handles, tidings, LoopTypeOK
<1>2. IndexFaithful' /\ WatchHonest'
  BY DEF PublishNext, handles, tidings, LoopTypeOK, IndexFaithful, WatchHonest, Clearing,
       Handles, Folding, Standing, LevelWith
<1>3. Handles'
  BY DEF PublishNext, handles, tidings, LoopTypeOK, Handles, IndexFaithful
<1>4. Folding'
  BY DEF PublishNext, handles, tidings, LoopTypeOK, IndexFaithful, Handles, Folding
<1>5. Standing'
  BY DEF PublishNext, handles, tidings, LoopTypeOK, IndexFaithful, WatchHonest, Clearing,
       Handles, Folding, Standing, LevelWith
<1> QED
  BY <1>1, <1>2, <1>3, <1>4, <1>5

(* Publish rebuilds instead: the invariant is kept.                       *)
LEMMA PublishRebuildKeeps ==
    ASSUME IndexInv, PublishRebuild
    PROVE  IndexInv'
<1> USE IndexLoopAssumption DEF IndexInv
<1>1. LoopTypeOK'
  BY DEF PublishRebuild, handles, feeds, LoopTypeOK, IndexFaithful, Handles,
       Folding, Standing, Version
<1>2. IndexFaithful' /\ WatchHonest'
  BY DEF PublishRebuild, handles, feeds, LoopTypeOK, IndexFaithful, WatchHonest, Clearing,
       Handles, Folding, Standing, LevelWith
<1>3. Handles'
  BY DEF PublishRebuild, handles, feeds, LoopTypeOK, Handles, IndexFaithful
<1>4. Folding'
  BY DEF PublishRebuild, handles, feeds, LoopTypeOK, IndexFaithful, Handles, Folding
<1>5. Standing'
  BY DEF PublishRebuild, handles, feeds, LoopTypeOK, IndexFaithful, WatchHonest, Clearing,
       Handles, Folding, Standing, LevelWith
<1> QED
  BY <1>1, <1>2, <1>3, <1>4, <1>5

(* A rebuild ends: the invariant is kept.                                 *)
LEMMA RebuildDoneKeeps ==
    ASSUME IndexInv, RebuildDone
    PROVE  IndexInv'
<1> USE IndexLoopAssumption DEF IndexInv
<1>1. LoopTypeOK'
  BY DEF RebuildDone, handles, tidings, LoopTypeOK, IndexFaithful, Handles,
       Folding, Standing, Version
<1>2. IndexFaithful' /\ WatchHonest'
  BY DEF RebuildDone, handles, tidings, LoopTypeOK, IndexFaithful, WatchHonest, Clearing,
       Handles, Folding, Standing, LevelWith
<1>3. Handles'
  BY DEF RebuildDone, handles, tidings, LoopTypeOK, Handles, IndexFaithful
<1>4. Folding'
  BY DEF RebuildDone, handles, tidings, LoopTypeOK, IndexFaithful, Handles, Folding
<1>5. Standing'
  BY DEF RebuildDone, handles, tidings, LoopTypeOK, IndexFaithful, WatchHonest, Clearing,
       Handles, Folding, Standing, LevelWith
<1> QED
  BY <1>1, <1>2, <1>3, <1>4, <1>5

(* A replay fails, and will start over: the invariant is kept.              *)
LEMMA ReplayFailsKeeps ==
    ASSUME IndexInv, ReplayFails
    PROVE  IndexInv'
<1> USE IndexLoopAssumption DEF IndexInv
<1>1. LoopTypeOK'
  BY DEF ReplayFails, handles, feeds, tidings, LoopTypeOK, IndexFaithful, Handles, Folding,
       Standing, Version
<1>2. IndexFaithful' /\ WatchHonest'
  BY DEF ReplayFails, handles, feeds, tidings, LoopTypeOK, IndexFaithful, WatchHonest, Clearing,
       Handles, Folding, Standing, LevelWith
<1>3. Handles'
  BY DEF ReplayFails, handles, feeds, tidings, LoopTypeOK, Handles, IndexFaithful
<1>4. Folding'
  BY DEF ReplayFails, handles, feeds, tidings, LoopTypeOK, IndexFaithful, Handles, Folding
<1>5. Standing'
  BY DEF ReplayFails, handles, feeds, tidings, LoopTypeOK, IndexFaithful, WatchHonest, Clearing,
       Handles, Folding, Standing, LevelWith
<1> QED
  BY <1>1, <1>2, <1>3, <1>4, <1>5

(* A refold fails part way: the invariant is kept.                          *)
LEMMA RefoldFailsKeeps ==
    ASSUME IndexInv, RefoldFails
    PROVE  IndexInv'
<1> USE IndexLoopAssumption DEF IndexInv
<1>1. LoopTypeOK'
  BY DEF RefoldFails, handles, feeds, tidings, LoopTypeOK, IndexFaithful, Handles, Folding,
       Standing, Version
<1>2. IndexFaithful' /\ WatchHonest'
  BY DEF RefoldFails, handles, feeds, tidings, LoopTypeOK, IndexFaithful, WatchHonest, Clearing,
       Handles, Folding, Standing, LevelWith
<1>3. Handles'
  BY DEF RefoldFails, handles, feeds, tidings, LoopTypeOK, Handles, IndexFaithful
<1>4. Folding'
  BY DEF RefoldFails, handles, feeds, tidings, LoopTypeOK, IndexFaithful, Handles, Folding
<1>5. Standing'
  BY DEF RefoldFails, handles, feeds, tidings, LoopTypeOK, IndexFaithful, WatchHonest, Clearing,
       Handles, Folding, Standing, LevelWith
<1> QED
  BY <1>1, <1>2, <1>3, <1>4, <1>5

(* Publish's fold is refused: the invariant is kept.                        *)
LEMMA PublishClearsKeeps ==
    ASSUME IndexInv, PublishClears
    PROVE  IndexInv'
<1> USE IndexLoopAssumption DEF IndexInv
<1>1. LoopTypeOK'
  BY DEF PublishClears, handles, feeds, tidings, LoopTypeOK, IndexFaithful, Handles, Folding,
       Standing, Version
<1>2. IndexFaithful' /\ WatchHonest'
  BY DEF PublishClears, handles, feeds, tidings, LoopTypeOK, IndexFaithful, WatchHonest, Clearing,
       Handles, Folding, Standing, LevelWith
<1>3. Handles'
  BY DEF PublishClears, handles, feeds, tidings, LoopTypeOK, Handles, IndexFaithful
<1>4. Folding'
  BY DEF PublishClears, handles, feeds, tidings, LoopTypeOK, IndexFaithful, Handles, Folding
<1>5. Standing'
  BY DEF PublishClears, handles, feeds, tidings, LoopTypeOK, IndexFaithful, WatchHonest, Clearing,
       Handles, Folding, Standing, LevelWith
<1> QED
  BY <1>1, <1>2, <1>3, <1>4, <1>5

(* A rebuild fails: the invariant is kept.                                  *)
LEMMA RebuildBreaksKeeps ==
    ASSUME IndexInv, RebuildBreaks
    PROVE  IndexInv'
<1> USE IndexLoopAssumption DEF IndexInv
<1>1. LoopTypeOK'
  BY DEF RebuildBreaks, handles, feeds, tidings, LoopTypeOK, IndexFaithful, Handles, Folding,
       Standing, Version
<1>2. IndexFaithful' /\ WatchHonest'
  BY DEF RebuildBreaks, handles, feeds, tidings, LoopTypeOK, IndexFaithful, WatchHonest, Clearing,
       Handles, Folding, Standing, LevelWith
<1>3. Handles'
  BY DEF RebuildBreaks, handles, feeds, tidings, LoopTypeOK, Handles, IndexFaithful
<1>4. Folding'
  BY DEF RebuildBreaks, handles, feeds, tidings, LoopTypeOK, IndexFaithful, Handles, Folding
<1>5. Standing'
  BY DEF RebuildBreaks, handles, feeds, tidings, LoopTypeOK, IndexFaithful, WatchHonest, Clearing,
       Handles, Folding, Standing, LevelWith
<1> QED
  BY <1>1, <1>2, <1>3, <1>4, <1>5

(* The watch, the delta and the reply: the invariant is kept.             *)
LEMMA TellKeeps ==
    ASSUME IndexInv, Tell
    PROVE  IndexInv'
<1> USE IndexLoopAssumption DEF IndexInv
<1>0. deltas' \in Seq(Version) /\ Len(deltas') <= Buffer /\ view \in Version
  <2>1. view \in Version
    BY DEF Tell, LoopTypeOK, Standing, Version
  <2> QED
    BY <2>1, SentBuffer DEF Tell, LoopTypeOK
<1>1. LoopTypeOK'
  BY <1>0 DEF Tell, handles, Answer, LoopTypeOK, IndexFaithful, Handles,
       Folding, Standing, Version
<1>2. IndexFaithful' /\ WatchHonest'
  BY <1>0 DEF Tell, handles, Answer, LoopTypeOK, IndexFaithful, WatchHonest, Clearing,
       Handles, Folding, Standing, LevelWith
<1>3. Handles'
  BY <1>0 DEF Tell, handles, Answer, LoopTypeOK, Handles, IndexFaithful
<1>4. Folding'
  BY <1>0 DEF Tell, handles, Answer, LoopTypeOK, IndexFaithful, Handles, Folding
<1>5. Standing'
  BY <1>0 DEF Tell, handles, Answer, LoopTypeOK, IndexFaithful, WatchHonest, Clearing,
       Handles, Folding, Standing, LevelWith
<1> QED
  BY <1>1, <1>2, <1>3, <1>4, <1>5

(* The cache is cleared: the invariant is kept.                           *)
LEMMA DropCacheKeeps ==
    ASSUME IndexInv, DropCache
    PROVE  IndexInv'
<1> USE IndexLoopAssumption DEF IndexInv
<1>1. LoopTypeOK'
  BY DEF DropCache, handles, tidings, LoopTypeOK, IndexFaithful, Handles, Folding,
       Standing, Version
<1>2. IndexFaithful' /\ WatchHonest'
  BY DEF DropCache, handles, tidings, LoopTypeOK, IndexFaithful, WatchHonest, Clearing,
       Handles, Folding, Standing, LevelWith
<1>3. Handles'
  BY DEF DropCache, handles, tidings, LoopTypeOK, Handles, IndexFaithful
<1>4. Folding'
  BY DEF DropCache, handles, tidings, LoopTypeOK, IndexFaithful, Handles, Folding
<1>5. Standing'
  BY DEF DropCache, handles, tidings, LoopTypeOK, IndexFaithful, WatchHonest, Clearing,
       Handles, Folding, Standing, LevelWith
<1> QED
  BY <1>1, <1>2, <1>3, <1>4, <1>5

(* And the clear is published: the invariant is kept.                     *)
LEMMA DroppedKeeps ==
    ASSUME IndexInv, Dropped
    PROVE  IndexInv'
<1> USE IndexLoopAssumption DEF IndexInv
<1>1. LoopTypeOK'
  BY DEF Dropped, handles, LoopTypeOK, IndexFaithful, Handles, Folding,
       Standing, Version
<1>2. IndexFaithful' /\ WatchHonest'
  BY DEF Dropped, handles, LoopTypeOK, IndexFaithful, WatchHonest, Clearing, Handles,
       Folding, Standing, LevelWith
<1>3. Handles'
  BY DEF Dropped, handles, LoopTypeOK, Handles, IndexFaithful
<1>4. Folding'
  BY DEF Dropped, handles, LoopTypeOK, IndexFaithful, Handles, Folding
<1>5. Standing'
  BY DEF Dropped, handles, LoopTypeOK, IndexFaithful, WatchHonest, Clearing, Handles,
       Folding, Standing, LevelWith
<1> QED
  BY <1>1, <1>2, <1>3, <1>4, <1>5

(* The lease lapses: the invariant is kept.                               *)
LEMMA LapseKeeps ==
    ASSUME IndexInv, Lapse
    PROVE  IndexInv'
<1> USE IndexLoopAssumption DEF IndexInv
<1>1. LoopTypeOK'
  <2>1. term' \in 0 .. MaxTerm
    BY DEF Lapse, LoopTypeOK
  <2> QED
    BY <2>1 DEF Lapse, feeds, LoopTypeOK
<1>2. IndexFaithful' /\ WatchHonest'
  BY DEF Lapse, feeds, LoopTypeOK, IndexFaithful, WatchHonest, Clearing, Handles, Folding,
       Standing, LevelWith
<1>3. Handles'
  <2>1. term' <= terms'
    BY DEF Lapse, LoopTypeOK, Handles
  <2> QED
    BY <2>1 DEF Lapse, Handles
<1>4. Folding'
  BY DEF Lapse, feeds, LoopTypeOK, IndexFaithful, Handles, Folding
<1>5. Standing'
  BY DEF Lapse, feeds, LoopTypeOK, IndexFaithful, WatchHonest, Clearing, Handles, Folding,
       Standing, LevelWith
<1> QED
  BY <1>1, <1>2, <1>3, <1>4, <1>5

(* A term is taken: the invariant is kept.                                *)
LEMMA TakeKeeps ==
    ASSUME IndexInv, Take
    PROVE  IndexInv'
<1> USE IndexLoopAssumption DEF IndexInv
<1>1. LoopTypeOK'
  BY DEF Take, feeds, LoopTypeOK, IndexFaithful, Handles, Folding, Standing, Version
<1>2. IndexFaithful' /\ WatchHonest'
  BY DEF Take, feeds, LoopTypeOK, IndexFaithful, WatchHonest, Clearing, Handles, Folding,
       Standing, LevelWith
<1>3. Handles'
  BY DEF Take, feeds, LoopTypeOK, Handles, IndexFaithful
<1>4. Folding'
  BY DEF Take, feeds, LoopTypeOK, IndexFaithful, Handles, Folding
<1>5. Standing'
  BY DEF Take, feeds, LoopTypeOK, IndexFaithful, WatchHonest, Clearing, Handles, Folding,
       Standing, LevelWith
<1> QED
  BY <1>1, <1>2, <1>3, <1>4, <1>5

(* Another node appends: the invariant is kept.                           *)
LEMMA OtherAppendsKeeps ==
    ASSUME IndexInv, NEW b \in Bundle, OtherAppends(b)
    PROVE  IndexInv'
<1> USE IndexLoopAssumption DEF IndexInv
<1>0. /\ Append(line, Commit(b)) \in Seq(Entry)
      /\ Len(Append(line, Commit(b))) = Len(line) + 1
  BY AppendedLine DEF LoopTypeOK, Entry
<1>1. LoopTypeOK'
  <2>1. line' \in Seq(Entry) /\ Len(line') <= MaxLine
    BY <1>0 DEF OtherAppends, LoopTypeOK
  <2> QED
    BY <2>1 DEF OtherAppends, feeds, LoopTypeOK
<1>2. IndexFaithful' /\ WatchHonest'
  BY <1>0 DEF OtherAppends, feeds, LoopTypeOK, IndexFaithful, WatchHonest, Clearing,
       Handles, Folding, Standing, LevelWith
<1>3. Handles'
  <2>1. Len(line') = Len(line) + 1 /\ Len(line) \in Nat
    BY <1>0 DEF OtherAppends, LoopTypeOK
  <2> QED
    BY <2>1 DEF OtherAppends, LoopTypeOK, Handles
<1>4. Folding'
  BY <1>0 DEF OtherAppends, feeds, LoopTypeOK, IndexFaithful, Handles, Folding
<1>5. Standing'
  BY <1>0 DEF OtherAppends, feeds, LoopTypeOK, IndexFaithful, WatchHonest, Clearing,
       Handles, Folding, Standing, LevelWith
<1> QED
  BY <1>1, <1>2, <1>3, <1>4, <1>5

-----------------------------------------------------------------------------
(* The loop's initial state: nothing replayed, nothing published.          *)
LEMMA InitEstablishesIndex ==
    Init => IndexInv
<1> SUFFICES ASSUME Init PROVE IndexInv
  OBVIOUS
<1> USE IndexLoopAssumption
<1>1. PICK n \in 0 .. MaxBoot : line \in [1 .. n -> {Commit(b) : b \in Bundle}]
  BY DEF Init
<1>2. {Commit(b) : b \in Bundle} \subseteq Entry
  BY DEF Entry
<1>3. line \in Seq(Entry) /\ Len(line) = n
  BY <1>1, <1>2
<1>4. term \in 0 .. MaxTerm /\ terms \in 0 .. MaxTerm
  BY DEF Init
<1>5. deltas \in Seq(Version) /\ Len(deltas) <= Buffer
  BY DEF Init
<1>6. /\ boot = -1 /\ view = 0 /\ opened = 0 /\ replayed = 0 /\ forTerm = 0
      /\ pc = "new" /\ cursor = 0 /\ job = NoJob /\ index = {} /\ applied = 0
      /\ published = 0 /\ acked = {} /\ outcome = "none"
      /\ emptied = FALSE /\ term <= terms
  BY DEF Init
<1>7. leads \in BOOLEAN /\ lagged \in BOOLEAN /\ emptied \in BOOLEAN
  BY DEF Init
<1>9. /\ boot \in -1 .. MaxLine /\ 0 \in 0 .. MaxLine /\ 0 \in 0 .. MaxTerm /\ Len(line) <= MaxLine
  BY <1>3, <1>6
<1>8. LoopTypeOK
  BY <1>3, <1>4, <1>5, <1>6, <1>7, <1>9 DEF LoopTypeOK
<1>10. Handles
  BY <1>3, <1>4, <1>6 DEF Handles
<1> QED
  BY <1>3, <1>6, <1>8, <1>10 DEF IndexInv, IndexFaithful, WatchHonest, Folding, Standing

(* Every step of the loop, its lease and the other nodes keeps IndexInv.   *)
LEMMA LoopNextKeeps ==
    IndexInv /\ [LoopNext]_loopVars => IndexInv'
<1> SUFFICES ASSUME IndexInv, [LoopNext]_loopVars PROVE IndexInv'
  OBVIOUS
<1>1. CASE Serving
  BY <1>1, ReplayStartKeeps, FoldPageKeeps, ReplayDoneKeeps, RefoldPageKeeps,
     RefoldDoneKeeps, LandsKeeps, RefusedKeeps, FencedKeeps,
     PublishNextKeeps, PublishRebuildKeeps, RebuildDoneKeeps, TellKeeps,
     DroppedKeeps DEF Serving
<1>2. CASE RefoldStart \/ Errs \/ DropCache \/ Lapse \/ Take
  BY <1>2, RefoldStartKeeps, ErrsKeeps, DropCacheKeeps, LapseKeeps, TakeKeeps
<1>3. CASE \E b \in Bundle : Stage(Commit(b)) \/ OtherAppends(b)
  <2>1. \A b \in Bundle : Commit(b) \in Entry
    BY DEF Entry
  <2> QED
    BY <1>3, <2>1, StageKeeps, OtherAppendsKeeps
<1>5. CASE Failing
  BY <1>5, ReplayFailsKeeps, RefoldFailsKeeps, PublishClearsKeeps, RebuildBreaksKeeps DEF Failing
<1>4. CASE UNCHANGED loopVars
  BY <1>4 DEF loopVars, IndexInv, LoopTypeOK, IndexFaithful, WatchHonest, Clearing, Handles,
              Folding, Standing, LevelWith
<1> QED
  BY <1>1, <1>2, <1>3, <1>4, <1>5 DEF LoopNext

(* The inductive invariant holds in every reachable state.                 *)
THEOREM IndexInvariant == LoopSpec => []IndexInv
<1> QED
  BY InitEstablishesIndex, LoopNextKeeps, PTL DEF LoopSpec

(* The coordinator loop's types, and with them the bound on the delta      *)
(* buffer: a slow follower never makes the broadcast channel grow past     *)
(* DELTA_BUFFER_ENTRIES (Tell).                                            *)
THEOREM LoopTypes == LoopSpec => []LoopTypeOK
<1>1. IndexInv => LoopTypeOK
  BY DEF IndexInv
<1> QED
  BY <1>1, IndexInvariant, PTL

(* The index is a hole-free prefix of the durable line, through every      *)
(* refusal, lost answer, term change, refold, rebuild, failed read and      *)
(* dropped cache (publish, refold, drop_cache).                             *)
THEOREM IndexIsFaithful == LoopSpec => []IndexFaithful
<1>1. IndexInv => IndexFaithful
  BY DEF IndexInv
<1> QED
  BY <1>1, IndexInvariant, PTL

(* The watch never names a version the index does not hold                 *)
(* (publish_applied), so no reader is woken onto an index that cannot      *)
(* answer it, a refused fold and a failed rebuild included.                *)
THEOREM WatchIsHonest == LoopSpec => []WatchHonest
<1>1. IndexInv => WatchHonest
  BY DEF IndexInv
<1> QED
  BY <1>1, IndexInvariant, PTL

-----------------------------------------------------------------------------
(* Read-your-writes. Until the index is next emptied it is level with the  *)
(* handle wherever the loop could append, so publish never rebuilds then   *)
(* and nothing acknowledged is taken back out; and a rebuild or refold     *)
(* that ends has read a handle that holds everything acknowledged.         *)

Kept ==
    /\ pc \in {"new", "replay"} => acked = {}
    /\ pc = "rebuild" => emptied \/ acked = {}
    /\ Clearing => emptied
    /\ pc = "refold" => view <= opened
    /\ pc = "idle" /\ replayed # 0 /\ replayed = term /\ acked # {} /\ ~emptied => applied = view
    /\ pc = "append" /\ acked # {} /\ ~emptied => applied = view
    /\ pc = "landed" /\ acked # {} /\ ~emptied => applied + 1 = view
    /\ pc = "tell" /\ ~emptied => applied = view
    /\ acked \subseteq 1 .. view
    /\ ~emptied => acked \subseteq 1 .. applied

(* Every step keeps it, given IndexInv.                                    *)
LEMMA LoopNextKeepsAcked ==
    ASSUME IndexInv, Kept, [LoopNext]_loopVars
    PROVE  Kept'
<1> USE IndexLoopAssumption DEF IndexInv, LoopTypeOK, Kept, Clearing
<1>1. CASE ReplayStart
  BY <1>1 DEF ReplayStart, feeds, Handles, Folding, Standing
<1>2. CASE FoldPage
  BY <1>2, PageEndBounds DEF FoldPage, handles, feeds, Handles, Folding, Standing
<1>3. CASE ReplayDone
  BY <1>3 DEF ReplayDone, handles, Handles, Folding, Standing
<1>4. CASE RefoldStart
  BY <1>4 DEF RefoldStart, feeds, Handles, Folding, Standing
<1>5. CASE RefoldPage
  <2>1. applied <= applied'
    BY <1>5, PageEndBounds DEF RefoldPage, Folding
  <2>2. pc' = "refold" /\ UNCHANGED <<opened, view, acked, emptied>>
    BY <1>5 DEF RefoldPage, handles, feeds
  <2> QED
    <3>1. pc = "refold" /\ view <= opened /\ acked \subseteq 1 .. view
          /\ (~emptied => acked \subseteq 1 .. applied)
      BY <1>5 DEF RefoldPage
    <3>2. applied \in Nat /\ applied' \in Nat
      BY <1>5, PageEndBounds DEF RefoldPage
    <3>3. ~emptied' => acked' \subseteq 1 .. applied'
      BY <2>1, <2>2, <3>1, <3>2
    <3> QED
      BY <2>2, <3>1, <3>3
<1>6. CASE RefoldDone
  BY <1>6 DEF RefoldDone, Handles, Folding, Standing
<1>7. CASE Lands
  BY <1>7 DEF Lands, feeds, Handles, Folding, Standing
<1>8. CASE Refused
  BY <1>8 DEF Refused, Answer, Handles, Folding, Standing
<1>9. CASE Errs
  BY <1>9 DEF Errs, Answer, Handles, Folding, Standing
<1>10. CASE Fenced
  BY <1>10 DEF Fenced, Answer, Handles, Folding, Standing
<1>11. CASE PublishNext
  BY <1>11 DEF PublishNext, handles, tidings, Handles, Folding, Standing
<1>12. CASE PublishRebuild
  BY <1>12 DEF PublishRebuild, handles, feeds, Handles, Folding, Standing
<1>13. CASE RebuildDone
  BY <1>13 DEF RebuildDone, handles, tidings, Handles, Folding, Standing
<1>14. CASE Tell
  BY <1>14, SMTT(30) DEF Tell, handles, Answer, Standing
<1>15. CASE DropCache
  BY <1>15 DEF DropCache, handles, tidings, Handles, Folding, Standing
<1>16. CASE Dropped
  BY <1>16 DEF Dropped, handles, Handles, Folding, Standing
<1>17. CASE Lapse
  BY <1>17 DEF Lapse, feeds, Handles, Folding, Standing
<1>18. CASE Take
  BY <1>18 DEF Take, feeds, Handles, Folding, Standing
<1>19. ASSUME NEW b \in Bundle, Stage(Commit(b)) PROVE Kept'
  BY <1>19 DEF Stage, handles, feeds
<1>20. ASSUME NEW b \in Bundle, OtherAppends(b) PROVE Kept'
  BY <1>20 DEF OtherAppends, feeds
<1>22. CASE ReplayFails
  BY <1>22 DEF ReplayFails, handles, feeds, Handles, Folding, Standing
<1>23. CASE RefoldFails
  BY <1>23 DEF RefoldFails, feeds, Handles, Folding, Standing
<1>24. CASE PublishClears
  BY <1>24 DEF PublishClears, handles, tidings, Handles, Folding, Standing
<1>25. CASE RebuildBreaks
  BY <1>25 DEF RebuildBreaks, handles, tidings, Handles, Folding, Standing
<1>21. CASE UNCHANGED loopVars
  BY <1>21 DEF loopVars
<1> QED
  BY <1>1, <1>2, <1>3, <1>4, <1>5, <1>6, <1>7, <1>8, <1>9, <1>10, <1>11,
     <1>12, <1>13, <1>14, <1>15, <1>16, <1>17, <1>18, <1>19, <1>20, <1>21, <1>22,
     <1>23, <1>24, <1>25 DEF LoopNext, Serving, Failing

(* Read-your-writes: every acknowledged commit is in the index that        *)
(* fetches on this node read (publish's "Before the ack returns"), across  *)
(* every loss of leadership, refold and rebuild, or the index was emptied  *)
(* and not made whole since, and then the watch does not name it.          *)
THEOREM ReadYourWrites == LoopSpec => []AckedReadable
<1>1. Init => Kept
  BY IndexLoopAssumption DEF Init, Kept, Clearing
<1>2. IndexInv /\ Kept /\ [LoopNext]_loopVars => Kept'
  BY LoopNextKeepsAcked
<1>3. IndexInv /\ Kept => AckedReadable
  BY IndexLoopAssumption DEF IndexInv, IndexFaithful, LoopTypeOK, WatchHonest, Kept, AckedReadable
<1> QED
  BY <1>1, <1>2, <1>3, IndexInvariant, PTL DEF LoopSpec
=============================================================================
