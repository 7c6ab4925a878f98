--------------------------- MODULE SharedLogProofs ---------------------------
(***************************************************************************)
(* For every number of nodes, commits, terms, base generations, late PUTs  *)
(* and restarts: the objects of the metadata log are, at every moment, one *)
(* line of commits that only grows at its end, a leader that has replayed  *)
(* appends to a prefix of it, and an acknowledgement names a commit's      *)
(* place in it. Together: SharedLog implements DurableLog.                 *)
(*                                                                         *)
(* Two things the code does not itself enforce are hypotheses, as in the   *)
(* passing run: no request of a loop lasts from one of its node's terms    *)
(* into another, and the lease does not lapse between the checkpoint       *)
(* task's look and its capture. README section 5 shows what happens        *)
(* otherwise.                                                              *)
(*                                                                         *)
(* The inductive invariant is stated for a line L the store holds, and the *)
(* line is shown to be what an open reads (RecoveredIs). It has to say     *)
(* what becomes of a deposed writer: its PUT may land in a hole that a     *)
(* checkpoint's deletes have left, and then its view, what its checkpoint  *)
(* captures and even a snapshot it writes are of no line at all. They are  *)
(* harmless because such a view is no longer than the base and of an older *)
(* base generation (Sound).                                                *)
(***************************************************************************)
EXTENDS SharedLog, FiniteSetTheorems, TLAPS

(* Every predicate below is of values, so that what an action leaves alone  *)
(* it leaves true: L is a line, B and G the base and its generation, v, k   *)
(* and l what one node's view, checkpoint task and loop are.                *)

(* e is what the line L begins with.                                       *)
StartOf(e, L) == Len(e) <= Len(L) /\ \A i \in 1 .. Len(e) : e[i] = L[i]

(* Segments sg and snapshots sn hold the line L over base B: the snapshot  *)
(* of the base, every segment from there to the end of L and none behind   *)
(* it; a snapshot not below the base is one of L.                          *)
IsLine(L, sg, sn, B) ==
    /\ L \in Seq(Commit) /\ Len(L) <= MaxSeq /\ B \in 0 .. Len(L)
    /\ \A s \in 0 .. MaxSeq - 1 :
           /\ B <= s /\ s < Len(L) => sg[s] = L[s + 1]
           /\ Len(L) <= s => sg[s] = None
    /\ B # 0 => sn[B] # None
    /\ \A s \in 1 .. MaxSeq :
           B <= s /\ sn[s] # None => Len(sn[s]) = s /\ StartOf(sn[s], L)

(* What a writer of base generation g may hold: a beginning of the line,   *)
(* or what a PUT into a hole has made of it.                               *)
Sound(e, g, L, B, G) == StartOf(e, L) \/ (Len(e) <= B /\ g < G)

-----------------------------------------------------------------------------
SegPuts == [kind : {"seg"}, key : 0 .. MaxSeq - 1, commit : Commit]
BasePuts == [kind : {"base"}, key : Nat, seq : 1 .. MaxSeq, commit : {None}]

LoopPlaces == {"idle", "stage", "base", "snapshot", "walk", "recheck", "put", "landed"}
Opening == {"base", "snapshot", "walk", "recheck"}
CkptPlaces == {"idle", "armed", "snapshot", "tail", "base", "committed", "delete"}
Capturing == {"snapshot", "tail", "base"}
Retired == [kind : {"seg", "snap"}, key : Nat]

Views == [entries : Seq(Commit), gen : Nat, base : Nat, dirty : BOOLEAN]
Loops == [pc : LoopPlaces, term : Nat, gen : Nat, base : Nat, entries : Seq(Commit),
          commit : Commit \cup {None}]
Ckpts == [pc : CkptPlaces, own : BOOLEAN, seq : Nat, gen : Nat, base : Nat, tail : Nat,
          entries : Seq(Commit), retired : Seq(Retired)]

LogType ==
    /\ terms \in Nat /\ pending \in Node \cup {None} /\ leader \in Node \cup {None}
    /\ seg \in [0 .. MaxSeq - 1 -> Commit \cup {None}]
    /\ bases \in Seq(1 .. MaxSeq)
    /\ snap \in [1 .. MaxSeq -> Seq(Commit) \cup {None}]
    /\ late \subseteq SegPuts \cup BasePuts
    /\ view \in [Node -> Views] /\ replayed \in [Node -> Nat]
    /\ loop \in [Node -> Loops] /\ ckpt \in [Node -> Ckpts]
    /\ acked \in [Commit -> Nat]

(* A term is led by one node, which has replayed no term it has not led.   *)
LeadersInv == leader # None => terms > 0 /\ pending = None

TermsOK(n, l, r, ts, pend, ld) ==
    /\ r <= ts /\ l.term <= ts
    /\ pend # None => r < ts /\ l.term < ts
    /\ ld = n => /\ l.pc \in Opening => l.term = ts
                 /\ l.pc \in {"stage", "put", "landed"} => r = ts

(* The base a view is of, once the answer of its checkpoint's base is in.  *)
Committing(k) == k.pc = "committed" /\ k.own
ViewGen(v, k) == IF Committing(k) THEN k.gen + 1 ELSE v.gen
ViewBase(v, k) == IF Committing(k) THEN k.seq ELSE v.base

ViewOK(v, k, L, B, G) ==
    /\ Sound(v.entries, ViewGen(v, k), L, B, G)
    /\ ViewGen(v, k) <= G /\ v.gen <= G
    /\ ViewGen(v, k) = G => ViewBase(v, k) = B
    /\ ViewBase(v, k) <= Len(v.entries) /\ v.base <= Len(v.entries)
    /\ Len(v.entries) <= MaxSeq

(* An append under way: it was sent from a beginning of the line, its      *)
(* place is within the log, and once it has landed it extends the view as  *)
(* the view may be extended.                                               *)
PutOK(v, k, l, L, B, G) ==
    /\ l.pc \in {"put", "landed"} => Len(v.entries) < MaxSeq /\ l.commit \in Commit
    /\ l.pc = "put" => StartOf(v.entries, L)
    /\ l.pc = "landed" => Sound(Append(v.entries, l.commit), ViewGen(v, k), L, B, G)

(* An open under way: while the base it read is the newest, it has read a  *)
(* beginning of the line.                                                  *)
OpenOK(l, L, B, G) ==
    /\ l.gen <= G
    /\ l.pc = "snapshot" => l.base \in 1 .. MaxSeq
    /\ l.pc \in {"snapshot", "walk", "recheck"} /\ l.gen = G => l.base = B
    /\ l.pc \in {"walk", "recheck"} /\ l.gen = G =>
           StartOf(l.entries, L) /\ B <= Len(l.entries)

(* A checkpoint: what it captured, what it has committed, and what it may  *)
(* delete.                                                                 *)
CkptOK(k, v, L, B, G, sn, bs) ==
    /\ k.pc \in Capturing \cup {"committed"} =>
           /\ k.seq = Len(k.entries) /\ k.seq \in 1 .. MaxSeq /\ k.base < k.seq
           /\ k.own => k.seq <= Len(v.entries) /\ k.gen = v.gen
    /\ k.pc \in Capturing =>
           /\ Sound(k.entries, k.gen, L, B, G)
           /\ k.gen <= G
           /\ k.gen = G => k.base = B
    /\ k.pc \in {"tail", "base"} /\ k.gen = G => sn[k.seq] # None
    /\ k.pc = "committed" => k.gen + 1 <= G /\ k.seq <= B /\ k.seq = bs[k.gen + 1]
    /\ k.pc = "delete" => \A i \in 1 .. Len(k.retired) : k.retired[i].key < B

NodeOK(v, k, l, L, B, G, sn, bs) ==
    /\ ViewOK(v, k, L, B, G) /\ PutOK(v, k, l, L, B, G)
    /\ OpenOK(l, L, B, G) /\ CkptOK(k, v, L, B, G, sn, bs)

(* A PUT nobody waits for.                                                 *)
LateOK(p, L, B, G, sn) ==
    /\ p.kind = "seg" => p.key <= Len(L)
    /\ p.kind = "base" => p.key <= G
    /\ p.kind = "base" /\ p.key = G => B < p.seq /\ p.seq <= Len(L) /\ sn[p.seq] # None

(* A base that may still be committed reaches no further than x places.    *)
Claims(k, G) == k.pc \in Capturing /\ k.gen = G
LateClaims(p, G) == p.kind = "base" /\ p.key = G
Within(x, ck, lt, G) ==
    /\ \A m \in Node : Claims(ck[m], G) => ck[m].seq <= x
    /\ \A p \in lt : LateClaims(p, G) => p.seq <= x

(* The leader, once it has replayed under its term or is about to have.    *)
LeadOK(v, l, r, ts, ck, lt, L, B, G) ==
    /\ r = ts => /\ StartOf(v.entries, L) /\ B <= Len(v.entries)
                 /\ Within(Len(v.entries), ck, lt, G)
    /\ l.pc = "recheck" /\ l.gen = G => /\ Len(v.entries) <= Len(l.entries)
                                        /\ Within(Len(l.entries), ck, lt, G)
    /\ l.pc = "landed" => StartOf(Append(v.entries, l.commit), L)

LogInv(L) ==
    /\ LogType /\ LeadersInv
    /\ IsLine(L, seg, snap, BaseSeq)
    /\ \A n \in Node : TermsOK(n, loop[n], replayed[n], terms, pending, leader)
    /\ \A n \in Node : NodeOK(view[n], ckpt[n], loop[n], L, BaseSeq, Generation, snap, bases)
    /\ \A p \in late : LateOK(p, L, BaseSeq, Generation, snap)
    /\ \A n \in Node : leader = n =>
           LeadOK(view[n], loop[n], replayed[n], terms, ckpt, late, L, BaseSeq, Generation)

-----------------------------------------------------------------------------
(* Facts about lines.                                                      *)

LEMMA MaxSeqNat == MaxSeq \in Nat
BY SharedLogAssumption, FS_CardinalityType DEF MaxSeq

LEMMA BaseType ==
    ASSUME bases \in Seq(1 .. MaxSeq)
    PROVE  Generation \in Nat /\ BaseSeq \in 0 .. MaxSeq /\ (Generation > 0 => BaseSeq = bases[Generation])
           /\ (Generation = 0 => BaseSeq = 0)
BY MaxSeqNat DEF Generation, BaseSeq, Last

LEMMA StartGrows ==
    ASSUME NEW L \in Seq(Commit), NEW c \in Commit, NEW e \in Seq(Commit), StartOf(e, L)
    PROVE  StartOf(e, Append(L, c))
BY DEF StartOf

LEMMA StartIsShort ==
    ASSUME NEW L \in Seq(Commit), NEW e \in Seq(Commit), NEW g, NEW B \in 0 .. Len(L), NEW G,
           Sound(e, g, L, B, G)
    PROVE  Len(e) <= Len(L)
BY DEF StartOf, Sound

LEMMA SoundGrows ==
    ASSUME NEW L \in Seq(Commit), NEW c \in Commit, NEW e \in Seq(Commit), NEW g, NEW B, NEW G,
           Sound(e, g, L, B, G)
    PROVE  Sound(e, g, Append(L, c), B, G)
BY StartGrows DEF Sound

LEMMA SoundRebased ==
    ASSUME NEW L, NEW e \in Seq(Commit), NEW g \in Nat, NEW B \in Nat, NEW G \in Nat, g <= G,
           NEW s \in Nat, B <= s, Sound(e, g, L, B, G)
    PROVE  Sound(e, g, L, s, G + 1)
BY DEF Sound

(* The line grows at its end: what was sound of a node stays so.           *)
LEMMA NodeGrows ==
    ASSUME NEW L \in Seq(Commit), NEW c \in Commit, NEW v \in Views, NEW k \in Ckpts, NEW l \in Loops,
           NEW B, NEW G, NEW sn, NEW bs, NodeOK(v, k, l, L, B, G, sn, bs)
    PROVE  NodeOK(v, k, l, Append(L, c), B, G, sn, bs)
<1>1. v.entries \in Seq(Commit) /\ k.entries \in Seq(Commit) /\ l.entries \in Seq(Commit)
  BY DEF Views, Ckpts, Loops
<1>2. ViewOK(v, k, Append(L, c), B, G)
  BY <1>1, SoundGrows DEF NodeOK, ViewOK
<1>3. PutOK(v, k, l, Append(L, c), B, G)
  <2>1. l.pc \in {"put", "landed"} => Append(v.entries, l.commit) \in Seq(Commit)
    BY <1>1 DEF NodeOK, PutOK
  <2> QED
    BY <1>1, <2>1, SoundGrows, StartGrows DEF NodeOK, PutOK
<1>4. OpenOK(l, Append(L, c), B, G)
  BY <1>1, StartGrows DEF NodeOK, OpenOK
<1>5. CkptOK(k, v, Append(L, c), B, G, sn, bs)
  BY <1>1, SoundGrows DEF NodeOK, CkptOK, Capturing
<1> QED
  BY <1>2, <1>3, <1>4, <1>5 DEF NodeOK

(* A base is committed: what was of the old generation is now stale.       *)
LEMMA NodeRebased ==
    ASSUME NEW L, NEW v \in Views, NEW k \in Ckpts, NEW l \in Loops,
           NEW B \in Nat, NEW G \in Nat, NEW sn, NEW bs \in Seq(1 .. MaxSeq), Len(bs) = G,
           NEW s \in 1 .. MaxSeq, B < s, NodeOK(v, k, l, L, B, G, sn, bs)
    PROVE  NodeOK(v, k, l, L, s, G + 1, sn, Append(bs, s))
<1>0. MaxSeq \in Nat
  BY MaxSeqNat
<1>1. /\ v.entries \in Seq(Commit) /\ k.entries \in Seq(Commit) /\ l.entries \in Seq(Commit)
      /\ v.gen \in Nat /\ k.gen \in Nat /\ l.gen \in Nat /\ k.seq \in Nat /\ k.retired \in Seq(Retired)
      /\ ViewGen(v, k) \in Nat
  BY SMTT(30) DEF Views, Ckpts, Loops, ViewGen
<1>2. ViewOK(v, k, L, s, G + 1)
  BY SMTT(30), <1>0, <1>1, SoundRebased DEF NodeOK, ViewOK
<1>3. PutOK(v, k, l, L, s, G + 1)
  <2>1. l.pc \in {"put", "landed"} => Append(v.entries, l.commit) \in Seq(Commit)
    BY <1>1 DEF NodeOK, PutOK
  <2>2. ViewGen(v, k) <= G
    BY DEF NodeOK, ViewOK
  <2>3. l.pc = "landed" => Sound(Append(v.entries, l.commit), ViewGen(v, k), L, s, G + 1)
    <3> SUFFICES ASSUME l.pc = "landed"
                 PROVE  Sound(Append(v.entries, l.commit), ViewGen(v, k), L, s, G + 1)
      OBVIOUS
    <3>1. Sound(Append(v.entries, l.commit), ViewGen(v, k), L, B, G)
      BY DEF NodeOK, PutOK
    <3> DEFINE e == Append(v.entries, l.commit)
    <3>2. e \in Seq(Commit) /\ Sound(e, ViewGen(v, k), L, B, G)
      BY <2>1, <3>1
    <3> HIDE DEF e
    <3>3. Sound(e, ViewGen(v, k), L, s, G + 1)
      BY <1>0, <1>1, <2>2, <3>2, SoundRebased
    <3> QED
      BY <3>3 DEF e
  <2> QED
    BY <2>3 DEF NodeOK, PutOK
<1>4. OpenOK(l, L, s, G + 1)
  BY <1>0, <1>1 DEF NodeOK, OpenOK
<1>5. CkptOK(k, v, L, s, G + 1, sn, Append(bs, s))
  <2>1. k.pc \in Capturing \cup {"committed"} =>
           /\ k.seq = Len(k.entries) /\ k.seq \in 1 .. MaxSeq /\ k.base < k.seq
           /\ k.own => k.seq <= Len(v.entries) /\ k.gen = v.gen
    BY DEF NodeOK, CkptOK
  <2>2. k.pc \in Capturing => Sound(k.entries, k.gen, L, s, G + 1) /\ k.gen <= G + 1 /\ k.gen # G + 1
    BY SMTT(30), <1>0, <1>1, SoundRebased DEF NodeOK, CkptOK
  <2>3. k.pc = "committed" => k.gen + 1 <= G + 1 /\ k.seq <= s /\ k.seq = Append(bs, s)[k.gen + 1]
    <3> SUFFICES ASSUME k.pc = "committed"
                 PROVE  k.gen + 1 <= G + 1 /\ k.seq <= s /\ k.seq = Append(bs, s)[k.gen + 1]
      OBVIOUS
    <3>1. k.gen + 1 <= G /\ k.seq <= B /\ k.seq = bs[k.gen + 1]
      BY DEF NodeOK, CkptOK
    <3>2. Append(bs, s)[k.gen + 1] = bs[k.gen + 1]
      BY <1>1, <3>1
    <3> QED
      BY SMTT(30), <1>0, <1>1, <3>1, <3>2
  <2>4. k.pc = "delete" => \A i \in 1 .. Len(k.retired) : k.retired[i].key < s
    <3>1. \A i \in 1 .. Len(k.retired) : k.retired[i].key \in Nat
      <4>1. \A i \in 1 .. Len(k.retired) : k.retired[i] \in Retired
        BY <1>1
      <4> QED
        BY <4>1 DEF Retired
    <3> QED
      BY SMTT(30), <1>0, <1>1, <3>1 DEF NodeOK, CkptOK
  <2> QED
    BY <2>1, <2>2, <2>3, <2>4 DEF CkptOK, Capturing
<1> QED
  BY <1>2, <1>3, <1>4, <1>5 DEF NodeOK

(* Snapshots above the base are only added to.                             *)
LEMMA NodeSnapped ==
    ASSUME NEW L, NEW v \in Views, NEW k \in Ckpts, NEW l \in Loops,
           NEW B \in Nat, NEW G \in Nat, NEW sn, NEW bs, NodeOK(v, k, l, L, B, G, sn, bs),
           NEW sm, \A s \in 1 .. MaxSeq : B < s /\ sn[s] # None => sm[s] # None
    PROVE  NodeOK(v, k, l, L, B, G, sm, bs)
BY MaxSeqNat DEF NodeOK, CkptOK, Capturing, Ckpts

(* Two sequences of one length that agree everywhere are one.              *)
LEMMA SameSeq ==
    ASSUME NEW s \in Seq(Commit), NEW t \in Seq(Commit), Len(s) = Len(t),
           \A i \in 1 .. Len(s) : s[i] = t[i]
    PROVE  s = t
OBVIOUS

LEMMA ConcatIs ==
    ASSUME NEW h \in Seq(Commit), NEW r \in Seq(Commit), NEW L \in Seq(Commit),
           Len(h) + Len(r) = Len(L), \A i \in 1 .. Len(h) : h[i] = L[i],
           \A i \in 1 .. Len(r) : r[i] = L[Len(h) + i]
    PROVE  h \o r = L
<1>1. h \o r \in Seq(Commit) /\ Len(h \o r) = Len(h) + Len(r) /\ Len(h) \in Nat /\ Len(r) \in Nat
  OBVIOUS
<1>2. ASSUME NEW i \in 1 .. Len(h) PROVE (h \o r)[i] = h[i]
  OBVIOUS
<1>3. ASSUME NEW i \in 1 .. Len(L), i > Len(h)
      PROVE  (h \o r)[i] = L[i]
  <2>1. i - Len(h) \in 1 .. Len(r) /\ Len(h) + (i - Len(h)) = i
    BY <1>1, <1>3
  <2>2. (h \o r)[i] = r[i - Len(h)]
    BY <1>1, <1>3, <2>1
  <2> QED
    BY <2>1, <2>2
<1>4. \A i \in 1 .. Len(L) : i \in 1 .. Len(h) \/ i > Len(h)
  BY <1>1
<1>5. \A i \in 1 .. Len(h \o r) : (h \o r)[i] = L[i]
  BY <1>1, <1>2, <1>3, <1>4
<1> QED
  BY <1>1, <1>5, SameSeq

(* The line is what an open reads.                                         *)
LEMMA RecoveredIs ==
    ASSUME NEW L, LogType, IsLine(L, seg, snap, BaseSeq)
    PROVE  Recovered = L
<1>1. MaxSeq \in Nat /\ None \notin Commit /\ BaseSeq \in 0 .. Len(L) /\ Len(L) \in 0 .. MaxSeq
      /\ L \in Seq(Commit)
  BY MaxSeqNat, SharedLogAssumption DEF IsLine
<1>2. \A s \in BaseSeq .. Len(L) - 1 : Present(s) /\ seg[s] = L[s + 1]
  BY <1>1 DEF IsLine, Present
<1>3. ~Present(Len(L))
  BY <1>1 DEF IsLine, Present
<1> DEFINE to == CHOOSE s \in BaseSeq .. MaxSeq :
                    ~Present(s) /\ \A r \in BaseSeq .. s - 1 : Present(r)
           head == IF BaseSeq = 0 THEN <<>> ELSE snap[BaseSeq]
           rest == [i \in 1 .. to - BaseSeq |-> seg[BaseSeq + i - 1]]
<1>4. to = Len(L)
  <2> DEFINE P(s) == ~Present(s) /\ \A r \in BaseSeq .. s - 1 : Present(r)
  <2>1. Len(L) \in BaseSeq .. MaxSeq /\ P(Len(L))
    BY <1>1, <1>2, <1>3
  <2>2. \A s \in BaseSeq .. MaxSeq : P(s) => s = Len(L)
    <3> SUFFICES ASSUME NEW s \in BaseSeq .. MaxSeq, P(s), s # Len(L) PROVE FALSE
      OBVIOUS
    <3>1. CASE s < Len(L)
      BY <1>1, <1>2, <3>1
    <3>2. CASE s > Len(L)
      BY <1>1, <1>3, <3>2
    <3> QED
      BY <1>1, <3>1, <3>2
  <2> HIDE DEF P
  <2>3. (CHOOSE s \in BaseSeq .. MaxSeq : P(s)) = Len(L)
    BY <2>1, <2>2
  <2> QED
    BY <2>3 DEF P
<1>5. head \in Seq(Commit) /\ Len(head) = BaseSeq /\ \A i \in 1 .. BaseSeq : head[i] = L[i]
  <2>1. CASE BaseSeq = 0
    BY <2>1
  <2>2. CASE BaseSeq # 0
    <3>1. BaseSeq \in 1 .. MaxSeq /\ snap[BaseSeq] # None
      BY <1>1, <2>2 DEF IsLine
    <3>2. snap[BaseSeq] \in Seq(Commit)
      BY <3>1 DEF LogType
    <3>3. Len(snap[BaseSeq]) = BaseSeq /\ StartOf(snap[BaseSeq], L)
      BY <1>1, <3>1 DEF IsLine
    <3> QED
      BY <2>2, <3>2, <3>3 DEF StartOf
  <2> QED
    BY <2>1, <2>2
<1>6. /\ rest \in Seq(Commit) /\ Len(rest) = Len(L) - BaseSeq
      /\ \A i \in 1 .. Len(L) - BaseSeq : rest[i] = L[BaseSeq + i]
  <2> HIDE DEF to
  <2>1. \A i \in 1 .. Len(L) - BaseSeq : seg[BaseSeq + i - 1] = L[BaseSeq + i]
    <3> SUFFICES ASSUME NEW i \in 1 .. Len(L) - BaseSeq
                 PROVE  seg[BaseSeq + i - 1] = L[BaseSeq + i]
      OBVIOUS
    <3>1. BaseSeq + i - 1 \in BaseSeq .. Len(L) - 1 /\ (BaseSeq + i - 1) + 1 = BaseSeq + i
      BY <1>1
    <3> QED
      BY <1>2, <3>1
  <2>2. \A i \in 1 .. Len(L) - BaseSeq : L[BaseSeq + i] \in Commit
    BY <1>1
  <2> QED
    BY <1>1, <1>4, <2>1, <2>2
<1> HIDE DEF to, head, rest
<1>7. head \o rest = L
  <2>1. Len(head) + Len(rest) = Len(L)
    BY <1>1, <1>5, <1>6
  <2>2. \A i \in 1 .. Len(head) : head[i] = L[i]
    BY <1>5
  <2>3. \A i \in 1 .. Len(rest) : rest[i] = L[Len(head) + i]
    BY <1>5, <1>6
  <2> QED
    BY <1>1, <1>5, <1>6, <2>1, <2>2, <2>3, ConcatIs
<1> QED
  BY <1>7 DEF Recovered, head, rest, to

(* IsPrefix of the community modules, for what begins a line.              *)
LEMMA StartIsPrefix ==
    ASSUME NEW L \in Seq(Commit), NEW e \in Seq(Commit), StartOf(e, L)
    PROVE  IsPrefix(e, L)
<1>1. Len(e) <= Len(L) /\ Len(e) \in Nat /\ Len(L) \in Nat /\ \A i \in 1 .. Len(e) : e[i] = L[i]
  BY DEF StartOf
<1>2. SubSeq(e, 1, Len(e)) = [i \in 1 .. Len(e) |-> e[i]]
  BY <1>1
<1>3. SubSeq(L, 1, Len(e)) = [i \in 1 .. Len(e) |-> L[i]]
  BY <1>1
<1> QED
  BY <1>1, <1>2, <1>3 DEF IsPrefix

-----------------------------------------------------------------------------
(* Steps of a coordinator loop.                                            *)

LEMMA BasesKept ==
    ASSUME UNCHANGED bases
    PROVE  BaseSeq' = BaseSeq /\ Generation' = Generation
BY DEF BaseSeq, Generation, Last

(* What is known of a node in a state of LogInv.                           *)
LEMMA NodeIs ==
    ASSUME NEW L, LogInv(L), NEW n \in Node
    PROVE  /\ loop[n] \in Loops /\ view[n] \in Views /\ ckpt[n] \in Ckpts /\ replayed[n] \in Nat
           /\ terms \in Nat /\ MaxSeq \in Nat /\ Generation \in Nat /\ BaseSeq \in 0 .. MaxSeq
           /\ L \in Seq(Commit) /\ Len(L) \in 0 .. MaxSeq /\ BaseSeq <= Len(L)
           /\ TermsOK(n, loop[n], replayed[n], terms, pending, leader)
           /\ ViewOK(view[n], ckpt[n], L, BaseSeq, Generation)
           /\ PutOK(view[n], ckpt[n], loop[n], L, BaseSeq, Generation)
           /\ OpenOK(loop[n], L, BaseSeq, Generation)
           /\ CkptOK(ckpt[n], view[n], L, BaseSeq, Generation, snap, bases)
           /\ leader = n => LeadOK(view[n], loop[n], replayed[n], terms, ckpt, late, L,
                                   BaseSeq, Generation)
<1>1. bases \in Seq(1 .. MaxSeq)
  BY DEF LogInv, LogType
<1>2. Generation \in Nat /\ BaseSeq \in 0 .. MaxSeq /\ MaxSeq \in Nat
  BY <1>1, BaseType, MaxSeqNat
<1>3. loop[n] \in Loops /\ view[n] \in Views /\ ckpt[n] \in Ckpts /\ replayed[n] \in Nat
      /\ terms \in Nat
  BY DEF LogInv, LogType
<1>4. L \in Seq(Commit) /\ Len(L) \in 0 .. MaxSeq /\ BaseSeq <= Len(L)
  BY <1>2 DEF LogInv, IsLine
<1> QED
  BY <1>2, <1>3, <1>4 DEF LogInv, NodeOK

(* A step of one loop that touches nothing else.                           *)
LEMMA LoopStep ==
    ASSUME NEW L, LogInv(L), NEW n \in Node, NEW l \in Loops,
           loop' = [loop EXCEPT ![n] = l],
           UNCHANGED <<vars, storeVars, view, replayed, ckpt, acked>>,
           TermsOK(n, l, replayed[n], terms, pending, leader),
           PutOK(view[n], ckpt[n], l, L, BaseSeq, Generation),
           OpenOK(l, L, BaseSeq, Generation),
           leader = n => LeadOK(view[n], l, replayed[n], terms, ckpt, late, L, BaseSeq, Generation)
    PROVE  LogInv(L)'
<1>1. BaseSeq' = BaseSeq /\ Generation' = Generation
  BY BasesKept DEF storeVars
<1>2. UNCHANGED <<terms, pending, leader, seg, bases, snap, late, view, replayed, ckpt, acked>>
  BY DEF vars, storeVars
<1>3. loop'[n] = l /\ \A m \in Node : m # n => loop'[m] = loop[m]
  BY DEF LogInv, LogType
<1>4. LogType' /\ LeadersInv' /\ IsLine(L, seg, snap, BaseSeq)'
  BY <1>1, <1>2 DEF LogInv, LogType, LeadersInv
<1>5. \A m \in Node : TermsOK(m, loop'[m], replayed'[m], terms', pending', leader')
  BY <1>2, <1>3 DEF LogInv
<1>6. \A m \in Node : NodeOK(view'[m], ckpt'[m], loop'[m], L, BaseSeq', Generation', snap', bases')
  <2>1. NodeOK(view[n], ckpt[n], l, L, BaseSeq, Generation, snap, bases)
    BY DEF LogInv, NodeOK
  <2> QED
    BY <1>1, <1>2, <1>3, <2>1 DEF LogInv
<1>7. \A p \in late' : LateOK(p, L, BaseSeq', Generation', snap')
  BY <1>1, <1>2 DEF LogInv
<1>8. \A m \in Node : leader' = m =>
          LeadOK(view'[m], loop'[m], replayed'[m], terms', ckpt', late', L, BaseSeq', Generation')
  BY <1>1, <1>2, <1>3 DEF LogInv
<1> QED
  BY <1>4, <1>5, <1>6, <1>7, <1>8 DEF LogInv

(* Back to idle: every request may end.                                    *)
LEMMA IdleLoopIs ==
    IdleLoop \in Loops /\ IdleLoop.pc = "idle" /\ IdleLoop.term = 0 /\ IdleLoop.gen = 0
    /\ IdleLoop.entries = <<>>
BY DEF IdleLoop, Loops, LoopPlaces

LEMMA IdleLoopOK ==
    ASSUME NEW L, LogInv(L), NEW n \in Node, NEW v, NEW k
    PROVE  /\ TermsOK(n, IdleLoop, replayed[n], terms, pending, leader)
           /\ PutOK(v, k, IdleLoop, L, BaseSeq, Generation)
           /\ OpenOK(IdleLoop, L, BaseSeq, Generation)
           /\ leader = n =>
                  LeadOK(view[n], IdleLoop, replayed[n], terms, ckpt, late, L, BaseSeq, Generation)
<1>1. /\ terms \in Nat /\ Generation \in Nat /\ MaxSeq \in Nat /\ replayed[n] \in Nat
      /\ TermsOK(n, loop[n], replayed[n], terms, pending, leader)
      /\ leader = n => LeadOK(view[n], loop[n], replayed[n], terms, ckpt, late, L,
                              BaseSeq, Generation)
  BY NodeIs
<1>2. TermsOK(n, IdleLoop, replayed[n], terms, pending, leader)
  <2>1. pending # None => terms > 0
    BY <1>1 DEF TermsOK
  <2> QED
    BY <1>1, <2>1, IdleLoopIs DEF TermsOK, Opening
<1>3. PutOK(v, k, IdleLoop, L, BaseSeq, Generation)
  BY IdleLoopIs DEF PutOK
<1>4. OpenOK(IdleLoop, L, BaseSeq, Generation)
  BY <1>1, IdleLoopIs DEF OpenOK
<1>5. leader = n =>
          LeadOK(view[n], IdleLoop, replayed[n], terms, ckpt, late, L, BaseSeq, Generation)
  BY <1>1, IdleLoopIs DEF LeadOK
<1> QED
  BY <1>2, <1>3, <1>4, <1>5

LEMMA RequestEnds ==
    ASSUME NEW L, LogInv(L), NEW n \in Node, EndRequest(n),
           UNCHANGED <<vars, storeVars, view, replayed, ckpt, acked>>
    PROVE  LogInv(L)'
BY LoopStep, IdleLoopIs, IdleLoopOK DEF EndRequest

LEMMA LeaderLeads ==
    ASSUME NEW L, LogInv(L), NEW n \in Node, leader = n
    PROVE  pending = None /\ terms > 0
BY SharedLogAssumption DEF LogInv, LeadersInv

(* A loop's record with some of its fields replaced.                       *)
LEMMA LoopFields ==
    ASSUME NEW l0 \in Loops, NEW pc0 \in LoopPlaces, NEW g \in Nat, NEW b \in Nat,
           NEW e \in Seq(Commit)
    PROVE  [l0 EXCEPT !.gen = g, !.base = b, !.entries = e, !.pc = pc0] \in Loops
BY DEF Loops

(* No view and no base that may yet be committed reaches past the line.    *)
LEMMA ClaimsShort ==
    ASSUME NEW L, LogInv(L)
    PROVE  /\ \A n \in Node : Len(view[n].entries) <= Len(L)
           /\ Within(Len(L), ckpt, late, Generation)
<1>1. ASSUME NEW n \in Node PROVE Len(view[n].entries) <= Len(L)
  BY <1>1, NodeIs, StartIsShort DEF ViewOK, Views
<1>2. ASSUME NEW m \in Node, Claims(ckpt[m], Generation) PROVE ckpt[m].seq <= Len(L)
  BY <1>2, NodeIs, StartIsShort DEF CkptOK, Ckpts, Claims, Capturing
<1>3. ASSUME NEW p \in late, LateClaims(p, Generation) PROVE p.seq <= Len(L)
  BY <1>3 DEF LogInv, LateOK, LateClaims
<1> QED
  BY <1>1, <1>2, <1>3 DEF Within

LEMMA MayWriteKeeps ==
    ASSUME NEW L, LogInv(L), NEW n \in Node, MayWrite(n)
    PROVE  LogInv(L)'
<1> DEFINE l == [loop[n] EXCEPT !.pc = "stage"]
<1>1. /\ loop' = [loop EXCEPT ![n] = l]
      /\ UNCHANGED <<vars, storeVars, view, replayed, ckpt, acked>>
  BY DEF MayWrite, Goto
<1>2. /\ loop[n] \in Loops /\ view[n] \in Views /\ ckpt[n] \in Ckpts /\ replayed[n] \in Nat
      /\ terms \in Nat /\ MaxSeq \in Nat /\ Generation \in Nat /\ BaseSeq \in 0 .. MaxSeq
      /\ L \in Seq(Commit) /\ Len(L) \in 0 .. MaxSeq /\ BaseSeq <= Len(L)
      /\ TermsOK(n, loop[n], replayed[n], terms, pending, leader)
      /\ ViewOK(view[n], ckpt[n], L, BaseSeq, Generation)
      /\ PutOK(view[n], ckpt[n], loop[n], L, BaseSeq, Generation)
      /\ OpenOK(loop[n], L, BaseSeq, Generation)
      /\ leader = n => LeadOK(view[n], loop[n], replayed[n], terms, ckpt, late, L,
                              BaseSeq, Generation)
  BY NodeIs
<1>3. l \in Loops /\ l.pc = "stage" /\ l.term = loop[n].term /\ l.gen = loop[n].gen /\ l.base = loop[n].base
      /\ l.entries = loop[n].entries
  BY <1>2 DEF Loops, LoopPlaces
<1> HIDE DEF l
<1>4. TermsOK(n, l, replayed[n], terms, pending, leader)
  BY <1>2, <1>3 DEF MayWrite, TermsOK, Opening, Leads
<1>5. PutOK(view[n], ckpt[n], l, L, BaseSeq, Generation)
  BY <1>2, <1>3 DEF MayWrite, PutOK
<1>6. OpenOK(l, L, BaseSeq, Generation)
  BY <1>2, <1>3 DEF MayWrite, OpenOK
<1>7. leader = n => LeadOK(view[n], l, replayed[n], terms, ckpt, late, L, BaseSeq, Generation)
  BY <1>2, <1>3 DEF MayWrite, LeadOK
<1> QED
  BY <1>1, <1>3, <1>4, <1>5, <1>6, <1>7, LoopStep

LEMMA BeginOpenKeeps ==
    ASSUME NEW L, LogInv(L), NEW n \in Node, BeginOpen(n)
    PROVE  LogInv(L)'
<1> DEFINE l == [loop[n] EXCEPT !.pc = "base", !.term = terms]
<1>1. /\ loop' = [loop EXCEPT ![n] = l]
      /\ UNCHANGED <<vars, storeVars, view, replayed, ckpt, acked>>
  BY DEF BeginOpen
<1>2. /\ loop[n] \in Loops /\ view[n] \in Views /\ ckpt[n] \in Ckpts /\ replayed[n] \in Nat
      /\ terms \in Nat /\ MaxSeq \in Nat /\ Generation \in Nat /\ BaseSeq \in 0 .. MaxSeq
      /\ L \in Seq(Commit) /\ Len(L) \in 0 .. MaxSeq /\ BaseSeq <= Len(L)
      /\ TermsOK(n, loop[n], replayed[n], terms, pending, leader)
      /\ ViewOK(view[n], ckpt[n], L, BaseSeq, Generation)
      /\ PutOK(view[n], ckpt[n], loop[n], L, BaseSeq, Generation)
      /\ OpenOK(loop[n], L, BaseSeq, Generation)
      /\ leader = n => LeadOK(view[n], loop[n], replayed[n], terms, ckpt, late, L,
                              BaseSeq, Generation)
  BY NodeIs
<1>3. l \in Loops /\ l.pc = "base" /\ l.term = terms /\ l.gen = loop[n].gen
      /\ l.entries = loop[n].entries
  BY <1>2 DEF Loops, LoopPlaces
<1> HIDE DEF l
<1>4. TermsOK(n, l, replayed[n], terms, pending, leader)
  BY <1>2, <1>3, LeaderLeads DEF BeginOpen, TermsOK, Opening, Leads
<1>5. PutOK(view[n], ckpt[n], l, L, BaseSeq, Generation)
  BY <1>2, <1>3 DEF BeginOpen, PutOK
<1>6. OpenOK(l, L, BaseSeq, Generation)
  BY <1>2, <1>3 DEF BeginOpen, OpenOK
<1>7. leader = n => LeadOK(view[n], l, replayed[n], terms, ckpt, late, L, BaseSeq, Generation)
  BY <1>2, <1>3 DEF BeginOpen, LeadOK
<1> QED
  BY <1>1, <1>3, <1>4, <1>5, <1>6, <1>7, LoopStep

LEMMA ReadBaseKeeps ==
    ASSUME NEW L, LogInv(L), NEW n \in Node, ReadBase(n)
    PROVE  LogInv(L)'
<1> DEFINE l == [loop[n] EXCEPT !.gen = Generation, !.base = BaseSeq, !.entries = <<>>,
                              !.pc = IF BaseSeq = 0 THEN "walk" ELSE "snapshot"]
<1>1. /\ loop' = [loop EXCEPT ![n] = l]
      /\ UNCHANGED <<vars, storeVars, view, replayed, ckpt, acked>>
  BY DEF ReadBase
<1>2. /\ loop[n] \in Loops /\ view[n] \in Views /\ ckpt[n] \in Ckpts /\ replayed[n] \in Nat
      /\ terms \in Nat /\ MaxSeq \in Nat /\ Generation \in Nat /\ BaseSeq \in 0 .. MaxSeq
      /\ L \in Seq(Commit) /\ Len(L) \in 0 .. MaxSeq /\ BaseSeq <= Len(L)
      /\ TermsOK(n, loop[n], replayed[n], terms, pending, leader)
      /\ ViewOK(view[n], ckpt[n], L, BaseSeq, Generation)
      /\ PutOK(view[n], ckpt[n], loop[n], L, BaseSeq, Generation)
      /\ OpenOK(loop[n], L, BaseSeq, Generation)
      /\ leader = n => LeadOK(view[n], loop[n], replayed[n], terms, ckpt, late, L,
                              BaseSeq, Generation)
  BY NodeIs
<1>a. (IF BaseSeq = 0 THEN "walk" ELSE "snapshot") \in LoopPlaces /\ <<>> \in Seq(Commit)
      /\ BaseSeq \in Nat
  BY <1>2 DEF LoopPlaces
<1>3. l \in Loops
      /\ l.pc = (IF BaseSeq = 0 THEN "walk" ELSE "snapshot") /\ l.term = loop[n].term
      /\ l.gen = Generation /\ l.base = BaseSeq /\ l.entries = <<>>
  <2>1. l \in Loops
    BY <1>a, <1>2, LoopFields
  <2> QED
    BY <1>2, <2>1 DEF Loops
<1> HIDE DEF l
<1>4. TermsOK(n, l, replayed[n], terms, pending, leader)
  BY <1>2, <1>3 DEF ReadBase, TermsOK, Opening, Leads
<1>5. PutOK(view[n], ckpt[n], l, L, BaseSeq, Generation)
  BY <1>2, <1>3 DEF ReadBase, PutOK
<1>6. OpenOK(l, L, BaseSeq, Generation)
  BY <1>2, <1>3 DEF ReadBase, OpenOK, StartOf
<1>7. leader = n => LeadOK(view[n], l, replayed[n], terms, ckpt, late, L, BaseSeq, Generation)
  BY <1>2, <1>3 DEF ReadBase, LeadOK
<1> QED
  BY <1>1, <1>3, <1>4, <1>5, <1>6, <1>7, LoopStep

LEMMA ReadSnapshotKeeps ==
    ASSUME NEW L, LogInv(L), NEW n \in Node, ReadSnapshot(n)
    PROVE  LogInv(L)'
<1> DEFINE l == [loop[n] EXCEPT !.entries = snap[loop[n].base], !.pc = "walk"]
<1>1. /\ loop' = [loop EXCEPT ![n] = l]
      /\ UNCHANGED <<vars, storeVars, view, replayed, ckpt, acked>>
  BY DEF ReadSnapshot
<1>2. /\ loop[n] \in Loops /\ view[n] \in Views /\ ckpt[n] \in Ckpts /\ replayed[n] \in Nat
      /\ terms \in Nat /\ MaxSeq \in Nat /\ Generation \in Nat /\ BaseSeq \in 0 .. MaxSeq
      /\ L \in Seq(Commit) /\ Len(L) \in 0 .. MaxSeq /\ BaseSeq <= Len(L)
      /\ TermsOK(n, loop[n], replayed[n], terms, pending, leader)
      /\ ViewOK(view[n], ckpt[n], L, BaseSeq, Generation)
      /\ PutOK(view[n], ckpt[n], loop[n], L, BaseSeq, Generation)
      /\ OpenOK(loop[n], L, BaseSeq, Generation)
      /\ leader = n => LeadOK(view[n], loop[n], replayed[n], terms, ckpt, late, L,
                              BaseSeq, Generation)
  BY NodeIs
<1>a. /\ loop[n].base \in 1 .. MaxSeq /\ snap[loop[n].base] # None
      /\ snap[loop[n].base] \in Seq(Commit)
  <2>1. loop[n].base \in 1 .. MaxSeq /\ snap[loop[n].base] # None
    BY <1>2 DEF ReadSnapshot, OpenOK
  <2> QED
    BY <2>1 DEF LogInv, LogType
<1>3. l \in Loops /\ l.pc = "walk" /\ l.term = loop[n].term /\ l.gen = loop[n].gen
      /\ l.base = loop[n].base /\ l.entries = snap[loop[n].base]
  BY <1>a, <1>2 DEF Loops, LoopPlaces
<1> HIDE DEF l
<1>4. TermsOK(n, l, replayed[n], terms, pending, leader)
  BY <1>2, <1>3 DEF ReadSnapshot, TermsOK, Opening, Leads
<1>5. PutOK(view[n], ckpt[n], l, L, BaseSeq, Generation)
  BY <1>2, <1>3 DEF ReadSnapshot, PutOK
<1>6. OpenOK(l, L, BaseSeq, Generation)
  <2>2. l.gen = Generation => l.base = BaseSeq /\ Len(l.entries) = BaseSeq /\ StartOf(l.entries, L)
    <3> SUFFICES ASSUME l.gen = Generation
                 PROVE  l.base = BaseSeq /\ Len(l.entries) = BaseSeq /\ StartOf(l.entries, L)
      OBVIOUS
    <3>1. loop[n].base = BaseSeq
      BY <1>2, <1>3 DEF ReadSnapshot, OpenOK
    <3> QED
      BY <1>a, <1>2, <1>3, <3>1 DEF LogInv, IsLine
  <2> QED
    BY <1>2, <1>3, <2>2 DEF OpenOK
<1>7. leader = n => LeadOK(view[n], l, replayed[n], terms, ckpt, late, L, BaseSeq, Generation)
  BY <1>2, <1>3 DEF ReadSnapshot, LeadOK
<1> QED
  BY <1>1, <1>3, <1>4, <1>5, <1>6, <1>7, LoopStep

LEMMA WalkSegmentKeeps ==
    ASSUME NEW L, LogInv(L), NEW n \in Node, WalkSegment(n)
    PROVE  LogInv(L)'
<1> DEFINE e == Append(loop[n].entries, seg[Len(loop[n].entries)])
           l == [loop[n] EXCEPT !.entries = e]
<1>1. /\ loop' = [loop EXCEPT ![n] = l]
      /\ UNCHANGED <<vars, storeVars, view, replayed, ckpt, acked>>
  BY DEF WalkSegment
<1>2. /\ loop[n] \in Loops /\ view[n] \in Views /\ ckpt[n] \in Ckpts /\ replayed[n] \in Nat
      /\ terms \in Nat /\ MaxSeq \in Nat /\ Generation \in Nat /\ BaseSeq \in 0 .. MaxSeq
      /\ L \in Seq(Commit) /\ Len(L) \in 0 .. MaxSeq /\ BaseSeq <= Len(L)
      /\ TermsOK(n, loop[n], replayed[n], terms, pending, leader)
      /\ ViewOK(view[n], ckpt[n], L, BaseSeq, Generation)
      /\ PutOK(view[n], ckpt[n], loop[n], L, BaseSeq, Generation)
      /\ OpenOK(loop[n], L, BaseSeq, Generation)
      /\ leader = n => LeadOK(view[n], loop[n], replayed[n], terms, ckpt, late, L,
                              BaseSeq, Generation)
  BY NodeIs
<1>a. /\ loop[n].pc = "walk" /\ loop[n].entries \in Seq(Commit)
      /\ Len(loop[n].entries) \in 0 .. MaxSeq - 1
      /\ seg[Len(loop[n].entries)] \in Commit
  <2>1. loop[n].pc = "walk" /\ loop[n].entries \in Seq(Commit)
    BY <1>2 DEF WalkSegment, Loops
  <2>2. /\ Len(loop[n].entries) \in 0 .. MaxSeq - 1
        /\ seg[Len(loop[n].entries)] # None
    BY <1>2, <2>1 DEF WalkSegment, Present
  <2> QED
    BY <2>1, <2>2 DEF LogInv, LogType
<1>3. l \in Loops /\ l.pc = "walk" /\ l.term = loop[n].term /\ l.gen = loop[n].gen
      /\ l.base = loop[n].base
      /\ l.entries = Append(loop[n].entries, seg[Len(loop[n].entries)])
  <2>1. e \in Seq(Commit)
    BY <1>a
  <2> HIDE DEF e
  <2>2. l \in Loops
    BY <1>2, <2>1 DEF Loops
  <2>3. l.entries = e
    BY <1>2 DEF Loops
  <2> QED
    BY <1>a, <1>2, <2>2, <2>3 DEF Loops, e
<1> HIDE DEF l
<1>4. TermsOK(n, l, replayed[n], terms, pending, leader)
  BY <1>2, <1>3 DEF WalkSegment, TermsOK, Opening, Leads
<1>5. PutOK(view[n], ckpt[n], l, L, BaseSeq, Generation)
  BY <1>2, <1>3 DEF WalkSegment, PutOK
<1>6. OpenOK(l, L, BaseSeq, Generation)
  <2>1. l.gen = Generation => StartOf(l.entries, L) /\ BaseSeq <= Len(l.entries)
    <3> SUFFICES ASSUME l.gen = Generation
                 PROVE  StartOf(l.entries, L) /\ BaseSeq <= Len(l.entries)
      OBVIOUS
    <3>1. StartOf(loop[n].entries, L) /\ BaseSeq <= Len(loop[n].entries)
      BY <1>a, <1>2, <1>3 DEF OpenOK
    <3>2. Len(loop[n].entries) < Len(L)
      BY SMTT(30), <1>a, <1>2, SharedLogAssumption DEF LogInv, IsLine
    <3>3. seg[Len(loop[n].entries)] = L[Len(loop[n].entries) + 1]
      BY <1>a, <1>2, <3>1, <3>2 DEF LogInv, IsLine
    <3> QED
      BY <1>a, <1>2, <1>3, <3>1, <3>2, <3>3 DEF StartOf
  <2> QED
    BY <1>a, <1>2, <1>3, <2>1 DEF OpenOK
<1>7. leader = n => LeadOK(view[n], l, replayed[n], terms, ckpt, late, L, BaseSeq, Generation)
  BY <1>2, <1>3 DEF WalkSegment, LeadOK
<1> QED
  BY <1>1, <1>3, <1>4, <1>5, <1>6, <1>7, LoopStep

LEMMA WalkEndKeeps ==
    ASSUME NEW L, LogInv(L), NEW n \in Node, WalkEnd(n)
    PROVE  LogInv(L)'
<1> DEFINE l == [loop[n] EXCEPT !.pc = "recheck"]
<1>1. /\ loop' = [loop EXCEPT ![n] = l]
      /\ UNCHANGED <<vars, storeVars, view, replayed, ckpt, acked>>
  BY DEF WalkEnd, Goto
<1>2. /\ loop[n] \in Loops /\ view[n] \in Views /\ ckpt[n] \in Ckpts /\ replayed[n] \in Nat
      /\ terms \in Nat /\ MaxSeq \in Nat /\ Generation \in Nat /\ BaseSeq \in 0 .. MaxSeq
      /\ L \in Seq(Commit) /\ Len(L) \in 0 .. MaxSeq /\ BaseSeq <= Len(L)
      /\ TermsOK(n, loop[n], replayed[n], terms, pending, leader)
      /\ ViewOK(view[n], ckpt[n], L, BaseSeq, Generation)
      /\ PutOK(view[n], ckpt[n], loop[n], L, BaseSeq, Generation)
      /\ OpenOK(loop[n], L, BaseSeq, Generation)
      /\ leader = n => LeadOK(view[n], loop[n], replayed[n], terms, ckpt, late, L,
                              BaseSeq, Generation)
  BY NodeIs
<1>a. loop[n].pc = "walk" /\ loop[n].entries \in Seq(Commit) /\ ~Present(Len(loop[n].entries))
  BY <1>2 DEF WalkEnd, Loops
<1>3. l \in Loops /\ l.pc = "recheck" /\ l.term = loop[n].term /\ l.gen = loop[n].gen /\ l.base = loop[n].base
      /\ l.entries = loop[n].entries
  BY <1>2 DEF Loops, LoopPlaces
<1> HIDE DEF l
<1>4. TermsOK(n, l, replayed[n], terms, pending, leader)
  BY <1>2, <1>3 DEF WalkEnd, TermsOK, Opening, Leads
<1>5. PutOK(view[n], ckpt[n], l, L, BaseSeq, Generation)
  BY <1>2, <1>3 DEF WalkEnd, PutOK
<1>6. OpenOK(l, L, BaseSeq, Generation)
  BY <1>2, <1>3 DEF WalkEnd, OpenOK
<1>7. leader = n => LeadOK(view[n], l, replayed[n], terms, ckpt, late, L, BaseSeq, Generation)
  <2> SUFFICES ASSUME leader = n
               PROVE  LeadOK(view[n], l, replayed[n], terms, ckpt, late, L, BaseSeq, Generation)
    OBVIOUS
  <2>1. ASSUME loop[n].gen = Generation
        PROVE  Len(l.entries) = Len(L)
    <3>1. StartOf(loop[n].entries, L) /\ BaseSeq <= Len(loop[n].entries)
      BY <1>a, <1>2, <2>1 DEF OpenOK
    <3>2. CASE Len(loop[n].entries) < Len(L)
      <4>1. /\ Len(loop[n].entries) \in 0 .. MaxSeq - 1
            /\ seg[Len(loop[n].entries)] = L[Len(loop[n].entries) + 1]
        BY <1>a, <1>2, <3>1, <3>2 DEF LogInv, IsLine
      <4>2. L[Len(loop[n].entries) + 1] \in Commit
        BY <1>a, <1>2, <3>2
      <4> QED
        BY <1>a, <1>2, <4>1, <4>2, SharedLogAssumption DEF Present
    <3> QED
      BY <1>a, <1>2, <1>3, <3>1, <3>2 DEF StartOf
  <2>2. Len(view[n].entries) <= Len(L) /\ Within(Len(L), ckpt, late, Generation)
    BY ClaimsShort, <1>2
  <2> QED
    BY <1>2, <1>3, <2>1, <2>2 DEF LeadOK
<1> QED
  BY <1>1, <1>3, <1>4, <1>5, <1>6, <1>7, LoopStep

LEMMA RewalkKeeps ==
    ASSUME NEW L, LogInv(L), NEW n \in Node, Rewalk(n)
    PROVE  LogInv(L)'
<1> DEFINE l == [loop[n] EXCEPT !.pc = "base"]
<1>1. /\ loop' = [loop EXCEPT ![n] = l]
      /\ UNCHANGED <<vars, storeVars, view, replayed, ckpt, acked>>
  BY DEF Rewalk, Goto
<1>2. /\ loop[n] \in Loops /\ view[n] \in Views /\ ckpt[n] \in Ckpts /\ replayed[n] \in Nat
      /\ terms \in Nat /\ MaxSeq \in Nat /\ Generation \in Nat /\ BaseSeq \in 0 .. MaxSeq
      /\ L \in Seq(Commit) /\ Len(L) \in 0 .. MaxSeq /\ BaseSeq <= Len(L)
      /\ TermsOK(n, loop[n], replayed[n], terms, pending, leader)
      /\ ViewOK(view[n], ckpt[n], L, BaseSeq, Generation)
      /\ PutOK(view[n], ckpt[n], loop[n], L, BaseSeq, Generation)
      /\ OpenOK(loop[n], L, BaseSeq, Generation)
      /\ leader = n => LeadOK(view[n], loop[n], replayed[n], terms, ckpt, late, L,
                              BaseSeq, Generation)
  BY NodeIs
<1>3. l \in Loops /\ l.pc = "base" /\ l.term = loop[n].term /\ l.gen = loop[n].gen /\ l.base = loop[n].base
      /\ l.entries = loop[n].entries
  BY <1>2 DEF Loops, LoopPlaces
<1> HIDE DEF l
<1>4. TermsOK(n, l, replayed[n], terms, pending, leader)
  BY <1>2, <1>3 DEF Rewalk, TermsOK, Opening, Leads
<1>5. PutOK(view[n], ckpt[n], l, L, BaseSeq, Generation)
  BY <1>2, <1>3 DEF Rewalk, PutOK
<1>6. OpenOK(l, L, BaseSeq, Generation)
  BY <1>2, <1>3 DEF Rewalk, OpenOK
<1>7. leader = n => LeadOK(view[n], l, replayed[n], terms, ckpt, late, L, BaseSeq, Generation)
  BY <1>2, <1>3 DEF Rewalk, LeadOK
<1> QED
  BY <1>1, <1>3, <1>4, <1>5, <1>6, <1>7, LoopStep

LEMMA JournalKeeps ==
    ASSUME NEW L, LogInv(L), NEW n \in Node, NEW c \in Commit, Journal(n, c)
    PROVE  LogInv(L)'
<1> DEFINE l == [loop[n] EXCEPT !.pc = "put", !.commit = c]
<1>1. /\ loop' = [loop EXCEPT ![n] = l]
      /\ UNCHANGED <<vars, storeVars, view, replayed, ckpt, acked>>
  BY DEF Journal
<1>2. /\ loop[n] \in Loops /\ view[n] \in Views /\ ckpt[n] \in Ckpts /\ replayed[n] \in Nat
      /\ terms \in Nat /\ MaxSeq \in Nat /\ Generation \in Nat /\ BaseSeq \in 0 .. MaxSeq
      /\ L \in Seq(Commit) /\ Len(L) \in 0 .. MaxSeq /\ BaseSeq <= Len(L)
      /\ TermsOK(n, loop[n], replayed[n], terms, pending, leader)
      /\ ViewOK(view[n], ckpt[n], L, BaseSeq, Generation)
      /\ PutOK(view[n], ckpt[n], loop[n], L, BaseSeq, Generation)
      /\ OpenOK(loop[n], L, BaseSeq, Generation)
      /\ leader = n => LeadOK(view[n], loop[n], replayed[n], terms, ckpt, late, L,
                              BaseSeq, Generation)
  BY NodeIs
<1>3. l \in Loops /\ l.pc = "put" /\ l.commit = c /\ l.term = loop[n].term /\ l.gen = loop[n].gen /\ l.base = loop[n].base
      /\ l.entries = loop[n].entries
  BY <1>2 DEF Loops, LoopPlaces
<1> HIDE DEF l
<1>4. TermsOK(n, l, replayed[n], terms, pending, leader)
  BY <1>2, <1>3 DEF Journal, TermsOK, Opening, Leads
<1>5. PutOK(view[n], ckpt[n], l, L, BaseSeq, Generation)
  BY <1>2, <1>3 DEF Journal, PutOK, LeadOK, TermsOK, Leads
<1>6. OpenOK(l, L, BaseSeq, Generation)
  BY <1>2, <1>3 DEF Journal, OpenOK
<1>7. leader = n => LeadOK(view[n], l, replayed[n], terms, ckpt, late, L, BaseSeq, Generation)
  BY <1>2, <1>3 DEF Journal, LeadOK
<1> QED
  BY <1>1, <1>3, <1>4, <1>5, <1>6, <1>7, LoopStep

-----------------------------------------------------------------------------
(* Whatever a node may let go of: its request, its checkpoint, its view,   *)
(* its term; with its PUTs lost or left in flight.                         *)

LEMMA IdleCkptIs ==
    IdleCkpt \in Ckpts /\ IdleCkpt.pc = "idle"
BY DEF IdleCkpt, Ckpts, CkptPlaces, Retired

LEMMA NoViewIs ==
    NoView \in Views /\ NoView.entries = <<>> /\ NoView.gen = 0 /\ NoView.base = 0
BY DEF NoView, Views

(* A view whose checkpoint stops is as sound as it was.                    *)
LEMMA NodeStops ==
    ASSUME NEW L, NEW v \in Views, NEW k \in Ckpts, NEW l \in Loops,
           NEW B \in Nat, NEW G \in Nat, NEW sn, NEW bs, NodeOK(v, k, l, L, B, G, sn, bs)
    PROVE  NodeOK(v, IdleCkpt, l, L, B, G, sn, bs)
<1>1. ViewGen(v, IdleCkpt) = v.gen /\ ViewBase(v, IdleCkpt) = v.base /\ v.gen \in Nat
  BY IdleCkptIs DEF ViewGen, ViewBase, Committing, Views
<1>2. CkptOK(IdleCkpt, v, L, B, G, sn, bs)
  BY IdleCkptIs DEF CkptOK, Capturing
<1>3. CASE ~Committing(k)
  <2>1. ViewGen(v, k) = v.gen /\ ViewBase(v, k) = v.base
    BY <1>3 DEF ViewGen, ViewBase
  <2> QED
    BY <1>1, <1>2, <2>1 DEF NodeOK, ViewOK, PutOK
<1>4. CASE Committing(k)
  <2>1. v.gen < ViewGen(v, k) /\ ViewGen(v, k) <= G /\ ViewGen(v, k) \in Nat
    BY <1>1, <1>4 DEF ViewGen, Committing, NodeOK, CkptOK, ViewOK, Ckpts
  <2>2. \A e : Sound(e, ViewGen(v, k), L, B, G) => Sound(e, v.gen, L, B, G)
    BY <1>1, <2>1 DEF Sound
  <2>3. ViewOK(v, IdleCkpt, L, B, G)
    BY <1>1, <2>1, <2>2 DEF NodeOK, ViewOK
  <2>4. PutOK(v, IdleCkpt, l, L, B, G)
    BY <1>1, <2>2 DEF NodeOK, PutOK
  <2> QED
    BY <1>2, <2>3, <2>4 DEF NodeOK
<1> QED
  BY <1>3, <1>4

LEMMA NodeIdles ==
    ASSUME NEW L, NEW v \in Views, NEW k \in Ckpts, NEW l \in Loops,
           NEW B \in Nat, NEW G \in Nat, NEW sn, NEW bs, NodeOK(v, k, l, L, B, G, sn, bs)
    PROVE  NodeOK(v, k, IdleLoop, L, B, G, sn, bs)
BY IdleLoopIs DEF NodeOK, PutOK, OpenOK

LEMMA NodeRestarts ==
    ASSUME NEW L \in Seq(Commit), NEW B \in Nat, NEW G \in Nat, NEW sn, NEW bs, G = 0 => B = 0
    PROVE  NodeOK(NoView, IdleCkpt, IdleLoop, L, B, G, sn, bs)
<1>1. ViewGen(NoView, IdleCkpt) = 0 /\ ViewBase(NoView, IdleCkpt) = 0
  BY IdleCkptIs, NoViewIs DEF ViewGen, ViewBase, Committing
<1>2. Sound(NoView.entries, 0, L, B, G)
  BY NoViewIs DEF Sound, StartOf
<1>3. ViewOK(NoView, IdleCkpt, L, B, G)
  BY <1>1, <1>2, NoViewIs, MaxSeqNat DEF ViewOK
<1> QED
  BY <1>3, IdleLoopIs, IdleCkptIs DEF NodeOK, PutOK, OpenOK, CkptOK, Capturing

(* What is left in flight is as LateOK and the claims have it.             *)
LEMMA LeftBehind ==
    ASSUME NEW L, LogInv(L), NEW n \in Node, NEW p \in SegPut(n) \cup BasePut(n)
    PROVE  /\ p \in SegPuts \cup BasePuts
           /\ LateOK(p, L, BaseSeq, Generation, snap)
           /\ LateClaims(p, Generation) => Claims(ckpt[n], Generation) /\ p.seq = ckpt[n].seq
<1>1. /\ loop[n] \in Loops /\ view[n] \in Views /\ ckpt[n] \in Ckpts
      /\ MaxSeq \in Nat /\ Generation \in Nat
      /\ PutOK(view[n], ckpt[n], loop[n], L, BaseSeq, Generation)
      /\ CkptOK(ckpt[n], view[n], L, BaseSeq, Generation, snap, bases)
  BY NodeIs
<1>2. CASE p \in SegPut(n)
  <2>1. /\ loop[n].pc = "put"
        /\ p = [kind |-> "seg", key |-> Len(view[n].entries), commit |-> loop[n].commit]
    BY <1>2 DEF SegPut
  <2>2. Len(view[n].entries) \in 0 .. MaxSeq - 1 /\ loop[n].commit \in Commit
        /\ Len(view[n].entries) <= Len(L)
    BY <1>1, <2>1, ClaimsShort DEF PutOK, Views
  <2> QED
    BY <2>1, <2>2 DEF SegPuts, LateOK, LateClaims
<1>3. CASE p \in BasePut(n)
  <2>1. /\ ckpt[n].pc = "base"
        /\ p = [kind |-> "base", key |-> ckpt[n].gen, seq |-> ckpt[n].seq, commit |-> None]
    BY <1>3 DEF BasePut
  <2>2. ckpt[n].seq \in 1 .. MaxSeq /\ ckpt[n].gen \in Nat /\ ckpt[n].gen <= Generation
    BY <1>1, <2>1 DEF CkptOK, Ckpts, Capturing
  <2>3. ckpt[n].gen = Generation =>
            /\ BaseSeq < ckpt[n].seq /\ snap[ckpt[n].seq] # None /\ ckpt[n].seq <= Len(L)
    BY <1>1, <2>1, ClaimsShort DEF CkptOK, Capturing, Within, Claims
  <2> QED
    BY <2>1, <2>2, <2>3 DEF BasePuts, LateOK, LateClaims, Claims, Capturing
<1> QED
  BY <1>2, <1>3

LEMMA GiveUp ==
    ASSUME NEW L, LogInv(L), NEW n \in Node,
           NEW v \in {view[n], NoView}, NEW k \in {ckpt[n], IdleCkpt},
           NEW l \in {loop[n], IdleLoop}, NEW r \in {replayed[n], 0},
           view' = [view EXCEPT ![n] = v], ckpt' = [ckpt EXCEPT ![n] = k],
           loop' = [loop EXCEPT ![n] = l], replayed' = [replayed EXCEPT ![n] = r],
           late \subseteq late', late' \subseteq late \cup SegPut(n) \cup BasePut(n),
           k = ckpt[n] => late' \subseteq late \cup SegPut(n),
           r # replayed[n] => l = IdleLoop,
           v # view[n] => l = IdleLoop /\ k = IdleCkpt /\ leader' # n,
           leader' \in {leader, None}, pending' \in {pending, None},
           UNCHANGED <<terms, seg, bases, snap, acked>>
    PROVE  LogInv(L)'
<1>1. BaseSeq' = BaseSeq /\ Generation' = Generation
  BY BasesKept
<1>2. /\ Generation \in Nat /\ BaseSeq \in Nat /\ (Generation = 0 => BaseSeq = 0) /\ L \in Seq(Commit)
      /\ terms \in Nat
  <2>1. bases \in Seq(1 .. MaxSeq)
    BY DEF LogInv, LogType
  <2> QED
    BY <2>1, BaseType, NodeIs, MaxSeqNat
<1>3. /\ view[n] \in Views /\ ckpt[n] \in Ckpts /\ loop[n] \in Loops /\ replayed[n] \in Nat
      /\ NodeOK(view[n], ckpt[n], loop[n], L, BaseSeq, Generation, snap, bases)
      /\ TermsOK(n, loop[n], replayed[n], terms, pending, leader)
  BY DEF LogInv, LogType
<1>4. v \in Views /\ k \in Ckpts /\ l \in Loops /\ r \in Nat
  BY <1>3, NoViewIs, IdleCkptIs, IdleLoopIs
<1>5. /\ view'[n] = v /\ ckpt'[n] = k /\ loop'[n] = l /\ replayed'[n] = r
      /\ \A m \in Node : m # n => /\ view'[m] = view[m] /\ ckpt'[m] = ckpt[m]
                                  /\ loop'[m] = loop[m] /\ replayed'[m] = replayed[m]
  BY DEF LogInv, LogType
<1>6. \A p \in late' : p \in late \/ p \in SegPut(n) \cup BasePut(n)
  OBVIOUS
<1>7. LogType'
  <2>1. late' \subseteq SegPuts \cup BasePuts
    BY <1>6, LeftBehind DEF LogInv, LogType
  <2> QED
    BY <1>4, <2>1 DEF LogInv, LogType
<1>8. LeadersInv'
  BY DEF LogInv, LeadersInv
<1>9. IsLine(L, seg', snap', BaseSeq')
  BY <1>1 DEF LogInv
<1>10. \A m \in Node : TermsOK(m, loop'[m], replayed'[m], terms', pending', leader')
  <2>1. TermsOK(n, l, r, terms, pending', leader')
    <3>1. pending # None => terms > 0
      BY <1>2, <1>3 DEF TermsOK
    <3>2. leader' = n => leader = n
      BY SharedLogAssumption
    <3>3. CASE l = IdleLoop
      BY <1>2, <1>3, <3>1, <3>3, IdleLoopIs DEF TermsOK, Opening
    <3>4. CASE l = loop[n] /\ r = replayed[n]
      BY <1>3, <3>2, <3>4 DEF TermsOK
    <3> QED
      BY <3>3, <3>4
  <2>2. \A m \in Node : leader' = m => leader = m
    BY SharedLogAssumption
  <2>3. ASSUME NEW m \in Node, m # n
        PROVE  TermsOK(m, loop[m], replayed[m], terms, pending', leader')
    BY <2>2 DEF LogInv, TermsOK
  <2> QED
    BY <1>5, <2>1, <2>3
<1>11. \A m \in Node : NodeOK(view'[m], ckpt'[m], loop'[m], L, BaseSeq', Generation', snap', bases')
  <2>1. NodeOK(view[n], k, loop[n], L, BaseSeq, Generation, snap, bases)
    BY <1>2, <1>3, NodeStops
  <2>2. NodeOK(view[n], k, l, L, BaseSeq, Generation, snap, bases)
    BY <1>2, <1>3, <1>4, <2>1, NodeIdles
  <2>3. NodeOK(v, k, l, L, BaseSeq, Generation, snap, bases)
    <3>1. CASE v = view[n]
      BY <2>2, <3>1
    <3>2. CASE v # view[n]
      BY <1>2, <3>2, NodeRestarts
    <3> QED
      BY <3>1, <3>2
  <2> QED
    BY <1>1, <1>5, <2>3 DEF LogInv
<1>12. \A p \in late' : LateOK(p, L, BaseSeq', Generation', snap')
  BY <1>1, <1>6, LeftBehind DEF LogInv
<1>13. \A x : Within(x, ckpt, late, Generation) => Within(x, ckpt', late', Generation)
  <2> SUFFICES ASSUME NEW x, Within(x, ckpt, late, Generation)
               PROVE  Within(x, ckpt', late', Generation)
    OBVIOUS
  <2>1. ASSUME NEW m \in Node, Claims(ckpt'[m], Generation) PROVE ckpt'[m].seq <= x
    <3>1. ckpt'[m] = ckpt[m]
      BY <1>5, <2>1, IdleCkptIs DEF Claims, Capturing
    <3> QED
      BY <2>1, <3>1 DEF Within
  <2>2. ASSUME NEW p \in late', LateClaims(p, Generation) PROVE p.seq <= x
    BY <1>6, <2>2, LeftBehind DEF Within
  <2> QED
    BY <2>1, <2>2 DEF Within
<1>14. \A m \in Node : leader' = m =>
          LeadOK(view'[m], loop'[m], replayed'[m], terms', ckpt', late', L, BaseSeq', Generation')
  <2> SUFFICES ASSUME NEW m \in Node, leader' = m
               PROVE  LeadOK(view'[m], loop'[m], replayed'[m], terms', ckpt', late', L,
                             BaseSeq', Generation')
    OBVIOUS
  <2>1. leader = m
    BY SharedLogAssumption
  <2>2. LeadOK(view[m], loop[m], replayed[m], terms, ckpt, late, L, BaseSeq, Generation)
    BY <2>1 DEF LogInv
  <2>3. LeadOK(view[m], loop[m], replayed[m], terms, ckpt', late', L, BaseSeq, Generation)
    BY <1>13, <2>2 DEF LeadOK
  <2>4. view'[m] = view[m]
    BY <1>5
  <2>5. terms > 0
    BY <2>1, LeaderLeads
  <2>6. LeadOK(view[m], loop'[m], replayed'[m], terms, ckpt', late', L, BaseSeq, Generation)
    BY <1>5, <2>3, <2>5, IdleLoopIs DEF LeadOK
  <2> QED
    BY <1>1, <2>4, <2>6
<1> QED
  BY <1>7, <1>8, <1>9, <1>10, <1>11, <1>12, <1>14 DEF LogInv

(* What Leave may add.                                                     *)
LEMMA LeaveAdds ==
    ASSUME NEW ps, Leave(ps)
    PROVE  late \subseteq late' /\ late' \subseteq late \cup ps
BY DEF Leave

(* A node's four records, updated to what they are.                        *)
LEMMA SameRecords ==
    ASSUME LogType, NEW n \in Node
    PROVE  /\ view = [view EXCEPT ![n] = view[n]] /\ ckpt = [ckpt EXCEPT ![n] = ckpt[n]]
           /\ loop = [loop EXCEPT ![n] = loop[n]] /\ replayed = [replayed EXCEPT ![n] = replayed[n]]
BY DEF LogType

(* A request that fails, whatever becomes of its PUT.                      *)
LEMMA RequestErrsKeeps ==
    ASSUME NEW L, LogInv(L), NEW n \in Node, RequestErrs(n)
    PROVE  LogInv(L)'
<1>1. LogType
  BY DEF LogInv
<1>2. late \subseteq late' /\ late' \subseteq late \cup SegPut(n)
  BY LeaveAdds DEF RequestErrs
<1>3. /\ view' = [view EXCEPT ![n] = view[n]] /\ ckpt' = [ckpt EXCEPT ![n] = ckpt[n]]
      /\ loop' = [loop EXCEPT ![n] = IdleLoop]
      /\ replayed' = [replayed EXCEPT ![n] = replayed[n]]
      /\ UNCHANGED <<terms, pending, leader, seg, bases, snap, acked>>
  BY <1>1, SameRecords DEF RequestErrs, EndRequest, vars
<1> QED
  BY <1>2, <1>3, GiveUp

(* A refused append: the loop forgets that it has replayed.                *)
LEMMA AppendRefusedKeeps ==
    ASSUME NEW L, LogInv(L), NEW n \in Node, AppendRefused(n)
    PROVE  LogInv(L)'
<1>1. LogType
  BY DEF LogInv
<1>3. /\ view' = [view EXCEPT ![n] = view[n]] /\ ckpt' = [ckpt EXCEPT ![n] = ckpt[n]]
      /\ loop' = [loop EXCEPT ![n] = IdleLoop]
      /\ replayed' = [replayed EXCEPT ![n] = 0]
      /\ UNCHANGED <<terms, pending, leader, seg, bases, snap, late, acked>>
  BY <1>1, SameRecords DEF AppendRefused, EndRequest, vars, storeVars
<1> QED
  BY <1>3, GiveUp

(* A checkpoint that ends, for whatever reason.                            *)
LEMMA CkptEnds ==
    ASSUME NEW L, LogInv(L), NEW n \in Node, CkptEnd(n), Leave(BasePut(n)),
           UNCHANGED <<vars, seg, bases, snap, view, replayed, loop, acked>>
    PROVE  LogInv(L)'
<1>1. LogType
  BY DEF LogInv
<1>2. late \subseteq late' /\ late' \subseteq late \cup BasePut(n)
  BY LeaveAdds
<1>3. /\ view' = [view EXCEPT ![n] = view[n]] /\ ckpt' = [ckpt EXCEPT ![n] = IdleCkpt]
      /\ loop' = [loop EXCEPT ![n] = loop[n]]
      /\ replayed' = [replayed EXCEPT ![n] = replayed[n]]
      /\ UNCHANGED <<terms, pending, leader, seg, bases, snap, acked>>
  BY <1>1, SameRecords DEF CkptEnd, vars
<1>4. IdleCkpt = ckpt[n] => BasePut(n) = {}
  BY IdleCkptIs DEF BasePut
<1> QED
  BY <1>2, <1>3, <1>4, GiveUp

LEMMA CkptEndsQuietly ==
    ASSUME NEW L, LogInv(L), NEW n \in Node, CkptEnd(n),
           UNCHANGED <<vars, storeVars, view, replayed, loop, acked>>
    PROVE  LogInv(L)'
BY CkptEnds DEF Leave, storeVars

(* A process that stops.                                                   *)
LEMMA RestartKeeps ==
    ASSUME NEW L, LogInv(L), NEW n \in Node, Restart(n)
    PROVE  LogInv(L)'
<1>2. late \subseteq late' /\ late' \subseteq late \cup SegPut(n) \cup BasePut(n)
  BY LeaveAdds DEF Restart
<1>3. /\ view' = [view EXCEPT ![n] = NoView] /\ ckpt' = [ckpt EXCEPT ![n] = IdleCkpt]
      /\ loop' = [loop EXCEPT ![n] = IdleLoop]
      /\ replayed' = [replayed EXCEPT ![n] = 0]
      /\ leader' \in {leader, None} /\ pending' \in {pending, None} /\ leader' # n
      /\ UNCHANGED <<terms, seg, bases, snap, acked>>
  BY SharedLogAssumption DEF Restart, CkptEnd, EndRequest
<1>4. IdleCkpt = ckpt[n] => BasePut(n) = {}
  BY IdleCkptIs DEF BasePut
<1> QED
  BY <1>2, <1>3, <1>4, GiveUp

(* A lease that is forfeited or lapses.                                    *)
LEMMA LeaseLost ==
    ASSUME NEW L, LogInv(L), Forfeit \/ Lapse, UNCHANGED logVars
    PROVE  LogInv(L)'
<1>1. LogType
  BY DEF LogInv
<1>2. CASE \E n \in Node : TRUE
  <2> PICK n \in Node : TRUE
    BY <1>2
  <2>3. /\ view' = [view EXCEPT ![n] = view[n]] /\ ckpt' = [ckpt EXCEPT ![n] = ckpt[n]]
        /\ loop' = [loop EXCEPT ![n] = loop[n]]
        /\ replayed' = [replayed EXCEPT ![n] = replayed[n]]
        /\ leader' \in {leader, None} /\ pending' \in {pending, None}
        /\ UNCHANGED <<terms, seg, bases, snap, late, acked>>
    BY <1>1, SameRecords DEF Forfeit, Lapse, logVars, storeVars
  <2> QED
    BY <2>3, GiveUp
<1>3. CASE ~\E n \in Node : TRUE
  <2>1. leader = None /\ pending = None
    BY <1>1, <1>3 DEF LogType
  <2> QED
    BY <2>1 DEF Forfeit, Lapse
<1> QED
  BY <1>2, <1>3

-----------------------------------------------------------------------------
(* A term that begins.                                                     *)

LEMMA CreateKeeps ==
    ASSUME NEW L, LogInv(L), NEW n \in Node, Create(n), UNCHANGED logVars
    PROVE  LogInv(L)'
<1>1. /\ leader = None /\ leader' = None /\ terms' = terms + 1 /\ pending' = n
      /\ UNCHANGED <<seg, bases, snap, late, view, replayed, loop, ckpt, acked>>
  BY DEF Create, logVars, storeVars
<1>2. BaseSeq' = BaseSeq /\ Generation' = Generation
  BY <1>1, BasesKept
<1>3. LogType' /\ LeadersInv'
  BY <1>1 DEF LogInv, LogType, LeadersInv
<1>4. \A m \in Node : TermsOK(m, loop'[m], replayed'[m], terms', pending', leader')
  <2> SUFFICES ASSUME NEW m \in Node
               PROVE  TermsOK(m, loop[m], replayed[m], terms + 1, n, None)
    BY <1>1
  <2>1. /\ loop[m] \in Loops /\ replayed[m] \in Nat /\ terms \in Nat
        /\ TermsOK(m, loop[m], replayed[m], terms, pending, leader)
    BY NodeIs
  <2>2. loop[m].term \in Nat
    BY <2>1 DEF Loops
  <2> QED
    BY <2>1, <2>2, SharedLogAssumption DEF TermsOK
<1> QED
  BY <1>1, <1>2, <1>3, <1>4, SharedLogAssumption DEF LogInv

LEMMA LeadKeeps ==
    ASSUME NEW L, LogInv(L), NEW n \in Node, loop[n].pc = "idle", Lead(n), UNCHANGED logVars
    PROVE  LogInv(L)'
<1>1. /\ pending = n /\ leader = None /\ leader' = n /\ terms' = terms /\ pending' = None
      /\ UNCHANGED <<seg, bases, snap, late, view, replayed, loop, ckpt, acked>>
  BY DEF Lead, logVars, storeVars
<1>2. BaseSeq' = BaseSeq /\ Generation' = Generation
  BY <1>1, BasesKept
<1>a. pending # None
  BY <1>1, SharedLogAssumption
<1>b. terms > 0 /\ replayed[n] # terms
  BY <1>a, NodeIs DEF TermsOK
<1>3. LogType' /\ LeadersInv'
  BY <1>1, <1>b DEF LogInv, LogType, LeadersInv
<1>4. \A m \in Node : TermsOK(m, loop'[m], replayed'[m], terms', pending', leader')
  <2> SUFFICES ASSUME NEW m \in Node
               PROVE  TermsOK(m, loop[m], replayed[m], terms, None, n)
    BY <1>1
  <2>1. TermsOK(m, loop[m], replayed[m], terms, pending, leader)
    BY NodeIs
  <2> QED
    BY <2>1 DEF TermsOK, Opening
<1>5. LeadOK(view[n], loop[n], replayed[n], terms, ckpt, late, L, BaseSeq, Generation)
  BY <1>b DEF LeadOK
<1> QED
  BY <1>1, <1>2, <1>3, <1>4, <1>5 DEF LogInv

-----------------------------------------------------------------------------
(* Steps of a checkpoint task.                                             *)

(* A step of one checkpoint that leaves the bases as they are, adds no     *)
(* entry to its view, and claims no more than it did or, if its node       *)
(* leads, what the view holds.                                             *)
LEMMA CkptStep ==
    ASSUME NEW L, LogInv(L), NEW n \in Node, NEW k \in Ckpts, NEW v \in Views,
           v.entries = view[n].entries,
           view' = [view EXCEPT ![n] = v], ckpt' = [ckpt EXCEPT ![n] = k],
           UNCHANGED <<terms, pending, leader, bases, late, replayed, loop, acked>>,
           seg' \in [0 .. MaxSeq - 1 -> Commit \cup {None}],
           snap' \in [1 .. MaxSeq -> Seq(Commit) \cup {None}],
           IsLine(L, seg', snap', BaseSeq),
           \A s \in 1 .. MaxSeq : BaseSeq < s /\ snap[s] # None => snap'[s] # None,
           NodeOK(v, k, loop[n], L, BaseSeq, Generation, snap', bases),
           Claims(k, Generation) =>
               \/ Claims(ckpt[n], Generation) /\ k.seq = ckpt[n].seq
               \/ leader = n /\ k.seq = Len(view[n].entries)
    PROVE  LogInv(L)'
<1>1. BaseSeq' = BaseSeq /\ Generation' = Generation
  BY BasesKept
<1>2. /\ view'[n] = v /\ ckpt'[n] = k
      /\ \A m \in Node : m # n => view'[m] = view[m] /\ ckpt'[m] = ckpt[m]
  BY DEF LogInv, LogType
<1>3. Generation \in Nat /\ BaseSeq \in Nat /\ MaxSeq \in Nat
  BY NodeIs, MaxSeqNat
<1>4. LogType' /\ LeadersInv' /\ IsLine(L, seg', snap', BaseSeq')
  BY <1>1 DEF LogInv, LogType, LeadersInv
<1>5. \A m \in Node : TermsOK(m, loop'[m], replayed'[m], terms', pending', leader')
  BY DEF LogInv
<1>6. \A m \in Node : NodeOK(view'[m], ckpt'[m], loop'[m], L, BaseSeq', Generation', snap', bases')
  <2> SUFFICES ASSUME NEW m \in Node, m # n
               PROVE  NodeOK(view[m], ckpt[m], loop[m], L, BaseSeq, Generation, snap', bases)
    BY <1>1, <1>2
  <2>1. view[m] \in Views /\ ckpt[m] \in Ckpts /\ loop[m] \in Loops
    BY NodeIs
  <2>2. NodeOK(view[m], ckpt[m], loop[m], L, BaseSeq, Generation, snap, bases)
    BY DEF LogInv
  <2> QED
    BY <1>3, <2>1, <2>2, NodeSnapped
<1>7. \A p \in late' : LateOK(p, L, BaseSeq', Generation', snap')
  <2> SUFFICES ASSUME NEW p \in late
               PROVE  LateOK(p, L, BaseSeq, Generation, snap')
    BY <1>1
  <2>1. LateOK(p, L, BaseSeq, Generation, snap)
    BY DEF LogInv
  <2>2. p.kind = "base" => p.seq \in 1 .. MaxSeq
    BY DEF LogInv, LogType, SegPuts, BasePuts
  <2> QED
    BY <2>1, <2>2 DEF LateOK
<1>8. \A m \in Node : leader' = m =>
          LeadOK(view'[m], loop'[m], replayed'[m], terms', ckpt', late', L, BaseSeq', Generation')
  <2> SUFFICES ASSUME NEW m \in Node, leader = m
               PROVE  LeadOK(view'[m], loop[m], replayed[m], terms, ckpt', late, L,
                             BaseSeq, Generation)
    BY <1>1
  <2>1. LeadOK(view[m], loop[m], replayed[m], terms, ckpt, late, L, BaseSeq, Generation)
    BY DEF LogInv
  <2>2. view'[m].entries = view[m].entries
    BY <1>2
  <2>3. \A x : Len(view[m].entries) <= x /\ Within(x, ckpt, late, Generation) =>
                   Within(x, ckpt', late, Generation)
    <3> SUFFICES ASSUME NEW x, Len(view[m].entries) <= x, Within(x, ckpt, late, Generation),
                        NEW j \in Node, Claims(ckpt'[j], Generation)
                 PROVE  ckpt'[j].seq <= x
      BY DEF Within
    <3>1. CASE j # n
      BY <1>2, <3>1 DEF Within
    <3>2. CASE j = n
      BY <1>2, <3>2 DEF Within
    <3> QED
      BY <3>1, <3>2
  <2>4. Len(view[m].entries) <= Len(view[m].entries)
    BY NodeIs DEF Views
  <2> QED
    BY <2>1, <2>2, <2>3, <2>4 DEF LeadOK
<1> QED
  BY <1>1, <1>4, <1>5, <1>6, <1>7, <1>8 DEF LogInv

(* One that moves the task only.                                           *)
LEMMA CkptMoves ==
    ASSUME NEW L, LogInv(L), NEW n \in Node, NEW k \in Ckpts,
           ckpt' = [ckpt EXCEPT ![n] = k],
           UNCHANGED <<vars, storeVars, view, replayed, loop, acked>>,
           NodeOK(view[n], k, loop[n], L, BaseSeq, Generation, snap, bases),
           Claims(k, Generation) =>
               \/ Claims(ckpt[n], Generation) /\ k.seq = ckpt[n].seq
               \/ leader = n /\ k.seq = Len(view[n].entries)
    PROVE  LogInv(L)'
<1>1. LogType
  BY DEF LogInv
<1>2. view' = [view EXCEPT ![n] = view[n]] /\ view[n] \in Views
  BY <1>1, SameRecords, NodeIs
<1>3. UNCHANGED <<terms, pending, leader, seg, bases, snap, late, replayed, loop, acked>>
  BY DEF vars, storeVars
<1>4. /\ seg' \in [0 .. MaxSeq - 1 -> Commit \cup {None}]
      /\ snap' \in [1 .. MaxSeq -> Seq(Commit) \cup {None}]
  BY <1>1, <1>3 DEF LogType
<1>5. IsLine(L, seg', snap', BaseSeq)
  BY <1>3 DEF LogInv
<1> QED
  BY <1>2, <1>3, <1>4, <1>5, CkptStep

(* A task between checkpoints: nothing is known of it, nothing needed.     *)
LEMMA NodeArmed ==
    ASSUME NEW L, NEW v \in Views, NEW k \in Ckpts, NEW j \in Ckpts, NEW l,
           NEW B, NEW G, NEW sn, NEW bs, NodeOK(v, k, l, L, B, G, sn, bs),
           k.pc \in {"idle", "armed"}, j.pc \in {"idle", "armed"}
    PROVE  NodeOK(v, j, l, L, B, G, sn, bs) /\ ~Claims(j, G)
BY DEF NodeOK, ViewOK, PutOK, CkptOK, ViewGen, ViewBase, Committing, Capturing, Claims

LEMMA CkptHeldKeeps ==
    ASSUME NEW L, LogInv(L), NEW n \in Node, CkptHeld(n)
    PROVE  LogInv(L)'
<1> DEFINE k == [ckpt[n] EXCEPT !.pc = "armed"]
<1>1. /\ view[n] \in Views /\ ckpt[n] \in Ckpts
      /\ NodeOK(view[n], ckpt[n], loop[n], L, BaseSeq, Generation, snap, bases)
  BY NodeIs DEF LogInv
<1>2. k \in Ckpts /\ k.pc = "armed"
  BY <1>1 DEF Ckpts, CkptPlaces
<1>3. /\ ckpt' = [ckpt EXCEPT ![n] = k] /\ ckpt[n].pc = "idle"
      /\ UNCHANGED <<vars, storeVars, view, replayed, loop, acked>>
  BY DEF CkptHeld, CkptGoto
<1> HIDE DEF k
<1>4. NodeOK(view[n], k, loop[n], L, BaseSeq, Generation, snap, bases) /\ ~Claims(k, Generation)
  BY <1>1, <1>2, <1>3, NodeArmed
<1> QED
  BY <1>2, <1>3, <1>4, CkptMoves

(* What a task that captures the view then holds.                          *)
LEMMA CkptCaptureKeeps ==
    ASSUME ~CkptPauses, NEW L, LogInv(L), NEW n \in Node, CkptCapture(n)
    PROVE  LogInv(L)'
<1> DEFINE k == [pc |-> "snapshot", own |-> TRUE, seq |-> Len(view[n].entries), gen |-> view[n].gen,
                 base |-> view[n].base, tail |-> 0, entries |-> view[n].entries, retired |-> <<>>]
<1>1. /\ view[n] \in Views /\ ckpt[n] \in Ckpts /\ Generation \in Nat /\ MaxSeq \in Nat
      /\ BaseSeq \in Nat
      /\ ViewOK(view[n], ckpt[n], L, BaseSeq, Generation)
      /\ PutOK(view[n], ckpt[n], loop[n], L, BaseSeq, Generation)
      /\ OpenOK(loop[n], L, BaseSeq, Generation)
  BY NodeIs
<1>2. view[n].entries \in Seq(Commit) /\ view[n].gen \in Nat /\ view[n].base \in Nat
  BY <1>1 DEF Views
<1>3. k \in Ckpts
  BY <1>2 DEF Ckpts, CkptPlaces
<1>4. /\ k.pc = "snapshot" /\ k.own /\ k.seq = Len(view[n].entries) /\ k.gen = view[n].gen
      /\ k.base = view[n].base /\ k.entries = view[n].entries
  OBVIOUS
<1>5. /\ ckpt' = [ckpt EXCEPT ![n] = k] /\ ckpt[n].pc = "armed" /\ leader = n
      /\ view[n].entries # <<>> /\ Len(view[n].entries) # view[n].base
      /\ UNCHANGED <<vars, storeVars, view, replayed, loop, acked>>
  BY DEF CkptCapture, Leads
<1> HIDE DEF k
<1>6. /\ ViewGen(view[n], k) = view[n].gen /\ ViewBase(view[n], k) = view[n].base
      /\ ViewGen(view[n], ckpt[n]) = view[n].gen /\ ViewBase(view[n], ckpt[n]) = view[n].base
  BY <1>4, <1>5 DEF ViewGen, ViewBase, Committing
<1>7. ViewOK(view[n], k, L, BaseSeq, Generation) /\ PutOK(view[n], k, loop[n], L, BaseSeq, Generation)
  BY <1>1, <1>6 DEF ViewOK, PutOK
<1>8. k.seq \in 1 .. MaxSeq /\ k.base < k.seq
  BY <1>1, <1>2, <1>4, <1>5, <1>7 DEF ViewOK
<1>9. CkptOK(k, view[n], L, BaseSeq, Generation, snap, bases)
  BY <1>1, <1>2, <1>4, <1>6, <1>8 DEF CkptOK, Capturing, ViewOK
<1> QED
  BY <1>1, <1>3, <1>4, <1>5, <1>7, <1>9, CkptMoves DEF NodeOK

(* The tail is found to be the tail.                                       *)
LEMMA CkptTailKeeps ==
    ASSUME NEW L, LogInv(L), NEW n \in Node, CkptTail(n)
    PROVE  LogInv(L)'
<1> DEFINE k == [ckpt[n] EXCEPT !.pc = "base"]
<1>1. /\ view[n] \in Views /\ ckpt[n] \in Ckpts
      /\ NodeOK(view[n], ckpt[n], loop[n], L, BaseSeq, Generation, snap, bases)
  BY NodeIs DEF LogInv
<1>2. /\ k \in Ckpts /\ k.pc = "base" /\ k.own = ckpt[n].own /\ k.seq = ckpt[n].seq
      /\ k.gen = ckpt[n].gen /\ k.base = ckpt[n].base /\ k.entries = ckpt[n].entries
  BY <1>1 DEF Ckpts, CkptPlaces
<1>3. /\ ckpt' = [ckpt EXCEPT ![n] = k] /\ ckpt[n].pc = "tail"
      /\ UNCHANGED <<vars, storeVars, view, replayed, loop, acked>>
  BY DEF CkptTail, CkptGoto
<1> HIDE DEF k
<1>4. NodeOK(view[n], k, loop[n], L, BaseSeq, Generation, snap, bases)
  BY <1>1, <1>2, <1>3
  DEF NodeOK, ViewOK, PutOK, CkptOK, ViewGen, ViewBase, Committing, Capturing
<1>5. Claims(k, Generation) => Claims(ckpt[n], Generation)
  BY <1>2, <1>3 DEF Claims, Capturing
<1> QED
  BY <1>2, <1>3, <1>4, <1>5, CkptMoves

(* The snapshot is written: above the base it is one of the line, and      *)
(* below it nobody will read it.                                           *)
LEMMA CkptSnapshotKeeps ==
    ASSUME NEW L, LogInv(L), NEW n \in Node, CkptSnapshot(n)
    PROVE  LogInv(L)'
<1> DEFINE t == IF ckpt[n].own THEN Len(view[n].entries) ELSE ckpt[n].tail
           k == [ckpt[n] EXCEPT !.pc = "tail", !.tail = t]
<1>1. /\ view[n] \in Views /\ ckpt[n] \in Ckpts /\ Generation \in Nat /\ MaxSeq \in Nat
      /\ BaseSeq \in Nat /\ LogType
      /\ CkptOK(ckpt[n], view[n], L, BaseSeq, Generation, snap, bases)
      /\ NodeOK(view[n], ckpt[n], loop[n], L, BaseSeq, Generation, snap, bases)
      /\ IsLine(L, seg, snap, BaseSeq)
  BY NodeIs DEF LogInv
<1>a. t \in Nat
  BY <1>1 DEF Views, Ckpts
<1>2. /\ k \in Ckpts /\ k.pc = "tail" /\ k.own = ckpt[n].own /\ k.seq = ckpt[n].seq
      /\ k.gen = ckpt[n].gen /\ k.base = ckpt[n].base /\ k.entries = ckpt[n].entries
  <2> HIDE DEF t
  <2> QED
    BY <1>1, <1>a DEF Ckpts, CkptPlaces
<1>3. /\ ckpt' = [ckpt EXCEPT ![n] = k] /\ ckpt[n].pc = "snapshot"
      /\ snap' = [snap EXCEPT ![ckpt[n].seq] = IF snap[ckpt[n].seq] = None THEN ckpt[n].entries
                                               ELSE snap[ckpt[n].seq]]
      /\ UNCHANGED <<terms, pending, leader, seg, bases, late, view, replayed, loop, acked>>
  BY DEF CkptSnapshot, vars
<1> HIDE DEF k
<1>4. /\ ckpt[n].seq \in 1 .. MaxSeq /\ ckpt[n].entries \in Seq(Commit)
      /\ ckpt[n].seq = Len(ckpt[n].entries)
      /\ Sound(ckpt[n].entries, ckpt[n].gen, L, BaseSeq, Generation)
  BY <1>1, <1>3 DEF CkptOK, Capturing, Ckpts
<1>5. snap' \in [1 .. MaxSeq -> Seq(Commit) \cup {None}]
  BY <1>1, <1>3, <1>4 DEF LogType
<1>6. /\ \A s \in 1 .. MaxSeq : s # ckpt[n].seq => snap'[s] = snap[s]
      /\ snap[ckpt[n].seq] # None => snap'[ckpt[n].seq] = snap[ckpt[n].seq]
      /\ snap[ckpt[n].seq] = None => snap'[ckpt[n].seq] = ckpt[n].entries
      /\ snap'[ckpt[n].seq] # None
  BY <1>1, <1>3, <1>4, SharedLogAssumption DEF LogType
<1>7. IsLine(L, seg', snap', BaseSeq)
  <2>1. ASSUME NEW s \in 1 .. MaxSeq, BaseSeq <= s, snap'[s] # None
        PROVE  Len(snap'[s]) = s /\ StartOf(snap'[s], L)
    <3>1. CASE snap[s] # None
      BY <1>1, <1>6, <2>1, <3>1 DEF IsLine
    <3>2. CASE snap[s] = None
      <4>1. s = ckpt[n].seq /\ snap'[s] = ckpt[n].entries
        BY <1>6, <2>1, <3>2
      <4>2. s # BaseSeq
        BY <1>1, <3>2 DEF IsLine
      <4>3. StartOf(ckpt[n].entries, L)
        BY <1>1, <1>4, <2>1, <4>1, <4>2 DEF Sound
      <4> QED
        BY <1>4, <4>1, <4>3
    <3> QED
      BY <3>1, <3>2
  <2>2. BaseSeq # 0 => snap'[BaseSeq] # None
    BY <1>1, <1>6 DEF IsLine
  <2> QED
    BY <1>1, <1>3, <2>1, <2>2 DEF IsLine
<1>8. \A s \in 1 .. MaxSeq : BaseSeq < s /\ snap[s] # None => snap'[s] # None
  BY <1>6
<1>9. NodeOK(view[n], ckpt[n], loop[n], L, BaseSeq, Generation, snap', bases)
  BY <1>1, <1>8, NodeIs, NodeSnapped
<1>10. NodeOK(view[n], k, loop[n], L, BaseSeq, Generation, snap', bases)
  BY <1>1, <1>2, <1>3, <1>6, <1>9
  DEF NodeOK, ViewOK, PutOK, CkptOK, ViewGen, ViewBase, Committing, Capturing
<1>11. Claims(k, Generation) => Claims(ckpt[n], Generation)
  BY <1>2, <1>3 DEF Claims, Capturing
<1>12. /\ view' = [view EXCEPT ![n] = view[n]]
       /\ seg' \in [0 .. MaxSeq - 1 -> Commit \cup {None}]
  BY <1>1, <1>3 DEF LogType
<1> QED
  BY <1>1, <1>2, <1>3, <1>5, <1>7, <1>8, <1>10, <1>11, <1>12, CkptStep

(* The base's answer is in: what it replaced lies below it.                *)
LEMMA CkptCommittedKeeps ==
    ASSUME NEW L, LogInv(L), NEW n \in Node, CkptCommitted(n)
    PROVE  LogInv(L)'
<1> DEFINE c == ckpt[n]
           segs == [i \in 1 .. ckpt[n].seq - ckpt[n].base |->
                       [kind |-> "seg", key |-> ckpt[n].base + i - 1]]
           old == IF ckpt[n].base = 0 THEN <<>> ELSE <<[kind |-> "snap", key |-> ckpt[n].base]>>
           rs == segs \o old
           k == [ckpt[n] EXCEPT !.pc = "delete", !.retired = rs]
           v == IF ckpt[n].own
                THEN [view[n] EXCEPT !.gen = ckpt[n].gen + 1, !.base = ckpt[n].seq, !.dirty = FALSE]
                ELSE view[n]
<1>1. /\ view[n] \in Views /\ ckpt[n] \in Ckpts /\ loop[n] \in Loops
      /\ Generation \in Nat /\ MaxSeq \in Nat
      /\ BaseSeq \in Nat /\ LogType
      /\ CkptOK(ckpt[n], view[n], L, BaseSeq, Generation, snap, bases)
      /\ NodeOK(view[n], ckpt[n], loop[n], L, BaseSeq, Generation, snap, bases)
      /\ IsLine(L, seg, snap, BaseSeq)
  BY NodeIs DEF LogInv
<1>2. /\ ckpt' = [ckpt EXCEPT ![n] = k] /\ ckpt[n].pc = "committed"
      /\ UNCHANGED <<terms, pending, leader, seg, bases, snap, late, replayed, loop, acked>>
  BY DEF CkptCommitted, vars, storeVars
<1>3. view' = [view EXCEPT ![n] = v]
  BY <1>1 DEF CkptCommitted, LogType
<1>4. /\ ckpt[n].seq \in Nat /\ ckpt[n].base \in Nat /\ ckpt[n].gen \in Nat
      /\ ckpt[n].own \in BOOLEAN
      /\ ckpt[n].base < ckpt[n].seq /\ ckpt[n].seq <= BaseSeq
  BY <1>1, <1>2 DEF CkptOK, Ckpts
<1>5. /\ segs \in Seq(Retired) /\ old \in Seq(Retired)
      /\ Len(segs) = ckpt[n].seq - ckpt[n].base /\ Len(old) \in {0, 1}
      /\ \A i \in 1 .. Len(segs) : segs[i].key < BaseSeq
      /\ \A i \in 1 .. Len(old) : old[i].key < BaseSeq
  <2>1. \A i \in 1 .. ckpt[n].seq - ckpt[n].base :
            [kind |-> "seg", key |-> ckpt[n].base + i - 1] \in Retired
    BY <1>4 DEF Retired
  <2>2. [kind |-> "snap", key |-> ckpt[n].base] \in Retired
    BY <1>4 DEF Retired
  <2>3. ckpt[n].seq - ckpt[n].base \in Nat
    BY <1>4
  <2>4. segs \in Seq(Retired) /\ Len(segs) = ckpt[n].seq - ckpt[n].base
    BY <2>1, <2>3
  <2>5. \A i \in 1 .. Len(segs) : segs[i].key < BaseSeq
    BY <1>1, <1>4, <2>3, <2>4
  <2>6. /\ old \in Seq(Retired) /\ Len(old) \in {0, 1}
        /\ \A i \in 1 .. Len(old) : old[i].key < BaseSeq
    <3>1. CASE ckpt[n].base = 0
      <4>1. old = <<>>
        BY <3>1
      <4> QED
        BY <4>1
    <3>2. CASE ckpt[n].base # 0
      <4> DEFINE r == [kind |-> "snap", key |-> ckpt[n].base]
      <4>1. old = <<r>> /\ r \in Retired /\ r.key < BaseSeq
        BY <1>1, <1>4, <2>2, <3>2
      <4> HIDE DEF r, old
      <4> QED
        BY <4>1
    <3> QED
      BY <3>1, <3>2
  <2> HIDE DEF segs, old
  <2> QED
    BY <2>4, <2>5, <2>6
<1> HIDE DEF segs, old
<1>6. rs \in Seq(Retired) /\ \A i \in 1 .. Len(rs) : rs[i].key < BaseSeq
  <2>1. rs \in Seq(Retired) /\ Len(rs) = Len(segs) + Len(old)
    BY <1>5
  <2>2. ASSUME NEW i \in 1 .. Len(rs) PROVE rs[i].key < BaseSeq
    <3>1. CASE i <= Len(segs)
      <4>1. rs[i] = segs[i] /\ i \in 1 .. Len(segs)
        BY <1>5, <2>1, <3>1
      <4> QED
        BY <1>5, <4>1
    <3>2. CASE i > Len(segs)
      <4>1. rs[i] = old[i - Len(segs)] /\ i - Len(segs) \in 1 .. Len(old)
        BY <1>5, <2>1, <3>2
      <4> QED
        BY <1>5, <4>1
    <3> QED
      BY <1>5, <2>1, <3>1, <3>2
  <2> QED
    BY <2>1, <2>2
<1> HIDE DEF rs
<1>7. k \in Ckpts /\ k.pc = "delete" /\ k.retired = rs
  BY <1>1, <1>6 DEF Ckpts, CkptPlaces
<1>8. /\ v \in Views /\ v.entries = view[n].entries
      /\ v.gen = ViewGen(view[n], ckpt[n]) /\ v.base = ViewBase(view[n], ckpt[n])
  <2>1. CASE ckpt[n].own
    <3>1. v = [view[n] EXCEPT !.gen = ckpt[n].gen + 1, !.base = ckpt[n].seq, !.dirty = FALSE]
      BY <2>1
    <3>2. ViewGen(view[n], ckpt[n]) = ckpt[n].gen + 1 /\ ViewBase(view[n], ckpt[n]) = ckpt[n].seq
      BY <1>2, <2>1 DEF ViewGen, ViewBase, Committing
    <3> HIDE DEF v
    <3>3. view[n] \in [entries : Seq(Commit), gen : Nat, base : Nat, dirty : BOOLEAN]
          /\ ckpt[n].gen + 1 \in Nat
      BY <1>1, <1>4 DEF Views
    <3>4. v \in [entries : Seq(Commit), gen : Nat, base : Nat, dirty : BOOLEAN]
      BY <1>4, <3>1, <3>3
    <3>5. v.entries = view[n].entries /\ v.gen = ckpt[n].gen + 1 /\ v.base = ckpt[n].seq
      BY <3>1, <3>3
    <3> QED
      BY <3>2, <3>4, <3>5 DEF Views
  <2>2. CASE ~ckpt[n].own
    BY <1>1, <2>2 DEF ViewGen, ViewBase, Committing
  <2> QED
    BY <2>1, <2>2
<1> HIDE DEF k, v
<1>9. ViewGen(v, k) = v.gen /\ ViewBase(v, k) = v.base
  BY <1>7 DEF ViewGen, ViewBase, Committing
<1>10. NodeOK(v, k, loop[n], L, BaseSeq, Generation, snap, bases)
  <2>1. ViewOK(v, k, L, BaseSeq, Generation)
    BY <1>1, <1>8, <1>9 DEF NodeOK, ViewOK
  <2>2. PutOK(v, k, loop[n], L, BaseSeq, Generation)
    BY <1>1, <1>8, <1>9 DEF NodeOK, PutOK
  <2>3. CkptOK(k, v, L, BaseSeq, Generation, snap, bases)
    BY <1>6, <1>7 DEF CkptOK, Capturing
  <2> QED
    BY <1>1, <2>1, <2>2, <2>3 DEF NodeOK
<1>11. ~Claims(k, Generation)
  BY <1>7 DEF Claims, Capturing
<1>12. /\ seg' \in [0 .. MaxSeq - 1 -> Commit \cup {None}]
       /\ snap' \in [1 .. MaxSeq -> Seq(Commit) \cup {None}]
       /\ IsLine(L, seg', snap', BaseSeq)
       /\ snap' = snap
  BY <1>1, <1>2 DEF LogType
<1> QED
  BY <1>2, <1>3, <1>7, <1>8, <1>10, <1>11, <1>12, CkptStep

(* A delete takes nothing at or above the base.                            *)
LEMMA CkptDeleteKeeps ==
    ASSUME NEW L, LogInv(L), NEW n \in Node, CkptDelete(n)
    PROVE  LogInv(L)'
<1> DEFINE rs == ckpt[n].retired
           key == Head(rs).key
           k == [ckpt[n] EXCEPT !.retired = Tail(rs)]
<1>1. /\ view[n] \in Views /\ ckpt[n] \in Ckpts /\ loop[n] \in Loops
      /\ Generation \in Nat /\ MaxSeq \in Nat
      /\ BaseSeq \in Nat /\ LogType
      /\ CkptOK(ckpt[n], view[n], L, BaseSeq, Generation, snap, bases)
      /\ NodeOK(view[n], ckpt[n], loop[n], L, BaseSeq, Generation, snap, bases)
      /\ IsLine(L, seg, snap, BaseSeq)
  BY NodeIs DEF LogInv
<1>2. /\ ckpt' = [ckpt EXCEPT ![n] = k] /\ ckpt[n].pc = "delete" /\ rs # <<>>
      /\ seg' \in {seg, [seg EXCEPT ![key] = None]}
      /\ snap' \in {snap, [snap EXCEPT ![key] = None]}
      /\ UNCHANGED <<terms, pending, leader, bases, late, view, replayed, loop, acked>>
  BY DEF CkptDelete, vars
<1>3. rs \in Seq(Retired) /\ Len(rs) > 0 /\ Head(rs) = rs[1]
      /\ \A i \in 1 .. Len(rs) : rs[i].key < BaseSeq
  BY <1>1, <1>2 DEF Ckpts, CkptOK
<1>4. /\ Tail(rs) \in Seq(Retired) /\ Len(Tail(rs)) = Len(rs) - 1
      /\ \A i \in 1 .. Len(Tail(rs)) : Tail(rs)[i] = rs[i + 1]
  BY <1>3
<1>5. \A i \in 1 .. Len(Tail(rs)) : Tail(rs)[i].key < BaseSeq
  BY <1>3, <1>4
<1>6. key < BaseSeq /\ key \in Nat
  <2>1. rs[1] \in Retired
    BY <1>3
  <2> QED
    BY <1>3, <2>1 DEF Retired
<1> HIDE DEF key
<1>7. /\ k \in Ckpts /\ k.pc = "delete" /\ k.retired = Tail(rs) /\ k.own = ckpt[n].own
  BY <1>1, <1>2, <1>4 DEF Ckpts
<1> HIDE DEF k
<1>8. /\ seg' \in [0 .. MaxSeq - 1 -> Commit \cup {None}]
      /\ snap' \in [1 .. MaxSeq -> Seq(Commit) \cup {None}]
  BY <1>1, <1>2 DEF LogType
<1>9. /\ \A s \in 0 .. MaxSeq - 1 : BaseSeq <= s => seg'[s] = seg[s]
      /\ \A s \in 1 .. MaxSeq : BaseSeq <= s => snap'[s] = snap[s]
  <2>1. ASSUME NEW s \in 0 .. MaxSeq - 1, BaseSeq <= s PROVE seg'[s] = seg[s]
    <3>1. s # key
      BY <1>1, <1>6, <2>1
    <3> QED
      BY <1>1, <1>2, <3>1 DEF LogType
  <2>2. ASSUME NEW s \in 1 .. MaxSeq, BaseSeq <= s PROVE snap'[s] = snap[s]
    <3>1. s # key
      BY <1>1, <1>6, <2>2
    <3> QED
      BY <1>1, <1>2, <3>1 DEF LogType
  <2> QED
    BY <2>1, <2>2
<1>10. IsLine(L, seg', snap', BaseSeq)
  <2>1. BaseSeq # 0 => BaseSeq \in 1 .. MaxSeq
    BY <1>1 DEF IsLine
  <2>2. BaseSeq # 0 => snap'[BaseSeq] # None
    BY <1>1, <1>9, <2>1 DEF IsLine
  <2>3. Len(L) \in Nat /\ BaseSeq <= Len(L)
    BY <1>1 DEF IsLine
  <2>4. \A s \in 0 .. MaxSeq - 1 :
           /\ BaseSeq <= s /\ s < Len(L) => seg'[s] = L[s + 1]
           /\ Len(L) <= s => seg'[s] = None
    BY <1>1, <1>9, <2>3 DEF IsLine
  <2> QED
    BY <1>1, <1>9, <2>2, <2>4 DEF IsLine
<1>11. \A s \in 1 .. MaxSeq : BaseSeq < s /\ snap[s] # None => snap'[s] # None
  BY <1>1, <1>9
<1>12. NodeOK(view[n], k, loop[n], L, BaseSeq, Generation, snap', bases)
  <2>1. CkptOK(k, view[n], L, BaseSeq, Generation, snap', bases)
    BY <1>5, <1>7 DEF CkptOK, Capturing
  <2> QED
    BY <1>1, <1>2, <1>7, <2>1 DEF NodeOK, ViewOK, PutOK, ViewGen, ViewBase, Committing
<1>13. ~Claims(k, Generation)
  BY <1>7 DEF Claims, Capturing
<1>14. view' = [view EXCEPT ![n] = view[n]]
  BY <1>1, <1>2 DEF LogType
<1> QED
  BY <1>1, <1>2, <1>7, <1>8, <1>10, <1>11, <1>12, <1>13, <1>14, CkptStep

-----------------------------------------------------------------------------
(* A base lands: the commit point of a checkpoint.                         *)

LEMMA Rebase ==
    ASSUME NEW L, LogInv(L), NEW s \in 1 .. MaxSeq, BaseSeq < s, s <= Len(L), snap[s] # None,
           \A x : Within(x, ckpt, late, Generation) => s <= x,
           bases' = Append(bases, s), ckpt' \in [Node -> Ckpts], late' \subseteq late,
           UNCHANGED <<terms, pending, leader, seg, snap, view, replayed, loop, acked>>,
           \A m \in Node : /\ NodeOK(view[m], ckpt'[m], loop[m], L, s, Generation + 1, snap,
                                     Append(bases, s))
                           /\ ~Claims(ckpt'[m], Generation + 1)
    PROVE  LogInv(L)'
<1>1. /\ bases \in Seq(1 .. MaxSeq) /\ MaxSeq \in Nat /\ Generation \in Nat /\ BaseSeq \in Nat
      /\ LogType /\ IsLine(L, seg, snap, BaseSeq)
  BY MaxSeqNat, BaseType DEF LogInv, LogType
<1>2. BaseSeq' = s /\ Generation' = Generation + 1 /\ bases' \in Seq(1 .. MaxSeq)
  <2>1. /\ Append(bases, s) \in Seq(1 .. MaxSeq) /\ Len(Append(bases, s)) = Len(bases) + 1
        /\ Append(bases, s)[Len(bases) + 1] = s
    BY <1>1
  <2>2. Append(bases, s) # <<>>
    <3>1. Len(<<>>) = 0 /\ Len(bases) + 1 # 0
      BY <1>1
    <3> QED
      BY <2>1, <3>1
  <2> QED
    BY <2>1, <2>2 DEF BaseSeq, Generation, Last
<1>3. LogType' /\ LeadersInv'
  BY <1>1, <1>2 DEF LogInv, LogType, LeadersInv
<1>4. IsLine(L, seg', snap', BaseSeq')
  BY <1>1, <1>2 DEF IsLine
<1>5. \A m \in Node : TermsOK(m, loop'[m], replayed'[m], terms', pending', leader')
  BY DEF LogInv
<1>6. \A m \in Node : NodeOK(view'[m], ckpt'[m], loop'[m], L, BaseSeq', Generation', snap', bases')
  BY <1>2
<1>7. \A p \in late' : /\ LateOK(p, L, BaseSeq', Generation', snap')
                       /\ ~LateClaims(p, Generation')
  <2> SUFFICES ASSUME NEW p \in late
               PROVE  LateOK(p, L, s, Generation + 1, snap) /\ ~LateClaims(p, Generation + 1)
    BY <1>2
  <2>1. LateOK(p, L, BaseSeq, Generation, snap)
    BY DEF LogInv
  <2>2. p.kind = "base" => p.key \in Nat
    BY <1>1 DEF LogType, SegPuts, BasePuts
  <2> QED
    BY <1>1, <2>1, <2>2 DEF LateOK, LateClaims
<1>8. \A x : Within(x, ckpt', late', Generation')
  BY <1>2, <1>7 DEF Within
<1>9. \A m \in Node : leader' = m =>
          LeadOK(view'[m], loop'[m], replayed'[m], terms', ckpt', late', L, BaseSeq', Generation')
  <2> SUFFICES ASSUME NEW m \in Node, leader = m
               PROVE  LeadOK(view[m], loop[m], replayed[m], terms, ckpt', late', L, s, Generation + 1)
    BY <1>2
  <2>1. LeadOK(view[m], loop[m], replayed[m], terms, ckpt, late, L, BaseSeq, Generation)
    BY DEF LogInv
  <2>2. loop[m].gen <= Generation /\ loop[m].gen \in Nat
    BY NodeIs DEF OpenOK, Loops
  <2> QED
    BY <1>1, <1>2, <1>8, <2>1, <2>2 DEF LeadOK
<1> QED
  BY <1>3, <1>4, <1>5, <1>6, <1>7, <1>9 DEF LogInv

(* Every node whose records stay as they are.                              *)
LEMMA NodesRebased ==
    ASSUME NEW L, LogInv(L), NEW s \in 1 .. MaxSeq, BaseSeq < s, NEW m \in Node
    PROVE  /\ NodeOK(view[m], ckpt[m], loop[m], L, s, Generation + 1, snap, Append(bases, s))
           /\ ~Claims(ckpt[m], Generation + 1)
<1>1. /\ bases \in Seq(1 .. MaxSeq) /\ Len(bases) = Generation /\ Generation \in Nat /\ BaseSeq \in Nat
  BY MaxSeqNat, BaseType DEF LogInv, LogType, Generation
<1>2. /\ view[m] \in Views /\ ckpt[m] \in Ckpts /\ loop[m] \in Loops
      /\ NodeOK(view[m], ckpt[m], loop[m], L, BaseSeq, Generation, snap, bases)
  BY NodeIs DEF LogInv
<1>3. NodeOK(view[m], ckpt[m], loop[m], L, s, Generation + 1, snap, Append(bases, s))
  BY <1>1, <1>2, NodeRebased
<1>4. ~Claims(ckpt[m], Generation + 1)
  BY <1>1, <1>2 DEF Claims, NodeOK, CkptOK, Ckpts
<1> QED
  BY <1>3, <1>4

LEMMA CkptBaseKeeps ==
    ASSUME NEW L, LogInv(L), NEW n \in Node, CkptBase(n)
    PROVE  LogInv(L)'
<1> DEFINE k == [ckpt[n] EXCEPT !.pc = "committed"]
           s == ckpt[n].seq
<1>1. /\ view[n] \in Views /\ ckpt[n] \in Ckpts /\ loop[n] \in Loops
      /\ Generation \in Nat /\ MaxSeq \in Nat /\ BaseSeq \in Nat /\ LogType
      /\ bases \in Seq(1 .. MaxSeq) /\ Len(bases) = Generation
      /\ CkptOK(ckpt[n], view[n], L, BaseSeq, Generation, snap, bases)
      /\ NodeOK(view[n], ckpt[n], loop[n], L, BaseSeq, Generation, snap, bases)
  <2>1. Len(bases) = Generation
    BY DEF Generation
  <2>2. BaseSeq \in Nat /\ Generation \in Nat /\ MaxSeq \in Nat
    BY NodeIs
  <2>3. /\ LogType /\ bases \in Seq(1 .. MaxSeq)
        /\ NodeOK(view[n], ckpt[n], loop[n], L, BaseSeq, Generation, snap, bases)
    BY DEF LogInv, LogType
  <2> QED
    BY <2>1, <2>2, <2>3, NodeIs
<1>2. /\ ckpt' = [ckpt EXCEPT ![n] = k] /\ ckpt[n].pc = "base" /\ Generation = ckpt[n].gen
      /\ bases' = Append(bases, s)
      /\ UNCHANGED <<terms, pending, leader, seg, snap, late, view, replayed, loop, acked>>
  BY DEF CkptBase, CkptGoto, vars
<1>3. /\ k \in Ckpts /\ k.pc = "committed" /\ k.own = ckpt[n].own /\ k.seq = s
      /\ k.gen = ckpt[n].gen /\ k.base = ckpt[n].base /\ k.entries = ckpt[n].entries
  BY <1>1 DEF Ckpts, CkptPlaces
<1> HIDE DEF k
<1>4. /\ s \in 1 .. MaxSeq /\ BaseSeq < s /\ snap[s] # None /\ s = Len(ckpt[n].entries)
      /\ ckpt[n].own => s <= Len(view[n].entries) /\ ckpt[n].gen = view[n].gen
  BY <1>1, <1>2 DEF CkptOK, Capturing
<1>5. Claims(ckpt[n], Generation)
  BY <1>2 DEF Claims, Capturing
<1>6. s <= Len(L)
  BY <1>5, ClaimsShort DEF Within
<1>7. \A x : Within(x, ckpt, late, Generation) => s <= x
  BY <1>5 DEF Within
<1>8. ASSUME NEW m \in Node
      PROVE  /\ NodeOK(view[m], ckpt[m], loop[m], L, s, Generation + 1, snap, Append(bases, s))
             /\ ~Claims(ckpt[m], Generation + 1)
  BY <1>4, NodesRebased
<1>9. NodeOK(view[n], k, loop[n], L, s, Generation + 1, snap, Append(bases, s))
  <2>1. CkptOK(k, view[n], L, s, Generation + 1, snap, Append(bases, s))
    <3>1. Append(bases, s)[Generation + 1] = s
      BY <1>1, <1>4
    <3>2. k.seq \in 1 .. MaxSeq /\ k.base < k.seq /\ k.seq = Len(k.entries)
          /\ (k.own => k.seq <= Len(view[n].entries) /\ k.gen = view[n].gen)
      BY <1>1, <1>2, <1>3, <1>4 DEF CkptOK, Capturing
    <3> QED
      BY <1>1, <1>2, <1>3, <3>1, <3>2 DEF CkptOK, Capturing
  <2>2. CASE ~ckpt[n].own
    <3>1. /\ ViewGen(view[n], k) = ViewGen(view[n], ckpt[n])
          /\ ViewBase(view[n], k) = ViewBase(view[n], ckpt[n])
      BY <1>3, <2>2 DEF ViewGen, ViewBase, Committing
    <3>2. NodeOK(view[n], ckpt[n], loop[n], L, s, Generation + 1, snap, Append(bases, s))
      BY <1>8
    <3> QED
      BY <2>1, <3>1, <3>2 DEF NodeOK, ViewOK, PutOK
  <2>3. CASE ckpt[n].own
    <3>1. /\ ViewGen(view[n], k) = Generation + 1 /\ ViewBase(view[n], k) = s
          /\ ViewGen(view[n], ckpt[n]) = Generation /\ view[n].gen = Generation
      BY <1>2, <1>3, <1>4, <2>3 DEF ViewGen, ViewBase, Committing
    <3>2. ViewOK(view[n], k, L, s, Generation + 1)
      BY <1>1, <1>4, <2>3, <3>1 DEF NodeOK, ViewOK, Sound
    <3>3. PutOK(view[n], k, loop[n], L, s, Generation + 1)
      BY <1>1, <3>1 DEF NodeOK, PutOK, Sound
    <3>4. OpenOK(loop[n], L, s, Generation + 1)
      BY <1>8 DEF NodeOK
    <3> QED
      BY <2>1, <3>2, <3>3, <3>4 DEF NodeOK
  <2> QED
    BY <2>2, <2>3
<1>10. ckpt' \in [Node -> Ckpts] /\ ckpt'[n] = k /\ \A m \in Node : m # n => ckpt'[m] = ckpt[m]
  BY <1>1, <1>2, <1>3 DEF LogType
<1>11. ~Claims(k, Generation + 1)
  BY <1>3 DEF Claims, Capturing
<1>12. ASSUME NEW m \in Node
       PROVE  /\ NodeOK(view[m], ckpt'[m], loop[m], L, s, Generation + 1, snap, Append(bases, s))
              /\ ~Claims(ckpt'[m], Generation + 1)
  BY <1>8, <1>9, <1>10, <1>11
<1> HIDE DEF s
<1> QED
  BY <1>2, <1>4, <1>6, <1>7, <1>10, <1>12, Rebase

-----------------------------------------------------------------------------
(* A segment lands: at the end of the line, or in a hole below the base.   *)

LEMMA SegWritten ==
    ASSUME NEW L, LogType, IsLine(L, seg, snap, BaseSeq), NEW key \in 0 .. MaxSeq - 1,
           NEW c \in Commit, key <= Len(L), ~Present(key)
    PROVE  /\ key = Len(L) => IsLine(Append(L, c), [seg EXCEPT ![key] = c], snap, BaseSeq)
           /\ key # Len(L) => /\ key < BaseSeq
                              /\ IsLine(L, [seg EXCEPT ![key] = c], snap, BaseSeq)
           /\ [seg EXCEPT ![key] = c] \in [0 .. MaxSeq - 1 -> Commit \cup {None}]
<1> DEFINE sg == [seg EXCEPT ![key] = c]
<1>1. /\ MaxSeq \in Nat /\ None \notin Commit /\ BaseSeq \in 0 .. Len(L) /\ Len(L) \in 0 .. MaxSeq
      /\ L \in Seq(Commit) /\ seg[key] = None
  BY MaxSeqNat, SharedLogAssumption DEF IsLine, Present
<1>2. /\ sg \in [0 .. MaxSeq - 1 -> Commit \cup {None}] /\ sg[key] = c
      /\ \A s \in 0 .. MaxSeq - 1 : s # key => sg[s] = seg[s]
  BY DEF LogType
<1> HIDE DEF sg
<1>3. CASE key = Len(L)
  <2> DEFINE M == Append(L, c)
  <2>1. /\ M \in Seq(Commit) /\ Len(M) = Len(L) + 1 /\ M[Len(L) + 1] = c
        /\ \A i \in 1 .. Len(L) : M[i] = L[i]
    BY <1>1
  <2>2. \A s \in 1 .. MaxSeq : BaseSeq <= s /\ snap[s] # None => Len(snap[s]) = s /\ StartOf(snap[s], M)
    <3> SUFFICES ASSUME NEW s \in 1 .. MaxSeq, BaseSeq <= s, snap[s] # None
                 PROVE  Len(snap[s]) = s /\ StartOf(snap[s], M)
      OBVIOUS
    <3>1. Len(snap[s]) = s /\ StartOf(snap[s], L) /\ snap[s] \in Seq(Commit)
      BY DEF IsLine, LogType
    <3> QED
      BY <1>1, <3>1, StartGrows
  <2> HIDE DEF M
  <2>3. ASSUME NEW s \in 0 .. MaxSeq - 1
        PROVE  /\ BaseSeq <= s /\ s < Len(M) => sg[s] = M[s + 1]
               /\ Len(M) <= s => sg[s] = None
    <3>1. CASE s = Len(L)
      BY <1>1, <1>2, <1>3, <2>1, <3>1
    <3>2. CASE s < Len(L)
      BY <1>1, <1>2, <1>3, <2>1, <3>2 DEF IsLine
    <3>3. CASE s > Len(L)
      BY <1>1, <1>2, <1>3, <2>1, <3>3 DEF IsLine
    <3> QED
      BY <1>1, <3>1, <3>2, <3>3
  <2>4. Len(M) <= MaxSeq /\ BaseSeq \in 0 .. Len(M)
    BY <1>1, <1>3, <2>1
  <2>5. BaseSeq # 0 => snap[BaseSeq] # None
    BY DEF IsLine
  <2>6. IsLine(M, sg, snap, BaseSeq)
    BY <2>1, <2>2, <2>3, <2>4, <2>5 DEF IsLine
  <2> QED
    BY <1>2, <1>3, <2>6 DEF M, sg
<1>4. CASE key # Len(L)
  <2>1. key < BaseSeq
    <3>1. ~(BaseSeq <= key /\ key < Len(L))
      <4> SUFFICES ASSUME BaseSeq <= key, key < Len(L) PROVE FALSE
        OBVIOUS
      <4>1. seg[key] = L[key + 1] /\ key + 1 \in 1 .. Len(L)
        BY <1>1 DEF IsLine
      <4>2. L[key + 1] \in Commit
        BY <1>1, <4>1
      <4> QED
        BY <1>1, <4>1, <4>2
    <3> QED
      BY <1>1, <1>4, <3>1
  <2>2. ASSUME NEW s \in 0 .. MaxSeq - 1
        PROVE  /\ BaseSeq <= s /\ s < Len(L) => sg[s] = L[s + 1]
               /\ Len(L) <= s => sg[s] = None
    <3>1. BaseSeq <= s \/ Len(L) <= s => s # key
      BY <1>1, <2>1
    <3> QED
      BY <1>1, <1>2, <3>1 DEF IsLine
  <2>3. IsLine(L, sg, snap, BaseSeq)
    BY <2>2 DEF IsLine
  <2> QED
    BY <1>2, <1>4, <2>1, <2>3 DEF sg
<1> QED
  BY <1>3, <1>4

(* The leader's view begins the longer line too.                           *)
LEMMA LeadGrows ==
    ASSUME NEW L \in Seq(Commit), NEW c \in Commit, NEW v \in Views, NEW k, NEW l \in Loops,
           NEW r, NEW ts, NEW ck, NEW lt, NEW B, NEW G, PutOK(v, k, l, L, B, G),
           LeadOK(v, l, r, ts, ck, lt, L, B, G)
    PROVE  LeadOK(v, l, r, ts, ck, lt, Append(L, c), B, G)
<1>1. v.entries \in Seq(Commit)
  BY DEF Views
<1>2. l.pc = "landed" => Append(v.entries, l.commit) \in Seq(Commit)
  BY <1>1 DEF PutOK
<1> QED
  BY <1>1, <1>2, StartGrows DEF LeadOK

(* With the line M there is then, a state of the invariant again.          *)
LEMMA SegLands ==
    ASSUME NEW L, LogInv(L), NEW M, IsLine(M, seg', snap, BaseSeq), Len(L) <= Len(M),
           seg' \in [0 .. MaxSeq - 1 -> Commit \cup {None}], late' \subseteq late,
           loop' \in [Node -> Loops],
           UNCHANGED <<terms, pending, leader, bases, snap, view, replayed, ckpt, acked>>,
           \A m \in Node : TermsOK(m, loop'[m], replayed[m], terms, pending, leader),
           \A m \in Node : NodeOK(view[m], ckpt[m], loop'[m], M, BaseSeq, Generation, snap, bases),
           \A m \in Node : leader = m =>
               LeadOK(view[m], loop'[m], replayed[m], terms, ckpt, late, M, BaseSeq, Generation)
    PROVE  LogInv(M)'
<1>1. BaseSeq' = BaseSeq /\ Generation' = Generation
  BY BasesKept
<1>2. LogType' /\ LeadersInv'
  BY DEF LogInv, LogType, LeadersInv
<1>3. Len(L) \in Nat /\ Len(M) \in Nat
  BY DEF LogInv, IsLine
<1>4. \A p \in late' : LateOK(p, M, BaseSeq', Generation', snap')
  <2> SUFFICES ASSUME NEW p \in late PROVE LateOK(p, M, BaseSeq, Generation, snap)
    BY <1>1
  <2>1. LateOK(p, L, BaseSeq, Generation, snap) /\ p \in SegPuts \cup BasePuts
    BY DEF LogInv, LogType
  <2>2. (p.kind = "seg" => p.key \in Nat) /\ (p.kind = "base" => p.seq \in Nat)
    BY <2>1, MaxSeqNat DEF SegPuts, BasePuts
  <2> QED
    BY <1>3, <2>1, <2>2 DEF LateOK
<1>5. \A m \in Node : leader' = m =>
          LeadOK(view'[m], loop'[m], replayed'[m], terms', ckpt', late', M, BaseSeq', Generation')
  BY <1>1 DEF LeadOK, Within
<1> QED
  BY <1>1, <1>2, <1>4, <1>5 DEF LogInv

(* A PUT nobody waits for.                                                 *)
LEMMA LateLandsKeeps ==
    ASSUME NEW L, LogInv(L), NEW p \in late, LateLands(p)
    PROVE  LogInv(L)' \/ \E c \in Commit : LogInv(Append(L, c))'
<1>1. /\ LogType /\ p \in SegPuts \cup BasePuts /\ LateOK(p, L, BaseSeq, Generation, snap)
      /\ IsLine(L, seg, snap, BaseSeq) /\ late' \subseteq late
      /\ UNCHANGED <<terms, pending, leader, snap, view, replayed, loop, ckpt, acked>>
  BY DEF LogInv, LogType, LateLands, vars
<1>2. L \in Seq(Commit) /\ Len(L) \in Nat /\ MaxSeq \in Nat /\ Generation \in Nat /\ BaseSeq \in Nat
  BY <1>1, MaxSeqNat, BaseType DEF IsLine, LogType
<1>3. /\ loop \in [Node -> Loops] /\ seg \in [0 .. MaxSeq - 1 -> Commit \cup {None}]
      /\ ckpt \in [Node -> Ckpts]
  BY <1>1 DEF LogType
<1>4. ASSUME NEW m \in Node
      PROVE  /\ TermsOK(m, loop[m], replayed[m], terms, pending, leader)
             /\ NodeOK(view[m], ckpt[m], loop[m], L, BaseSeq, Generation, snap, bases)
             /\ PutOK(view[m], ckpt[m], loop[m], L, BaseSeq, Generation)
             /\ leader = m =>
                  LeadOK(view[m], loop[m], replayed[m], terms, ckpt, late, L, BaseSeq, Generation)
             /\ view[m] \in Views /\ ckpt[m] \in Ckpts /\ loop[m] \in Loops
  BY <1>4, NodeIs DEF LogInv
<1>5. CASE seg' = seg /\ bases' = bases
  <2>1. IsLine(L, seg', snap, BaseSeq) /\ Len(L) <= Len(L)
    BY <1>1, <1>2, <1>5
  <2>2. LogInv(L)'
    BY <1>1, <1>3, <1>4, <1>5, <2>1, SegLands
  <2> QED
    BY <2>2
<1>6. CASE p.kind = "seg" /\ ~Present(p.key)
  <2>1. /\ p.key \in 0 .. MaxSeq - 1 /\ p.commit \in Commit /\ p.key <= Len(L)
        /\ seg' = [seg EXCEPT ![p.key] = p.commit] /\ bases' = bases
    BY <1>1, <1>6 DEF SegPuts, BasePuts, LateOK, LateLands
  <2>2. CASE p.key = Len(L)
    <3> DEFINE M == Append(L, p.commit)
    <3>1. /\ IsLine(M, seg', snap, BaseSeq)
          /\ seg' \in [0 .. MaxSeq - 1 -> Commit \cup {None}]
      BY <1>1, <1>6, <2>1, <2>2, SegWritten
    <3>2. Len(L) <= Len(M)
      BY <1>2, <2>1
    <3>3. ASSUME NEW m \in Node
          PROVE  NodeOK(view[m], ckpt[m], loop[m], M, BaseSeq, Generation, snap, bases)
      BY <1>2, <1>4, <2>1, NodeGrows
    <3>4. ASSUME NEW m \in Node, leader = m
          PROVE  LeadOK(view[m], loop[m], replayed[m], terms, ckpt, late, M, BaseSeq, Generation)
      BY <1>2, <1>4, <2>1, <3>4, LeadGrows
    <3> HIDE DEF M
    <3>5. LogInv(M)'
      BY <1>1, <1>3, <1>4, <2>1, <3>1, <3>2, <3>3, <3>4, SegLands
    <3> QED
      BY <2>1, <3>5 DEF M
  <2>3. CASE p.key # Len(L)
    <3>1. /\ IsLine(L, seg', snap, BaseSeq)
          /\ seg' \in [0 .. MaxSeq - 1 -> Commit \cup {None}]
      BY <1>1, <1>6, <2>1, <2>3, SegWritten
    <3>2. Len(L) <= Len(L)
      BY <1>2
    <3>3. LogInv(L)'
      BY <1>1, <1>3, <1>4, <2>1, <3>1, <3>2, SegLands
    <3> QED
      BY <3>3
  <2> QED
    BY <2>2, <2>3
<1>7. CASE p.kind # "seg" /\ Generation = p.key /\ Generation < MaxGen
  <2>1. /\ p.kind = "base" /\ p.seq \in 1 .. MaxSeq /\ BaseSeq < p.seq /\ p.seq <= Len(L)
        /\ snap[p.seq] # None /\ LateClaims(p, Generation)
        /\ bases' = Append(bases, p.seq) /\ seg' = seg
    BY <1>1, <1>7 DEF SegPuts, BasePuts, LateOK, LateLands, LateClaims
  <2>2. \A x : Within(x, ckpt, late, Generation) => p.seq <= x
    BY <2>1 DEF Within
  <2>3. ASSUME NEW m \in Node
        PROVE  /\ NodeOK(view[m], ckpt[m], loop[m], L, p.seq, Generation + 1, snap,
                         Append(bases, p.seq))
               /\ ~Claims(ckpt[m], Generation + 1)
    BY <2>1, NodesRebased
  <2>4. LogInv(L)'
    BY <1>1, <1>3, <2>1, <2>2, <2>3, Rebase
  <2> QED
    BY <2>4
<1> QED
  BY <1>1, <1>5, <1>6, <1>7 DEF LateLands

(* The leader's append lands at the end of the line; a deposed node's may  *)
(* land in a hole.                                                         *)
LEMMA AppendLandsKeeps ==
    ASSUME NEW L, LogInv(L), NEW n \in Node, AppendLands(n)
    PROVE  LogInv(L)' \/ \E c \in Commit : LogInv(Append(L, c))'
<1>0. PICK c : c = loop[n].commit
  OBVIOUS
<1> DEFINE key == Len(view[n].entries)
           e == Append(view[n].entries, loop[n].commit)
           l == [loop[n] EXCEPT !.pc = "landed"]
<1>1. /\ LogType /\ IsLine(L, seg, snap, BaseSeq) /\ late' \subseteq late
      /\ UNCHANGED <<terms, pending, leader, bases, snap, view, replayed, ckpt, acked>>
      /\ loop[n].pc = "put" /\ ~Present(key) /\ seg' = [seg EXCEPT ![key] = c]
      /\ loop' = [loop EXCEPT ![n] = l]
  BY <1>0 DEF LogInv, AppendLands, Goto, vars
<1>2. L \in Seq(Commit) /\ Len(L) \in Nat /\ MaxSeq \in Nat /\ Generation \in Nat /\ BaseSeq \in Nat
  BY <1>1, MaxSeqNat, BaseType DEF IsLine, LogType
<1>3. ASSUME NEW m \in Node
      PROVE  /\ TermsOK(m, loop[m], replayed[m], terms, pending, leader)
             /\ NodeOK(view[m], ckpt[m], loop[m], L, BaseSeq, Generation, snap, bases)
             /\ PutOK(view[m], ckpt[m], loop[m], L, BaseSeq, Generation)
             /\ leader = m =>
                  LeadOK(view[m], loop[m], replayed[m], terms, ckpt, late, L, BaseSeq, Generation)
             /\ view[m] \in Views /\ ckpt[m] \in Ckpts /\ loop[m] \in Loops
  BY <1>3, NodeIs DEF LogInv
<1>4. /\ l \in Loops /\ l.pc = "landed" /\ l.commit = c /\ l.term = loop[n].term
      /\ l.gen = loop[n].gen
  BY <1>0, <1>3 DEF Loops, LoopPlaces
<1>5. loop' \in [Node -> Loops] /\ loop'[n] = l /\ \A m \in Node : m # n => loop'[m] = loop[m]
  BY <1>1, <1>4 DEF LogType
<1> HIDE DEF l
<1>6. /\ key \in 0 .. MaxSeq - 1 /\ c \in Commit /\ view[n].entries \in Seq(Commit)
      /\ StartOf(view[n].entries, L) /\ key <= Len(L)
  BY <1>0, <1>1, <1>2, <1>3 DEF PutOK, Views, StartOf
<1>7. ASSUME NEW m \in Node
      PROVE  TermsOK(m, loop'[m], replayed[m], terms, pending, leader)
  BY <1>1, <1>3, <1>4, <1>5 DEF TermsOK, Opening
<1>8. /\ e \in Seq(Commit) /\ Len(e) = key + 1 /\ e[key + 1] = c
      /\ \A i \in 1 .. key : e[i] = view[n].entries[i]
  BY <1>0, <1>6
<1> HIDE DEF e
<1>9. CASE key = Len(L)
  <2> DEFINE M == Append(L, c)
  <2>1. /\ IsLine(M, seg', snap, BaseSeq)
        /\ seg' \in [0 .. MaxSeq - 1 -> Commit \cup {None}]
    BY <1>1, <1>6, <1>9, SegWritten
  <2>2. /\ Len(L) <= Len(M) /\ Len(M) = Len(L) + 1 /\ M[Len(L) + 1] = c
        /\ \A i \in 1 .. Len(L) : M[i] = L[i]
    BY <1>2, <1>6
  <2>3. ASSUME NEW m \in Node
        PROVE  NodeOK(view[m], ckpt[m], loop[m], M, BaseSeq, Generation, snap, bases)
    BY <1>2, <1>3, <1>6, NodeGrows
  <2>4. ASSUME NEW m \in Node, leader = m
        PROVE  LeadOK(view[m], loop[m], replayed[m], terms, ckpt, late, M, BaseSeq, Generation)
    BY <1>2, <1>3, <1>6, <2>4, LeadGrows
  <2> HIDE DEF M
  <2>5. StartOf(e, M)
    <3>1. \A i \in 1 .. Len(e) : i \in 1 .. key \/ i = key + 1
      BY <1>6, <1>8
    <3> QED
      BY <1>2, <1>6, <1>8, <1>9, <2>2, <3>1 DEF StartOf
  <2>6. NodeOK(view[n], ckpt[n], l, M, BaseSeq, Generation, snap, bases)
    <3>1. Sound(Append(view[n].entries, l.commit), ViewGen(view[n], ckpt[n]), M, BaseSeq, Generation)
      BY <1>0, <1>4, <2>5 DEF Sound, e
    <3>2. PutOK(view[n], ckpt[n], l, M, BaseSeq, Generation)
      BY <1>2, <1>4, <1>6, <3>1 DEF PutOK
    <3>3. OpenOK(l, M, BaseSeq, Generation)
      BY <1>3, <1>4 DEF NodeOK, OpenOK
    <3> QED
      BY <2>3, <3>2, <3>3 DEF NodeOK
  <2>7. ASSUME leader = n
        PROVE  LeadOK(view[n], l, replayed[n], terms, ckpt, late, M, BaseSeq, Generation)
    <3>1. StartOf(Append(view[n].entries, l.commit), M)
      BY <1>0, <1>4, <2>5 DEF e
    <3> QED
      BY <1>4, <2>4, <2>7, <3>1 DEF LeadOK
  <2>8. \A m \in Node :
            /\ NodeOK(view[m], ckpt[m], loop'[m], M, BaseSeq, Generation, snap, bases)
            /\ leader = m =>
                 LeadOK(view[m], loop'[m], replayed[m], terms, ckpt, late, M, BaseSeq, Generation)
    BY <1>5, <2>3, <2>4, <2>6, <2>7
  <2>9. LogInv(M)'
    BY <1>1, <1>5, <1>7, <2>1, <2>2, <2>8, SegLands
  <2> QED
    BY <1>6, <2>9 DEF M
<1>10. CASE key # Len(L)
  <2>1. /\ IsLine(L, seg', snap, BaseSeq) /\ key < BaseSeq
        /\ seg' \in [0 .. MaxSeq - 1 -> Commit \cup {None}]
    BY <1>1, <1>6, <1>10, SegWritten
  <2>2. Len(L) <= Len(L)
    BY <1>2
  <2>3. leader # n
    <3> SUFFICES ASSUME leader = n PROVE FALSE
      OBVIOUS
    <3>1. replayed[n] = terms
      BY <1>1, <1>3 DEF TermsOK
    <3>2. BaseSeq <= key
      BY <1>3, <3>1 DEF LeadOK
    <3> QED
      BY <1>2, <1>6, <2>1, <3>2
  <2>4. Sound(e, ViewGen(view[n], ckpt[n]), L, BaseSeq, Generation)
    <3>1. /\ ViewGen(view[n], ckpt[n]) <= Generation
          /\ ViewGen(view[n], ckpt[n]) = Generation => BaseSeq <= key
      BY <1>3 DEF NodeOK, ViewOK
    <3>2. ViewGen(view[n], ckpt[n]) \in Nat
      BY <1>3 DEF ViewGen, Views, Ckpts
    <3>3. ViewGen(view[n], ckpt[n]) < Generation
      BY <1>2, <1>6, <2>1, <3>1, <3>2
    <3> QED
      BY <1>2, <1>6, <1>8, <2>1, <3>3 DEF Sound
  <2>5. NodeOK(view[n], ckpt[n], l, L, BaseSeq, Generation, snap, bases)
    <3>1. Sound(Append(view[n].entries, l.commit), ViewGen(view[n], ckpt[n]), L, BaseSeq, Generation)
      BY <1>0, <1>4, <2>4 DEF e
    <3>2. PutOK(view[n], ckpt[n], l, L, BaseSeq, Generation)
      BY <1>2, <1>4, <1>6, <3>1 DEF PutOK
    <3>3. OpenOK(l, L, BaseSeq, Generation)
      BY <1>3, <1>4 DEF NodeOK, OpenOK
    <3> QED
      BY <1>3, <3>2, <3>3 DEF NodeOK
  <2>6. LogInv(L)'
    BY <1>1, <1>3, <1>5, <1>7, <2>1, <2>2, <2>3, <2>5, SegLands
  <2> QED
    BY <2>6
<1> QED
  BY <1>9, <1>10

-----------------------------------------------------------------------------
(* A view that changes.                                                    *)

(* A step of one node that leaves the store alone, claims no more than it  *)
(* did, and gives its view what may stand there.                           *)
LEMMA NodeStep ==
    ASSUME NEW L, LogInv(L), NEW n \in Node, NEW v \in Views, NEW k \in Ckpts, NEW l \in Loops,
           NEW r \in Nat,
           view' = [view EXCEPT ![n] = v], ckpt' = [ckpt EXCEPT ![n] = k],
           loop' = [loop EXCEPT ![n] = l], replayed' = [replayed EXCEPT ![n] = r],
           acked' \in [Commit -> Nat],
           UNCHANGED <<terms, pending, leader, seg, bases, snap, late>>,
           TermsOK(n, l, r, terms, pending, leader),
           NodeOK(v, k, l, L, BaseSeq, Generation, snap, bases),
           Claims(k, Generation) => Claims(ckpt[n], Generation) /\ k.seq = ckpt[n].seq,
           leader = n => LeadOK(v, l, r, terms, ckpt, late, L, BaseSeq, Generation)
    PROVE  LogInv(L)'
<1>1. BaseSeq' = BaseSeq /\ Generation' = Generation
  BY BasesKept
<1>2. /\ view'[n] = v /\ ckpt'[n] = k /\ loop'[n] = l /\ replayed'[n] = r
      /\ \A m \in Node : m # n => /\ view'[m] = view[m] /\ ckpt'[m] = ckpt[m]
                                  /\ loop'[m] = loop[m] /\ replayed'[m] = replayed[m]
  BY DEF LogInv, LogType
<1>3. LogType' /\ LeadersInv' /\ IsLine(L, seg', snap', BaseSeq')
  BY <1>1 DEF LogInv, LogType, LeadersInv
<1>4. \A x : Within(x, ckpt, late, Generation) => Within(x, ckpt', late', Generation')
  <2> SUFFICES ASSUME NEW x, Within(x, ckpt, late, Generation),
                      NEW m \in Node, Claims(ckpt'[m], Generation)
               PROVE  ckpt'[m].seq <= x
    BY <1>1 DEF Within
  <2> QED
    BY <1>2 DEF Within
<1>5. \A m \in Node : leader' = m =>
          LeadOK(view'[m], loop'[m], replayed'[m], terms', ckpt', late', L, BaseSeq', Generation')
  <2> SUFFICES ASSUME NEW m \in Node, leader = m
               PROVE  LeadOK(view'[m], loop'[m], replayed'[m], terms, ckpt', late', L,
                             BaseSeq, Generation')
    BY <1>1
  <2>1. LeadOK(view'[m], loop'[m], replayed'[m], terms, ckpt, late, L, BaseSeq, Generation)
    BY <1>2 DEF LogInv
  <2> QED
    BY <1>1, <1>4, <2>1 DEF LeadOK
<1>6. \A m \in Node : /\ TermsOK(m, loop'[m], replayed'[m], terms', pending', leader')
                      /\ NodeOK(view'[m], ckpt'[m], loop'[m], L, BaseSeq', Generation', snap', bases')
  BY <1>1, <1>2 DEF LogInv
<1>7. \A p \in late' : LateOK(p, L, BaseSeq', Generation', snap')
  BY <1>1 DEF LogInv
<1> QED
  BY <1>3, <1>5, <1>6, <1>7 DEF LogInv

(* An append is answered: the view takes the entry, and the loop rests.    *)
LEMMA ViewExtended ==
    ASSUME NEW L, LogInv(L), NEW n \in Node, loop[n].pc = "landed",
           view' = Extended(n), EndRequest(n),
           NEW r \in {replayed[n], 0}, replayed' = [replayed EXCEPT ![n] = r],
           acked' \in [Commit -> Nat], UNCHANGED <<vars, storeVars, ckpt>>
    PROVE  LogInv(L)'
<1> DEFINE e == Append(view[n].entries, loop[n].commit)
           v == [view[n] EXCEPT !.entries = e, !.dirty = TRUE]
<1>1. /\ view[n] \in Views /\ ckpt[n] \in Ckpts /\ loop[n] \in Loops /\ replayed[n] \in Nat
      /\ terms \in Nat /\ MaxSeq \in Nat /\ Generation \in Nat /\ BaseSeq \in Nat
      /\ TermsOK(n, loop[n], replayed[n], terms, pending, leader)
      /\ ViewOK(view[n], ckpt[n], L, BaseSeq, Generation)
      /\ PutOK(view[n], ckpt[n], loop[n], L, BaseSeq, Generation)
      /\ CkptOK(ckpt[n], view[n], L, BaseSeq, Generation, snap, bases)
      /\ leader = n => LeadOK(view[n], loop[n], replayed[n], terms, ckpt, late, L,
                              BaseSeq, Generation)
  BY NodeIs
<1>2. /\ view[n].entries \in Seq(Commit) /\ loop[n].commit \in Commit
      /\ Len(view[n].entries) < MaxSeq
      /\ Sound(e, ViewGen(view[n], ckpt[n]), L, BaseSeq, Generation)
      /\ leader = n => StartOf(e, L)
  BY <1>1 DEF Views, PutOK, LeadOK
<1>3. e \in Seq(Commit) /\ Len(e) = Len(view[n].entries) + 1
  BY <1>2
<1>4. view' = [view EXCEPT ![n] = v]
  BY DEF Extended
<1> HIDE DEF e
<1>5. /\ v \in Views /\ v.entries = e /\ v.gen = view[n].gen /\ v.base = view[n].base
  BY <1>1, <1>3 DEF Views
<1> HIDE DEF v
<1>6. /\ ViewGen(v, ckpt[n]) = ViewGen(view[n], ckpt[n])
      /\ ViewBase(v, ckpt[n]) = ViewBase(view[n], ckpt[n])
      /\ ViewBase(view[n], ckpt[n]) \in Nat /\ view[n].base \in Nat
      /\ Len(view[n].entries) \in Nat /\ ckpt[n].seq \in Nat
  <2>1. /\ view[n].base \in Nat /\ ckpt[n].seq \in Nat
    BY <1>1 DEF Views, Ckpts
  <2>2. Len(view[n].entries) \in Nat
    BY <1>2
  <2>3. /\ ViewGen(v, ckpt[n]) = ViewGen(view[n], ckpt[n])
        /\ ViewBase(v, ckpt[n]) = ViewBase(view[n], ckpt[n])
    BY <1>5 DEF ViewGen, ViewBase
  <2>4. ViewBase(view[n], ckpt[n]) \in Nat
    BY <2>1 DEF ViewBase
  <2> QED
    BY <2>1, <2>2, <2>3, <2>4
<1>7. NodeOK(v, ckpt[n], IdleLoop, L, BaseSeq, Generation, snap, bases)
  <2>1. ViewOK(v, ckpt[n], L, BaseSeq, Generation)
    BY SMTT(30), <1>1, <1>2, <1>3, <1>5, <1>6 DEF ViewOK
  <2>2. CkptOK(ckpt[n], v, L, BaseSeq, Generation, snap, bases)
    BY SMTT(30), <1>1, <1>3, <1>5, <1>6 DEF CkptOK
  <2> QED
    BY <2>1, <2>2, IdleLoopOK DEF NodeOK
<1>8. TermsOK(n, IdleLoop, r, terms, pending, leader)
  <2>1. pending # None => terms > 0
    BY <1>1 DEF TermsOK
  <2> QED
    BY <1>1, <2>1, IdleLoopIs DEF TermsOK, Opening
<1>9. ASSUME leader = n
      PROVE  LeadOK(v, IdleLoop, r, terms, ckpt, late, L, BaseSeq, Generation)
  <2>1. replayed[n] = terms
    BY <1>1, <1>9 DEF TermsOK
  <2>2. /\ BaseSeq <= Len(view[n].entries)
        /\ Within(Len(view[n].entries), ckpt, late, Generation)
    BY <1>1, <1>9, <2>1 DEF LeadOK
  <2>3. Within(Len(e), ckpt, late, Generation)
    <3>1. ASSUME NEW m \in Node, Claims(ckpt[m], Generation) PROVE ckpt[m].seq <= Len(e)
      <4>1. ckpt[m].seq <= Len(view[n].entries) /\ ckpt[m].seq \in Nat
        BY <2>2, <3>1, NodeIs DEF Within, Ckpts
      <4> QED
        BY <1>3, <1>6, <4>1
    <3>2. ASSUME NEW p \in late, LateClaims(p, Generation) PROVE p.seq <= Len(e)
      <4>1. p.seq <= Len(view[n].entries) /\ p.seq \in Nat
        BY <2>2, <3>2, MaxSeqNat DEF Within, LateClaims, LogInv, LogType, SegPuts, BasePuts
      <4> QED
        BY <1>3, <1>6, <4>1
    <3> QED
      BY <3>1, <3>2 DEF Within
  <2> QED
    BY <1>1, <1>2, <1>3, <1>5, <1>6, <1>9, <2>2, <2>3, IdleLoopIs DEF LeadOK
<1>10. /\ loop' = [loop EXCEPT ![n] = IdleLoop] /\ ckpt' = [ckpt EXCEPT ![n] = ckpt[n]]
       /\ UNCHANGED <<terms, pending, leader, seg, bases, snap, late>>
       /\ IdleLoop \in Loops /\ r \in Nat
  BY <1>1, IdleLoopIs, SameRecords DEF LogInv, EndRequest, vars, storeVars
<1> QED
  BY <1>1, <1>4, <1>5, <1>7, <1>8, <1>9, <1>10, NodeStep

LEMMA FencedAfterKeeps ==
    ASSUME NEW L, LogInv(L), NEW n \in Node, FencedAfter(n)
    PROVE  LogInv(L)'
BY ViewExtended DEF FencedAfter, LogInv, LogType

(* An acknowledgement names the place its commit has in the line.          *)
LEMMA AcknowledgeKeeps ==
    ASSUME NEW L, LogInv(L), NEW n \in Node, Acknowledge(n)
    PROVE  /\ LogInv(L)'
           /\ \E c \in Commit : \E i \in 1 .. Len(L) :
                  L[i] = c /\ acked' = [acked EXCEPT ![c] = i]
<1> DEFINE c == loop[n].commit
           i == Len(view[n].entries) + 1
           e == Append(view[n].entries, loop[n].commit)
<1>1. /\ view[n] \in Views /\ LogType /\ L \in Seq(Commit)
      /\ PutOK(view[n], ckpt[n], loop[n], L, BaseSeq, Generation)
      /\ leader = n => LeadOK(view[n], loop[n], replayed[n], terms, ckpt, late, L,
                              BaseSeq, Generation)
  BY NodeIs DEF LogInv
<1>2. /\ loop[n].pc = "landed" /\ leader = n /\ view' = Extended(n) /\ EndRequest(n)
      /\ acked' = [acked EXCEPT ![c] = i]
      /\ replayed' = replayed /\ UNCHANGED <<vars, storeVars, ckpt>>
  BY DEF Acknowledge, Leads
<1>3. view[n].entries \in Seq(Commit) /\ c \in Commit /\ StartOf(e, L) /\ i \in Nat
  BY <1>1, <1>2 DEF Views, PutOK, LeadOK
<1>4. Len(e) = i /\ e[i] = c
  BY <1>3
<1> HIDE DEF e
<1>5. i \in 1 .. Len(L) /\ L[i] = c
  BY <1>1, <1>3, <1>4 DEF StartOf
<1>6. replayed' = [replayed EXCEPT ![n] = replayed[n]]
  BY <1>1, <1>2 DEF LogType
<1>7. acked' \in [Commit -> Nat]
  BY <1>1, <1>2, <1>3 DEF LogType
<1>8. LogInv(L)'
  BY <1>2, <1>6, <1>7, ViewExtended
<1> QED
  BY <1>2, <1>3, <1>5, <1>8

(* A log opened afresh: what was walked is a beginning of the line, for    *)
(* the base has not moved; a checkpoint under way goes on with the old one.*)
LEMMA OpenedKeeps ==
    ASSUME NEW L, LogInv(L), NEW n \in Node, Opened(n)
    PROVE  LogInv(L)'
<1> DEFINE v == [entries |-> loop[n].entries, gen |-> loop[n].gen, base |-> loop[n].base,
                 dirty |-> FALSE]
           k == IF ckpt[n].pc = "idle" \/ ~ckpt[n].own THEN ckpt[n]
                ELSE [ckpt[n] EXCEPT !.own = FALSE, !.tail = Len(view[n].entries)]
           l == [IdleLoop EXCEPT !.pc = "stage"]
           r == loop[n].term
<1>1. /\ view[n] \in Views /\ ckpt[n] \in Ckpts /\ loop[n] \in Loops /\ replayed[n] \in Nat
      /\ terms \in Nat /\ MaxSeq \in Nat /\ Generation \in Nat /\ BaseSeq \in Nat
      /\ L \in Seq(Commit) /\ Len(L) \in 0 .. MaxSeq /\ LogType
      /\ TermsOK(n, loop[n], replayed[n], terms, pending, leader)
      /\ OpenOK(loop[n], L, BaseSeq, Generation)
      /\ CkptOK(ckpt[n], view[n], L, BaseSeq, Generation, snap, bases)
      /\ leader = n => LeadOK(view[n], loop[n], replayed[n], terms, ckpt, late, L,
                              BaseSeq, Generation)
  BY NodeIs DEF LogInv
<1>2. /\ loop[n].pc = "recheck" /\ loop[n].gen = Generation
      /\ view' = [view EXCEPT ![n] = v] /\ ckpt' = [ckpt EXCEPT ![n] = k]
      /\ loop' = [loop EXCEPT ![n] = l] /\ replayed' = [replayed EXCEPT ![n] = r]
      /\ UNCHANGED <<terms, pending, leader, seg, bases, snap, late, acked>>
  BY DEF Opened, vars, storeVars
<1>3. /\ loop[n].entries \in Seq(Commit) /\ loop[n].gen \in Nat /\ loop[n].base \in Nat /\ r \in Nat
      /\ loop[n].base = BaseSeq /\ StartOf(loop[n].entries, L) /\ BaseSeq <= Len(loop[n].entries)
      /\ Len(loop[n].entries) <= Len(L)
  BY <1>1, <1>2 DEF Loops, OpenOK, StartOf
<1>4. /\ v \in Views /\ v.entries = loop[n].entries /\ v.gen = Generation /\ v.base = BaseSeq
  BY <1>2, <1>3 DEF Views
<1>5. /\ l \in Loops /\ l.pc = "stage" /\ l.term = 0 /\ l.gen = 0
  BY IdleLoopIs DEF Loops, LoopPlaces
<1>6. /\ k \in Ckpts /\ k.pc = ckpt[n].pc /\ k.seq = ckpt[n].seq /\ k.gen = ckpt[n].gen
      /\ k.base = ckpt[n].base /\ k.entries = ckpt[n].entries /\ k.retired = ckpt[n].retired
      /\ k.pc # "idle" => ~k.own
  <2>1. CASE ckpt[n].pc = "idle" \/ ~ckpt[n].own
    BY <1>1, <2>1
  <2>2. CASE ~(ckpt[n].pc = "idle" \/ ~ckpt[n].own)
    <3>1. Len(view[n].entries) \in Nat
      BY <1>1 DEF Views
    <3>2. k = [ckpt[n] EXCEPT !.own = FALSE, !.tail = Len(view[n].entries)]
      BY <2>2
    <3> QED
      BY <1>1, <3>1, <3>2 DEF Ckpts
  <2> QED
    BY <2>1, <2>2
<1> HIDE DEF v, k, l
<1>7. ViewGen(v, k) = Generation /\ ViewBase(v, k) = BaseSeq
  BY <1>4, <1>6 DEF ViewGen, ViewBase, Committing
<1>8. NodeOK(v, k, l, L, BaseSeq, Generation, snap, bases)
  <2>1. ViewOK(v, k, L, BaseSeq, Generation)
    BY <1>1, <1>3, <1>4, <1>7 DEF ViewOK, Sound
  <2>2. PutOK(v, k, l, L, BaseSeq, Generation) /\ OpenOK(l, L, BaseSeq, Generation)
    BY <1>1, <1>5 DEF PutOK, OpenOK
  <2>3. CkptOK(k, v, L, BaseSeq, Generation, snap, bases)
    BY <1>1, <1>6 DEF CkptOK, Capturing
  <2> QED
    BY <2>1, <2>2, <2>3 DEF NodeOK
<1>9. TermsOK(n, l, r, terms, pending, leader)
  BY <1>1, <1>2, <1>3, <1>5 DEF TermsOK, Opening
<1>10. ASSUME leader = n
       PROVE  LeadOK(v, l, r, terms, ckpt, late, L, BaseSeq, Generation)
  BY <1>1, <1>2, <1>3, <1>4, <1>5, <1>10 DEF LeadOK
<1>11. Claims(k, Generation) => Claims(ckpt[n], Generation) /\ k.seq = ckpt[n].seq
  BY <1>6 DEF Claims
<1>12. acked' \in [Commit -> Nat]
  BY <1>1, <1>2 DEF LogType
<1> QED
  BY <1>2, <1>3, <1>4, <1>5, <1>6, <1>8, <1>9, <1>10, <1>11, <1>12, NodeStep

-----------------------------------------------------------------------------
(* Every step, and the theorems.                                           *)

(* An acknowledgement says where its commit is in the line.                *)
AcksIn(L, ak) == \A c \in Commit : ak[c] # 0 => ak[c] \in 1 .. Len(L) /\ L[ak[c]] = c

HasLine == \E L : LogInv(L) /\ AcksIn(L, acked)

LEMMA LogInitLine ==
    ASSUME LogInit
    PROVE  LogInv(<<>>) /\ AcksIn(<<>>, acked)
<1>1. /\ terms = 0 /\ pending = None /\ leader = None /\ bases = <<>> /\ late = {}
      /\ seg = [s \in 0 .. MaxSeq - 1 |-> None] /\ snap = [s \in 1 .. MaxSeq |-> None]
      /\ acked = [c \in Commit |-> 0]
      /\ \A n \in Node : /\ view[n] = NoView /\ replayed[n] = 0 /\ loop[n] = IdleLoop
                         /\ ckpt[n] = IdleCkpt
  BY DEF LogInit, Init
<1>2. Generation = 0 /\ BaseSeq = 0 /\ MaxSeq \in Nat
  BY <1>1, MaxSeqNat DEF Generation, BaseSeq
<1>3. LogType
  <2>1. /\ view \in [Node -> Views] /\ replayed \in [Node -> Nat]
        /\ loop \in [Node -> Loops] /\ ckpt \in [Node -> Ckpts]
    BY NoViewIs, IdleLoopIs, IdleCkptIs DEF LogInit
  <2> QED
    BY <1>1, <2>1 DEF LogType
<1>4. IsLine(<<>>, seg, snap, 0)
  BY <1>1, <1>2 DEF IsLine
<1>5. \A n \in Node : TermsOK(n, IdleLoop, 0, 0, None, None)
  BY IdleLoopIs, SharedLogAssumption DEF TermsOK
<1>6. NodeOK(NoView, IdleCkpt, IdleLoop, <<>>, 0, 0, snap, bases)
  <2>1. <<>> \in Seq(Commit) /\ 0 \in Nat
    OBVIOUS
  <2> QED
    BY <2>1, NodeRestarts
<1>7. LogInv(<<>>)
  BY <1>1, <1>2, <1>3, <1>4, <1>5, <1>6, SharedLogAssumption DEF LogInv, LeadersInv
<1> QED
  BY <1>1, <1>7 DEF AcksIn

(* A step leaves the line and the acknowledgements as they are, or adds    *)
(* one commit at the line's end, or acknowledges one place of it.          *)
LEMMA LogStep ==
    ASSUME ~SpansTerms, ~CkptPauses, NEW L, LogInv(L), [LogNext]_allVars
    PROVE  \/ LogInv(L)' /\ acked' = acked
           \/ acked' = acked /\ \E c \in Commit : LogInv(Append(L, c))'
           \/ LogInv(L)' /\ \E c \in Commit : \E i \in 1 .. Len(L) :
                                L[i] = c /\ acked' = [acked EXCEPT ![c] = i]
<1>1. CASE UNCHANGED allVars
  <2>1. /\ UNCHANGED <<terms, pending, leader, seg, bases, snap, late, view, replayed, loop, ckpt, acked>>
    BY <1>1 DEF allVars, vars, logVars, storeVars
  <2>2. LogType' /\ LeadersInv' /\ BaseSeq' = BaseSeq /\ Generation' = Generation
    BY <2>1, BasesKept DEF LogInv, LogType, LeadersInv
  <2>3. LogInv(L)'
    BY <2>1, <2>2 DEF LogInv
  <2> QED
    BY <2>1, <2>3
<1>2. ASSUME NEW n \in Node, Request(n)
      PROVE  \/ LogInv(L)' /\ acked' = acked
             \/ acked' = acked /\ \E c \in Commit : LogInv(Append(L, c))'
             \/ LogInv(L)' /\ \E c \in Commit : \E i \in 1 .. Len(L) :
                                  L[i] = c /\ acked' = [acked EXCEPT ![c] = i]
  <2>1. CASE MayWrite(n)
    BY <2>1, MayWriteKeeps DEF MayWrite
  <2>2. CASE BeginOpen(n)
    BY <2>2, BeginOpenKeeps DEF BeginOpen
  <2>3. CASE ReadBase(n)
    BY <2>3, ReadBaseKeeps DEF ReadBase
  <2>4. CASE ReadSnapshot(n)
    BY <2>4, ReadSnapshotKeeps DEF ReadSnapshot
  <2>5. CASE SnapshotGone(n)
    BY <2>5, RequestEnds DEF SnapshotGone
  <2>6. CASE WalkSegment(n)
    BY <2>6, WalkSegmentKeeps DEF WalkSegment
  <2>7. CASE WalkEnd(n)
    BY <2>7, WalkEndKeeps DEF WalkEnd
  <2>8. CASE Rewalk(n)
    BY <2>8, RewalkKeeps DEF Rewalk
  <2>9. CASE Opened(n)
    BY <2>9, OpenedKeeps DEF Opened
  <2>10. CASE \E c \in Commit : Journal(n, c)
    BY <2>10, JournalKeeps DEF Journal
  <2>11. CASE FencedBefore(n)
    BY <2>11, RequestEnds DEF FencedBefore
  <2>12. CASE AppendLands(n)
    BY <2>12, AppendLandsKeeps DEF AppendLands
  <2>13. CASE AppendRefused(n)
    BY <2>13, AppendRefusedKeeps DEF AppendRefused
  <2>14. CASE Acknowledge(n)
    BY <2>14, AcknowledgeKeeps
  <2>15. CASE FencedAfter(n)
    BY <2>15, FencedAfterKeeps DEF FencedAfter
  <2>16. CASE RequestErrs(n)
    BY <2>16, RequestErrsKeeps DEF RequestErrs
  <2> QED
    BY <1>2, <2>1, <2>2, <2>3, <2>4, <2>5, <2>6, <2>7, <2>8, <2>9, <2>10, <2>11, <2>12, <2>13,
       <2>14, <2>15, <2>16 DEF Request
<1>3. ASSUME NEW n \in Node, Checkpoint(n)
      PROVE  LogInv(L)' /\ acked' = acked
  <2>1. CASE CkptHeld(n)
    BY <2>1, CkptHeldKeeps DEF CkptHeld
  <2>2. CASE CkptCapture(n)
    BY <2>2, CkptCaptureKeeps DEF CkptCapture
  <2>3. CASE CkptNothing(n)
    BY <2>3, CkptEndsQuietly DEF CkptNothing
  <2>4. CASE CkptSnapshot(n)
    BY <2>4, CkptSnapshotKeeps DEF CkptSnapshot
  <2>5. CASE CkptTail(n)
    BY <2>5, CkptTailKeeps DEF CkptTail
  <2>6. CASE CkptNotTail(n)
    BY <2>6, CkptEndsQuietly DEF CkptNotTail
  <2>7. CASE CkptBase(n)
    BY <2>7, CkptBaseKeeps DEF CkptBase
  <2>8. CASE CkptRefused(n)
    BY <2>8, CkptEndsQuietly DEF CkptRefused
  <2>9. CASE CkptCommitted(n)
    BY <2>9, CkptCommittedKeeps DEF CkptCommitted
  <2>10. CASE CkptDelete(n)
    BY <2>10, CkptDeleteKeeps DEF CkptDelete
  <2>11. CASE CkptDone(n)
    BY <2>11, CkptEndsQuietly DEF CkptDone
  <2>12. CASE CkptErrs(n)
    BY <2>12, CkptEnds DEF CkptErrs
  <2> QED
    BY <1>3, <2>1, <2>2, <2>3, <2>4, <2>5, <2>6, <2>7, <2>8, <2>9, <2>10, <2>11, <2>12
    DEF Checkpoint
<1>4. ASSUME NEW n \in Node, Restart(n)
      PROVE  LogInv(L)' /\ acked' = acked
  BY <1>4, RestartKeeps DEF Restart
<1>5. ASSUME NEW p \in late, LateLands(p)
      PROVE  acked' = acked /\ (LogInv(L)' \/ \E c \in Commit : LogInv(Append(L, c))')
  BY <1>5, LateLandsKeeps DEF LateLands
<1>6. CASE LeaseChanges
  <2>1. acked' = acked
    BY <1>6 DEF LeaseChanges, logVars
  <2>2. LogInv(L)'
    BY <1>6, CreateKeeps, LeadKeeps, LeaseLost DEF LeaseChanges
  <2> QED
    BY <2>1, <2>2
<1> QED
  BY <1>1, <1>2, <1>3, <1>4, <1>5, <1>6 DEF LogNext

LEMMA LineIsRecovered == \A L : LogInv(L) => Recovered = L
BY RecoveredIs DEF LogInv

(* The store always holds one line, and the acknowledgements are in it.    *)
LEMMA LineKept ==
    ASSUME ~SpansTerms, ~CkptPauses
    PROVE  LogSpec => []HasLine
<1>1. LogInit => HasLine
  BY LogInitLine DEF HasLine
<1>2. HasLine /\ [LogNext]_allVars => HasLine'
  <2> SUFFICES ASSUME HasLine, [LogNext]_allVars PROVE HasLine'
    OBVIOUS
  <2>1. PICK L : LogInv(L) /\ AcksIn(L, acked)
    BY DEF HasLine
  <2>2. L \in Seq(Commit) /\ acked \in [Commit -> Nat]
    BY <2>1 DEF LogInv, IsLine, LogType
  <2>3. CASE LogInv(L)' /\ acked' = acked
    BY <2>1, <2>3 DEF HasLine
  <2>4. CASE acked' = acked /\ \E c \in Commit : LogInv(Append(L, c))'
    <3>1. PICK c \in Commit : LogInv(Append(L, c))'
      BY <2>4
    <3>2. AcksIn(Append(L, c), acked)
      BY <2>1, <2>2 DEF AcksIn
    <3> QED
      BY <2>4, <3>1, <3>2 DEF HasLine
  <2>5. CASE LogInv(L)' /\ \E c \in Commit : \E i \in 1 .. Len(L) :
                  L[i] = c /\ acked' = [acked EXCEPT ![c] = i]
    <3>1. PICK c \in Commit, i \in 1 .. Len(L) : L[i] = c /\ acked' = [acked EXCEPT ![c] = i]
      BY <2>5
    <3>2. AcksIn(L, acked')
      BY <2>1, <2>2, <3>1 DEF AcksIn
    <3> QED
      BY <2>5, <3>2 DEF HasLine
  <2> QED
    BY <2>1, <2>3, <2>4, <2>5, LogStep
<1> QED
  BY <1>1, <1>2, PTL DEF LogSpec

(* The log always opens, and a leader that has replayed under its term     *)
(* appends to a prefix of what anyone who opened it would read: through    *)
(* lapsed leases, restarts, checkpoints cut short, and PUTs that land      *)
(* after their sender is gone (LogSound; object_store_log.rs, leadership). *)
THEOREM LogSafety ==
    ASSUME ~SpansTerms, ~CkptPauses
    PROVE  LogSpec => []LogSound
<1>1. HasLine => LogSound
  <2> SUFFICES ASSUME NEW L, LogInv(L) PROVE LogSound
    BY DEF HasLine
  <2>1. Recovered = L
    BY LineIsRecovered
  <2>2. LogReadable
    BY DEF LogInv, IsLine, LogReadable
  <2>3. ASSUME NEW n \in Node, Leads(n), replayed[n] = terms
        PROVE  Len(view[n].entries) >= BaseSeq /\ IsPrefix(view[n].entries, Recovered)
    <3>1. /\ LeadOK(view[n], loop[n], replayed[n], terms, ckpt, late, L, BaseSeq, Generation)
          /\ view[n] \in Views /\ L \in Seq(Commit) /\ BaseSeq \in Nat
      BY <2>3, NodeIs DEF Leads
    <3>2. StartOf(view[n].entries, L) /\ BaseSeq <= Len(view[n].entries)
      BY <2>3, <3>1 DEF LeadOK
    <3>3. view[n].entries \in Seq(Commit)
      BY <3>1 DEF Views
    <3> QED
      BY <2>1, <3>1, <3>2, <3>3, StartIsPrefix
  <2> QED
    BY <2>2, <2>3 DEF LogSound, LeaderViewCurrent
<1> QED
  BY <1>1, LineKept, PTL

(* An acknowledged commit is at its place in what any open would read,     *)
(* from then on (AckedDurable; leadership.rs, still_leads_after_append).   *)
THEOREM AckedSafety ==
    ASSUME ~SpansTerms, ~CkptPauses
    PROVE  LogSpec => []AckedDurable
<1>1. HasLine => AckedDurable
  <2> SUFFICES ASSUME NEW L, LogInv(L), AcksIn(L, acked), NEW c \in Commit, acked[c] # 0
               PROVE  acked[c] <= Len(Recovered) /\ Recovered[acked[c]] = c
    BY DEF HasLine, AckedDurable
  <2>1. Recovered = L /\ Len(L) \in Nat
    BY LineIsRecovered DEF LogInv, IsLine
  <2>2. acked[c] \in 1 .. Len(L) /\ L[acked[c]] = c
    BY DEF AcksIn
  <2> QED
    BY <2>1, <2>2
<1> QED
  BY <1>1, LineKept, PTL

(* The segments, bases and snapshots implement one sequence of commits     *)
(* that only grows at its end, with acknowledgements that name places in   *)
(* it: every step of the store, the loops, the checkpoints and the lease   *)
(* is a step of DurableLog or leaves it as it is.                          *)
THEOREM LogImplements ==
    ASSUME ~SpansTerms, ~CkptPauses
    PROVE  LogSpec => Implements
<1>1. LogInit => D!Init
  <2> SUFFICES ASSUME LogInit PROVE D!Init
    OBVIOUS
  <2>1. Recovered = <<>>
    BY LogInitLine, LineIsRecovered
  <2> QED
    BY <2>1 DEF D!Init, LogInit
<1>2. (\A L : LogInv(L) => Recovered = L)'
  BY LineIsRecovered, PTL
<1>3. HasLine /\ [LogNext]_allVars => [D!Next]_(D!vars)
  <2> SUFFICES ASSUME HasLine, [LogNext]_allVars PROVE [D!Next]_(D!vars)
    OBVIOUS
  <2>1. PICK L : LogInv(L)
    BY DEF HasLine
  <2>2. Recovered = L /\ L \in Seq(Commit)
    BY <2>1, LineIsRecovered DEF LogInv, IsLine
  <2>3. CASE LogInv(L)' /\ acked' = acked
    <3>1. Recovered' = L
      BY <1>2, <2>3
    <3> QED
      BY <2>2, <2>3, <3>1 DEF D!vars
  <2>4. CASE acked' = acked /\ \E c \in Commit : LogInv(Append(L, c))'
    <3>1. PICK c \in Commit : LogInv(Append(L, c))'
      BY <2>4
    <3>2. Recovered' = Append(L, c)
      BY <1>2, <3>1
    <3> QED
      BY <2>2, <2>4, <3>2 DEF D!Next, D!Append1
  <2>5. CASE LogInv(L)' /\ \E c \in Commit : \E i \in 1 .. Len(L) :
                  L[i] = c /\ acked' = [acked EXCEPT ![c] = i]
    <3>1. PICK c \in Commit, i \in 1 .. Len(L) : L[i] = c /\ acked' = [acked EXCEPT ![c] = i]
      BY <2>5
    <3>2. Recovered' = L
      BY <1>2, <2>5
    <3>3. i \in DOMAIN L
      BY <2>2
    <3> QED
      BY <2>2, <3>1, <3>2, <3>3 DEF D!Next, D!Ack
  <2> QED
    BY <2>1, <2>3, <2>4, <2>5, LogStep
<1> QED
  BY <1>1, <1>3, LineKept, PTL DEF LogSpec, Implements, D!Spec
=============================================================================
