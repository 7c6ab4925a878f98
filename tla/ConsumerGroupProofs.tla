------------------------- MODULE ConsumerGroupProofs -------------------------
(***************************************************************************)
(* For every number of handlers and members, whatever requests they send,  *)
(* appends fail and sessions lapse: a round is closed once, by the one     *)
(* handler that holds the slot, at a generation above every earlier one,   *)
(* over the head of no incumbent that is alive and in time; those who wait *)
(* are told; and the assignment cell never goes back.                      *)
(*                                                                         *)
(* The argument is that of the slot. Every step that replaces, closes or   *)
(* abandons a round is taken by its holder or while nobody holds it, so    *)
(* between a handler's claim and its release the round it looked at is the *)
(* round it acts on. The invariant says this of every place a handler can  *)
(* be in (TaskOK), of the request it has in the queue (QueueOK) and of the *)
(* rounds so far (RoundsOK).                                               *)
(*                                                                         *)
(* And of the group log: what a group's clients are served is what its log *)
(* says, across failed writes and restarts (GroupLog.tla).                 *)
(***************************************************************************)
EXTENDS ConsumerGroup, GroupLog, FiniteSetTheorems, WellFoundedInduction, TLAPS

Opening == {"openJoin", "openSync"}
OpenDone == {"openedJoin", "openedSync"}
Enrolled == {"close", "deadlineClose", "roster", "deadlineRoster", "pending", "withdraw", "register"}
Timed == {"sync", "submit", "parked", "sweep", "leave", "swept", "left"}
Asking == Opening \cup OpenDone \cup {"close", "deadlineClose", "roster", "deadlineRoster", "sync", "swept", "left"}

Outcomes == [is : {"unset", "abandoned", "closed"}, gen : Nat, ids : Seq(Member)]
Replies == [res : {"none", "queued", "ok", "illegal", "failed"}, gen : Nat]
Entries == [task : Task, event : GroupEvents \cup {"Roster"}, ids : Ids \cup {NoRoster}]

(* The request a handler at p has made.                                    *)
Fits(p, event) ==
    \/ p \in DOMAIN EventOf /\ event = EventOf[p]
    \/ p \in {"roster", "deadlineRoster"} /\ event = "Roster"
    \/ p \in {"swept", "left"} /\ event \in {"AllMembersGone", "MemberLeft"}

RecordType ==
    gstate \in GroupStates \ {"Dead"} /\ gen \in Nat /\ epoch \in 0 .. gen
    /\ roster \in Ids \cup {NoRoster} /\ fails \in 0 .. MaxFails

AskType == queue \in Seq(Entries) /\ reply \in [Task -> Replies]

RoundType ==
    /\ outcome \in Seq(Outcomes) /\ open \in 0 .. Len(outcome) /\ enrolled \in Ids
    /\ awaiting \in (SUBSET Member) \cup {AwaitsNobody} /\ expired \in BOOLEAN /\ slot \in BOOLEAN
    /\ lastRound \in Ids \cup {NoRoster}

SessionType ==
    /\ tracked \subseteq minted /\ live \subseteq tracked /\ minted \subseteq Member
    /\ lapses \in 0 .. MaxFaults /\ lapsed \subseteq Member

CellType == cell \in [gen : Nat, map : BOOLEAN] /\ cell.gen <= gen

TaskType ==
    /\ pc \in [Task -> Labels] /\ who \in [Task -> Member] /\ at \in [Task -> Nat]
    /\ pass \in [Task -> 0 .. MaxReplans]

GroupType == RecordType /\ AskType /\ RoundType /\ SessionType /\ CellType /\ TaskType

(* Rounds follow each other: only the last may be open.                    *)
RoundsOK(op, out, g) ==
    /\ op \in {0, Len(out)}
    /\ \A r \in 1 .. Len(out) : out[r].gen <= g
    /\ \A r \in 1 .. Len(out) : out[r].is = "unset" => r = Len(out) /\ op = r
    /\ \A r, s \in 1 .. Len(out) : r < s /\ out[r].is = "closed" /\ out[s].is = "closed"
                                       => out[r].gen < out[s].gen

(* Whoever was in the last round is awaited, enrolled or excused.          *)
AwaitsOK(op, out, aw, enr, ex, last, lv, lp) ==
    op # 0 /\ out[op].is = "unset" =>
        /\ Member \ lv \subseteq lp
        /\ \A m \in Range(last) \cap Member : m \in aw \/ m \in Range(enr) \/ m \in lp \/ ex

(* A handler at p of a member w, in round or generation a, having spent s  *)
(* passes and been answered r.                                             *)
TaskOK(p, w, a, s, r, op, out, aw, ex, g, mi) ==
    /\ p \in Joining => w \in mi
    /\ p \in Opening \cup OpenDone \cup {"close"} => s < MaxReplans
    /\ p \in Enrolled => a \in 1 .. Len(out)
    /\ p \in Timed => a <= g
    /\ p \in Opening => op = 0 \/ out[op].is # "unset"
    /\ p \in {"pending", "withdraw"} => op = a \/ out[a].is # "unset"
    /\ p = "withdraw" /\ op = a /\ out[a].is = "unset" => ex
    /\ p \in {"roster", "deadlineRoster", "register"} => out[a].is = "closed"
    /\ p \in Closing => /\ op = a /\ out[a].is = "unset" /\ (aw = {} \/ ex)
                        /\ r.res = "ok" => \A n \in 1 .. Len(out) : out[n].is = "closed" => out[n].gen < r.gen
    /\ p \notin Asking => r = NotSent
    /\ p \in OpenDone => r.res = "ok"
    /\ r.gen <= g

QueueOK(q, ps, rp) ==
    /\ \A i \in 1 .. Len(q) : rp[q[i].task].res = "queued" /\ Fits(ps[q[i].task], q[i].event)
    /\ \A i, j \in 1 .. Len(q) : q[i].task = q[j].task => i = j

SlotOK(sl, ps) ==
    /\ sl <=> \E t \in Task : ps[t] \in Holding
    /\ \A t, u \in Task : ps[t] \in Holding /\ ps[u] \in Holding => t = u

Own(t) == TaskOK(pc[t], who[t], at[t], pass[t], reply[t], open, outcome, awaiting, expired, gen, minted)

TasksOK == \A t \in Task : Own(t)

GroupInv ==
    /\ GroupType /\ RoundsOK(open, outcome, gen) /\ QueueOK(queue, pc, reply) /\ SlotOK(slot, pc)
    /\ AwaitsOK(open, outcome, awaiting, enrolled, expired, lastRound, live, lapsed)
    /\ TasksOK

(* Where a member is enrolled that a handler of it works for.              *)
EnrolOK(p, w, a, out, enr) ==
    p \in Enrolled => /\ out[a].is = "unset" => w \in Range(enr)
                      /\ out[a].is = "closed" => w \in Range(out[a].ids)

Enr(t) == EnrolOK(pc[t], who[t], at[t], outcome, enrolled)

EnrolInv ==
    /\ \A t \in Task : Enr(t)
    /\ \A t, u \in Task : pc[t] \in Joining /\ pc[u] \in Joining /\ who[t] = who[u] => t = u

-----------------------------------------------------------------------------
(* Kept: the rank of a place among the places kept numbers them from 1.    *)
Rank(P, i) == Cardinality({j \in P : j <= i})

(* Ranks number the places of P from 1 to their number.                    *)
LEMMA RankFacts ==
    ASSUME NEW n \in Nat, NEW P \in SUBSET (1 .. n)
    PROVE  /\ Cardinality(P) \in Nat
           /\ \A i \in P : Rank(P, i) \in 1 .. Cardinality(P)
           /\ \A i, j \in P : Rank(P, i) = Rank(P, j) => i = j
           /\ \A k \in 1 .. Cardinality(P) : \E i \in P : Rank(P, i) = k
<1> DEFINE Below(i) == {j \in P : j <= i}
           c == Cardinality(P)
<1>1. IsFiniteSet(1 .. n)
    BY FS_Interval
<1>2. IsFiniteSet(P)
    BY <1>1, FS_Subset
<1>3. c \in Nat
    BY <1>2, FS_CardinalityType
<1>4. ASSUME NEW i \in P
      PROVE  IsFiniteSet(Below(i)) /\ Rank(P, i) \in 1 .. c
    <2>1. Below(i) \in SUBSET P
        OBVIOUS
    <2>2. IsFiniteSet(Below(i)) /\ Cardinality(Below(i)) <= c
        BY <1>2, <2>1, FS_Subset
    <2>3. Cardinality(Below(i)) \in Nat
        BY <2>2, FS_CardinalityType
    <2>4. Below(i) # {}
        BY <1>1
    <2>5. Cardinality(Below(i)) # 0
        BY <2>2, <2>4, FS_EmptySet
    <2> HIDE DEF Below, c
    <2>6. Cardinality(Below(i)) \in 1 .. c
        BY <1>3, <2>2, <2>3, <2>5
    <2> QED
        BY <2>2, <2>6 DEF Rank, Below
<1>5. ASSUME NEW i \in P, NEW j \in P, i < j
      PROVE  Rank(P, i) # Rank(P, j)
    <2>0. \A k \in P : k \in Int
        OBVIOUS
    <2>1. Below(i) \in SUBSET Below(j)
        <3> SUFFICES ASSUME NEW k \in Below(i) PROVE k \in Below(j)
            OBVIOUS
        <3>1. k \in P /\ k <= i
            OBVIOUS
        <3>2. k <= j
            BY <1>5, <2>0, <3>1
        <3> QED
            BY <3>1, <3>2
    <2>2. Below(i) # Below(j)
        BY <1>5
    <2>3. IsFiniteSet(Below(j))
        BY <1>4
    <2>4. Cardinality(Below(i)) # Cardinality(Below(j))
        BY <2>1, <2>2, <2>3, FS_Subset
    <2> QED
        BY <2>4 DEF Rank
<1>6. \A i, j \in P : Rank(P, i) = Rank(P, j) => i = j
    <2> TAKE i, j \in P
    <2>1. i \in Int /\ j \in Int
        OBVIOUS
    <2> QED
        BY <1>5, <2>1
<1>7. \A k \in 1 .. c : \E i \in P : Rank(P, i) = k
    <2> DEFINE r == [i \in P |-> Rank(P, i)]
    <2>1. r \in [P -> 1 .. c]
        BY <1>4
    <2>2. IsInjective(r)
        BY <1>6 DEF IsInjective
    <2>3. r \in Injection(P, 1 .. c)
        BY <2>1, <2>2 DEF Injection
    <2>4. IsFiniteSet(1 .. c) /\ Cardinality(1 .. c) = c
        <3>1. 1 \in Int /\ c \in Int
            BY <1>3
        <3>2. IsFiniteSet(1 .. c) /\ Cardinality(1 .. c) = IF 1 > c THEN 0 ELSE c - 1 + 1
            BY <3>1, FS_Interval
        <3> HIDE DEF c
        <3> QED
            BY <1>3, <3>2
    <2>5. r \in Surjection(P, 1 .. c)
        BY <2>3, <2>4, FS_Injection
    <2> QED
        BY <2>5 DEF Surjection
<1> QED
    BY <1>3, <1>4, <1>6, <1>7

(* What Kept returns is what is in S, once each if s has it once each.     *)
LEMMA KeptFacts ==
    ASSUME NEW X, NEW s \in Seq(X), IsInjective(s), NEW S
    PROVE  /\ Kept(s, S) \in Seq(X)
           /\ IsInjective(Kept(s, S))
           /\ Range(Kept(s, S)) = Range(s) \cap S
<1> DEFINE P == {i \in DOMAIN s : s[i] \in S}
           c == Cardinality(P)
           N(k) == CHOOSE i \in P : Rank(P, i) = k
           K == [k \in 1 .. c |-> s[N(k)]]
<1>1. Kept(s, S) = K
    BY DEF Kept, Rank
<1>2. P \in SUBSET (1 .. Len(s)) /\ Len(s) \in Nat
    OBVIOUS
<1>3. /\ c \in Nat
      /\ \A i, j \in P : Rank(P, i) = Rank(P, j) => i = j
      /\ \A k \in 1 .. c : \E i \in P : Rank(P, i) = k
    BY <1>2, RankFacts
<1>4. \A k \in 1 .. c : N(k) \in P /\ Rank(P, N(k)) = k
    BY <1>3
<1>5. \A i \in P : i \in DOMAIN s /\ s[i] \in S /\ s[i] \in X
    OBVIOUS
<1>6. \A i \in P : Rank(P, i) \in 1 .. c
    BY <1>2, RankFacts
<1>7. \A i \in P : N(Rank(P, i)) = i
    BY <1>3, <1>4, <1>6
<1> HIDE DEF N, c
<1>8. K \in Seq(X)
    <2>1. \A k \in 1 .. c : s[N(k)] \in X
        BY <1>4, <1>5
    <2>2. K \in [1 .. c -> X]
        BY <2>1
    <2> HIDE DEF K
    <2> QED
        BY <1>3, <2>2
<1>9. IsInjective(K)
    <2> SUFFICES ASSUME NEW a \in 1 .. c, NEW b \in 1 .. c, s[N(a)] = s[N(b)]
                 PROVE  a = b
        BY DEF IsInjective
    <2>1. N(a) = N(b)
        BY <1>4, <1>5 DEF IsInjective
    <2> QED
        BY <1>4, <2>1
<1>10. Range(K) = {s[N(k)] : k \in 1 .. c}
    BY DEF Range
<1>11. Range(K) = Range(s) \cap S
    <2>1. ASSUME NEW x \in Range(K)
          PROVE  x \in Range(s) \cap S
        BY <1>4, <1>5, <1>10, <2>1 DEF Range
    <2>2. ASSUME NEW x \in Range(s) \cap S
          PROVE  x \in Range(K)
        <3>1. PICK i \in P : s[i] = x
            BY DEF Range
        <3> QED
            BY <1>6, <1>7, <1>10, <3>1
    <2> QED
        BY <2>1, <2>2
<1> QED
    BY <1>1, <1>8, <1>9, <1>11
-----------------------------------------------------------------------------
(* Rosters name nobody twice.                                              *)

(* An empty roster.                                                        *)
LEMMA IdsEmpty == <<>> \in Ids /\ Range(<<>>) = {}
    BY DEF Ids, IsInjective, Range

(* A member enrolled after the others.                                     *)
LEMMA IdsAppend ==
    ASSUME NEW s \in Ids, NEW m \in Member, m \notin Range(s)
    PROVE  Append(s, m) \in Ids /\ Range(Append(s, m)) = Range(s) \cup {m}
<1>1. s \in Seq(Member) /\ \A a, b \in 1 .. Len(s) : s[a] = s[b] => a = b
    BY DEF Ids, IsInjective
<1>2. \A a \in 1 .. Len(s) : s[a] # m
    BY <1>1 DEF Range
<1> DEFINE z == Append(s, m)
<1>3. z \in Seq(Member) /\ Len(z) = Len(s) + 1 /\ z[Len(s) + 1] = m
    BY <1>1
<1>4. \A a \in 1 .. Len(s) : z[a] = s[a]
    BY <1>1
<1>5. Len(s) \in Nat /\ DOMAIN z = 1 .. Len(s) + 1 /\ DOMAIN s = 1 .. Len(s)
    BY <1>1, <1>3
<1> HIDE DEF z
<1>6. IsInjective(z)
    <2> SUFFICES ASSUME NEW a \in 1 .. Len(s) + 1, NEW b \in 1 .. Len(s) + 1, z[a] = z[b]
                 PROVE  a = b
        BY <1>5 DEF IsInjective
    <2>1. CASE a \in 1 .. Len(s) /\ b \in 1 .. Len(s)
        BY <1>1, <1>4, <2>1
    <2>2. CASE a = Len(s) + 1 \/ b = Len(s) + 1
        BY <1>2, <1>3, <1>4, <1>5, <2>2
    <2> QED
        BY <1>5, <2>1, <2>2
<1>7. Range(z) = Range(s) \cup {m}
    <2>1. \A x \in Range(z) : x \in Range(s) \cup {m}
        BY <1>3, <1>4, <1>5 DEF Range
    <2>2. \A x \in Range(s) \cup {m} : x \in Range(z)
        BY <1>3, <1>4, <1>5 DEF Range
    <2> QED
        BY <2>1, <2>2
<1> QED
    BY <1>3, <1>6, <1>7 DEF Ids, z

(* Two rosters with nobody in common, one after the other.                 *)
LEMMA IdsConcat ==
    ASSUME NEW s \in Ids, NEW y \in Ids, Range(s) \cap Range(y) = {}
    PROVE  s \o y \in Ids /\ Range(s \o y) = Range(s) \cup Range(y)
<1>1. s \in Seq(Member) /\ \A a, b \in 1 .. Len(s) : s[a] = s[b] => a = b
    BY DEF Ids, IsInjective
<1>2. y \in Seq(Member) /\ \A a, b \in 1 .. Len(y) : y[a] = y[b] => a = b
    BY DEF Ids, IsInjective
<1>3. \A a \in 1 .. Len(s), b \in 1 .. Len(y) : s[a] # y[b]
    BY <1>1, <1>2 DEF Range
<1> DEFINE z == s \o y
           k == Len(s)
           n == Len(y)
<1>4. k \in Nat /\ n \in Nat
    BY <1>1, <1>2
<1>5. z \in Seq(Member) /\ Len(z) = k + n
    BY <1>1, <1>2
<1>6. \A a \in 1 .. k : z[a] = s[a]
    BY <1>1, <1>2
<1>7. \A a \in 1 .. n : z[k + a] = y[a]
    BY <1>1, <1>2
<1>8. DOMAIN z = 1 .. k + n /\ DOMAIN s = 1 .. k /\ DOMAIN y = 1 .. n
    BY <1>1, <1>2, <1>5
<1> HIDE DEF z
<1>9. \A a \in 1 .. k + n : a \in 1 .. k \/ \E b \in 1 .. n : a = k + b
    <2> TAKE a \in 1 .. k + n
    <2> HIDE DEF k, n
    <2>1. CASE a <= k
        BY <1>4, <2>1
    <2>2. CASE a > k
        <3>1. a - k \in 1 .. n /\ a = k + (a - k)
            BY <1>4, <2>2
        <3> QED
            BY <3>1
    <2> QED
        BY <1>4, <2>1, <2>2
<1> HIDE DEF k, n
<1>10. IsInjective(z)
    <2> SUFFICES ASSUME NEW a \in 1 .. k + n, NEW b \in 1 .. k + n, z[a] = z[b]
                 PROVE  a = b
        BY <1>8 DEF IsInjective
    <2>1. CASE a \in 1 .. k /\ b \in 1 .. k
        BY <1>1, <1>6, <2>1 DEF k
    <2>2. CASE a \in 1 .. k /\ \E c \in 1 .. n : b = k + c
        <3>1. PICK c \in 1 .. n : b = k + c
            BY <2>2
        <3>2. z[a] = s[a] /\ z[b] = y[c]
            BY <1>6, <1>7, <2>2, <3>1
        <3> QED
            BY <1>3, <2>2, <3>2 DEF k, n
    <2>3. CASE b \in 1 .. k /\ \E c \in 1 .. n : a = k + c
        <3>1. PICK c \in 1 .. n : a = k + c
            BY <2>3
        <3>2. z[b] = s[b] /\ z[a] = y[c]
            BY <1>6, <1>7, <2>3, <3>1
        <3> QED
            BY <1>3, <2>3, <3>2 DEF k, n
    <2>4. CASE (\E c \in 1 .. n : a = k + c) /\ (\E c \in 1 .. n : b = k + c)
        <3>1. PICK c \in 1 .. n : a = k + c
            BY <2>4
        <3>2. PICK d \in 1 .. n : b = k + d
            BY <2>4
        <3>3. y[c] = y[d]
            BY <1>7, <3>1, <3>2
        <3> QED
            BY <1>2, <3>1, <3>2, <3>3 DEF n
    <2> QED
        BY <1>9, <2>1, <2>2, <2>3, <2>4
<1>11. Range(z) = Range(s) \cup Range(y)
    <2>1. ASSUME NEW x \in Range(z)
          PROVE  x \in Range(s) \cup Range(y)
        <3>1. PICK a \in 1 .. k + n : x = z[a]
            BY <1>8 DEF Range
        <3> QED
            BY <1>6, <1>7, <1>8, <1>9, <3>1 DEF Range
    <2>2. ASSUME NEW x \in Range(s)
          PROVE  x \in Range(z)
        <3>1. PICK a \in 1 .. k : x = s[a]
            BY <1>8 DEF Range
        <3>2. a \in 1 .. k + n
            BY <1>4
        <3> QED
            BY <1>6, <1>8, <3>1, <3>2 DEF Range
    <2>3. ASSUME NEW x \in Range(y)
          PROVE  x \in Range(z)
        <3>1. PICK a \in 1 .. n : x = y[a]
            BY <1>8 DEF Range
        <3>2. k + a \in 1 .. k + n
            BY <1>4
        <3> QED
            BY <1>7, <1>8, <3>1, <3>2 DEF Range
    <2> QED
        BY <2>1, <2>2, <2>3
<1> QED
    BY <1>5, <1>10, <1>11 DEF Ids, z

(* What is kept of a roster is one.                                        *)
LEMMA KeptIds ==
    ASSUME NEW s \in Ids, NEW S
    PROVE  Kept(s, S) \in Ids /\ Range(Kept(s, S)) = Range(s) \cap S
<1>1. s \in Seq(Member) /\ IsInjective(s)
    BY DEF Ids
<1> QED
    BY <1>1, KeptFacts DEF Ids

(* A sequence over fewer values is one over more.                          *)
LEMMA SeqWider ==
    ASSUME NEW X, NEW Y, X \subseteq Y, NEW s \in Seq(X)
    PROVE  s \in Seq(Y)
    OBVIOUS

(* A sequence of X all of whose elements are in Y.                         *)
LEMMA SeqWithin ==
    ASSUME NEW X, NEW Y, NEW s \in Seq(X), Range(s) \subseteq Y
    PROVE  s \in Seq(Y)
<1>1. \A a \in 1 .. Len(s) : s[a] \in Y
    BY DEF Range
<1>2. s \in [1 .. Len(s) -> Y] /\ Len(s) \in Nat
    BY <1>1
<1> QED
    BY <1>2

(* No roster is none.                                                      *)
LEMMA NoRosterFacts ==
    /\ NoRoster \in Seq({"no roster"}) /\ IsInjective(NoRoster)
    /\ Range(NoRoster) = {"no roster"} /\ NoRoster \notin Ids
<1>1. NoRoster \in Seq({"no roster"}) /\ Len(NoRoster) = 1 /\ NoRoster[1] = "no roster"
    BY DEF NoRoster
<1>2. DOMAIN NoRoster = 1 .. 1
    BY DEF NoRoster
<1>3. \A a \in 1 .. 1 : a = 1
    OBVIOUS
<1>4. IsInjective(NoRoster)
    BY <1>2, <1>3 DEF IsInjective
<1>5. Range(NoRoster) = {"no roster"}
    <2>1. \A x \in Range(NoRoster) : x = "no roster"
        BY <1>1, <1>2, <1>3 DEF Range
    <2>2. "no roster" \in Range(NoRoster)
        <3>1. 1 \in DOMAIN NoRoster
            BY <1>2
        <3>2. NoRoster[1] \in Range(NoRoster)
            BY <3>1 DEF Range
        <3> QED
            BY <1>1, <3>2
    <2> QED
        BY <2>1, <2>2
<1>6. ASSUME NoRoster \in Seq(Member)
      PROVE  FALSE
    <2>1. NoRoster[1] \in Member
        BY <1>2, <1>6
    <2> QED
        BY <1>1, <2>1, GroupAssumption
<1> QED
    BY <1>1, <1>4, <1>5, <1>6 DEF Ids

(* finalize_close sorts whoever is enrolled, and drops nobody.             *)
LEMMA InOrderFacts ==
    ASSUME NEW ids \in Ids, NEW previous \in Ids \cup {NoRoster}
    PROVE  InOrder(ids, previous) \in Ids /\ Range(InOrder(ids, previous)) = Range(ids)
<1> DEFINE X == Member \cup {"no roster"}
           old == Kept(previous, Range(ids))
           fresh == Kept(ids, Range(ids) \ Range(previous))
<1>1. previous \in Seq(X) /\ IsInjective(previous)
    <2>1. Member \subseteq X /\ {"no roster"} \subseteq X
        OBVIOUS
    <2> HIDE DEF X
    <2>2. CASE previous \in Ids
        <3>1. previous \in Seq(Member) /\ IsInjective(previous)
            BY <2>2 DEF Ids
        <3> QED
            BY <2>1, <3>1, SeqWider
    <2>3. CASE previous = NoRoster
        <3>1. NoRoster \in Seq(X)
            BY <2>1, SeqWider, NoRosterFacts
        <3> QED
            BY <2>3, <3>1, NoRosterFacts
    <2> QED
        BY <2>2, <2>3
<1>2. old \in Seq(X) /\ IsInjective(old) /\ Range(old) = Range(previous) \cap Range(ids)
    <2> HIDE DEF X
    <2> QED
        BY <1>1, KeptFacts
<1>3. Range(ids) \subseteq Member
    BY DEF Ids, Range
<1>4. old \in Ids
    <2> HIDE DEF old, X
    <2>1. Range(old) \subseteq Member
        BY <1>2, <1>3
    <2>2. old \in Seq(Member)
        BY <1>2, <2>1, SeqWithin
    <2> QED
        BY <1>2, <2>2 DEF Ids
<1>5. fresh \in Ids /\ Range(fresh) = Range(ids) \cap (Range(ids) \ Range(previous))
    BY KeptIds
<1>6. Range(old) \cap Range(fresh) = {} /\ Range(old) \cup Range(fresh) = Range(ids)
    BY <1>2, <1>5
<1>7. old \o fresh \in Ids /\ Range(old \o fresh) = Range(old) \cup Range(fresh)
    <2> HIDE DEF old, fresh
    <2> QED
        BY <1>4, <1>5, <1>6, IdsConcat
<1> QED
    BY <1>6, <1>7 DEF InOrder
-----------------------------------------------------------------------------
(* What a step of one handler does to what holds of the others.            *)

(* The round stays, but fewer may be awaited and its deadline may pass.    *)
LEMMA RoundStays ==
    ASSUME NEW p, NEW w, NEW a \in Nat, NEW s, NEW r \in Replies, NEW op, NEW out,
           NEW aw, NEW aw2, NEW ex \in BOOLEAN, NEW ex2 \in BOOLEAN, NEW g \in Nat, NEW g2 \in Nat,
           NEW mi, NEW mi2,
           TaskOK(p, w, a, s, r, op, out, aw, ex, g, mi),
           aw = {} => aw2 = {}, ex => ex2, g <= g2, mi \subseteq mi2
    PROVE  TaskOK(p, w, a, s, r, op, out, aw2, ex2, g2, mi2)
<1>1. r.gen \in Nat
    BY DEF Replies
<1> QED
    BY <1>1 DEF TaskOK

(* Every round there was is closed or abandoned, and a new one may be      *)
(* open: nothing that a handler without the slot relies on.                *)
LEMMA RoundOver ==
    ASSUME NEW p, NEW w, NEW a \in Nat, NEW s, NEW r, NEW op, NEW op2,
           NEW out \in Seq(Outcomes), NEW out2 \in Seq(Outcomes),
           NEW aw, NEW aw2, NEW ex, NEW ex2, NEW g, NEW mi,
           TaskOK(p, w, a, s, r, op, out, aw, ex, g, mi), p \notin Holding,
           Len(out) <= Len(out2),
           \A n \in 1 .. Len(out) : out2[n].is # "unset" /\ (out[n].is = "closed" => out2[n].is = "closed")
    PROVE  TaskOK(p, w, a, s, r, op2, out2, aw2, ex2, g, mi)
<1>1. p \notin Opening \cup OpenDone \cup Closing \cup {"roster", "deadlineRoster"}
    BY DEF Holding, Opening, OpenDone, Closing
<1>2. p \in Enrolled => a \in 1 .. Len(out)
    BY DEF TaskOK
<1>3. p \in Enrolled => a \in 1 .. Len(out2) /\ out2[a].is # "unset"
    BY <1>2
<1>4. p = "register" => out2[a].is = "closed"
    BY <1>2 DEF TaskOK, Enrolled
<1> QED
    BY <1>1, <1>3, <1>4 DEF TaskOK, Enrolled, Closing

(* A step of the handler t, as the others see it.                          *)
Moved(t) ==
    \A u \in Task \ {t} : /\ pc'[u] = pc[u] /\ who'[u] = who[u] /\ at'[u] = at[u]
                          /\ pass'[u] = pass[u] /\ reply'[u] = reply[u]

(* A step that leaves the round open.                                      *)
LEMMA StaysInv ==
    ASSUME GroupInv, NEW t \in Task, Moved(t), open' = open, outcome' = outcome,
           awaiting = {} => awaiting' = {}, expired' \in BOOLEAN, expired => expired',
           gen' \in Nat, gen <= gen', minted \subseteq minted', Own(t)'
    PROVE  TasksOK'
<1> SUFFICES ASSUME NEW u \in Task, u # t
             PROVE  Own(u)'
    BY DEF TasksOK
<1>1. at[u] \in Nat /\ reply[u] \in Replies /\ expired \in BOOLEAN /\ gen \in Nat
    BY DEF GroupInv, GroupType, TaskType, AskType, RoundType, RecordType
<1>2. Own(u)
    BY DEF GroupInv, TasksOK
<1>3. TaskOK(pc[u], who[u], at[u], pass[u], reply[u], open, outcome, awaiting', expired', gen', minted')
    BY <1>1, <1>2, RoundStays DEF Own
<1> QED
    BY <1>3 DEF Own, Moved

(* Nobody but its holder is in a critical place while the slot is held.    *)
LEMMA OthersOut ==
    ASSUME GroupInv, NEW t \in Task, pc[t] \in Holding \/ ~slot, NEW u \in Task, u # t
    PROVE  pc[u] \notin Holding
    BY DEF GroupInv, SlotOK

(* A step that ends the round, by the handler with the slot.               *)
LEMMA OverInv ==
    ASSUME GroupInv, NEW t \in Task, pc[t] \in Holding \/ ~slot, Moved(t),
           outcome' \in Seq(Outcomes), Len(outcome) <= Len(outcome'),
           \A n \in 1 .. Len(outcome) :
               outcome'[n].is # "unset" /\ (outcome[n].is = "closed" => outcome'[n].is = "closed"),
           gen' = gen, minted' = minted, Own(t)'
    PROVE  TasksOK'
<1> SUFFICES ASSUME NEW u \in Task, u # t
             PROVE  Own(u)'
    BY DEF TasksOK
<1>1. at[u] \in Nat /\ outcome \in Seq(Outcomes)
    BY DEF GroupInv, GroupType, TaskType, RoundType
<1>2. Own(u)
    BY DEF GroupInv, TasksOK
<1>3. pc[u] \notin Holding
    BY OthersOut
<1>4. TaskOK(pc[u], who[u], at[u], pass[u], reply[u], open', outcome', awaiting', expired', gen, minted)
    BY <1>1, <1>2, <1>3, RoundOver DEF Own
<1> QED
    BY <1>4 DEF Own, Moved

(* Every request is some handler's.                                        *)
LEMMA EntryTask ==
    ASSUME NEW q \in Seq(Entries)
    PROVE  \A i \in 1 .. Len(q) : q[i] \in Entries /\ q[i].task \in Task
<1> TAKE i \in 1 .. Len(q)
<1>1. q[i] \in Entries
    OBVIOUS
<1>2. q[i].task \in Task
    BY <1>1 DEF Entries
<1> QED
    BY <1>1, <1>2

(* A handler with no request in the queue leaves the queue as it was.      *)
LEMMA QueueStays ==
    ASSUME GroupInv, NEW t \in Task, Moved(t), queue' = queue, reply[t].res # "queued"
    PROVE  QueueOK(queue', pc', reply')
<1>1. queue \in Seq(Entries)
    BY DEF GroupInv, GroupType, AskType
<1>2. \A i \in 1 .. Len(queue) : queue[i].task \in Task
    BY <1>1, EntryTask
<1>3. \A i \in 1 .. Len(queue) : queue[i].task # t
    BY DEF GroupInv, QueueOK
<1> QED
    BY <1>2, <1>3 DEF GroupInv, QueueOK, Moved

(* A handler puts a request in the queue.                                  *)
LEMMA QueueGrows ==
    ASSUME GroupInv, NEW t \in Task, Moved(t), reply[t].res # "queued", reply'[t] = Waiting,
           NEW e \in Entries, e.task = t, Fits(pc'[t], e.event), queue' = Append(queue, e)
    PROVE  QueueOK(queue', pc', reply') /\ queue' \in Seq(Entries)
<1>1. queue \in Seq(Entries) /\ Len(queue) \in Nat
    BY DEF GroupInv, GroupType, AskType
<1>2. \A i \in 1 .. Len(queue) : queue[i].task \in Task
    BY <1>1, EntryTask
<1>3. \A i \in 1 .. Len(queue) : queue[i].task # t
    BY DEF GroupInv, QueueOK
<1>4. queue' \in Seq(Entries) /\ Len(queue') = Len(queue) + 1 /\ queue'[Len(queue) + 1] = e
    BY <1>1
<1>5. \A i \in 1 .. Len(queue) : queue'[i] = queue[i]
    BY <1>1
<1>6. ASSUME NEW i \in 1 .. Len(queue')
      PROVE  reply'[queue'[i].task].res = "queued" /\ Fits(pc'[queue'[i].task], queue'[i].event)
    <2>1. CASE i \in 1 .. Len(queue)
        BY <1>2, <1>3, <1>5, <2>1 DEF GroupInv, QueueOK, Moved
    <2>2. CASE i = Len(queue) + 1
        BY <1>4, <2>2 DEF Waiting
    <2> QED
        BY <1>1, <1>4, <2>1, <2>2
<1>7. ASSUME NEW i \in 1 .. Len(queue'), NEW j \in 1 .. Len(queue'), queue'[i].task = queue'[j].task
      PROVE  i = j
    <2>1. CASE i \in 1 .. Len(queue) /\ j \in 1 .. Len(queue)
        BY <1>5, <1>7, <2>1 DEF GroupInv, QueueOK
    <2>2. CASE i = Len(queue) + 1 \/ j = Len(queue) + 1
        BY <1>1, <1>3, <1>4, <1>5, <1>7, <2>2
    <2> QED
        BY <1>1, <1>4, <2>1, <2>2
<1> QED
    BY <1>4, <1>6, <1>7 DEF QueueOK
-----------------------------------------------------------------------------
(* The slot.                                                               *)

(* A step neither into nor out of the places that hold it.                 *)
LEMMA SlotStays ==
    ASSUME GroupInv, NEW t \in Task, Moved(t), slot' = slot, pc'[t] \in Holding <=> pc[t] \in Holding
    PROVE  SlotOK(slot', pc')
<1>1. \A u \in Task : pc'[u] \in Holding <=> pc[u] \in Holding
    BY DEF Moved
<1>2. SlotOK(slot, pc)
    BY DEF GroupInv
<1> QED
    BY <1>1, <1>2 DEF SlotOK

(* A claim, of a slot that is free.                                        *)
LEMMA SlotTaken ==
    ASSUME GroupInv, NEW t \in Task, Moved(t), ~slot, slot' = TRUE, pc'[t] \in Holding
    PROVE  SlotOK(slot', pc')
<1>1. \A u \in Task \ {t} : pc'[u] \notin Holding
    BY DEF Moved, GroupInv, SlotOK
<1> QED
    BY <1>1 DEF SlotOK

(* Its release, by its holder.                                             *)
LEMMA SlotFreed ==
    ASSUME GroupInv, NEW t \in Task, Moved(t), pc[t] \in Holding, slot' = FALSE, pc'[t] \notin Holding
    PROVE  SlotOK(slot', pc')
<1>1. \A u \in Task \ {t} : pc'[u] \notin Holding
    BY OthersOut DEF Moved
<1> QED
    BY <1>1 DEF SlotOK

-----------------------------------------------------------------------------
(* The rounds.                                                             *)

(* The group may move on.                                                  *)
LEMMA RoundsLater ==
    ASSUME NEW op, NEW out \in Seq(Outcomes), NEW g \in Nat, NEW g2 \in Nat, g <= g2, RoundsOK(op, out, g)
    PROVE  RoundsOK(op, out, g2)
<1>1. \A r \in 1 .. Len(out) : out[r].gen \in Nat
    <2> TAKE r \in 1 .. Len(out)
    <2>1. out[r] \in Outcomes
        OBVIOUS
    <2> QED
        BY <2>1 DEF Outcomes
<1> QED
    BY <1>1 DEF RoundsOK

(* install_round adds a round where none is open.                          *)
LEMMA RoundsInstall ==
    ASSUME NEW op \in Nat, NEW out \in Seq(Outcomes), NEW g \in Nat, RoundsOK(op, out, g),
           ~(op # 0 /\ out[op].is = "unset")
    PROVE  LET new == Append(out, Unset)
           IN  /\ new \in Seq(Outcomes) /\ Len(new) = Len(out) + 1 /\ new[Len(out) + 1] = Unset
               /\ \A n \in 1 .. Len(out) : new[n] = out[n] /\ new[n].is # "unset"
               /\ RoundsOK(Len(out) + 1, new, g)
<1> DEFINE new == Append(out, Unset)
           k == Len(out)
<1>1. Unset \in Outcomes
    BY DEF Unset, Outcomes
<1>2. new \in Seq(Outcomes) /\ Len(new) = k + 1 /\ new[k + 1] = Unset
    BY <1>1
<1>3. \A n \in 1 .. k : new[n] = out[n]
    BY <1>1
<1>4. k \in Nat
    OBVIOUS
<1>5. \A n \in 1 .. k : out[n].is # "unset"
    BY DEF RoundsOK
<1> HIDE DEF new
<1>6. \A n \in 1 .. k : out[n].gen <= g
    BY DEF RoundsOK
<1>7. \A r, s \in 1 .. k : r < s /\ out[r].is = "closed" /\ out[s].is = "closed" => out[r].gen < out[s].gen
    BY DEF RoundsOK
<1> HIDE DEF k
<1>8. \A n \in 1 .. k + 1 : n \in 1 .. k \/ n = k + 1
    BY <1>4
<1>9. Unset.is = "unset" /\ Unset.gen = 0
    BY DEF Unset
<1>10. \A r \in 1 .. k + 1 : new[r].gen <= g
    BY <1>2, <1>3, <1>6, <1>8, <1>9
<1>11. \A r \in 1 .. k + 1 : new[r].is = "unset" => r = k + 1
    BY <1>3, <1>5, <1>8
<1>12. ASSUME NEW r \in 1 .. k + 1, NEW s \in 1 .. k + 1, r < s, new[r].is = "closed", new[s].is = "closed"
       PROVE  new[r].gen < new[s].gen
    <2>1. r \in 1 .. k /\ s \in 1 .. k
        BY <1>2, <1>8, <1>9, <1>12
    <2> QED
        BY <1>3, <1>7, <1>12, <2>1
<1>13. RoundsOK(k + 1, new, g)
    BY <1>2, <1>10, <1>11, <1>12 DEF RoundsOK
<1> QED
    BY <1>2, <1>3, <1>5, <1>13 DEF new, k

(* The open round is closed, later than every round before it, or          *)
(* abandoned.                                                              *)
LEMMA RoundsEnd ==
    ASSUME NEW op \in Nat, NEW out \in Seq(Outcomes), NEW g \in Nat, RoundsOK(op, out, g),
           op # 0, op <= Len(out), out[op].is = "unset",
           NEW c \in Outcomes, c.is # "unset", c.gen <= g,
           c.is = "closed" => \A n \in 1 .. Len(out) : out[n].is = "closed" => out[n].gen < c.gen,
           NEW op2 \in {0, op}
    PROVE  LET new == [out EXCEPT ![op] = c]
           IN  /\ new \in Seq(Outcomes) /\ Len(new) = Len(out) /\ new[op] = c
               /\ \A n \in 1 .. Len(out) : new[n].is # "unset"
               /\ \A n \in 1 .. Len(out) : n # op => new[n] = out[n]
               /\ RoundsOK(op2, new, g)
<1> DEFINE new == [out EXCEPT ![op] = c]
           k == Len(out)
<1>1. k \in Nat /\ op \in 1 .. k
    OBVIOUS
<1>2. op = k
    BY DEF RoundsOK
<1>3. new \in Seq(Outcomes) /\ Len(new) = k
    OBVIOUS
<1>4. new[op] = c /\ \A n \in 1 .. k : n # op => new[n] = out[n]
    BY <1>1
<1>5. \A n \in 1 .. k : n # op => out[n].is # "unset"
    BY DEF RoundsOK
<1>6. \A n \in 1 .. k : out[n].gen <= g
    BY DEF RoundsOK
<1>7. \A r, s \in 1 .. k : r < s /\ out[r].is = "closed" /\ out[s].is = "closed" => out[r].gen < out[s].gen
    BY DEF RoundsOK
<1> HIDE DEF new, k
<1>8. \A n \in 1 .. k : new[n].is # "unset"
    BY <1>4, <1>5
<1>9. \A n \in 1 .. k : new[n].gen <= g
    BY <1>4, <1>6
<1>10. ASSUME NEW r \in 1 .. k, NEW s \in 1 .. k, r < s, new[r].is = "closed", new[s].is = "closed"
       PROVE  new[r].gen < new[s].gen
    <2>1. r # op
        BY <1>1, <1>2, <1>10
    <2>2. new[r] = out[r]
        BY <1>4, <2>1
    <2>3. CASE s = op
        BY <1>4, <1>10, <2>2, <2>3 DEF k
    <2>4. CASE s # op
        BY <1>4, <1>7, <1>10, <2>2, <2>4
    <2> QED
        BY <2>3, <2>4
<1>11. RoundsOK(op2, new, g)
    BY <1>2, <1>3, <1>8, <1>9, <1>10 DEF RoundsOK
<1> QED
    BY <1>3, <1>4, <1>8, <1>11 DEF new, k
-----------------------------------------------------------------------------
(* Where a handler goes.                                                   *)

(* What happens to the handler t, and to no other.                         *)
Put(t, p, w, a, s) ==
    /\ TaskType'
    /\ pc'[t] = p /\ who'[t] = w /\ at'[t] = a /\ pass'[t] = s
    /\ \A u \in Task \ {t} : pc'[u] = pc[u] /\ who'[u] = who[u] /\ at'[u] = at[u] /\ pass'[u] = pass[u]

(* It ends.                                                                *)
LEMMA DonePut ==
    ASSUME GroupInv, NEW t \in Task, Done(t)
    PROVE  Put(t, "idle", Somebody, 0, 0)
<1>1. Somebody \in Member
    BY GroupAssumption DEF Somebody
<1>0. MaxReplans \in Nat
    BY GroupAssumption
<1>2. "idle" \in Labels /\ 0 \in 0 .. MaxReplans
    BY <1>0 DEF Labels
<1> QED
    BY <1>1, <1>2 DEF GroupInv, GroupType, TaskType, Done, Goto, Put

(* It goes on elsewhere.                                                   *)
LEMMA GotoPut ==
    ASSUME GroupInv, NEW t \in Task, NEW p \in Labels, Goto(t, p), UNCHANGED <<who, at, pass>>
    PROVE  Put(t, p, who[t], at[t], pass[t])
    BY DEF GroupInv, GroupType, TaskType, Goto, Put

(* It plans again.                                                         *)
LEMMA PassPut ==
    ASSUME GroupInv, NEW t \in Task, NEW p \in Labels, Goto(t, p), NextPass(t), UNCHANGED <<who, at>>,
           pass[t] < MaxReplans
    PROVE  Put(t, p, who[t], at[t], pass[t] + 1)
<1>0. MaxReplans \in Nat
    BY GroupAssumption
<1>1. pass[t] + 1 \in 0 .. MaxReplans
    BY <1>0 DEF GroupInv, GroupType, TaskType
<1> QED
    BY <1>1 DEF GroupInv, GroupType, TaskType, Goto, NextPass, Put

(* It starts.                                                              *)
LEMMA AcceptPut ==
    ASSUME GroupInv, NEW t \in Task, NEW m \in Member, NEW p \in Labels, NEW n \in Nat, NEW g, Accept(t, m, p, n, g)
    PROVE  Put(t, p, m, n, pass[t]) /\ pc[t] = "idle"
    BY DEF GroupInv, GroupType, TaskType, Accept, Goto, Put

(* The two ways its answer changes hands.                                  *)
LEMMA PutMoves ==
    ASSUME NEW t \in Task, NEW p, NEW w, NEW a, NEW s, Put(t, p, w, a, s),
           \A u \in Task \ {t} : reply'[u] = reply[u]
    PROVE  Moved(t)
    BY DEF Put, Moved

LEMMA ForgetFacts ==
    ASSUME GroupInv, NEW t \in Task, Forget(t)
    PROVE  /\ reply'[t] = NotSent /\ \A u \in Task \ {t} : reply'[u] = reply[u]
           /\ AskType' /\ RecordType' /\ gen' = gen /\ queue' = queue
<1>1. NotSent \in Replies
    BY DEF NotSent, Replies
<1> QED
    BY <1>1 DEF GroupInv, GroupType, AskType, RecordType, Forget, recordVars

(* A handler that has asked for nothing has no answer.                     *)
LEMMA Unasked ==
    ASSUME GroupInv, NEW t \in Task, pc[t] \notin Asking
    PROVE  reply[t] = NotSent /\ reply[t].res # "queued"
    BY DEF GroupInv, TasksOK, Own, TaskOK, NotSent

(* An idle handler relies on nothing.                                      *)
LEMMA IdleOK ==
    ASSUME NEW w, NEW a, NEW s, NEW op, NEW out, NEW aw, NEW ex, NEW g \in Nat, NEW mi
    PROVE  TaskOK("idle", w, a, s, NotSent, op, out, aw, ex, g, mi)
    BY DEF TaskOK, NotSent, Joining, Opening, OpenDone, Enrolled, Timed, Closing

(* A step that leaves the round and the queue.                             *)
LEMMA StepStays ==
    ASSUME GroupInv, NEW t \in Task, NEW p, NEW w, NEW a, NEW s, Put(t, p, w, a, s),
           RecordType', AskType', gen' = gen, queue' = queue, reply[t].res # "queued",
           \A u \in Task \ {t} : reply'[u] = reply[u],
           RoundType', open' = open, outcome' = outcome, SlotOK(slot', pc'),
           awaiting = {} => awaiting' = {}, expired => expired',
           Own(t)', SessionType', CellType', minted \subseteq minted',
           AwaitsOK(open', outcome', awaiting', enrolled', expired', lastRound', live', lapsed')
    PROVE  GroupInv'
<1>1. Moved(t)
    BY PutMoves
<1>2. QueueOK(queue', pc', reply')
    BY <1>1, QueueStays
<1>3. RoundsOK(open', outcome', gen')
    BY DEF GroupInv
<1>4. gen \in Nat /\ gen' \in Nat /\ expired' \in BOOLEAN /\ gen <= gen'
    BY DEF GroupInv, GroupType, RecordType, RoundType
<1>5. TasksOK'
    BY <1>1, <1>4, StaysInv
<1> QED
    BY <1>2, <1>3, <1>5 DEF GroupInv, GroupType, Put

(* A step on one handler's own state.                                      *)
LEMMA Quiet ==
    ASSUME GroupInv, NEW t \in Task, NEW p, NEW w, NEW a, NEW s, Put(t, p, w, a, s),
           UNCHANGED <<actorVars, joinVars>>, pc[t] \notin Asking, p \notin Holding,
           Own(t)', SessionType', CellType', minted \subseteq minted',
           AwaitsOK(open, outcome, awaiting, enrolled, expired, lastRound, live', lapsed')
    PROVE  GroupInv'
<1> USE DEF actorVars, recordVars, joinVars
<1>1. Moved(t)
    BY PutMoves
<1>2. RecordType' /\ AskType' /\ RoundType'
    BY DEF GroupInv, GroupType, RecordType, AskType, RoundType
<1>3. reply[t].res # "queued"
    BY Unasked
<1>4. pc[t] \notin Holding
    BY DEF Asking, Holding, Opening, OpenDone
<1>5. SlotOK(slot', pc')
    BY <1>1, <1>4, SlotStays DEF Put
<1>6. AwaitsOK(open', outcome', awaiting', enrolled', expired', lastRound', live', lapsed')
    BY DEF AwaitsOK
<1> QED
    BY <1>2, <1>3, <1>5, <1>6, StepStays

(* The same where no session and no assignment changes.                    *)
LEMMA QuietStep ==
    ASSUME GroupInv, NEW t \in Task, NEW p, NEW w, NEW a, NEW s, Put(t, p, w, a, s),
           UNCHANGED <<actorVars, joinVars, sessionVars, cell, minted>>, pc[t] \notin Asking, p \notin Holding,
           TaskOK(p, w, a, s, NotSent, open, outcome, awaiting, expired, gen, minted)
    PROVE  GroupInv'
<1> USE DEF actorVars, recordVars, joinVars, sessionVars
<1>1. reply[t] = NotSent
    BY Unasked
<1>2. Own(t)'
    BY <1>1 DEF Own, Put
<1>3. SessionType' /\ CellType'
    BY DEF GroupInv, GroupType, SessionType, CellType
<1>4. AwaitsOK(open, outcome, awaiting, enrolled, expired, lastRound, live', lapsed')
    BY DEF GroupInv
<1> QED
    BY <1>2, <1>3, <1>4, Quiet

(* A handler that ends having done nothing more.                           *)
LEMMA QuietDone ==
    ASSUME GroupInv, NEW t \in Task, Done(t), pc[t] \notin Asking,
           UNCHANGED <<actorVars, joinVars, sessionVars, cell, minted>>
    PROVE  GroupInv'
<1>1. Put(t, "idle", Somebody, 0, 0)
    BY DonePut
<1>2. gen \in Nat
    BY DEF GroupInv, GroupType, RecordType
<1>3. "idle" \notin Holding
    BY DEF Holding
<1> QED
    BY <1>1, <1>2, <1>3, IdleOK, QuietStep

-----------------------------------------------------------------------------
(* JoinGroup's planning, the steps that only move the handler.             *)
LEMMA PlanBusyStep ==
    ASSUME GroupInv, NEW t \in Task, PlanBusy(t)
    PROVE  GroupInv'
<1>1. pc[t] \notin Asking
    BY DEF PlanBusy, Asking, Opening, OpenDone
<1> QED
    BY <1>1, QuietDone DEF PlanBusy, clientVars

LEMMA PlanRefusedStep ==
    ASSUME GroupInv, NEW t \in Task, PlanRefused(t)
    PROVE  GroupInv'
<1>1. pc[t] \notin Asking
    BY DEF PlanRefused, Asking, Opening, OpenDone
<1> QED
    BY <1>1, QuietDone DEF PlanRefused, clientVars

LEMMA PendingAbandonedStep ==
    ASSUME GroupInv, NEW t \in Task, PendingAbandoned(t)
    PROVE  GroupInv'
<1>1. pc[t] \notin Asking
    BY DEF PendingAbandoned, Asking, Opening, OpenDone
<1> QED
    BY <1>1, QuietDone DEF PendingAbandoned, clientVars

LEMMA ParkedStep ==
    ASSUME GroupInv, NEW t \in Task, Released(t) \/ ParkedTooLong(t)
    PROVE  GroupInv'
<1>1. pc[t] \notin Asking
    BY DEF Released, ParkedTooLong, Asking, Opening, OpenDone
<1> QED
    BY <1>1, QuietDone DEF Released, ParkedTooLong, clientVars

(* The places a waiting join passes through.                               *)
LEMMA PlanWaitStep ==
    ASSUME GroupInv, NEW t \in Task, PlanWait(t)
    PROVE  GroupInv'
<1>1. pc[t] = "plan" /\ pass[t] < MaxReplans /\ "plan" \in Labels
    BY DEF PlanWait, Labels, Joining
<1>2. Goto(t, "plan")
    BY <1>1 DEF PlanWait, Goto, GroupInv, GroupType, TaskType
<1>3. Put(t, "plan", who[t], at[t], pass[t] + 1)
    BY <1>1, <1>2, PassPut DEF PlanWait
<1>4. who[t] \in minted /\ gen \in Nat
    BY <1>1 DEF GroupInv, GroupType, RecordType, TasksOK, Own, TaskOK, Joining
<1>5. pc[t] \notin Asking /\ "plan" \notin Holding
    BY <1>1 DEF Asking, Opening, OpenDone, Holding
<1>6. TaskOK("plan", who[t], at[t], pass[t] + 1, NotSent, open, outcome, awaiting, expired, gen, minted)
    BY <1>4 DEF TaskOK, NotSent, Opening, OpenDone, Enrolled, Timed, Closing
<1> QED
    BY <1>3, <1>5, <1>6, QuietStep DEF PlanWait, clientVars

LEMMA PendingClosedStep ==
    ASSUME GroupInv, NEW t \in Task, PendingClosed(t)
    PROVE  GroupInv'
<1>1. pc[t] = "pending" /\ outcome[at[t]].is = "closed" /\ "register" \in Labels
    BY DEF PendingClosed, Labels, Joining
<1>2. Put(t, "register", who[t], at[t], pass[t])
    BY <1>1, GotoPut DEF PendingClosed, Stay
<1>3. who[t] \in minted /\ at[t] \in 1 .. Len(outcome) /\ gen \in Nat
    BY <1>1 DEF GroupInv, GroupType, RecordType, TasksOK, Own, TaskOK, Joining, Enrolled
<1>4. pc[t] \notin Asking /\ "register" \notin Holding
    BY <1>1 DEF Asking, Opening, OpenDone, Holding
<1>5. TaskOK("register", who[t], at[t], pass[t], NotSent, open, outcome, awaiting, expired, gen, minted)
    BY <1>1, <1>3 DEF TaskOK, NotSent, Opening, OpenDone, Timed, Closing
<1> QED
    BY <1>2, <1>4, <1>5, QuietStep DEF PendingClosed, clientVars

LEMMA DeadlineLapseStep ==
    ASSUME GroupInv, NEW t \in Task, DeadlineLapse(t)
    PROVE  GroupInv'
<1> DEFINE p == IF tried[t] THEN "withdraw" ELSE "pending"
<1>1. pc[t] = "pending" /\ open = at[t] /\ expired /\ p \in {"withdraw", "pending"}
    BY DEF DeadlineLapse, IsOwnOpenRound
<1>2. Goto(t, p)
    BY DEF DeadlineLapse
<1> HIDE DEF p
<1>3. Put(t, p, who[t], at[t], pass[t])
    <2>1. p \in Labels
        BY <1>1 DEF Labels, Joining
    <2> QED
        BY <1>2, <2>1, GotoPut DEF DeadlineLapse
<1>4. who[t] \in minted /\ at[t] \in 1 .. Len(outcome) /\ gen \in Nat
    BY <1>1 DEF GroupInv, GroupType, RecordType, TasksOK, Own, TaskOK, Joining, Enrolled
<1>5. pc[t] \notin Asking /\ p \notin Holding
    BY <1>1 DEF Asking, Opening, OpenDone, Holding
<1>6. TaskOK(p, who[t], at[t], pass[t], NotSent, open, outcome, awaiting, expired, gen, minted)
    BY <1>1, <1>4 DEF TaskOK, NotSent, Opening, OpenDone, Timed, Closing
<1> QED
    BY <1>3, <1>5, <1>6, QuietStep DEF DeadlineLapse, clientVars

LEMMA RemoveNobodyStep ==
    ASSUME GroupInv, NEW t \in Task, RemoveNobody(t)
    PROVE  GroupInv'
<1>1. pc[t] \in {"sweep", "leave"}
    BY DEF RemoveNobody
<1>2. pc[t] \notin Asking /\ "beat" \notin Holding /\ "beat" \in Labels
    BY <1>1 DEF Asking, Opening, OpenDone, Holding, Labels
<1>3. UNCHANGED <<actorVars, joinVars, sessionVars, cell, minted>>
    BY DEF RemoveNobody, clientVars
<1>4. CASE pc[t] = "leave"
    BY <1>2, <1>3, <1>4, QuietDone DEF RemoveNobody
<1>5. CASE pc[t] # "leave"
    <2>1. Put(t, "beat", who[t], at[t], pass[t])
        BY <1>2, <1>5, GotoPut DEF RemoveNobody, Stay
    <2>2. gen \in Nat
        BY DEF GroupInv, GroupType, RecordType
    <2>3. TaskOK("beat", who[t], at[t], pass[t], NotSent, open, outcome, awaiting, expired, gen, minted)
        BY <2>2 DEF TaskOK, NotSent, Joining, Opening, OpenDone, Enrolled, Timed, Closing
    <2> QED
        BY <1>2, <1>3, <2>1, <2>3, QuietStep
<1> QED
    BY <1>4, <1>5
-----------------------------------------------------------------------------
(* Requests.                                                               *)
LEMMA JoinNewStep ==
    ASSUME GroupInv, NEW t \in Task, NEW m \in Member, JoinNew(t, m)
    PROVE  GroupInv'
<1>1. "plan" \in Labels /\ "plan" \notin Holding
    BY DEF Labels, Joining, Holding
<1>2. Put(t, "plan", m, 0, pass[t]) /\ pc[t] = "idle"
    BY <1>1, AcceptPut DEF JoinNew
<1>3. pc[t] \notin Asking
    BY <1>2 DEF Asking, Opening, OpenDone
<1>4. UNCHANGED <<actorVars, joinVars>> /\ UNCHANGED <<sessionVars, cell>> /\ minted' = minted \cup {m}
    BY DEF JoinNew
<1>5. SessionType' /\ CellType'
    BY <1>4 DEF GroupInv, GroupType, SessionType, CellType, sessionVars, actorVars, recordVars
<1>6. Own(t)'
    <2>1. reply'[t] = NotSent /\ gen' \in Nat
        BY <1>3, <1>4, Unasked DEF actorVars, recordVars, GroupInv, GroupType, RecordType
    <2> QED
        BY <1>2, <1>4, <2>1 DEF Own, Put, TaskOK, NotSent, Opening, OpenDone, Enrolled, Timed, Closing
<1>7. AwaitsOK(open, outcome, awaiting, enrolled, expired, lastRound, live', lapsed')
    BY <1>4 DEF GroupInv, sessionVars
<1> QED
    BY <1>1, <1>2, <1>3, <1>4, <1>5, <1>6, <1>7, Quiet

LEMMA RejoinStep ==
    ASSUME GroupInv, NEW t \in Task, NEW m \in Member, Rejoin(t, m)
    PROVE  GroupInv'
<1>1. "plan" \in Labels /\ "plan" \notin Holding
    BY DEF Labels, Joining, Holding
<1>2. Put(t, "plan", m, 0, pass[t]) /\ pc[t] = "idle"
    BY <1>1, AcceptPut DEF Rejoin
<1>3. pc[t] \notin Asking
    BY <1>2 DEF Asking, Opening, OpenDone
<1>4. m \in minted /\ gen \in Nat
    BY DEF Rejoin, GroupInv, GroupType, SessionType, RecordType
<1>5. TaskOK("plan", m, 0, pass[t], NotSent, open, outcome, awaiting, expired, gen, minted)
    BY <1>4 DEF TaskOK, NotSent, Opening, OpenDone, Enrolled, Timed, Closing
<1> QED
    BY <1>1, <1>2, <1>3, <1>5, QuietStep DEF Rejoin

(* SyncGroup, Heartbeat and LeaveGroup name no later generation.           *)
LEMMA TimedStep ==
    ASSUME GroupInv, NEW t \in Task, NEW m \in Member, Sync(t, m) \/ Heartbeat(t, m) \/ Leave(t, m)
    PROVE  GroupInv'
<1>1. gen \in Nat
    BY DEF GroupInv, GroupType, RecordType
<1>2. PICK p \in {"sync", "parked", "sweep", "leave"} : \E g : Accept(t, m, p, gen, g)
    <2>1. CASE Sync(t, m)
        <3>1. Accept(t, m, IF m = Head(outcome[told[m]].ids) THEN "sync" ELSE "parked", Generation(m), Generation(m))
            BY <2>1 DEF Sync
        <3>2. Generation(m) = gen
            BY <2>1 DEF Sync, Fenced
        <3> QED
            BY <3>1, <3>2
    <2>2. CASE Heartbeat(t, m)
        BY <2>2 DEF Heartbeat
    <2>3. CASE Leave(t, m)
        BY <2>3 DEF Leave
    <2> QED
        BY <2>1, <2>2, <2>3
<1>3. PICK g : Accept(t, m, p, gen, g)
    BY <1>2
<1>4. p \in Labels /\ p \notin Holding
    BY DEF Labels, Holding
<1>5. Put(t, p, m, gen, pass[t]) /\ pc[t] = "idle"
    BY <1>1, <1>3, <1>4, AcceptPut
<1>6. pc[t] \notin Asking
    BY <1>5 DEF Asking, Opening, OpenDone
<1>7. TaskOK(p, m, gen, pass[t], NotSent, open, outcome, awaiting, expired, gen, minted)
    BY <1>1 DEF TaskOK, NotSent, Joining, Opening, OpenDone, Enrolled, Closing
<1>8. UNCHANGED <<actorVars, joinVars, sessionVars, cell, minted>>
    BY DEF Sync, Heartbeat, Leave
<1> QED
    BY <1>4, <1>5, <1>6, <1>7, <1>8, QuietStep

-----------------------------------------------------------------------------
(* The assignment cell.                                                    *)

(* refuse never goes back, nor ahead of the group.                         *)
LEMMA RefusedFacts ==
    ASSUME CellType, NEW g \in Nat, gen \in Nat, g <= gen
    PROVE  /\ Refused(g) \in [gen : Nat, map : BOOLEAN] /\ Refused(g).gen <= gen
           /\ Refused(g).gen >= cell.gen
           /\ Refused(g).gen = cell.gen /\ cell.map => Refused(g).map
<1>1. cell.gen \in Nat /\ cell.map \in BOOLEAN
    BY DEF CellType
<1>2. CASE cell.gen > g \/ (cell.gen = g /\ cell.map)
    BY <1>1, <1>2 DEF Refused, CellType
<1>3. CASE ~(cell.gen > g \/ (cell.gen = g /\ cell.map))
    <2>1. Refused(g) = [gen |-> g, map |-> FALSE]
        BY <1>3 DEF Refused
    <2>2. Refused(g) \in [gen : Nat, map : BOOLEAN] /\ Refused(g).gen = g
        BY <2>1
    <2> QED
        BY <1>1, <1>3, <2>2
<1> QED
    BY <1>2, <1>3

(* What submit publishes.                                                  *)
Submitted(g) == IF cell.gen > g \/ ~StableAt(g) THEN Refused(g) ELSE [gen |-> g, map |-> TRUE]

LEMMA SubmittedFacts ==
    ASSUME CellType, NEW g \in Nat, gen \in Nat, g <= gen
    PROVE  /\ Submitted(g) \in [gen : Nat, map : BOOLEAN] /\ Submitted(g).gen <= gen
           /\ Submitted(g).gen >= cell.gen
           /\ Submitted(g).gen = cell.gen /\ cell.map => Submitted(g).map
<1>1. CASE cell.gen > g \/ ~StableAt(g)
    BY <1>1, RefusedFacts DEF Submitted
<1>2. CASE ~(cell.gen > g \/ ~StableAt(g))
    <2>1. Submitted(g) = [gen |-> g, map |-> TRUE] /\ cell.gen \in Nat
        BY <1>2 DEF Submitted, CellType
    <2>2. Submitted(g) \in [gen : Nat, map : BOOLEAN] /\ Submitted(g).gen = g /\ Submitted(g).map
        BY <2>1
    <2> QED
        BY <1>2, <2>1, <2>2
<1> QED
    BY <1>1, <1>2

LEMMA SubmitStep ==
    ASSUME GroupInv, NEW t \in Task, Submit(t)
    PROVE  GroupInv'
<1>1. pc[t] = "submit" /\ cell' = Submitted(at[t])
    BY DEF Submit, Submitted
<1>2. pc[t] \notin Asking /\ "idle" \notin Holding
    BY <1>1 DEF Asking, Opening, OpenDone, Holding
<1>3. gen \in Nat /\ at[t] \in Nat /\ at[t] <= gen
    BY <1>1 DEF GroupInv, GroupType, RecordType, TaskType, TasksOK, Own, TaskOK, Timed
<1>4. UNCHANGED <<actorVars, joinVars>> /\ UNCHANGED sessionVars /\ minted' = minted
    BY DEF Submit, clientVars
<1>5. CellType' /\ SessionType'
    BY <1>1, <1>3, <1>4, SubmittedFacts
       DEF GroupInv, GroupType, CellType, SessionType, sessionVars, actorVars, recordVars
<1>6. Put(t, "idle", Somebody, 0, 0)
    BY DonePut DEF Submit
<1>7. Own(t)'
    <2>1. reply'[t] = NotSent /\ gen' \in Nat
        BY <1>2, <1>3, <1>4, Unasked DEF actorVars, recordVars
    <2> QED
        BY <1>6, <2>1, IdleOK DEF Own, Put
<1>8. AwaitsOK(open, outcome, awaiting, enrolled, expired, lastRound, live', lapsed')
    BY <1>4 DEF GroupInv, sessionVars
<1> QED
    BY <1>2, <1>4, <1>5, <1>6, <1>7, <1>8, Quiet

(* A session begins, or is renewed: what is excused stays excused.         *)
LEMMA LiveGrows ==
    ASSUME GroupInv, NEW t \in Task, Done(t), pc[t] \notin Asking,
           UNCHANGED <<actorVars, joinVars>>, UNCHANGED <<cell, minted, lapses, lapsed>>,
           live \subseteq live', live' \subseteq tracked', tracked' \subseteq minted
    PROVE  GroupInv'
<1>1. Put(t, "idle", Somebody, 0, 0)
    BY DonePut
<1>2. Own(t)'
    <2>1. reply'[t] = NotSent /\ gen' \in Nat
        BY Unasked DEF actorVars, recordVars, GroupInv, GroupType, RecordType
    <2> QED
        BY <1>1, <2>1, IdleOK DEF Own, Put
<1>3. SessionType' /\ CellType'
    BY DEF GroupInv, GroupType, SessionType, CellType, actorVars, recordVars
<1>4. AwaitsOK(open, outcome, awaiting, enrolled, expired, lastRound, live', lapsed')
    BY DEF GroupInv, AwaitsOK
<1>5. "idle" \notin Holding
    BY DEF Holding
<1> QED
    BY <1>1, <1>2, <1>3, <1>4, <1>5, Quiet

LEMMA RegisterStep ==
    ASSUME GroupInv, NEW t \in Task, Register(t)
    PROVE  GroupInv'
<1>1. pc[t] = "register" /\ pc[t] \notin Asking
    BY DEF Register, Asking, Opening, OpenDone
<1>2. who[t] \in minted
    BY <1>1 DEF GroupInv, TasksOK, Own, TaskOK, Joining
<1>3. live \subseteq live' /\ live' \subseteq tracked' /\ tracked' \subseteq minted
    BY <1>2 DEF Register, GroupInv, GroupType, SessionType
<1> QED
    BY <1>1, <1>3, LiveGrows DEF Register

LEMMA BeatStep ==
    ASSUME GroupInv, NEW t \in Task, Beat(t)
    PROVE  GroupInv'
<1>1. pc[t] = "beat" /\ pc[t] \notin Asking
    BY DEF Beat, Asking, Opening, OpenDone
<1>2. live \subseteq live' /\ live' \subseteq tracked' /\ tracked' \subseteq minted
    BY DEF Beat, Fenced, GroupInv, GroupType, SessionType
<1> QED
    BY <1>1, <1>2, LiveGrows DEF Beat, clientVars
-----------------------------------------------------------------------------
(* Requests to the group's task, and their answers.                        *)

(* A handler without the slot takes its answer.                            *)
LEMMA TakesAnswer ==
    ASSUME GroupInv, NEW t \in Task, NEW p, NEW w, NEW a, NEW s, Put(t, p, w, a, s), Forget(t),
           reply[t].res # "queued", pc[t] \notin Holding, p \notin Holding,
           UNCHANGED <<joinVars, sessionVars, minted>>, CellType',
           TaskOK(p, w, a, s, NotSent, open, outcome, awaiting, expired, gen, minted)
    PROVE  GroupInv'
<1> USE DEF joinVars, sessionVars
<1>1. /\ reply'[t] = NotSent /\ \A u \in Task \ {t} : reply'[u] = reply[u]
      /\ AskType' /\ RecordType' /\ gen' = gen /\ queue' = queue
    BY ForgetFacts
<1>2. Own(t)'
    BY <1>1 DEF Own, Put
<1>3. RoundType' /\ SessionType'
    BY DEF GroupInv, GroupType, RoundType, SessionType
<1>4. SlotOK(slot', pc')
    BY <1>1, PutMoves, SlotStays DEF Put
<1>5. AwaitsOK(open', outcome', awaiting', enrolled', expired', lastRound', live', lapsed')
    BY DEF GroupInv
<1> QED
    BY <1>1, <1>2, <1>3, <1>4, <1>5, StepStays

LEMMA SettledAnswer ==
    ASSUME GroupInv, NEW t \in Task, Settled(t)
    PROVE  reply[t].res # "queued" /\ reply[t] # NotSent
    BY DEF Settled, NotSent

LEMMA SyncAnsweredStep ==
    ASSUME GroupInv, NEW t \in Task, SyncAnswered(t)
    PROVE  GroupInv'
<1>1. pc[t] = "sync" /\ Settled(t) /\ Forget(t) /\ "submit" \in Labels
    BY DEF SyncAnswered, Labels
<1>2. Put(t, "submit", who[t], at[t], pass[t])
    BY <1>1, GotoPut DEF SyncAnswered, Stay
<1>3. pc[t] \notin Holding /\ "submit" \notin Holding
    BY <1>1 DEF Holding
<1>4. gen \in Nat /\ at[t] \in Nat /\ at[t] <= gen
    BY <1>1 DEF GroupInv, GroupType, RecordType, TaskType, TasksOK, Own, TaskOK, Timed
<1>5. TaskOK("submit", who[t], at[t], pass[t], NotSent, open, outcome, awaiting, expired, gen, minted)
    BY <1>4 DEF TaskOK, NotSent, Joining, Opening, OpenDone, Enrolled, Closing
<1>6. CellType'
    BY <1>1, ForgetFacts DEF SyncAnswered, GroupInv, GroupType, CellType
<1> QED
    BY <1>1, <1>2, <1>3, <1>5, <1>6, SettledAnswer, TakesAnswer DEF SyncAnswered, clientVars

LEMMA SyncRefusedStep ==
    ASSUME GroupInv, NEW t \in Task, SyncRefused(t)
    PROVE  GroupInv'
<1>1. pc[t] = "sync" /\ Settled(t) /\ Forget(t) /\ cell' = Refused(at[t])
    BY DEF SyncRefused
<1>2. Put(t, "idle", Somebody, 0, 0)
    BY DonePut DEF SyncRefused
<1>3. pc[t] \notin Holding /\ "idle" \notin Holding
    BY <1>1 DEF Holding
<1>4. gen \in Nat /\ at[t] \in Nat /\ at[t] <= gen /\ CellType
    BY <1>1 DEF GroupInv, GroupType, RecordType, TaskType, TasksOK, Own, TaskOK, Timed
<1>5. CellType'
    BY <1>1, <1>4, ForgetFacts, RefusedFacts DEF CellType
<1> QED
    BY <1>1, <1>2, <1>3, <1>4, <1>5, SettledAnswer, IdleOK, TakesAnswer DEF SyncRefused, clientVars

LEMMA RemovedStep ==
    ASSUME GroupInv, NEW t \in Task, Removed(t)
    PROVE  GroupInv'
<1>1. pc[t] \in {"swept", "left"} /\ Settled(t) /\ Forget(t) /\ cell' = Refused(at[t])
    BY DEF Removed
<1>2. pc[t] \notin Holding /\ "idle" \notin Holding /\ "beat" \notin Holding /\ "beat" \in Labels
    BY <1>1 DEF Holding, Labels
<1>3. gen \in Nat /\ at[t] \in Nat /\ at[t] <= gen /\ CellType
    BY <1>1 DEF GroupInv, GroupType, RecordType, TaskType, TasksOK, Own, TaskOK, Timed
<1>4. CellType'
    BY <1>1, <1>3, ForgetFacts, RefusedFacts DEF CellType
<1>5. UNCHANGED <<joinVars, sessionVars, minted>>
    BY DEF Removed, clientVars
<1>6. CASE pc[t] = "left"
    <2>1. Put(t, "idle", Somebody, 0, 0)
        BY <1>6, DonePut DEF Removed
    <2> QED
        BY <1>1, <1>2, <1>3, <1>4, <1>5, <2>1, SettledAnswer, IdleOK, TakesAnswer
<1>7. CASE pc[t] # "left"
    <2>1. Put(t, "beat", who[t], at[t], pass[t])
        BY <1>2, <1>7, GotoPut DEF Removed, Stay
    <2>2. TaskOK("beat", who[t], at[t], pass[t], NotSent, open, outcome, awaiting, expired, gen, minted)
        BY <1>3 DEF TaskOK, NotSent, Joining, Opening, OpenDone, Enrolled, Timed, Closing
    <2> QED
        BY <1>1, <1>2, <1>4, <1>5, <2>1, <2>2, SettledAnswer, TakesAnswer
<1> QED
    BY <1>6, <1>7

(* The events handlers send, and where each leaves the group.              *)
LEMMA EventsKnown ==
    {"Join", "MemberJoinedDuringSync", "JoinBarrierComplete", "SyncComplete", "AllMembersGone", "MemberLeft"}
        \subseteq GroupEvents
<1>1. /\ <<"Empty", "Join", "PreparingRebalance">> \in Table
      /\ <<"CompletingRebalance", "MemberJoinedDuringSync", "PreparingRebalance">> \in Table
      /\ <<"PreparingRebalance", "JoinBarrierComplete", "CompletingRebalance">> \in Table
      /\ <<"CompletingRebalance", "SyncComplete", "Stable">> \in Table
      /\ <<"Stable", "AllMembersGone", "Empty">> \in Table
      /\ <<"Stable", "MemberLeft", "PreparingRebalance">> \in Table
    BY DEF Table
<1>2. \A s, e, n : <<s, e, n>> \in Table => e \in GroupEvents
    BY DEF GroupEvents
<1> QED
    BY <1>1, <1>2

(* A handler asks, and waits.                                              *)
LEMMA Asks ==
    ASSUME GroupInv, NEW t \in Task, NEW p, NEW w, NEW a, NEW s, Put(t, p, w, a, s),
           reply[t].res # "queued", reply' = [reply EXCEPT ![t] = Waiting],
           NEW e \in Entries, e.task = t, Fits(p, e.event), queue' = Append(queue, e),
           UNCHANGED recordVars, UNCHANGED fails, UNCHANGED joinVars, UNCHANGED <<cell, minted>>,
           p \in Holding <=> pc[t] \in Holding, SessionType',
           TaskOK(p, w, a, s, Waiting, open, outcome, awaiting, expired, gen, minted),
           AwaitsOK(open, outcome, awaiting, enrolled, expired, lastRound, live', lapsed')
    PROVE  GroupInv'
<1> USE DEF joinVars, recordVars
<1>1. Waiting \in Replies
    BY DEF Waiting, Replies
<1>2. reply'[t] = Waiting /\ reply' \in [Task -> Replies] /\ \A u \in Task \ {t} : reply'[u] = reply[u]
    BY <1>1 DEF GroupInv, GroupType, AskType
<1>3. Moved(t)
    BY <1>2, PutMoves
<1>4. Fits(pc'[t], e.event)
    BY DEF Put
<1>5. QueueOK(queue', pc', reply') /\ queue' \in Seq(Entries)
    BY <1>2, <1>3, <1>4, QueueGrows
<1>6. SlotOK(slot', pc')
    BY <1>3, SlotStays DEF Put
<1>7. RecordType' /\ AskType' /\ RoundType' /\ CellType'
    BY <1>2, <1>5 DEF GroupInv, GroupType, RecordType, AskType, RoundType, CellType
<1>8. Own(t)'
    BY <1>2 DEF Own, Put
<1>9. TasksOK'
    <2>1. gen' \in Nat /\ gen <= gen' /\ expired' \in BOOLEAN
        BY DEF GroupInv, GroupType, RecordType, RoundType
    <2> QED
        BY <1>3, <1>8, <2>1, StaysInv
<1>10. RoundsOK(open', outcome', gen')
    BY DEF GroupInv
<1>11. AwaitsOK(open', outcome', awaiting', enrolled', expired', lastRound', live', lapsed')
    BY DEF AwaitsOK
<1> QED
    BY <1>5, <1>6, <1>7, <1>9, <1>10, <1>11 DEF GroupInv, GroupType, Put

LEMMA SendStep ==
    ASSUME GroupInv, NEW t \in Task, Send(t)
    PROVE  GroupInv'
<1> DEFINE e == [task |-> t, event |-> EventOf[pc[t]], ids |-> NoRoster]
<1>1. pc[t] \in DOMAIN EventOf /\ reply[t] = NotSent
    BY DEF Send
<1>2. pc[t] \in {"openJoin", "openSync", "close", "deadlineClose", "sync"}
    BY <1>1 DEF EventOf
<1>3. EventOf[pc[t]] \in {"Join", "MemberJoinedDuringSync", "JoinBarrierComplete", "SyncComplete"}
    BY <1>2 DEF EventOf
<1>4. EventOf[pc[t]] \in GroupEvents
    BY <1>3, EventsKnown
<1>5. e \in Entries /\ e.task = t /\ e.event = EventOf[pc[t]]
    BY <1>4 DEF Entries
<1>6. queue' = Append(queue, e) /\ reply' = [reply EXCEPT ![t] = Waiting]
    BY DEF Send, Enqueue
<1> HIDE DEF e
<1>7. Fits(pc[t], e.event)
    BY <1>1, <1>5 DEF Fits
<1>8. Put(t, pc[t], who[t], at[t], pass[t])
    BY DEF Send, taskVars, Put, GroupInv, GroupType, TaskType
<1>9. SessionType' /\ AwaitsOK(open, outcome, awaiting, enrolled, expired, lastRound, live', lapsed')
    BY DEF Send, sessionVars, clientVars, GroupInv, GroupType, SessionType
<1>10. TaskOK(pc[t], who[t], at[t], pass[t], Waiting, open, outcome, awaiting, expired, gen, minted)
    <2>1. Own(t) /\ gen \in Nat
        BY DEF GroupInv, TasksOK, GroupType, RecordType
    <2>2. pc[t] \in Asking /\ pc[t] \notin OpenDone
        BY <1>2 DEF Asking, OpenDone, Opening
    <2> QED
        BY <2>1, <2>2 DEF Own, TaskOK, Waiting
<1>11. reply[t].res # "queued"
    BY <1>1 DEF NotSent
<1> QED
    BY <1>5, <1>6, <1>7, <1>8, <1>9, <1>10, <1>11, Asks DEF Send, clientVars

LEMMA RemoveWhereStep ==
    ASSUME GroupInv, NEW t \in Task, RemoveWhere(t)
    PROVE  GroupInv'
<1> DEFINE event == IF tracked' = {} THEN "AllMembersGone" ELSE "MemberLeft"
           e == [task |-> t, event |-> event, ids |-> NoRoster]
           p == IF pc[t] = "leave" THEN "left" ELSE "swept"
<1>1. pc[t] \in {"sweep", "leave"} /\ event \in {"AllMembersGone", "MemberLeft"} /\ p \in {"left", "swept"}
    BY DEF RemoveWhere
<1>2. queue' = Append(queue, e) /\ reply' = [reply EXCEPT ![t] = Waiting]
    BY DEF RemoveWhere, Enqueue
<1>3. Stay(t, p)
    BY DEF RemoveWhere
<1> HIDE DEF event, p
<1>4. e \in Entries /\ e.task = t /\ e.event = event
    <2>1. event \in GroupEvents
        BY <1>1, EventsKnown
    <2> QED
        BY <2>1 DEF Entries
<1> HIDE DEF e
<1>5. p \in Labels /\ p \notin Holding /\ pc[t] \notin Holding /\ pc[t] \notin Asking
    BY <1>1 DEF Labels, Holding, Asking, Opening, OpenDone
<1>6. Put(t, p, who[t], at[t], pass[t])
    BY <1>3, <1>5, GotoPut DEF Stay
<1>7. Fits(p, e.event)
    BY <1>1, <1>4 DEF Fits
<1>8. Lost(t) \subseteq tracked
    BY DEF Lost
<1>9. SessionType'
    BY <1>8 DEF RemoveWhere, clientVars, GroupInv, GroupType, SessionType
<1>10. AwaitsOK(open, outcome, awaiting, enrolled, expired, lastRound, live', lapsed')
    BY DEF RemoveWhere, GroupInv, AwaitsOK
<1>11. TaskOK(p, who[t], at[t], pass[t], Waiting, open, outcome, awaiting, expired, gen, minted)
    <2>1. at[t] <= gen /\ gen \in Nat
        BY <1>1 DEF GroupInv, TasksOK, Own, TaskOK, Timed, GroupType, RecordType
    <2> QED
        BY <1>1, <2>1 DEF TaskOK, Waiting, Joining, Opening, OpenDone, Enrolled, Closing, Asking
<1>12. reply[t].res # "queued"
    BY <1>5, Unasked
<1> QED
    BY <1>2, <1>4, <1>5, <1>6, <1>7, <1>9, <1>10, <1>11, <1>12, Asks DEF RemoveWhere, clientVars
-----------------------------------------------------------------------------
(* The group's task.                                                       *)

(* Only Expire, which no handler sends, ends a group.                      *)
LEMMA SuccessorLive ==
    ASSUME NEW s, NEW e, Legal(s, e), e # "Expire"
    PROVE  Successor(s, e) \in GroupStates \ {"Dead"}
<1>1. \A n : <<s, e, n>> \in Table => n \in GroupStates \ {"Dead"}
    BY DEF Table, GroupStates
<1>2. \E n : <<s, e, n>> \in Table
    <2>1. PICK edge \in Table : edge[1] = s /\ edge[2] = e
        BY DEF Legal
    <2>2. edge = <<edge[1], edge[2], edge[3]>>
        BY DEF Table
    <2> QED
        BY <2>1, <2>2
<1>3. \E n \in GroupStates : <<s, e, n>> \in Table
    BY <1>1, <1>2
<1>4. <<s, e, Successor(s, e)>> \in Table
    BY <1>3 DEF Successor
<1> QED
    BY <1>1, <1>4

(* What is at the head of the queue.                                       *)
LEMMA HeadFacts ==
    ASSUME GroupInv, queue # <<>>
    PROVE  LET e == Head(queue)
           IN  /\ e \in Entries /\ e.task \in Task /\ e.event # "Expire"
               /\ reply[e.task].res = "queued" /\ Fits(pc[e.task], e.event)
               /\ pc[e.task] \in Closing => e.event = "JoinBarrierComplete"
               /\ pc[e.task] \in Asking \ OpenDone
<1>1. queue \in Seq(Entries)
    BY DEF GroupInv, GroupType, AskType
<1>2. Head(queue) = queue[1] /\ 1 \in 1 .. Len(queue)
    BY <1>1
<1> DEFINE e == Head(queue)
<1>3. e \in Entries /\ e.task \in Task
    BY <1>1, <1>2, EntryTask
<1>4. reply[e.task].res = "queued" /\ Fits(pc[e.task], e.event)
    BY <1>2 DEF GroupInv, QueueOK
<1> HIDE DEF e
<1>5. pc[e.task] \in Asking \ OpenDone
    BY <1>4 DEF Fits, EventOf, Asking, Opening, OpenDone
<1>6. e.event # "Expire"
    BY <1>4 DEF Fits, EventOf
<1>7. pc[e.task] \in Closing => e.event = "JoinBarrierComplete"
    BY <1>4 DEF Fits, EventOf, Closing
<1> QED
    BY <1>3, <1>4, <1>5, <1>6, <1>7 DEF e

(* The request at the head is answered.                                    *)
LEMMA Answers ==
    ASSUME GroupInv, queue # <<>>, NEW res \in {"ok", "illegal", "failed"}, NEW g \in Nat, Answer(res, g),
           RecordType', g <= gen', gen <= gen',
           res = "ok" /\ pc[Head(queue).task] \in Closing => g > gen,
           UNCHANGED <<joinVars, sessionVars, cell, taskVars, clientVars>>
    PROVE  GroupInv'
<1> USE DEF joinVars, sessionVars, taskVars, clientVars
<1> DEFINE a == [res |-> res, gen |-> g]
<1>0. PICK h \in Task : h = Head(queue).task
    BY HeadFacts
<1>1. /\ h \in Task /\ reply[h].res = "queued" /\ pc[h] \in Asking \ OpenDone
    BY <1>0, HeadFacts
<1>2. gen \in Nat /\ gen' \in Nat
    BY DEF GroupInv, GroupType, RecordType
<1>3. a \in Replies /\ a.res = res /\ a.gen = g
    BY DEF Replies
<1>4. queue' = Tail(queue) /\ reply' = [reply EXCEPT ![h] = a]
    BY <1>0 DEF Answer
<1>5. res = "ok" /\ pc[h] \in Closing => g > gen
    BY <1>0
<1> HIDE DEF a
<1>6. reply' \in [Task -> Replies] /\ reply'[h] = a /\ \A u \in Task \ {h} : reply'[u] = reply[u]
    BY <1>1, <1>3, <1>4 DEF GroupInv, GroupType, AskType
<1>7. Moved(h)
    BY <1>6 DEF Moved
<1>8. Own(h)'
    <2>1. Own(h)
        BY <1>1 DEF GroupInv, TasksOK
    <2>2. \A n \in 1 .. Len(outcome) : outcome[n].gen \in Nat
        <3>1. outcome \in Seq(Outcomes)
            BY DEF GroupInv, GroupType, RoundType
        <3>2. \A n \in 1 .. Len(outcome) : outcome[n] \in Outcomes
            BY <3>1
        <3> QED
            BY <3>2 DEF Outcomes
    <2>3. \A n \in 1 .. Len(outcome) : outcome[n].gen <= gen
        BY DEF GroupInv, RoundsOK
    <2>4. pc[h] \in Closing /\ res = "ok" => \A n \in 1 .. Len(outcome) : outcome[n].gen < g
        BY <1>2, <1>5, <2>2, <2>3
    <2>5. TaskOK(pc[h], who[h], at[h], pass[h], a, open, outcome, awaiting, expired, gen', minted)
        <3>1. at[h] \in Nat
            BY <1>1 DEF GroupInv, GroupType, TaskType
        <3> QED
            BY <1>1, <1>2, <1>3, <2>1, <2>4, <3>1 DEF Own, TaskOK
    <2> QED
        BY <1>6, <2>5 DEF Own
<1>9. TasksOK'
    <2>1. expired' \in BOOLEAN
        BY DEF GroupInv, GroupType, RoundType
    <2> QED
        BY <1>1, <1>2, <1>7, <1>8, <2>1, StaysInv
<1>10. queue' \in Seq(Entries) /\ QueueOK(queue', pc', reply')
    <2>1. queue \in Seq(Entries)
        BY DEF GroupInv, GroupType, AskType
    <2>2. Tail(queue) \in Seq(Entries) /\ Len(Tail(queue)) = Len(queue) - 1 /\ Len(queue) \in Nat
        BY <2>1
    <2>3. \A i \in 1 .. Len(Tail(queue)) : Tail(queue)[i] = queue[i + 1] /\ i + 1 \in 1 .. Len(queue)
        BY <2>1
    <2>4. Head(queue) = queue[1] /\ 1 \in 1 .. Len(queue)
        BY <2>1
    <2>5. \A i \in 1 .. Len(queue) : queue[i].task \in Task
        BY <2>1, EntryTask
    <2>6. \A i \in 1 .. Len(Tail(queue)) : queue[i + 1].task # h
        <3> SUFFICES ASSUME NEW i \in 1 .. Len(Tail(queue)), queue[i + 1].task = h
                     PROVE  FALSE
            OBVIOUS
        <3>1. i + 1 = 1
            BY <1>0, <2>3, <2>4 DEF GroupInv, QueueOK
        <3> QED
            BY <2>2, <3>1
    <2> DEFINE q == Tail(queue)
    <2> HIDE DEF q
    <2>7. \A i \in 1 .. Len(q) : q[i] = queue[i + 1] /\ i + 1 \in 1 .. Len(queue) /\ queue[i + 1].task \in Task \ {h}
        BY <2>3, <2>5, <2>6 DEF q
    <2>8. \A i \in 1 .. Len(q) : reply'[q[i].task].res = "queued" /\ Fits(pc'[q[i].task], q[i].event)
        BY <1>6, <2>7 DEF GroupInv, QueueOK
    <2>9. \A i, j \in 1 .. Len(q) : q[i].task = q[j].task => i = j
        <3> SUFFICES ASSUME NEW i \in 1 .. Len(q), NEW j \in 1 .. Len(q), q[i].task = q[j].task
                     PROVE  i = j
            OBVIOUS
        <3>1. i + 1 = j + 1
            BY <2>7 DEF GroupInv, QueueOK
        <3>2. i \in Int /\ j \in Int
            OBVIOUS
        <3> QED
            BY <3>1, <3>2
    <2>10. queue' = q
        BY <1>4 DEF q
    <2> QED
        BY <2>2, <2>8, <2>9, <2>10 DEF QueueOK, q
<1>11. RoundsOK(open', outcome', gen')
    BY <1>2, RoundsLater DEF GroupInv, GroupType, RoundType
<1>12. AskType' /\ RoundType' /\ SessionType' /\ CellType' /\ TaskType'
    BY <1>2, <1>6, <1>10 DEF GroupInv, GroupType, AskType, RoundType, SessionType, CellType, TaskType
<1>13. SlotOK(slot', pc')
    BY DEF GroupInv
<1>14. AwaitsOK(open', outcome', awaiting', enrolled', expired', lastRound', live', lapsed')
    BY DEF GroupInv
<1> QED
    BY <1>9, <1>10, <1>11, <1>12, <1>13, <1>14 DEF GroupInv, GroupType

LEMMA ActorStep ==
    ASSUME GroupInv, Actor
    PROVE  GroupInv'
<1>1. UNCHANGED <<joinVars, sessionVars, cell, taskVars, clientVars>>
    BY DEF Actor
<1>2. gen \in Nat /\ epoch \in 0 .. gen /\ 0 \in Nat /\ MaxFails \in Nat
    BY TransitionsAssumption DEF GroupInv, GroupType, RecordType
<1>3. CASE ServeIllegal
    <2>1. queue # <<>> /\ Answer("illegal", 0) /\ UNCHANGED <<recordVars, fails>>
        BY <1>3 DEF ServeIllegal
    <2>2. RecordType' /\ gen' = gen
        BY <2>1 DEF GroupInv, GroupType, RecordType, recordVars
    <2> QED
        BY <1>1, <1>2, <2>1, <2>2, Answers
<1>4. CASE ServeFailed
    <2>1. queue # <<>> /\ Answer("failed", 0) /\ UNCHANGED recordVars /\ fails < MaxFails /\ fails' = fails + 1
        BY <1>4 DEF ServeFailed
    <2>2. RecordType' /\ gen' = gen
        BY <1>2, <2>1 DEF GroupInv, GroupType, RecordType, recordVars
    <2> QED
        BY <1>1, <1>2, <2>1, <2>2, Answers
<1>5. CASE ServeTransition
    <2> DEFINE e == Head(queue).event
    <2>1. /\ queue # <<>> /\ Legal(gstate, e) /\ Answer("ok", NextGen(e))
          /\ gstate' = Successor(gstate, e) /\ gen' = NextGen(e) /\ epoch' = NextEpoch(e)
          /\ roster' \in {NoRoster, roster} /\ fails' = fails
        BY <1>5 DEF ServeTransition
    <2>2. e # "Expire" /\ (pc[Head(queue).task] \in Closing => e = "JoinBarrierComplete")
        BY <2>1, HeadFacts
    <2> HIDE DEF e
    <2>3. NextGen(e) \in Nat /\ gen <= NextGen(e) /\ (e = "JoinBarrierComplete" => NextGen(e) > gen)
        BY <1>2 DEF NextGen
    <2>4. gstate' \in GroupStates \ {"Dead"}
        BY <2>1, <2>2, SuccessorLive
    <2>5. epoch' \in 0 .. gen'
        BY <1>2, <2>1, <2>3 DEF NextEpoch
    <2>6. RecordType'
        BY <2>1, <2>3, <2>4, <2>5 DEF GroupInv, GroupType, RecordType
    <2> QED
        BY <1>1, <2>1, <2>2, <2>3, <2>6, Answers
<1>6. CASE ServeRoster
    <2>1. /\ queue # <<>> /\ Head(queue).event = "Roster" /\ Answer("ok", gen)
          /\ roster' = Head(queue).ids /\ UNCHANGED <<gstate, gen, epoch, fails>>
        BY <1>6 DEF ServeRoster
    <2>2. Head(queue) \in Entries /\ pc[Head(queue).task] \notin Closing
        BY <2>1, HeadFacts
    <2>3. roster' \in Ids \cup {NoRoster}
        BY <2>1, <2>2 DEF Entries
    <2>4. RecordType'
        BY <2>1, <2>3 DEF GroupInv, GroupType, RecordType
    <2> QED
        BY <1>1, <1>2, <2>1, <2>2, <2>4, Answers
<1> QED
    BY <1>3, <1>4, <1>5, <1>6 DEF Actor, Serve

-----------------------------------------------------------------------------
(* Time.                                                                   *)

(* No handler is touched.                                                  *)
LEMMA TimeStep ==
    ASSUME GroupInv, UNCHANGED <<actorVars, cell, taskVars, clientVars>>,
           UNCHANGED <<open, enrolled, awaiting, outcome, lastRound, slot, tracked>>,
           RoundType', SessionType', expired => expired',
           AwaitsOK(open, outcome, awaiting, enrolled, expired', lastRound, live', lapsed')
    PROVE  GroupInv'
<1> USE DEF actorVars, recordVars, taskVars, clientVars
<1>1. RecordType' /\ AskType' /\ CellType' /\ TaskType'
    BY DEF GroupInv, GroupType, RecordType, AskType, CellType, TaskType
<1>2. RoundsOK(open', outcome', gen') /\ QueueOK(queue', pc', reply') /\ SlotOK(slot', pc')
    BY DEF GroupInv
<1>3. TasksOK'
    <2> SUFFICES ASSUME NEW u \in Task
                 PROVE  Own(u)'
        BY DEF TasksOK
    <2>1. at[u] \in Nat /\ reply[u] \in Replies /\ expired \in BOOLEAN /\ expired' \in BOOLEAN /\ gen \in Nat
        BY DEF GroupInv, GroupType, TaskType, AskType, RoundType, RecordType
    <2>2. Own(u) /\ gen <= gen
        BY <2>1 DEF GroupInv, TasksOK
    <2>3. TaskOK(pc[u], who[u], at[u], pass[u], reply[u], open, outcome, awaiting, expired', gen, minted)
        BY <2>1, <2>2, RoundStays DEF Own
    <2> QED
        BY <2>3 DEF Own
<1>4. AwaitsOK(open', outcome', awaiting', enrolled', expired', lastRound', live', lapsed')
    BY DEF AwaitsOK
<1> QED
    BY <1>1, <1>2, <1>3, <1>4 DEF GroupInv, GroupType

LEMMA SessionLapsesStep ==
    ASSUME GroupInv, NEW m \in Member, SessionLapses(m)
    PROVE  GroupInv'
<1> USE DEF SessionLapses, joinVars
<1>1. RoundType' /\ (expired => expired')
    BY DEF GroupInv, GroupType, RoundType
<1>2. lapses + 1 \in 0 .. MaxFaults
    <2>1. MaxFaults \in Nat /\ MaxFails \in Nat
        BY GroupAssumption, TransitionsAssumption
    <2>2. lapses \in 0 .. MaxFaults /\ fails \in 0 .. MaxFails
        BY DEF GroupInv, GroupType, SessionType, RecordType
    <2> QED
        BY <2>1, <2>2
<1>3. SessionType'
    BY <1>2 DEF GroupInv, GroupType, SessionType, clientVars
<1>4. AwaitsOK(open, outcome, awaiting, enrolled, expired', lastRound, live', lapsed')
    BY DEF GroupInv, AwaitsOK
<1> QED
    BY <1>1, <1>3, <1>4, TimeStep

LEMMA DeadlinePassesStep ==
    ASSUME GroupInv, DeadlinePasses
    PROVE  GroupInv'
<1> USE DEF DeadlinePasses, sessionVars
<1>1. RoundType' /\ SessionType' /\ (expired => expired')
    BY DEF GroupInv, GroupType, RoundType, SessionType, clientVars
<1>2. AwaitsOK(open, outcome, awaiting, enrolled, expired', lastRound, live', lapsed')
    BY DEF GroupInv, AwaitsOK
<1> QED
    BY <1>1, <1>2, TimeStep
-----------------------------------------------------------------------------
(* The slot is claimed and released.                                       *)
LEMMA PlanOpenStep ==
    ASSUME GroupInv, NEW t \in Task, PlanOpen(t)
    PROVE  GroupInv'
<1> DEFINE p == IF gstate = "CompletingRebalance" THEN "openSync" ELSE "openJoin"
<1>1. pc[t] = "plan" /\ pass[t] < MaxReplans /\ NeedsOpen /\ ~slot /\ slot' = TRUE
    BY DEF PlanOpen
<1>2. p \in Opening /\ Stay(t, p)
    BY DEF PlanOpen, Opening
<1> HIDE DEF p
<1>3. p \in Labels /\ p \in Holding /\ pc[t] \notin Asking
    BY <1>1, <1>2 DEF Labels, Holding, Opening, OpenDone, Asking
<1>4. Put(t, p, who[t], at[t], pass[t])
    BY <1>2, <1>3, GotoPut DEF Stay
<1>5. reply[t] = NotSent /\ reply[t].res # "queued"
    BY <1>3, Unasked
<1>6. UNCHANGED <<actorVars, sessionVars, cell, minted>>
      /\ UNCHANGED <<open, enrolled, awaiting, expired, outcome, lastRound>>
    BY DEF PlanOpen, clientVars
<1>7. /\ RecordType' /\ AskType' /\ SessionType' /\ CellType' /\ RoundType' /\ gen' = gen /\ queue' = queue
      /\ reply' = reply
    BY <1>1, <1>6 DEF GroupInv, GroupType, RecordType, AskType, SessionType, CellType, RoundType,
       actorVars, recordVars, sessionVars
<1>8. Own(t)'
    <2>1. who[t] \in minted /\ gen \in Nat
        BY <1>1 DEF GroupInv, GroupType, RecordType, TasksOK, Own, TaskOK, Joining
    <2>2. TaskOK(p, who[t], at[t], pass[t], NotSent, open, outcome, awaiting, expired, gen, minted)
        BY <1>1, <1>2, <2>1 DEF TaskOK, NotSent, NeedsOpen, Opening, OpenDone, Enrolled, Timed, Closing, Asking
    <2> QED
        BY <1>4, <1>5, <1>6, <1>7, <2>2 DEF Own, Put
<1>9. SlotOK(slot', pc')
    <2>1. Moved(t) /\ pc'[t] \in Holding
        BY <1>3, <1>4, <1>7, PutMoves DEF Put
    <2> QED
        BY <1>1, <2>1, SlotTaken
<1>10. AwaitsOK(open', outcome', awaiting', enrolled', expired', lastRound', live', lapsed')
    BY <1>6 DEF GroupInv, sessionVars
<1> QED
    BY <1>4, <1>5, <1>6, <1>7, <1>8, <1>9, <1>10, StepStays

(* The holder takes its answer and releases the slot.                      *)
LEMMA Releases ==
    ASSUME GroupInv, NEW t \in Task, NEW p, NEW w, NEW a, NEW s, Put(t, p, w, a, s), Forget(t),
           reply[t].res # "queued", pc[t] \in Holding, p \notin Holding, slot' = FALSE,
           UNCHANGED <<open, enrolled, awaiting, expired, outcome, lastRound>>,
           UNCHANGED sessionVars, minted' = minted, CellType',
           TaskOK(p, w, a, s, NotSent, open, outcome, awaiting, expired, gen, minted)
    PROVE  GroupInv'
<1> USE DEF sessionVars
<1>1. /\ reply'[t] = NotSent /\ \A u \in Task \ {t} : reply'[u] = reply[u]
      /\ AskType' /\ RecordType' /\ gen' = gen /\ queue' = queue
    BY ForgetFacts
<1>2. Own(t)'
    BY <1>1 DEF Own, Put
<1>3. RoundType' /\ SessionType'
    BY DEF GroupInv, GroupType, RoundType, SessionType
<1>4. SlotOK(slot', pc')
    <2>1. Moved(t) /\ pc'[t] \notin Holding
        BY <1>1, PutMoves DEF Put
    <2> QED
        BY <2>1, SlotFreed
<1>5. AwaitsOK(open', outcome', awaiting', enrolled', expired', lastRound', live', lapsed')
    BY DEF GroupInv
<1> QED
    BY <1>1, <1>2, <1>3, <1>4, <1>5, StepStays

(* It plans again.                                                         *)
LEMMA PlansAgain ==
    ASSUME GroupInv, NEW t \in Task, pc[t] \in Opening \cup OpenDone, reply[t].res # "queued",
           Forget(t), Goto(t, "plan"), NextPass(t), UNCHANGED <<who, at>>, slot' = FALSE,
           UNCHANGED <<open, enrolled, awaiting, expired, outcome, lastRound>>,
           UNCHANGED sessionVars, minted' = minted, CellType'
    PROVE  GroupInv'
<1>1. pass[t] < MaxReplans /\ who[t] \in minted /\ gen \in Nat
    BY DEF GroupInv, GroupType, RecordType, TasksOK, Own, TaskOK, Joining, Opening, OpenDone
<1>2. pc[t] \in Holding /\ "plan" \notin Holding /\ "plan" \in Labels
    BY DEF Holding, Labels, Joining, Opening, OpenDone
<1>3. Put(t, "plan", who[t], at[t], pass[t] + 1)
    BY <1>1, <1>2, PassPut
<1>4. TaskOK("plan", who[t], at[t], pass[t] + 1, NotSent, open, outcome, awaiting, expired, gen, minted)
    BY <1>1 DEF TaskOK, NotSent, Opening, OpenDone, Enrolled, Timed, Closing
<1> QED
    BY <1>2, <1>3, <1>4, Releases

LEMMA ReleaseOpenedStep ==
    ASSUME GroupInv, NEW t \in Task, ReleaseOpened(t)
    PROVE  GroupInv'
<1>1. pc[t] \in OpenDone
    BY DEF ReleaseOpened, OpenDone
<1>2. reply[t].res = "ok" /\ reply[t].gen <= gen /\ reply[t].gen \in Nat /\ gen \in Nat /\ CellType
    BY <1>1 DEF GroupInv, GroupType, AskType, Replies, RecordType, TasksOK, Own, TaskOK
<1>3. gen' = gen
    BY ForgetFacts DEF ReleaseOpened
<1>4. CellType'
    <2>1. cell' \in {Refused(reply[t].gen), cell}
        BY DEF ReleaseOpened
    <2> QED
        BY <1>2, <1>3, <2>1, RefusedFacts DEF CellType
<1> QED
    BY <1>1, <1>2, <1>4, PlansAgain DEF ReleaseOpened, clientVars

LEMMA OpenRacedStep ==
    ASSUME GroupInv, NEW t \in Task, OpenRaced(t)
    PROVE  GroupInv'
<1>1. pc[t] \in Opening /\ reply[t].res # "queued"
    BY DEF OpenRaced, Opening
<1>2. CellType'
    BY ForgetFacts DEF OpenRaced, GroupInv, GroupType, CellType
<1> QED
    BY <1>1, <1>2, PlansAgain DEF OpenRaced, clientVars

(* It ends.                                                                *)
LEMMA EndsHolding ==
    ASSUME GroupInv, NEW t \in Task, OpenUnavailable(t) \/ RosterLost(t)
    PROVE  GroupInv'
<1>1. pc[t] \in Holding /\ reply[t].res # "queued" /\ "idle" \notin Holding
    BY DEF OpenUnavailable, RosterLost, Holding
<1>2. Put(t, "idle", Somebody, 0, 0)
    BY DonePut DEF OpenUnavailable, RosterLost
<1>3. Forget(t) /\ slot' = FALSE /\ cell' = cell
    BY DEF OpenUnavailable, RosterLost
<1>4. CellType'
    BY <1>3, ForgetFacts DEF GroupInv, GroupType, CellType
<1>5. gen \in Nat
    BY DEF GroupInv, GroupType, RecordType
<1> QED
    BY <1>1, <1>2, <1>3, <1>4, <1>5, IdleOK, Releases DEF OpenUnavailable, RosterLost, clientVars

LEMMA RosterKeptStep ==
    ASSUME GroupInv, NEW t \in Task, RosterKept(t)
    PROVE  GroupInv'
<1> DEFINE p == IF pc[t] = "roster" THEN "register" ELSE "pending"
<1>1. pc[t] \in {"roster", "deadlineRoster"} /\ Forget(t) /\ Stay(t, p) /\ p \in {"register", "pending"}
    BY DEF RosterKept
<1> HIDE DEF p
<1>2. p \in Labels /\ p \notin Holding /\ pc[t] \in Holding
    BY <1>1 DEF Labels, Joining, Holding
<1>3. Put(t, p, who[t], at[t], pass[t])
    BY <1>1, <1>2, GotoPut DEF Stay
<1>4. reply[t].res # "queued"
    BY SettledAnswer DEF RosterKept
<1>5. CellType'
    BY ForgetFacts DEF RosterKept, GroupInv, GroupType, CellType
<1>6. who[t] \in minted /\ gen \in Nat /\ at[t] \in 1 .. Len(outcome) /\ outcome[at[t]].is = "closed"
    BY <1>1 DEF GroupInv, GroupType, RecordType, TasksOK, Own, TaskOK, Joining, Enrolled
<1>7. TaskOK(p, who[t], at[t], pass[t], NotSent, open, outcome, awaiting, expired, gen, minted)
    BY <1>1, <1>6 DEF TaskOK, NotSent, Opening, OpenDone, Timed, Closing
<1> QED
    BY <1>1, <1>2, <1>3, <1>4, <1>5, <1>7, Releases DEF RosterKept, clientVars

(* A waiter claims the slot to close its round.                            *)
LEMMA Claims ==
    ASSUME GroupInv, NEW t \in Task, pc[t] = "pending", IsOwnOpenRound(t), ~slot, slot' = TRUE,
           Stay(t, "deadlineClose"), awaiting' = {} \/ expired,
           awaiting' \subseteq Member \/ awaiting' = awaiting, awaiting = {} => awaiting' = {},
           UNCHANGED <<open, enrolled, expired, outcome, lastRound>>,
           UNCHANGED <<actorVars, sessionVars, cell, clientVars>>,
           AwaitsOK(open, outcome, awaiting', enrolled, expired, lastRound, live, lapsed)
    PROVE  GroupInv'
<1> USE DEF actorVars, recordVars, sessionVars, clientVars
<1>1. "deadlineClose" \in Labels /\ "deadlineClose" \in Holding /\ pc[t] \notin Asking
    BY DEF Labels, Holding, Asking, Opening, OpenDone
<1>2. Put(t, "deadlineClose", who[t], at[t], pass[t])
    BY <1>1, GotoPut DEF Stay
<1>3. reply[t] = NotSent /\ reply[t].res # "queued"
    BY <1>1, Unasked
<1>4. RecordType' /\ AskType' /\ SessionType' /\ CellType'
    BY DEF GroupInv, GroupType, RecordType, AskType, SessionType, CellType
<1>5. RoundType'
    BY DEF GroupInv, GroupType, RoundType
<1>6. Own(t)'
    <2>1. who[t] \in minted /\ gen \in Nat /\ at[t] \in 1 .. Len(outcome)
        BY DEF GroupInv, GroupType, RecordType, TasksOK, Own, TaskOK, Joining, Enrolled
    <2>2. open = at[t] /\ outcome[at[t]].is = "unset"
        BY DEF IsOwnOpenRound
    <2>3. TaskOK("deadlineClose", who[t], at[t], pass[t], NotSent, open, outcome, awaiting', expired, gen, minted)
        BY <2>1, <2>2 DEF TaskOK, NotSent, Joining, Opening, OpenDone, Timed, Closing, Asking
    <2> QED
        BY <1>2, <1>3, <2>3 DEF Own, Put
<1>7. SlotOK(slot', pc')
    <2>1. Moved(t) /\ pc'[t] \in Holding
        BY <1>1, <1>2, PutMoves DEF Put
    <2> QED
        BY <2>1, SlotTaken
<1>8. AwaitsOK(open', outcome', awaiting', enrolled', expired', lastRound', live', lapsed')
    BY DEF AwaitsOK
<1> QED
    BY <1>2, <1>3, <1>4, <1>5, <1>6, <1>7, <1>8, StepStays

LEMMA DeadlineClaimStep ==
    ASSUME GroupInv, NEW t \in Task, DeadlineClaim(t)
    PROVE  GroupInv'
<1>1. AwaitsOK(open, outcome, awaiting', enrolled, expired, lastRound, live, lapsed)
    BY DEF DeadlineClaim, GroupInv
<1> QED
    BY <1>1, Claims DEF DeadlineClaim

LEMMA RepruneStep ==
    ASSUME GroupInv, NEW t \in Task, Reprune(t)
    PROVE  GroupInv'
<1>1. pc[t] = "pending" /\ IsOwnOpenRound(t) /\ awaiting' = awaiting \cap live
    BY DEF Reprune
<1>2. awaiting' \subseteq Member
    BY <1>1 DEF GroupInv, GroupType, SessionType
<1>3. AwaitsOK(open, outcome, awaiting', enrolled, expired, lastRound, live, lapsed)
    <2>1. AwaitsOK(open, outcome, awaiting, enrolled, expired, lastRound, live, lapsed)
        BY DEF GroupInv
    <2> QED
        BY <1>1, <2>1 DEF AwaitsOK
<1>4. CASE awaiting' = {} /\ ~slot
    BY <1>1, <1>2, <1>3, <1>4, Claims DEF Reprune
<1>5. CASE ~(awaiting' = {} /\ ~slot)
    <2> USE DEF Reprune, actorVars, recordVars, sessionVars, clientVars, taskVars
    <2>1. Put(t, pc[t], who[t], at[t], pass[t]) /\ slot' = slot
        BY <1>5 DEF Put, GroupInv, GroupType, TaskType
    <2>2. reply[t] = NotSent /\ reply[t].res # "queued"
        BY <1>1, Unasked DEF Asking, Opening, OpenDone
    <2>3. RecordType' /\ AskType' /\ SessionType' /\ CellType'
        BY DEF GroupInv, GroupType, RecordType, AskType, SessionType, CellType
    <2>4. RoundType'
        BY <1>2, <2>1 DEF GroupInv, GroupType, RoundType
    <2>5. Own(t)'
        <3>1. Own(t)
            BY DEF GroupInv, TasksOK
        <3> QED
            BY <1>1, <2>1, <3>1 DEF Own, TaskOK, Put, Closing
    <2>6. SlotOK(slot', pc')
        BY <1>5 DEF GroupInv
    <2>7. AwaitsOK(open', outcome', awaiting', enrolled', expired', lastRound', live', lapsed')
        BY <1>3 DEF AwaitsOK
    <2> QED
        BY <1>1, <2>1, <2>2, <2>3, <2>4, <2>5, <2>6, <2>7, StepStays
<1> QED
    BY <1>4, <1>5

LEMMA WithdrawStep ==
    ASSUME GroupInv, NEW t \in Task, Withdraw(t)
    PROVE  GroupInv'
<1> USE DEF Withdraw, actorVars, recordVars, sessionVars, clientVars
<1>1. pc[t] = "withdraw" /\ pc[t] \notin Asking /\ pc[t] \notin Holding /\ "idle" \notin Holding
    BY DEF Asking, Opening, OpenDone, Holding
<1>2. Put(t, "idle", Somebody, 0, 0)
    BY DonePut
<1>3. reply[t] = NotSent /\ reply[t].res # "queued"
    BY <1>1, Unasked
<1>4. RecordType' /\ AskType' /\ SessionType' /\ CellType'
    BY DEF GroupInv, GroupType, RecordType, AskType, SessionType, CellType
<1>5. RoundType'
    BY KeptIds DEF GroupInv, GroupType, RoundType
<1>6. Own(t)'
    <2>1. gen \in Nat
        BY DEF GroupInv, GroupType, RecordType
    <2> QED
        BY <1>2, <1>3, <2>1, IdleOK DEF Own, Put
<1>7. SlotOK(slot', pc')
    BY <1>1, <1>2, PutMoves, SlotStays DEF Put
<1>8. AwaitsOK(open', outcome', awaiting', enrolled', expired', lastRound', live', lapsed')
    <2>1. IsOwnOpenRound(t) => expired
        BY <1>1 DEF GroupInv, TasksOK, Own, TaskOK, IsOwnOpenRound
    <2>2. AwaitsOK(open, outcome, awaiting, enrolled, expired, lastRound, live, lapsed)
        BY DEF GroupInv
    <2> QED
        BY <2>1, <2>2 DEF AwaitsOK
<1> QED
    BY <1>2, <1>3, <1>4, <1>5, <1>6, <1>7, <1>8, StepStays
-----------------------------------------------------------------------------
(* The holder of the slot replaces, closes or abandons the round.          *)
LEMMA StepEnds ==
    ASSUME GroupInv, NEW t \in Task, NEW p, NEW w, NEW a, NEW s, Put(t, p, w, a, s),
           pc[t] \in Holding \/ ~slot,
           RecordType', AskType', gen' = gen, QueueOK(queue', pc', reply'),
           \A u \in Task \ {t} : reply'[u] = reply[u],
           RoundType', Len(outcome) <= Len(outcome'), RoundsOK(open', outcome', gen),
           \A n \in 1 .. Len(outcome) :
               outcome'[n].is # "unset" /\ (outcome[n].is = "closed" => outcome'[n].is = "closed"),
           SlotOK(slot', pc'), Own(t)', SessionType', cell' = cell, minted' = minted,
           AwaitsOK(open', outcome', awaiting', enrolled', expired', lastRound', live', lapsed')
    PROVE  GroupInv'
<1>1. Moved(t)
    BY PutMoves
<1>2. outcome' \in Seq(Outcomes)
    BY DEF RoundType
<1>3. TasksOK'
    BY <1>1, <1>2, OverInv
<1>4. CellType'
    BY DEF GroupInv, GroupType, CellType
<1> QED
    BY <1>3, <1>4 DEF GroupInv, GroupType, Put

(* Whom a new round waits for.                                             *)
Fresh(last) == IF last = NoRoster THEN AwaitsNobody ELSE Range(last)

LEMMA FreshFacts ==
    ASSUME NEW last \in Ids \cup {NoRoster}
    PROVE  /\ Fresh(last) \in (SUBSET Member) \cup {AwaitsNobody}
           /\ Range(last) \cap Member \subseteq Fresh(last)
<1>1. CASE last = NoRoster
    <2>1. Range(last) \cap Member = {}
        BY <1>1, NoRosterFacts, GroupAssumption
    <2>2. Fresh(last) = AwaitsNobody
        BY <1>1 DEF Fresh
    <2> QED
        BY <2>1, <2>2
<1>2. CASE last # NoRoster
    BY <1>2 DEF Fresh, Ids, Range
<1> QED
    BY <1>1, <1>2

(* Enrolling one member more.                                              *)
LEMMA EnrolFacts ==
    ASSUME NEW was \in Ids, NEW m \in Member, NEW aw \in (SUBSET Member) \cup {AwaitsNobody}
    PROVE  LET ids == IF m \in Range(was) THEN was ELSE Append(was, m)
           IN  /\ ids \in Ids /\ Range(ids) = Range(was) \cup {m}
               /\ aw \ {m} \in (SUBSET Member) \cup {AwaitsNobody}
<1> DEFINE ids == IF m \in Range(was) THEN was ELSE Append(was, m)
<1>1. ids \in Ids /\ Range(ids) = Range(was) \cup {m}
    <2>1. CASE m \in Range(was)
        BY <2>1
    <2>2. CASE m \notin Range(was)
        BY <2>2, IdsAppend
    <2> QED
        BY <2>1, <2>2
<1>2. aw \ {m} \in (SUBSET Member) \cup {AwaitsNobody}
    <2>1. m # "no roster"
        BY GroupAssumption
    <2>2. CASE aw = AwaitsNobody
        BY <2>1, <2>2 DEF AwaitsNobody
    <2>3. CASE aw \in SUBSET Member
        BY <2>3
    <2> QED
        BY <2>2, <2>3
<1> QED
    BY <1>1, <1>2

LEMMA OpenedStep ==
    ASSUME GroupInv, NEW t \in Task, Opened(t)
    PROVE  GroupInv'
<1> DEFINE p == IF pc[t] = "openSync" THEN "openedSync" ELSE "openedJoin"
<1>1. pc[t] \in Opening /\ reply[t].res = "ok" /\ Stay(t, p) /\ p \in OpenDone
    BY DEF Opened, Opening, OpenDone
<1> HIDE DEF p
<1>2. p \in Labels /\ p \in Holding /\ pc[t] \in Holding
    BY <1>1 DEF Labels, Holding, Opening, OpenDone
<1>3. Put(t, p, who[t], at[t], pass[t])
    BY <1>1, <1>2, GotoPut DEF Stay
<1>4. /\ outcome' = Append(outcome, Unset) /\ open' = Len(outcome) + 1 /\ enrolled' = <<>>
      /\ expired' = FALSE /\ awaiting' = Fresh(lastRound) /\ lapsed' = Member \ live
    BY DEF Opened, Install, Fresh
<1>5. /\ UNCHANGED <<lastRound, slot, tracked, live, lapses, cell, minted>> /\ UNCHANGED <<queue, reply>>
      /\ UNCHANGED <<gstate, gen, epoch, roster, fails>>
    BY DEF Opened, actorVars, recordVars, clientVars
<1>6. /\ outcome \in Seq(Outcomes) /\ open \in Nat /\ gen \in Nat /\ Len(outcome) \in Nat
      /\ RoundsOK(open, outcome, gen) /\ lastRound \in Ids \cup {NoRoster}
    BY DEF GroupInv, GroupType, RoundType, RecordType
<1>7. ~(open # 0 /\ outcome[open].is = "unset")
    BY <1>1 DEF GroupInv, TasksOK, Own, TaskOK
<1>8. /\ outcome' \in Seq(Outcomes) /\ Len(outcome') = Len(outcome) + 1 /\ outcome'[Len(outcome) + 1] = Unset
      /\ \A n \in 1 .. Len(outcome) : outcome'[n] = outcome[n] /\ outcome'[n].is # "unset"
      /\ RoundsOK(open', outcome', gen)
    BY <1>4, <1>6, <1>7, RoundsInstall
<1>9. RecordType' /\ AskType' /\ SessionType'
    BY <1>4, <1>5 DEF GroupInv, GroupType, RecordType, AskType, SessionType
<1>10. RoundType'
    <2>1. open' \in 0 .. Len(outcome')
        BY <1>4, <1>6, <1>8
    <2>2. awaiting' \in (SUBSET Member) \cup {AwaitsNobody}
        BY <1>4, <1>6, FreshFacts
    <2>3. enrolled' \in Ids
        BY <1>4, IdsEmpty
    <2> QED
        BY <1>4, <1>5, <1>8, <2>1, <2>2, <2>3 DEF GroupInv, GroupType, RoundType
<1>11. Own(t)'
    <2>1. who[t] \in minted /\ pass[t] < MaxReplans /\ reply[t].gen <= gen
        BY <1>1 DEF GroupInv, TasksOK, Own, TaskOK, Joining, Opening
    <2>2. TaskOK(p, who[t], at[t], pass[t], reply[t], open', outcome', awaiting', expired', gen, minted)
        BY <1>1, <2>1 DEF TaskOK, Joining, Opening, OpenDone, Enrolled, Timed, Closing, Asking
    <2> QED
        BY <1>3, <1>5, <2>2 DEF Own, Put
<1>12. Moved(t)
    BY <1>3, <1>5, PutMoves
<1>13. SlotOK(slot', pc')
    BY <1>2, <1>3, <1>5, <1>12, SlotStays DEF Put
<1>14. QueueOK(queue', pc', reply')
    BY <1>1, <1>5, <1>12, QueueStays
<1>15. AwaitsOK(open', outcome', awaiting', enrolled', expired', lastRound', live', lapsed')
    <2>1. Range(lastRound) \cap Member \subseteq awaiting'
        BY <1>4, <1>6, FreshFacts
    <2> QED
        BY <1>4, <1>5, <2>1 DEF AwaitsOK
<1>16. Len(outcome) <= Len(outcome')
    BY <1>6, <1>8
<1> QED
    BY <1>2, <1>3, <1>5, <1>8, <1>9, <1>10, <1>11, <1>13, <1>14, <1>15, <1>16, StepEnds
(* Enrolling in a round put there at once.                                 *)
LEMMA EnrolNew ==
    ASSUME GroupInv, NEW t \in Task, PlanEnrol(t), NeedsOpen
    PROVE  GroupInv'
<1> DEFINE m == who[t]
           left == Fresh(lastRound) \ {m}
           ids == IF m \in Range(<<>>) THEN <<>> ELSE Append(<<>>, m)
           p == IF left = {} THEN "close" ELSE "pending"
<1>1. pc[t] = "plan" /\ pass[t] < MaxReplans /\ ~slot
    BY DEF PlanEnrol, CanInstall
<1>2. /\ enrolled' = ids /\ awaiting' = left /\ open' = Len(outcome) + 1 /\ outcome' = Append(outcome, Unset)
      /\ expired' = FALSE /\ lapsed' = Member \ live
    BY DEF PlanEnrol, Fresh
<1>3. slot' = (left = {}) /\ Goto(t, p) /\ at' = [at EXCEPT ![t] = open']
    BY <1>1 DEF PlanEnrol, Fresh, RosterComplete
<1>4. /\ UNCHANGED <<lastRound, tracked, live, lapses, cell, minted>> /\ UNCHANGED <<queue, reply, who, pass>>
      /\ UNCHANGED <<gstate, gen, epoch, roster, fails>>
    BY DEF PlanEnrol, actorVars, recordVars, clientVars
<1>5. /\ outcome \in Seq(Outcomes) /\ open \in Nat /\ gen \in Nat /\ Len(outcome) \in Nat
      /\ RoundsOK(open, outcome, gen) /\ lastRound \in Ids \cup {NoRoster} /\ m \in Member
    BY DEF GroupInv, GroupType, RoundType, RecordType, TaskType
<1>6. /\ outcome' \in Seq(Outcomes) /\ Len(outcome') = Len(outcome) + 1 /\ outcome'[Len(outcome) + 1] = Unset
      /\ \A n \in 1 .. Len(outcome) : outcome'[n] = outcome[n] /\ outcome'[n].is # "unset"
      /\ RoundsOK(open', outcome', gen)
    BY <1>2, <1>5, RoundsInstall DEF NeedsOpen
<1>7. /\ ids \in Ids /\ Range(ids) = {m} /\ left \in (SUBSET Member) \cup {AwaitsNobody}
      /\ Range(lastRound) \cap Member \subseteq left \cup {m}
    <2>1. Fresh(lastRound) \in (SUBSET Member) \cup {AwaitsNobody}
          /\ Range(lastRound) \cap Member \subseteq Fresh(lastRound)
        BY <1>5, FreshFacts
    <2>2. ids \in Ids /\ Range(ids) = Range(<<>>) \cup {m}
        BY <1>5, <2>1, IdsEmpty, EnrolFacts
    <2>3. left \in (SUBSET Member) \cup {AwaitsNobody}
        BY <1>5, <2>1, IdsEmpty, EnrolFacts
    <2> QED
        BY <2>1, <2>2, <2>3, IdsEmpty
<1> HIDE DEF ids, left
<1>8. p \in Labels /\ p \in {"close", "pending"} /\ (p \in Holding <=> left = {}) /\ pc[t] \notin Asking
    BY <1>1 DEF Labels, Joining, Holding, Asking, Opening, OpenDone
<1>9. Put(t, p, m, Len(outcome) + 1, pass[t])
    BY <1>2, <1>3, <1>4, <1>5, <1>8 DEF Put, Goto, GroupInv, GroupType, TaskType
<1>10. p = "close" => left = {}
    BY <1>8 DEF Holding
<1> HIDE DEF p
<1>11. RecordType' /\ AskType' /\ SessionType'
    BY <1>2, <1>4 DEF GroupInv, GroupType, RecordType, AskType, SessionType
<1>12. RoundType'
    <2>1. open' \in 0 .. Len(outcome')
        BY <1>2, <1>5, <1>6
    <2>2. slot' \in BOOLEAN
        BY <1>3
    <2> QED
        BY <1>2, <1>4, <1>6, <1>7, <2>1, <2>2 DEF GroupInv, GroupType, RoundType
<1>13. reply[t] = NotSent /\ reply[t].res # "queued"
    BY <1>8, Unasked
<1>14. Own(t)'
    <2>1. m \in minted
        BY <1>1 DEF GroupInv, TasksOK, Own, TaskOK, Joining
    <2>2. outcome'[Len(outcome) + 1].is = "unset" /\ Len(outcome) + 1 \in 1 .. Len(outcome')
        BY <1>5, <1>6 DEF Unset
    <2>3. TaskOK(p, m, Len(outcome) + 1, pass[t], NotSent, open', outcome', awaiting', expired', gen, minted)
        BY <1>1, <1>2, <1>5, <1>8, <1>10, <2>1, <2>2
           DEF TaskOK, NotSent, Joining, Opening, OpenDone, Enrolled, Timed, Closing, Asking
    <2> QED
        BY <1>4, <1>9, <1>13, <2>3 DEF Own, Put
<1>15. Moved(t)
    BY <1>4, <1>9, PutMoves
<1>16. SlotOK(slot', pc')
    <2>1. CASE left = {}
        BY <1>1, <1>3, <1>8, <1>9, <1>15, <2>1, SlotTaken DEF Put
    <2>2. CASE left # {}
        <3>1. slot' = slot
            BY <1>1, <1>3, <2>2 DEF GroupInv, GroupType, RoundType
        <3>2. pc[t] \notin Holding /\ pc'[t] \notin Holding
            BY <1>1, <1>8, <1>9, <2>2 DEF Put, Holding
        <3> QED
            BY <1>15, <3>1, <3>2, SlotStays
    <2> QED
        BY <2>1, <2>2
<1>17. QueueOK(queue', pc', reply')
    BY <1>4, <1>13, <1>15, QueueStays
<1>18. AwaitsOK(open', outcome', awaiting', enrolled', expired', lastRound', live', lapsed')
    BY <1>2, <1>4, <1>7 DEF AwaitsOK
<1>19. Len(outcome) <= Len(outcome')
    BY <1>5, <1>6
<1> QED
    BY <1>1, <1>4, <1>6, <1>9, <1>11, <1>12, <1>14, <1>16, <1>17, <1>18, <1>19, StepEnds

(* Enrolling in the round that is open.                                    *)
LEMMA EnrolOpen ==
    ASSUME GroupInv, NEW t \in Task, PlanEnrol(t), ~NeedsOpen
    PROVE  GroupInv'
<1> DEFINE m == who[t]
           left == awaiting \ {m}
           ids == IF m \in Range(enrolled) THEN enrolled ELSE Append(enrolled, m)
           p == IF left = {} /\ ~slot THEN "close" ELSE "pending"
<1>1. pc[t] = "plan" /\ pass[t] < MaxReplans
    BY DEF PlanEnrol
<1>2. enrolled' = ids /\ awaiting' = left /\ UNCHANGED <<open, outcome, expired, lapsed>>
    BY DEF PlanEnrol
<1>3. slot' = (slot \/ left = {}) /\ Goto(t, p) /\ at' = [at EXCEPT ![t] = open']
    BY DEF PlanEnrol, RosterComplete
<1>4. /\ UNCHANGED <<lastRound, tracked, live, lapses, cell, minted>> /\ UNCHANGED <<queue, reply, who, pass>>
      /\ UNCHANGED <<gstate, gen, epoch, roster, fails>>
    BY DEF PlanEnrol, actorVars, recordVars, clientVars
<1>5. /\ outcome \in Seq(Outcomes) /\ open \in 0 .. Len(outcome) /\ gen \in Nat /\ slot \in BOOLEAN
      /\ enrolled \in Ids /\ awaiting \in (SUBSET Member) \cup {AwaitsNobody} /\ m \in Member
    BY DEF GroupInv, GroupType, RoundType, RecordType, TaskType
<1>6. ids \in Ids /\ Range(ids) = Range(enrolled) \cup {m} /\ left \in (SUBSET Member) \cup {AwaitsNobody}
    BY <1>5, EnrolFacts
<1>7. awaiting = {} => left = {}
    OBVIOUS
<1>8. AwaitsOK(open, outcome, left, ids, expired, lastRound, live, lapsed)
    <2>1. AwaitsOK(open, outcome, awaiting, enrolled, expired, lastRound, live, lapsed)
        BY DEF GroupInv
    <2>2. \A x : x \in awaiting => x \in left \/ x = m
        OBVIOUS
    <2> HIDE DEF ids, left
    <2> QED
        BY <1>6, <2>1, <2>2 DEF AwaitsOK
<1> HIDE DEF ids, left
<1>9. p \in Labels /\ p \in {"close", "pending"} /\ (p \in Holding <=> left = {} /\ ~slot) /\ pc[t] \notin Asking
    BY <1>1 DEF Labels, Joining, Holding, Asking, Opening, OpenDone
<1>10. Put(t, p, m, open, pass[t])
    BY <1>2, <1>3, <1>4, <1>5, <1>9 DEF Put, Goto, GroupInv, GroupType, TaskType
<1>11. p = "close" => left = {}
    BY <1>9 DEF Holding
<1> HIDE DEF p
<1>12. RecordType' /\ AskType' /\ SessionType' /\ CellType'
    BY <1>2, <1>4 DEF GroupInv, GroupType, RecordType, AskType, SessionType, CellType
<1>13. RoundType'
    <2>1. slot' \in BOOLEAN
        BY <1>3
    <2> QED
        BY <1>2, <1>4, <1>6, <2>1 DEF GroupInv, GroupType, RoundType
<1>14. reply[t] = NotSent /\ reply[t].res # "queued"
    BY <1>9, Unasked
<1>15. Own(t)'
    <2>1. m \in minted
        BY <1>1 DEF GroupInv, TasksOK, Own, TaskOK, Joining
    <2>2. outcome[open].is = "unset" /\ open \in 1 .. Len(outcome)
        BY <1>5 DEF NeedsOpen
    <2>3. TaskOK(p, m, open, pass[t], NotSent, open, outcome, left, expired, gen, minted)
        BY <1>1, <1>5, <1>9, <1>11, <2>1, <2>2
           DEF TaskOK, NotSent, Joining, Opening, OpenDone, Enrolled, Timed, Closing, Asking
    <2> QED
        BY <1>2, <1>4, <1>10, <1>14, <2>3 DEF Own, Put
<1>16. Moved(t)
    BY <1>4, <1>10, PutMoves
<1>17. SlotOK(slot', pc')
    <2>1. CASE left = {} /\ ~slot
        BY <1>3, <1>9, <1>10, <1>16, <2>1, SlotTaken DEF Put
    <2>2. CASE ~(left = {} /\ ~slot)
        <3>1. slot' = slot
            BY <1>3, <1>5, <2>2
        <3>2. pc[t] \notin Holding /\ pc'[t] \notin Holding
            BY <1>1, <1>9, <1>10, <2>2 DEF Put, Holding
        <3> QED
            BY <1>16, <3>1, <3>2, SlotStays
    <2> QED
        BY <2>1, <2>2
<1>18. AwaitsOK(open', outcome', awaiting', enrolled', expired', lastRound', live', lapsed')
    BY <1>2, <1>4, <1>8
<1> QED
    BY <1>2, <1>4, <1>7, <1>10, <1>12, <1>13, <1>14, <1>15, <1>17, <1>18, StepStays
(* What the handler that closes a round knows of it.                       *)
LEMMA ClosingFacts ==
    ASSUME GroupInv, NEW t \in Task, pc[t] \in Closing
    PROVE  /\ open = at[t] /\ open \in 1 .. Len(outcome) /\ outcome[open].is = "unset"
           /\ outcome \in Seq(Outcomes) /\ RoundsOK(open, outcome, gen) /\ gen \in Nat
           /\ who[t] \in minted /\ reply[t].gen \in Nat /\ reply[t].gen <= gen
           /\ reply[t].res = "ok" =>
                  \A n \in 1 .. Len(outcome) : outcome[n].is = "closed" => outcome[n].gen < reply[t].gen
           /\ pc[t] = "close" => pass[t] < MaxReplans
           /\ pc[t] \in Holding
<1>1. Own(t)
    BY DEF GroupInv, TasksOK
<1>2. pc[t] \in Enrolled /\ pc[t] \in Joining /\ pc[t] \in Holding
    BY DEF Closing, Enrolled, Joining, Holding
<1>3. reply[t].gen \in Nat /\ gen \in Nat /\ outcome \in Seq(Outcomes) /\ RoundsOK(open, outcome, gen)
    BY DEF GroupInv, GroupType, AskType, Replies, RecordType, RoundType
<1>4. at[t] \in 1 .. Len(outcome) /\ open = at[t] /\ outcome[at[t]].is = "unset" /\ who[t] \in minted
    BY <1>1, <1>2 DEF Own, TaskOK
<1>5. reply[t].gen <= gen /\ (pc[t] = "close" => pass[t] < MaxReplans)
    BY <1>1 DEF Own, TaskOK
<1>6. reply[t].res = "ok" =>
          \A n \in 1 .. Len(outcome) : outcome[n].is = "closed" => outcome[n].gen < reply[t].gen
    BY <1>1 DEF Own, TaskOK
<1> QED
    BY <1>2, <1>3, <1>4, <1>5, <1>6

LEMMA FinalizeStep ==
    ASSUME GroupInv, NEW t \in Task, Finalize(t)
    PROVE  GroupInv'
<1> DEFINE ids == InOrder(enrolled, lastRound)
           c == Closed(reply[t].gen, ids)
           e == [task |-> t, event |-> "Roster", ids |-> ids]
           p == IF pc[t] = "close" THEN "roster" ELSE "deadlineRoster"
<1>1. pc[t] \in Closing /\ Settled(t) /\ CloseGeneration(t) # 0
    BY DEF Finalize
<1>2. reply[t].res = "ok" /\ CloseGeneration(t) = reply[t].gen
    BY <1>1 DEF CloseGeneration
<1>3. /\ open = at[t] /\ open \in 1 .. Len(outcome) /\ outcome[open].is = "unset"
      /\ outcome \in Seq(Outcomes) /\ RoundsOK(open, outcome, gen) /\ gen \in Nat
      /\ who[t] \in minted /\ reply[t].gen \in Nat /\ reply[t].gen <= gen
      /\ \A n \in 1 .. Len(outcome) : outcome[n].is = "closed" => outcome[n].gen < reply[t].gen
      /\ pc[t] \in Holding
    BY <1>1, <1>2, ClosingFacts
<1>4. ids \in Ids
    BY InOrderFacts DEF GroupInv, GroupType, RoundType
<1>5. outcome' = [outcome EXCEPT ![open] = c] /\ lastRound' = ids /\ queue' = Append(queue, e)
    BY <1>2 DEF Finalize, EnqueueRoster
<1>6. reply' = [reply EXCEPT ![t] = Waiting] /\ Stay(t, p) /\ enrolled' = <<>>
    BY DEF Finalize, EnqueueRoster
<1>7. UNCHANGED <<open, awaiting, expired, slot, gstate, gen, epoch, roster, fails, cell, minted>>
      /\ UNCHANGED sessionVars
    BY DEF Finalize, recordVars, clientVars
<1> HIDE DEF ids
<1>8. c \in Outcomes /\ c.is = "closed" /\ c.gen = reply[t].gen
    BY <1>3, <1>4 DEF Closed, Outcomes, Ids
<1>9. e \in Entries /\ e.task = t /\ e.event = "Roster"
    BY <1>4 DEF Entries
<1>10. p \in {"roster", "deadlineRoster"}
    OBVIOUS
<1> HIDE DEF c, e, p
<1>11. /\ outcome' \in Seq(Outcomes) /\ Len(outcome') = Len(outcome) /\ outcome'[open] = c
       /\ \A n \in 1 .. Len(outcome) : outcome'[n].is # "unset"
       /\ \A n \in 1 .. Len(outcome) : n # open => outcome'[n] = outcome[n]
       /\ RoundsOK(open, outcome', gen)
    <2>1. open \in Nat /\ open # 0 /\ open <= Len(outcome) /\ open \in {0, open}
        BY <1>3
    <2>2. /\ c.is # "unset" /\ c.gen <= gen
          /\ c.is = "closed" => \A n \in 1 .. Len(outcome) : outcome[n].is = "closed" => outcome[n].gen < c.gen
        BY <1>3, <1>8
    <2> DEFINE new == [outcome EXCEPT ![open] = c]
    <2>3. /\ new \in Seq(Outcomes) /\ Len(new) = Len(outcome) /\ new[open] = c
          /\ \A n \in 1 .. Len(outcome) : new[n].is # "unset"
          /\ \A n \in 1 .. Len(outcome) : n # open => new[n] = outcome[n]
          /\ RoundsOK(open, new, gen)
        BY SMTT(30), <1>3, <1>8, <2>1, <2>2, RoundsEnd
    <2>4. outcome' = new
        BY <1>5
    <2> HIDE DEF new
    <2> QED
        BY <2>3, <2>4
<1>12. p \in Labels /\ p \in Holding
    BY <1>10 DEF Labels, Holding
<1>13. Put(t, p, who[t], at[t], pass[t])
    BY <1>6, <1>12, GotoPut DEF Stay
<1>14. reply'[t] = Waiting /\ reply' \in [Task -> Replies] /\ \A u \in Task \ {t} : reply'[u] = reply[u]
    <2>1. Waiting \in Replies
        BY DEF Waiting, Replies
    <2> QED
        BY <1>6, <2>1 DEF GroupInv, GroupType, AskType
<1>15. Moved(t)
    BY <1>13, <1>14, PutMoves
<1>16. QueueOK(queue', pc', reply') /\ queue' \in Seq(Entries)
    <2>1. Fits(pc'[t], e.event)
        BY <1>9, <1>10, <1>13 DEF Fits, Put
    <2>2. reply[t].res # "queued"
        BY <1>2
    <2> QED
        BY <1>5, <1>9, <1>14, <1>15, <2>1, <2>2, QueueGrows
<1>17. RecordType' /\ AskType' /\ SessionType'
    BY <1>7, <1>14, <1>16 DEF GroupInv, GroupType, RecordType, AskType, SessionType, sessionVars
<1>18. RoundType'
    BY <1>4, <1>5, <1>6, <1>7, <1>11, IdsEmpty DEF GroupInv, GroupType, RoundType
<1>19. Own(t)'
    <2>1. TaskOK(p, who[t], at[t], pass[t], Waiting, open, outcome', awaiting, expired, gen, minted)
        BY <1>3, <1>8, <1>10, <1>11
           DEF TaskOK, Waiting, Joining, Opening, OpenDone, Enrolled, Timed, Closing, Asking
    <2> QED
        BY <1>7, <1>13, <1>14, <2>1 DEF Own, Put
<1>20. SlotOK(slot', pc')
    BY <1>3, <1>7, <1>12, <1>13, <1>15, SlotStays DEF Put
<1>21. AwaitsOK(open', outcome', awaiting', enrolled', expired', lastRound', live', lapsed')
    BY <1>3, <1>7, <1>8, <1>11 DEF AwaitsOK
<1>22. \A n \in 1 .. Len(outcome) :
          outcome'[n].is # "unset" /\ (outcome[n].is = "closed" => outcome'[n].is = "closed")
    BY <1>3, <1>11
<1>23. Len(outcome) <= Len(outcome')
    BY <1>3, <1>11
<1> QED
    BY <1>3, <1>7, <1>11, <1>13, <1>14, <1>16, <1>17, <1>18, <1>19, <1>20, <1>21, <1>22, <1>23, StepEnds

LEMMA AbandonStep ==
    ASSUME GroupInv, NEW t \in Task, Abandon(t)
    PROVE  GroupInv'
<1>1. pc[t] \in Closing /\ Settled(t) /\ Forget(t) /\ slot' = FALSE
    BY DEF Abandon
<1>2. /\ open = at[t] /\ open \in 1 .. Len(outcome) /\ outcome[open].is = "unset"
      /\ outcome \in Seq(Outcomes) /\ RoundsOK(open, outcome, gen) /\ gen \in Nat
      /\ who[t] \in minted /\ pc[t] \in Holding /\ (pc[t] = "close" => pass[t] < MaxReplans)
    BY <1>1, ClosingFacts
<1>3. /\ outcome' = [outcome EXCEPT ![open] = Abandoned] /\ open' = 0 /\ enrolled' = <<>>
      /\ awaiting' = AwaitsNobody /\ expired' = FALSE /\ lastRound' \in {NoRoster, lastRound}
    BY DEF Abandon
<1>4. UNCHANGED sessionVars /\ UNCHANGED <<cell, minted>>
    BY DEF Abandon, clientVars
<1>5. /\ reply'[t] = NotSent /\ \A u \in Task \ {t} : reply'[u] = reply[u]
      /\ AskType' /\ RecordType' /\ gen' = gen /\ queue' = queue
    BY <1>1, ForgetFacts
<1>6. Abandoned \in Outcomes /\ Abandoned.is = "abandoned" /\ Abandoned.gen = 0
    BY DEF Abandoned, Outcomes
<1>7. /\ outcome' \in Seq(Outcomes) /\ Len(outcome') = Len(outcome) /\ outcome'[open] = Abandoned
      /\ \A n \in 1 .. Len(outcome) : outcome'[n].is # "unset"
      /\ \A n \in 1 .. Len(outcome) : n # open => outcome'[n] = outcome[n]
      /\ RoundsOK(0, outcome', gen)
    <2>1. open \in Nat /\ open # 0 /\ open <= Len(outcome) /\ 0 \in {0, open}
        BY <1>2
    <2>2. Abandoned.is # "unset" /\ Abandoned.is # "closed" /\ Abandoned.gen <= gen
        BY <1>2, <1>6
    <2> DEFINE new == [outcome EXCEPT ![open] = Abandoned]
    <2>3. /\ new \in Seq(Outcomes) /\ Len(new) = Len(outcome) /\ new[open] = Abandoned
          /\ \A n \in 1 .. Len(outcome) : new[n].is # "unset"
          /\ \A n \in 1 .. Len(outcome) : n # open => new[n] = outcome[n]
          /\ RoundsOK(0, new, gen)
        BY <1>2, <1>6, <2>1, <2>2, RoundsEnd
    <2>4. outcome' = new
        BY <1>3
    <2> HIDE DEF new
    <2> QED
        BY <2>3, <2>4
<1>8. PICK p, a, s : /\ Put(t, p, who[t], a, s) /\ p \in {"plan", "pending"}
                     /\ p = "pending" => a = at[t]
    <2>1. CASE pc[t] = "close"
        <3>1. Goto(t, "plan") /\ NextPass(t) /\ at' = [at EXCEPT ![t] = 0] /\ UNCHANGED who
            BY <2>1 DEF Abandon
        <3>2. pass[t] + 1 \in 0 .. MaxReplans
            <4>1. MaxReplans \in Nat
                BY GroupAssumption
            <4> QED
                BY <1>2, <2>1, <4>1 DEF GroupInv, GroupType, TaskType
        <3>3. "plan" \in Labels
            BY DEF Labels, Joining
        <3>4. Put(t, "plan", who[t], 0, pass[t] + 1)
            BY <3>1, <3>2, <3>3 DEF GroupInv, GroupType, TaskType, Goto, NextPass, Put
        <3> QED
            BY <3>4
    <2>2. CASE pc[t] # "close"
        <3>1. "pending" \in Labels
            BY DEF Labels, Joining
        <3>2. Put(t, "pending", who[t], at[t], pass[t])
            BY <2>2, <3>1, GotoPut DEF Abandon, Stay
        <3> QED
            BY <3>2
    <2> QED
        BY <2>1, <2>2
<1>9. Moved(t)
    BY <1>5, <1>8, PutMoves
<1>10. p \notin Holding
    BY <1>8 DEF Holding
<1>11. SlotOK(slot', pc')
    BY <1>1, <1>2, <1>8, <1>9, <1>10, SlotFreed DEF Put
<1>12. QueueOK(queue', pc', reply')
    BY <1>1, <1>5, <1>9, SettledAnswer, QueueStays
<1>13. SessionType'
    BY <1>4 DEF GroupInv, GroupType, SessionType, sessionVars
<1>14. RoundType'
    <2>1. open' \in 0 .. Len(outcome') /\ slot' \in BOOLEAN /\ expired' \in BOOLEAN
        <3>1. Len(outcome') \in Nat
            BY <1>2, <1>7
        <3>2. open' = 0 /\ slot' = FALSE /\ expired' = FALSE
            BY <1>1, <1>3
        <3>3. 0 \in 0 .. Len(outcome')
            BY <3>1
        <3> QED
            BY <3>2, <3>3
    <2>2. lastRound' \in Ids \cup {NoRoster}
        BY <1>3 DEF GroupInv, GroupType, RoundType
    <2> QED
        BY <1>3, <1>7, <2>1, <2>2, IdsEmpty DEF RoundType
<1>15. Own(t)'
    <2>1. p = "pending" => a \in 1 .. Len(outcome') /\ outcome'[a].is # "unset"
        BY <1>2, <1>7, <1>8
    <2>2. TaskOK(p, who[t], a, s, NotSent, open', outcome', awaiting', expired', gen, minted)
        BY <1>2, <1>8, <2>1
           DEF TaskOK, NotSent, Joining, Opening, OpenDone, Enrolled, Timed, Closing
    <2> QED
        BY <1>4, <1>5, <1>8, <2>2 DEF Own, Put
<1>16. AwaitsOK(open', outcome', awaiting', enrolled', expired', lastRound', live', lapsed')
    BY <1>3 DEF AwaitsOK
<1>17. \A n \in 1 .. Len(outcome) :
          outcome'[n].is # "unset" /\ (outcome[n].is = "closed" => outcome'[n].is = "closed")
    BY <1>2, <1>7
<1>18. Len(outcome) <= Len(outcome') /\ RoundsOK(open', outcome', gen)
    BY <1>2, <1>3, <1>7
<1> QED
    BY <1>2, <1>4, <1>5, <1>8, <1>11, <1>12, <1>13, <1>14, <1>15, <1>16, <1>17, <1>18, StepEnds
-----------------------------------------------------------------------------
(* The invariant.                                                          *)

(* A group nobody has joined, or one whose first round has closed.         *)
LEMMA InitRound ==
    ASSUME Init
    PROVE  \/ /\ gstate = "Empty" /\ gen = 0 /\ epoch = 0 /\ roster = NoRoster
              /\ open = 0 /\ outcome = <<>> /\ tracked = {} /\ live = {} /\ minted = {} /\ cell.gen = 0
           \/ /\ gstate \in {"CompletingRebalance", "Stable"} /\ gen = 1 /\ epoch \in {0, 1} /\ roster = Incumbents
              /\ open = 1 /\ outcome = <<Closed(1, Incumbents)>>
              /\ tracked = Range(Incumbents) /\ live = Range(Incumbents) /\ minted = Range(Incumbents)
              /\ cell.gen = epoch
<1>1. gstate \in {"Empty", "CompletingRebalance", "Stable"}
    BY GroupAssumption DEF Init
<1>2. CASE gstate = "Empty"
    <2>1. gen = 0 /\ epoch = 0 /\ roster = NoRoster /\ open = 0 /\ outcome = <<>>
        BY <1>2 DEF Init
    <2>2. tracked = Range(<<>>) /\ live = Range(<<>>) /\ minted = Range(<<>>)
        BY <1>2 DEF Init
    <2>3. cell.gen = 0
        BY <1>2 DEF Init
    <2> QED
        BY <1>2, <2>1, <2>2, <2>3, IdsEmpty
<1>3. CASE gstate # "Empty"
    <2>1. gen = 1 /\ roster = Incumbents /\ open = 1 /\ outcome = <<Closed(1, Incumbents)>>
        BY <1>3 DEF Init
    <2>2. epoch \in {0, 1}
        BY <1>3 DEF Init
    <2>3. tracked = Range(Incumbents) /\ live = Range(Incumbents) /\ minted = Range(Incumbents)
        BY <1>3 DEF Init
    <2>4. cell.gen = epoch
        BY DEF Init
    <2> QED
        BY <1>1, <1>3, <2>1, <2>2, <2>3, <2>4
<1> QED
    BY <1>2, <1>3

LEMMA InitInv == Init => GroupInv
<1> SUFFICES ASSUME Init PROVE GroupInv
    OBVIOUS
<1>1. /\ queue = <<>> /\ reply = [t \in Task |-> NotSent] /\ fails = 0 /\ enrolled = <<>>
      /\ awaiting = AwaitsNobody /\ expired = FALSE /\ lastRound = roster /\ slot = FALSE
      /\ lapses = 0 /\ lapsed = {}
    BY DEF Init
<1>2. /\ pc = [t \in Task |-> "idle"] /\ who = [t \in Task |-> Somebody]
      /\ at = [t \in Task |-> 0] /\ pass = [t \in Task |-> 0]
    BY DEF Init
<1>3. /\ MaxReplans \in Nat /\ MaxFails \in Nat /\ MaxFaults \in Nat /\ Somebody \in Member
    BY GroupAssumption, TransitionsAssumption DEF Somebody
<1>4. Incumbents \in Ids /\ Range(Incumbents) \subseteq Member
    <2>1. Incumbents \in Seq(Member) /\ IsInjective(Incumbents)
        BY GroupAssumption
    <2>2. Incumbents \in Ids
        BY <2>1 DEF Ids
    <2>3. Range(Incumbents) \subseteq Member
        BY <2>1 DEF Range
    <2> QED
        BY <2>2, <2>3
<1>5. /\ gstate \in GroupStates \ {"Dead"} /\ gen \in Nat /\ epoch \in 0 .. gen
      /\ cell.gen \in Nat /\ cell.gen <= gen
    BY InitRound DEF GroupStates
<1>6. roster \in Ids \cup {NoRoster} /\ tracked \subseteq minted /\ live \subseteq tracked /\ minted \subseteq Member
    BY <1>4, InitRound
<1>7. /\ outcome \in Seq(Outcomes) /\ open \in 0 .. Len(outcome) /\ open \in {0, Len(outcome)}
      /\ \A r \in 1 .. Len(outcome) : r = 1 /\ Len(outcome) = 1 /\ outcome[r].is = "closed" /\ outcome[r].gen <= gen
    <2>1. CASE outcome = <<>> /\ open = 0
        BY <2>1
    <2>2. CASE outcome = <<Closed(1, Incumbents)>> /\ open = 1 /\ gen = 1
        <3> DEFINE c == Closed(1, Incumbents)
        <3>1. c \in Outcomes /\ c.is = "closed" /\ c.gen = 1
            BY <1>4 DEF Closed, Outcomes, Ids
        <3> HIDE DEF c
        <3>2. <<c>> \in Seq(Outcomes) /\ Len(<<c>>) = 1 /\ <<c>>[1] = c
            BY <3>1
        <3>3. outcome = <<c>>
            BY <2>2 DEF c
        <3>4. \A r \in 1 .. 1 : r = 1
            OBVIOUS
        <3> QED
            BY <2>2, <3>1, <3>2, <3>3, <3>4
    <2> QED
        BY <2>1, <2>2, InitRound
<1>8. RecordType
    BY <1>1, <1>3, <1>5, <1>6 DEF RecordType
<1>9. AskType
    <2>1. NotSent \in Replies
        BY DEF NotSent, Replies
    <2> QED
        BY <1>1, <2>1 DEF AskType
<1>10. RoundType
    BY <1>1, <1>6, <1>7, IdsEmpty DEF RoundType
<1>11. SessionType
    BY <1>1, <1>3, <1>6 DEF SessionType
<1>12. CellType
    <2>1. cell = [gen |-> epoch, map |-> gstate = "Stable"]
        BY DEF Init
    <2>2. epoch \in Nat /\ (gstate = "Stable") \in BOOLEAN
        BY <1>5
    <2>3. cell \in [gen : Nat, map : BOOLEAN]
        BY <2>1, <2>2
    <2> QED
        BY <1>5, <2>3 DEF CellType
<1>13. TaskType
    <2>1. "idle" \in Labels /\ 0 \in 0 .. MaxReplans
        BY <1>3 DEF Labels
    <2> QED
        BY <1>2, <1>3, <2>1 DEF TaskType
<1>14. RoundsOK(open, outcome, gen)
    BY <1>7 DEF RoundsOK
<1>15. QueueOK(queue, pc, reply)
    BY <1>1 DEF QueueOK
<1>16. SlotOK(slot, pc)
    BY <1>1, <1>2 DEF SlotOK, Holding
<1>17. AwaitsOK(open, outcome, awaiting, enrolled, expired, lastRound, live, lapsed)
    BY <1>7 DEF AwaitsOK
<1>18. TasksOK
    <2> SUFFICES ASSUME NEW t \in Task
                 PROVE  Own(t)
        BY DEF TasksOK
    <2>1. pc[t] = "idle" /\ reply[t] = NotSent
        BY <1>1, <1>2
    <2> QED
        BY <1>5, <2>1, IdleOK DEF Own
<1> QED
    BY <1>8, <1>9, <1>10, <1>11, <1>12, <1>13, <1>14, <1>15, <1>16, <1>17, <1>18 DEF GroupInv, GroupType

(* Every step keeps it.                                                    *)
LEMMA NextInv ==
    ASSUME GroupInv, [Next]_vars
    PROVE  GroupInv'
<1>1. CASE UNCHANGED vars
    BY <1>1 DEF vars, actorVars, recordVars, joinVars, sessionVars, taskVars, clientVars,
       GroupInv, GroupType, RecordType, AskType, RoundType, SessionType, CellType, TaskType,
       RoundsOK, QueueOK, SlotOK, AwaitsOK, TasksOK, Own
<1>2. ASSUME NEW t \in Task, NEW m \in Member, Request(t, m)
      PROVE  GroupInv'
    BY <1>2, JoinNewStep, RejoinStep, TimedStep DEF Request
<1>3. ASSUME NEW t \in Task, Step(t)
      PROVE  GroupInv'
    <2>1. CASE PlanBusy(t) \/ PlanWait(t) \/ PlanOpen(t) \/ PlanEnrol(t) \/ PlanRefused(t)
        BY <2>1, PlanBusyStep, PlanWaitStep, PlanOpenStep, EnrolNew, EnrolOpen, PlanRefusedStep
    <2>2. CASE Send(t) \/ Opened(t) \/ ReleaseOpened(t) \/ OpenRaced(t) \/ OpenUnavailable(t)
        BY <2>2, SendStep, OpenedStep, ReleaseOpenedStep, OpenRacedStep, EndsHolding
    <2>3. CASE Finalize(t) \/ Abandon(t) \/ RosterKept(t) \/ RosterLost(t)
        BY <2>3, FinalizeStep, AbandonStep, RosterKeptStep, EndsHolding
    <2>4. CASE PendingClosed(t) \/ PendingAbandoned(t) \/ Reprune(t)
        BY <2>4, PendingClosedStep, PendingAbandonedStep, RepruneStep
    <2>5. CASE DeadlineClaim(t) \/ DeadlineLapse(t) \/ Withdraw(t) \/ Register(t)
        BY <2>5, DeadlineClaimStep, DeadlineLapseStep, WithdrawStep, RegisterStep
    <2>6. CASE SyncAnswered(t) \/ SyncRefused(t) \/ Submit(t) \/ Released(t) \/ ParkedTooLong(t)
        BY <2>6, SyncAnsweredStep, SyncRefusedStep, SubmitStep, ParkedStep
    <2>7. CASE RemoveWhere(t) \/ RemoveNobody(t) \/ Removed(t) \/ Beat(t)
        BY <2>7, RemoveWhereStep, RemoveNobodyStep, RemovedStep, BeatStep
    <2> QED
        BY <1>3, <2>1, <2>2, <2>3, <2>4, <2>5, <2>6, <2>7 DEF Step
<1>4. ASSUME NEW m \in Member, SessionLapses(m)
      PROVE  GroupInv'
    BY <1>4, SessionLapsesStep
<1>5. CASE DeadlinePasses
    BY <1>5, DeadlinePassesStep
<1>6. CASE Actor
    BY <1>6, ActorStep
<1> QED
    BY <1>1, <1>2, <1>3, <1>4, <1>5, <1>6 DEF Next

(* The queue holds at most one request of each handler.                    *)
LEMMA QueueBounded ==
    ASSUME GroupInv
    PROVE  Len(queue) <= Cardinality(Task)
<1> DEFINE n == Len(queue)
           f == [i \in 1 .. n |-> queue[i].task]
<1>1. queue \in Seq(Entries) /\ n \in Nat
    BY DEF GroupInv, GroupType, AskType
<1>2. \A i \in 1 .. n : queue[i].task \in Task
    BY <1>1, EntryTask
<1>3. \A i, j \in 1 .. n : queue[i].task = queue[j].task => i = j
    BY DEF GroupInv, QueueOK
<1> HIDE DEF n
<1>4. f \in [1 .. n -> Task] /\ IsInjective(f)
    BY <1>2, <1>3 DEF IsInjective
<1>5. f \in Injection(1 .. n, Task)
    BY <1>4 DEF Injection
<1>6. IsFiniteSet(Task)
    BY GroupAssumption
<1>7. Cardinality(1 .. n) <= Cardinality(Task)
    BY <1>5, <1>6, FS_Injection
<1>8. Cardinality(1 .. n) = n
    <2>1. 1 \in Int /\ n \in Int
        BY <1>1
    <2>2. Cardinality(1 .. n) = IF 1 > n THEN 0 ELSE n - 1 + 1
        BY <2>1, FS_Interval
    <2> QED
        BY <1>1, <2>2
<1> QED
    BY <1>7, <1>8 DEF n

(* It gives what RoundsSound asks for.                                     *)
LEMMA InvRounds == GroupInv => RoundsSound
<1> SUFFICES ASSUME GroupInv PROVE RoundsSound
    OBVIOUS
<1>1. TypeOK
    <2>1. /\ gstate \in GroupStates \ {"Dead"} /\ epoch \in 0 .. gen
          /\ roster = NoRoster \/ roster \in Ids
          /\ fails \in 0 .. MaxFails
        BY DEF GroupInv, GroupType, RecordType
    <2>2. /\ open \in 0 .. Len(outcome) /\ enrolled \in Ids
          /\ awaiting \subseteq Member \/ awaiting = AwaitsNobody
          /\ lastRound = NoRoster \/ lastRound \in Ids
        BY DEF GroupInv, GroupType, RoundType
    <2>3. lapses \in 0 .. MaxFaults /\ live \subseteq tracked /\ tracked \subseteq minted
        BY DEF GroupInv, GroupType, SessionType
    <2>4. cell.gen \in 0 .. gen
        <3>1. cell \in [gen : Nat, map : BOOLEAN] /\ cell.gen <= gen /\ gen \in Nat
            BY DEF GroupInv, GroupType, CellType, RecordType
        <3>2. cell.gen \in Nat
            BY <3>1
        <3> QED
            BY <3>1, <3>2
    <2>5. pc \in [Task -> Labels] /\ pass \in [Task -> 0 .. MaxReplans]
        BY DEF GroupInv, GroupType, TaskType
    <2> QED
        BY <2>1, <2>2, <2>3, <2>4, <2>5, QueueBounded DEF TypeOK
<1>2. SlotSound
    <2>1. \A t \in Task : pc[t] \in Closing => IsOwnOpenRound(t)
        BY ClosingFacts DEF IsOwnOpenRound
    <2> QED
        BY <2>1 DEF GroupInv, SlotOK, SlotSound
<1>3. WaitersHeard
    BY DEF GroupInv, TasksOK, Own, TaskOK, WaitersHeard
<1>4. ClosesDistinct
    <2>1. DOMAIN outcome = 1 .. Len(outcome)
        BY DEF GroupInv, GroupType, RoundType
    <2> QED
        BY <2>1 DEF GroupInv, RoundsOK, ClosesDistinct
<1> QED
    BY <1>1, <1>2, <1>3, <1>4 DEF RoundsSound

(* A round is closed once, by the one handler that holds the slot, at a    *)
(* generation above every earlier round's, and whoever waits on a round    *)
(* that is replaced has been told (RoundsSound; in_flight, finalize_close  *)
(* and install_round of join_group/round), with any number of handlers and *)
(* members.                                                                *)
THEOREM RoundsSafety == Spec => []RoundsSound
<1>1. GroupInv /\ [Next]_vars => GroupInv'
    BY NextInv
<1> QED
    BY <1>1, InitInv, InvRounds, PTL DEF Spec
-----------------------------------------------------------------------------
(* What no step does.                                                      *)

(* The assignment cell goes forward.                                       *)
LEMMA CellStep ==
    ASSUME GroupInv, [Next]_vars
    PROVE  cell' = cell \/ (cell'.gen >= cell.gen /\ (cell'.gen = cell.gen /\ cell.map => cell'.map))
<1> DEFINE Forward(c) == c.gen >= cell.gen /\ (c.gen = cell.gen /\ cell.map => c.map)
<1>1. CellType /\ gen \in Nat
    BY DEF GroupInv, GroupType, RecordType
<1>2. ASSUME NEW t \in Task, pc[t] \in Timed
      PROVE  at[t] \in Nat /\ at[t] <= gen
    BY <1>2 DEF GroupInv, GroupType, TaskType, TasksOK, Own, TaskOK
<1>3. ASSUME NEW t \in Task, ReleaseOpened(t)
      PROVE  cell' = cell \/ Forward(cell')
    <2>1. pc[t] \in OpenDone
        BY <1>3 DEF ReleaseOpened, OpenDone
    <2>2. reply[t].gen <= gen /\ reply[t].gen \in Nat
        BY <2>1 DEF GroupInv, GroupType, AskType, Replies, TasksOK, Own, TaskOK
    <2>3. cell' \in {Refused(reply[t].gen), cell}
        BY <1>3 DEF ReleaseOpened
    <2> QED
        BY <1>1, <2>2, <2>3, RefusedFacts
<1>4. ASSUME NEW t \in Task, SyncRefused(t) \/ Removed(t)
      PROVE  Forward(cell')
    <2>1. pc[t] \in Timed /\ cell' = Refused(at[t])
        BY <1>4 DEF SyncRefused, Removed, Timed
    <2> QED
        BY <1>1, <1>2, <2>1, RefusedFacts
<1>5. ASSUME NEW t \in Task, Submit(t)
      PROVE  Forward(cell')
    <2>1. pc[t] \in Timed /\ cell' = Submitted(at[t])
        BY <1>5 DEF Submit, Timed, Submitted
    <2> QED
        BY <1>1, <1>2, <2>1, SubmittedFacts
<1>6. ASSUME NEW t \in Task, Step(t)
      PROVE  cell' = cell \/ Forward(cell')
    <2>1. CASE PlanBusy(t) \/ PlanWait(t) \/ PlanOpen(t) \/ PlanEnrol(t) \/ PlanRefused(t)
        BY <2>1 DEF PlanBusy, PlanWait, PlanOpen, PlanEnrol, PlanRefused
    <2>2. CASE Send(t) \/ Opened(t) \/ OpenRaced(t) \/ OpenUnavailable(t)
        BY <2>2 DEF Send, Opened, OpenRaced, OpenUnavailable
    <2>3. CASE Finalize(t) \/ Abandon(t) \/ RosterKept(t) \/ RosterLost(t)
        BY <2>3 DEF Finalize, Abandon, RosterKept, RosterLost
    <2>4. CASE PendingClosed(t) \/ PendingAbandoned(t) \/ Reprune(t)
        BY <2>4 DEF PendingClosed, PendingAbandoned, Reprune
    <2>5. CASE DeadlineClaim(t) \/ DeadlineLapse(t) \/ Withdraw(t) \/ Register(t)
        BY <2>5 DEF DeadlineClaim, DeadlineLapse, Withdraw, Register
    <2>6. CASE SyncAnswered(t) \/ Released(t) \/ ParkedTooLong(t)
        BY <2>6 DEF SyncAnswered, Released, ParkedTooLong
    <2>7. CASE RemoveWhere(t) \/ RemoveNobody(t) \/ Beat(t)
        BY <2>7 DEF RemoveWhere, RemoveNobody, Beat
    <2> HIDE DEF Forward
    <2> QED
        BY <1>3, <1>4, <1>5, <1>6, <2>1, <2>2, <2>3, <2>4, <2>5, <2>6, <2>7 DEF Step
<1>7. ASSUME NEW t \in Task, NEW m \in Member, Request(t, m)
      PROVE  cell' = cell
    BY <1>7 DEF Request, JoinNew, Rejoin, Sync, Heartbeat, Leave
<1>8. ASSUME NEW m \in Member, SessionLapses(m)
      PROVE  cell' = cell
    BY <1>8 DEF SessionLapses
<1>9. DeadlinePasses \/ Actor \/ UNCHANGED vars => cell' = cell
    BY DEF DeadlinePasses, Actor, vars
<1> HIDE DEF Forward
<1>10. cell' = cell \/ Forward(cell')
    BY <1>6, <1>7, <1>8, <1>9 DEF Next
<1> QED
    BY <1>10 DEF Forward

(* Whoever closes a round has heard from everyone it must.                 *)
LEMMA HeardStep ==
    ASSUME GroupInv, NEW t \in Task, Finalize(t), NEW m \in Range(lastRound) \cap Member
    PROVE  m \in Range(enrolled) \/ expired \/ m \in lapsed
<1>1. pc[t] \in Closing
    BY DEF Finalize
<1>2. open \in 1 .. Len(outcome) /\ outcome[open].is = "unset"
    BY <1>1, ClosingFacts
<1>3. open # 0
    BY <1>2
<1>4. awaiting = {} \/ expired
    BY <1>1 DEF GroupInv, TasksOK, Own, TaskOK
<1>5. m \in awaiting \/ m \in Range(enrolled) \/ m \in lapsed \/ expired
    BY <1>2, <1>3 DEF GroupInv, AwaitsOK
<1> QED
    BY <1>4, <1>5

(* The assignment cell never goes back to an earlier generation nor drops  *)
(* a published assignment (CellForward; barrier.rs, refuse and submit),    *)
(* and a round closes over no incumbent that is alive and in time          *)
(* (IncumbentsHeard; awaiting and reprune_awaiting of join_group/round).   *)
THEOREM StepsSafety == Spec => StepsHeard
<1>1. GroupInv /\ [Next]_vars => GroupInv'
    BY NextInv
<1>2. GroupInv /\ [Next]_vars =>
          [cell'.gen >= cell.gen /\ (cell'.gen = cell.gen /\ cell.map => cell'.map)]_cell
    BY CellStep
<1>3. GroupInv /\ [Next]_vars =>
          [\A t \in Task : Finalize(t) =>
              \A m \in Range(lastRound) \cap Member : m \in Range(enrolled) \/ expired \/ m \in lapsed]_vars
    BY HeardStep
<1>4. Spec => CellForward
    BY <1>1, <1>2, InitInv, PTL DEF Spec, CellForward
<1>5. Spec => IncumbentsHeard
    BY <1>1, <1>3, InitInv, PTL DEF Spec, IncumbentsHeard
<1> QED
    BY <1>4, <1>5 DEF StepsHeard
-----------------------------------------------------------------------------
(* Who is enrolled, when no client sends a join again before its answer.   *)

(* Steps on which nobody starts to join or enrols, and no round changes.   *)
LEMMA EnrolQuiet ==
    ASSUME EnrolInv, outcome' = outcome, enrolled' = enrolled,
           \A u \in Task : pc'[u] \in Joining => pc[u] \in Joining /\ who'[u] = who[u],
           \A u \in Task : pc'[u] \in Enrolled => pc[u] \in Enrolled /\ who'[u] = who[u] /\ at'[u] = at[u]
    PROVE  EnrolInv'
<1>1. \A u \in Task : Enr(u)'
    BY DEF EnrolInv, Enr, EnrolOK
<1>2. \A t, u \in Task : pc'[t] \in Joining /\ pc'[u] \in Joining /\ who'[t] = who'[u] => t = u
    BY DEF EnrolInv
<1> QED
    BY <1>1, <1>2 DEF EnrolInv

LEMMA EnrolSame ==
    ASSUME EnrolInv, outcome' = outcome, enrolled' = enrolled, UNCHANGED <<pc, who, at>>
    PROVE  EnrolInv'
    BY EnrolQuiet

LEMMA EnrolDone ==
    ASSUME GroupInv, EnrolInv, NEW t \in Task, Done(t), outcome' = outcome, enrolled' = enrolled
    PROVE  EnrolInv'
<1>1. Put(t, "idle", Somebody, 0, 0)
    BY DonePut
<1>2. "idle" \notin Joining /\ "idle" \notin Enrolled
    BY DEF Joining, Enrolled
<1> QED
    BY <1>1, <1>2, EnrolQuiet DEF Put

LEMMA EnrolGoto ==
    ASSUME GroupInv, EnrolInv, NEW t \in Task, NEW p, Goto(t, p), UNCHANGED <<who, at>>,
           p \in Joining => pc[t] \in Joining, p \in Enrolled => pc[t] \in Enrolled,
           outcome' = outcome, enrolled' = enrolled
    PROVE  EnrolInv'
<1>1. pc'[t] = p /\ \A u \in Task \ {t} : pc'[u] = pc[u]
    BY DEF Goto, GroupInv, GroupType, TaskType
<1> QED
    BY <1>1, EnrolQuiet

(* A member joins: nobody else joins as it.                                *)
LEMMA EnrolStarts ==
    ASSUME GroupInv, EnrolInv, NEW t \in Task, NEW m \in Member, Accept(t, m, "plan", 0, 0),
           ~\E u \in Task : pc[u] \in Joining /\ who[u] = m,
           outcome' = outcome, enrolled' = enrolled
    PROVE  EnrolInv'
<1>1. "plan" \in Labels /\ "plan" \notin Enrolled
    BY DEF Labels, Joining, Enrolled
<1>2. Put(t, "plan", m, 0, pass[t])
    BY <1>1, AcceptPut
<1>3. \A u \in Task : Enr(u)'
    BY <1>1, <1>2 DEF EnrolInv, Enr, EnrolOK, Put
<1>4. \A v, u \in Task : pc'[v] \in Joining /\ pc'[u] \in Joining /\ who'[v] = who'[u] => v = u
    BY <1>2 DEF EnrolInv, Put
<1> QED
    BY <1>3, <1>4 DEF EnrolInv

LEMMA RequestEnrol ==
    ASSUME ~Resends, GroupInv, EnrolInv, NEW t \in Task, NEW m \in Member, Request(t, m)
    PROVE  EnrolInv'
<1>1. outcome' = outcome /\ enrolled' = enrolled
    BY DEF Request, JoinNew, Rejoin, Sync, Heartbeat, Leave, joinVars
<1>2. CASE JoinNew(t, m)
    <2>1. \A u \in Task : pc[u] \in Joining => who[u] \in minted
        BY DEF GroupInv, TasksOK, Own, TaskOK
    <2> QED
        BY <1>1, <1>2, <2>1, EnrolStarts DEF JoinNew
<1>3. CASE Rejoin(t, m)
    BY <1>1, <1>3, EnrolStarts DEF Rejoin
<1>4. CASE Sync(t, m) \/ Heartbeat(t, m) \/ Leave(t, m)
    <2>1. PICK p \in {"sync", "parked", "sweep", "leave"} : \E n, g : Accept(t, m, p, n, g)
        BY <1>4 DEF Sync, Heartbeat, Leave
    <2>2. pc' = [pc EXCEPT ![t] = p] /\ who' = [who EXCEPT ![t] = m] /\ \E n : at' = [at EXCEPT ![t] = n]
        BY <2>1 DEF Accept, Goto
    <2>3. p \notin Joining /\ p \notin Enrolled
        BY DEF Joining, Enrolled
    <2>4. pc'[t] = p /\ \A u \in Task \ {t} : pc'[u] = pc[u] /\ who'[u] = who[u] /\ at'[u] = at[u]
        BY <2>2 DEF GroupInv, GroupType, TaskType
    <2> QED
        BY <1>1, <2>3, <2>4, EnrolQuiet
<1> QED
    BY <1>2, <1>3, <1>4 DEF Request

(* What the others are told of their rounds stands when a round is added.  *)
LEMMA EnrolInstall ==
    ASSUME GroupInv, EnrolInv, outcome' = Append(outcome, Unset), NeedsOpen,
           NEW u \in Task, pc'[u] = pc[u], who'[u] = who[u], at'[u] = at[u]
    PROVE  Enr(u)'
<1>1. /\ outcome \in Seq(Outcomes) /\ open \in Nat /\ gen \in Nat /\ Len(outcome) \in Nat
      /\ RoundsOK(open, outcome, gen)
    BY DEF GroupInv, GroupType, RoundType, RecordType
<1>2. \A n \in 1 .. Len(outcome) : outcome'[n] = outcome[n] /\ outcome'[n].is # "unset"
    BY <1>1, RoundsInstall DEF NeedsOpen
<1>3. pc[u] \in Enrolled => at[u] \in 1 .. Len(outcome)
    BY DEF GroupInv, TasksOK, Own, TaskOK
<1> QED
    BY <1>2, <1>3 DEF EnrolInv, Enr, EnrolOK

LEMMA OpenedEnrol ==
    ASSUME GroupInv, EnrolInv, NEW t \in Task, Opened(t)
    PROVE  EnrolInv'
<1> DEFINE p == IF pc[t] = "openSync" THEN "openedSync" ELSE "openedJoin"
<1>1. pc[t] \in Opening /\ Stay(t, p) /\ p \in OpenDone /\ outcome' = Append(outcome, Unset)
    BY DEF Opened, Install, Opening, OpenDone
<1> HIDE DEF p
<1>2. NeedsOpen
    BY <1>1 DEF GroupInv, TasksOK, Own, TaskOK, NeedsOpen
<1>3. pc'[t] = p /\ UNCHANGED <<who, at>> /\ \A u \in Task \ {t} : pc'[u] = pc[u]
    BY <1>1 DEF Stay, Goto, GroupInv, GroupType, TaskType
<1>4. p \notin Enrolled /\ (p \in Joining <=> pc[t] \in Joining)
    BY <1>1 DEF Enrolled, OpenDone, Opening, Joining
<1>5. \A u \in Task : Enr(u)'
    <2> TAKE u \in Task
    <2>1. CASE u = t
        BY <1>3, <1>4, <2>1 DEF Enr, EnrolOK
    <2>2. CASE u # t
        BY <1>1, <1>2, <1>3, <2>2, EnrolInstall
    <2> QED
        BY <2>1, <2>2
<1>6. \A v, u \in Task : pc'[v] \in Joining /\ pc'[u] \in Joining /\ who'[v] = who'[u] => v = u
    BY <1>3, <1>4 DEF EnrolInv
<1> QED
    BY <1>5, <1>6 DEF EnrolInv

LEMMA PlanEnrolEnrol ==
    ASSUME GroupInv, EnrolInv, NEW t \in Task, PlanEnrol(t)
    PROVE  EnrolInv'
<1>1. PICK p \in {"close", "pending"} : Goto(t, p)
    BY DEF PlanEnrol
<1>2. pc[t] = "plan" /\ at' = [at EXCEPT ![t] = open'] /\ who' = who
    BY DEF PlanEnrol
<1>3. /\ pc'[t] = p /\ at'[t] = open' /\ \A u \in Task \ {t} : pc'[u] = pc[u] /\ at'[u] = at[u]
    BY <1>1, <1>2 DEF Goto, GroupInv, GroupType, TaskType
<1>4. who[t] \in Member /\ enrolled \in Ids /\ outcome \in Seq(Outcomes)
    BY DEF GroupInv, GroupType, TaskType, RoundType
<1>5. \A v, u \in Task : pc'[v] \in Joining /\ pc'[u] \in Joining /\ who'[v] = who'[u] => v = u
    <2>1. pc[t] \in Joining
        BY <1>2 DEF Joining
    <2> QED
        BY <1>2, <1>3, <2>1 DEF EnrolInv
<1>6. CASE NeedsOpen
    <2> DEFINE ids == IF who[t] \in Range(<<>>) THEN <<>> ELSE Append(<<>>, who[t])
    <2>1. open' = Len(outcome) + 1 /\ outcome' = Append(outcome, Unset)
        BY <1>6 DEF PlanEnrol
    <2>2. enrolled' = ids
        BY <1>6 DEF PlanEnrol
    <2>3. Range(ids) = Range(<<>>) \cup {who[t]}
        BY <1>4, IdsEmpty, EnrolFacts
    <2> HIDE DEF ids
    <2>4. outcome'[open'].is = "unset"
        <3>1. Unset.is = "unset"
            BY DEF Unset
        <3> QED
            BY <1>4, <2>1, <3>1
    <2>5. \A u \in Task : Enr(u)'
        <3> TAKE u \in Task
        <3>1. CASE u = t
            BY <1>2, <1>3, <2>2, <2>3, <2>4, <3>1 DEF Enr, EnrolOK
        <3>2. CASE u # t
            BY <1>2, <1>3, <1>6, <2>1, <3>2, EnrolInstall
        <3> QED
            BY <3>1, <3>2
    <2> QED
        BY <1>5, <2>5 DEF EnrolInv
<1>7. CASE ~NeedsOpen
    <2> DEFINE ids == IF who[t] \in Range(enrolled) THEN enrolled ELSE Append(enrolled, who[t])
    <2>1. open' = open /\ outcome' = outcome /\ outcome[open].is = "unset"
        BY <1>7 DEF PlanEnrol, NeedsOpen
    <2>2. enrolled' = ids
        BY <1>7 DEF PlanEnrol
    <2>3. Range(ids) = Range(enrolled) \cup {who[t]}
        BY <1>4, EnrolFacts
    <2> HIDE DEF ids
    <2>4. \A u \in Task : Enr(u)'
        <3> TAKE u \in Task
        <3>1. CASE u = t
            BY <1>2, <1>3, <2>1, <2>2, <2>3, <3>1 DEF Enr, EnrolOK
        <3>2. CASE u # t
            BY <1>2, <1>3, <2>1, <2>2, <2>3, <3>2 DEF EnrolInv, Enr, EnrolOK
        <3> QED
            BY <3>1, <3>2
    <2> QED
        BY <1>5, <2>4 DEF EnrolInv
<1> QED
    BY <1>6, <1>7

(* The round a handler closes or abandons: only it is open.                *)
LEMMA OnlyOpen ==
    ASSUME GroupInv, NEW t \in Task, pc[t] \in Closing, NEW c,
           outcome' = [outcome EXCEPT ![open] = c], NEW u \in Task, pc[u] \in Enrolled
    PROVE  /\ at[u] = open => outcome'[at[u]] = c /\ outcome[at[u]].is = "unset"
           /\ at[u] # open => outcome'[at[u]] = outcome[at[u]] /\ outcome[at[u]].is # "unset"
<1>1. at[u] \in 1 .. Len(outcome)
    BY DEF GroupInv, TasksOK, Own, TaskOK
<1>2. open \in 1 .. Len(outcome) /\ outcome[open].is = "unset" /\ outcome \in Seq(Outcomes)
    BY ClosingFacts
<1>3. at[u] # open => outcome[at[u]].is # "unset"
    BY <1>1 DEF GroupInv, RoundsOK
<1> QED
    BY <1>1, <1>2, <1>3

LEMMA FinalizeEnrol ==
    ASSUME GroupInv, EnrolInv, NEW t \in Task, Finalize(t)
    PROVE  EnrolInv'
<1> DEFINE ids == InOrder(enrolled, lastRound)
           c == Closed(CloseGeneration(t), ids)
           p == IF pc[t] = "close" THEN "roster" ELSE "deadlineRoster"
<1>1. pc[t] \in Closing /\ outcome' = [outcome EXCEPT ![open] = c] /\ Stay(t, p)
    BY DEF Finalize
<1>2. Range(ids) = Range(enrolled)
    BY InOrderFacts DEF GroupInv, GroupType, RoundType
<1>3. c.is = "closed" /\ c.ids = ids
    BY DEF Closed
<1>4. p \in {"roster", "deadlineRoster"}
    OBVIOUS
<1> HIDE DEF ids, c, p
<1>5. pc'[t] = p /\ UNCHANGED <<who, at>> /\ \A u \in Task \ {t} : pc'[u] = pc[u]
    BY <1>1 DEF Stay, Goto, GroupInv, GroupType, TaskType
<1>6. p \in Enrolled /\ p \in Joining /\ pc[t] \in Enrolled /\ pc[t] \in Joining
    BY <1>1, <1>4 DEF Closing, Enrolled, Joining
<1>7. \A u \in Task : Enr(u)'
    <2> SUFFICES ASSUME NEW u \in Task, pc[u] \in Enrolled
                 PROVE  EnrolOK(pc'[u], who[u], at[u], outcome', enrolled')
        BY <1>5, <1>6 DEF Enr, EnrolOK
    <2>1. /\ at[u] = open => outcome'[at[u]] = c /\ outcome[at[u]].is = "unset"
          /\ at[u] # open => outcome'[at[u]] = outcome[at[u]] /\ outcome[at[u]].is # "unset"
        BY <1>1, OnlyOpen
    <2>2. Enr(u)
        BY DEF EnrolInv
    <2> QED
        BY <1>2, <1>3, <2>1, <2>2 DEF Enr, EnrolOK
<1>8. \A v, u \in Task : pc'[v] \in Joining /\ pc'[u] \in Joining /\ who'[v] = who'[u] => v = u
    BY <1>5, <1>6 DEF EnrolInv
<1> QED
    BY <1>7, <1>8 DEF EnrolInv

LEMMA AbandonEnrol ==
    ASSUME GroupInv, EnrolInv, NEW t \in Task, Abandon(t)
    PROVE  EnrolInv'
<1>1. pc[t] \in Closing /\ outcome' = [outcome EXCEPT ![open] = Abandoned] /\ who' = who
    BY DEF Abandon, Stay
<1>2. /\ pc'[t] \in {"plan", "pending"} /\ (pc'[t] = "pending" => at'[t] = at[t])
      /\ \A u \in Task \ {t} : pc'[u] = pc[u] /\ at'[u] = at[u]
    BY DEF Abandon, Stay, Goto, GroupInv, GroupType, TaskType
<1>3. Abandoned.is = "abandoned"
    BY DEF Abandoned
<1>4. pc[t] \in Enrolled /\ pc[t] \in Joining /\ "plan" \notin Enrolled
    BY <1>1 DEF Closing, Enrolled, Joining
<1>5. \A u \in Task : Enr(u)'
    <2> SUFFICES ASSUME NEW u \in Task, pc[u] \in Enrolled
                 PROVE  EnrolOK(pc'[u], who[u], at[u], outcome', enrolled')
        BY <1>1, <1>2, <1>4 DEF Enr, EnrolOK
    <2>1. /\ at[u] = open => outcome'[at[u]] = Abandoned /\ outcome[at[u]].is = "unset"
          /\ at[u] # open => outcome'[at[u]] = outcome[at[u]] /\ outcome[at[u]].is # "unset"
        BY <1>1, OnlyOpen
    <2>2. Enr(u)
        BY DEF EnrolInv
    <2> QED
        BY <1>3, <2>1, <2>2 DEF Enr, EnrolOK
<1>6. \A v, u \in Task : pc'[v] \in Joining /\ pc'[u] \in Joining /\ who'[v] = who'[u] => v = u
    BY <1>1, <1>2, <1>4 DEF EnrolInv
<1> QED
    BY <1>5, <1>6 DEF EnrolInv

(* A member that withdraws takes nobody with it.                           *)
LEMMA WithdrawEnrol ==
    ASSUME GroupInv, EnrolInv, NEW t \in Task, Withdraw(t)
    PROVE  EnrolInv'
<1>1. pc[t] = "withdraw" /\ outcome' = outcome /\ "idle" \notin Enrolled /\ "idle" \notin Joining
    BY DEF Withdraw, Enrolled, Joining
<1>2. Put(t, "idle", Somebody, 0, 0)
    BY DonePut DEF Withdraw
<1>3. enrolled' = enrolled \/ enrolled' = Kept(enrolled, Member \ {who[t]})
    BY DEF Withdraw
<1>4. Range(enrolled) \cap (Member \ {who[t]}) \subseteq Range(enrolled')
    <2>1. Range(Kept(enrolled, Member \ {who[t]})) = Range(enrolled) \cap (Member \ {who[t]})
        BY KeptIds DEF GroupInv, GroupType, RoundType
    <2> QED
        BY <1>3, <2>1
<1>5. \A u \in Task : Enr(u)'
    <2> TAKE u \in Task
    <2>1. CASE u = t
        BY <1>1, <1>2, <2>1 DEF Put, Enr, EnrolOK
    <2>2. CASE u # t /\ pc[u] \in Enrolled
        <3>1. pc[u] \in Joining /\ pc[t] \in Joining
            BY <1>1, <2>2 DEF Enrolled, Joining
        <3>2. who[u] \in Member /\ who[u] # who[t]
            BY <2>2, <3>1 DEF EnrolInv, GroupInv, GroupType, TaskType
        <3>3. Enr(u)
            BY DEF EnrolInv
        <3> QED
            BY <1>1, <1>2, <1>4, <2>2, <3>2, <3>3 DEF Put, Enr, EnrolOK
    <2>3. CASE u # t /\ pc[u] \notin Enrolled
        BY <1>2, <2>3 DEF Put, Enr, EnrolOK
    <2> QED
        BY <2>1, <2>2, <2>3
<1>6. \A v, u \in Task : pc'[v] \in Joining /\ pc'[u] \in Joining /\ who'[v] = who'[u] => v = u
    BY <1>1, <1>2 DEF EnrolInv, Put
<1> QED
    BY <1>5, <1>6 DEF EnrolInv

LEMMA NextEnrol ==
    ASSUME ~Resends, GroupInv, EnrolInv, [Next]_vars
    PROVE  EnrolInv'
<1>1. UNCHANGED <<joinVars, taskVars>> => EnrolInv'
    BY EnrolSame DEF joinVars, taskVars
<1>2. ASSUME NEW t \in Task, Step(t)
      PROVE  EnrolInv'
    <2>1. CASE PlanBusy(t) \/ PlanRefused(t) \/ PendingAbandoned(t) \/ Register(t)
        BY <2>1, EnrolDone DEF PlanBusy, PlanRefused, PendingAbandoned, Register, joinVars
    <2>2. CASE OpenUnavailable(t) \/ RosterLost(t)
        BY <2>2, EnrolDone DEF OpenUnavailable, RosterLost
    <2>3. CASE SyncRefused(t) \/ Submit(t) \/ Released(t) \/ ParkedTooLong(t) \/ Beat(t)
        BY <2>3, EnrolDone DEF SyncRefused, Submit, Released, ParkedTooLong, Beat, joinVars
    <2>4. CASE PlanWait(t)
        BY <2>4, EnrolSame DEF PlanWait, joinVars
    <2>5. CASE Send(t)
        BY <1>1, <2>5 DEF Send
    <2>6. CASE PlanOpen(t)
        <3>1. PICK p \in Opening : Stay(t, p)
            BY <2>6 DEF PlanOpen, Opening
        <3>2. p \notin Enrolled /\ pc[t] \in Joining
            BY <2>6 DEF PlanOpen, Opening, Enrolled, Joining
        <3> QED
            BY <2>6, <3>1, <3>2, EnrolGoto DEF PlanOpen, Stay
    <2>7. CASE ReleaseOpened(t) \/ OpenRaced(t)
        <3>1. pc[t] \in Joining /\ "plan" \notin Enrolled
            BY <2>7 DEF ReleaseOpened, OpenRaced, Enrolled, Joining
        <3> QED
            BY <2>7, <3>1, EnrolGoto DEF ReleaseOpened, OpenRaced
    <2>8. CASE RosterKept(t)
        <3>1. PICK p : Stay(t, p)
            BY <2>8 DEF RosterKept
        <3>2. pc[t] \in Enrolled /\ pc[t] \in Joining
            BY <2>8 DEF RosterKept, Enrolled, Joining
        <3> QED
            BY <2>8, <3>1, <3>2, EnrolGoto DEF RosterKept, Stay
    <2>9. CASE PendingClosed(t) \/ DeadlineClaim(t) \/ DeadlineLapse(t)
        <3>1. PICK p : Goto(t, p)
            BY <2>9 DEF PendingClosed, DeadlineClaim, DeadlineLapse, Stay
        <3>2. pc[t] \in Enrolled /\ pc[t] \in Joining
            BY <2>9 DEF PendingClosed, DeadlineClaim, DeadlineLapse, Enrolled, Joining
        <3> QED
            BY <2>9, <3>1, <3>2, EnrolGoto DEF PendingClosed, DeadlineClaim, DeadlineLapse, Stay, joinVars
    <2>10. CASE Reprune(t)
        <3>1. outcome' = outcome /\ enrolled' = enrolled
            BY <2>10 DEF Reprune
        <3>2. pc[t] \in Enrolled /\ pc[t] \in Joining
            BY <2>10 DEF Reprune, Enrolled, Joining
        <3>3. Stay(t, "deadlineClose") \/ UNCHANGED taskVars
            BY <2>10 DEF Reprune
        <3> QED
            BY <3>1, <3>2, <3>3, EnrolGoto, EnrolSame DEF Stay, taskVars
    <2>11. CASE SyncAnswered(t)
        <3>1. "submit" \notin Enrolled /\ "submit" \notin Joining
            BY DEF Enrolled, Joining
        <3> QED
            BY <2>11, <3>1, EnrolGoto DEF SyncAnswered, Stay, joinVars
    <2>12. CASE RemoveWhere(t) \/ RemoveNobody(t) \/ Removed(t)
        <3>1. outcome' = outcome /\ enrolled' = enrolled
            BY <2>12 DEF RemoveWhere, RemoveNobody, Removed, joinVars
        <3>2. Done(t) \/ \E p \in {"left", "swept", "beat"} : Stay(t, p)
            BY <2>12 DEF RemoveWhere, RemoveNobody, Removed
        <3>3. \A p \in {"left", "swept", "beat"} : p \notin Enrolled /\ p \notin Joining
            BY DEF Enrolled, Joining
        <3> QED
            BY <3>1, <3>2, <3>3, EnrolDone, EnrolGoto DEF Stay
    <2> QED
        BY <1>2, <2>1, <2>2, <2>3, <2>4, <2>5, <2>6, <2>7, <2>8, <2>9, <2>10, <2>11, <2>12,
           OpenedEnrol, PlanEnrolEnrol, FinalizeEnrol, AbandonEnrol, WithdrawEnrol DEF Step
<1>3. ASSUME NEW m \in Member, SessionLapses(m)
      PROVE  EnrolInv'
    BY <1>1, <1>3 DEF SessionLapses
<1>4. CASE DeadlinePasses
    BY <1>4, EnrolSame DEF DeadlinePasses, taskVars
<1>5. CASE Actor
    BY <1>1, <1>5 DEF Actor
<1>6. CASE UNCHANGED vars
    BY <1>1, <1>6 DEF vars
<1> QED
    BY <1>2, <1>3, <1>4, <1>5, <1>6, RequestEnrol DEF Next

(* If no client sends a join again before its answer, a join answered with *)
(* a generation is in the roster its leader is given (AnsweredEnrolled;    *)
(* finalize_close and withdraw of join_group/round).                       *)
THEOREM EnrolledSafety ==
    ASSUME ~Resends
    PROVE  Spec => []AnsweredEnrolled
<1>1. Init => EnrolInv
    <2>1. "idle" \notin Enrolled /\ "idle" \notin Joining
        BY DEF Enrolled, Joining
    <2> QED
        BY <2>1 DEF Init, EnrolInv, Enr, EnrolOK
<1>2. GroupInv /\ [Next]_vars => GroupInv'
    BY NextInv
<1>3. GroupInv /\ EnrolInv /\ [Next]_vars => EnrolInv'
    BY NextEnrol
<1>4. GroupInv /\ EnrolInv => AnsweredEnrolled
    <2>1. "register" \in Enrolled
        BY DEF Enrolled
    <2>2. GroupInv => \A t \in Task : pc[t] = "register" => outcome[at[t]].is = "closed"
        BY DEF GroupInv, TasksOK, Own, TaskOK
    <2> QED
        BY <2>1, <2>2 DEF EnrolInv, Enr, EnrolOK, AnsweredEnrolled
<1> QED
    BY <1>1, <1>2, <1>3, <1>4, InitInv, PTL DEF Spec

-----------------------------------------------------------------------------
(* The group log and what is folded from it. GroupsServed speaks of a      *)
(* process that is ready; it is kept because nothing writes while a replay *)
(* is under way, because a writer whose segment landed is the only one to  *)
(* have landed, and because what the process has yet to apply are the      *)
(* entries its own writers hold. The record is compared with the fold of   *)
(* the log, whose pages add up by induction over their records.            *)
GroupHeld == [version : Nat, offset : Committer \cup {"none"}]
WriteInHand == [pc : {"idle", "last_version", "append", "put", "landed", "apply"},
                rec : GroupRecords \cup {[kind |-> "none"]}, seen : Nat, tries : Nat,
                rest : Seq(PartitionKey)]
ReplayHalves == {"offsets", "transitions"}

GroupLogType ==
    /\ glog \in Seq(GroupRecords) /\ nextSeq \in Nat
    /\ offsets \in [PartitionKey -> GroupHeld]
    /\ replay \in [half : ReplayHalves \cup {"done"}, at : Nat \ {0}, done : SUBSET ReplayHalves,
                   offsets : [PartitionKey -> GroupHeld], upto : Nat]
    /\ ready \in BOOLEAN
    /\ write \in [Writer -> WriteInHand]
    /\ answered \in [PartitionKey -> Nat]

(* A writer's append, against the log and what the process knows of it.    *)
Writing(w, x, log, n) ==
    /\ x.pc # "idle" => x.rec \in GroupRecords /\ (w \in Committer => x.rec.kind = "offset")
    /\ x.pc \in {"append", "put"} => x.seen <= n
    /\ x.pc = "landed" => x.seen = n /\ Len(log) = n + 1 /\ log[n + 1] = x.rec
    /\ x.pc = "apply" => x.seen + 1 <= n /\ log[x.seen + 1] = x.rec

WritesSound ==
    /\ \A w \in Writer : Writing(w, write[w], glog, nextSeq)
    /\ \A v, w \in Writer : write[v].pc = "landed" /\ write[w].pc = "landed" => v = w
    /\ nextSeq <= Len(glog) /\ (ready => Len(glog) <= nextSeq + 1)
    /\ ~ ready => \A w \in Writer : write[w].pc = "idle"

(* What is held is in the log, and nothing of its first n is passed over.  *)
HeldIsLogged(held, log) ==
    \A k \in PartitionKey : held[k].version > 0 =>
        held[k].version <= Len(log) /\ log[held[k].version] = OffsetCommitted(k, held[k].offset)
Covers(held, log, n) ==
    \A i \in 1 .. n : log[i].kind = "offset" => held[log[i].key].version >= i

(* An acknowledged commit stays in the log.                                *)
AnsweredLogged ==
    \A k \in PartitionKey : answered[k] > 0 =>
        answered[k] <= Len(glog) /\ glog[answered[k]].kind = "offset" /\ glog[answered[k]].key = k

IsFold(f, group, log, n) ==
    f = [i \in 0 .. n |-> IF i = 0 THEN group ELSE ApplyGroup(f[i - 1], log[i])]
Tell(log, n) == (CHOOSE f : IsFold(f, FreshRecord, log, n))[n]

(* The first b of the log replayed and handed over, and the events up to n *)
(* applied to that.                                                        *)
Live(log, b, n) == FoldGroup(Handed(Tell(log, b)), SubSeq(log, b + 1, n))

(* How far each half of the replay has come.                               *)
OffsetsAt == IF replay.half = "offsets" THEN replay.at - 1 ELSE 0
GroupAt ==
    IF "transitions" \in replay.done THEN Len(glog)
    ELSE IF replay.half = "transitions" THEN replay.at - 1 ELSE 0

ReplaySound ==
    ~ ready =>
        /\ replay.half \notin replay.done
        /\ replay.half = "done" => replay.done = ReplayHalves
        /\ replay.done # {} => nextSeq = Len(glog)
        /\ replay.at <= Len(glog) + 1
        /\ HeldIsLogged(replay.offsets, glog)
        /\ "offsets" \notin replay.done => Covers(replay.offsets, glog, OffsetsAt)
        /\ "offsets" \in replay.done => HeldIsLogged(offsets, glog) /\ Covers(offsets, glog, Len(glog))
        /\ record = Tell(glog, GroupAt)

ServedSound ==
    ready =>
        /\ \A k \in PartitionKey : offsets[k].version >= answered[k]
        /\ HeldIsLogged(offsets, glog)
        /\ replay.upto <= nextSeq
        /\ IF write[TransitionsTask].pc = "apply"
           THEN ApplyGroup(record, write[TransitionsTask].rec) = Live(glog, replay.upto, nextSeq)
           ELSE record = Live(glog, replay.upto, nextSeq)

GroupLogInv == WritesSound /\ AnsweredLogged /\ ReplaySound /\ ServedSound

(* Induction, for a set of naturals.                                       *)
LEMMA NatSetInduction ==
    ASSUME NEW S, 0 \in S, \A n \in Nat : n \in S => n + 1 \in S
    PROVE  \A n \in Nat : n \in S
<1> DEFINE T == {n \in Nat : n \notin S}
<1>1. SUFFICES ASSUME T # {} PROVE FALSE
    OBVIOUS
<1>2. T \subseteq Nat
    OBVIOUS
<1> HIDE DEF T
<1>3. PICK m \in T : \A y \in T : ~ (<<y, m>> \in OpToRel(<, Nat))
    BY <1>1, <1>2, NatLessThanWellFounded, WFMin
<1>4. m \in Nat /\ m \notin S
    BY <1>2 DEF T
<1>5. m # 0
    BY <1>4
<1>6. m - 1 \in Nat /\ m - 1 < m /\ (m - 1) + 1 = m
    BY <1>4, <1>5
<1>7. m - 1 \notin T
    BY <1>3, <1>4, <1>6 DEF OpToRel
<1>8. m - 1 \in S
    BY <1>6, <1>7 DEF T
<1>9. QED
    BY <1>4, <1>6, <1>8

(* The fold of the group's record over the first n of a log.               *)
LEMMA FoldExists ==
    ASSUME NEW group, NEW log, NEW n \in Nat
    PROVE  \E f : IsFold(f, group, log, n)
<1> DEFINE S == {m \in Nat : \E f : IsFold(f, group, log, m)}
<1>1. 0 \in S
    <2> DEFINE f == [i \in 0 .. 0 |-> group]
    <2>1. IsFold(f, group, log, 0)
        BY DEF IsFold
    <2>2. QED
        BY <2>1
<1>2. ASSUME NEW m \in Nat, m \in S PROVE m + 1 \in S
    <2>1. PICK f : IsFold(f, group, log, m)
        BY <1>2
    <2>2. \A i \in 0 .. m : f[i] = IF i = 0 THEN group ELSE ApplyGroup(f[i - 1], log[i])
        BY <2>1 DEF IsFold
    <2> DEFINE h == [i \in 0 .. m + 1 |-> IF i = m + 1 THEN ApplyGroup(f[m], log[m + 1]) ELSE f[i]]
    <2>3. \A i \in 0 .. m + 1 : h[i] = IF i = 0 THEN group ELSE ApplyGroup(h[i - 1], log[i])
        <3>1. SUFFICES ASSUME NEW i \in 0 .. m + 1
                       PROVE  h[i] = IF i = 0 THEN group ELSE ApplyGroup(h[i - 1], log[i])
            OBVIOUS
        <3>2. CASE i = m + 1
            <4>1. h[m + 1] = ApplyGroup(f[m], log[m + 1]) /\ h[m] = f[m]
                OBVIOUS
            <4>2. QED
                BY <3>2, <4>1
        <3>3. CASE i \in 0 .. m /\ i # 0
            <4>1. i - 1 \in 0 .. m /\ h[i] = f[i] /\ h[i - 1] = f[i - 1]
                BY <3>3
            <4>2. QED
                BY <2>2, <3>3, <4>1
        <3>4. CASE i = 0
            BY <2>2, <3>4
        <3>5. QED
            BY <3>2, <3>3, <3>4
    <2>4. h = [i \in 0 .. m + 1 |-> h[i]]
        OBVIOUS
    <2> HIDE DEF h
    <2>5. h = [i \in 0 .. m + 1 |-> IF i = 0 THEN group ELSE ApplyGroup(h[i - 1], log[i])]
        BY <2>3, <2>4
    <2>6. IsFold(h, group, log, m + 1)
        BY <2>5 DEF IsFold
    <2>7. QED
        BY <2>6
<1> HIDE DEF S
<1>3. n \in S
    BY <1>1, <1>2, NatSetInduction
<1>4. QED
    BY <1>3 DEF S

(* Two folds agree as far as their logs do.                                *)
LEMMA FoldsAgree ==
    ASSUME NEW group, NEW k, NEW l, NEW m \in Nat, NEW n \in Nat, NEW f, NEW g,
           IsFold(f, group, k, m), IsFold(g, group, l, n),
           NEW j \in Nat, j <= m, j <= n, \A i \in 1 .. j : k[i] = l[i]
    PROVE  f[j] = g[j]
<1> DEFINE S == {i \in Nat : i <= j => f[i] = g[i]}
<1>1. \A i \in 0 .. m : f[i] = IF i = 0 THEN group ELSE ApplyGroup(f[i - 1], k[i])
    BY DEF IsFold
<1>2. \A i \in 0 .. n : g[i] = IF i = 0 THEN group ELSE ApplyGroup(g[i - 1], l[i])
    BY DEF IsFold
<1>3. 0 \in S
    BY <1>1, <1>2
<1>4. ASSUME NEW i \in Nat, i \in S PROVE i + 1 \in S
    <2>1. CASE i + 1 <= j
        <3>1. f[i] = g[i] /\ k[i + 1] = l[i + 1]
            BY <1>4, <2>1
        <3>2. i + 1 \in 0 .. m /\ i + 1 \in 0 .. n /\ i + 1 # 0 /\ (i + 1) - 1 = i
            BY <2>1
        <3>3. f[i + 1] = ApplyGroup(f[i], k[i + 1]) /\ g[i + 1] = ApplyGroup(g[i], l[i + 1])
            BY <1>1, <1>2, <3>2
        <3>4. QED
            BY <3>1, <3>3
    <2>2. CASE ~ (i + 1 <= j)
        BY <2>2
    <2>3. QED
        BY <2>1, <2>2
<1> HIDE DEF S
<1>5. j \in S
    BY <1>3, <1>4, NatSetInduction
<1>6. QED
    BY <1>5 DEF S

LEMMA TellIs ==
    ASSUME NEW log, NEW n \in Nat, NEW f, IsFold(f, FreshRecord, log, n)
    PROVE  Tell(log, n) = f[n]
<1> DEFINE g == CHOOSE h : IsFold(h, FreshRecord, log, n)
<1>1. IsFold(g, FreshRecord, log, n)
    BY FoldExists
<1>2. Tell(log, n) = g[n]
    BY DEF Tell
<1> HIDE DEF g
<1>3. g[n] = f[n]
    BY <1>1, FoldsAgree
<1>4. QED
    BY <1>2, <1>3

LEMMA TellNone ==
    ASSUME NEW log
    PROVE  Tell(log, 0) = FreshRecord
<1>1. PICK f : IsFold(f, FreshRecord, log, 0)
    BY FoldExists
<1>2. f[0] = FreshRecord
    BY <1>1 DEF IsFold
<1>3. QED
    BY <1>1, <1>2, TellIs

LEMMA TellNext ==
    ASSUME NEW log, NEW n \in Nat
    PROVE  Tell(log, n + 1) = ApplyGroup(Tell(log, n), log[n + 1])
<1>1. PICK f : IsFold(f, FreshRecord, log, n + 1)
    BY FoldExists
<1>2. PICK g : IsFold(g, FreshRecord, log, n)
    BY FoldExists
<1>3. \A i \in 0 .. n + 1 : f[i] = IF i = 0 THEN FreshRecord ELSE ApplyGroup(f[i - 1], log[i])
    BY <1>1 DEF IsFold
<1>4. f[n + 1] = ApplyGroup(f[n], log[n + 1])
    BY <1>3
<1>5. f[n] = g[n]
    BY <1>1, <1>2, FoldsAgree
<1>6. Tell(log, n + 1) = f[n + 1] /\ Tell(log, n) = g[n]
    BY <1>1, <1>2, TellIs
<1>7. QED
    BY <1>4, <1>5, <1>6

LEMMA TellSame ==
    ASSUME NEW k, NEW l, NEW n \in Nat, \A i \in 1 .. n : k[i] = l[i]
    PROVE  Tell(k, n) = Tell(l, n)
<1>1. PICK f : IsFold(f, FreshRecord, k, n)
    BY FoldExists
<1>2. PICK g : IsFold(g, FreshRecord, l, n)
    BY FoldExists
<1>3. f[n] = g[n]
    BY <1>1, <1>2, FoldsAgree
<1>4. QED
    BY <1>1, <1>2, <1>3, TellIs

LEMMA FoldGroupIs ==
    ASSUME NEW group, NEW page, Len(page) \in Nat
    PROVE  \E f : IsFold(f, group, page, Len(page)) /\ FoldGroup(group, page) = f[Len(page)]
<1> DEFINE g == CHOOSE h : IsFold(h, group, page, Len(page))
<1>1. IsFold(g, group, page, Len(page))
    BY FoldExists
<1>2. FoldGroup(group, page) = g[Len(page)]
    BY DEF FoldGroup, IsFold
<1>3. QED
    BY <1>1, <1>2

LEMMA ToldIs ==
    ASSUME Len(glog) \in Nat
    PROVE  Told = Tell(glog, Len(glog))
<1>1. PICK f : IsFold(f, FreshRecord, glog, Len(glog)) /\ Told = f[Len(glog)]
    BY FoldGroupIs DEF Told
<1>2. QED
    BY <1>1, TellIs

(* A page folded on from where the fold had come is the fold that far.     *)
LEMMA PageTold ==
    ASSUME NEW log, NEW a \in Nat, NEW page, Len(page) \in Nat,
           \A i \in 1 .. Len(page) : page[i] = log[a + i]
    PROVE  FoldGroup(Tell(log, a), page) = Tell(log, a + Len(page))
<1> DEFINE n == Len(page)
<1>1. PICK f : IsFold(f, Tell(log, a), page, n) /\ FoldGroup(Tell(log, a), page) = f[n]
    BY FoldGroupIs
<1>2. \A i \in 0 .. n : f[i] = IF i = 0 THEN Tell(log, a) ELSE ApplyGroup(f[i - 1], page[i])
    BY <1>1 DEF IsFold
<1> DEFINE S == {i \in Nat : i <= n => f[i] = Tell(log, a + i)}
<1>3. 0 \in S
    <2>1. a + 0 = a /\ f[0] = Tell(log, a)
        BY <1>2
    <2>2. QED
        BY <2>1
<1>4. ASSUME NEW i \in Nat, i \in S PROVE i + 1 \in S
    <2>1. CASE i + 1 <= n
        <3>1. i + 1 \in 0 .. n /\ i + 1 # 0 /\ (i + 1) - 1 = i /\ i <= n /\ i + 1 \in 1 .. n
            BY <2>1
        <3>2. f[i] = Tell(log, a + i)
            BY <1>4, <3>1
        <3>3. f[i + 1] = ApplyGroup(f[i], page[i + 1])
            BY <1>2, <3>1
        <3>4. page[i + 1] = log[(a + i) + 1] /\ a + i \in Nat /\ a + (i + 1) = (a + i) + 1
            BY <3>1
        <3>5. Tell(log, (a + i) + 1) = ApplyGroup(Tell(log, a + i), log[(a + i) + 1])
            BY <3>4, TellNext
        <3>6. QED
            BY <3>2, <3>3, <3>4, <3>5
    <2>2. CASE ~ (i + 1 <= n)
        BY <2>2
    <2>3. QED
        BY <2>1, <2>2
<1> HIDE DEF S
<1>5. n \in S
    BY <1>3, <1>4, NatSetInduction
<1>6. f[n] = Tell(log, a + n)
    BY <1>5 DEF S
<1>7. QED
    BY <1>1, <1>6

(* A group once poisoned is so to the end of the fold.                     *)
LEMMA PoisonStays ==
    ASSUME NEW log, NEW b \in Nat, NEW n \in Nat, b <= n, ~ Tell(log, n).poisoned
    PROVE  ~ Tell(log, b).poisoned
<1> DEFINE S == {i \in Nat : Tell(log, b).poisoned => Tell(log, b + i).poisoned}
<1>1. 0 \in S
    <2>1. b + 0 = b
        OBVIOUS
    <2>2. QED
        BY <2>1
<1>2. ASSUME NEW i \in Nat, i \in S PROVE i + 1 \in S
    <2>1. b + i \in Nat /\ b + (i + 1) = (b + i) + 1
        OBVIOUS
    <2>2. Tell(log, (b + i) + 1) = ApplyGroup(Tell(log, b + i), log[(b + i) + 1])
        BY <2>1, TellNext
    <2>3. Tell(log, b + i).poisoned => Tell(log, (b + i) + 1).poisoned
        BY <2>2 DEF ApplyGroup
    <2>4. QED
        BY <1>2, <2>1, <2>3
<1> HIDE DEF S
<1>3. n - b \in Nat /\ b + (n - b) = n
    OBVIOUS
<1>4. n - b \in S
    BY <1>1, <1>2, <1>3, NatSetInduction
<1>5. QED
    BY <1>3, <1>4 DEF S

(* The part of the log after b, as a page.                                 *)
LEMMA AfterIs ==
    ASSUME NEW log \in Seq(GroupRecords), NEW b \in Nat, NEW n \in Nat, b <= n, n <= Len(log),
           NEW page, page = SubSeq(log, b + 1, n)
    PROVE  /\ Len(page) = n - b /\ Len(page) \in Nat
           /\ \A i \in 1 .. Len(page) : page[i] = log[b + i]
<1>1. Len(page) = n - b
    OBVIOUS
<1>2. QED
    BY <1>1

LEMMA LiveStarts ==
    ASSUME NEW log \in Seq(GroupRecords), NEW n \in Nat, n <= Len(log)
    PROVE  Live(log, n, n) = Handed(Tell(log, n))
<1> DEFINE page == SubSeq(log, n + 1, n)
           group == Handed(Tell(log, n))
<1>1. Len(page) = 0
    BY AfterIs
<1> HIDE DEF page
<1>2. PICK f : IsFold(f, group, page, 0) /\ FoldGroup(group, page) = f[0]
    BY <1>1, FoldGroupIs
<1>3. f[0] = group
    BY <1>2 DEF IsFold
<1>4. QED
    BY <1>2, <1>3 DEF Live, page

LEMMA FoldLonger ==
    ASSUME NEW group, NEW k, NEW l, NEW m \in Nat, NEW f, NEW g,
           IsFold(f, group, k, m), IsFold(g, group, l, m + 1), \A i \in 1 .. m : k[i] = l[i]
    PROVE  f[m] = g[m]
<1>1. m + 1 \in Nat /\ m <= m /\ m <= m + 1
    OBVIOUS
<1>2. QED
    BY <1>1, FoldsAgree

LEMMA LiveNext ==
    ASSUME NEW log \in Seq(GroupRecords), NEW b \in Nat, NEW n \in Nat, b <= n, n + 1 <= Len(log)
    PROVE  Live(log, b, n + 1) = ApplyGroup(Live(log, b, n), log[n + 1])
<1> DEFINE p == SubSeq(log, b + 1, n)
           q == SubSeq(log, b + 1, n + 1)
           group == Handed(Tell(log, b))
           m == n - b
<1>1. /\ Len(p) = m /\ Len(p) \in Nat /\ \A i \in 1 .. Len(p) : p[i] = log[b + i]
    BY AfterIs
<1>2. /\ Len(q) = m + 1 /\ Len(q) \in Nat /\ \A i \in 1 .. Len(q) : q[i] = log[b + i]
    <2>1. n + 1 \in Nat /\ b <= n + 1 /\ (n + 1) - b = m + 1
        OBVIOUS
    <2>2. QED
        BY <2>1, AfterIs
<1>3. m \in Nat /\ b + (m + 1) = n + 1
    OBVIOUS
<1>4. Live(log, b, n) = FoldGroup(group, p) /\ Live(log, b, n + 1) = FoldGroup(group, q)
    BY DEF Live
<1> HIDE DEF p, q, group, m
<1>5. PICK f : IsFold(f, group, p, m) /\ FoldGroup(group, p) = f[m]
    BY <1>1, FoldGroupIs
<1>6. PICK g : IsFold(g, group, q, m + 1) /\ FoldGroup(group, q) = g[m + 1]
    BY <1>2, FoldGroupIs
<1>7. f[m] = g[m]
    <2>1. \A i \in 1 .. m : p[i] = q[i]
        BY <1>1, <1>2, <1>3
    <2>2. QED
        BY <1>3, <1>5, <1>6, <2>1, FoldLonger
<1>8. g[m + 1] = ApplyGroup(g[m], q[m + 1])
    <2>1. m + 1 \in 0 .. m + 1 /\ m + 1 # 0 /\ (m + 1) - 1 = m
        BY <1>3
    <2>2. \A i \in 0 .. m + 1 : g[i] = IF i = 0 THEN group ELSE ApplyGroup(g[i - 1], q[i])
        BY <1>6 DEF IsFold
    <2>3. QED
        BY <2>1, <2>2
<1>9. q[m + 1] = log[n + 1]
    BY <1>2, <1>3
<1>10. QED
    BY <1>4, <1>5, <1>6, <1>7, <1>8, <1>9

(* What is appended later does not change it.                              *)
LEMMA LiveSame ==
    ASSUME NEW k \in Seq(GroupRecords), NEW l \in Seq(GroupRecords), NEW b \in Nat, NEW n \in Nat, b <= n,
           n <= Len(k), n <= Len(l), \A i \in 1 .. n : k[i] = l[i]
    PROVE  Live(k, b, n) = Live(l, b, n)
<1> DEFINE p == SubSeq(k, b + 1, n)
           q == SubSeq(l, b + 1, n)
           group == Handed(Tell(k, b))
           m == n - b
<1>1. Len(p) = m /\ Len(p) \in Nat /\ \A i \in 1 .. Len(p) : p[i] = k[b + i]
    BY AfterIs
<1>2. Len(q) = m /\ Len(q) \in Nat /\ \A i \in 1 .. Len(q) : q[i] = l[b + i]
    BY AfterIs
<1>3. Tell(k, b) = Tell(l, b)
    <2>1. \A i \in 1 .. b : k[i] = l[i]
        OBVIOUS
    <2>2. QED
        BY <2>1, TellSame
<1>4. Live(k, b, n) = FoldGroup(group, p) /\ Live(l, b, n) = FoldGroup(group, q)
    BY <1>3 DEF Live
<1>5. m \in Nat /\ b + m = n
    OBVIOUS
<1> HIDE DEF p, q, group, m
<1>6. PICK f : IsFold(f, group, p, m) /\ FoldGroup(group, p) = f[m]
    BY <1>1, FoldGroupIs
<1>7. PICK g : IsFold(g, group, q, m) /\ FoldGroup(group, q) = g[m]
    BY <1>2, FoldGroupIs
<1>8. f[m] = g[m]
    <2>1. \A i \in 1 .. m : p[i] = q[i]
        <3>1. \A i \in 1 .. m : b + i \in 1 .. n
            BY <1>5
        <3>2. QED
            BY <1>1, <1>2, <1>5, <3>1
    <2>2. m \in Nat /\ m <= m
        BY <1>5
    <2>3. IsFold(f, group, p, m) /\ IsFold(g, group, q, m)
        BY <1>6, <1>7
    <2>4. QED
        BY <2>1, <2>2, <2>3, FoldsAgree
<1>9. QED
    BY <1>4, <1>6, <1>7, <1>8

(* Where nothing is poisoned, it is the fold of the whole log.             *)
LEMMA LiveTold ==
    ASSUME NEW log \in Seq(GroupRecords), NEW b \in Nat, NEW n \in Nat, b <= n, n <= Len(log),
           ~ Tell(log, n).poisoned
    PROVE  Live(log, b, n) = Tell(log, n)
<1> DEFINE page == SubSeq(log, b + 1, n)
<1>1. Handed(Tell(log, b)) = Tell(log, b)
    BY PoisonStays DEF Handed
<1>2. Len(page) = n - b /\ Len(page) \in Nat /\ \A i \in 1 .. Len(page) : page[i] = log[b + i]
    BY AfterIs
<1>3. Live(log, b, n) = FoldGroup(Tell(log, b), page)
    BY <1>1 DEF Live
<1> HIDE DEF page
<1>4. FoldGroup(Tell(log, b), page) = Tell(log, b + Len(page))
    BY <1>2, PageTold
<1>5. b + Len(page) = n
    BY <1>2
<1>6. QED
    BY <1>3, <1>4, <1>5

(* What is said of the log's first b records, folded as a page.            *)
LEMMA SinceIs ==
    ASSUME glog \in Seq(GroupRecords), NEW b \in Nat, b <= Len(glog)
    PROVE  Since(b) = Live(glog, b, Len(glog))
<1> DEFINE page == SubSeq(glog, 1, b)
<1>1. Len(page) = b /\ \A i \in 1 .. Len(page) : page[i] = glog[0 + i]
    <2>1. 0 \in Nat /\ 0 <= b /\ 0 + 1 = 1 /\ b - 0 = b
        OBVIOUS
    <2>2. QED
        BY <2>1, AfterIs
<1> HIDE DEF page
<1>2. FoldGroup(Tell(glog, 0), page) = Tell(glog, 0 + Len(page))
    BY <1>1, PageTold
<1>3. 0 + Len(page) = b /\ Tell(glog, 0) = FreshRecord
    BY <1>1, TellNone
<1>4. FoldGroup(FreshRecord, page) = Tell(glog, b)
    BY <1>2, <1>3
<1>5. QED
    BY <1>4 DEF Since, Replayed, Live, page

(* What a record of the log is.                                            *)
LEMMA RecordKinds ==
    ASSUME NEW r \in GroupRecords
    PROVE  r.kind = "offset" => /\ r.key \in PartitionKey /\ r.offset \in Committer
                                /\ r = OffsetCommitted(r.key, r.offset)
BY DEF GroupRecords, OffsetCommitted, GroupTransitioned, GroupRosterUpdated

(* A commit inserted: what is held stays in the log, and never goes back.  *)
Rises(held, now) == \A k \in PartitionKey : now[k].version >= held[k].version

LEMMA ApplyOffsetKeeps ==
    ASSUME NEW held \in [PartitionKey -> GroupHeld], NEW log \in Seq(GroupRecords),
           NEW v \in 1 .. Len(log), log[v].kind = "offset", HeldIsLogged(held, log),
           NEW now, now = ApplyOffset(held, v, log[v])
    PROVE  /\ now \in [PartitionKey -> GroupHeld]
           /\ HeldIsLogged(now, log)
           /\ Rises(held, now)
           /\ now[log[v].key].version >= v
<1> DEFINE r == log[v]
<1>1. r \in GroupRecords
    OBVIOUS
<1>2. r.key \in PartitionKey /\ r.offset \in Committer /\ r = OffsetCommitted(r.key, r.offset)
    BY <1>1, RecordKinds
<1> HIDE DEF r
<1>3. \A k \in PartitionKey : held[k].version \in Nat
    BY DEF GroupHeld
<1>4. CASE held[r.key].version >= v
    <2>1. now = held
        BY <1>4 DEF ApplyOffset, r
    <2>2. QED
        BY <1>2, <1>3, <1>4, <2>1 DEF Rises, r
<1>5. CASE ~ (held[r.key].version >= v)
    <2> DEFINE e == [version |-> v, offset |-> r.offset]
    <2>1. now = [held EXCEPT ![r.key] = e]
        BY <1>5 DEF ApplyOffset, r
    <2>2. e \in GroupHeld /\ e.version = v /\ e.offset = r.offset
        BY <1>2 DEF GroupHeld
    <2> HIDE DEF e
    <2>3. now \in [PartitionKey -> GroupHeld]
        BY <2>1, <2>2
    <2>4. \A k \in PartitionKey : now[k] = IF k = r.key THEN e ELSE held[k]
        BY <2>1
    <2>5. HeldIsLogged(now, log)
        BY <1>2, <2>2, <2>4 DEF HeldIsLogged, r
    <2>6. Rises(held, now)
        BY <1>2, <1>3, <1>5, <2>2, <2>4 DEF Rises
    <2>7. now[r.key].version >= v
        BY <1>2, <2>2, <2>4
    <2>8. QED
        BY <2>3, <2>5, <2>6, <2>7 DEF r
<1>6. QED
    BY <1>4, <1>5

(* The fold of the offsets over a page.                                    *)
IsHeldFold(f, held, from, page, n) ==
    f = [i \in 0 .. n |-> IF i = 0 THEN held
                          ELSE IF page[i].kind # "offset" THEN f[i - 1]
                          ELSE ApplyOffset(f[i - 1], from + i - 1, page[i])]

LEMMA HeldFoldExists ==
    ASSUME NEW held, NEW from, NEW page, NEW n \in Nat
    PROVE  \E f : IsHeldFold(f, held, from, page, n)
<1> DEFINE Upon(h, i) == IF page[i].kind # "offset" THEN h ELSE ApplyOffset(h, from + i - 1, page[i])
           S == {m \in Nat : \E f : IsHeldFold(f, held, from, page, m)}
<1>1. 0 \in S
    <2> DEFINE f == [i \in 0 .. 0 |-> held]
    <2>1. IsHeldFold(f, held, from, page, 0)
        BY DEF IsHeldFold
    <2>2. QED
        BY <2>1
<1>2. ASSUME NEW m \in Nat, m \in S PROVE m + 1 \in S
    <2>1. PICK f : IsHeldFold(f, held, from, page, m)
        BY <1>2
    <2>2. \A i \in 0 .. m : f[i] = IF i = 0 THEN held ELSE Upon(f[i - 1], i)
        BY <2>1 DEF IsHeldFold
    <2> DEFINE h == [i \in 0 .. m + 1 |-> IF i = m + 1 THEN Upon(f[m], m + 1) ELSE f[i]]
    <2> HIDE DEF Upon
    <2>3. \A i \in 0 .. m + 1 : h[i] = IF i = 0 THEN held ELSE Upon(h[i - 1], i)
        <3>1. SUFFICES ASSUME NEW i \in 0 .. m + 1
                       PROVE  h[i] = IF i = 0 THEN held ELSE Upon(h[i - 1], i)
            OBVIOUS
        <3>2. CASE i = m + 1
            <4>1. h[m + 1] = Upon(f[m], m + 1) /\ h[m] = f[m]
                OBVIOUS
            <4>2. QED
                BY <3>2, <4>1
        <3>3. CASE i \in 0 .. m /\ i # 0
            <4>1. i - 1 \in 0 .. m /\ h[i] = f[i] /\ h[i - 1] = f[i - 1]
                BY <3>3
            <4>2. QED
                BY <2>2, <3>3, <4>1
        <3>4. CASE i = 0
            BY <2>2, <3>4
        <3>5. QED
            BY <3>2, <3>3, <3>4
    <2>4. h = [i \in 0 .. m + 1 |-> h[i]]
        OBVIOUS
    <2> HIDE DEF h
    <2>5. h = [i \in 0 .. m + 1 |-> IF i = 0 THEN held ELSE Upon(h[i - 1], i)]
        BY <2>3, <2>4
    <2>6. IsHeldFold(h, held, from, page, m + 1)
        BY <2>5 DEF IsHeldFold, Upon
    <2>7. QED
        BY <2>6
<1> HIDE DEF S
<1>3. n \in S
    BY <1>1, <1>2, NatSetInduction
<1>4. QED
    BY <1>3 DEF S

LEMMA FoldOffsetsIs ==
    ASSUME NEW held, NEW from, NEW page, Len(page) \in Nat
    PROVE  \E f : IsHeldFold(f, held, from, page, Len(page)) /\ FoldOffsets(held, from, page) = f[Len(page)]
<1> DEFINE g == CHOOSE h : IsHeldFold(h, held, from, page, Len(page))
<1>1. IsHeldFold(g, held, from, page, Len(page))
    BY HeldFoldExists
<1>2. FoldOffsets(held, from, page) = g[Len(page)]
    BY DEF FoldOffsets, IsHeldFold
<1>3. QED
    BY <1>1, <1>2

(* A page replayed: what is held covers the log that much further.         *)
Covered(now, log, n) ==
    now \in [PartitionKey -> GroupHeld] /\ HeldIsLogged(now, log) /\ Covers(now, log, n)

LEMMA CoveredNext ==
    ASSUME NEW log \in Seq(GroupRecords), NEW n \in Nat, n + 1 <= Len(log), NEW held,
           Covered(held, log, n), NEW now,
           now = IF log[n + 1].kind # "offset" THEN held ELSE ApplyOffset(held, n + 1, log[n + 1])
    PROVE  Covered(now, log, n + 1)
<1>1. CASE log[n + 1].kind # "offset"
    BY <1>1 DEF Covered, Covers
<1>2. CASE log[n + 1].kind = "offset"
    <2>1. n + 1 \in 1 .. Len(log)
        OBVIOUS
    <2>2. held \in [PartitionKey -> GroupHeld] /\ HeldIsLogged(held, log) /\ now = ApplyOffset(held, n + 1, log[n + 1])
        BY <1>2 DEF Covered
    <2>3. /\ now \in [PartitionKey -> GroupHeld]
          /\ HeldIsLogged(now, log)
          /\ Rises(held, now)
          /\ now[log[n + 1].key].version >= n + 1
        BY <1>2, <2>1, <2>2, ApplyOffsetKeeps
    <2>4. ASSUME NEW i \in 1 .. n + 1, log[i].kind = "offset" PROVE now[log[i].key].version >= i
        <3>1. CASE i = n + 1
            BY <2>3, <3>1
        <3>2. CASE i \in 1 .. n
            <4>1. log[i] \in GroupRecords
                BY <3>2
            <4>2. log[i].key \in PartitionKey
                BY <2>4, <4>1, RecordKinds
            <4>3. held[log[i].key].version >= i
                BY <2>4, <3>2 DEF Covered, Covers
            <4>4. held[log[i].key].version \in Nat /\ now[log[i].key].version \in Nat
                BY <2>2, <2>3, <4>2 DEF GroupHeld
            <4>5. QED
                BY <2>3, <3>2, <4>2, <4>3, <4>4 DEF Rises
        <3>3. QED
            BY <3>1, <3>2
    <2>5. QED
        BY <2>3, <2>4 DEF Covered, Covers
<1>3. QED
    BY <1>1, <1>2

LEMMA PageCovered ==
    ASSUME NEW log \in Seq(GroupRecords), NEW held, NEW place \in Nat \ {0}, NEW page,
           Len(page) \in Nat, (place - 1) + Len(page) <= Len(log),
           \A i \in 1 .. Len(page) : page[i] = log[(place - 1) + i],
           Covered(held, log, place - 1)
    PROVE  Covered(FoldOffsets(held, place, page), log, (place - 1) + Len(page))
<1> DEFINE n == Len(page)
           a == place - 1
<1>1. PICK f : IsHeldFold(f, held, place, page, n) /\ FoldOffsets(held, place, page) = f[n]
    BY FoldOffsetsIs
<1>2. \A i \in 0 .. n : f[i] = IF i = 0 THEN held
                               ELSE IF page[i].kind # "offset" THEN f[i - 1]
                               ELSE ApplyOffset(f[i - 1], place + i - 1, page[i])
    BY <1>1 DEF IsHeldFold
<1> DEFINE S == {i \in Nat : i <= n => Covered(f[i], log, a + i)}
<1>3. 0 \in S
    <2>1. a + 0 = a /\ f[0] = held
        BY <1>2
    <2>2. QED
        BY <2>1
<1>4. ASSUME NEW i \in Nat, i \in S PROVE i + 1 \in S
    <2>1. CASE i + 1 <= n
        <3>1. /\ i + 1 \in 0 .. n /\ i + 1 # 0 /\ (i + 1) - 1 = i /\ i <= n /\ i + 1 \in 1 .. n
              /\ a + i \in Nat /\ (a + i) + 1 <= Len(log) /\ a + (i + 1) = (a + i) + 1
              /\ place + (i + 1) - 1 = (a + i) + 1
            BY <2>1
        <3>2. Covered(f[i], log, a + i)
            BY <1>4, <3>1
        <3>3. page[i + 1] = log[(a + i) + 1]
            BY <3>1
        <3>4. f[i + 1] = IF log[(a + i) + 1].kind # "offset" THEN f[i]
                         ELSE ApplyOffset(f[i], (a + i) + 1, log[(a + i) + 1])
            BY <1>2, <3>1, <3>3
        <3>5. Covered(f[i + 1], log, (a + i) + 1)
            BY <3>1, <3>2, <3>4, CoveredNext
        <3>6. QED
            BY <3>1, <3>5
    <2>2. CASE ~ (i + 1 <= n)
        BY <2>2
    <2>3. QED
        BY <2>1, <2>2
<1> HIDE DEF S
<1>5. n \in S
    BY <1>3, <1>4, NatSetInduction
<1>6. QED
    BY <1>1, <1>5 DEF S

-----------------------------------------------------------------------------
(* A writer moves and nothing else does.                                   *)
GroupFrame == <<glog, nextSeq, offsets, record, replay, ready, answered>>

LEMMA WriterMoves ==
    ASSUME GroupLogType, GroupLogInv, NEW w \in Writer, NEW x \in WriteInHand,
           Writing(w, x, glog, nextSeq), x.pc \notin {"landed", "apply"}, write[w].pc # "apply",
           ready, write' = [write EXCEPT ![w] = x], UNCHANGED GroupFrame
    PROVE  GroupLogType' /\ GroupLogInv'
<1>1. /\ glog' = glog /\ nextSeq' = nextSeq /\ offsets' = offsets /\ record' = record
      /\ replay' = replay /\ ready' = ready /\ answered' = answered
    BY DEF GroupFrame
<1>2. write \in [Writer -> WriteInHand]
    BY DEF GroupLogType
<1>3. /\ write' \in [Writer -> WriteInHand]
      /\ \A v \in Writer : write'[v] = IF v = w THEN x ELSE write[v]
    BY <1>2
<1>4. GroupLogType'
    BY <1>1, <1>3 DEF GroupLogType
<1>5. WritesSound'
    BY <1>1, <1>3 DEF GroupLogInv, WritesSound
<1>6. AnsweredLogged'
    BY <1>1 DEF GroupLogInv, AnsweredLogged
<1>7. ReplaySound'
    BY <1>1 DEF ReplaySound
<1>8. ServedSound'
    <2>1. TransitionsTask \in Writer
        BY DEF Writer
    <2>2. CASE w = TransitionsTask
        <3>1. write'[TransitionsTask].pc # "apply" /\ write[TransitionsTask].pc # "apply"
            BY <1>3, <2>1, <2>2
        <3>2. QED
            BY <1>1, <3>1 DEF GroupLogInv, ServedSound
    <2>3. CASE w # TransitionsTask
        <3>1. write'[TransitionsTask] = write[TransitionsTask]
            BY <1>3, <2>1, <2>3
        <3>2. QED
            BY <1>1, <3>1 DEF GroupLogInv, ServedSound
    <2>4. QED
        BY <2>2, <2>3
<1>9. QED
    BY <1>4, <1>5, <1>6, <1>7, <1>8 DEF GroupLogInv

(* A writer that is busy is one of a process that serves.                  *)
LEMMA BusyIsReady ==
    ASSUME GroupLogType, GroupLogInv, NEW w \in Writer, write[w].pc # "idle"
    PROVE  /\ ready
           /\ write[w] \in WriteInHand
           /\ Writing(w, write[w], glog, nextSeq)
<1>1. write[w] \in WriteInHand /\ Writing(w, write[w], glog, nextSeq)
    BY DEF GroupLogType, GroupLogInv, WritesSound
<1>2. ready
    BY DEF GroupLogInv, WritesSound
<1>3. QED
    BY <1>1, <1>2

LEMMA IdleTyped ==
    /\ IdleWrite \in WriteInHand
    /\ IdleWrite.pc = "idle"
    /\ \A w, log, n : Writing(w, IdleWrite, log, n)
<1>1. <<>> \in Seq(PartitionKey)
    OBVIOUS
<1>2. IdleWrite \in WriteInHand /\ IdleWrite.pc = "idle"
    BY <1>1 DEF IdleWrite, WriteInHand
<1>3. QED
    BY <1>2 DEF Writing

(* An append proposed.                                                     *)
LEMMA ProposedTyped ==
    ASSUME NEW rec \in GroupRecords, NEW rest \in Seq(PartitionKey), NEW w,
           w \in Committer => rec.kind = "offset", NEW x,
           x = [IdleWrite EXCEPT !.pc = "last_version", !.rec = rec, !.rest = rest]
    PROVE  /\ x \in WriteInHand /\ x.pc = "last_version"
           /\ \A log, n : Writing(w, x, log, n)
<1>1. x \in WriteInHand /\ x.pc = "last_version" /\ x.rec = rec
    BY IdleTyped DEF WriteInHand
<1>2. QED
    BY <1>1 DEF Writing

LEMMA OffsetRecord ==
    ASSUME NEW k \in PartitionKey, NEW c \in Committer
    PROVE  OffsetCommitted(k, c) \in GroupRecords /\ OffsetCommitted(k, c).kind = "offset"
BY DEF GroupRecords, OffsetCommitted

(* What a writer that is through goes on to.                               *)
LEMMA GoesOnTyped ==
    ASSUME GroupLogType, NEW w \in Writer, NEW x, x = GoesOn(w)
    PROVE  /\ x \in WriteInHand /\ x.pc \in {"idle", "last_version"}
           /\ \A log, n : Writing(w, x, log, n)
<1>1. CASE x = IdleWrite
    BY <1>1, IdleTyped
<1>2. CASE x # IdleWrite
    <2>1. /\ w \in Committer /\ write[w].rest # <<>>
          /\ x = [IdleWrite EXCEPT !.pc = "last_version", !.rec = OffsetCommitted(Head(write[w].rest), w),
                                   !.rest = Tail(write[w].rest)]
        BY <1>2 DEF GoesOn, Writer
    <2>2. write[w].rest \in Seq(PartitionKey)
        BY DEF GroupLogType, WriteInHand
    <2>3. Head(write[w].rest) \in PartitionKey /\ Tail(write[w].rest) \in Seq(PartitionKey)
        BY <2>1, <2>2
    <2>4. /\ OffsetCommitted(Head(write[w].rest), w) \in GroupRecords
          /\ OffsetCommitted(Head(write[w].rest), w).kind = "offset"
        BY <2>1, <2>3, OffsetRecord
    <2>5. QED
        BY <2>1, <2>3, <2>4, ProposedTyped
<1>3. QED
    BY <1>1, <1>2

LEMMA OffsetCommitKeeps ==
    ASSUME GroupLogType, GroupLogInv, NEW c \in Committer, NEW keys \in Requested, OffsetCommit(c, keys)
    PROVE  GroupLogType' /\ GroupLogInv'
<1> DEFINE x == [IdleWrite EXCEPT !.pc = "last_version", !.rec = OffsetCommitted(Head(keys), c),
                                  !.rest = Tail(keys)]
<1>1. keys \in Seq(PartitionKey) /\ keys # <<>>
    BY GroupLogAssumption
<1>2. Head(keys) \in PartitionKey /\ Tail(keys) \in Seq(PartitionKey)
    BY <1>1
<1>3. c \in Writer
    BY DEF Writer
<1>4. OffsetCommitted(Head(keys), c) \in GroupRecords /\ OffsetCommitted(Head(keys), c).kind = "offset"
    BY <1>2, OffsetRecord
<1>5. /\ x \in WriteInHand /\ x.pc = "last_version"
      /\ Writing(c, x, glog, nextSeq)
    BY <1>2, <1>4, ProposedTyped
<1>6. /\ write' = [write EXCEPT ![c] = x] /\ UNCHANGED GroupFrame /\ ready /\ write[c].pc # "apply"
    BY DEF OffsetCommit, Propose, FencedOut, GroupFrame
<1> HIDE DEF x
<1>7. QED
    BY <1>3, <1>5, <1>6, WriterMoves

LEMMA ActorTakesKeeps ==
    ASSUME GroupLogType, GroupLogInv, NEW rec \in GroupRecords, ActorTakes(rec)
    PROVE  GroupLogType' /\ GroupLogInv'
<1> DEFINE x == [IdleWrite EXCEPT !.pc = "last_version", !.rec = rec, !.rest = <<>>]
<1>1. TransitionsTask \in Writer /\ TransitionsTask \notin Committer /\ <<>> \in Seq(PartitionKey)
    BY GroupLogAssumption DEF Writer
<1>2. /\ x \in WriteInHand /\ x.pc = "last_version"
      /\ Writing(TransitionsTask, x, glog, nextSeq)
    BY <1>1, ProposedTyped
<1>3. /\ write' = [write EXCEPT ![TransitionsTask] = x] /\ UNCHANGED GroupFrame /\ ready
      /\ write[TransitionsTask].pc # "apply"
    BY DEF ActorTakes, Propose, GroupFrame
<1> HIDE DEF x
<1>4. QED
    BY <1>1, <1>2, <1>3, WriterMoves

LEMMA LastVersionKeeps ==
    ASSUME GroupLogType, GroupLogInv, NEW w \in Writer, LastVersion(w)
    PROVE  GroupLogType' /\ GroupLogInv'
<1> DEFINE x == [write[w] EXCEPT !.pc = "append", !.seen = nextSeq]
<1>1. write[w].pc = "last_version" /\ UNCHANGED GroupFrame
    BY DEF LastVersion, GroupFrame
<1>2. ready /\ write[w] \in WriteInHand /\ Writing(w, write[w], glog, nextSeq)
    BY <1>1, BusyIsReady
<1>3. nextSeq \in Nat /\ write \in [Writer -> WriteInHand]
    BY DEF GroupLogType
<1>4. x \in WriteInHand /\ x.pc = "append" /\ x.seen = nextSeq /\ x.rec = write[w].rec
    BY <1>2, <1>3 DEF WriteInHand
<1>5. write' = [write EXCEPT ![w] = x]
    BY <1>3 DEF LastVersion
<1> HIDE DEF x
<1>6. Writing(w, x, glog, nextSeq)
    BY <1>1, <1>2, <1>3, <1>4 DEF Writing
<1>7. QED
    BY <1>1, <1>2, <1>4, <1>5, <1>6, WriterMoves

LEMMA NonMonotonicKeeps ==
    ASSUME GroupLogType, GroupLogInv, NEW w \in Writer, NonMonotonic(w)
    PROVE  GroupLogType' /\ GroupLogInv'
<1> DEFINE x == [write[w] EXCEPT !.pc = "last_version", !.tries = @ + 1]
<1>1. write[w].pc = "append" /\ UNCHANGED GroupFrame
    BY DEF NonMonotonic, GroupFrame
<1>2. ready /\ write[w] \in WriteInHand /\ Writing(w, write[w], glog, nextSeq)
    BY <1>1, BusyIsReady
<1>3. write \in [Writer -> WriteInHand]
    BY DEF GroupLogType
<1>4. x \in WriteInHand /\ x.pc = "last_version" /\ x.rec = write[w].rec
    <2>1. write[w].tries + 1 \in Nat
        BY <1>2 DEF WriteInHand
    <2>2. QED
        BY <1>2, <2>1 DEF WriteInHand
<1>5. write' = [write EXCEPT ![w] = x] \/ write' = [write EXCEPT ![w] = GoesOn(w)]
    BY <1>3 DEF NonMonotonic
<1> HIDE DEF x
<1>6. Writing(w, x, glog, nextSeq)
    BY <1>1, <1>2, <1>4 DEF Writing
<1>7. CASE write' = [write EXCEPT ![w] = x]
    BY <1>1, <1>2, <1>4, <1>6, <1>7, WriterMoves
<1>8. CASE write' = [write EXCEPT ![w] = GoesOn(w)]
    <2> DEFINE z == GoesOn(w)
    <2>1. z \in WriteInHand /\ z.pc \in {"idle", "last_version"} /\ Writing(w, z, glog, nextSeq)
        BY GoesOnTyped
    <2>2. write' = [write EXCEPT ![w] = z]
        BY <1>8
    <2> HIDE DEF z
    <2>3. QED
        BY <1>1, <1>2, <2>1, <2>2, WriterMoves
<1>9. QED
    BY <1>5, <1>7, <1>8

LEMMA SendsKeeps ==
    ASSUME GroupLogType, GroupLogInv, NEW w \in Writer, Sends(w)
    PROVE  GroupLogType' /\ GroupLogInv'
<1> DEFINE x == [write[w] EXCEPT !.pc = "put"]
<1>1. write[w].pc = "append" /\ UNCHANGED GroupFrame
    BY DEF Sends, GroupFrame
<1>2. ready /\ write[w] \in WriteInHand /\ Writing(w, write[w], glog, nextSeq)
    BY <1>1, BusyIsReady
<1>3. write \in [Writer -> WriteInHand]
    BY DEF GroupLogType
<1>4. x \in WriteInHand /\ x.pc = "put" /\ x.rec = write[w].rec /\ x.seen = write[w].seen
    BY <1>2 DEF WriteInHand
<1>5. write' = [write EXCEPT ![w] = x]
    BY <1>3 DEF Sends
<1> HIDE DEF x
<1>6. Writing(w, x, glog, nextSeq)
    BY <1>1, <1>2, <1>4 DEF Writing
<1>7. QED
    BY <1>1, <1>2, <1>4, <1>5, <1>6, WriterMoves

LEMMA PreconditionFailedKeeps ==
    ASSUME GroupLogType, GroupLogInv, NEW w \in Writer, PreconditionFailed(w)
    PROVE  GroupLogType' /\ GroupLogInv'
<1> DEFINE z == GoesOn(w)
<1>1. /\ write[w].pc = "put" /\ UNCHANGED GroupFrame
      /\ write' = [write EXCEPT ![w] = z]
    BY DEF PreconditionFailed, GroupFrame
<1>2. ready
    BY <1>1, BusyIsReady
<1>3. z \in WriteInHand /\ z.pc \in {"idle", "last_version"} /\ Writing(w, z, glog, nextSeq)
    BY GoesOnTyped
<1> HIDE DEF z
<1>4. QED
    BY <1>1, <1>2, <1>3, WriterMoves

(* A segment lands: what is known of the log is as it was.                 *)
LEMMA LogGrows ==
    ASSUME GroupLogType, GroupLogInv, NEW w \in Writer, write[w].pc = "put", Len(glog) = write[w].seen,
           NEW x \in WriteInHand, x.pc \in {"idle", "last_version", "landed"},
           x.pc = "landed" => x.seen = write[w].seen /\ x.rec = write[w].rec,
           x.pc # "landed" => \A log, n : Writing(w, x, log, n),
           glog' = Append(glog, write[w].rec), write' = [write EXCEPT ![w] = x],
           UNCHANGED <<nextSeq, offsets, record, replay, ready, answered>>
    PROVE  GroupLogType' /\ GroupLogInv'
<1>1. /\ nextSeq' = nextSeq /\ offsets' = offsets /\ record' = record
      /\ replay' = replay /\ ready' = ready /\ answered' = answered
    OBVIOUS
<1>2. /\ glog \in Seq(GroupRecords) /\ nextSeq \in Nat /\ write \in [Writer -> WriteInHand]
      /\ offsets \in [PartitionKey -> GroupHeld] /\ answered \in [PartitionKey -> Nat]
    BY DEF GroupLogType
<1>3. ready /\ write[w] \in WriteInHand /\ Writing(w, write[w], glog, nextSeq)
    BY BusyIsReady
<1>4. write[w].rec \in GroupRecords /\ write[w].seen \in Nat /\ write[w].seen <= nextSeq
    BY <1>3 DEF Writing, WriteInHand
<1>5. Len(glog) \in Nat /\ nextSeq <= Len(glog)
    BY <1>2 DEF GroupLogInv, WritesSound
<1>6. nextSeq = Len(glog) /\ write[w].seen = nextSeq
    BY <1>2, <1>4, <1>5
<1>7. /\ glog' \in Seq(GroupRecords) /\ Len(glog') = Len(glog) + 1
      /\ glog'[Len(glog) + 1] = write[w].rec
      /\ \A i \in 1 .. Len(glog) : glog'[i] = glog[i]
    BY <1>2, <1>4
<1>8. /\ write' \in [Writer -> WriteInHand]
      /\ \A v \in Writer : write'[v] = IF v = w THEN x ELSE write[v]
    BY <1>2
<1>9. GroupLogType'
    BY <1>1, <1>7, <1>8 DEF GroupLogType
<1>10. \A v \in Writer : write[v] \in WriteInHand /\ Writing(v, write[v], glog, nextSeq) /\ write[v].pc # "landed"
    BY <1>2, <1>6 DEF GroupLogInv, WritesSound, Writing
<1>11. \A v \in Writer : Writing(v, write'[v], glog', nextSeq')
    <2>1. SUFFICES ASSUME NEW v \in Writer PROVE Writing(v, write'[v], glog', nextSeq)
        BY <1>1
    <2>2. CASE v = w
        <3>1. write'[v] = x
            BY <1>8, <2>2
        <3>2. x.pc = "landed" => x.rec = write[w].rec /\ x.seen = nextSeq
            BY <1>6
        <3>3. write[w].pc # "idle" => (w \in Committer => write[w].rec.kind = "offset")
            BY <1>3 DEF Writing
        <3>4. CASE x.pc = "landed"
            BY <1>4, <1>5, <1>6, <1>7, <2>2, <3>1, <3>2, <3>3, <3>4 DEF Writing
        <3>5. CASE x.pc # "landed"
            BY <2>2, <3>1, <3>5
        <3>6. QED
            BY <3>4, <3>5
    <2>3. CASE v # w
        <3>1. write'[v] = write[v] /\ write[v].pc # "landed" /\ Writing(v, write[v], glog, nextSeq)
            BY <1>8, <1>10, <2>3
        <3>2. write[v].seen \in Nat
            BY <1>10 DEF WriteInHand
        <3>3. write[v].pc = "apply" => glog'[write[v].seen + 1] = glog[write[v].seen + 1]
            BY <1>2, <1>5, <1>6, <1>7, <3>1, <3>2 DEF Writing
        <3>4. QED
            BY <1>7, <3>1, <3>3 DEF Writing
    <2>4. QED
        BY <2>2, <2>3
<1>12. WritesSound'
    <2>1. \A v, u \in Writer : write'[v].pc = "landed" /\ write'[u].pc = "landed" => v = u
        BY <1>8, <1>10
    <2>2. nextSeq' <= Len(glog') /\ Len(glog') <= nextSeq' + 1
        BY <1>1, <1>2, <1>6, <1>7
    <2>3. QED
        BY <1>1, <1>3, <1>11, <2>1, <2>2 DEF WritesSound
<1>13. AnsweredLogged'
    <2>1. ASSUME NEW k \in PartitionKey, answered[k] > 0
          PROVE  answered[k] <= Len(glog') /\ glog'[answered[k]].kind = "offset" /\ glog'[answered[k]].key = k
        <3>1. answered[k] \in 1 .. Len(glog) /\ glog[answered[k]].kind = "offset" /\ glog[answered[k]].key = k
            BY <1>2, <2>1 DEF GroupLogInv, AnsweredLogged
        <3>2. QED
            BY <1>5, <1>7, <3>1
    <2>2. QED
        BY <1>1, <2>1 DEF AnsweredLogged
<1>14. ReplaySound'
    BY <1>1, <1>3 DEF ReplaySound
<1>15. ServedSound'
    <2>1. Live(glog', replay.upto, nextSeq) = Live(glog, replay.upto, nextSeq)
        <3>1. replay.upto \in Nat /\ replay.upto <= nextSeq
            BY <1>3 DEF GroupLogType, GroupLogInv, ServedSound
        <3>2. glog' \in Seq(GroupRecords) /\ nextSeq <= Len(glog) /\ nextSeq <= Len(glog')
              /\ \A i \in 1 .. nextSeq : glog'[i] = glog[i]
            BY <1>2, <1>6, <1>7, <1>9 DEF GroupLogType
        <3>3. QED
            BY <1>2, <3>1, <3>2, LiveSame
    <2>2. HeldIsLogged(offsets, glog')
        <3>1. ASSUME NEW k \in PartitionKey, offsets[k].version > 0
              PROVE  offsets[k].version <= Len(glog') /\ glog'[offsets[k].version] = OffsetCommitted(k, offsets[k].offset)
            <4>1. offsets[k].version \in Nat
                BY <1>2 DEF GroupHeld
            <4>2. offsets[k].version \in 1 .. Len(glog) /\ glog[offsets[k].version] = OffsetCommitted(k, offsets[k].offset)
                BY <1>3, <1>5, <3>1, <4>1 DEF GroupLogInv, ServedSound, HeldIsLogged
            <4>3. QED
                BY <1>5, <1>7, <4>2
        <3>2. QED
            BY <3>1 DEF HeldIsLogged
    <2>3. TransitionsTask \in Writer
        BY DEF Writer
    <2>4. \/ write'[TransitionsTask] = write[TransitionsTask]
          \/ write'[TransitionsTask].pc # "apply" /\ write[TransitionsTask].pc # "apply"
        BY <1>8, <2>3
    <2>5. QED
        BY <1>1, <1>3, <2>1, <2>2, <2>4 DEF GroupLogInv, ServedSound
<1>16. QED
    BY <1>9, <1>12, <1>13, <1>14, <1>15 DEF GroupLogInv

LEMMA GroupPutsKeeps ==
    ASSUME GroupLogType, GroupLogInv, NEW w \in Writer, GroupPuts(w)
    PROVE  GroupLogType' /\ GroupLogInv'
<1> DEFINE x == [write[w] EXCEPT !.pc = "landed"]
<1>1. /\ write[w].pc = "put" /\ Len(glog) = write[w].seen /\ glog' = Append(glog, write[w].rec)
      /\ UNCHANGED <<nextSeq, offsets, record, replay, ready, answered>>
    BY DEF GroupPuts, PutLandsAt
<1>2. write \in [Writer -> WriteInHand] /\ write[w] \in WriteInHand
    BY DEF GroupLogType
<1>3. x \in WriteInHand /\ x.pc = "landed" /\ x.rec = write[w].rec /\ x.seen = write[w].seen
    BY <1>2 DEF WriteInHand
<1>4. write' = [write EXCEPT ![w] = x]
    BY <1>2 DEF GroupPuts
<1> HIDE DEF x
<1>5. QED
    BY <1>1, <1>3, <1>4, LogGrows

LEMMA PutFailsKeeps ==
    ASSUME GroupLogType, GroupLogInv, NEW w \in Writer, NEW landed \in BOOLEAN, PutFails(w, landed)
    PROVE  GroupLogType' /\ GroupLogInv'
<1> DEFINE z == GoesOn(w)
<1>1. /\ write[w].pc = "put" /\ write' = [write EXCEPT ![w] = z]
      /\ UNCHANGED <<nextSeq, offsets, record, replay, ready, answered>>
    BY DEF PutFails
<1>5. /\ z \in WriteInHand /\ z.pc \in {"idle", "last_version"}
      /\ \A log, n : Writing(w, z, log, n)
    BY GoesOnTyped
<1> HIDE DEF z
<1>2. CASE landed
    <2>1. Len(glog) = write[w].seen /\ glog' = Append(glog, write[w].rec)
        BY <1>2 DEF PutFails, PutLandsAt
    <2>2. QED
        BY <1>1, <1>5, <2>1, LogGrows
<1>3. CASE ~ landed
    <2>1. UNCHANGED GroupFrame
        BY <1>1, <1>3 DEF PutFails, GroupFrame
    <2>2. ready
        BY <1>1, BusyIsReady
    <2>3. QED
        BY <1>1, <1>5, <2>1, <2>2, WriterMoves
<1>4. QED
    BY <1>2, <1>3

LEMMA AdvancesKeeps ==
    ASSUME GroupLogType, GroupLogInv, NEW w \in Writer, Advances(w)
    PROVE  GroupLogType' /\ GroupLogInv'
<1> DEFINE x == [write[w] EXCEPT !.pc = "apply"]
<1>1. /\ glog' = glog /\ offsets' = offsets /\ record' = record /\ replay' = replay
      /\ ready' = ready /\ answered' = answered
      /\ write[w].pc = "landed" /\ nextSeq' = write[w].seen + 1
    BY DEF Advances
<1>2. /\ glog \in Seq(GroupRecords) /\ nextSeq \in Nat /\ write \in [Writer -> WriteInHand]
    BY DEF GroupLogType
<1>3. ready /\ write[w] \in WriteInHand /\ Writing(w, write[w], glog, nextSeq)
    BY <1>1, BusyIsReady
<1>4. /\ write[w].seen = nextSeq /\ Len(glog) = nextSeq + 1 /\ glog[nextSeq + 1] = write[w].rec
      /\ write[w].rec \in GroupRecords /\ (w \in Committer => write[w].rec.kind = "offset")
    BY <1>1, <1>3 DEF Writing
<1>5. x \in WriteInHand /\ x.pc = "apply" /\ x.rec = write[w].rec /\ x.seen = nextSeq
    BY <1>3, <1>4 DEF WriteInHand
<1>6. write' = [write EXCEPT ![w] = x]
    BY <1>2 DEF Advances
<1> HIDE DEF x
<1>7. /\ write' \in [Writer -> WriteInHand]
      /\ \A v \in Writer : write'[v] = IF v = w THEN x ELSE write[v]
    BY <1>2, <1>5, <1>6
<1>8. nextSeq' = nextSeq + 1
    BY <1>1, <1>4
<1>9. GroupLogType'
    BY <1>1, <1>2, <1>7, <1>8 DEF GroupLogType
<1>10. \A v \in Writer : Writing(v, write'[v], glog, nextSeq + 1)
    <2>1. SUFFICES ASSUME NEW v \in Writer PROVE Writing(v, write'[v], glog, nextSeq + 1)
        OBVIOUS
    <2>2. CASE v = w
        <3>1. write'[v] = x
            BY <1>7, <2>2
        <3>2. QED
            BY <1>2, <1>4, <1>5, <2>2, <3>1 DEF Writing
    <2>3. CASE v # w
        <3>1. write'[v] = write[v] /\ write[v].pc # "landed" /\ Writing(v, write[v], glog, nextSeq)
            BY <1>1, <1>7, <2>3 DEF GroupLogInv, WritesSound
        <3>2. write[v].seen \in Nat
            BY <1>2 DEF WriteInHand
        <3>3. QED
            BY <1>2, <3>1, <3>2 DEF Writing
    <2>4. QED
        BY <2>2, <2>3
<1>11. WritesSound'
    <2>1. \A v, u \in Writer : write'[v].pc = "landed" /\ write'[u].pc = "landed" => v = u
        BY <1>5, <1>7 DEF GroupLogInv, WritesSound
    <2>2. nextSeq' <= Len(glog') /\ Len(glog') <= nextSeq' + 1
        BY <1>1, <1>2, <1>4, <1>8
    <2>3. QED
        BY <1>1, <1>3, <1>8, <1>10, <2>1, <2>2 DEF WritesSound
<1>12. AnsweredLogged'
    BY <1>1 DEF GroupLogInv, AnsweredLogged
<1>13. ReplaySound'
    BY <1>1, <1>3 DEF ReplaySound
<1>14. ServedSound'
    <2>0. replay.upto \in Nat /\ replay.upto <= nextSeq /\ nextSeq + 1 <= Len(glog)
        BY <1>2, <1>3, <1>4 DEF GroupLogType, GroupLogInv, ServedSound
    <2>1. Live(glog, replay.upto, nextSeq + 1) = ApplyGroup(Live(glog, replay.upto, nextSeq), write[w].rec)
        BY <1>2, <1>4, <2>0, LiveNext
    <2>6. replay'.upto <= nextSeq'
        BY <1>1, <1>2, <1>8, <2>0
    <2>2. TransitionsTask \in Writer
        BY DEF Writer
    <2>3. CASE w = TransitionsTask
        <3>1. record = Live(glog, replay.upto, nextSeq)
            BY <1>1, <1>3, <2>3 DEF GroupLogInv, ServedSound
        <3>2. write'[TransitionsTask].pc = "apply" /\ write'[TransitionsTask].rec = write[w].rec
            BY <1>5, <1>7, <2>2, <2>3
        <3>3. QED
            BY <1>1, <1>3, <1>8, <2>1, <2>6, <3>1, <3>2 DEF GroupLogInv, ServedSound
    <2>4. CASE w # TransitionsTask
        <3>1. write[w].rec.kind = "offset"
            BY <1>4, <2>4 DEF Writer
        <3>2. Live(glog, replay.upto, nextSeq + 1) = Live(glog, replay.upto, nextSeq)
            BY <2>1, <3>1 DEF ApplyGroup
        <3>3. write'[TransitionsTask] = write[TransitionsTask]
            BY <1>7, <2>2, <2>4
        <3>4. QED
            BY <1>1, <1>3, <1>8, <2>6, <3>2, <3>3 DEF GroupLogInv, ServedSound
    <2>5. QED
        BY <2>3, <2>4
<1>15. QED
    BY <1>9, <1>11, <1>12, <1>13, <1>14 DEF GroupLogInv

(* A writer that is through: nothing of the log moves.                     *)
LEMMA WritesKept ==
    ASSUME GroupLogType, GroupLogInv, NEW w \in Writer, NEW x \in WriteInHand,
           x.pc \notin {"landed", "apply"}, Writing(w, x, glog, nextSeq), ready,
           write' = [write EXCEPT ![w] = x], UNCHANGED <<glog, nextSeq, ready>>
    PROVE  /\ write' \in [Writer -> WriteInHand]
           /\ WritesSound'
           /\ \A v \in Writer : write'[v] = IF v = w THEN x ELSE write[v]
<1>1. write \in [Writer -> WriteInHand]
    BY DEF GroupLogType
<1>2. /\ write' \in [Writer -> WriteInHand]
      /\ \A v \in Writer : write'[v] = IF v = w THEN x ELSE write[v]
    BY <1>1
<1>3. WritesSound'
    BY <1>2 DEF GroupLogInv, WritesSound
<1>4. QED
    BY <1>2, <1>3

LEMMA ActorAppliesKeeps ==
    ASSUME GroupLogType, GroupLogInv, ActorApplies
    PROVE  GroupLogType' /\ GroupLogInv'
<1>1. /\ glog' = glog /\ nextSeq' = nextSeq /\ offsets' = offsets /\ replay' = replay
      /\ ready' = ready /\ answered' = answered
      /\ write[TransitionsTask].pc = "apply"
      /\ record' = ApplyGroup(record, write[TransitionsTask].rec)
      /\ write' = [write EXCEPT ![TransitionsTask] = IdleWrite]
    BY DEF ActorApplies
<1>2. TransitionsTask \in Writer
    BY DEF Writer
<1>3. ready
    BY <1>1, <1>2, BusyIsReady
<1>4. IdleWrite \in WriteInHand /\ IdleWrite.pc = "idle" /\ Writing(TransitionsTask, IdleWrite, glog, nextSeq)
    BY IdleTyped
<1>5. /\ write' \in [Writer -> WriteInHand]
      /\ WritesSound'
      /\ write'[TransitionsTask] = IdleWrite
    BY <1>1, <1>2, <1>3, <1>4, WritesKept
<1>6. GroupLogType'
    BY <1>1, <1>5 DEF GroupLogType
<1>7. AnsweredLogged'
    BY <1>1 DEF GroupLogInv, AnsweredLogged
<1>8. ReplaySound'
    BY <1>1, <1>3 DEF ReplaySound
<1>9. ServedSound'
    <2>1. record' = Live(glog, replay.upto, nextSeq)
        BY <1>1, <1>3 DEF GroupLogInv, ServedSound
    <2>2. write'[TransitionsTask].pc # "apply"
        BY <1>4, <1>5
    <2>3. QED
        BY <1>1, <1>3, <2>1, <2>2 DEF GroupLogInv, ServedSound
<1>10. QED
    BY <1>5, <1>6, <1>7, <1>8, <1>9 DEF GroupLogInv

(* A commit acknowledged is held, or a later one of its key is.            *)
LEMMA AcknowledgeKeeps ==
    ASSUME GroupLogType, GroupLogInv, NEW c \in Committer, Acknowledge(c)
    PROVE  GroupLogType' /\ GroupLogInv'
<1> DEFINE r == write[c].rec
           v == write[c].seen + 1
           a == IF answered[r.key] < v THEN v ELSE answered[r.key]
<1>1. /\ glog' = glog /\ nextSeq' = nextSeq /\ record' = record /\ replay' = replay /\ ready' = ready
      /\ write[c].pc = "apply"
    BY DEF Acknowledge
<1>2. /\ glog \in Seq(GroupRecords) /\ nextSeq \in Nat /\ write \in [Writer -> WriteInHand]
      /\ offsets \in [PartitionKey -> GroupHeld] /\ answered \in [PartitionKey -> Nat]
    BY DEF GroupLogType
<1>3. c \in Writer /\ TransitionsTask \in Writer /\ c # TransitionsTask
    BY GroupLogAssumption DEF Writer
<1>4. ready /\ write[c] \in WriteInHand /\ Writing(c, write[c], glog, nextSeq)
    BY <1>1, <1>3, BusyIsReady
<1>5. v \in Nat /\ v >= 1 /\ v <= nextSeq /\ glog[v] = r /\ r \in GroupRecords /\ r.kind = "offset"
    BY <1>1, <1>4 DEF Writing, WriteInHand
<1>6. nextSeq <= Len(glog) /\ Len(glog) \in Nat
    BY <1>2 DEF GroupLogInv, WritesSound
<1>7. v \in 1 .. Len(glog)
    BY <1>2, <1>5, <1>6
<1>8. r.key \in PartitionKey
    BY <1>5, RecordKinds
<1>9. offsets' = ApplyOffset(offsets, v, glog[v])
    BY <1>5 DEF Acknowledge
<1>10. answered' = [answered EXCEPT ![r.key] = a]
    BY <1>2, <1>8 DEF Acknowledge
<1>11. PICK x \in WriteInHand : /\ x.pc \notin {"landed", "apply"} /\ Writing(c, x, glog, nextSeq)
                                /\ write' = [write EXCEPT ![c] = x]
    <2>1. write' = [write EXCEPT ![c] = GoesOn(c)]
        BY DEF Acknowledge
    <2>2. QED
        BY <1>3, <2>1, GoesOnTyped
<1> HIDE DEF r, v, a
<1>12. /\ write' \in [Writer -> WriteInHand]
       /\ WritesSound'
       /\ \A u \in Writer : write'[u] = IF u = c THEN x ELSE write[u]
    BY <1>1, <1>3, <1>4, <1>11, WritesKept
<1>13. HeldIsLogged(offsets, glog) /\ \A k \in PartitionKey : offsets[k].version >= answered[k]
    BY <1>4 DEF GroupLogInv, ServedSound
<1>14. /\ offsets' \in [PartitionKey -> GroupHeld]
       /\ HeldIsLogged(offsets', glog)
       /\ Rises(offsets, offsets')
       /\ offsets'[glog[v].key].version >= v
    BY <1>2, <1>5, <1>7, <1>9, <1>13, ApplyOffsetKeeps
<1>15. a \in Nat /\ (a = v \/ a = answered[r.key])
    BY <1>2, <1>5, <1>8 DEF a
<1>16. /\ answered' \in [PartitionKey -> Nat]
       /\ \A k \in PartitionKey : answered'[k] = IF k = r.key THEN a ELSE answered[k]
    BY <1>2, <1>10, <1>15
<1>17. GroupLogType'
    BY <1>1, <1>2, <1>12, <1>14, <1>16 DEF GroupLogType
<1>18. AnsweredLogged'
    <2>1. ASSUME NEW k \in PartitionKey, answered'[k] > 0
          PROVE  answered'[k] <= Len(glog) /\ glog[answered'[k]].kind = "offset" /\ glog[answered'[k]].key = k
        <3>1. CASE k = r.key /\ a = v
            BY <1>5, <1>7, <1>16, <2>1, <3>1
        <3>2. CASE answered'[k] = answered[k]
            BY <2>1, <3>2 DEF GroupLogInv, AnsweredLogged
        <3>3. QED
            BY <1>15, <1>16, <3>1, <3>2
    <2>2. QED
        BY <1>1, <2>1 DEF AnsweredLogged
<1>19. ReplaySound'
    BY <1>1, <1>4 DEF ReplaySound
<1>20. ServedSound'
    <2>1. ASSUME NEW k \in PartitionKey PROVE offsets'[k].version >= answered'[k]
        <3>1. offsets'[k].version \in Nat /\ offsets[k].version \in Nat /\ answered[k] \in Nat
            BY <1>2, <1>14 DEF GroupHeld
        <3>2. offsets'[k].version >= offsets[k].version /\ offsets[k].version >= answered[k]
            BY <1>13, <1>14 DEF Rises
        <3>3. CASE k = r.key /\ a = v
            BY <1>5, <1>14, <1>16, <3>3
        <3>4. CASE answered'[k] = answered[k]
            BY <3>1, <3>2, <3>4
        <3>5. QED
            BY <1>15, <1>16, <3>3, <3>4
    <2>2. write'[TransitionsTask] = write[TransitionsTask]
        BY <1>3, <1>12
    <2>3. QED
        BY <1>1, <1>4, <1>14, <2>1, <2>2 DEF GroupLogInv, ServedSound
<1>21. QED
    BY <1>12, <1>17, <1>18, <1>19, <1>20 DEF GroupLogInv

-----------------------------------------------------------------------------
(* The replay. Nothing writes, so the log it pages through stands still.   *)
LEMMA LoadingWrites ==
    ASSUME \A w \in Writer : write'[w].pc = "idle", ~ ready', nextSeq' <= Len(glog')
    PROVE  WritesSound'
BY DEF WritesSound, Writing

LEMMA LoadingIdle ==
    ASSUME GroupLogInv, ~ ready
    PROVE  /\ \A w \in Writer : write[w].pc = "idle"
           /\ ReplaySound /\ AnsweredLogged
BY DEF GroupLogInv, WritesSound

NothingHeld == [k \in PartitionKey |-> NoOffset]

LEMMA NothingHeldSound ==
    /\ NothingHeld \in [PartitionKey -> GroupHeld]
    /\ \A log : HeldIsLogged(NothingHeld, log)
    /\ \A log, held : Covers(held, log, 0)
<1>1. NoOffset \in GroupHeld /\ NoOffset.version = 0
    BY DEF NoOffset, GroupHeld
<1>2. NothingHeld \in [PartitionKey -> GroupHeld] /\ \A k \in PartitionKey : NothingHeld[k].version = 0
    BY <1>1 DEF NothingHeld
<1>3. QED
    BY <1>2 DEF HeldIsLogged, Covers

LEMMA BootingSound ==
    ASSUME glog' \in Seq(GroupRecords), nextSeq' = 0, offsets' = NothingHeld, record' = FreshRecord,
           replay' = Booting, ready' = FALSE, write' = [w \in Writer |-> IdleWrite],
           answered' \in [PartitionKey -> Nat], AnsweredLogged'
    PROVE  GroupLogType' /\ GroupLogInv'
<1>1. /\ replay' = [half |-> "offsets", at |-> 1, done |-> {}, offsets |-> NothingHeld, upto |-> 0]
      /\ replay'.half = "offsets" /\ replay'.at = 1 /\ replay'.done = {} /\ replay'.offsets = NothingHeld
    BY DEF Booting, NothingHeld
<1>2. GroupLogType'
    <2>1. replay' \in [half : ReplayHalves \cup {"done"}, at : Nat \ {0}, done : SUBSET ReplayHalves,
                       offsets : [PartitionKey -> GroupHeld], upto : Nat]
        BY <1>1, NothingHeldSound DEF ReplayHalves
    <2>2. write' \in [Writer -> WriteInHand]
        BY IdleTyped
    <2>3. QED
        BY <2>1, <2>2, NothingHeldSound DEF GroupLogType
<1>3. WritesSound'
    <2>1. \A w \in Writer : write'[w].pc = "idle"
        BY IdleTyped
    <2>2. nextSeq' <= Len(glog')
        OBVIOUS
    <2>3. QED
        BY <2>1, <2>2, LoadingWrites
<1>4. ReplaySound'
    <2>1. GroupAt' = 0 /\ OffsetsAt' = 0
        BY <1>1 DEF GroupAt, OffsetsAt
    <2>2. record' = Tell(glog', 0)
        BY TellNone
    <2>3. replay'.at <= Len(glog') + 1
        BY <1>1
    <2>4. QED
        BY <1>1, <2>1, <2>2, <2>3, NothingHeldSound DEF ReplaySound
<1>5. ServedSound'
    BY DEF ServedSound
<1>6. QED
    BY <1>2, <1>3, <1>4, <1>5 DEF GroupLogInv

LEMMA RebootKeeps ==
    ASSUME GroupLogType, GroupLogInv, Reboot
    PROVE  GroupLogType' /\ GroupLogInv'
<1>1. /\ glog' = glog /\ answered' = answered /\ nextSeq' = 0 /\ offsets' = NothingHeld
      /\ record' = FreshRecord /\ replay' = Booting /\ ready' = FALSE
      /\ write' = [w \in Writer |-> IdleWrite]
    BY DEF Reboot, NothingHeld
<1>2. glog' \in Seq(GroupRecords) /\ answered' \in [PartitionKey -> Nat]
    BY <1>1 DEF GroupLogType
<1>3. AnsweredLogged'
    BY <1>1 DEF GroupLogInv, AnsweredLogged
<1>4. QED
    BY <1>1, <1>2, <1>3, BootingSound

LEMMA OpenFailsKeeps ==
    ASSUME GroupLogType, GroupLogInv, OpenFails
    PROVE  GroupLogType' /\ GroupLogInv'
<1>1. /\ glog' = glog /\ nextSeq' = nextSeq /\ offsets' = offsets /\ record' = record
      /\ write' = write /\ ready' = ready /\ answered' = answered
      /\ ~ ready /\ replay.at = 1 /\ replay.done = {} /\ nextSeq = 0
      /\ replay' = [replay EXCEPT !.half = OtherHalf(replay.half)]
    BY DEF OpenFails
<1>2. replay \in [half : ReplayHalves \cup {"done"}, at : Nat \ {0}, done : SUBSET ReplayHalves,
                  offsets : [PartitionKey -> GroupHeld], upto : Nat]
    BY DEF GroupLogType
<1>3. OtherHalf(replay.half) \in ReplayHalves /\ OtherHalf(replay.half) # "done"
    BY DEF OtherHalf, ReplayHalves
<1>4. /\ replay' \in [half : ReplayHalves \cup {"done"}, at : Nat \ {0}, done : SUBSET ReplayHalves,
                      offsets : [PartitionKey -> GroupHeld], upto : Nat]
      /\ replay'.half # "done" /\ replay'.at = 1 /\ replay'.done = {} /\ replay'.offsets = replay.offsets
    BY <1>1, <1>2, <1>3
<1>5. GroupLogType'
    BY <1>1, <1>4 DEF GroupLogType
<1>6. (\A w \in Writer : write[w].pc = "idle") /\ ReplaySound /\ AnsweredLogged
    BY <1>1, LoadingIdle
<1>7. WritesSound'
    <2>1. nextSeq' <= Len(glog')
        BY <1>1 DEF GroupLogInv, WritesSound
    <2>2. QED
        BY <1>1, <1>6, <2>1, LoadingWrites
<1>8. AnsweredLogged'
    BY <1>1, <1>6 DEF AnsweredLogged
<1>9. ReplaySound'
    <2>1. GroupAt = 0 /\ GroupAt' = 0 /\ OffsetsAt' = 0
        BY <1>1, <1>4 DEF GroupAt, OffsetsAt
    <2>2. QED
        BY <1>1, <1>4, <1>6, <2>1, NothingHeldSound DEF ReplaySound
<1>10. ServedSound'
    BY <1>1 DEF ServedSound
<1>11. QED
    BY <1>5, <1>7, <1>8, <1>9, <1>10 DEF GroupLogInv

(* The page read at a place of the log.                                    *)
LEMMA PageIs ==
    ASSUME glog \in Seq(GroupRecords), NEW place \in Nat \ {0}, place <= Len(glog) + 1,
           NEW page, page = ReplayPage(place)
    PROVE  /\ Len(page) \in Nat
           /\ (place - 1) + Len(page) <= Len(glog)
           /\ \A i \in 1 .. Len(page) : page[i] = glog[(place - 1) + i]
           /\ LastPage(page) => (place - 1) + Len(page) = Len(glog)
<1> DEFINE m == IF place + REPLAY_PAGE - 1 < Len(glog) THEN place + REPLAY_PAGE - 1 ELSE Len(glog)
<1>1. REPLAY_PAGE \in Nat \ {0} /\ Len(glog) \in Nat
    BY GroupLogAssumption
<1>2. page = SubSeq(glog, place, m)
    BY DEF ReplayPage
<1>3. m \in Nat /\ m <= Len(glog) /\ m >= place - 1 /\ (m = Len(glog) \/ m - place + 1 = REPLAY_PAGE)
    BY <1>1
<1> HIDE DEF m
<1>4. Len(page) = m - place + 1
    BY <1>1, <1>2, <1>3
<1>5. \A i \in 1 .. Len(page) : page[i] = glog[(place - 1) + i]
    BY <1>1, <1>2, <1>3, <1>4
<1>6. QED
    BY <1>1, <1>3, <1>4, <1>5 DEF LastPage

(* A half that is done.                                                    *)
ReplayTyped == [half : ReplayHalves \cup {"done"}, at : Nat \ {0}, done : SUBSET ReplayHalves,
                offsets : [PartitionKey -> GroupHeld], upto : Nat]

LEMMA HalfDoneIs ==
    ASSUME replay \in ReplayTyped, replay.half \in ReplayHalves, NEW now, now = HalfDone
    PROVE  /\ now \in ReplayTyped
           /\ now.at = 1 /\ now.offsets = replay.offsets /\ now.done = replay.done \cup {replay.half}
           /\ now.half = IF replay.done = {} THEN OtherHalf(replay.half) ELSE "done"
<1> DEFINE h == IF replay.done = {} THEN OtherHalf(replay.half) ELSE "done"
           d == replay.done \cup {replay.half}
<1>1. h \in ReplayHalves \cup {"done"}
    BY DEF OtherHalf, ReplayHalves
<1>2. d \in SUBSET ReplayHalves
    BY DEF ReplayTyped
<1>3. now = [replay EXCEPT !.done = d, !.at = 1, !.half = h]
    BY DEF HalfDone
<1> HIDE DEF h, d
<1>4. now = [half |-> h, at |-> 1, done |-> d, offsets |-> replay.offsets, upto |-> replay.upto]
    BY <1>3 DEF ReplayTyped
<1>5. replay.offsets \in [PartitionKey -> GroupHeld] /\ replay.upto \in Nat /\ 1 \in Nat \ {0}
    BY DEF ReplayTyped
<1>6. /\ now \in ReplayTyped
      /\ now.at = 1 /\ now.offsets = replay.offsets /\ now.done = d /\ now.half = h
    BY <1>1, <1>2, <1>4, <1>5 DEF ReplayTyped
<1>7. QED
    BY <1>6 DEF h, d

LEMMA ReplayOffsetsKeeps ==
    ASSUME GroupLogType, GroupLogInv, ReplayOffsets
    PROVE  GroupLogType' /\ GroupLogInv'
<1> DEFINE page == ReplayPage(replay.at)
           built == FoldOffsets(replay.offsets, replay.at, page)
<1>1. /\ glog' = glog /\ nextSeq' = Len(glog) /\ record' = record
      /\ write' = write /\ ready' = ready /\ answered' = answered
      /\ ~ ready /\ replay.half = "offsets"
      /\ LastPage(page) => offsets' = built /\ replay' = HalfDone
      /\ ~ LastPage(page) => /\ replay' = [replay EXCEPT !.at = replay.at + Len(page), !.offsets = built]
                             /\ offsets' = offsets
    BY DEF ReplayOffsets
<1>2. /\ replay \in ReplayTyped /\ glog \in Seq(GroupRecords) /\ Len(glog) \in Nat
      /\ offsets \in [PartitionKey -> GroupHeld]
    BY DEF GroupLogType, ReplayTyped
<1>3. replay.at \in Nat \ {0} /\ replay.offsets \in [PartitionKey -> GroupHeld] /\ replay.done \subseteq ReplayHalves
    BY <1>2 DEF ReplayTyped
<1>4. (\A w \in Writer : write[w].pc = "idle") /\ ReplaySound /\ AnsweredLogged
    BY <1>1, LoadingIdle
<1>5. /\ "offsets" \notin replay.done /\ replay.at <= Len(glog) + 1
      /\ HeldIsLogged(replay.offsets, glog) /\ Covers(replay.offsets, glog, OffsetsAt)
      /\ record = Tell(glog, GroupAt)
    BY <1>1, <1>4 DEF ReplaySound
<1>6. /\ Len(page) \in Nat
      /\ (replay.at - 1) + Len(page) <= Len(glog)
      /\ \A i \in 1 .. Len(page) : page[i] = glog[(replay.at - 1) + i]
      /\ LastPage(page) => (replay.at - 1) + Len(page) = Len(glog)
    BY <1>2, <1>3, <1>5, PageIs
<1>7. Covered(replay.offsets, glog, replay.at - 1)
    <2>1. OffsetsAt = replay.at - 1
        BY <1>1 DEF OffsetsAt
    <2>2. QED
        BY <1>3, <1>5, <2>1 DEF Covered
<1> HIDE DEF page
<1>8. Covered(built, glog, (replay.at - 1) + Len(page))
    BY <1>2, <1>3, <1>6, <1>7, PageCovered
<1> HIDE DEF built
<1>9. built \in [PartitionKey -> GroupHeld] /\ HeldIsLogged(built, glog)
    BY <1>8 DEF Covered
<1>10. WritesSound'
    BY <1>1, <1>2, <1>4, LoadingWrites
<1>11. AnsweredLogged'
    BY <1>1, <1>4 DEF AnsweredLogged
<1>12. ServedSound'
    BY <1>1 DEF ServedSound
<1>13. CASE LastPage(page)
    <2>1. replay.half \in ReplayHalves
        BY <1>1 DEF ReplayHalves
    <2>2. /\ replay' \in ReplayTyped
          /\ replay'.at = 1 /\ replay'.offsets = replay.offsets /\ replay'.done = replay.done \cup {"offsets"}
          /\ replay'.half = IF replay.done = {} THEN OtherHalf("offsets") ELSE "done"
        BY <1>1, <1>2, <1>13, <2>1, HalfDoneIs
    <2>3. GroupLogType'
        BY <1>1, <1>2, <1>9, <1>13, <2>2 DEF GroupLogType, ReplayTyped
    <2>4. HeldIsLogged(offsets', glog) /\ Covers(offsets', glog, Len(glog))
        BY <1>1, <1>6, <1>8, <1>13 DEF Covered
    <2>5. replay.done = {} \/ replay.done = {"transitions"}
        BY <1>3, <1>5 DEF ReplayHalves
    <2>6. ReplaySound'
        <3>1. CASE replay.done = {}
            <4>1. replay'.half = "transitions" /\ replay'.done = {"offsets"}
                BY <2>2, <3>1 DEF OtherHalf
            <4>2. GroupAt = 0 /\ GroupAt' = 0
                BY <1>1, <2>2, <3>1, <4>1 DEF GroupAt
            <4>3. QED
                BY <1>1, <1>2, <1>5, <2>2, <2>4, <4>1, <4>2 DEF ReplaySound
        <3>2. CASE replay.done = {"transitions"}
            <4>1. replay'.half = "done" /\ replay'.done = ReplayHalves /\ "done" \notin ReplayHalves
                  /\ "transitions" \in replay'.done /\ "offsets" \in replay'.done
                BY <2>2, <3>2 DEF ReplayHalves
            <4>2. GroupAt = Len(glog) /\ GroupAt' = Len(glog)
                BY <1>1, <3>2, <4>1 DEF GroupAt
            <4>3. QED
                BY <1>1, <1>2, <1>5, <2>2, <2>4, <4>1, <4>2 DEF ReplaySound
        <3>3. QED
            BY <2>5, <3>1, <3>2
    <2>7. QED
        BY <1>10, <1>11, <1>12, <2>3, <2>6 DEF GroupLogInv
<1>14. CASE ~ LastPage(page)
    <2>1. replay.at + Len(page) \in Nat \ {0}
        BY <1>3, <1>6
    <2>2. /\ replay' \in ReplayTyped
          /\ replay'.at = replay.at + Len(page) /\ replay'.offsets = built
          /\ replay'.done = replay.done /\ replay'.half = "offsets"
        BY <1>1, <1>2, <1>9, <1>14, <2>1 DEF ReplayTyped
    <2>3. GroupLogType'
        BY <1>1, <1>2, <1>14, <2>2 DEF GroupLogType, ReplayTyped
    <2>4. OffsetsAt' = (replay.at - 1) + Len(page)
        BY <1>3, <1>6, <2>2 DEF OffsetsAt
    <2>5. GroupAt' = GroupAt
        BY <1>1, <2>2 DEF GroupAt
    <2>6. replay'.at <= Len(glog) + 1
        BY <1>2, <1>3, <1>6, <2>2
    <2>7. Covers(built, glog, OffsetsAt')
        BY <1>8, <2>4 DEF Covered
    <2>8. ReplaySound'
        BY <1>1, <1>5, <1>9, <2>2, <2>5, <2>6, <2>7 DEF ReplaySound
    <2>9. QED
        BY <1>10, <1>11, <1>12, <2>3, <2>8 DEF GroupLogInv
<1>15. QED
    BY <1>13, <1>14

LEMMA ReplayTransitionsKeeps ==
    ASSUME GroupLogType, GroupLogInv, ReplayTransitions
    PROVE  GroupLogType' /\ GroupLogInv'
<1> DEFINE page == ReplayPage(replay.at)
<1>1. /\ glog' = glog /\ nextSeq' = Len(glog) /\ offsets' = offsets
      /\ write' = write /\ ready' = ready /\ answered' = answered
      /\ ~ ready /\ replay.half = "transitions" /\ record' = FoldGroup(record, page)
      /\ LastPage(page) => replay' = HalfDone
      /\ ~ LastPage(page) => replay' = [replay EXCEPT !.at = replay.at + Len(page)]
    BY DEF ReplayTransitions
<1>2. /\ replay \in ReplayTyped /\ glog \in Seq(GroupRecords) /\ Len(glog) \in Nat
      /\ offsets \in [PartitionKey -> GroupHeld]
    BY DEF GroupLogType, ReplayTyped
<1>3. replay.at \in Nat \ {0} /\ replay.done \subseteq ReplayHalves
    BY <1>2 DEF ReplayTyped
<1>4. (\A w \in Writer : write[w].pc = "idle") /\ ReplaySound /\ AnsweredLogged
    BY <1>1, LoadingIdle
<1>5. /\ "transitions" \notin replay.done /\ replay.at <= Len(glog) + 1
      /\ HeldIsLogged(replay.offsets, glog)
      /\ "offsets" \in replay.done => HeldIsLogged(offsets, glog) /\ Covers(offsets, glog, Len(glog))
      /\ record = Tell(glog, GroupAt)
    BY <1>1, <1>4 DEF ReplaySound
<1>6. /\ Len(page) \in Nat
      /\ (replay.at - 1) + Len(page) <= Len(glog)
      /\ \A i \in 1 .. Len(page) : page[i] = glog[(replay.at - 1) + i]
      /\ LastPage(page) => (replay.at - 1) + Len(page) = Len(glog)
    BY <1>2, <1>3, <1>5, PageIs
<1> HIDE DEF page
<1>7. record' = Tell(glog, (replay.at - 1) + Len(page))
    <2>1. GroupAt = replay.at - 1 /\ replay.at - 1 \in Nat
        BY <1>1, <1>3, <1>5 DEF GroupAt
    <2>2. record = Tell(glog, replay.at - 1)
        BY <1>5, <2>1
    <2>3. QED
        BY <1>1, <1>6, <2>1, <2>2, PageTold
<1>8. WritesSound'
    BY <1>1, <1>2, <1>4, LoadingWrites
<1>9. AnsweredLogged'
    BY <1>1, <1>4 DEF AnsweredLogged
<1>10. ServedSound'
    BY <1>1 DEF ServedSound
<1>11. CASE LastPage(page)
    <2>1. replay.half \in ReplayHalves
        BY <1>1 DEF ReplayHalves
    <2>2. /\ replay' \in ReplayTyped
          /\ replay'.at = 1 /\ replay'.offsets = replay.offsets /\ replay'.done = replay.done \cup {"transitions"}
          /\ replay'.half = IF replay.done = {} THEN OtherHalf("transitions") ELSE "done"
        BY <1>1, <1>2, <1>11, <2>1, HalfDoneIs
    <2>3. GroupLogType'
        BY <1>1, <1>2, <2>2 DEF GroupLogType, ReplayTyped
    <2>4. record' = Tell(glog, Len(glog)) /\ GroupAt' = Len(glog)
        BY <1>1, <1>6, <1>7, <1>11, <2>2 DEF GroupAt
    <2>5. replay.done = {} \/ replay.done = {"offsets"}
        BY <1>3, <1>5 DEF ReplayHalves
    <2>6. ReplaySound'
        <3>1. CASE replay.done = {}
            <4>1. replay'.half = "offsets" /\ replay'.done = {"transitions"} /\ OffsetsAt' = 0
                BY <2>2, <3>1 DEF OtherHalf, OffsetsAt
            <4>2. QED
                BY <1>1, <1>2, <1>5, <2>2, <2>4, <4>1, NothingHeldSound DEF ReplaySound
        <3>2. CASE replay.done = {"offsets"}
            <4>1. replay'.half = "done" /\ replay'.done = ReplayHalves /\ "done" \notin ReplayHalves
                  /\ "transitions" \in replay'.done /\ "offsets" \in replay'.done
                BY <2>2, <3>2 DEF ReplayHalves
            <4>2. QED
                BY <1>1, <1>2, <1>5, <2>2, <2>4, <3>2, <4>1 DEF ReplaySound
        <3>3. QED
            BY <2>5, <3>1, <3>2
    <2>7. QED
        BY <1>8, <1>9, <1>10, <2>3, <2>6 DEF GroupLogInv
<1>12. CASE ~ LastPage(page)
    <2>1. replay.at + Len(page) \in Nat \ {0}
        BY <1>3, <1>6
    <2>2. /\ replay' \in ReplayTyped
          /\ replay'.at = replay.at + Len(page) /\ replay'.offsets = replay.offsets
          /\ replay'.done = replay.done /\ replay'.half = "transitions"
        BY <1>1, <1>2, <1>12, <2>1 DEF ReplayTyped
    <2>3. GroupLogType'
        BY <1>1, <1>2, <2>2 DEF GroupLogType, ReplayTyped
    <2>4. OffsetsAt' = 0
        BY <2>2 DEF OffsetsAt
    <2>5. GroupAt' = (replay.at - 1) + Len(page)
        BY <1>3, <1>5, <1>6, <2>2 DEF GroupAt
    <2>6. replay'.at <= Len(glog) + 1
        BY <1>2, <1>3, <1>6, <2>2
    <2>7. ReplaySound'
        BY <1>1, <1>5, <1>7, <2>2, <2>4, <2>5, <2>6, NothingHeldSound DEF ReplaySound
    <2>8. QED
        BY <1>8, <1>9, <1>10, <2>3, <2>7 DEF GroupLogInv
<1>13. QED
    BY <1>11, <1>12

(* What was acknowledged is in the log, so it is among what is replayed.   *)
LEMMA MarkReadyKeeps ==
    ASSUME GroupLogType, GroupLogInv, MarkReady
    PROVE  GroupLogType' /\ GroupLogInv'
<1>1. /\ glog' = glog /\ nextSeq' = nextSeq /\ offsets' = offsets /\ record' = Handed(record)
      /\ write' = write /\ ready' = TRUE /\ answered' = answered
      /\ ~ ready /\ replay.half = "done" /\ replay' = [Booting EXCEPT !.half = "done", !.upto = nextSeq]
    BY DEF MarkReady
<1>2. /\ replay \in ReplayTyped /\ glog \in Seq(GroupRecords) /\ Len(glog) \in Nat
      /\ offsets \in [PartitionKey -> GroupHeld] /\ nextSeq \in Nat /\ answered \in [PartitionKey -> Nat]
    BY DEF GroupLogType, ReplayTyped
<1>3. (\A w \in Writer : write[w].pc = "idle") /\ ReplaySound /\ AnsweredLogged
    BY <1>1, LoadingIdle
<1>4. "offsets" \in replay.done /\ "transitions" \in replay.done
    BY <1>1, <1>3 DEF ReplaySound, ReplayHalves
<1>5. /\ nextSeq = Len(glog) /\ HeldIsLogged(offsets, glog) /\ Covers(offsets, glog, Len(glog))
      /\ record = Tell(glog, Len(glog))
    BY <1>1, <1>3, <1>4 DEF ReplaySound, GroupAt
<1>6. replay' \in ReplayTyped /\ replay'.upto = nextSeq
    <2>1. Booting \in ReplayTyped
        <3>1. Booting.offsets \in [PartitionKey -> GroupHeld]
            BY NothingHeldSound DEF Booting, NothingHeld
        <3>2. QED
            BY <3>1 DEF Booting, ReplayTyped, ReplayHalves
    <2>2. QED
        BY <1>1, <1>2, <2>1 DEF ReplayTyped
<1>7. GroupLogType'
    BY <1>1, <1>6 DEF GroupLogType, ReplayTyped
<1>8. WritesSound'
    <2>1. nextSeq' <= Len(glog') /\ Len(glog') <= nextSeq' + 1
        BY <1>1, <1>2, <1>5
    <2>2. QED
        BY <1>1, <1>3, <2>1 DEF WritesSound, Writing
<1>9. AnsweredLogged'
    BY <1>1, <1>3 DEF AnsweredLogged
<1>10. ReplaySound'
    BY <1>1 DEF ReplaySound
<1>11. ServedSound'
    <2>1. ASSUME NEW k \in PartitionKey PROVE offsets[k].version >= answered[k]
        <3>1. offsets[k].version \in Nat /\ answered[k] \in Nat
            BY <1>2 DEF GroupHeld
        <3>2. CASE answered[k] = 0
            BY <3>1, <3>2
        <3>3. CASE answered[k] > 0
            <4>1. /\ answered[k] \in 1 .. Len(glog)
                  /\ glog[answered[k]].kind = "offset" /\ glog[answered[k]].key = k
                BY <1>2, <1>3, <3>1, <3>3 DEF AnsweredLogged
            <4>2. QED
                BY <1>5, <4>1 DEF Covers
        <3>4. QED
            BY <3>1, <3>2, <3>3
    <2>2. write[TransitionsTask].pc # "apply"
        BY <1>3 DEF Writer
    <2>3. Live(glog, nextSeq, nextSeq) = Handed(record)
        BY <1>2, <1>5, LiveStarts
    <2>4. replay'.upto <= nextSeq'
        BY <1>1, <1>2, <1>6
    <2>5. QED
        BY <1>1, <1>5, <1>6, <2>1, <2>2, <2>3, <2>4 DEF ServedSound
<1>12. QED
    BY <1>7, <1>8, <1>9, <1>10, <1>11 DEF GroupLogInv

LEMMA GroupLogInitial ==
    ASSUME GroupLogInit
    PROVE  GroupLogType /\ GroupLogInv
<1>1. /\ glog \in Seq(GroupRecords) /\ nextSeq = 0 /\ offsets = NothingHeld /\ record = FreshRecord
      /\ ready = FALSE /\ write = [w \in Writer |-> IdleWrite]
      /\ answered = [k \in PartitionKey |-> 0]
    BY GroupLogAssumption DEF GroupLogInit, NothingHeld
<1>2. /\ replay = [half |-> "offsets", at |-> 1, done |-> {}, offsets |-> NothingHeld, upto |-> 0]
      /\ replay.half = "offsets" /\ replay.at = 1 /\ replay.done = {} /\ replay.offsets = NothingHeld
    BY DEF GroupLogInit, Booting, NothingHeld
<1>3. GroupLogType
    <2>1. replay \in [half : ReplayHalves \cup {"done"}, at : Nat \ {0}, done : SUBSET ReplayHalves,
                      offsets : [PartitionKey -> GroupHeld], upto : Nat]
        BY <1>2, NothingHeldSound DEF ReplayHalves
    <2>2. write \in [Writer -> WriteInHand]
        BY <1>1, IdleTyped
    <2>3. QED
        BY <1>1, <2>1, <2>2, NothingHeldSound DEF GroupLogType
<1>4. WritesSound
    <2>1. \A w \in Writer : write[w].pc = "idle"
        BY <1>1, IdleTyped
    <2>2. nextSeq <= Len(glog)
        BY <1>1
    <2>3. QED
        BY <1>1, <2>1, <2>2 DEF WritesSound, Writing
<1>5. AnsweredLogged
    BY <1>1 DEF AnsweredLogged
<1>6. ReplaySound
    <2>1. GroupAt = 0 /\ OffsetsAt = 0
        BY <1>2 DEF GroupAt, OffsetsAt
    <2>2. record = Tell(glog, 0)
        BY <1>1, TellNone
    <2>3. replay.at <= Len(glog) + 1
        BY <1>1, <1>2
    <2>4. QED
        BY <1>1, <1>2, <2>1, <2>2, <2>3, NothingHeldSound DEF ReplaySound
<1>7. ServedSound
    BY <1>1 DEF ServedSound
<1>8. QED
    BY <1>3, <1>4, <1>5, <1>6, <1>7 DEF GroupLogInv

LEMMA GroupLogSteps ==
    ASSUME GroupLogType, GroupLogInv, [GroupLogNext]_groupLogVars
    PROVE  GroupLogType' /\ GroupLogInv'
<1>1. CASE UNCHANGED groupLogVars
    <2>1. /\ glog' = glog /\ nextSeq' = nextSeq /\ offsets' = offsets /\ record' = record
          /\ replay' = replay /\ ready' = ready /\ write' = write /\ answered' = answered
        BY <1>1 DEF groupLogVars
    <2>2. GroupLogType'
        BY <2>1 DEF GroupLogType
    <2>3. GroupAt' = GroupAt /\ OffsetsAt' = OffsetsAt
        BY <2>1 DEF GroupAt, OffsetsAt
    <2>4. WritesSound' /\ AnsweredLogged'
        BY <2>1 DEF GroupLogInv, WritesSound, AnsweredLogged
    <2>5. ReplaySound' /\ ServedSound'
        BY <2>1, <2>3 DEF GroupLogInv, ReplaySound, ServedSound
    <2>6. QED
        BY <2>2, <2>4, <2>5 DEF GroupLogInv
<1>2. CASE OpenFails \/ ReplayOffsets \/ ReplayTransitions \/ MarkReady \/ ActorApplies \/ Reboot
    BY <1>2, OpenFailsKeeps, ReplayOffsetsKeeps, ReplayTransitionsKeeps, MarkReadyKeeps,
       ActorAppliesKeeps, RebootKeeps
<1>3. CASE \E c \in Committer, keys \in Requested : OffsetCommit(c, keys)
    BY <1>3, OffsetCommitKeeps
<1>4. CASE \E c \in Committer : Acknowledge(c)
    BY <1>4, AcknowledgeKeeps
<1>5. CASE \E e \in GroupEvents : ActorTakes(GroupTransitioned(e))
    <2>1. PICK e \in GroupEvents : ActorTakes(GroupTransitioned(e))
        BY <1>5
    <2>2. GroupTransitioned(e) \in GroupRecords
        BY DEF GroupRecords
    <2>3. QED
        BY <2>1, <2>2, ActorTakesKeeps
<1>6. CASE ActorTakes(GroupRosterUpdated("members"))
    <2>1. GroupRosterUpdated("members") \in GroupRecords
        BY DEF GroupRecords
    <2>2. QED
        BY <1>6, <2>1, ActorTakesKeeps
<1>7. CASE \E w \in Writer : LastVersion(w) \/ NonMonotonic(w) \/ Sends(w) \/ GroupPuts(w)
                             \/ PreconditionFailed(w) \/ Advances(w)
    BY <1>7, LastVersionKeeps, NonMonotonicKeeps, SendsKeeps, GroupPutsKeeps,
       PreconditionFailedKeeps, AdvancesKeeps
<1>8. CASE \E w \in Writer, b \in BOOLEAN : PutFails(w, b)
    BY <1>8, PutFailsKeeps
<1>9. QED
    BY <1>1, <1>2, <1>3, <1>4, <1>5, <1>6, <1>7, <1>8 DEF GroupLogNext

LEMMA GroupLogInvServes ==
    ASSUME GroupLogType, GroupLogInv
    PROVE  GroupsServed
<1>1. glog \in Seq(GroupRecords) /\ Len(glog) \in Nat
    BY DEF GroupLogType
<1>2. ready => /\ \A k \in PartitionKey : offsets[k].version >= answered[k]
               /\ HeldIsLogged(offsets, glog)
    BY DEF GroupLogInv, ServedSound
<1>3. OffsetsServed
    BY <1>2 DEF OffsetsServed, OffsetFetch, HeldIsLogged
<1>4. GroupRestored
    <2>1. SUFFICES ASSUME Current PROVE record = Since(replay.upto) /\ (~Told.poisoned => record = Told)
        BY DEF GroupRestored
    <2>2. /\ ready /\ nextSeq = Len(glog)
          /\ replay.upto \in Nat /\ replay.upto <= Len(glog)
          /\ record = Live(glog, replay.upto, Len(glog))
        BY <2>1 DEF Current, GroupLogType, GroupLogInv, ServedSound
    <2>3. record = Since(replay.upto)
        BY <1>1, <2>2, SinceIs
    <2>4. ASSUME ~Told.poisoned PROVE record = Told
        BY <1>1, <2>2, <2>4, ToldIs, LiveTold
    <2>5. QED
        BY <2>3, <2>4
<1>5. QED
    BY <1>3, <1>4 DEF GroupsServed

(* offset_fetch and the group's handlers serve what the group log says,    *)
(* whoever appends to it at once, whichever writes fail or land unseen,    *)
(* and however often the process restarts: an acknowledged commit is given *)
(* back, or a later one the log holds; and once the process knows all of   *)
(* the log, the record of the group is what its replay handed over with    *)
(* every event since applied, which is the fold of the whole log unless an *)
(* event of it was refused. For every set of committers and keys, page     *)
(* size, retry limit and log booted over.                                  *)
THEOREM GroupLogServes == GroupLogSpec => []GroupsServed
<1>1. GroupLogInit => GroupLogType /\ GroupLogInv
    BY GroupLogInitial
<1>2. (GroupLogType /\ GroupLogInv) /\ [GroupLogNext]_groupLogVars => (GroupLogType /\ GroupLogInv)'
    BY GroupLogSteps
<1>3. GroupLogType /\ GroupLogInv => GroupsServed
    BY GroupLogInvServes
<1>4. QED
    BY <1>1, <1>2, <1>3, PTL DEF GroupLogSpec
=============================================================================
