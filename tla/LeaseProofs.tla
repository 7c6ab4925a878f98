----------------------------- MODULE LeaseProofs -----------------------------
(***************************************************************************)
(* What rests on a clock, and the tokens the lease's writes are            *)
(* conditional on: the lease's safety for every set of nodes, every TTL    *)
(* and every skew, the rate governor's for every policy, and the store's   *)
(* conditional writes for every backend.                                   *)
(***************************************************************************)
EXTENDS Lease, RateGovernor, StoreAdapter, FiniteSetTheorems, TLAPS

(* Under Contiguous, Newest is what its name says, and -1 before any term. *)
LEMMA NewestIs ==
    ASSUME TypeOK, Contiguous
    PROVE  /\ Newest \in MaybeTerm
           /\ \A t \in Term : Exists(t) <=> t <= Newest
<1> USE LeaseAssumption
<1>1. PICK k \in MaybeTerm : \A t \in Term : Exists(t) <=> t <= k
  BY DEF Contiguous
<1>2. CASE k = -1
  BY <1>1, <1>2 DEF Newest, Term, MaybeTerm
<1>3. CASE k \in Term
  <2>1. Exists(k) /\ \A u \in Term : Exists(u) => u <= k
    BY <1>1, <1>3 DEF Term
  <2>2. \A t \in Term : (Exists(t) /\ \A u \in Term : Exists(u) => u <= t) => t = k
    BY <2>1, <1>3 DEF Term
  <2>3. Newest = k
    BY <2>1, <2>2, <1>3 DEF Newest
  <2> QED
    BY <2>3, <1>1, <1>3
<1> QED
  BY <1>2, <1>3 DEF MaybeTerm, Term

(* No node holds anything and no term exists: the invariant holds at the   *)
(* start.                                                                  *)
THEOREM InitEstablishes == Init => LeaseInv
<1> SUFFICES ASSUME Init PROVE LeaseInv
  OBVIOUS
<1> USE LeaseAssumption DEF Init
<1>1. TypeOK
  BY DEF TypeOK, Term, MaybeTerm, Time
<1>2. ClocksAgree
  BY DEF ClocksAgree
<1>3. Contiguous
  BY DEF Contiguous, Exists, Term, MaybeTerm
<1>4. \A n \in Node : HeldRecorded(n) /\ OpRecorded(n)
  BY DEF HeldRecorded, OpRecorded
<1>5. \A p \in late : LateRecorded(p)
  OBVIOUS
<1>6. SuccessorWaited
  BY DEF SuccessorWaited, Claimed, Exists, Term
<1> QED
  BY <1>1, <1>2, <1>3, <1>4, <1>5, <1>6 DEF LeaseInv

(* A clock advances: deadlines pass, none comes back (is_held).            *)
LEMMA TickKeeps ==
    ASSUME LeaseInv, NEW n \in Node, Tick(n)
    PROVE  LeaseInv'
<1> USE LeaseAssumption DEF LeaseInv
<1>1. TypeOK'
  <2>1. clock' \in [Node -> 0 .. MaxTime]
    BY SMTT(30) DEF Tick, TypeOK, Term, MaybeTerm, Time
  <2>2. asleep' \in [Node -> BOOLEAN]
    BY DEF Tick, TypeOK, Term, MaybeTerm, Time
  <2> QED
    BY <2>1, <2>2 DEF TypeOK, Tick, objects, heldVars, opVars, taskVars
<1>2. ClocksAgree'
  BY DEF ClocksAgree, TypeOK, Tick, objects, heldVars, opVars, taskVars
<1>3. Contiguous'
  BY DEF Contiguous, Exists, Tick, objects, heldVars, opVars, taskVars
<1>4. \A m \in Node : HeldRecorded(m)'
  BY DEF HeldRecorded, OpRecorded, TypeOK, Term, MaybeTerm, Time, Tick, objects, heldVars, opVars, taskVars
<1>5. \A m \in Node : OpRecorded(m)'
  <2> SUFFICES ASSUME NEW m \in Node PROVE OpRecorded(m)'
    OBVIOUS
  <2>1. CASE m = n
    <3>1. clock'[m] = clock[m] + 1 /\ clock[m] \in Nat /\ started[m] \in Nat
           /\ token[m] \in Nat /\ until[m] \in Nat
      BY <2>1 DEF Tick, TypeOK, Time
    <3> QED
      BY <3>1 DEF OpRecorded, Exists, Tick, objects, heldVars, opVars, taskVars
  <2>2. CASE m # n
    BY <2>2 DEF OpRecorded, Exists, TypeOK, Tick, objects, heldVars, opVars, taskVars
  <2> QED
    BY <2>1, <2>2
<1>6. \A p \in late' : LateRecorded(p)'
  BY DEF LateRecorded, Exists, Tick, objects, heldVars, opVars, taskVars
<1>7. SuccessorWaited'
  <2> SUFFICES ASSUME NEW u \in Term, u < MaxTerm, Claimed(u + 1)', NEW m \in Node
               PROVE  Spent(m, u)'
    BY DEF SuccessorWaited
  <2>1. Claimed(u + 1)
    BY DEF Claimed, Exists, Tick, objects, heldVars, opVars, taskVars
  <2>2. Spent(m, u)
    BY <2>1 DEF SuccessorWaited
  <2>3. clock'[m] >= clock[m] /\ clock[m] \in Nat /\ clock'[m] \in Nat
    BY DEF Tick, TypeOK
  <2>4. until[m] \in Nat /\ started[m] \in Nat
    BY DEF TypeOK, Time
  <2> QED
    BY <2>2, <2>3, <2>4 DEF Spent, Tick, objects, heldVars, opVars, taskVars
<1> QED
  BY <1>1, <1>2, <1>3, <1>4, <1>5, <1>6, <1>7

(* acquire reads the clock and begins its search.                          *)
LEMMA AcquireStartKeeps ==
    ASSUME LeaseInv, NEW n \in Node, AcquireStart(n)
    PROVE  LeaseInv'
<1> USE LeaseAssumption DEF LeaseInv
<1>1. TypeOK'
  <2>1. pc' \in [Node -> {"idle", "search", "claim", "claimed", "refused", "look", "renew", "renewed"}]
    BY DEF AcquireStart, Calls, TypeOK, Term, MaybeTerm, Time
  <2>2. started' \in [Node -> 0 .. MaxTime]
    BY DEF AcquireStart, Calls, TypeOK, Term, MaybeTerm, Time
  <2>3. target' \in [Node -> MaybeTerm]
    BY NewestIs DEF AcquireStart, Calls, TypeOK, Term, MaybeTerm, Time
  <2> QED
    BY <2>1, <2>2, <2>3 DEF TypeOK, AcquireStart, Calls, objects, heldVars, opVars, taskVars
<1>2. ClocksAgree'
  BY DEF ClocksAgree, TypeOK, AcquireStart, Calls, objects, heldVars, opVars, taskVars
<1>3. Contiguous'
  BY DEF Contiguous, Exists, AcquireStart, Calls, objects, heldVars, opVars, taskVars
<1>4. \A m \in Node : HeldRecorded(m)'
  BY DEF HeldRecorded, OpRecorded, TypeOK, Term, MaybeTerm, Time, AcquireStart, Calls, objects, heldVars, opVars, taskVars
<1>5. \A m \in Node : OpRecorded(m)'
  <2> SUFFICES ASSUME NEW m \in Node PROVE OpRecorded(m)'
    OBVIOUS
  <2>1. CASE m = n
    <3>1. started'[m] = clock[m] /\ pc'[m] = "search" /\ clock[m] \in Nat /\ until[m] \in Nat
      BY <2>1 DEF AcquireStart, TypeOK, Time
    <3>2. phase[m] # "renew" /\ until[m] <= clock[m]
      BY <2>1, <3>1 DEF AcquireStart, Calls, IsHeld, OpRecorded
    <3> QED
      BY <3>1, <3>2 DEF OpRecorded, AcquireStart, Calls, objects, heldVars, opVars, taskVars
  <2>2. CASE m # n
    BY <2>2 DEF OpRecorded, Exists, TypeOK, AcquireStart, Calls, objects, heldVars, opVars, taskVars
  <2> QED
    BY <2>1, <2>2
<1>6. \A p \in late' : LateRecorded(p)'
  BY DEF LateRecorded, Exists, AcquireStart, Calls, objects, heldVars, opVars, taskVars
<1>7. SuccessorWaited'
  <2> SUFFICES ASSUME NEW u \in Term, u < MaxTerm, Claimed(u + 1)', NEW m \in Node
               PROVE  Spent(m, u)'
    BY DEF SuccessorWaited
  <2>1. Claimed(u + 1)
    BY DEF Claimed, Exists, TypeOK, Term, AcquireStart, Calls, objects, heldVars, opVars, taskVars
  <2>2. Spent(m, u)
    BY <2>1 DEF SuccessorWaited
  <2> QED
    BY <2>2 DEF Spent, TypeOK, Term, Time, AcquireStart, Calls, objects, heldVars, opVars, taskVars
<1> QED
  BY <1>1, <1>2, <1>3, <1>4, <1>5, <1>6, <1>7

(* keep_lease goes straight to renewing what boot acquired.                *)
LEMMA AlreadyHeldKeeps ==
    ASSUME LeaseInv, NEW n \in Node, AlreadyHeld(n)
    PROVE  LeaseInv'
<1> USE LeaseAssumption DEF LeaseInv
<1>1. TypeOK'
  <2>1. pc' \in [Node -> {"idle", "search", "claim", "claimed", "refused", "look", "renew", "renewed"}]
    BY DEF AlreadyHeld, Finish, Calls, TypeOK, Term, MaybeTerm, Time
  <2>2. started' \in [Node -> 0 .. MaxTime]
    BY DEF AlreadyHeld, Finish, Calls, TypeOK, Term, MaybeTerm, Time
  <2>3. target' \in [Node -> MaybeTerm]
    BY DEF AlreadyHeld, Finish, Calls, TypeOK, Term, MaybeTerm, Time
  <2>4. phase' \in [Node -> {"boot", "claim", "renew"}]
    BY DEF AlreadyHeld, Finish, Calls, TypeOK, Term, MaybeTerm, Time
  <2>5. asleep' \in [Node -> BOOLEAN]
    BY DEF AlreadyHeld, Finish, Calls, TypeOK, Term, MaybeTerm, Time
  <2> QED
    BY <2>1, <2>2, <2>3, <2>4, <2>5 DEF TypeOK, AlreadyHeld, Finish, Calls, objects, heldVars, opVars, taskVars
<1>2. ClocksAgree'
  BY DEF ClocksAgree, TypeOK, AlreadyHeld, Finish, Calls, objects, heldVars, opVars, taskVars
<1>3. Contiguous'
  BY DEF Contiguous, Exists, AlreadyHeld, Finish, Calls, objects, heldVars, opVars, taskVars
<1>4. \A m \in Node : HeldRecorded(m)'
  BY DEF HeldRecorded, OpRecorded, TypeOK, Term, MaybeTerm, Time, AlreadyHeld, Finish, Calls, objects, heldVars, opVars, taskVars
<1>5. \A m \in Node : OpRecorded(m)'
  <2> SUFFICES ASSUME NEW m \in Node PROVE OpRecorded(m)'
    OBVIOUS
  <2>1. CASE m = n
    BY <2>1 DEF OpRecorded, HeldRecorded, IsHeld, Exists, TypeOK, Term, MaybeTerm, Time, AlreadyHeld, Finish, Calls, objects, heldVars, opVars, taskVars
  <2>2. CASE m # n
    BY <2>2 DEF OpRecorded, Exists, TypeOK, AlreadyHeld, Finish, Calls, objects, heldVars, opVars, taskVars
  <2> QED
    BY <2>1, <2>2
<1>6. \A p \in late' : LateRecorded(p)'
  BY DEF LateRecorded, Exists, AlreadyHeld, Finish, Calls, objects, heldVars, opVars, taskVars
<1>7. SuccessorWaited'
  <2> SUFFICES ASSUME NEW u \in Term, u < MaxTerm, Claimed(u + 1)', NEW m \in Node
               PROVE  Spent(m, u)'
    BY DEF SuccessorWaited
  <2>1. Claimed(u + 1)
    BY DEF Claimed, Exists, TypeOK, Term, AlreadyHeld, Finish, Calls, objects, heldVars, opVars, taskVars
  <2>2. Spent(m, u)
    BY <2>1 DEF SuccessorWaited
  <2> QED
    BY <2>2 DEF Spent, TypeOK, Term, Time, AlreadyHeld, Finish, Calls, objects, heldVars, opVars, taskVars
<1> QED
  BY <1>1, <1>2, <1>3, <1>4, <1>5, <1>6, <1>7

(* acquire found no term, and sends a claim of the first.                  *)
LEMMA AcquireFirstKeeps ==
    ASSUME LeaseInv, NEW n \in Node, AcquireFirst(n)
    PROVE  LeaseInv'
<1> USE LeaseAssumption DEF LeaseInv
<1>1. TypeOK'
  <2>1. pc' \in [Node -> {"idle", "search", "claim", "claimed", "refused", "look", "renew", "renewed"}]
    BY DEF AcquireFirst, TypeOK, Term, MaybeTerm, Time
  <2>2. target' \in [Node -> MaybeTerm]
    BY DEF AcquireFirst, TypeOK, Term, MaybeTerm, Time
  <2> QED
    BY <2>1, <2>2 DEF TypeOK, AcquireFirst, objects, heldVars, opVars, taskVars
<1>2. ClocksAgree'
  BY DEF ClocksAgree, TypeOK, AcquireFirst, objects, heldVars, opVars, taskVars
<1>3. Contiguous'
  BY DEF Contiguous, Exists, AcquireFirst, objects, heldVars, opVars, taskVars
<1>4. \A m \in Node : HeldRecorded(m)'
  BY DEF HeldRecorded, OpRecorded, TypeOK, Term, MaybeTerm, Time, AcquireFirst, objects, heldVars, opVars, taskVars
<1>5. \A m \in Node : OpRecorded(m)'
  <2> SUFFICES ASSUME NEW m \in Node PROVE OpRecorded(m)'
    OBVIOUS
  <2>1. CASE m = n
    BY <2>1 DEF OpRecorded, Exists, TypeOK, Term, MaybeTerm, Time, AcquireFirst, objects, heldVars, opVars, taskVars
  <2>2. CASE m # n
    BY <2>2 DEF OpRecorded, Exists, TypeOK, AcquireFirst, objects, heldVars, opVars, taskVars
  <2> QED
    BY <2>1, <2>2
<1>6. \A p \in late' : LateRecorded(p)'
  BY DEF LateRecorded, Exists, AcquireFirst, objects, heldVars, opVars, taskVars
<1>7. SuccessorWaited'
  <2> SUFFICES ASSUME NEW u \in Term, u < MaxTerm, Claimed(u + 1)', NEW m \in Node
               PROVE  Spent(m, u)'
    BY DEF SuccessorWaited
  <2>1. Claimed(u + 1)
    BY DEF Claimed, Exists, TypeOK, Term, AcquireFirst, objects, heldVars, opVars, taskVars
  <2>2. Spent(m, u)
    BY <2>1 DEF SuccessorWaited
  <2> QED
    BY <2>2 DEF Spent, TypeOK, Term, Time, AcquireFirst, objects, heldVars, opVars, taskVars
<1> QED
  BY <1>1, <1>2, <1>3, <1>4, <1>5, <1>6, <1>7

(* acquire sends a claim of the next term: here SuccessorWaited is earned, *)
(* from the expiry and the skew it waited out.                             *)
LEMMA AcquireNextKeeps ==
    ASSUME LeaseInv, NEW n \in Node, NEW t \in Term, AcquireNext(n, t)
    PROVE  LeaseInv'
<1> USE LeaseAssumption DEF LeaseInv
<1>1. TypeOK'
  <2>1. pc' \in [Node -> {"idle", "search", "claim", "claimed", "refused", "look", "renew", "renewed"}]
    BY DEF AcquireNext, TypeOK, Term, MaybeTerm, Time
  <2>2. target' \in [Node -> MaybeTerm]
    BY DEF AcquireNext, TypeOK, Term, MaybeTerm, Time
  <2> QED
    BY <2>1, <2>2 DEF TypeOK, AcquireNext, objects, heldVars, opVars, taskVars
<1>2. ClocksAgree'
  BY DEF ClocksAgree, TypeOK, AcquireNext, objects, heldVars, opVars, taskVars
<1>3. Contiguous'
  BY DEF Contiguous, Exists, AcquireNext, objects, heldVars, opVars, taskVars
<1>4. \A m \in Node : HeldRecorded(m)'
  BY DEF HeldRecorded, OpRecorded, TypeOK, Term, MaybeTerm, Time, AcquireNext, objects, heldVars, opVars, taskVars
<1>5. \A m \in Node : OpRecorded(m)'
  <2> SUFFICES ASSUME NEW m \in Node PROVE OpRecorded(m)'
    OBVIOUS
  <2>1. CASE m = n
    <3>1. pc'[m] = "claim" /\ target'[m] = t + 1 /\ t + 1 > 0 /\ (t + 1) - 1 = t
      BY <2>1 DEF AcquireNext, TypeOK, Term
    <3> QED
      BY <2>1, <3>1 DEF OpRecorded, Exists, Term, AcquireNext, objects, heldVars, opVars, taskVars
  <2>2. CASE m # n
    BY <2>2 DEF OpRecorded, Exists, TypeOK, AcquireNext, objects, heldVars, opVars, taskVars
  <2> QED
    BY <2>1, <2>2
<1>6. \A p \in late' : LateRecorded(p)'
  BY DEF LateRecorded, Exists, AcquireNext, objects, heldVars, opVars, taskVars
<1>7. SuccessorWaited'
  <2> SUFFICES ASSUME NEW u \in Term, u < MaxTerm, Claimed(u + 1)', NEW m \in Node
               PROVE  Spent(m, u)'
    BY DEF SuccessorWaited
  <2>1. CASE u = t
    <3>1. clock[m] >= expires[t] /\ until[m] \in Time /\ clock[m] \in Nat
      BY DEF ClocksAgree, OpRecorded, TypeOK, Time, AcquireNext
    <3>2. term[m] = t => until[m] <= expires[t]
      BY DEF HeldRecorded, Term
    <3>3. pc[m] = "claimed" /\ target[m] = t => started[m] + TTL <= expires[t]
      BY DEF OpRecorded
    <3> QED
      BY <2>1, <3>1, <3>2, <3>3 DEF Spent, TypeOK, Time, AcquireNext, objects, heldVars, opVars, taskVars
  <2>2. CASE u # t
    <3>1. Claimed(u + 1)
      BY <2>2 DEF Claimed, Exists, TypeOK, Term, AcquireNext, objects, heldVars, opVars, taskVars
    <3>2. Spent(m, u)
      BY <3>1 DEF SuccessorWaited
    <3> QED
      BY <3>2 DEF Spent, TypeOK, AcquireNext, objects, heldVars, opVars, taskVars
  <2> QED
    BY <2>1, <2>2
<1> QED
  BY <1>1, <1>2, <1>3, <1>4, <1>5, <1>6, <1>7

(* acquire found a term that has not expired.                              *)
LEMMA AcquireTakenKeeps ==
    ASSUME LeaseInv, NEW n \in Node, NEW t \in Term, AcquireTaken(n, t)
    PROVE  LeaseInv'
<1> USE LeaseAssumption DEF LeaseInv
<1>1. TypeOK'
  <2>1. pc' \in [Node -> {"idle", "search", "claim", "claimed", "refused", "look", "renew", "renewed"}]
    BY DEF AcquireTaken, Finish, TypeOK, Term, MaybeTerm, Time
  <2>2. started' \in [Node -> 0 .. MaxTime]
    BY DEF AcquireTaken, Finish, TypeOK, Term, MaybeTerm, Time
  <2>3. target' \in [Node -> MaybeTerm]
    BY DEF AcquireTaken, Finish, TypeOK, Term, MaybeTerm, Time
  <2>4. phase' \in [Node -> {"boot", "claim", "renew"}]
    BY DEF AcquireTaken, Finish, TypeOK, Term, MaybeTerm, Time
  <2>5. asleep' \in [Node -> BOOLEAN]
    BY DEF AcquireTaken, Finish, TypeOK, Term, MaybeTerm, Time
  <2> QED
    BY <2>1, <2>2, <2>3, <2>4, <2>5 DEF TypeOK, AcquireTaken, Finish, objects, heldVars, opVars, taskVars
<1>2. ClocksAgree'
  BY DEF ClocksAgree, TypeOK, AcquireTaken, Finish, objects, heldVars, opVars, taskVars
<1>3. Contiguous'
  BY DEF Contiguous, Exists, AcquireTaken, Finish, objects, heldVars, opVars, taskVars
<1>4. \A m \in Node : HeldRecorded(m)'
  BY DEF HeldRecorded, OpRecorded, TypeOK, Term, MaybeTerm, Time, AcquireTaken, Finish, objects, heldVars, opVars, taskVars
<1>5. \A m \in Node : OpRecorded(m)'
  <2> SUFFICES ASSUME NEW m \in Node PROVE OpRecorded(m)'
    OBVIOUS
  <2>1. CASE m = n
    BY <2>1 DEF OpRecorded, Exists, TypeOK, Term, MaybeTerm, Time, AcquireTaken, Finish, objects, heldVars, opVars, taskVars
  <2>2. CASE m # n
    BY <2>2 DEF OpRecorded, Exists, TypeOK, AcquireTaken, Finish, objects, heldVars, opVars, taskVars
  <2> QED
    BY <2>1, <2>2
<1>6. \A p \in late' : LateRecorded(p)'
  BY DEF LateRecorded, Exists, AcquireTaken, Finish, objects, heldVars, opVars, taskVars
<1>7. SuccessorWaited'
  <2> SUFFICES ASSUME NEW u \in Term, u < MaxTerm, Claimed(u + 1)', NEW m \in Node
               PROVE  Spent(m, u)'
    BY DEF SuccessorWaited
  <2>1. Claimed(u + 1)
    BY DEF Claimed, Exists, TypeOK, Term, AcquireTaken, Finish, objects, heldVars, opVars, taskVars
  <2>2. Spent(m, u)
    BY <2>1 DEF SuccessorWaited
  <2> QED
    BY <2>2 DEF Spent, TypeOK, Term, Time, AcquireTaken, Finish, objects, heldVars, opVars, taskVars
<1> QED
  BY <1>1, <1>2, <1>3, <1>4, <1>5, <1>6, <1>7

(* The store refuses a PUT: only the caller changes.                       *)
LEMMA RefuseKeeps ==
    ASSUME LeaseInv, NEW n \in Node, Refuse(n)
    PROVE  LeaseInv'
<1> USE LeaseAssumption DEF LeaseInv
<1>1. TypeOK'
  <2>1. pc' \in [Node -> {"idle", "search", "claim", "claimed", "refused", "look", "renew", "renewed"}]
    BY DEF Refuse, InFlight, TypeOK, Term, MaybeTerm, Time
  <2> QED
    BY <2>1 DEF TypeOK, Refuse, InFlight, objects, heldVars, opVars, taskVars
<1>2. ClocksAgree'
  BY DEF ClocksAgree, TypeOK, Refuse, InFlight, objects, heldVars, opVars, taskVars
<1>3. Contiguous'
  BY DEF Contiguous, Exists, Refuse, InFlight, objects, heldVars, opVars, taskVars
<1>4. \A m \in Node : HeldRecorded(m)'
  BY DEF HeldRecorded, OpRecorded, TypeOK, Term, MaybeTerm, Time, Refuse, InFlight, objects, heldVars, opVars, taskVars
<1>5. \A m \in Node : OpRecorded(m)'
  <2> SUFFICES ASSUME NEW m \in Node PROVE OpRecorded(m)'
    OBVIOUS
  <2>1. CASE m = n
    BY <2>1 DEF OpRecorded, Exists, TypeOK, Term, MaybeTerm, Time, Refuse, InFlight, objects, heldVars, opVars, taskVars
  <2>2. CASE m # n
    BY <2>2 DEF OpRecorded, Exists, TypeOK, Refuse, InFlight, objects, heldVars, opVars, taskVars
  <2> QED
    BY <2>1, <2>2
<1>6. \A p \in late' : LateRecorded(p)'
  BY DEF LateRecorded, Exists, Refuse, InFlight, objects, heldVars, opVars, taskVars
<1>7. SuccessorWaited'
  <2> SUFFICES ASSUME NEW u \in Term, u < MaxTerm, Claimed(u + 1)', NEW m \in Node
               PROVE  Spent(m, u)'
    BY DEF SuccessorWaited
  <2>1. Claimed(u + 1)
    BY DEF Claimed, Exists, TypeOK, Term, Refuse, InFlight, objects, heldVars, opVars, taskVars
  <2>2. Spent(m, u)
    BY <2>1 DEF SuccessorWaited
  <2> QED
    BY <2>2 DEF Spent, TypeOK, Term, Time, Refuse, InFlight, objects, heldVars, opVars, taskVars
<1> QED
  BY <1>1, <1>2, <1>3, <1>4, <1>5, <1>6, <1>7

(* The claim's answer: the deadline counts from the start of the acquire.  *)
LEMMA AcquiredKeeps ==
    ASSUME LeaseInv, NEW n \in Node, Acquired(n)
    PROVE  LeaseInv'
<1> USE LeaseAssumption DEF LeaseInv
<1>1. TypeOK'
  <2>1. term' \in [Node -> MaybeTerm]
    BY DEF Acquired, Finish, TypeOK, Term, MaybeTerm, Time
  <2>2. token' \in [Node -> Time]
    BY DEF Acquired, Finish, TypeOK, Term, MaybeTerm, Time
  <2>3. until' \in [Node -> Time]
    BY DEF Acquired, Finish, TypeOK, Term, MaybeTerm, Time
  <2>4. pc' \in [Node -> {"idle", "search", "claim", "claimed", "refused", "look", "renew", "renewed"}]
    BY DEF Acquired, Finish, TypeOK, Term, MaybeTerm, Time
  <2>5. started' \in [Node -> 0 .. MaxTime]
    BY DEF Acquired, Finish, TypeOK, Term, MaybeTerm, Time
  <2>6. target' \in [Node -> MaybeTerm]
    BY DEF Acquired, Finish, TypeOK, Term, MaybeTerm, Time
  <2>7. phase' \in [Node -> {"boot", "claim", "renew"}]
    BY DEF Acquired, Finish, TypeOK, Term, MaybeTerm, Time
  <2>8. asleep' \in [Node -> BOOLEAN]
    BY DEF Acquired, Finish, TypeOK, Term, MaybeTerm, Time
  <2> QED
    BY <2>1, <2>2, <2>3, <2>4, <2>5, <2>6, <2>7, <2>8 DEF TypeOK, Acquired, Finish, objects, heldVars, opVars, taskVars
<1>2. ClocksAgree'
  BY DEF ClocksAgree, TypeOK, Acquired, Finish, objects, heldVars, opVars, taskVars
<1>3. Contiguous'
  BY DEF Contiguous, Exists, Acquired, Finish, objects, heldVars, opVars, taskVars
<1>4. \A m \in Node : HeldRecorded(m)'
  BY DEF HeldRecorded, OpRecorded, TypeOK, Term, MaybeTerm, Time, Acquired, Finish, objects, heldVars, opVars, taskVars
<1>5. \A m \in Node : OpRecorded(m)'
  <2> SUFFICES ASSUME NEW m \in Node PROVE OpRecorded(m)'
    OBVIOUS
  <2>1. CASE m = n
    BY <2>1 DEF OpRecorded, Exists, TypeOK, Term, MaybeTerm, Time, Acquired, Finish, objects, heldVars, opVars, taskVars
  <2>2. CASE m # n
    BY <2>2 DEF OpRecorded, Exists, TypeOK, Acquired, Finish, objects, heldVars, opVars, taskVars
  <2> QED
    BY <2>1, <2>2
<1>6. \A p \in late' : LateRecorded(p)'
  BY DEF LateRecorded, Exists, Acquired, Finish, objects, heldVars, opVars, taskVars
<1>7. SuccessorWaited'
  <2> SUFFICES ASSUME NEW u \in Term, u < MaxTerm, Claimed(u + 1)', NEW m \in Node
               PROVE  Spent(m, u)'
    BY DEF SuccessorWaited
  <2>1. Claimed(u + 1)
    BY DEF Claimed, Exists, TypeOK, Term, Acquired, Finish, objects, heldVars, opVars, taskVars
  <2>2. Spent(m, u)
    BY <2>1 DEF SuccessorWaited
  <2> QED
    BY <2>2 DEF Spent, TypeOK, Term, Time, OpRecorded, HeldRecorded, Acquired, Finish, objects, heldVars, opVars, taskVars
<1> QED
  BY <1>1, <1>2, <1>3, <1>4, <1>5, <1>6, <1>7

(* renew finds its lease lapsed, and loses it.                             *)
LEMMA RenewLapsedKeeps ==
    ASSUME LeaseInv, NEW n \in Node, RenewLapsed(n)
    PROVE  LeaseInv'
<1> USE LeaseAssumption DEF LeaseInv
<1>1. TypeOK'
  <2>1. term' \in [Node -> MaybeTerm]
    BY DEF RenewLapsed, Finish, Lose, Calls, TypeOK, Term, MaybeTerm, Time
  <2>2. token' \in [Node -> Time]
    BY DEF RenewLapsed, Finish, Lose, Calls, TypeOK, Term, MaybeTerm, Time
  <2>3. until' \in [Node -> Time]
    BY DEF RenewLapsed, Finish, Lose, Calls, TypeOK, Term, MaybeTerm, Time
  <2>4. pc' \in [Node -> {"idle", "search", "claim", "claimed", "refused", "look", "renew", "renewed"}]
    BY DEF RenewLapsed, Finish, Lose, Calls, TypeOK, Term, MaybeTerm, Time
  <2>5. started' \in [Node -> 0 .. MaxTime]
    BY DEF RenewLapsed, Finish, Lose, Calls, TypeOK, Term, MaybeTerm, Time
  <2>6. target' \in [Node -> MaybeTerm]
    BY DEF RenewLapsed, Finish, Lose, Calls, TypeOK, Term, MaybeTerm, Time
  <2>7. phase' \in [Node -> {"boot", "claim", "renew"}]
    BY DEF RenewLapsed, Finish, Lose, Calls, TypeOK, Term, MaybeTerm, Time
  <2>8. asleep' \in [Node -> BOOLEAN]
    BY DEF RenewLapsed, Finish, Lose, Calls, TypeOK, Term, MaybeTerm, Time
  <2> QED
    BY <2>1, <2>2, <2>3, <2>4, <2>5, <2>6, <2>7, <2>8 DEF TypeOK, RenewLapsed, Finish, Lose, Calls, objects, heldVars, opVars, taskVars
<1>2. ClocksAgree'
  BY DEF ClocksAgree, TypeOK, RenewLapsed, Finish, Lose, Calls, objects, heldVars, opVars, taskVars
<1>3. Contiguous'
  BY DEF Contiguous, Exists, RenewLapsed, Finish, Lose, Calls, objects, heldVars, opVars, taskVars
<1>4. \A m \in Node : HeldRecorded(m)'
  BY DEF HeldRecorded, OpRecorded, TypeOK, Term, MaybeTerm, Time, RenewLapsed, Finish, Lose, Calls, objects, heldVars, opVars, taskVars
<1>5. \A m \in Node : OpRecorded(m)'
  <2> SUFFICES ASSUME NEW m \in Node PROVE OpRecorded(m)'
    OBVIOUS
  <2>1. CASE m = n
    BY <2>1 DEF OpRecorded, Exists, TypeOK, Term, MaybeTerm, Time, RenewLapsed, Finish, Lose, Calls, objects, heldVars, opVars, taskVars
  <2>2. CASE m # n
    BY <2>2 DEF OpRecorded, Exists, TypeOK, RenewLapsed, Finish, Lose, Calls, objects, heldVars, opVars, taskVars
  <2> QED
    BY <2>1, <2>2
<1>6. \A p \in late' : LateRecorded(p)'
  BY DEF LateRecorded, Exists, RenewLapsed, Finish, Lose, Calls, objects, heldVars, opVars, taskVars
<1>7. SuccessorWaited'
  <2> SUFFICES ASSUME NEW u \in Term, u < MaxTerm, Claimed(u + 1)', NEW m \in Node
               PROVE  Spent(m, u)'
    BY DEF SuccessorWaited
  <2>1. Claimed(u + 1)
    BY DEF Claimed, Exists, TypeOK, Term, RenewLapsed, Finish, Lose, Calls, objects, heldVars, opVars, taskVars
  <2>2. Spent(m, u)
    BY <2>1 DEF SuccessorWaited
  <2> QED
    BY <2>2 DEF Spent, TypeOK, Term, Time, RenewLapsed, Finish, Lose, Calls, objects, heldVars, opVars, taskVars
<1> QED
  BY <1>1, <1>2, <1>3, <1>4, <1>5, <1>6, <1>7

(* renew begins.                                                           *)
LEMMA RenewStartKeeps ==
    ASSUME LeaseInv, NEW n \in Node, RenewStart(n)
    PROVE  LeaseInv'
<1> USE LeaseAssumption DEF LeaseInv
<1>1. TypeOK'
  <2>1. pc' \in [Node -> {"idle", "search", "claim", "claimed", "refused", "look", "renew", "renewed"}]
    BY DEF RenewStart, Calls, TypeOK, Term, MaybeTerm, Time
  <2>2. started' \in [Node -> 0 .. MaxTime]
    BY DEF RenewStart, Calls, TypeOK, Term, MaybeTerm, Time
  <2> QED
    BY <2>1, <2>2 DEF TypeOK, RenewStart, Calls, objects, heldVars, opVars, taskVars
<1>2. ClocksAgree'
  BY DEF ClocksAgree, TypeOK, RenewStart, Calls, objects, heldVars, opVars, taskVars
<1>3. Contiguous'
  BY DEF Contiguous, Exists, RenewStart, Calls, objects, heldVars, opVars, taskVars
<1>4. \A m \in Node : HeldRecorded(m)'
  BY DEF HeldRecorded, OpRecorded, TypeOK, Term, MaybeTerm, Time, RenewStart, Calls, objects, heldVars, opVars, taskVars
<1>5. \A m \in Node : OpRecorded(m)'
  <2> SUFFICES ASSUME NEW m \in Node PROVE OpRecorded(m)'
    OBVIOUS
  <2>1. CASE m = n
    BY <2>1 DEF OpRecorded, Exists, TypeOK, Term, MaybeTerm, Time, RenewStart, Calls, objects, heldVars, opVars, taskVars
  <2>2. CASE m # n
    BY <2>2 DEF OpRecorded, Exists, TypeOK, RenewStart, Calls, objects, heldVars, opVars, taskVars
  <2> QED
    BY <2>1, <2>2
<1>6. \A p \in late' : LateRecorded(p)'
  BY DEF LateRecorded, Exists, RenewStart, Calls, objects, heldVars, opVars, taskVars
<1>7. SuccessorWaited'
  <2> SUFFICES ASSUME NEW u \in Term, u < MaxTerm, Claimed(u + 1)', NEW m \in Node
               PROVE  Spent(m, u)'
    BY DEF SuccessorWaited
  <2>1. Claimed(u + 1)
    BY DEF Claimed, Exists, TypeOK, Term, RenewStart, Calls, objects, heldVars, opVars, taskVars
  <2>2. Spent(m, u)
    BY <2>1 DEF SuccessorWaited
  <2> QED
    BY <2>2 DEF Spent, TypeOK, Term, Time, RenewStart, Calls, objects, heldVars, opVars, taskVars
<1> QED
  BY <1>1, <1>2, <1>3, <1>4, <1>5, <1>6, <1>7

(* renew finds a successor's term, and loses its own.                      *)
LEMMA RenewSupersededKeeps ==
    ASSUME LeaseInv, NEW n \in Node, RenewSuperseded(n)
    PROVE  LeaseInv'
<1> USE LeaseAssumption DEF LeaseInv
<1>1. TypeOK'
  <2>1. term' \in [Node -> MaybeTerm]
    BY DEF RenewSuperseded, Finish, Lose, TypeOK, Term, MaybeTerm, Time
  <2>2. token' \in [Node -> Time]
    BY DEF RenewSuperseded, Finish, Lose, TypeOK, Term, MaybeTerm, Time
  <2>3. until' \in [Node -> Time]
    BY DEF RenewSuperseded, Finish, Lose, TypeOK, Term, MaybeTerm, Time
  <2>4. pc' \in [Node -> {"idle", "search", "claim", "claimed", "refused", "look", "renew", "renewed"}]
    BY DEF RenewSuperseded, Finish, Lose, TypeOK, Term, MaybeTerm, Time
  <2>5. started' \in [Node -> 0 .. MaxTime]
    BY DEF RenewSuperseded, Finish, Lose, TypeOK, Term, MaybeTerm, Time
  <2>6. target' \in [Node -> MaybeTerm]
    BY DEF RenewSuperseded, Finish, Lose, TypeOK, Term, MaybeTerm, Time
  <2>7. phase' \in [Node -> {"boot", "claim", "renew"}]
    BY DEF RenewSuperseded, Finish, Lose, TypeOK, Term, MaybeTerm, Time
  <2>8. asleep' \in [Node -> BOOLEAN]
    BY DEF RenewSuperseded, Finish, Lose, TypeOK, Term, MaybeTerm, Time
  <2> QED
    BY <2>1, <2>2, <2>3, <2>4, <2>5, <2>6, <2>7, <2>8 DEF TypeOK, RenewSuperseded, Finish, Lose, objects, heldVars, opVars, taskVars
<1>2. ClocksAgree'
  BY DEF ClocksAgree, TypeOK, RenewSuperseded, Finish, Lose, objects, heldVars, opVars, taskVars
<1>3. Contiguous'
  BY DEF Contiguous, Exists, RenewSuperseded, Finish, Lose, objects, heldVars, opVars, taskVars
<1>4. \A m \in Node : HeldRecorded(m)'
  BY DEF HeldRecorded, OpRecorded, TypeOK, Term, MaybeTerm, Time, RenewSuperseded, Finish, Lose, objects, heldVars, opVars, taskVars
<1>5. \A m \in Node : OpRecorded(m)'
  <2> SUFFICES ASSUME NEW m \in Node PROVE OpRecorded(m)'
    OBVIOUS
  <2>1. CASE m = n
    <3>1. /\ pc'[m] = "idle" /\ started'[m] = 0 /\ token'[m] = 0 /\ until'[m] = 0
          /\ clock'[m] = clock[m] /\ clock[m] \in Nat
      BY <2>1 DEF RenewSuperseded, Finish, Lose, TypeOK
    <3>2. phase'[m] # "renew"
      BY <2>1 DEF RenewSuperseded, Finish, TypeOK
    <3> QED
      BY <3>1, <3>2 DEF OpRecorded
  <2>2. CASE m # n
    BY <2>2 DEF OpRecorded, Exists, TypeOK, RenewSuperseded, Finish, Lose, objects, heldVars, opVars, taskVars
  <2> QED
    BY <2>1, <2>2
<1>6. \A p \in late' : LateRecorded(p)'
  BY DEF LateRecorded, Exists, RenewSuperseded, Finish, Lose, objects, heldVars, opVars, taskVars
<1>7. SuccessorWaited'
  <2> SUFFICES ASSUME NEW u \in Term, u < MaxTerm, Claimed(u + 1)', NEW m \in Node
               PROVE  Spent(m, u)'
    BY DEF SuccessorWaited
  <2>1. Claimed(u + 1)
    BY DEF Claimed, Exists, TypeOK, Term, RenewSuperseded, Finish, Lose, objects, heldVars, opVars, taskVars
  <2>2. Spent(m, u)
    BY <2>1 DEF SuccessorWaited
  <2> QED
    BY <2>2 DEF Spent, TypeOK, Term, Time, RenewSuperseded, Finish, Lose, objects, heldVars, opVars, taskVars
<1> QED
  BY <1>1, <1>2, <1>3, <1>4, <1>5, <1>6, <1>7

(* renew finds no successor, and sends its PUT.                            *)
LEMMA RenewLookKeeps ==
    ASSUME LeaseInv, NEW n \in Node, RenewLook(n)
    PROVE  LeaseInv'
<1> USE LeaseAssumption DEF LeaseInv
<1>1. TypeOK'
  <2>1. pc' \in [Node -> {"idle", "search", "claim", "claimed", "refused", "look", "renew", "renewed"}]
    BY DEF RenewLook, TypeOK, Term, MaybeTerm, Time
  <2> QED
    BY <2>1 DEF TypeOK, RenewLook, objects, heldVars, opVars, taskVars
<1>2. ClocksAgree'
  BY DEF ClocksAgree, TypeOK, RenewLook, objects, heldVars, opVars, taskVars
<1>3. Contiguous'
  BY DEF Contiguous, Exists, RenewLook, objects, heldVars, opVars, taskVars
<1>4. \A m \in Node : HeldRecorded(m)'
  BY DEF HeldRecorded, OpRecorded, TypeOK, Term, MaybeTerm, Time, RenewLook, objects, heldVars, opVars, taskVars
<1>5. \A m \in Node : OpRecorded(m)'
  <2> SUFFICES ASSUME NEW m \in Node PROVE OpRecorded(m)'
    OBVIOUS
  <2>1. CASE m = n
    BY <2>1 DEF OpRecorded, Exists, TypeOK, Term, MaybeTerm, Time, RenewLook, objects, heldVars, opVars, taskVars
  <2>2. CASE m # n
    BY <2>2 DEF OpRecorded, Exists, TypeOK, RenewLook, objects, heldVars, opVars, taskVars
  <2> QED
    BY <2>1, <2>2
<1>6. \A p \in late' : LateRecorded(p)'
  BY DEF LateRecorded, Exists, RenewLook, objects, heldVars, opVars, taskVars
<1>7. SuccessorWaited'
  <2> SUFFICES ASSUME NEW u \in Term, u < MaxTerm, Claimed(u + 1)', NEW m \in Node
               PROVE  Spent(m, u)'
    BY DEF SuccessorWaited
  <2>1. Claimed(u + 1)
    BY DEF Claimed, Exists, TypeOK, Term, RenewLook, objects, heldVars, opVars, taskVars
  <2>2. Spent(m, u)
    BY <2>1 DEF SuccessorWaited
  <2> QED
    BY <2>2 DEF Spent, TypeOK, Term, Time, RenewLook, objects, heldVars, opVars, taskVars
<1> QED
  BY <1>1, <1>2, <1>3, <1>4, <1>5, <1>6, <1>7

(* The renewal's answer: the new deadline counts only if it came in time.  *)
LEMMA RenewedKeeps ==
    ASSUME LeaseInv, NEW n \in Node, Renewed(n)
    PROVE  LeaseInv'
<1> USE LeaseAssumption DEF LeaseInv
<1>1. TypeOK'
  <2>1. token' \in [Node -> Time]
    BY SMTT(30) DEF Renewed, Finish, TypeOK, Term, MaybeTerm, Time
  <2>2. until' \in [Node -> Time]
    <3>1. until[n] \in Time /\ started[n] + TTL \in Time
      BY DEF TypeOK, Time
    <3> QED
      BY <3>1 DEF Renewed, TypeOK
  <2>3. pc' \in [Node -> {"idle", "search", "claim", "claimed", "refused", "look", "renew", "renewed"}]
    BY DEF Renewed, Finish, TypeOK, Term, MaybeTerm, Time
  <2>4. started' \in [Node -> 0 .. MaxTime]
    BY DEF Renewed, Finish, TypeOK, Term, MaybeTerm, Time
  <2>5. target' \in [Node -> MaybeTerm]
    BY DEF Renewed, Finish, TypeOK, Term, MaybeTerm, Time
  <2>6. phase' \in [Node -> {"boot", "claim", "renew"}]
    BY DEF Renewed, Finish, TypeOK, Term, MaybeTerm, Time
  <2>7. asleep' \in [Node -> BOOLEAN]
    BY DEF Renewed, Finish, TypeOK, Term, MaybeTerm, Time
  <2> QED
    BY <2>1, <2>2, <2>3, <2>4, <2>5, <2>6, <2>7 DEF TypeOK, Renewed, Finish, objects, heldVars, opVars, taskVars
<1>2. ClocksAgree'
  BY DEF ClocksAgree, TypeOK, Renewed, Finish, objects, heldVars, opVars, taskVars
<1>3. Contiguous'
  BY DEF Contiguous, Exists, Renewed, Finish, objects, heldVars, opVars, taskVars
<1>4. \A m \in Node : HeldRecorded(m)'
  BY DEF HeldRecorded, OpRecorded, TypeOK, Term, MaybeTerm, Time, Renewed, Finish, objects, heldVars, opVars, taskVars
<1>5. \A m \in Node : OpRecorded(m)'
  <2> SUFFICES ASSUME NEW m \in Node PROVE OpRecorded(m)'
    OBVIOUS
  <2>1. CASE m = n
    BY <2>1 DEF OpRecorded, Exists, TypeOK, Term, MaybeTerm, Time, Renewed, Finish, objects, heldVars, opVars, taskVars
  <2>2. CASE m # n
    BY <2>2 DEF OpRecorded, Exists, TypeOK, Renewed, Finish, objects, heldVars, opVars, taskVars
  <2> QED
    BY <2>1, <2>2
<1>6. \A p \in late' : LateRecorded(p)'
  BY DEF LateRecorded, Exists, Renewed, Finish, objects, heldVars, opVars, taskVars
<1>7. SuccessorWaited'
  <2> SUFFICES ASSUME NEW u \in Term, u < MaxTerm, Claimed(u + 1)', NEW m \in Node
               PROVE  Spent(m, u)'
    BY DEF SuccessorWaited
  <2>1. Claimed(u + 1)
    BY DEF Claimed, Exists, TypeOK, Term, Renewed, Finish, objects, heldVars, opVars, taskVars
  <2>2. Spent(m, u)
    BY <2>1 DEF SuccessorWaited
  <2>3. clock[m] \in Nat /\ until[m] \in Nat /\ started[m] \in Nat
    BY DEF TypeOK, Time
  <2>4. term[m] = u => until'[m] = until[m]
    BY <2>2, <2>3 DEF Spent, TypeOK, Renewed
  <2> QED
    BY <2>2, <2>4 DEF Spent, TypeOK, Renewed, Finish, objects, heldVars, opVars, taskVars
<1> QED
  BY <1>1, <1>2, <1>3, <1>4, <1>5, <1>6, <1>7

(* A claim that lost its race changes nothing held.                        *)
LEMMA ClaimRefusedKeeps ==
    ASSUME LeaseInv, NEW n \in Node, ClaimRefused(n)
    PROVE  LeaseInv'
<1> USE LeaseAssumption DEF LeaseInv
<1>1. TypeOK'
  <2>1. pc' \in [Node -> {"idle", "search", "claim", "claimed", "refused", "look", "renew", "renewed"}]
    BY DEF ClaimRefused, Finish, TypeOK, Term, MaybeTerm, Time
  <2>2. started' \in [Node -> 0 .. MaxTime]
    BY DEF ClaimRefused, Finish, TypeOK, Term, MaybeTerm, Time
  <2>3. target' \in [Node -> MaybeTerm]
    BY DEF ClaimRefused, Finish, TypeOK, Term, MaybeTerm, Time
  <2>4. phase' \in [Node -> {"boot", "claim", "renew"}]
    BY DEF ClaimRefused, Finish, TypeOK, Term, MaybeTerm, Time
  <2>5. asleep' \in [Node -> BOOLEAN]
    BY DEF ClaimRefused, Finish, TypeOK, Term, MaybeTerm, Time
  <2> QED
    BY <2>1, <2>2, <2>3, <2>4, <2>5 DEF TypeOK, ClaimRefused, Finish, objects, heldVars, opVars, taskVars
<1>2. ClocksAgree'
  BY DEF ClocksAgree, TypeOK, ClaimRefused, Finish, objects, heldVars, opVars, taskVars
<1>3. Contiguous'
  BY DEF Contiguous, Exists, ClaimRefused, Finish, objects, heldVars, opVars, taskVars
<1>4. \A m \in Node : HeldRecorded(m)'
  BY DEF HeldRecorded, OpRecorded, TypeOK, Term, MaybeTerm, Time, ClaimRefused, Finish, objects, heldVars, opVars, taskVars
<1>5. \A m \in Node : OpRecorded(m)'
  <2> SUFFICES ASSUME NEW m \in Node PROVE OpRecorded(m)'
    OBVIOUS
  <2>1. CASE m = n
    BY <2>1 DEF OpRecorded, Exists, TypeOK, Term, MaybeTerm, Time, ClaimRefused, Finish, objects, heldVars, opVars, taskVars
  <2>2. CASE m # n
    BY <2>2 DEF OpRecorded, Exists, TypeOK, ClaimRefused, Finish, objects, heldVars, opVars, taskVars
  <2> QED
    BY <2>1, <2>2
<1>6. \A p \in late' : LateRecorded(p)'
  BY DEF LateRecorded, Exists, ClaimRefused, Finish, objects, heldVars, opVars, taskVars
<1>7. SuccessorWaited'
  <2> SUFFICES ASSUME NEW u \in Term, u < MaxTerm, Claimed(u + 1)', NEW m \in Node
               PROVE  Spent(m, u)'
    BY DEF SuccessorWaited
  <2>1. Claimed(u + 1)
    BY DEF Claimed, Exists, TypeOK, Term, ClaimRefused, Finish, objects, heldVars, opVars, taskVars
  <2>2. Spent(m, u)
    BY <2>1 DEF SuccessorWaited
  <2> QED
    BY <2>2 DEF Spent, TypeOK, Term, Time, ClaimRefused, Finish, objects, heldVars, opVars, taskVars
<1> QED
  BY <1>1, <1>2, <1>3, <1>4, <1>5, <1>6, <1>7

(* A renewal refused by its token loses the lease.                         *)
LEMMA RenewRefusedKeeps ==
    ASSUME LeaseInv, NEW n \in Node, RenewRefused(n)
    PROVE  LeaseInv'
<1> USE LeaseAssumption DEF LeaseInv
<1>1. TypeOK'
  <2>1. term' \in [Node -> MaybeTerm]
    BY DEF RenewRefused, Finish, Lose, TypeOK, Term, MaybeTerm, Time
  <2>2. token' \in [Node -> Time]
    BY DEF RenewRefused, Finish, Lose, TypeOK, Term, MaybeTerm, Time
  <2>3. until' \in [Node -> Time]
    BY DEF RenewRefused, Finish, Lose, TypeOK, Term, MaybeTerm, Time
  <2>4. pc' \in [Node -> {"idle", "search", "claim", "claimed", "refused", "look", "renew", "renewed"}]
    BY DEF RenewRefused, Finish, Lose, TypeOK, Term, MaybeTerm, Time
  <2>5. started' \in [Node -> 0 .. MaxTime]
    BY DEF RenewRefused, Finish, Lose, TypeOK, Term, MaybeTerm, Time
  <2>6. target' \in [Node -> MaybeTerm]
    BY DEF RenewRefused, Finish, Lose, TypeOK, Term, MaybeTerm, Time
  <2>7. phase' \in [Node -> {"boot", "claim", "renew"}]
    BY DEF RenewRefused, Finish, Lose, TypeOK, Term, MaybeTerm, Time
  <2>8. asleep' \in [Node -> BOOLEAN]
    BY DEF RenewRefused, Finish, Lose, TypeOK, Term, MaybeTerm, Time
  <2> QED
    BY <2>1, <2>2, <2>3, <2>4, <2>5, <2>6, <2>7, <2>8 DEF TypeOK, RenewRefused, Finish, Lose, objects, heldVars, opVars, taskVars
<1>2. ClocksAgree'
  BY DEF ClocksAgree, TypeOK, RenewRefused, Finish, Lose, objects, heldVars, opVars, taskVars
<1>3. Contiguous'
  BY DEF Contiguous, Exists, RenewRefused, Finish, Lose, objects, heldVars, opVars, taskVars
<1>4. \A m \in Node : HeldRecorded(m)'
  BY DEF HeldRecorded, OpRecorded, TypeOK, Term, MaybeTerm, Time, RenewRefused, Finish, Lose, objects, heldVars, opVars, taskVars
<1>5. \A m \in Node : OpRecorded(m)'
  <2> SUFFICES ASSUME NEW m \in Node PROVE OpRecorded(m)'
    OBVIOUS
  <2>1. CASE m = n
    BY <2>1 DEF OpRecorded, Exists, TypeOK, Term, MaybeTerm, Time, RenewRefused, Finish, Lose, objects, heldVars, opVars, taskVars
  <2>2. CASE m # n
    BY <2>2 DEF OpRecorded, Exists, TypeOK, RenewRefused, Finish, Lose, objects, heldVars, opVars, taskVars
  <2> QED
    BY <2>1, <2>2
<1>6. \A p \in late' : LateRecorded(p)'
  BY DEF LateRecorded, Exists, RenewRefused, Finish, Lose, objects, heldVars, opVars, taskVars
<1>7. SuccessorWaited'
  <2> SUFFICES ASSUME NEW u \in Term, u < MaxTerm, Claimed(u + 1)', NEW m \in Node
               PROVE  Spent(m, u)'
    BY DEF SuccessorWaited
  <2>1. Claimed(u + 1)
    BY DEF Claimed, Exists, TypeOK, Term, RenewRefused, Finish, Lose, objects, heldVars, opVars, taskVars
  <2>2. Spent(m, u)
    BY <2>1 DEF SuccessorWaited
  <2> QED
    BY <2>2 DEF Spent, TypeOK, Term, Time, RenewRefused, Finish, Lose, objects, heldVars, opVars, taskVars
<1> QED
  BY <1>1, <1>2, <1>3, <1>4, <1>5, <1>6, <1>7

(* The PUT an operation has in flight is well formed, and what its sender  *)
(* knew when it sent it is still so.                                       *)
LEMMA PutOfIs ==
    ASSUME LeaseInv, NEW n \in Node, InFlight(n)
    PROVE  /\ PutOf(n) \in Put
           /\ LateRecorded(PutOf(n))
<1> USE LeaseAssumption DEF LeaseInv
<1>1. CASE pc[n] = "claim"
  <2>1. PutOf(n) = [term |-> target[n], create |-> TRUE, token |-> 0,
                    expires |-> started[n] + TTL, holder |-> n]
    BY <1>1 DEF PutOf
  <2>2. target[n] \in Term /\ started[n] + TTL \in Time /\ 0 \in Time
    BY <1>1 DEF TypeOK, OpRecorded, Term, MaybeTerm, Time
  <2> QED
    BY <1>1, <2>1, <2>2 DEF Put, LateRecorded, OpRecorded
<1>2. CASE pc[n] = "renew"
  <2>1. PutOf(n) = [term |-> term[n], create |-> FALSE, token |-> token[n],
                    expires |-> started[n] + TTL, holder |-> n]
    BY <1>2 DEF PutOf
  <2>2. started[n] + TTL \in Time /\ token[n] \in Time
    BY DEF TypeOK, Time
  <2>a. term[n] \in MaybeTerm /\ term[n] # -1
    BY <1>2 DEF TypeOK, OpRecorded
  <2>b. term[n] \in Term
    BY <2>a DEF Term, MaybeTerm
  <2>3. holder[term[n]] = n /\ token[n] <= started[n] + TTL
    BY <1>2, <2>a DEF OpRecorded, HeldRecorded
  <2> QED
    BY <2>1, <2>2, <2>b, <2>3 DEF Put, LateRecorded
<1> QED
  BY <1>1, <1>2 DEF InFlight

(* What a PUT the store admits does to the terms: it creates the next one, *)
(* or extends one, and leaves every other as it was.                       *)
LEMMA LandingExtends ==
    ASSUME LeaseInv, NEW p \in Put, LateRecorded(p), Admits(p), Landing(p)
    PROVE  /\ holder' \in [Term -> Node \cup {None}]
           /\ expires' \in [Term -> Time]
           /\ holder'[p.term] = p.holder /\ expires'[p.term] = p.expires
           /\ \A t \in Term : t # p.term => holder'[t] = holder[t] /\ expires'[t] = expires[t]
           /\ \A t \in Term : Exists(t) => holder'[t] = holder[t] /\ expires'[t] >= expires[t]
           /\ p.create => Newest = p.term - 1 /\ ~Exists(p.term)
           /\ ~p.create => Exists(p.term)
           /\ Contiguous'
<1> USE LeaseAssumption DEF LeaseInv
<1>1. p.term \in Term /\ p.holder \in Node /\ p.expires \in Time /\ p.token \in Time
  BY DEF Put
<1>2. holder' \in [Term -> Node \cup {None}] /\ expires' \in [Term -> Time]
  BY <1>1 DEF Landing, TypeOK
<1>3. holder'[p.term] = p.holder /\ expires'[p.term] = p.expires
  BY <1>1 DEF Landing, TypeOK
<1>4. \A t \in Term : t # p.term => holder'[t] = holder[t] /\ expires'[t] = expires[t]
  BY <1>1 DEF Landing, TypeOK
<1>5. \A t \in Term : expires[t] \in Nat
  BY DEF TypeOK, Time
<1>6. CASE p.create
  <2>1. ~Exists(p.term) /\ (p.term > 0 => Exists(p.term - 1))
    BY <1>6 DEF Admits, LateRecorded
  <2>2. Newest = p.term - 1
    BY <2>1, <1>1, NewestIs DEF Term, MaybeTerm
  <2>3. \A t \in Term : Exists(t)' <=> t <= p.term
    BY <2>2, <1>1, <1>3, <1>4, NewestIs DEF Term, Exists
  <2>a. p.term \in MaybeTerm
    BY <1>1 DEF Term, MaybeTerm
  <2>4. Contiguous'
    BY <2>3, <2>a DEF Contiguous
  <2>5. \A t \in Term : Exists(t) => holder'[t] = holder[t] /\ expires'[t] >= expires[t]
    BY <2>1, <1>4, <1>5
  <2> QED
    BY <1>6, <1>2, <1>3, <1>4, <2>1, <2>2, <2>4, <2>5
<1>7. CASE ~p.create
  <2>1. Exists(p.term) /\ expires[p.term] = p.token /\ holder[p.term] = p.holder
        /\ p.token <= p.expires
    BY <1>7 DEF Admits, LateRecorded
  <2>2. \A t \in Term : holder'[t] = holder[t]
    BY <2>1, <1>3, <1>4
  <2>3. Contiguous'
    BY <2>2 DEF Contiguous, Exists
  <2>4. \A t \in Term : expires'[t] >= expires[t]
    BY <2>1, <1>1, <1>3, <1>4, <1>5 DEF Time
  <2> QED
    BY <1>7, <1>2, <1>3, <1>4, <2>1, <2>2, <2>3, <2>4
<1> QED
  BY <1>6, <1>7

(* The two ways a PUT leaves its sender: forgotten, or late.               *)
LEMMA AbandonKeeps ==
    ASSUME LeaseInv, NEW n \in Node, Abandon(n), UNCHANGED <<objects>>
    PROVE  /\ late' \subseteq Put
           /\ \A p \in late' : LateRecorded(p)'
           /\ \A p \in late' : p \in late \/ (p.create => pc[n] = "claim" /\ p.term = target[n])
<1> USE DEF LeaseInv
<1>1. CASE UNCHANGED late
  BY <1>1 DEF TypeOK, LateRecorded, Exists, objects
<1>2. CASE InFlight(n) /\ late' = late \cup {PutOf(n)}
  <2>1. PutOf(n) \in Put /\ LateRecorded(PutOf(n))
    BY <1>2, PutOfIs
  <2>2. late' \subseteq Put
    BY <1>2, <2>1 DEF TypeOK
  <2>3. \A p \in late' : LateRecorded(p)
    BY <1>2, <2>1
  <2>4. \A p \in late' : LateRecorded(p)'
    BY <2>3 DEF LateRecorded, Exists, objects
  <2>5. PutOf(n).create => pc[n] = "claim" /\ PutOf(n).term = target[n]
    BY DEF PutOf
  <2> QED
    BY <1>2, <2>2, <2>4, <2>5
<1> QED
  BY <1>1, <1>2 DEF Abandon

(* A request errs: what is held stays, and its PUT may still be in flight. *)
LEMMA ErrsKeeps ==
    ASSUME LeaseInv, NEW n \in Node, Errs(n)
    PROVE  LeaseInv'
<1> USE LeaseAssumption DEF LeaseInv
<1>0. /\ late' \subseteq Put
      /\ \A p \in late' : LateRecorded(p)'
      /\ \A p \in late' : p \in late \/ (p.create => pc[n] = "claim" /\ p.term = target[n])
  BY AbandonKeeps DEF Errs, objects
<1>1. TypeOK'
  <2>1. pc' \in [Node -> {"idle", "search", "claim", "claimed", "refused", "look", "renew", "renewed"}]
    BY DEF Errs, Finish, TypeOK
  <2>2. started' \in [Node -> 0 .. MaxTime] /\ target' \in [Node -> MaybeTerm]
    BY DEF Errs, Finish, TypeOK, MaybeTerm
  <2>3. phase' \in [Node -> {"boot", "claim", "renew"}]
    BY DEF Errs, Finish, TypeOK
  <2>4. asleep' \in [Node -> BOOLEAN]
    BY DEF Errs, Finish, TypeOK
  <2> QED
    BY <1>0, <2>1, <2>2, <2>3, <2>4 DEF TypeOK, Errs, objects, heldVars
<1>2. ClocksAgree'
  BY DEF ClocksAgree, Errs
<1>3. Contiguous'
  BY DEF Contiguous, Exists, Errs, objects
<1>4. \A m \in Node : HeldRecorded(m)'
  BY DEF HeldRecorded, Errs, objects, heldVars
<1>5. \A m \in Node : OpRecorded(m)'
  <2> SUFFICES ASSUME NEW m \in Node PROVE OpRecorded(m)'
    OBVIOUS
  <2>1. CASE m = n
    BY <2>1 DEF OpRecorded, TypeOK, Errs, Finish, objects, heldVars
  <2>2. CASE m # n
    BY <2>2 DEF OpRecorded, Exists, TypeOK, Errs, Finish, objects, heldVars
  <2> QED
    BY <2>1, <2>2
<1>7. SuccessorWaited'
  <2> SUFFICES ASSUME NEW u \in Term, u < MaxTerm, Claimed(u + 1)', NEW m \in Node
               PROVE  Spent(m, u)'
    BY DEF SuccessorWaited
  <2>1. Claimed(u + 1)
    BY <1>0 DEF Claimed, Exists, TypeOK, Errs, Finish, objects
  <2>2. Spent(m, u)
    BY <2>1 DEF SuccessorWaited
  <2> QED
    BY <2>2 DEF Spent, TypeOK, Errs, Finish, objects, heldVars
<1> QED
  BY <1>0, <1>1, <1>2, <1>3, <1>4, <1>5, <1>7

(* The process stops: nothing is held, and its PUT may still be in flight. *)
LEMMA RestartKeeps ==
    ASSUME LeaseInv, NEW n \in Node, Restart(n)
    PROVE  LeaseInv'
<1> USE LeaseAssumption DEF LeaseInv
<1>0. /\ late' \subseteq Put
      /\ \A p \in late' : LateRecorded(p)'
      /\ \A p \in late' : p \in late \/ (p.create => pc[n] = "claim" /\ p.term = target[n])
  BY AbandonKeeps DEF Restart, objects
<1>1. TypeOK'
  <2>1. pc' \in [Node -> {"idle", "search", "claim", "claimed", "refused", "look", "renew", "renewed"}]
    BY DEF Restart, TypeOK
  <2>2. started' \in [Node -> 0 .. MaxTime] /\ target' \in [Node -> MaybeTerm]
    BY DEF Restart, TypeOK, MaybeTerm
  <2>3. phase' \in [Node -> {"boot", "claim", "renew"}]
    BY DEF Restart, TypeOK
  <2>4. asleep' \in [Node -> BOOLEAN]
    BY DEF Restart, TypeOK
  <2>5. term' \in [Node -> MaybeTerm] /\ token' \in [Node -> Time] /\ until' \in [Node -> Time]
    BY DEF Restart, Lose, TypeOK, MaybeTerm, Time
  <2> QED
    BY <1>0, <2>1, <2>2, <2>3, <2>4, <2>5 DEF TypeOK, Restart, objects
<1>2. ClocksAgree'
  BY DEF ClocksAgree, Restart
<1>3. Contiguous'
  BY DEF Contiguous, Exists, Restart, objects
<1>4. \A m \in Node : HeldRecorded(m)'
  BY DEF HeldRecorded, TypeOK, Restart, Lose, objects
<1>5. \A m \in Node : OpRecorded(m)'
  <2> SUFFICES ASSUME NEW m \in Node PROVE OpRecorded(m)'
    OBVIOUS
  <2>1. CASE m = n
    BY <2>1 DEF OpRecorded, TypeOK, Restart, Lose, objects
  <2>2. CASE m # n
    BY <2>2 DEF OpRecorded, Exists, TypeOK, Restart, Lose, objects
  <2> QED
    BY <2>1, <2>2
<1>7. SuccessorWaited'
  <2> SUFFICES ASSUME NEW u \in Term, u < MaxTerm, Claimed(u + 1)', NEW m \in Node
               PROVE  Spent(m, u)'
    BY DEF SuccessorWaited
  <2>1. Claimed(u + 1)
    BY <1>0 DEF Claimed, Exists, TypeOK, Restart, objects
  <2>2. Spent(m, u)
    BY <2>1 DEF SuccessorWaited
  <2> QED
    BY <2>2 DEF Spent, TypeOK, Restart, Lose, objects
<1> QED
  BY <1>0, <1>1, <1>2, <1>3, <1>4, <1>5, <1>7

(* A PUT that lands leaves every node's record of its own term, every      *)
(* operation that was not its sender's, and every late PUT, true.          *)
LEMMA LandingKeeps ==
    ASSUME LeaseInv, NEW p \in Put, LateRecorded(p), Admits(p), Landing(p),
           UNCHANGED <<clock, heldVars, started, target, phase>>
    PROVE  /\ \A m \in Node : HeldRecorded(m)'
           /\ \A m \in Node : pc'[m] = pc[m] => OpRecorded(m)'
           /\ late' \subseteq late => \A q \in late' : LateRecorded(q)'
<1> USE LeaseAssumption DEF LeaseInv, heldVars
<1>1. \A t \in Term : Exists(t) => holder'[t] = holder[t] /\ expires'[t] >= expires[t]
  BY LandingExtends
<1>2. \A t \in Term : expires[t] \in Nat /\ expires'[t] \in Nat
  BY LandingExtends DEF TypeOK, Time
<1>3. ASSUME NEW m \in Node, term[m] # -1
      PROVE  term[m] \in Term /\ holder'[term[m]] = m /\ expires'[term[m]] >= expires[term[m]]
  <2>1. term[m] \in Term
    BY <1>3 DEF TypeOK, Term, MaybeTerm
  <2> QED
    BY <1>1, <1>3, <2>1 DEF HeldRecorded, Exists
<1>4. ASSUME NEW m \in Node PROVE HeldRecorded(m)'
  <2>1. CASE term[m] = -1
    BY <2>1 DEF HeldRecorded
  <2>2. CASE term[m] # -1
    <3>1. until[m] \in Nat
      BY DEF TypeOK, Time
    <3>2. until[m] <= expires'[term[m]]
      BY <1>2, <1>3, <2>2, <3>1 DEF HeldRecorded
    <3> QED
      BY <1>3, <2>2, <3>2 DEF HeldRecorded
  <2> QED
    BY <2>1, <2>2
<1>5. ASSUME NEW m \in Node, pc'[m] = pc[m] PROVE OpRecorded(m)'
  <2>0. started[m] + TTL \in Nat
    BY DEF TypeOK
  <2>1. pc[m] = "claim" /\ target[m] > 0 => holder'[target[m] - 1] # None
    <3> SUFFICES ASSUME pc[m] = "claim", target[m] > 0 PROVE holder'[target[m] - 1] # None
      OBVIOUS
    <3>1. target[m] - 1 \in Term
      BY DEF TypeOK, Term, MaybeTerm
    <3>2. Exists(target[m] - 1)
      BY DEF OpRecorded
    <3> QED
      BY <1>1, <3>1, <3>2 DEF Exists
  <2>2. pc[m] = "claimed" => /\ holder'[target[m]] = m
                             /\ expires'[target[m]] >= started[m] + TTL
    <3> SUFFICES ASSUME pc[m] = "claimed"
                 PROVE  /\ holder'[target[m]] = m
                        /\ expires'[target[m]] >= started[m] + TTL
      OBVIOUS
    <3>1. target[m] # -1 /\ holder[target[m]] = m /\ expires[target[m]] >= started[m] + TTL
      BY DEF OpRecorded
    <3>2. target[m] \in Term
      BY <3>1 DEF TypeOK, Term, MaybeTerm
    <3> QED
      BY <3>1, <3>2, <1>1, <1>2, <2>0 DEF Exists
  <2>3. pc[m] = "renewed" => expires'[term[m]] >= started[m] + TTL
    BY <1>2, <1>3, <2>0 DEF OpRecorded
  <2> QED
    BY <1>5, <2>1, <2>2, <2>3 DEF OpRecorded, Exists
<1>6. ASSUME late' \subseteq late, NEW q \in late' PROVE LateRecorded(q)'
  <2>1. q \in Put /\ LateRecorded(q)
    BY <1>6 DEF TypeOK
  <2>2. q.term \in Term
    BY <2>1 DEF Put
  <2>3. CASE q.create
    <3>1. q.term > 0 => holder'[q.term - 1] # None
      <4> SUFFICES ASSUME q.term > 0 PROVE holder'[q.term - 1] # None
        OBVIOUS
      <4>1. q.term - 1 \in Term /\ Exists(q.term - 1)
        BY <2>1, <2>2, <2>3 DEF LateRecorded, Term
      <4> QED
        BY <4>1, <1>1 DEF Exists
    <3> QED
      BY <2>3, <3>1 DEF LateRecorded, Exists
  <2>4. CASE ~q.create
    <3>1. holder[q.term] = q.holder /\ q.holder \in Node
      BY <2>1, <2>4 DEF LateRecorded, Put
    <3>2. holder'[q.term] = q.holder
      BY <1>1, <2>2, <3>1 DEF Exists
    <3> QED
      BY <2>1, <2>4, <3>2 DEF LateRecorded
  <2> QED
    BY <2>3, <2>4
<1> QED
  BY <1>4, <1>5, <1>6

(* A PUT lands while its caller waits.                                     *)
LEMMA LandKeeps ==
    ASSUME LeaseInv, NEW n \in Node, Land(n)
    PROVE  LeaseInv'
<1> USE LeaseAssumption DEF LeaseInv
<1> DEFINE p == PutOf(n)
<1>0. InFlight(n) /\ Admits(p) /\ Landing(p)
  BY DEF Land
<1>a. p \in Put /\ LateRecorded(p)
  BY <1>0, PutOfIs
<1>b. /\ p.create <=> pc[n] = "claim"
      /\ p.expires = started[n] + TTL /\ p.holder = n
      /\ p.term = IF pc[n] = "claim" THEN target[n] ELSE term[n]
  BY DEF PutOf
<1>c. /\ p.term \in Term
      /\ pc[n] = "claim" => p.term = target[n]
      /\ pc[n] = "renew" => p.term = term[n]
  BY <1>a, <1>b DEF Put
<1> HIDE DEF p
<1>d. /\ holder' \in [Term -> Node \cup {None}]
      /\ expires' \in [Term -> Time]
      /\ holder'[p.term] = p.holder /\ expires'[p.term] = p.expires
      /\ \A t \in Term : t # p.term => holder'[t] = holder[t] /\ expires'[t] = expires[t]
      /\ \A t \in Term : Exists(t) => holder'[t] = holder[t] /\ expires'[t] >= expires[t]
      /\ p.create => Newest = p.term - 1 /\ ~Exists(p.term)
      /\ ~p.create => Exists(p.term)
      /\ Contiguous'
  BY <1>0, <1>a, LandingExtends
<1>1. TypeOK'
  <2>1. pc' \in [Node -> {"idle", "search", "claim", "claimed", "refused", "look", "renew", "renewed"}]
    BY DEF Land, TypeOK
  <2> QED
    BY <1>d, <2>1 DEF TypeOK, Land, heldVars, taskVars
<1>2. ClocksAgree'
  BY DEF ClocksAgree, Land
<1>f. /\ \A m \in Node : HeldRecorded(m)'
      /\ \A m \in Node : pc'[m] = pc[m] => OpRecorded(m)'
      /\ \A q \in late' : LateRecorded(q)'
  BY <1>0, <1>a, LandingKeeps DEF Land, heldVars, taskVars
<1>5. \A m \in Node : OpRecorded(m)'
  <2> SUFFICES ASSUME NEW m \in Node PROVE OpRecorded(m)'
    OBVIOUS
  <2>0. started[m] + TTL \in Nat /\ \A t \in Term : expires[t] \in Nat /\ expires'[t] \in Nat
    BY <1>d DEF TypeOK, Time
  <2>1. CASE m = n
    <3>1. CASE pc[n] = "claim"
      <4>1. pc'[n] = "claimed"
        BY <3>1 DEF Land, TypeOK
      <4>2. target[n] # -1 /\ holder'[target[n]] = n /\ expires'[target[n]] >= started[n] + TTL
        BY <3>1, <1>b, <1>c, <1>d, <2>0, <2>1 DEF OpRecorded
      <4> QED
        BY <3>1, <4>1, <4>2, <2>1 DEF OpRecorded, Land, heldVars, taskVars
    <3>2. CASE pc[n] = "renew"
      <4>1. pc'[n] = "renewed"
        BY <3>2 DEF Land, TypeOK
      <4>2. expires'[term[n]] >= started[n] + TTL
        BY <3>2, <1>b, <1>c, <1>d, <2>0, <2>1
      <4> QED
        BY <3>2, <4>1, <4>2, <2>1 DEF OpRecorded, Land, heldVars, taskVars
    <3> QED
      BY <3>1, <3>2, <1>0 DEF InFlight
  <2>2. CASE m # n
    BY <1>f, <2>2 DEF Land, TypeOK
  <2> QED
    BY <2>1, <2>2
<1>7. SuccessorWaited'
  <2> SUFFICES ASSUME NEW u \in Term, u < MaxTerm, Claimed(u + 1)', NEW m \in Node
               PROVE  Spent(m, u)'
    BY DEF SuccessorWaited
  <2>0. u + 1 \in Term
    BY DEF Term
  <2>1. Claimed(u + 1)
    <3>1. CASE u + 1 = p.term /\ p.create
      BY <3>1, <1>b, <1>c DEF Claimed
    <3>2. CASE u + 1 = p.term /\ ~p.create
      BY <3>2, <1>d DEF Claimed
    <3>3. CASE u + 1 # p.term
      BY <3>3, <2>0, <1>d DEF Claimed, Exists, Land, TypeOK
    <3> QED
      BY <3>1, <3>2, <3>3
  <2>2. Spent(m, u)
    BY <2>1 DEF SuccessorWaited
  <2>3. pc'[m] = "claimed" /\ target[m] = u => pc[m] = "claimed"
    <3> SUFFICES ASSUME m = n, pc[n] = "claim", target[n] = u PROVE FALSE
      BY <1>0 DEF Land, TypeOK, InFlight
    <3>1. ~Exists(u)
      BY <1>b, <1>c, <1>d
    <3>2. Newest = u - 1
      BY <1>b, <1>c, <1>d
    <3>3. ~Exists(u + 1)
      BY <3>2, <2>0, NewestIs DEF Term
    <3>4. PICK r \in Put : LateRecorded(r) /\ r.create /\ r.term = u + 1
      BY <2>1, <3>3, PutOfIs, <3>1 DEF Claimed, TypeOK, OpRecorded, Term, InFlight, PutOf
    <3> QED
      BY <3>4, <3>1 DEF LateRecorded, Term
  <2> QED
    BY <2>2, <2>3 DEF Spent, Land, heldVars
<1> QED
  BY <1>1, <1>2, <1>d, <1>f, <1>5, <1>7

(* A PUT lands after its caller has gone.                                  *)
LEMMA LateLandKeeps ==
    ASSUME LeaseInv, NEW p \in late, LateLand(p)
    PROVE  LeaseInv'
<1> USE LeaseAssumption DEF LeaseInv
<1>0. p \in Put /\ LateRecorded(p) /\ p.term \in Term
  BY DEF TypeOK, Put
<1>1. CASE Admits(p)
  <2>0. Landing(p) /\ UNCHANGED <<clock, heldVars, opVars, taskVars>> /\ late' = late \ {p}
    BY <1>1 DEF LateLand
  <2>1. /\ holder' \in [Term -> Node \cup {None}]
        /\ expires' \in [Term -> Time]
        /\ \A t \in Term : t # p.term => holder'[t] = holder[t]
        /\ p.create => ~Exists(p.term)
        /\ ~p.create => Exists(p.term)
        /\ Contiguous'
    BY <1>0, <1>1, <2>0, LandingExtends
  <2>2. TypeOK'
    BY <2>0, <2>1 DEF TypeOK, heldVars, opVars, taskVars
  <2>3. ClocksAgree'
    BY <2>0 DEF ClocksAgree
  <2>4. /\ \A m \in Node : HeldRecorded(m)'
        /\ \A m \in Node : OpRecorded(m)'
        /\ \A q \in late' : LateRecorded(q)'
    BY <1>0, <1>1, <2>0, LandingKeeps DEF heldVars, opVars, taskVars
  <2>5. SuccessorWaited'
    <3> SUFFICES ASSUME NEW u \in Term, u < MaxTerm, Claimed(u + 1)', NEW m \in Node
                 PROVE  Spent(m, u)'
      BY DEF SuccessorWaited
    <3>1. u + 1 \in Term
      BY DEF Term
    <3>2. Claimed(u + 1)
      <4>1. CASE u + 1 = p.term
        BY <4>1, <2>1 DEF Claimed
      <4>2. CASE u + 1 # p.term
        BY <4>2, <3>1, <2>0, <2>1 DEF Claimed, Exists, opVars
      <4> QED
        BY <4>1, <4>2
    <3>3. Spent(m, u)
      BY <3>2 DEF SuccessorWaited
    <3> QED
      BY <3>3, <2>0 DEF Spent, heldVars, opVars
  <2> QED
    BY <2>1, <2>2, <2>3, <2>4, <2>5
<1>2. CASE ~Admits(p)
  <2>0. UNCHANGED <<clock, objects, heldVars, opVars, taskVars>> /\ late' \subseteq late
    BY <1>2 DEF LateLand, objects
  <2>1. TypeOK' /\ ClocksAgree' /\ Contiguous'
    BY <2>0 DEF TypeOK, ClocksAgree, Contiguous, Exists, objects, heldVars, opVars, taskVars
  <2>2. \A m \in Node : HeldRecorded(m)' /\ OpRecorded(m)'
    BY <2>0 DEF HeldRecorded, OpRecorded, Exists, objects, heldVars, opVars, taskVars
  <2>3. \A q \in late' : LateRecorded(q)'
    BY <2>0 DEF LateRecorded, Exists, objects
  <2>4. SuccessorWaited'
    BY <2>0 DEF SuccessorWaited, Claimed, Spent, Exists, objects, heldVars, opVars
  <2> QED
    BY <2>1, <2>2, <2>3, <2>4
<1> QED
  BY <1>1, <1>2

-----------------------------------------------------------------------------

(* Every step of every node keeps the inductive invariant.                 *)
THEOREM NextKeeps == LeaseInv /\ [Next]_vars => LeaseInv'
<1> SUFFICES ASSUME LeaseInv, [Next]_vars PROVE LeaseInv'
  OBVIOUS
<1>1. ASSUME NEW n \in Node, Step(n) PROVE LeaseInv'
  BY <1>1, TickKeeps, AcquireStartKeeps, AlreadyHeldKeeps, AcquireFirstKeeps, AcquireNextKeeps,
     AcquireTakenKeeps, LandKeeps, RefuseKeeps, AcquiredKeeps, RenewLapsedKeeps,
     RenewStartKeeps, RenewSupersededKeeps, RenewLookKeeps, RenewedKeeps,
     ClaimRefusedKeeps, RenewRefusedKeeps, ErrsKeeps, RestartKeeps DEF Step
<1>2. ASSUME NEW p \in late, LateLand(p) PROVE LeaseInv'
  BY <1>2, LateLandKeeps
<1>3. CASE UNCHANGED vars
  <2>1. UNCHANGED <<clock, objects, heldVars, opVars, taskVars, late>>
    BY <1>3 DEF vars
  <2>2. TypeOK' /\ ClocksAgree' /\ Contiguous'
    BY <2>1 DEF LeaseInv, TypeOK, ClocksAgree, Contiguous, Exists,
               objects, heldVars, opVars, taskVars
  <2>3. \A m \in Node : HeldRecorded(m)' /\ OpRecorded(m)'
    BY <2>1 DEF LeaseInv, HeldRecorded, OpRecorded, Exists, objects, heldVars, opVars, taskVars
  <2>4. \A q \in late' : LateRecorded(q)'
    BY <2>1 DEF LeaseInv, LateRecorded, Exists, objects
  <2>5. SuccessorWaited'
    BY <2>1 DEF LeaseInv, SuccessorWaited, Claimed, Spent, Exists, objects, heldVars, opVars
  <2> QED
    BY <2>2, <2>3, <2>4, <2>5 DEF LeaseInv
<1> QED
  BY <1>1, <1>2, <1>3 DEF Next

(* The inductive invariant holds of every reachable state of the lease.    *)
THEOREM LeaseInvariant == Spec => []LeaseInv
<1>1. Init => LeaseInv
  BY InitEstablishes
<1>2. LeaseInv /\ [Next]_vars => LeaseInv'
  BY NextKeeps
<1> QED
  BY <1>1, <1>2, PTL DEF Spec

(* Every variable of the lease keeps its type: no deadline, term or clock  *)
(* leaves its range.                                                       *)
THEOREM LeaseTypes == Spec => []TypeOK
<1>1. LeaseInv => TypeOK
  BY DEF LeaseInv
<1> QED
  BY <1>1, LeaseInvariant, PTL

(* A node that holds has a term of its own, and no later term exists: a    *)
(* successor has waited for its deadline.                                  *)
LEMMA HolderIsNewest ==
    ASSUME LeaseInv, NEW n \in Node, IsHeld(n)
    PROVE  term[n] \in Term /\ holder[term[n]] = n /\ term[n] = Newest
<1> USE LeaseAssumption DEF LeaseInv
<1>1. clock[n] \in Nat /\ until[n] \in Nat /\ clock[n] < until[n]
  BY DEF IsHeld, TypeOK, Time
<1>2. term[n] \in Term /\ holder[term[n]] = n
  BY <1>1 DEF HeldRecorded, TypeOK, Term, MaybeTerm
<1>3. Exists(term[n]) /\ term[n] <= Newest
  BY <1>2, NewestIs DEF Exists
<1>4. ASSUME term[n] < Newest PROVE FALSE
  <2>1. term[n] + 1 \in Term /\ Exists(term[n] + 1)
    BY <1>2, <1>4, NewestIs DEF Term, MaybeTerm
  <2>2. Spent(n, term[n])
    BY <1>2, <2>1 DEF SuccessorWaited, Claimed, Term
  <2> QED
    BY <1>1, <2>2 DEF Spent
<1> QED
  BY <1>2, <1>3, <1>4, NewestIs DEF Term, MaybeTerm

(* Two nodes never both believe they lead (lease.rs, is_held): for any     *)
(* number of nodes, any TTL and any skew the clocks respect.               *)
THEOREM LeaseSafety == Spec => []LeaseMutex
<1>1. LeaseInv => LeaseMutex
  BY HolderIsNewest DEF LeaseMutex
<1> QED
  BY <1>1, LeaseInvariant, PTL

(* No renewal, however late it lands, moves a term's expiry back or        *)
(* changes whose it is (lease.rs, renew's IfMatches token).                *)
THEOREM TermsExtend == Spec => TermsOnlyExtend
<1> DEFINE Extends == \A t \in Term : Exists(t) =>
                          holder'[t] = holder[t] /\ expires'[t] >= expires[t]
<1>1. ASSUME LeaseInv, [Next]_vars PROVE [Extends]_vars
  <2>1. ASSUME UNCHANGED objects PROVE Extends
    BY <1>1, <2>1, LeaseAssumption DEF objects, LeaseInv, TypeOK, Time
  <2>2. ASSUME NEW p \in Put, LateRecorded(p), Admits(p), Landing(p) PROVE Extends
    BY <1>1, <2>2, LandingExtends
  <2>3. ASSUME NEW n \in Node, Land(n) PROVE Extends
    BY <1>1, <2>2, <2>3, PutOfIs DEF Land
  <2>4. ASSUME NEW p \in late, LateLand(p) PROVE Extends
    BY <1>1, <2>1, <2>2, <2>4 DEF LateLand, LeaseInv, TypeOK
  <2>5. ASSUME NEW n \in Node, Step(n) PROVE Extends
    BY <2>1, <2>3, <2>5 DEF Step, Tick, AcquireStart, AlreadyHeld, AcquireFirst, AcquireNext,
       AcquireTaken, Refuse, Acquired, RenewLapsed, RenewStart, RenewSuperseded, RenewLook,
       Renewed, ClaimRefused, RenewRefused, Errs, Restart
  <2> QED
    BY <1>1, <2>4, <2>5 DEF Next
<1>2. LeaseInv /\ [Next]_vars => [Extends]_vars
  BY <1>1
<1> QED
  BY <1>2, LeaseInvariant, PTL DEF Spec, TermsOnlyExtend

-----------------------------------------------------------------------------
(* The refinement of Leadership: what its variables are in a state of the  *)
(* lease.                                                                  *)

LeaderView == /\ LeaderNow \in Node \cup {None}
              /\ \A n \in Node : IsHeld(n) <=> n = LeaderNow

PendingView == /\ PendingNow \in Node \cup {None}
               /\ \A n \in Node : Claimant(n) <=> n = PendingNow

NewestView == /\ Newest \in MaybeTerm
              /\ \A t \in Term : Exists(t) <=> t <= Newest

(* Whoever leads, by Leadership's reckoning, is the one node that holds.   *)
LEMMA LeaderIs == LeaseInv => LeaderView
<1> SUFFICES ASSUME LeaseInv PROVE LeaderView
  OBVIOUS
<1> USE DEF LeaderView
<1>1. \A n, m \in Node : IsHeld(n) /\ IsHeld(m) => n = m
  BY HolderIsNewest
<1>2. CASE \E n \in Node : IsHeld(n)
  <2>1. LeaderNow \in Node /\ IsHeld(LeaderNow)
    BY <1>2 DEF LeaderNow
  <2> QED
    BY <1>1, <2>1
<1>3. CASE ~\E n \in Node : IsHeld(n)
  BY <1>3, LeaseAssumption DEF LeaderNow
<1> QED
  BY <1>2, <1>3

(* The challenger whose answer is on its way is the one whose name the     *)
(* newest term bears.                                                      *)
LEMMA PendingIs == LeaseInv => PendingView
<1> SUFFICES ASSUME LeaseInv PROVE PendingView
  OBVIOUS
<1> USE DEF PendingView
<1>1. \A n \in Node : Claimant(n) => holder[Newest] = n
  BY DEF LeaseInv, OpRecorded, Claimant
<1>2. CASE \E n \in Node : Claimant(n)
  <2>1. PendingNow \in Node /\ Claimant(PendingNow)
    BY <1>2 DEF PendingNow
  <2> QED
    BY <1>1, <2>1
<1>3. CASE ~\E n \in Node : Claimant(n)
  BY <1>3, LeaseAssumption DEF PendingNow
<1> QED
  BY <1>2, <1>3

(* The terms that exist are the ones up to the newest.                     *)
LEMMA NewestNow == LeaseInv => NewestView
  BY NewestIs DEF LeaseInv, NewestView

(* The three lemmas above, of the state after a step.                      *)
LEMMA ViewNext == LeaseInv' => LeaderView' /\ PendingView' /\ NewestView'
<1>1. LeaseInv' => LeaderView'
  BY LeaderIs, PTL
<1>2. LeaseInv' => PendingView'
  BY PendingIs, PTL
<1>3. LeaseInv' => NewestView'
  BY NewestNow, PTL
<1> QED
  BY <1>1, <1>2, <1>3

(* No object created, no term newer.                                       *)
LEMMA NewestSame ==
    ASSUME LeaseInv, LeaseInv', \A t \in Term : holder'[t] = holder[t]
    PROVE  Newest' = Newest
<1>1. Newest \in MaybeTerm /\ Newest' \in MaybeTerm
  BY NewestNow, ViewNext DEF NewestView
<1>2. \A t \in Term : t <= Newest <=> t <= Newest'
  BY NewestNow, ViewNext DEF NewestView, Exists
<1> QED
  BY <1>1, <1>2, LeaseAssumption DEF Term, MaybeTerm

(* A step that creates no term and touches only what n knows of its own:   *)
(* n begins to lead what it claimed, forfeits it, lapses, or none of these.*)
LEMMA OwnStep ==
    ASSUME LeaseInv, LeaseInv', NEW n \in Node, UNCHANGED holder,
           \A m \in Node \ {n} : (IsHeld(m)' <=> IsHeld(m)) /\ (Claimant(m)' <=> Claimant(m)),
           Claimant(n)' => Claimant(n),
           IsHeld(n)' => IsHeld(n) \/ (Claimant(n) /\ ~Claimant(n)')
    PROVE  [L!Next]_(L!vars)
<1> USE LeaseAssumption
<1>1. /\ LeaderNow \in Node \cup {None}
      /\ \A m \in Node : IsHeld(m) <=> m = LeaderNow
      /\ PendingNow \in Node \cup {None}
      /\ \A m \in Node : Claimant(m) <=> m = PendingNow
  BY LeaderIs, PendingIs DEF LeaderView, PendingView
<1>2. /\ LeaderNow' \in Node \cup {None}
      /\ \A m \in Node : IsHeld(m)' <=> m = LeaderNow'
      /\ PendingNow' \in Node \cup {None}
      /\ \A m \in Node : Claimant(m)' <=> m = PendingNow'
  BY ViewNext DEF LeaderView, PendingView
<1>3. Newest' = Newest
  BY NewestSame
<1>4. CASE Claimant(n)
  <2>1. \A m \in Node : ~IsHeld(m)
    <3>1. pc[n] = "claimed" /\ holder[Newest] = n /\ until[n] <= clock[n]
      BY <1>4 DEF LeaseInv, OpRecorded, Claimant
    <3>2. ~IsHeld(n)
      BY <3>1 DEF IsHeld, LeaseInv, TypeOK, Time
    <3> QED
      BY <3>1, <3>2, HolderIsNewest
  <2>2. LeaderNow = None /\ PendingNow = n
    BY <1>1, <1>4, <2>1
  <2>3. CASE Claimant(n)'
    BY <1>1, <1>2, <1>3, <1>4, <2>1, <2>3 DEF L!vars
  <2>4. CASE ~Claimant(n)' /\ IsHeld(n)'
    <3>1. LeaderNow' = n /\ PendingNow' = None
      BY <1>1, <1>2, <2>2, <2>4
    <3> QED
      BY <1>3, <2>2, <3>1 DEF L!Next, L!Lead
  <2>5. CASE ~Claimant(n)' /\ ~IsHeld(n)'
    <3>1. LeaderNow' = None /\ PendingNow' = None
      BY <1>1, <1>2, <2>1, <2>2, <2>5
    <3> QED
      BY <1>3, <2>2, <3>1 DEF L!Next, L!Forfeit
  <2> QED
    BY <2>3, <2>4, <2>5
<1>5. CASE ~Claimant(n)
  <2>1. PendingNow' = PendingNow
    BY <1>1, <1>2, <1>5
  <2>2. CASE IsHeld(n) /\ ~IsHeld(n)'
    <3>1. LeaderNow = n /\ LeaderNow' = None
      BY <1>1, <1>2, <2>2
    <3> QED
      BY <1>3, <2>1, <3>1 DEF L!Next, L!Lapse
  <2>3. CASE IsHeld(n) <=> IsHeld(n)'
    <3>1. LeaderNow' = LeaderNow
      BY <1>1, <1>2, <2>3
    <3> QED
      BY <1>3, <2>1, <3>1 DEF L!vars
  <2> QED
    BY <1>5, <2>2, <2>3
<1> QED
  BY <1>4, <1>5

(* The same, read off the variables a node's action changes.               *)
LEMMA OwnAction ==
    ASSUME LeaseInv, LeaseInv', NEW n \in Node, UNCHANGED objects,
           \A m \in Node \ {n} : /\ clock'[m] = clock[m] /\ until'[m] = until[m]
                                 /\ pc'[m] = pc[m] /\ target'[m] = target[m],
           pc'[n] = "claimed" => pc[n] = "claimed" /\ target'[n] = target[n],
           IsHeld(n)' => IsHeld(n) \/ (Claimant(n) /\ pc'[n] # "claimed")
    PROVE  [L!Next]_(L!vars)
<1>1. Newest' = Newest
  BY NewestSame DEF objects
<1>2. \A m \in Node \ {n} : (IsHeld(m)' <=> IsHeld(m)) /\ (Claimant(m)' <=> Claimant(m))
  BY <1>1 DEF IsHeld, Claimant
<1>3. Claimant(n)' => Claimant(n)
  BY <1>1 DEF Claimant
<1>4. IsHeld(n)' => IsHeld(n) \/ (Claimant(n) /\ ~Claimant(n)')
  BY DEF Claimant
<1> QED
  BY <1>2, <1>3, <1>4, OwnStep DEF objects

(* Time passing can end a leadership, and start none.                      *)
LEMMA TickLeads ==
    ASSUME LeaseInv, LeaseInv', NEW n \in Node, Tick(n)
    PROVE  [L!Next]_(L!vars)
<1> USE DEF Tick, heldVars, opVars
<1>1. \A m \in Node \ {n} : /\ clock'[m] = clock[m] /\ until'[m] = until[m]
                             /\ pc'[m] = pc[m] /\ target'[m] = target[m]
  BY DEF LeaseInv, TypeOK
<1>2. IsHeld(n)' => IsHeld(n)
  BY LeaseAssumption DEF IsHeld, LeaseInv, TypeOK, Time
<1> QED
  BY <1>1, <1>2, OwnAction

(* An operation that starts, goes on or is refused moves no deadline.      *)
LEMMA OpLeads ==
    ASSUME LeaseInv, LeaseInv', NEW n \in Node, UNCHANGED <<clock, objects, until>>,
           \A m \in Node \ {n} : pc'[m] = pc[m] /\ target'[m] = target[m],
           pc'[n] # "claimed"
    PROVE  [L!Next]_(L!vars)
<1>1. IsHeld(n)' => IsHeld(n)
  BY DEF IsHeld
<1> QED
  BY <1>1, OwnAction

(* Losing the lease ends a leadership, if there was one.                   *)
LEMMA LoseLeads ==
    ASSUME LeaseInv, LeaseInv', NEW n \in Node, UNCHANGED <<clock, objects>>, Lose(n),
           \A m \in Node \ {n} : pc'[m] = pc[m] /\ target'[m] = target[m],
           pc'[n] # "claimed"
    PROVE  [L!Next]_(L!vars)
<1>1. \A m \in Node \ {n} : until'[m] = until[m]
  BY DEF Lose, LeaseInv, TypeOK
<1>2. until'[n] = 0 /\ clock'[n] \in Nat
  BY LeaseAssumption DEF Lose, LeaseInv, TypeOK
<1>3. ~IsHeld(n)'
  BY <1>2 DEF IsHeld
<1> QED
  BY <1>1, <1>3, OwnAction

(* The end of an operation, of whatever outcome, touches n's alone.        *)
LEMMA FinishOwn ==
    ASSUME LeaseInv, NEW n \in Node, NEW ph, Finish(n, ph)
    PROVE  /\ pc'[n] = "idle"
           /\ \A m \in Node \ {n} : pc'[m] = pc[m] /\ target'[m] = target[m]
  BY DEF Finish, LeaseInv, TypeOK

(* A claim's answer makes its sender leader if no later term exists and    *)
(* its deadline is to come; a later term means the deadline is past.       *)
LEMMA AcquiredLeads ==
    ASSUME LeaseInv, LeaseInv', NEW n \in Node, Acquired(n)
    PROVE  [L!Next]_(L!vars)
<1> USE LeaseAssumption DEF Acquired
<1>1. /\ pc'[n] = "idle"
      /\ \A m \in Node \ {n} : pc'[m] = pc[m] /\ target'[m] = target[m]
  BY FinishOwn
<1>2. /\ until'[n] = started[n] + TTL
      /\ \A m \in Node \ {n} : until'[m] = until[m]
  BY DEF LeaseInv, TypeOK
<1>3. IsHeld(n)' => Claimant(n)
  <2>1. target[n] \in Term /\ Exists(target[n]) /\ target[n] <= Newest /\ Newest \in MaybeTerm
    <3>1. target[n] \in Term /\ Exists(target[n])
      BY DEF LeaseInv, OpRecorded, TypeOK, Term, MaybeTerm, Exists
    <3> QED
      BY <3>1, NewestNow DEF NewestView
  <2>2. ASSUME target[n] < Newest PROVE ~IsHeld(n)'
    <3>1. target[n] + 1 \in Term /\ Exists(target[n] + 1) /\ target[n] < MaxTerm
      BY <2>1, <2>2, NewestNow DEF NewestView, Term, MaybeTerm
    <3>2. Spent(n, target[n])
      BY <2>1, <3>1 DEF LeaseInv, SuccessorWaited, Claimed
    <3>3. started[n] + TTL <= clock[n] /\ clock[n] \in Nat /\ started[n] \in Nat
      BY <3>2 DEF Spent, LeaseInv, TypeOK
    <3> QED
      BY <1>2, <3>3 DEF IsHeld
  <2> QED
    BY <2>1, <2>2 DEF Claimant, Term, MaybeTerm
<1> QED
  BY <1>1, <1>2, <1>3, OwnAction

(* A renewal's answer extends a deadline only while it is yet to come.     *)
LEMMA RenewedLeads ==
    ASSUME LeaseInv, LeaseInv', NEW n \in Node, Renewed(n)
    PROVE  [L!Next]_(L!vars)
<1> USE LeaseAssumption DEF Renewed
<1>1. /\ pc'[n] = "idle"
      /\ \A m \in Node \ {n} : pc'[m] = pc[m] /\ target'[m] = target[m]
  BY FinishOwn
<1>2. \A m \in Node \ {n} : until'[m] = until[m]
  BY DEF LeaseInv, TypeOK
<1>3. IsHeld(n)' => IsHeld(n)
  <2>1. clock[n] \in Nat /\ until[n] \in Nat /\ clock' = clock
    BY DEF LeaseInv, TypeOK, Time
  <2>2. until'[n] = IF clock[n] < until[n] - SKEW THEN started[n] + TTL ELSE until[n]
    BY DEF LeaseInv, TypeOK
  <2>3. CASE clock[n] < until[n] - SKEW
    BY <2>1, <2>3 DEF IsHeld
  <2>4. CASE ~(clock[n] < until[n] - SKEW)
    BY <2>1, <2>2, <2>4 DEF IsHeld
  <2> QED
    BY <2>3, <2>4
<1> QED
  BY <1>1, <1>2, <1>3, OwnAction

(* An object that creates a term: nobody leads then, since whoever led the *)
(* newest has been waited for, and nobody waits for an older answer.       *)
LEMMA CreateLeads ==
    ASSUME LeaseInv, LeaseInv', NEW p \in Put, p.create, LateRecorded(p), Admits(p), Landing(p),
           Claimed(p.term), UNCHANGED <<clock, heldVars, target>>
    PROVE  /\ LeaderNow = None /\ LeaderNow' = None
           /\ Newest' = Newest + 1 /\ Newest' = p.term
<1> USE LeaseAssumption
<1>1. /\ p.term \in Term /\ Newest = p.term - 1 /\ ~Exists(p.term) /\ holder'[p.term] = p.holder
      /\ p.holder \in Node
      /\ \A t \in Term : t # p.term => holder'[t] = holder[t]
  BY LandingExtends DEF Put
<1>2. \A t \in Term : Exists(t)' <=> t <= p.term
  BY <1>1, NewestNow DEF NewestView, Exists, Term
<1>3. Newest' = p.term
  <2>1. Newest' \in MaybeTerm /\ \A t \in Term : Exists(t)' <=> t <= Newest'
    BY ViewNext DEF NewestView
  <2> QED
    BY <1>1, <1>2, <2>1 DEF Term, MaybeTerm
<1>4. Newest' = Newest + 1
  BY <1>1, <1>3 DEF Term
<1>5. \A n \in Node : ~IsHeld(n)
  <2> SUFFICES ASSUME NEW n \in Node, IsHeld(n) PROVE FALSE
    OBVIOUS
  <2>1. term[n] \in Term /\ term[n] = Newest
    BY HolderIsNewest
  <2>2. term[n] < MaxTerm /\ term[n] + 1 = p.term
    BY <1>1, <2>1 DEF Term
  <2>3. Spent(n, term[n])
    BY <2>1, <2>2 DEF LeaseInv, SuccessorWaited
  <2>4. clock[n] \in Nat /\ until[n] \in Nat /\ until[n] <= clock[n]
    BY <2>3 DEF Spent, LeaseInv, TypeOK, Time
  <2> QED
    BY <2>4 DEF IsHeld
<1>6. \A n \in Node : ~IsHeld(n)'
  BY <1>5 DEF IsHeld, heldVars
<1>7. LeaderNow = None
  BY <1>5 DEF LeaderNow
<1>8. LeaderNow' = None
  BY <1>6 DEF LeaderNow
<1> QED
  BY <1>3, <1>4, <1>7, <1>8

(* The PUT of a claim creates a term its sender may come to lead; that of  *)
(* a renewal changes nothing Leadership sees.                              *)
LEMMA LandLeads ==
    ASSUME LeaseInv, LeaseInv', NEW n \in Node, Land(n)
    PROVE  [L!Next]_(L!vars)
<1> USE LeaseAssumption DEF Land
<1>1. PutOf(n) \in Put /\ LateRecorded(PutOf(n))
  BY PutOfIs
<1>2. CASE pc[n] = "claim"
  <2>1. PutOf(n).create /\ PutOf(n).term = target[n] /\ PutOf(n).holder = n
    BY <1>2 DEF PutOf
  <2>2. Claimed(PutOf(n).term)
    BY <1>2, <2>1 DEF Claimed
  <2>3. /\ LeaderNow = None /\ LeaderNow' = None
        /\ Newest' = Newest + 1 /\ Newest' = target[n]
    BY <1>1, <2>1, <2>2, CreateLeads
  <2>4. pc'[n] = "claimed" /\ target'[n] = target[n]
    BY <1>2 DEF LeaseInv, TypeOK
  <2>5. Claimant(n)'
    BY <2>3, <2>4 DEF Claimant
  <2>6. PendingNow' = n
    BY <2>5, ViewNext DEF PendingView
  <2> QED
    BY <2>3, <2>6 DEF L!Next, L!Create
<1>3. CASE pc[n] = "renew"
  <2>1. ~PutOf(n).create
    BY <1>3 DEF PutOf
  <2>2. \A t \in Term : holder'[t] = holder[t]
    BY <1>1, <2>1, LandingExtends DEF Put
  <2>3. Newest' = Newest
    BY <2>2, NewestSame
  <2>4. \A m \in Node : pc'[m] = "claimed" <=> pc[m] = "claimed"
    BY <1>3 DEF LeaseInv, TypeOK
  <2>5. \A m \in Node : Claimant(m)' <=> Claimant(m)
    BY <2>3, <2>4 DEF Claimant
  <2>6. PendingNow' = PendingNow
    BY <2>5, PendingIs, ViewNext DEF PendingView
  <2>7. LeaderNow' = LeaderNow
    BY LeaderIs, ViewNext DEF LeaderView, IsHeld, heldVars
  <2> QED
    BY <2>3, <2>6, <2>7 DEF L!vars
<1> QED
  BY <1>2, <1>3 DEF InFlight

(* A PUT nobody waits for creates a term nobody will lead, or nothing that *)
(* Leadership sees.                                                        *)
LEMMA LateLandLeads ==
    ASSUME LeaseInv, LeaseInv', NEW p \in late, LateLand(p)
    PROVE  [L!Next]_(L!vars)
<1> USE LeaseAssumption DEF LateLand, opVars
<1>1. p \in Put /\ LateRecorded(p)
  BY DEF LeaseInv, TypeOK
<1>2. CASE Admits(p) /\ p.create
  <2>1. Claimed(p.term) /\ Landing(p)
    BY <1>2 DEF Claimed
  <2>2. /\ LeaderNow = None /\ LeaderNow' = None
        /\ Newest' = Newest + 1 /\ Newest' = p.term
    BY <1>1, <1>2, <2>1, CreateLeads
  <2>3. \A m \in Node : ~Claimant(m)'
    <3> SUFFICES ASSUME NEW m \in Node, pc[m] = "claimed", target[m] = p.term PROVE FALSE
      BY <2>2 DEF Claimant
    <3>1. ~Exists(p.term)
      BY <1>2 DEF Admits
    <3>2. Exists(target[m])
      BY DEF LeaseInv, OpRecorded, Exists
    <3> QED
      BY <3>1, <3>2
  <2>4. PendingNow' = None
    BY <2>3 DEF PendingNow
  <2> QED
    BY <2>2, <2>4 DEF L!Next, L!Create
<1>3. CASE ~(Admits(p) /\ p.create)
  <2>2. \A t \in Term : holder'[t] = holder[t]
    BY <1>1, <1>3, LandingExtends DEF objects, Put
  <2>3. Newest' = Newest
    BY <2>2, NewestSame
  <2>5. \A m \in Node : Claimant(m)' <=> Claimant(m)
    BY <2>3 DEF Claimant
  <2>6. PendingNow' = PendingNow
    BY <2>5, PendingIs, ViewNext DEF PendingView
  <2>7. LeaderNow' = LeaderNow
    BY LeaderIs, ViewNext DEF LeaderView, IsHeld, heldVars
  <2> QED
    BY <2>3, <2>6, <2>7 DEF L!vars
<1> QED
  BY <1>2, <1>3

(* Every step of the lease is a step of Leadership, or nothing to it.      *)
LEMMA NextLeads == LeaseInv /\ LeaseInv' /\ [Next]_vars => [L!Next]_(L!vars)
<1> SUFFICES ASSUME LeaseInv, LeaseInv', [Next]_vars PROVE [L!Next]_(L!vars)
  OBVIOUS
<1>1. ASSUME NEW n \in Node, Step(n) PROVE [L!Next]_(L!vars)
  <2>1. CASE Tick(n)
    BY <2>1, TickLeads
  <2>2. CASE AcquireStart(n) \/ AcquireFirst(n) \/ (\E t \in Term : AcquireNext(n, t))
             \/ Refuse(n) \/ RenewStart(n) \/ RenewLook(n)
    <3>1. UNCHANGED <<clock, objects, until>> /\ pc'[n] # "claimed"
      BY <2>2 DEF AcquireStart, AcquireFirst, AcquireNext, Refuse, RenewStart, RenewLook,
                  heldVars, LeaseInv, TypeOK
    <3>2. \A m \in Node \ {n} : pc'[m] = pc[m] /\ target'[m] = target[m]
      BY <2>2 DEF AcquireStart, AcquireFirst, AcquireNext, Refuse, RenewStart, RenewLook,
                  LeaseInv, TypeOK
    <3> QED
      BY <3>1, <3>2, OpLeads
  <2>3. CASE AlreadyHeld(n) \/ (\E t \in Term : AcquireTaken(n, t)) \/ ClaimRefused(n) \/ Errs(n)
    <3>1. UNCHANGED <<clock, objects, until>>
      BY <2>3 DEF AlreadyHeld, AcquireTaken, ClaimRefused, Errs, heldVars
    <3>2. \E ph : Finish(n, ph)
      BY <2>3 DEF AlreadyHeld, AcquireTaken, ClaimRefused, Errs
    <3>3. pc'[n] = "idle" /\ \A m \in Node \ {n} : pc'[m] = pc[m] /\ target'[m] = target[m]
      BY <3>2, FinishOwn
    <3> QED
      BY <3>1, <3>3, OpLeads
  <2>4. CASE RenewLapsed(n) \/ RenewSuperseded(n) \/ RenewRefused(n)
    <3>1. UNCHANGED <<clock, objects>> /\ Lose(n)
      BY <2>4 DEF RenewLapsed, RenewSuperseded, RenewRefused
    <3>2. \E ph : Finish(n, ph)
      BY <2>4 DEF RenewLapsed, RenewSuperseded, RenewRefused
    <3>3. pc'[n] = "idle" /\ \A m \in Node \ {n} : pc'[m] = pc[m] /\ target'[m] = target[m]
      BY <3>2, FinishOwn
    <3> QED
      BY <3>1, <3>3, LoseLeads
  <2>5. CASE Restart(n)
    <3>1. pc'[n] = "idle" /\ \A m \in Node \ {n} : pc'[m] = pc[m] /\ target'[m] = target[m]
      BY <2>5 DEF Restart, LeaseInv, TypeOK
    <3> QED
      BY <2>5, <3>1, LoseLeads DEF Restart
  <2>6. CASE Acquired(n) \/ Renewed(n) \/ Land(n)
    BY <2>6, AcquiredLeads, RenewedLeads, LandLeads
  <2> QED
    BY <1>1, <2>1, <2>2, <2>3, <2>4, <2>5, <2>6 DEF Step
<1>2. ASSUME NEW p \in late, LateLand(p) PROVE [L!Next]_(L!vars)
  BY <1>2, LateLandLeads
<1>3. CASE UNCHANGED vars
  <2>1. Newest' = Newest
    BY <1>3, NewestSame DEF vars, objects
  <2>2. PendingNow' = PendingNow
    BY <1>3, <2>1, PendingIs, ViewNext DEF PendingView, Claimant, vars, opVars
  <2>3. LeaderNow' = LeaderNow
    BY <1>3, LeaderIs, ViewNext DEF LeaderView, IsHeld, vars, heldVars
  <2> QED
    BY <2>1, <2>2, <2>3 DEF L!vars
<1> QED
  BY <1>1, <1>2, <1>3 DEF Next

LEMMA InitLeads == Init => L!Init
<1> SUFFICES ASSUME Init PROVE L!Init
  OBVIOUS
<1>1. Newest = -1
  BY DEF Newest, Exists, Init
<1>2. \A n \in Node : ~IsHeld(n) /\ ~Claimant(n)
  BY DEF Init, IsHeld, Claimant
<1>3. LeaderNow = None /\ PendingNow = None
  BY <1>2 DEF LeaderNow, PendingNow
<1> QED
  BY <1>1, <1>3 DEF L!Init

(* The lease, with its clocks, objects and late requests, implements       *)
(* Leadership: terms are led one at a time, each at most once and by the   *)
(* node that created it, and none is created while an earlier one is led.  *)
THEOREM LeaseImplements == Spec => Implements
<1>1. Init => L!Init
  BY InitLeads
<1>2. LeaseInv /\ LeaseInv' /\ [Next]_vars => [L!Next]_(L!vars)
  BY NextLeads
<1> QED
  BY <1>1, <1>2, LeaseInvariant, PTL DEF Spec, Implements, L!Spec

-----------------------------------------------------------------------------
(* The rate governor.                                                      *)

(* 2 ^ n counts the subsets of 1 .. n, so it is positive and rises.        *)
LEMMA PowerCounts ==
    ASSUME NEW n \in Nat
    PROVE  /\ IsFiniteSet(SUBSET (1 .. n))
           /\ Cardinality(SUBSET (1 .. n)) = 2 ^ n
<1>1. IsFiniteSet(1 .. n) /\ Cardinality(1 .. n) = n
  BY FS_Interval, SMT
<1> QED
  BY <1>1, FS_SUBSET

LEMMA PowerPositive ==
    ASSUME NEW n \in Nat
    PROVE  2 ^ n \in Nat \ {0}
<1>1. Cardinality(SUBSET (1 .. n)) \in Nat
  BY PowerCounts, FS_CardinalityType
<1>2. SUBSET (1 .. n) # {}
  OBVIOUS
<1>3. Cardinality(SUBSET (1 .. n)) # 0
  BY <1>2, PowerCounts, FS_EmptySet
<1> QED
  BY <1>1, <1>3, PowerCounts

LEMMA PowerRises ==
    ASSUME NEW m \in Nat, NEW n \in Nat, m <= n
    PROVE  2 ^ m <= 2 ^ n
<1>1. 1 .. m \subseteq 1 .. n
  OBVIOUS
<1>2. SUBSET (1 .. m) \subseteq SUBSET (1 .. n)
  BY <1>1
<1>3. Cardinality(SUBSET (1 .. m)) <= Cardinality(SUBSET (1 .. n))
  BY <1>2, PowerCounts, FS_Subset
<1> QED
  BY <1>3, PowerCounts

LEMMA ProductRises ==
    ASSUME NEW a \in Nat, NEW b \in Nat, NEW c \in Nat, b <= c
    PROVE  a * b \in Nat /\ a * b <= a * c
  BY SMT

LEMMA QuotientRises ==
    ASSUME NEW a \in Nat, NEW b \in Nat, a <= b, NEW p \in Nat \ {0}
    PROVE  a \div p \in Nat /\ b \div p \in Nat /\ a \div p <= b \div p
  BY SMT

LEMMA LeastRises ==
    ASSUME NEW a \in Nat, NEW b \in Nat, a <= b, NEW m \in Nat
    PROVE  Least(a, m) \in Nat /\ Least(a, m) <= Least(b, m)
  BY DEF Least

LEMMA Divided ==
    ASSUME NEW a \in Nat, NEW d \in Nat \ {0}
    PROVE  /\ a \div d \in Nat /\ a % d \in Nat /\ a % d < d
           /\ a = (d * (a \div d)) + (a % d)
  BY SMT

(* The ceiling is positive, and never falls as the prefix warms up.        *)
LEMMA CeilingRises ==
    ASSUME NEW k \in OpClass, NEW u \in Nat, NEW t \in Nat, u <= t
    PROVE  /\ Ceiling(k, u) \in Nat \ {0} /\ Ceiling(k, t) \in Nat \ {0}
           /\ Ceiling(k, u) <= Ceiling(k, t)
<1>1. CASE Policy.kind = "fixed"
  BY <1>1, GovAssumption DEF Ceiling
<1>2. CASE Policy.kind # "fixed" /\ Policy.period = 0
  BY <1>2, GovAssumption DEF Ceiling
<1>3. CASE Policy.kind # "fixed" /\ Policy.period # 0
  <2> DEFINE m == Least(u \div Policy.period, 32)
             n == Least(t \div Policy.period, 32)
  <2>1. m \in Nat /\ n \in Nat /\ m <= n
    BY <1>3, GovAssumption, QuotientRises, LeastRises DEF Least
  <2>2. Ceiling(k, u) = Least(Policy[k] * 2 ^ m, MAX_RATE)
    BY <1>3 DEF Ceiling
  <2>3. Ceiling(k, t) = Least(Policy[k] * 2 ^ n, MAX_RATE)
    BY <1>3 DEF Ceiling
  <2> HIDE DEF m, n
  <2>4. 2 ^ m \in Nat \ {0} /\ 2 ^ n \in Nat \ {0} /\ 2 ^ m <= 2 ^ n
    BY <2>1, PowerPositive, PowerRises
  <2>5. Policy[k] \in Nat \ {0} /\ MAX_RATE \in Nat \ {0}
    BY GovAssumption
  <2> DEFINE x == Policy[k] * 2 ^ m
             y == Policy[k] * 2 ^ n
  <2>6. x \in Nat \ {0} /\ y \in Nat \ {0} /\ x <= y
    <3> DEFINE f == Policy[k]
               g == 2 ^ m
               h == 2 ^ n
    <3>1. f \in Nat \ {0} /\ g \in Nat \ {0} /\ h \in Nat \ {0} /\ g <= h
      BY <2>4, <2>5
    <3>2. f * g \in Nat \ {0} /\ f * h \in Nat \ {0} /\ f * g <= f * h
      <4> HIDE DEF f, g, h
      <4> QED
        BY <3>1, SMT
    <3> QED
      BY <3>2
  <2>7. Ceiling(k, u) = Least(x, MAX_RATE) /\ Ceiling(k, t) = Least(y, MAX_RATE)
    BY <2>2, <2>3
  <2> HIDE DEF x, y
  <2> QED
    BY <2>5, <2>6, <2>7 DEF Least
<1> QED
  BY <1>1, <1>2, <1>3

-----------------------------------------------------------------------------
(* One class: its bucket, and the answers it has given.                    *)
Bucket == [tokens : Nat, last_refill : Nat, carry : Nat, carry_ceiling : Nat \ {0}]
GovAnswer == [at : Nat, ceiling : Nat \ {0}, delay : Nat]

Admitted(given, i, j) == {n \in i .. j : given[n].delay = 0}

(* A bucket is no fuller than its ceiling, and carries less than a token.  *)
Bounded(b) == b.tokens <= b.carry_ceiling /\ b.carry < SCALE

(* The answers were given at the ceiling of their time, the last one when  *)
(* the bucket was refilled last.                                           *)
Dated(k, b, given) ==
    /\ b.carry_ceiling = Ceiling(k, b.last_refill)
    /\ \A i \in DOMAIN given : given[i].at <= b.last_refill /\ given[i].ceiling = Ceiling(k, given[i].at)

(* What was admitted since the i-th answer, what is left and what is       *)
(* carried were full once or earned since, in SCALE-ths of a token.        *)
SpentOf(b, given) ==
    \A i \in DOMAIN given :
        SCALE * (Cardinality(Admitted(given, i, Len(given))) + b.tokens) + b.carry
            <= SCALE * b.carry_ceiling + (SCALE - 1) + (b.last_refill - given[i].at) * b.carry_ceiling

(* While all were refused since the i-th answer, at its ceiling, the       *)
(* bucket is empty and carries all that was earned.                        *)
Waited(b, given) ==
    \A i \in DOMAIN given :
        given[i].ceiling = b.carry_ceiling /\ (\A n \in i .. Len(given) : given[n].delay > 0) =>
            b.tokens = 0 /\ b.carry >= (b.last_refill - given[i].at) * b.carry_ceiling

(* RateHeld and DelaysHonoured, of one class.                              *)
HeldIn(given) ==
    \A j \in DOMAIN given : \A i \in 1 .. j :
        Cardinality(Admitted(given, i, j)) <=
            given[j].ceiling + (((given[j].at - given[i].at) * given[j].ceiling + SCALE - 1) \div SCALE)
HonouredIn(given) ==
    \A j \in DOMAIN given : \A i \in 1 .. j - 1 :
        (/\ given[i].delay > 0
         /\ given[j].at >= given[i].at + given[i].delay
         /\ given[j].ceiling = given[i].ceiling
         /\ \A n \in i .. j - 1 : given[n].delay > 0)
            => given[j].delay = 0

ToldOf(given) == \A i \in DOMAIN given : given[i].delay > 0 => given[i].delay = WaitFor(given[i].ceiling)

ClassInv(k, b, given) ==
    /\ b \in Bucket /\ given \in Seq(GovAnswer)
    /\ Bounded(b) /\ Dated(k, b, given) /\ ToldOf(given)
    /\ SpentOf(b, given) /\ Waited(b, given)
    /\ HeldIn(given) /\ HonouredIn(given)

GovInv ==
    /\ instant \in Nat
    /\ bucket = [k \in OpClass |-> bucket[k]] /\ answers = [k \in OpClass |-> answers[k]]
    /\ \A k \in OpClass : ClassInv(k, bucket[k], answers[k]) /\ bucket[k].last_refill <= instant

-----------------------------------------------------------------------------
LEMMA RefillTypes ==
    ASSUME NEW b \in Bucket, Bounded(b), NEW now \in Nat, b.last_refill <= now, NEW c \in Nat \ {0}
    PROVE  /\ Refill(b, now, c) \in Bucket
           /\ Refill(b, now, c).last_refill = now
           /\ Refill(b, now, c).carry_ceiling = c
           /\ Bounded(Refill(b, now, c))
<1> DEFINE carried == IF b.carry_ceiling = c THEN b.carry ELSE 0
           m == carried + (now - b.last_refill) * c
<1>1. carried \in Nat /\ now - b.last_refill \in Nat /\ SCALE \in Nat \ {0}
  BY GovAssumption DEF Bucket
<1>2. (now - b.last_refill) * c \in Nat
  BY <1>1, ProductRises
<1>3. m \in Nat
  BY <1>1, <1>2
<1>4. Refill(b, now, c) = [tokens |-> Least(b.tokens + m \div SCALE, c), last_refill |-> now,
                          carry |-> m % SCALE, carry_ceiling |-> c]
  BY DEF Refill
<1> HIDE DEF m
<1>5. m \div SCALE \in Nat /\ m % SCALE \in Nat /\ m % SCALE < SCALE
  BY <1>1, <1>3, Divided
<1>6. Least(b.tokens + m \div SCALE, c) \in Nat /\ Least(b.tokens + m \div SCALE, c) <= c
  BY <1>5 DEF Least, Bucket
<1> QED
  BY <1>4, <1>5, <1>6 DEF Bucket, Bounded

(* A refill adds no more than was carried and the time has earned.         *)
LEMMA RefillEarns ==
    ASSUME NEW b \in Bucket, Bounded(b), NEW now \in Nat, b.last_refill <= now, NEW c \in Nat \ {0}
    PROVE  SCALE * Refill(b, now, c).tokens + Refill(b, now, c).carry
               <= SCALE * b.tokens + b.carry + (now - b.last_refill) * c
<1> DEFINE carried == IF b.carry_ceiling = c THEN b.carry ELSE 0
           e == (now - b.last_refill) * c
           m == carried + e
<1>1. carried \in Nat /\ now - b.last_refill \in Nat /\ SCALE \in Nat \ {0} /\ carried <= b.carry
  BY GovAssumption DEF Bucket
<1>2. e \in Nat
  BY <1>1, ProductRises
<1>4. Refill(b, now, c) = [tokens |-> Least(b.tokens + m \div SCALE, c), last_refill |-> now,
                          carry |-> m % SCALE, carry_ceiling |-> c]
  BY DEF Refill
<1> HIDE DEF carried, e
<1>3. m \in Nat /\ m <= b.carry + e
  BY <1>1, <1>2 DEF Bucket
<1> DEFINE q == m \div SCALE
           r == m % SCALE
           t == Least(b.tokens + q, c)
<1>5. q \in Nat /\ r \in Nat /\ m = (SCALE * q) + r
  BY <1>1, <1>3, Divided
<1>7. Refill(b, now, c).tokens = t /\ Refill(b, now, c).carry = r
  BY <1>4
<1> HIDE DEF m, q, r
<1>6. t \in Nat /\ t <= b.tokens + q
  BY <1>5 DEF Least, Bucket
<1> HIDE DEF t
<1>8. SCALE * t <= SCALE * (b.tokens + q)
  BY <1>1, <1>5, <1>6, ProductRises DEF Bucket
<1>9. SCALE * (b.tokens + q) = SCALE * b.tokens + SCALE * q
  BY <1>1, <1>5 DEF Bucket
<1>10. SCALE * t \in Nat /\ SCALE * q \in Nat /\ SCALE * b.tokens \in Nat /\ b.carry \in Nat
  BY <1>1, <1>5, <1>6, ProductRises DEF Bucket
<1>11. SCALE * t + r <= SCALE * b.tokens + b.carry + e
  BY <1>2, <1>3, <1>5, <1>8, <1>9, <1>10
<1> QED
  BY <1>7, <1>11 DEF e

(* A bucket still empty after a refill has lost nothing of what it carried.*)
LEMMA RefillCarries ==
    ASSUME NEW b \in Bucket, Bounded(b), NEW now \in Nat, b.last_refill <= now, NEW c \in Nat \ {0},
           b.carry_ceiling = c, Refill(b, now, c).tokens = 0
    PROVE  /\ b.tokens = 0
           /\ Refill(b, now, c).carry = b.carry + (now - b.last_refill) * c
           /\ b.carry + (now - b.last_refill) * c < SCALE
<1> DEFINE m == b.carry + (now - b.last_refill) * c
<1>1. now - b.last_refill \in Nat /\ SCALE \in Nat \ {0}
  BY GovAssumption DEF Bucket
<1>2. (now - b.last_refill) * c \in Nat
  BY <1>1, ProductRises
<1>3. m \in Nat
  BY <1>1, <1>2 DEF Bucket
<1>4. Refill(b, now, c) = [tokens |-> Least(b.tokens + m \div SCALE, c), last_refill |-> now,
                          carry |-> m % SCALE, carry_ceiling |-> c]
  BY DEF Refill
<1> HIDE DEF m
<1>5. /\ m \div SCALE \in Nat /\ m % SCALE \in Nat /\ m % SCALE < SCALE
      /\ m = (SCALE * (m \div SCALE)) + (m % SCALE)
  BY <1>1, <1>3, Divided
<1>6. b.tokens = 0 /\ m \div SCALE = 0
  BY <1>4, <1>5 DEF Least, Bucket
<1>7. m = m % SCALE
  BY <1>1, <1>3, <1>5, <1>6
<1> QED
  BY <1>4, <1>5, <1>6, <1>7 DEF m

(* The delay told is the time one token takes, or more.                    *)
LEMMA WaitEarns ==
    ASSUME NEW c \in Nat \ {0}
    PROVE  WaitFor(c) \in Nat \ {0} /\ WaitFor(c) * c >= SCALE
<1>1. SCALE \in Nat \ {0}
  BY GovAssumption
<1> DEFINE a == SCALE + c - 1
           q == a \div c
           r == a % c
<1>2. a \in Nat
  BY <1>1
<1>3. q \in Nat /\ r \in Nat /\ r < c /\ a = (c * q) + r
  BY <1>2, Divided
<1>4. WaitFor(c) = q
  BY DEF WaitFor
<1>5. a = SCALE + c - 1
  OBVIOUS
<1> HIDE DEF a, q, r
<1>6. c * q >= SCALE
  BY <1>1, <1>3, <1>5
<1>7. q # 0 /\ c * q = q * c
  BY <1>1, <1>3, <1>6
<1> QED
  BY <1>3, <1>4, <1>6, <1>7

-----------------------------------------------------------------------------
(* What AdmitOne makes of a class: the bucket filled, and one token taken  *)
(* if there is one.                                                        *)
Full(k, b, now) == Refill(b, now, Ceiling(k, now))
Taken(f) == IF f.tokens >= 1 THEN [f EXCEPT !.tokens = @ - 1] ELSE f
Told(k, f, now) == [at |-> now, ceiling |-> Ceiling(k, now),
                    delay |-> IF f.tokens >= 1 THEN 0 ELSE WaitFor(Ceiling(k, now))]

LEMMA TakenTypes ==
    ASSUME NEW f \in Bucket, Bounded(f)
    PROVE  /\ Taken(f) \in Bucket /\ Bounded(Taken(f))
           /\ Taken(f).last_refill = f.last_refill /\ Taken(f).carry_ceiling = f.carry_ceiling
           /\ Taken(f).carry = f.carry
           /\ Taken(f).tokens = IF f.tokens >= 1 THEN f.tokens - 1 ELSE 0
<1>1. CASE f.tokens >= 1
  <2>1. Taken(f) = [f EXCEPT !.tokens = f.tokens - 1]
    BY <1>1 DEF Taken
  <2> QED
    BY <1>1, <2>1 DEF Bucket, Bounded
<1>2. CASE ~(f.tokens >= 1)
  BY <1>2 DEF Taken, Bucket, Bounded
<1> QED
  BY <1>1, <1>2

LEMMA ToldTypes ==
    ASSUME NEW k \in OpClass, NEW f \in Bucket, NEW now \in Nat
    PROVE  /\ Told(k, f, now) \in GovAnswer
           /\ Told(k, f, now).at = now /\ Told(k, f, now).ceiling = Ceiling(k, now)
           /\ f.tokens >= 1 => Told(k, f, now).delay = 0
           /\ ~(f.tokens >= 1) => /\ Told(k, f, now).delay = WaitFor(Ceiling(k, now))
                                  /\ Told(k, f, now).delay > 0
<1>1. Ceiling(k, now) \in Nat \ {0}
  BY CeilingRises
<1>2. WaitFor(Ceiling(k, now)) \in Nat \ {0}
  BY <1>1, WaitEarns
<1> QED
  BY <1>1, <1>2 DEF Told, GovAnswer

(* One more answer, of one more count if it admits.                        *)
LEMMA CountsOne ==
    ASSUME NEW given \in Seq(GovAnswer), NEW a \in GovAnswer, NEW i \in 1 .. Len(given) + 1
    PROVE  /\ Cardinality(Admitted(given, i, Len(given))) \in Nat
           /\ Cardinality(Admitted(Append(given, a), i, Len(given) + 1))
                  = Cardinality(Admitted(given, i, Len(given))) + (IF a.delay = 0 THEN 1 ELSE 0)
<1>1. Len(given) \in Nat
  OBVIOUS
<1>2. i \in Int /\ i >= 1 /\ i <= Len(given) + 1
  BY <1>1
<1>3. IsFiniteSet(i .. Len(given))
  BY <1>1, <1>2, FS_Interval
<1>4. /\ \A n \in i .. Len(given) : Append(given, a)[n] = given[n]
      /\ Append(given, a)[Len(given) + 1] = a
  BY <1>1, <1>2
<1>5. IsFiniteSet(Admitted(given, i, Len(given)))
  BY <1>3, FS_Subset DEF Admitted
<1>6. CASE a.delay = 0
  <2>1. /\ Admitted(Append(given, a), i, Len(given) + 1)
               = Admitted(given, i, Len(given)) \cup {Len(given) + 1}
        /\ Len(given) + 1 \notin Admitted(given, i, Len(given))
    BY <1>1, <1>2, <1>4, <1>6 DEF Admitted
  <2> QED
    BY <1>5, <1>6, <2>1, FS_AddElement, FS_CardinalityType
<1>7. CASE a.delay # 0
  <2>1. Admitted(Append(given, a), i, Len(given) + 1) = Admitted(given, i, Len(given))
    BY <1>1, <1>2, <1>4, <1>7 DEF Admitted
  <2>2. Cardinality(Admitted(given, i, Len(given))) \in Nat
    BY <1>5, FS_CardinalityType
  <2> QED
    BY <1>7, <2>1, <2>2
<1> QED
  BY <1>6, <1>7

(* The rate is held at the answer given last, by what was spent up to it.  *)
LEMMA SpentHolds ==
    ASSUME NEW n \in Nat, NEW c \in Nat, NEW y \in Nat, NEW t \in Nat, NEW r \in Nat,
           SCALE * (n + t) + r <= SCALE * c + (SCALE - 1) + y
    PROVE  n <= c + ((y + SCALE - 1) \div SCALE)
<1>1. SCALE \in Nat \ {0}
  BY GovAssumption
<1> DEFINE z == y + SCALE - 1
           q == z \div SCALE
<1>2. z \in Nat
  BY <1>1
<1>3. q \in Nat /\ z % SCALE \in Nat /\ z % SCALE < SCALE /\ z = (SCALE * q) + (z % SCALE)
  BY <1>1, <1>2, Divided
<1>4. SCALE * n <= SCALE * (n + t)
  BY <1>1, ProductRises
<1>5. SCALE * n \in Nat /\ SCALE * (n + t) \in Nat /\ SCALE * c \in Nat /\ SCALE * q \in Nat
  BY <1>1, <1>3, ProductRises
<1>6. z = y + SCALE - 1
  OBVIOUS
<1> HIDE DEF z, q
<1>7. SCALE * n < SCALE * c + SCALE * q + SCALE
  BY <1>1, <1>3, <1>4, <1>5, <1>6
<1>8. SCALE * c + SCALE * q + SCALE = SCALE * (c + q + 1)
  BY <1>1, <1>3
<1>9. ~(n >= c + q + 1)
  <2> SUFFICES ASSUME n >= c + q + 1 PROVE FALSE
    OBVIOUS
  <2>1. SCALE * (c + q + 1) <= SCALE * n
    BY <1>1, <1>3, ProductRises
  <2>2. SCALE * (c + q + 1) \in Nat
    BY <1>1, <1>3, ProductRises
  <2> QED
    BY <1>5, <1>7, <1>8, <2>1, <2>2
<1> QED
  BY <1>3, <1>9 DEF q, z

-----------------------------------------------------------------------------
(* A request keeps what is known of its class: the parts, then together.   *)
LEMMA AdmitTypes ==
    ASSUME NEW k \in OpClass, NEW b, NEW given, ClassInv(k, b, given),
           NEW now \in Nat, b.last_refill <= now
    PROVE  /\ Full(k, b, now) \in Bucket /\ Bounded(Full(k, b, now))
           /\ Full(k, b, now).last_refill = now
           /\ Full(k, b, now).carry_ceiling = Ceiling(k, now)
           /\ Ceiling(k, now) \in Nat \ {0} /\ b.carry_ceiling <= Ceiling(k, now)
<1>1. b \in Bucket /\ Bounded(b) /\ b.carry_ceiling = Ceiling(k, b.last_refill)
  BY DEF ClassInv, Dated
<1>2. b.last_refill \in Nat
  BY <1>1 DEF Bucket
<1>3. Ceiling(k, now) \in Nat \ {0} /\ b.carry_ceiling <= Ceiling(k, now)
  BY <1>1, <1>2, CeilingRises
<1> QED
  BY <1>1, <1>3, RefillTypes DEF Full

(* n admitted, t tokens and r carried are within a full bucket and what a  *)
(* time e earns; a refill gains at most what a time e earns.               *)
Within(n, t, r, c, e) == SCALE * (n + t) + r <= SCALE * c + (SCALE - 1) + e * c
Gains(ft, fc, bt, bc, c, e) == SCALE * ft + fc <= SCALE * bt + bc + e * c

(* A refill against a ceiling no lower than before keeps what was spent    *)
(* within what was earned.                                                 *)
LEMMA EarnsOn ==
    ASSUME NEW n \in Nat, NEW ft \in Nat, NEW fc \in Nat,
           NEW bt \in Nat, NEW bc \in Nat, NEW c \in Nat, NEW d \in Nat, d <= c,
           NEW s \in Nat, NEW l \in Nat, NEW now \in Nat, s <= l, l <= now,
           Gains(ft, fc, bt, bc, c, now - l), Within(n, bt, bc, d, l - s)
    PROVE  Within(n, ft, fc, c, now - s)
<1> DEFINE S == SCALE
<1>0. /\ S \in Nat \ {0}
      /\ S * ft + fc <= S * bt + bc + (now - l) * c
      /\ S * (n + bt) + bc <= S * d + (S - 1) + (l - s) * d
  BY GovAssumption DEF Gains, Within
<1> HIDE DEF S
<1>1. S * d \in Nat /\ S * c \in Nat /\ S * d <= S * c
  BY <1>0, ProductRises
<1>2. l - s \in Nat /\ now - l \in Nat
  OBVIOUS
<1>3. (l - s) * d \in Nat /\ (l - s) * c \in Nat /\ (l - s) * d <= (l - s) * c
  BY <1>2, ProductRises
<1>4. (now - l) * c \in Nat
  BY <1>2, ProductRises
<1>5. (l - s) * c + (now - l) * c = (now - s) * c
  BY SMT
<1>6. S * (n + ft) = S * n + S * ft /\ S * (n + bt) = S * n + S * bt
  BY <1>0, SMT
<1>7. S * n \in Nat /\ S * ft \in Nat /\ S * bt \in Nat
  BY <1>0, ProductRises
<1> DEFINE sn == S * n
           sf == S * ft
           sb == S * bt
           sc == S * c
           sd == S * d
           w == (l - s) * d
           y == (l - s) * c
           z == (now - l) * c
<1>8. sf + fc <= sb + bc + z /\ sn + sb + bc <= sd + (S - 1) + w
  BY <1>0, <1>6
<1>9. sn + sf + fc <= sc + (S - 1) + (y + z)
  <2>1. /\ sn \in Nat /\ sf \in Nat /\ sb \in Nat /\ sc \in Nat /\ sd \in Nat /\ sd <= sc
        /\ w \in Nat /\ y \in Nat /\ z \in Nat /\ w <= y
    BY <1>1, <1>3, <1>4, <1>7
  <2> HIDE DEF sn, sf, sb, sc, sd, w, y, z
  <2> QED
    BY <1>0, <1>8, <2>1
<1>10. S * (n + ft) + fc <= S * c + (S - 1) + (now - s) * c
  BY <1>5, <1>6, <1>9
<1> QED
  BY <1>10 DEF Within, S

LEMMA AdmitSpends ==
    ASSUME NEW k \in OpClass, NEW b, NEW given, ClassInv(k, b, given),
           NEW now \in Nat, b.last_refill <= now
    PROVE  SpentOf(Taken(Full(k, b, now)), Append(given, Told(k, Full(k, b, now), now)))
<1> DEFINE f == Full(k, b, now)
           a == Told(k, f, now)
           c == Ceiling(k, now)
           x == Taken(f)
<1>1. f \in Bucket /\ Bounded(f) /\ f.last_refill = now /\ f.carry_ceiling = c /\ c \in Nat \ {0}
      /\ b.carry_ceiling <= c
  BY AdmitTypes
<1>2. a \in GovAnswer /\ a.at = now /\ (a.delay = 0 <=> f.tokens >= 1)
  <2>1. f \in Bucket
    BY <1>1
  <2> HIDE DEF f
  <2> QED
    BY <2>1, ToldTypes DEF GovAnswer
<1>3. /\ x \in Bucket /\ x.last_refill = now /\ x.carry_ceiling = c /\ x.carry = f.carry
      /\ x.tokens = IF f.tokens >= 1 THEN f.tokens - 1 ELSE 0
  <2> HIDE DEF f, c
  <2> QED
    BY <1>1, TakenTypes
<1>4. b \in Bucket /\ Bounded(b) /\ given \in Seq(GovAnswer) /\ SpentOf(b, given) /\ Dated(k, b, given)
  BY DEF ClassInv
<1>5. SCALE * f.tokens + f.carry <= SCALE * b.tokens + b.carry + (now - b.last_refill) * c
  BY <1>1, <1>4, RefillEarns DEF Full
<1>6. SCALE \in Nat \ {0}
  BY GovAssumption
<1> HIDE DEF f, a, c, x
<1>7. Len(given) \in Nat /\ Len(Append(given, a)) = Len(given) + 1
  BY <1>2, <1>4
<1>8. ASSUME NEW i \in 1 .. Len(given) + 1
      PROVE  SCALE * (Cardinality(Admitted(Append(given, a), i, Len(given) + 1)) + x.tokens) + x.carry
                 <= SCALE * c + (SCALE - 1) + (now - Append(given, a)[i].at) * c
  <2> DEFINE n == Cardinality(Admitted(given, i, Len(given)))
             m == Cardinality(Admitted(Append(given, a), i, Len(given) + 1))
  <2>1. n \in Nat /\ m = n + (IF a.delay = 0 THEN 1 ELSE 0)
    BY <1>2, <1>4, CountsOne
  <2> HIDE DEF n, m
  <2>2. f.tokens \in Nat /\ f.carry \in Nat /\ b.tokens \in Nat /\ b.carry \in Nat
        /\ b.last_refill \in Nat /\ f.tokens <= c /\ f.carry < SCALE /\ b.carry_ceiling \in Nat
    BY <1>1, <1>4 DEF Bucket, Bounded
  <2>3. m + x.tokens = n + f.tokens
    BY <1>2, <1>3, <2>1, <2>2
  <2>4. CASE i = Len(given) + 1
    <3>1. n = 0
      <4>1. Admitted(given, i, Len(given)) = {}
        BY <1>7, <2>4 DEF Admitted
      <4> QED
        BY <4>1, FS_EmptySet DEF n
    <3>2. Append(given, a)[i].at = now
      BY <1>2, <1>4, <2>4
    <3>3. SCALE * f.tokens <= SCALE * c /\ SCALE * f.tokens \in Nat
      BY <1>1, <1>6, <2>2, ProductRises
    <3>4. (now - Append(given, a)[i].at) * c = 0
      BY <3>2, <1>1
    <3>5. SCALE * c \in Nat /\ m + x.tokens = f.tokens
      BY <1>1, <1>6, <2>2, <2>3, <3>1, ProductRises
    <3>6. SCALE * f.tokens + f.carry <= SCALE * c + (SCALE - 1)
      BY <1>6, <2>2, <3>3, <3>5
    <3>7. SCALE * (m + x.tokens) + x.carry <= SCALE * c + (SCALE - 1) + (now - Append(given, a)[i].at) * c
      BY <1>3, <1>6, <3>4, <3>5, <3>6
    <3> QED
      BY <3>7 DEF m
  <2>5. CASE i \in 1 .. Len(given)
    <3>0. given[i] \in GovAnswer /\ Append(given, a)[i] = given[i]
      BY <1>2, <1>4, <2>5
    <3>1. given[i].at \in Nat /\ given[i].at <= b.last_refill
      BY <1>4, <2>5, <3>0 DEF Dated, GovAnswer
    <3>2. Within(n, b.tokens, b.carry, b.carry_ceiling, b.last_refill - given[i].at)
      BY <1>4, <2>5 DEF SpentOf, n, Within
    <3>3. c \in Nat /\ b.carry_ceiling <= c
      BY <1>1
    <3>4. Gains(f.tokens, f.carry, b.tokens, b.carry, c, now - b.last_refill)
      BY <1>5 DEF Gains
    <3>5. Within(n, f.tokens, f.carry, c, now - given[i].at)
      <4>1. \A d, l, t \in Nat :
               d <= c /\ t <= l /\ l <= now /\ Gains(f.tokens, f.carry, b.tokens, b.carry, c, now - l)
                 /\ Within(n, b.tokens, b.carry, d, l - t)
               => Within(n, f.tokens, f.carry, c, now - t)
        BY <2>1, <2>2, <3>3, EarnsOn
      <4> QED
        BY <2>2, <3>1, <3>2, <3>3, <3>4, <4>1
    <3>6. SCALE * (m + x.tokens) + x.carry <= SCALE * c + (SCALE - 1) + (now - Append(given, a)[i].at) * c
      BY <1>3, <2>3, <3>0, <3>5 DEF Within
    <3> QED
      BY <3>6 DEF m
  <2> QED
    BY <1>7, <2>4, <2>5
<1>9. DOMAIN Append(given, a) = 1 .. Len(given) + 1
  BY <1>2, <1>4
<1> QED
  BY <1>3, <1>7, <1>8, <1>9 DEF SpentOf, x, a, f

(* The facts about one request that the parts below share.                 *)
AdmitStep(k, b, given, now, f, a, c) ==
    /\ b \in Bucket /\ Bounded(b) /\ given \in Seq(GovAnswer) /\ b.last_refill <= now
    /\ f \in Bucket /\ Bounded(f) /\ f = Refill(b, now, c) /\ f.last_refill = now /\ f.carry_ceiling = c
    /\ c \in Nat \ {0} /\ b.carry_ceiling <= c /\ c = Ceiling(k, now)
    /\ a \in GovAnswer /\ a.at = now /\ a.ceiling = c
    /\ a.delay = 0 <=> f.tokens >= 1
    /\ a.delay > 0 => a.delay = WaitFor(c)
    /\ Append(given, a) \in Seq(GovAnswer)
    /\ DOMAIN Append(given, a) = 1 .. Len(given) + 1 /\ Len(Append(given, a)) = Len(given) + 1
    /\ Len(given) \in Nat /\ DOMAIN given = 1 .. Len(given)
    /\ \A i \in 1 .. Len(given) : Append(given, a)[i] = given[i] /\ given[i] \in GovAnswer
    /\ Append(given, a)[Len(given) + 1] = a

LEMMA AdmitFacts ==
    ASSUME NEW k \in OpClass, NEW b, NEW given, ClassInv(k, b, given),
           NEW now \in Nat, b.last_refill <= now
    PROVE  AdmitStep(k, b, given, now, Full(k, b, now), Told(k, Full(k, b, now), now), Ceiling(k, now))
<1> DEFINE f == Full(k, b, now)
           a == Told(k, f, now)
<1>1. b \in Bucket /\ Bounded(b) /\ given \in Seq(GovAnswer)
  BY DEF ClassInv
<1>2. /\ f \in Bucket /\ Bounded(f) /\ f.last_refill = now /\ f.carry_ceiling = Ceiling(k, now)
      /\ Ceiling(k, now) \in Nat \ {0} /\ b.carry_ceiling <= Ceiling(k, now)
      /\ f = Refill(b, now, Ceiling(k, now))
  BY AdmitTypes DEF Full
<1> HIDE DEF f
<1>3. /\ a \in GovAnswer /\ a.at = now /\ a.ceiling = Ceiling(k, now)
      /\ a.delay = 0 <=> f.tokens >= 1
      /\ a.delay > 0 => a.delay = WaitFor(Ceiling(k, now))
  BY <1>2, ToldTypes DEF GovAnswer
<1> HIDE DEF a
<1>4. Len(given) \in Nat /\ DOMAIN given = 1 .. Len(given)
  BY <1>1
<1>5. /\ Append(given, a) \in Seq(GovAnswer)
      /\ DOMAIN Append(given, a) = 1 .. Len(given) + 1 /\ Len(Append(given, a)) = Len(given) + 1
      /\ \A i \in 1 .. Len(given) : Append(given, a)[i] = given[i] /\ given[i] \in GovAnswer
      /\ Append(given, a)[Len(given) + 1] = a
  BY <1>1, <1>3
<1>6. AdmitStep(k, b, given, now, f, a, Ceiling(k, now))
  BY <1>1, <1>2, <1>3, <1>4, <1>5 DEF AdmitStep
<1> QED
  BY <1>6 DEF f, a

LEMMA AdmitDates ==
    ASSUME NEW k \in OpClass, NEW b, NEW given, NEW now \in Nat, NEW f, NEW a, NEW c,
           AdmitStep(k, b, given, now, f, a, c), Dated(k, b, given), ToldOf(given)
    PROVE  Dated(k, Taken(f), Append(given, a)) /\ ToldOf(Append(given, a))
<1>1. Taken(f).last_refill = now /\ Taken(f).carry_ceiling = c /\ c = Ceiling(k, now)
  BY TakenTypes DEF AdmitStep
<1>2. ASSUME NEW i \in 1 .. Len(given) + 1
      PROVE  /\ Append(given, a)[i].at <= now
             /\ Append(given, a)[i].ceiling = Ceiling(k, Append(given, a)[i].at)
             /\ Append(given, a)[i].delay > 0
                    => Append(given, a)[i].delay = WaitFor(Append(given, a)[i].ceiling)
  <2>1. CASE i = Len(given) + 1
    BY <2>1 DEF AdmitStep
  <2>2. CASE i \in 1 .. Len(given)
    <3>1. given[i] \in GovAnswer /\ Append(given, a)[i] = given[i]
      BY <2>2 DEF AdmitStep
    <3>2. /\ given[i].at <= b.last_refill /\ given[i].ceiling = Ceiling(k, given[i].at)
          /\ given[i].delay > 0 => given[i].delay = WaitFor(given[i].ceiling)
      BY <2>2 DEF AdmitStep, Dated, ToldOf
    <3>3. b.last_refill <= now /\ b.last_refill \in Nat /\ given[i].at \in Nat
      BY <3>1 DEF AdmitStep, Bucket, GovAnswer
    <3> QED
      BY <3>1, <3>2, <3>3
  <2> QED
    BY <2>1, <2>2 DEF AdmitStep
<1>3. DOMAIN Append(given, a) = 1 .. Len(given) + 1
  BY DEF AdmitStep
<1> QED
  BY <1>1, <1>2, <1>3 DEF Dated, ToldOf

(* All were refused since the i-th answer, up to the request: what the     *)
(* bucket carries is all the time has earned.                              *)
LEMMA CarriesOn ==
    ASSUME NEW bc \in Nat, NEW c \in Nat, NEW s \in Nat, NEW l \in Nat, NEW now \in Nat,
           s <= l, l <= now, bc >= (l - s) * c
    PROVE  bc + (now - l) * c >= (now - s) * c
<1>1. (l - s) * c + (now - l) * c = (now - s) * c
  BY SMT
<1>2. (l - s) * c \in Nat /\ (now - l) * c \in Nat
  BY ProductRises
<1> QED
  BY <1>1, <1>2

Carried(b, s, c, now) ==
    /\ b.carry_ceiling = c /\ b.tokens = 0
    /\ b.carry + (now - b.last_refill) * c >= (now - s) * c

LEMMA RefusedSince ==
    ASSUME NEW k \in OpClass, NEW b, NEW given, NEW now \in Nat, NEW f, NEW a, NEW c,
           AdmitStep(k, b, given, now, f, a, c), Dated(k, b, given), Waited(b, given),
           NEW i \in 1 .. Len(given), given[i].ceiling = c,
           \A n \in i .. Len(given) : given[n].delay > 0
    PROVE  Carried(b, given[i].at, c, now)
<1>1. /\ given[i].at \in Nat /\ given[i].at <= b.last_refill /\ b.last_refill <= now
      /\ b.last_refill \in Nat /\ b.carry \in Nat /\ b.tokens \in Nat /\ b.carry_ceiling \in Nat /\ c \in Nat
  BY DEF AdmitStep, Dated, GovAnswer, Bucket
<1>2. c <= b.carry_ceiling
  <2>1. given[i].ceiling = Ceiling(k, given[i].at) /\ b.carry_ceiling = Ceiling(k, b.last_refill)
    BY DEF AdmitStep, Dated
  <2> QED
    BY <1>1, <2>1, CeilingRises
<1>3. b.carry_ceiling = c
  BY <1>1, <1>2 DEF AdmitStep
<1>4. b.tokens = 0 /\ b.carry >= (b.last_refill - given[i].at) * c
  BY <1>3 DEF AdmitStep, Waited
<1>5. b.carry + (now - b.last_refill) * c >= (now - given[i].at) * c
  BY <1>1, <1>4, CarriesOn
<1> QED
  BY <1>3, <1>4, <1>5 DEF Carried

LEMMA AdmitWaits ==
    ASSUME NEW k \in OpClass, NEW b, NEW given, NEW now \in Nat, NEW f, NEW a, NEW c,
           AdmitStep(k, b, given, now, f, a, c), Dated(k, b, given), Waited(b, given)
    PROVE  Waited(Taken(f), Append(given, a))
<1> DEFINE x == Taken(f)
           more == Append(given, a)
<1>1. /\ x.last_refill = now /\ x.carry_ceiling = c /\ x.carry = f.carry
      /\ x.tokens = IF f.tokens >= 1 THEN f.tokens - 1 ELSE 0
  BY TakenTypes DEF AdmitStep
<1>2. DOMAIN more = 1 .. Len(given) + 1 /\ Len(more) = Len(given) + 1
  BY DEF AdmitStep
<1>3. ASSUME NEW i \in 1 .. Len(given) + 1, more[i].ceiling = c,
             \A n \in i .. Len(given) + 1 : more[n].delay > 0
      PROVE  x.tokens = 0 /\ x.carry >= (now - more[i].at) * c
  <2>1. a.delay > 0
    BY <1>3 DEF AdmitStep
  <2>2. f.tokens = 0 /\ x.tokens = 0
    BY <1>1, <2>1 DEF AdmitStep, Bucket
  <2>3. CASE i = Len(given) + 1
    <3>1. more[i].at = now
      BY <2>3 DEF AdmitStep
    <3>2. f.carry \in Nat /\ c \in Nat
      BY DEF AdmitStep, Bucket
    <3>3. (now - more[i].at) * c = 0
      BY <3>1, <3>2
    <3> QED
      BY <1>1, <2>2, <3>2, <3>3
  <2>4. CASE i \in 1 .. Len(given)
    <3>1. given[i].ceiling = c /\ more[i] = given[i]
      BY <1>3, <2>4 DEF AdmitStep
    <3>2. \A n \in i .. Len(given) : given[n].delay > 0
      BY <1>3, <2>4 DEF AdmitStep
    <3>0. Carried(b, given[i].at, c, now)
      BY <2>4, <3>1, <3>2, RefusedSince
    <3>3. /\ b.carry_ceiling = c
          /\ b.carry + (now - b.last_refill) * c >= (now - given[i].at) * c
      BY <3>0 DEF Carried
    <3>4. f.carry = b.carry + (now - b.last_refill) * c
      BY <2>2, <3>3, RefillCarries DEF AdmitStep
    <3> QED
      BY <1>1, <2>2, <3>1, <3>3, <3>4
  <2> QED
    BY <2>3, <2>4 DEF AdmitStep
<1> HIDE DEF x, more
<1>4. Waited(x, more)
  BY <1>1, <1>2, <1>3 DEF Waited
<1> QED
  BY <1>4 DEF x, more

(* Who waited the delay it was told is admitted.                           *)
LEMMA WaitSuffices ==
    ASSUME NEW b, NEW now \in Nat, NEW c \in Nat \ {0}, NEW s \in Nat,
           b \in Bucket, Bounded(b), b.last_refill <= now,
           Carried(b, s, c, now), now >= s + WaitFor(c)
    PROVE  Refill(b, now, c).tokens # 0
<1> SUFFICES ASSUME Refill(b, now, c).tokens = 0 PROVE FALSE
  OBVIOUS
<1>1. b.carry_ceiling = c /\ b.carry + (now - b.last_refill) * c >= (now - s) * c
  BY DEF Carried
<1>2. b.carry + (now - b.last_refill) * c < SCALE
  BY <1>1, RefillCarries
<1>3. WaitFor(c) \in Nat /\ WaitFor(c) * c >= SCALE
  BY WaitEarns
<1> DEFINE w == WaitFor(c)
           e == (now - b.last_refill) * c
<1>4. now - s \in Nat /\ w <= now - s
  BY <1>3
<1>5. w * c <= (now - s) * c
  <2>1. w \in Nat
    BY <1>3
  <2> HIDE DEF w
  <2>2. c * w <= c * (now - s)
    BY <1>4, <2>1, ProductRises
  <2> QED
    BY <1>4, <2>1, <2>2
<1>6. e \in Nat /\ b.carry \in Nat /\ SCALE \in Nat
  <2>1. now - b.last_refill \in Nat /\ b.carry \in Nat
    BY DEF Bucket
  <2> QED
    BY <2>1, GovAssumption, ProductRises
<1>7. w * c \in Nat /\ (now - s) * c \in Nat
  BY <1>3, <1>4, ProductRises
<1> QED
  BY <1>1, <1>2, <1>3, <1>5, <1>6, <1>7

LEMMA AdmitHonours ==
    ASSUME NEW k \in OpClass, NEW b, NEW given, NEW now \in Nat, NEW f, NEW a, NEW c,
           AdmitStep(k, b, given, now, f, a, c), Dated(k, b, given), Waited(b, given),
           ToldOf(given), HonouredIn(given)
    PROVE  HonouredIn(Append(given, a))
<1> DEFINE more == Append(given, a)
<1>1. DOMAIN more = 1 .. Len(given) + 1 /\ Len(given) \in Nat /\ more[Len(given) + 1] = a
  BY DEF AdmitStep
<1>2. \A i \in 1 .. Len(given) : more[i] = given[i] /\ given[i] \in GovAnswer
  BY DEF AdmitStep
<1>3. ASSUME NEW j \in 1 .. Len(given) + 1, NEW i \in 1 .. j - 1,
             more[i].delay > 0, more[j].at >= more[i].at + more[i].delay,
             more[j].ceiling = more[i].ceiling, \A n \in i .. j - 1 : more[n].delay > 0
      PROVE  more[j].delay = 0
  <2>1. CASE j \in 1 .. Len(given)
    <3> HIDE DEF more
    <3>1. i \in 1 .. Len(given) /\ \A n \in i .. j - 1 : n \in 1 .. Len(given)
      BY <1>1, <2>1
    <3>2. /\ given[i].delay > 0 /\ given[j].at >= given[i].at + given[i].delay
          /\ given[j].ceiling = given[i].ceiling /\ \A n \in i .. j - 1 : given[n].delay > 0
      BY <1>2, <1>3, <2>1, <3>1
    <3>3. j \in DOMAIN given
      BY <2>1 DEF AdmitStep
    <3>4. given[j].delay = 0
      BY <3>2, <3>3 DEF HonouredIn
    <3> QED
      BY <1>2, <2>1, <3>4
  <2>2. CASE j = Len(given) + 1
    <3>1. i \in 1 .. Len(given) /\ j - 1 = Len(given) /\ more[j] = a
      BY <1>1, <2>2
    <3>2. given[i].delay > 0 /\ given[i].ceiling = a.ceiling /\ a.at >= given[i].at + given[i].delay
      BY <1>2, <1>3, <3>1
    <3>3. \A n \in i .. Len(given) : given[n].delay > 0
      BY <1>2, <1>3, <3>1
    <3>4. a.ceiling = c /\ a.at = now /\ c \in Nat \ {0} /\ given[i].at \in Nat
      BY <1>2, <3>1 DEF AdmitStep, GovAnswer
    <3>5. given[i].delay = WaitFor(c)
      BY <3>1, <3>2, <3>4 DEF ToldOf, AdmitStep
    <3>6. Carried(b, given[i].at, c, now)
      BY <3>1, <3>2, <3>3, <3>4, RefusedSince
    <3>7. b \in Bucket /\ Bounded(b) /\ b.last_refill <= now
      BY DEF AdmitStep
    <3>8. Refill(b, now, c).tokens # 0
      BY <3>2, <3>4, <3>5, <3>6, <3>7, WaitSuffices
    <3>9. f.tokens >= 1
      BY <3>8 DEF AdmitStep, Bucket
    <3> QED
      BY <3>1, <3>9 DEF AdmitStep
  <2> QED
    BY <1>1, <2>1, <2>2
<1> QED
  BY <1>1, <1>3 DEF HonouredIn

LEMMA AdmitHolds ==
    ASSUME NEW k \in OpClass, NEW b, NEW given, NEW now \in Nat, NEW f, NEW a, NEW c,
           AdmitStep(k, b, given, now, f, a, c), Dated(k, b, given), HeldIn(given),
           SpentOf(Taken(f), Append(given, a))
    PROVE  HeldIn(Append(given, a))
<1> DEFINE more == Append(given, a)
           x == Taken(f)
<1>1. DOMAIN more = 1 .. Len(given) + 1 /\ Len(given) \in Nat /\ Len(more) = Len(given) + 1
      /\ more[Len(given) + 1] = a /\ a.at = now /\ a.ceiling = c /\ c \in Nat
  BY DEF AdmitStep
<1>2. \A i \in 1 .. Len(given) : more[i] = given[i]
  BY DEF AdmitStep
<1>3. \A i \in 1 .. Len(given) + 1 : more[i].at \in Nat /\ more[i].at <= now
  <2>1. ASSUME NEW i \in 1 .. Len(given)
        PROVE  given[i].at \in Nat /\ given[i].at <= now
    <3>1. given[i] \in GovAnswer /\ i \in DOMAIN given /\ b \in Bucket /\ b.last_refill <= now
      BY DEF AdmitStep
    <3>2. given[i].at <= b.last_refill
      BY <3>1 DEF Dated
    <3> QED
      BY <3>1, <3>2 DEF GovAnswer, Bucket
  <2> QED
    BY <1>1, <1>2, <2>1
<1>4. x \in Bucket /\ x.last_refill = now /\ x.carry_ceiling = c
  BY TakenTypes DEF AdmitStep
<1>5. ASSUME NEW j \in 1 .. Len(given) + 1, NEW i \in 1 .. j
      PROVE  Cardinality(Admitted(more, i, j)) <=
                more[j].ceiling + (((more[j].at - more[i].at) * more[j].ceiling + SCALE - 1) \div SCALE)
  <2>1. CASE j \in 1 .. Len(given)
    <3> HIDE DEF more
    <3>1. i \in 1 .. Len(given) /\ \A n \in i .. j : n \in 1 .. Len(given)
      BY <1>1, <2>1
    <3>2. Admitted(more, i, j) = Admitted(given, i, j)
      BY <1>2, <3>1 DEF Admitted
    <3>3. j \in DOMAIN given
      BY <2>1 DEF AdmitStep
    <3>4. Cardinality(Admitted(given, i, j)) <=
             given[j].ceiling + (((given[j].at - given[i].at) * given[j].ceiling + SCALE - 1) \div SCALE)
      BY <3>3 DEF HeldIn
    <3>5. more[i] = given[i] /\ more[j] = given[j]
      BY <1>2, <2>1, <3>1
    <3> QED
      BY <3>2, <3>4, <3>5
  <2>2. CASE j = Len(given) + 1
    <3> DEFINE n == Cardinality(Admitted(more, i, j))
               y == (now - more[i].at) * c
    <3>1. n \in Nat
      <4>1. i \in Int /\ j \in Int
        BY <1>1, <2>2
      <4>2. IsFiniteSet(i .. j)
        BY <4>1, FS_Interval
      <4>3. IsFiniteSet(Admitted(more, i, j))
        BY <4>2, FS_Subset DEF Admitted
      <4> QED
        BY <4>3, FS_CardinalityType
    <3>2. SCALE * (n + x.tokens) + x.carry <= SCALE * c + (SCALE - 1) + y
      BY <1>1, <1>4, <2>2 DEF SpentOf
    <3>3. y \in Nat
      <4>1. now - more[i].at \in Nat
        BY <1>1, <1>3, <2>2
      <4> QED
        BY <1>1, <4>1, ProductRises
    <3>4. x.tokens \in Nat /\ x.carry \in Nat
      BY <1>4 DEF Bucket
    <3>5. more[j].ceiling = c /\ more[j].at = now
      BY <1>1, <2>2
    <3> HIDE DEF n, y
    <3>6. n <= c + ((y + SCALE - 1) \div SCALE)
      BY <1>1, <3>1, <3>2, <3>3, <3>4, SpentHolds
    <3> QED
      BY <3>5, <3>6 DEF n, y
  <2> QED
    BY <1>1, <2>1, <2>2
<1> QED
  BY <1>1, <1>5 DEF HeldIn

LEMMA AdmitKeeps ==
    ASSUME NEW k \in OpClass, NEW b, NEW given, ClassInv(k, b, given),
           NEW now \in Nat, b.last_refill <= now
    PROVE  /\ ClassInv(k, Taken(Full(k, b, now)), Append(given, Told(k, Full(k, b, now), now)))
           /\ Taken(Full(k, b, now)).last_refill = now
<1> DEFINE f == Full(k, b, now)
           a == Told(k, f, now)
           c == Ceiling(k, now)
<1>1. AdmitStep(k, b, given, now, f, a, c)
  BY AdmitFacts
<1>2. SpentOf(Taken(f), Append(given, a))
  BY AdmitSpends
<1> HIDE DEF f, a, c
<1>3. Dated(k, b, given) /\ ToldOf(given) /\ Waited(b, given) /\ HeldIn(given) /\ HonouredIn(given)
  BY DEF ClassInv
<1>4. Dated(k, Taken(f), Append(given, a)) /\ ToldOf(Append(given, a))
  BY <1>1, <1>3, AdmitDates
<1>5. Waited(Taken(f), Append(given, a))
  BY <1>1, <1>3, AdmitWaits
<1>6. HonouredIn(Append(given, a))
  BY <1>1, <1>3, AdmitHonours
<1>7. HeldIn(Append(given, a))
  BY <1>1, <1>2, <1>3, AdmitHolds
<1>8. Append(given, a) \in Seq(GovAnswer) /\ f \in Bucket /\ Bounded(f) /\ f.last_refill = now
  BY <1>1 DEF AdmitStep
<1>9. Taken(f) \in Bucket /\ Bounded(Taken(f)) /\ Taken(f).last_refill = now
  BY <1>8, TakenTypes
<1>10. ClassInv(k, Taken(f), Append(given, a)) /\ Taken(f).last_refill = now
  BY <1>2, <1>4, <1>5, <1>6, <1>7, <1>8, <1>9 DEF ClassInv
<1> QED
  BY <1>10 DEF f, a

LEMMA GovStarts == GovInit => GovInv
<1> SUFFICES ASSUME GovInit PROVE GovInv
  OBVIOUS
<1>1. instant = 0 /\ instant \in Nat
  BY DEF GovInit
<1>2. /\ bucket = [k \in OpClass |-> bucket[k]]
      /\ answers = [k \in OpClass |-> answers[k]]
  BY DEF GovInit
<1>3. ASSUME NEW k \in OpClass
      PROVE  ClassInv(k, bucket[k], answers[k]) /\ bucket[k].last_refill <= instant
  <2>1. Ceiling(k, 0) \in Nat \ {0}
    BY CeilingRises
  <2>2. bucket[k] = [tokens |-> Ceiling(k, 0), last_refill |-> 0, carry |-> 0,
                     carry_ceiling |-> Ceiling(k, 0)]
    BY DEF GovInit
  <2>3. answers[k] = <<>> /\ DOMAIN answers[k] = {}
    BY DEF GovInit
  <2>4. bucket[k] \in Bucket /\ Bounded(bucket[k]) /\ answers[k] \in Seq(GovAnswer)
    BY <2>1, <2>2, <2>3, GovAssumption DEF Bucket, Bounded
  <2>5. Dated(k, bucket[k], answers[k])
    BY <2>2, <2>3 DEF Dated
  <2>6. ToldOf(answers[k]) /\ SpentOf(bucket[k], answers[k]) /\ Waited(bucket[k], answers[k])
        /\ HeldIn(answers[k]) /\ HonouredIn(answers[k])
    BY <2>3 DEF ToldOf, SpentOf, Waited, HeldIn, HonouredIn
  <2> QED
    BY <1>1, <2>2, <2>4, <2>5, <2>6 DEF ClassInv
<1> QED
  BY <1>1, <1>2, <1>3 DEF GovInv

LEMMA GovSteps == GovInv /\ [GovNext]_govVars => GovInv'
<1> SUFFICES ASSUME GovInv, [GovNext]_govVars PROVE GovInv'
  OBVIOUS
<1>1. CASE UNCHANGED govVars
  BY <1>1 DEF govVars, GovInv
<1>2. CASE Ticks
  <2>1. bucket' = bucket /\ answers' = answers /\ instant \in Nat /\ instant' = instant + 1
    BY <1>2 DEF Ticks, GovInv
  <2>2. ASSUME NEW k \in OpClass
        PROVE  ClassInv(k, bucket[k], answers[k]) /\ bucket[k].last_refill <= instant + 1
    <3>1. ClassInv(k, bucket[k], answers[k]) /\ bucket[k].last_refill <= instant
      BY DEF GovInv
    <3>2. bucket[k].last_refill \in Nat
      BY <3>1 DEF ClassInv, Bucket
    <3> QED
      BY <2>1, <3>1, <3>2
  <2> QED
    BY <2>1, <2>2 DEF GovInv
<1>3. ASSUME NEW k \in OpClass, AdmitOne(k) PROVE GovInv'
  <2> DEFINE f == Full(k, bucket[k], instant)
             x == Taken(f)
             more == Append(answers[k], Told(k, f, instant))
  <2>1. ClassInv(k, bucket[k], answers[k]) /\ bucket[k].last_refill <= instant /\ instant \in Nat
    BY DEF GovInv
  <2>2. ClassInv(k, x, more) /\ x.last_refill = instant
    BY <2>1, AdmitKeeps
  <2>3. bucket' = [bucket EXCEPT ![k] = x] /\ answers' = [answers EXCEPT ![k] = more]
        /\ instant' = instant
    BY <1>3 DEF AdmitOne, Full, Taken, Told
  <2> HIDE DEF x, more
  <2>4. /\ bucket'[k] = x /\ answers'[k] = more
        /\ \A q \in OpClass : q # k => bucket'[q] = bucket[q] /\ answers'[q] = answers[q]
        /\ bucket' = [q \in OpClass |-> bucket'[q]] /\ answers' = [q \in OpClass |-> answers'[q]]
    BY <2>3 DEF GovInv
  <2>5. ASSUME NEW q \in OpClass
        PROVE  ClassInv(q, bucket'[q], answers'[q]) /\ bucket'[q].last_refill <= instant
    <3>1. CASE q = k
      BY <2>1, <2>2, <2>4, <3>1
    <3>2. CASE q # k
      BY <2>4, <3>2 DEF GovInv
    <3> QED
      BY <3>1, <3>2
  <2> QED
    BY <2>1, <2>3, <2>4, <2>5 DEF GovInv
<1> QED
  BY <1>1, <1>2, <1>3 DEF GovNext

(* RateGovernor, Bucket::admit: whatever the ceilings and the period and   *)
(* however requests fall, no more is admitted between two answers than a   *)
(* full bucket and what the time between them earns, and who waits the     *)
(* delay it was told is admitted.                                          *)
THEOREM RateSafety == GovSpec => []RateExact
<1>1. GovInv => RateExact
  <2> SUFFICES ASSUME GovInv PROVE RateExact
    OBVIOUS
  <2>1. ASSUME NEW k \in OpClass PROVE HeldIn(answers[k]) /\ HonouredIn(answers[k])
    BY DEF GovInv, ClassInv
  <2>2. RateHeld
    BY <2>1 DEF RateHeld, HeldIn, Admitted
  <2>3. DelaysHonoured
    BY <2>1 DEF DelaysHonoured, HonouredIn
  <2> QED
    BY <2>2, <2>3 DEF RateExact
<1> QED
  BY <1>1, GovStarts, GovSteps, PTL DEF GovSpec

-----------------------------------------------------------------------------
(* The tokens of the object store, on which the lease and the log's        *)
(* conditional writes rest. What a token is compared with is the field it  *)
(* was read from, on every backend, for as long as one backend is in use.  *)
TokenNames(t) == t.what = "put" => t.token = TokenOf(t.generation)
TokensName == \A t \in tokens : TokenNames(t)

LEMMA TokenHolds ==
    ASSUME NEW slot, NEW n
    PROVE  Holds(TokenOf(n), slot) <=> slot.live /\ slot.generation = n
<1>1. TokenOf(n)[1] \in {"etag", "version"}
    BY DEF TokenOf
<1>2. Holds(TokenOf(n), slot) <=> slot.live /\ TokenOf(n) = Compares(slot)
    BY <1>1 DEF Holds
<1>3. TokenOf(n) = Compares(slot) <=> slot.generation = n
    BY DEF TokenOf, Compares
<1>4. QED
    BY <1>2, <1>3

(* A token is handed out by a whole-payload put or by a completed upload,  *)
(* and a stream's is not claimed to be comparable.                         *)
LEMMA TokensNameStep ==
    ASSUME TokensName, [StoreNext]_adapterVars
    PROVE  TokensName'
<1>1. ASSUME UNCHANGED <<kind, tokens>> PROVE TokensName'
    BY <1>1 DEF TokensName, TokenNames, TokenOf
<1>2. ASSUME NEW c \in Client, PutOnce(c) PROVE TokensName'
    <2> DEFINE t == [key |-> job[c].key, what |-> job[c].what, asked |-> job[c].size,
                     token |-> TokenOf(slots'[job[c].key].generation),
                     generation |-> slots'[job[c].key].generation,
                     stored |-> slots'[job[c].key].size]
    <2>1. kind' = kind /\ tokens' = tokens \cup {t}
        BY <1>2 DEF PutOnce, Tokens
    <2>2. t.token = TokenOf(t.generation)
        OBVIOUS
    <2> HIDE DEF t
    <2>3. QED
        BY <2>1, <2>2 DEF TokensName, TokenNames, TokenOf
<1>3. ASSUME NEW c \in Client, Completes(c) PROVE TokensName'
    <2> DEFINE n == slots'[job[c].key].generation
               t == [key |-> job[c].key, what |-> job[c].what,
                     asked |-> IF job[c].what = "stream" THEN job[c].size + FOOTER ELSE job[c].size,
                     token |-> IF job[c].what = "stream" THEN StreamToken(n) ELSE TokenOf(n),
                     generation |-> n, stored |-> slots'[job[c].key].size]
    <2>1. kind' = kind /\ tokens' = tokens \cup {t}
        BY <1>3 DEF Completes, Tokens
    <2>2. t.what = "put" => t.token = TokenOf(t.generation)
        OBVIOUS
    <2> HIDE DEF t
    <2>3. QED
        BY <2>1, <2>2 DEF TokensName, TokenNames, TokenOf
<1>4. ASSUME NEW c \in Client,
             \/ StartJob(c) \/ PutRefused(c) \/ OpensUpload(c) \/ PutFailsIt(c)
             \/ PutPart(c) \/ PushPart(c) \/ WriteFull(c) \/ WriteFooter(c)
             \/ GetServed(c) \/ GetMissing(c) \/ GetTransient(c) \/ HeadServed(c)
             \/ DeletesOne(c) \/ DeleteStops(c)
             \/ \E lands \in BOOLEAN : PutLost(c, lands) \/ UploadFails(c, lands)
             \/ \E n \in 0 .. Cardinality(Keys) : ListPage(c, n)
      PROVE  UNCHANGED <<kind, tokens>>
    BY <1>4 DEF StartJob, PutRefused, OpensUpload, PutFailsIt, PutPart, PushPart, WriteFull,
                WriteFooter, WritePart, GetServed, GetMissing, GetTransient, HeadServed,
                DeletesOne, DeleteStops, PutLost, UploadFails, ListPage
<1>5. CASE UNCHANGED adapterVars
    BY <1>1, <1>5 DEF adapterVars
<1>6. QED
    BY <1>1, <1>2, <1>3, <1>4, <1>5 DEF StoreNext

(* On every backend, for any limits and requests: the token an             *)
(* acknowledged put returned passes a conditional write exactly while the  *)
(* object it was handed out for stands.                                    *)
THEOREM TokensAreExact == StoreSpec => []TokensMatch
<1>1. StoreInit => TokensName
    BY DEF StoreInit, TokensName
<1>2. TokensName /\ [StoreNext]_adapterVars => TokensName'
    BY TokensNameStep
<1>3. TokensName => TokensMatch
    BY TokenHolds DEF TokensName, TokenNames, TokensMatch
<1>4. QED
    BY <1>1, <1>2, <1>3, PTL DEF StoreSpec
=============================================================================
