-------------------------------- MODULE Lease --------------------------------
(***************************************************************************)
(* Coordinator leadership as a lease in object storage:                    *)
(* oqueue-core/src/lease.rs (ObjectStoreLease) driven by                   *)
(* oqueue-broker/src/lease_renewal.rs (keep_lease, renew_lease).           *)
(*                                                                         *)
(* Every node runs one keep_lease task, the only caller of acquire and     *)
(* renew after boot, so one operation per node is under way at a time and  *)
(* what it captured of the Held record cannot change under it. Each await  *)
(* of the code is a place where other nodes and the clocks may move: the   *)
(* search for the newest term, the look for a successor, the conditional   *)
(* PUT, and the time between the PUT landing and its answer. A PUT whose   *)
(* caller gave up, or died, may still land later.                          *)
(***************************************************************************)
EXTENDS Integers, FiniteSets

CONSTANTS Node,      \* processes that run keep_lease
          None,      \* no node
          TTL,       \* LEASE_TTL_MS
          SKEW,      \* LEASE_SKEW_MS
          MaxTime,   \* bound: no clock passes it
          MaxTerm,   \* bound: no term above it is created
          MaxLate    \* bound: PUTs in flight whose caller is gone

ASSUME LeaseAssumption ==
    /\ None \notin Node
    /\ TTL \in Nat \ {0} /\ SKEW \in Nat \ {0}
    /\ MaxTime \in Nat /\ MaxTerm \in Nat /\ MaxLate \in Nat

VARIABLES
    clock,    \* clock[n]: n's wall clock, in milliseconds
    holder,   \* holder[t]: the name in the object lease/<t>; None: no such object
    expires,  \* expires[t]: the expiry in that object
    term,     \* term[n]: Held.term, -1 for none
    token,    \* token[n]: Held.write_handle
    until,    \* until[n]: Held.valid_until
    pc,       \* pc[n]: where n's acquire or renew is
    started,  \* started[n]: the clock when it began
    target,   \* target[n]: the term an acquire has reached
    phase,    \* phase[n]: what n calls next: boot's acquire, keep_lease's, or renew
    asleep,   \* asleep[n]: n's task sleeps before that call
    late      \* PUTs still in flight though their caller timed out or stopped

objects == <<holder, expires>>
heldVars == <<term, token, until>>
opVars == <<pc, started, target>>
taskVars == <<phase, asleep>>
vars == <<clock, objects, heldVars, opVars, taskVars, late>>

Term == 0 .. MaxTerm

MaybeTerm == -1 .. MaxTerm

Time == 0 .. MaxTime + TTL

(* The body is the expiry and the holder's name. A node's successive bodies *)
(* differ (it sleeps between renewals), so the token an ETag or generation  *)
(* gives a write is the expiry that write carried.                          *)
Put == [term : Term, create : BOOLEAN, token : Time, expires : Time, holder : Node]

Exists(t) == holder[t] # None

Newest == IF \E t \in Term : Exists(t)
          THEN CHOOSE t \in Term : Exists(t) /\ \A u \in Term : Exists(u) => u <= t
          ELSE -1

(* is_held: on the node's own clock, from its own deadline, and no request. *)
IsHeld(n) == clock[n] < until[n]

(* The type invariant. Every expiry, deadline and token is at most a TTL   *)
(* past some clock: renew and acquire count from the clock they read first.*)
TypeOK ==
    /\ clock \in [Node -> 0 .. MaxTime]
    /\ holder \in [Term -> Node \cup {None}]
    /\ expires \in [Term -> Time]
    /\ term \in [Node -> MaybeTerm]
    /\ token \in [Node -> Time]
    /\ until \in [Node -> Time]
    /\ pc \in [Node -> {"idle", "search", "claim", "claimed", "refused",
                        "look", "renew", "renewed"}]
    /\ started \in [Node -> 0 .. MaxTime]
    /\ target \in [Node -> MaybeTerm]
    /\ phase \in [Node -> {"boot", "claim", "renew"}]
    /\ asleep \in [Node -> BOOLEAN]
    /\ late \subseteq Put

Init ==
    /\ clock = [n \in Node |-> 0]
    /\ holder = [t \in Term |-> None]
    /\ expires = [t \in Term |-> 0]
    /\ term = [n \in Node |-> -1]
    /\ token = [n \in Node |-> 0]
    /\ until = [n \in Node |-> 0]
    /\ pc = [n \in Node |-> "idle"]
    /\ started = [n \in Node |-> 0]
    /\ target = [n \in Node |-> -1]
    /\ phase = [n \in Node |-> "boot"]
    /\ asleep = [n \in Node |-> FALSE]
    /\ late = {}

-----------------------------------------------------------------------------
(* The environment.                                                        *)

(* One clock advances; no two are ever further apart than the skew. A      *)
(* sleep (LEASE_RENEW_MS, DEGRADED_RETRY) lasts a tick at least.           *)
Tick(n) ==
    /\ clock[n] < MaxTime
    /\ \A m \in Node : clock[n] + 1 <= clock[m] + SKEW
    /\ clock' = [clock EXCEPT ![n] = @ + 1]
    /\ asleep' = [asleep EXCEPT ![n] = FALSE]
    /\ UNCHANGED <<objects, heldVars, opVars, phase, late>>

(* The PUT n's operation has sent: create-only for a claim, conditional on *)
(* the token of n's last write for a renewal.                              *)
PutOf(n) == [term    |-> IF pc[n] = "claim" THEN target[n] ELSE term[n],
             create  |-> pc[n] = "claim",
             token   |-> IF pc[n] = "claim" THEN 0 ELSE token[n],
             expires |-> started[n] + TTL,
             holder  |-> n]

InFlight(n) == pc[n] \in {"claim", "renew"}

(* Mutant of Admits: a renewal overwrites whatever its term holds.         *)
AdmitsAnyToken(p) == p.create => ~Exists(p.term)

(* The store's own test of the precondition, at the moment the PUT lands.  *)
Admits(p) == IF p.create THEN ~Exists(p.term)
             ELSE Exists(p.term) /\ expires[p.term] = p.token

Landing(p) == /\ holder' = [holder EXCEPT ![p.term] = p.holder]
              /\ expires' = [expires EXCEPT ![p.term] = p.expires]

(* The operation is over: renew_lease sleeps a period and calls renew,     *)
(* keep_lease sleeps and tries a new claim. After boot's one claim, won or *)
(* lost, keep_lease begins at once.                                        *)
Finish(n, next) ==
    /\ pc' = [pc EXCEPT ![n] = "idle"]
    /\ started' = [started EXCEPT ![n] = 0]
    /\ target' = [target EXCEPT ![n] = -1]
    /\ phase' = [phase EXCEPT ![n] = IF @ = "boot" THEN "claim" ELSE next]
    /\ asleep' = [asleep EXCEPT ![n] = phase[n] # "boot"]

(* lose: nothing is held, whatever the clock says.                         *)
Lose(n) == /\ term' = [term EXCEPT ![n] = -1]
           /\ token' = [token EXCEPT ![n] = 0]
           /\ until' = [until EXCEPT ![n] = 0]

(* A PUT in flight may outlive its caller, or be lost with it.             *)
Abandon(n) == \/ UNCHANGED late
              \/ /\ InFlight(n) /\ Cardinality(late) < MaxLate
                 /\ late' = late \cup {PutOf(n)}

(* n's task is at the call this phase makes next.                          *)
Calls(n, ph) == pc[n] = "idle" /\ phase[n] = ph /\ ~asleep[n]

-----------------------------------------------------------------------------
(* acquire.                                                                *)

(* acquire, by boot or by a keep_lease that does not hold: the clock is    *)
(* read before the store. The search will settle on a term no older than   *)
(* the newest of this moment.                                              *)
AcquireStart(n) ==
    /\ Calls(n, "boot") \/ (Calls(n, "claim") /\ ~IsHeld(n))
    /\ pc' = [pc EXCEPT ![n] = "search"]
    /\ started' = [started EXCEPT ![n] = clock[n]]
    /\ target' = [target EXCEPT ![n] = Newest]
    /\ UNCHANGED <<clock, objects, heldVars, taskVars, late>>

(* keep_lease: held already, by the claim made at boot, so straight to     *)
(* renew_lease.                                                            *)
AlreadyHeld(n) ==
    /\ Calls(n, "claim") /\ IsHeld(n)
    /\ Finish(n, "renew")
    /\ UNCHANGED <<clock, objects, heldVars, late>>

(* newest found no term at all: claim the first.                           *)
AcquireFirst(n) ==
    /\ pc[n] = "search" /\ ~Exists(0)
    /\ pc' = [pc EXCEPT ![n] = "claim"]
    /\ target' = [target EXCEPT ![n] = 0]
    /\ UNCHANGED <<clock, objects, heldVars, started, taskVars, late>>

(* newest answered term t: claim its successor if t's expiry plus the skew *)
(* had passed when this acquire began.                                     *)
AcquireNext(n, t) ==
    /\ pc[n] = "search" /\ Exists(t) /\ t >= target[n]
    /\ started[n] >= expires[t] + SKEW
    /\ t < MaxTerm
    /\ pc' = [pc EXCEPT ![n] = "claim"]
    /\ target' = [target EXCEPT ![n] = t + 1]
    /\ UNCHANGED <<clock, objects, heldVars, started, taskVars, late>>

(* newest answered a term that has not expired: somebody else's.           *)
AcquireTaken(n, t) ==
    /\ pc[n] = "search" /\ Exists(t) /\ t >= target[n]
    /\ started[n] < expires[t] + SKEW
    /\ Finish(n, "claim")
    /\ UNCHANGED <<clock, objects, heldVars, late>>

(* The PUT of n's operation reaches the store, which takes it or not.      *)
Land(n) ==
    /\ InFlight(n) /\ Admits(PutOf(n))
    /\ Landing(PutOf(n))
    /\ pc' = [pc EXCEPT ![n] = IF @ = "claim" THEN "claimed" ELSE "renewed"]
    /\ UNCHANGED <<clock, heldVars, started, target, taskVars, late>>

Refuse(n) ==
    /\ InFlight(n) /\ ~Admits(PutOf(n))
    /\ pc' = [pc EXCEPT ![n] = "refused"]
    /\ UNCHANGED <<clock, objects, heldVars, started, target, taskVars, late>>

(* Mutant of Acquired: the deadline runs from the answer.                  *)
AcquiredFromAnswer(n) ==
    /\ pc[n] = "claimed"
    /\ term' = [term EXCEPT ![n] = target[n]]
    /\ token' = [token EXCEPT ![n] = started[n] + TTL]
    /\ until' = [until EXCEPT ![n] = clock[n] + TTL]
    /\ Finish(n, "renew")
    /\ UNCHANGED <<clock, objects, late>>

(* The claim's answer: the deadline runs from the start of the acquire.    *)
Acquired(n) ==
    /\ pc[n] = "claimed"
    /\ term' = [term EXCEPT ![n] = target[n]]
    /\ token' = [token EXCEPT ![n] = started[n] + TTL]
    /\ until' = [until EXCEPT ![n] = started[n] + TTL]
    /\ Finish(n, "renew")
    /\ UNCHANGED <<clock, objects, late>>

-----------------------------------------------------------------------------
(* renew.                                                                  *)

(* A lapsed lease is not renewed: renew loses it and answers false.        *)
RenewLapsed(n) ==
    /\ Calls(n, "renew") /\ clock[n] >= until[n]
    /\ Lose(n)
    /\ Finish(n, "claim")
    /\ UNCHANGED <<clock, objects, late>>

RenewStart(n) ==
    /\ Calls(n, "renew") /\ clock[n] < until[n]
    /\ pc' = [pc EXCEPT ![n] = "look"]
    /\ started' = [started EXCEPT ![n] = clock[n]]
    /\ UNCHANGED <<clock, objects, heldVars, target, taskVars, late>>

(* The look for a successor's term: one that exists ends this one at once. *)
RenewSuperseded(n) ==
    /\ pc[n] = "look" /\ term[n] + 1 \in Term /\ Exists(term[n] + 1)
    /\ Lose(n)
    /\ Finish(n, "claim")
    /\ UNCHANGED <<clock, objects, late>>

RenewLook(n) ==
    /\ pc[n] = "look" /\ (term[n] + 1 \in Term => ~Exists(term[n] + 1))
    /\ pc' = [pc EXCEPT ![n] = "renew"]
    /\ UNCHANGED <<clock, objects, heldVars, started, target, taskVars, late>>

(* Mutant of Renewed: the new deadline counts however late the answer      *)
(* comes.                                                                  *)
RenewedHoweverLate(n) ==
    /\ pc[n] = "renewed"
    /\ token' = [token EXCEPT ![n] = started[n] + TTL]
    /\ until' = [until EXCEPT ![n] = started[n] + TTL]
    /\ Finish(n, "renew")
    /\ UNCHANGED <<clock, objects, term, late>>

(* The renewal's answer. The new deadline counts only if the answer came   *)
(* before the old one less the skew.                                       *)
Renewed(n) ==
    /\ pc[n] = "renewed"
    /\ token' = [token EXCEPT ![n] = started[n] + TTL]
    /\ until' = [until EXCEPT ![n] =
                    IF clock[n] < until[n] - SKEW THEN started[n] + TTL ELSE until[n]]
    /\ Finish(n, "renew")
    /\ UNCHANGED <<clock, objects, term, late>>

-----------------------------------------------------------------------------
(* Failures.                                                               *)

(* The store refused: a claim lost its race.                               *)
ClaimRefused(n) ==
    /\ pc[n] = "refused" /\ phase[n] # "renew"
    /\ Finish(n, "claim")
    /\ UNCHANGED <<clock, objects, heldVars, late>>

(* The store refused: a renewal that does not match its token lost it.     *)
RenewRefused(n) ==
    /\ pc[n] = "refused" /\ phase[n] = "renew"
    /\ Lose(n)
    /\ Finish(n, "claim")
    /\ UNCHANGED <<clock, objects, late>>

(* Any request of the operation errors: Err leaves held as it was, and the *)
(* loop stays where it was. The PUT may have landed, or may land yet.      *)
Errs(n) ==
    /\ pc[n] # "idle"
    /\ Abandon(n)
    /\ Finish(n, phase[n])
    /\ UNCHANGED <<clock, objects, heldVars>>

(* The process stops and starts again, with nothing but its clock; boot    *)
(* calls acquire once, and then keep_lease begins.                         *)
Restart(n) ==
    /\ Abandon(n)
    /\ Lose(n)
    /\ pc' = [pc EXCEPT ![n] = "idle"]
    /\ started' = [started EXCEPT ![n] = 0]
    /\ target' = [target EXCEPT ![n] = -1]
    /\ phase' = [phase EXCEPT ![n] = "boot"]
    /\ asleep' = [asleep EXCEPT ![n] = FALSE]
    /\ UNCHANGED <<clock, objects>>

(* A PUT nobody waits for reaches the store.                               *)
LateLand(p) ==
    /\ p \in late
    /\ late' = late \ {p}
    /\ IF Admits(p) THEN Landing(p) ELSE UNCHANGED objects
    /\ UNCHANGED <<clock, heldVars, opVars, taskVars>>

Step(n) ==
    \/ Tick(n)
    \/ AcquireStart(n) \/ AlreadyHeld(n) \/ AcquireFirst(n)
    \/ \E t \in Term : AcquireNext(n, t) \/ AcquireTaken(n, t)
    \/ Land(n) \/ Refuse(n) \/ Acquired(n)
    \/ RenewLapsed(n) \/ RenewStart(n) \/ RenewSuperseded(n) \/ RenewLook(n)
    \/ Renewed(n) \/ ClaimRefused(n) \/ RenewRefused(n)
    \/ Errs(n) \/ Restart(n)

Next == \/ \E n \in Node : Step(n)
        \/ \E p \in late : LateLand(p)

Spec == Init /\ [][Next]_vars

-----------------------------------------------------------------------------
(* Properties.                                                             *)

(* At most one node may act as leader at any moment, whatever requests are *)
(* in flight, late or lost, as long as no two clocks are further apart     *)
(* than LEASE_SKEW_MS (lease.rs, is_held).                                 *)
LeaseMutex == \A n, m \in Node : IsHeld(n) /\ IsHeld(m) => n = m

(* A term, once created, keeps its holder for ever and its expiry never    *)
(* moves back: a renewal held up in the network past a later one is refused *)
(* by its token (lease.rs, renew).                                         *)
TermsOnlyExtend ==
    [][\A t \in Term : Exists(t) =>
          holder'[t] = holder[t] /\ expires'[t] >= expires[t]]_vars

-----------------------------------------------------------------------------
(* The inductive invariant behind LeaseMutex, in parts.                    *)

ClocksAgree == \A n, m \in Node : clock[n] <= clock[m] + SKEW

(* Terms are created in order and never deleted.                           *)
Contiguous == \E k \in MaybeTerm : \A t \in Term : Exists(t) <=> t <= k

(* A node's deadline is never later than the expiry its term records.      *)
HeldRecorded(n) ==
    IF term[n] = -1 THEN until[n] = 0
    ELSE holder[term[n]] = n /\ until[n] <= expires[term[n]]

(* What an operation under way has captured still says something true.     *)
OpRecorded(n) ==
    /\ started[n] <= clock[n] /\ token[n] <= clock[n] + TTL
    /\ phase[n] = "renew" => term[n] # -1
    /\ pc[n] \in {"look", "renew", "renewed"} =>
          phase[n] = "renew" /\ token[n] <= started[n] + TTL
    /\ phase[n] = "boot" => until[n] = 0
    /\ pc[n] \in {"search", "claim", "claimed"} => phase[n] # "renew" /\ until[n] <= clock[n]
    /\ pc[n] = "claim" => target[n] # -1 /\ (target[n] > 0 => Exists(target[n] - 1))
    /\ pc[n] = "claimed" =>
          /\ target[n] # -1 /\ holder[target[n]] = n
          /\ expires[target[n]] >= started[n] + TTL
    /\ pc[n] = "renewed" => expires[term[n]] >= started[n] + TTL

LateRecorded(p) ==
    IF p.create THEN p.term > 0 => Exists(p.term - 1)
    ELSE holder[p.term] = p.holder /\ p.token <= p.expires

(* Term t exists, or a PUT that would create it is in flight.              *)
Claimed(t) == \/ Exists(t)
              \/ \E n \in Node : pc[n] = "claim" /\ target[n] = t
              \/ \E p \in late : p.create /\ p.term = t

(* n has no use of term t left: its deadline is past, and so is the one it *)
(* would learn of if its claim's answer came now.                          *)
Spent(n, t) == /\ term[n] = t => until[n] <= clock[n]
               /\ pc[n] = "claimed" /\ target[n] = t => started[n] + TTL <= clock[n]

(* From the moment a successor has decided to claim the next term, every   *)
(* node's deadline under this one is past and stays past: a renewal still  *)
(* in flight comes back too late to count (lease.rs, renew's check of when *)
(* it finished).                                                           *)
SuccessorWaited ==
    \A t \in Term : t < MaxTerm /\ Claimed(t + 1) => \A n \in Node : Spent(n, t)

LeaseInv ==
    /\ TypeOK
    /\ ClocksAgree
    /\ Contiguous
    /\ \A n \in Node : HeldRecorded(n)
    /\ \A n \in Node : OpRecorded(n)
    /\ \A p \in late : LateRecorded(p)
    /\ SuccessorWaited

-----------------------------------------------------------------------------
(* The refinement of Leadership.                                           *)

LeaderNow == IF \E n \in Node : IsHeld(n) THEN CHOOSE n \in Node : IsHeld(n) ELSE None

Claimant(n) == pc[n] = "claimed" /\ target[n] = Newest

PendingNow == IF \E n \in Node : Claimant(n)
              THEN CHOOSE n \in Node : Claimant(n) ELSE None

L == INSTANCE Leadership WITH terms <- Newest + 1, pending <- PendingNow, leader <- LeaderNow

(* What the rest of the coordinator relies on: terms are led one at a      *)
(* time, each once, by the node that created it, and no term is created    *)
(* while an earlier one is led (Leadership.tla).                           *)
Implements == L!Spec
=============================================================================
