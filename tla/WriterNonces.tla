---------------------------- MODULE WriterNonces ----------------------------
(***************************************************************************)
(* The nonces regions are sealed under: a writer takes an epoch from the   *)
(* durable counter, each of its objects a sequence, each region an index.  *)
(* Writers allocate at once, stop anywhere, and lose answers.              *)
(*   oqueue-core/src/writer_epoch.rs, nonce.rs                             *)
(***************************************************************************)
EXTENDS Naturals, Sequences, FiniteSets

CONSTANTS
    Proc,           \* writer processes
    MAX_EPOCH,      \* MAX_WRITER_EPOCH
    MAX_SEQUENCE,   \* MAX_OBJECT_SEQUENCE
    MAX_REGION,     \* MAX_REGION_INDEX
    MAX_ATTEMPTS,   \* MAX_ALLOCATION_ATTEMPTS
    MaxStops        \* bound: processes stopped

ASSUME NonceAssumption == MAX_EPOCH \in Nat /\ MAX_SEQUENCE \in Nat /\ MAX_REGION \in Nat

VARIABLES
    terms,     \* the term objects in the store
    marker,    \* whether the marker object is there
    proc,      \* each process: its allocation, then its minter and objects
    issued,    \* the epochs allocations returned, in order
    spent,     \* the nonces minted, in order
    stops, wiped

nonceVars == <<terms, marker, proc, issued, spent, stops, wiped>>

Stopped == [pc |-> "stopped", newest |-> 0, tries |-> 0, epoch |-> 0, next |-> 0, open |-> {}]

NonceInit ==
    /\ terms = {} /\ marker = FALSE
    /\ proc = [p \in Proc |-> Stopped]
    /\ issued = <<>> /\ spent = <<>>
    /\ stops = 0 /\ wiped = FALSE

Goes(p, pc) == proc' = [proc EXCEPT ![p].pc = pc]
Kept == UNCHANGED <<issued, spent, stops, wiped>>

(* allocate, another attempt: newest, of terms that leave no gap.          *)
Allocate(p) ==
    /\ proc[p].pc = "stopped"
    /\ Goes(p, "listing")
    /\ UNCHANGED <<terms, marker>> /\ Kept

Unbroken(held) == held = 0 .. Cardinality(held) - 1
ListTerms(p) ==
    /\ proc[p].pc = "listing"
    /\ proc' = [proc EXCEPT ![p] =
           IF ~Unbroken(terms) \/ proc[p].tries = MAX_ATTEMPTS THEN Stopped
           ELSE [proc[p] EXCEPT !.tries = proc[p].tries + 1, !.newest = Cardinality(terms),
                                !.pc = IF terms = {} THEN "first" ELSE "marking"]]
    /\ UNCHANGED <<terms, marker>> /\ Kept

(* Mutant of MarkerForbids: a counter that is gone starts again.           *)
MarkerForbidsNot == FALSE

(* marker_exists: a marker without a term is a history lost, and no        *)
(* invitation to begin at zero again.                                      *)
MarkerForbids == marker

LookForMarker(p) ==
    /\ proc[p].pc = "first"
    /\ proc' = [proc EXCEPT ![p] = IF MarkerForbids THEN Stopped ELSE [@ EXCEPT !.pc = "putting"]]
    /\ UNCHANGED <<terms, marker>> /\ Kept

(* ensure_marker, before any term after zero.                              *)
EnsureMarker(p) ==
    /\ proc[p].pc = "marking"
    /\ marker' = TRUE
    /\ Goes(p, "putting")
    /\ UNCHANGED terms /\ Kept

(* next_term, and the PUT of it if absent: one past the newest.            *)
Writable(p) == proc[p].newest <= MAX_EPOCH

TermFree(t) == t \notin terms

Allocated(p) == [proc[p] EXCEPT !.pc = IF proc[p].newest = 0 THEN "remarking" ELSE "minting",
                                !.epoch = proc[p].newest, !.next = 0]
PutTerm(p) ==
    /\ proc[p].pc = "putting" /\ Writable(p) /\ TermFree(proc[p].newest)
    /\ terms' = terms \cup {proc[p].newest}
    /\ proc' = [proc EXCEPT ![p] = Allocated(p)]
    /\ issued' = IF proc[p].newest = 0 THEN issued ELSE Append(issued, proc[p].newest)
    /\ UNCHANGED <<marker, spent, stops, wiped>>

(* Another allocator was first: list again.                                *)
TermTaken(p) ==
    /\ proc[p].pc = "putting" /\ Writable(p) /\ ~TermFree(proc[p].newest)
    /\ Goes(p, "listing")
    /\ UNCHANGED <<terms, marker>> /\ Kept

EpochsExhausted(p) ==
    /\ proc[p].pc = "putting" /\ ~Writable(p)
    /\ proc' = [proc EXCEPT ![p] = Stopped]
    /\ UNCHANGED <<terms, marker>> /\ Kept

(* Epoch zero is returned once its marker is there.                        *)
MarkFirst(p) ==
    /\ proc[p].pc = "remarking"
    /\ marker' = TRUE
    /\ Goes(p, "minting")
    /\ issued' = Append(issued, 0)
    /\ UNCHANGED <<terms, spent, stops, wiped>>

(* The process stops, or a request of it fails; its PUT may have landed.   *)
Stop(p, lands) ==
    /\ proc[p].pc # "stopped" /\ stops < MaxStops
    /\ lands => proc[p].pc = "putting" /\ Writable(p) /\ TermFree(proc[p].newest)
    /\ terms' = IF lands THEN terms \cup {proc[p].newest} ELSE terms
    /\ proc' = [proc EXCEPT ![p] = Stopped]
    /\ stops' = stops + 1
    /\ UNCHANGED <<marker, issued, spent, wiped>>

(* The counter is emptied, while nobody allocates, and its marker left: a  *)
(* wipe between an allocator's look and its PUT is not told apart.         *)
Wipe ==
    /\ ~wiped /\ marker
    /\ \A p \in Proc : proc[p].pc \in {"stopped", "minting"}
    /\ terms' = {} /\ wiped' = TRUE
    /\ UNCHANGED <<marker, proc, issued, spent, stops>>

-----------------------------------------------------------------------------

(* NonceMinter::next_object: the counter only advances, and never wraps.   *)
NextObject(minter) ==
    IF minter.next > MAX_SEQUENCE THEN minter
    ELSE [minter EXCEPT !.open = @ \cup {<<minter.next, 0>>}, !.next = @ + 1]

OpenObject(p) ==
    /\ proc[p].pc = "minting"
    /\ NextObject(proc[p]) # proc[p]
    /\ proc' = [proc EXCEPT ![p] = NextObject(@)]
    /\ UNCHANGED <<terms, marker>> /\ Kept

(* The twelve bytes: each part truncated to its field.                     *)
NonceOf(epoch, sequence, region) ==
    <<epoch % (MAX_EPOCH + 1), sequence % (MAX_SEQUENCE + 1), region % (MAX_REGION + 1)>>

(* NonceSource::for_region: in range, and in order; refused otherwise.     *)
InTurn(source, region) == region <= MAX_REGION /\ region = source[2]

SealRegion(p, source, region) ==
    /\ proc[p].pc = "minting" /\ source \in proc[p].open
    /\ InTurn(source, region)
    /\ spent' = Append(spent, NonceOf(proc[p].epoch, source[1], region))
    /\ proc' = [proc EXCEPT ![p].open = (@ \ {source}) \cup {<<source[1], region + 1>>}]
    /\ UNCHANGED <<terms, marker, issued, stops, wiped>>

NonceNext ==
    \/ \E p \in Proc : \/ Allocate(p) \/ ListTerms(p) \/ LookForMarker(p) \/ EnsureMarker(p)
                       \/ PutTerm(p) \/ TermTaken(p) \/ EpochsExhausted(p) \/ MarkFirst(p)
                       \/ OpenObject(p)
                       \/ \E s \in proc[p].open, i \in 0 .. MAX_REGION + 1 : SealRegion(p, s, i)
    \/ \E p \in Proc, b \in BOOLEAN : Stop(p, b)
    \/ Wipe

NonceSpec == NonceInit /\ [][NonceNext]_nonceVars

-----------------------------------------------------------------------------
(* No epoch is ever handed out twice: not to two allocators that list at   *)
(* once, not after a PUT whose answer was lost, not when the counter is    *)
(* found empty though it once was not.                                     *)
EpochsOnce == \A i, j \in 1 .. Len(issued) : issued[i] = issued[j] => i = j

(* No two regions are ever sealed under one nonce, whatever fields are     *)
(* full and whichever process sealed them.                                 *)
NoncesOnce == \A i, j \in 1 .. Len(spent) : spent[i] = spent[j] => i = j

(* The two together: what a key is used with never repeats, across the     *)
(* processes that take its epochs and across their restarts.               *)
NoncesSound == EpochsOnce /\ NoncesOnce
=============================================================================
