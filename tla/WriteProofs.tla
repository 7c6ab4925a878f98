---------------------------- MODULE WriteProofs ----------------------------
(***************************************************************************)
(* The write path. Why no nonce repeats and why every sealed region opens  *)
(* again, for any number of writers, tasks, keys and objects and any width *)
(* of the fields; and why a producer is told the truth, what is committed  *)
(* can be read and a key names one object, for any requests, partitions,   *)
(* domains and connections and any number of restarts. And why a batch is  *)
(* written once, in order and where its producer is told, through retries, *)
(* lost answers and failovers, for any producers, sequence space and cap.  *)
(***************************************************************************)
EXTENDS WriterNonces, KeyCaches, Produce, Sequencing, FiniteSetTheorems, WellFoundedInduction, TLAPS

-----------------------------------------------------------------------------
(* Writer epochs and nonces.                                               *)

ProcPcs == {"stopped", "listing", "first", "marking", "putting", "remarking", "minting"}
Epochs == 0 .. MAX_EPOCH
ObjectSequences == 0 .. MAX_SEQUENCE
Sources == ObjectSequences \X (0 .. MAX_REGION + 1)

NonceTypes ==
    /\ terms \subseteq Epochs
    /\ marker \in BOOLEAN /\ wiped \in BOOLEAN
    /\ proc \in [Proc -> [pc : ProcPcs, newest : Nat, tries : Nat, epoch : Epochs,
                          next : Nat, open : SUBSET Sources]]
    /\ issued \in Seq(Epochs)
    /\ spent \in Seq(Epochs \X ObjectSequences \X (0 .. MAX_REGION))

WasIssued(e) == \E i \in 1 .. Len(issued) : issued[i] = e

(* An epoch handed out has its term in the store, until the store is       *)
(* wiped; after that the marker forbids every allocation.                  *)
TermsKept ==
    /\ ~wiped => \A i \in 1 .. Len(issued) : issued[i] \in terms
    /\ wiped => /\ marker /\ terms = {}
                /\ \A p \in Proc : proc[p].pc \in {"stopped", "listing", "first", "minting"}

(* Each epoch has one owner: the process that minted under it, or the one  *)
(* that is to mint under zero once its marker is there.                    *)
Owns(p) == proc[p].pc \in {"remarking", "minting"}

EpochsOwned ==
    /\ \A p \in Proc : proc[p].pc = "minting" => WasIssued(proc[p].epoch)
    /\ \A p \in Proc : proc[p].pc = "remarking" =>
           proc[p].epoch = 0 /\ ~WasIssued(0) /\ 0 \in terms
    /\ \A p, q \in Proc : Owns(p) /\ Owns(q) /\ proc[p].epoch = proc[q].epoch => p = q

(* A minter's counters are past everything spent under its epoch.          *)
CountersPast ==
    \A p \in Proc : proc[p].pc = "minting" =>
        /\ \A s \in proc[p].open : s[1] < proc[p].next
        /\ \A s, r \in proc[p].open : s[1] = r[1] => s = r
        /\ \A i \in 1 .. Len(spent) : spent[i][1] = proc[p].epoch =>
               /\ spent[i][2] < proc[p].next
               /\ \A s \in proc[p].open : s[1] = spent[i][2] => spent[i][3] < s[2]

NothingOpen == \A p \in Proc : proc[p].pc # "minting" => proc[p].open = {}

SpentUnderIssued == \A i \in 1 .. Len(spent) : WasIssued(spent[i][1])

NonceInv == NonceTypes /\ TermsKept /\ EpochsOwned /\ CountersPast /\ NothingOpen
            /\ SpentUnderIssued /\ EpochsOnce /\ NoncesOnce

ProcRecord == [pc : ProcPcs, newest : Nat, tries : Nat, epoch : Epochs,
               next : Nat, open : SUBSET Sources]

(* A process that goes on to a place where it owns no epoch, with terms    *)
(* and marker no fewer than before.                                        *)
LEMMA UnownedKeeps ==
    ASSUME NonceInv, NEW p \in Proc, NEW r \in ProcRecord,
           proc' = [proc EXCEPT ![p] = r],
           r.pc \notin {"remarking", "minting"}, r.open = {},
           wiped => r.pc \in {"stopped", "listing", "first"} /\ terms' = terms,
           terms \subseteq terms', terms' \subseteq Epochs,
           marker => marker', marker' \in BOOLEAN,
           UNCHANGED <<issued, spent, wiped>>
    PROVE  NonceInv'
<1> USE DEF NonceInv
<1>1. proc'[p] = r /\ \A q \in Proc \ {p} : proc'[q] = proc[q]
  BY DEF NonceTypes
<1>2. NonceTypes'
  BY DEF NonceTypes, ProcRecord
<1>3. TermsKept'
  BY <1>1 DEF TermsKept
<1>4. EpochsOwned'
  BY <1>1 DEF EpochsOwned, Owns, WasIssued
<1>5. CountersPast' /\ NothingOpen'
  BY <1>1 DEF CountersPast, NothingOpen
<1>6. SpentUnderIssued' /\ EpochsOnce' /\ NoncesOnce'
  BY DEF SpentUnderIssued, EpochsOnce, NoncesOnce, WasIssued
<1> QED
  BY <1>2, <1>3, <1>4, <1>5, <1>6

LEMMA StoppedIs == Stopped \in ProcRecord /\ Stopped.pc = "stopped" /\ Stopped.open = {}
  BY NonceAssumption DEF Stopped, ProcRecord, ProcPcs, Epochs, Sources

LEMMA GoesOn ==
    ASSUME NonceInv, NEW p \in Proc, NEW to \in ProcPcs
    PROVE  LET r == [proc[p] EXCEPT !.pc = to]
           IN  /\ r \in ProcRecord /\ r.pc = to
               /\ proc[p].pc # "minting" => r.open = {}
<1>1. proc[p] \in ProcRecord
  BY DEF NonceInv, NonceTypes, ProcRecord
<1> QED
  BY <1>1 DEF ProcRecord, NonceInv, NothingOpen

LEMMA AllocateKeeps ==
    ASSUME NonceInv, NEW p \in Proc, Allocate(p) \/ TermTaken(p)
    PROVE  NonceInv'
<1> DEFINE r == [proc[p] EXCEPT !.pc = "listing"]
<1>1. r \in ProcRecord /\ r.pc = "listing" /\ (proc[p].pc # "minting" => r.open = {})
  BY GoesOn DEF ProcPcs
<1>2. proc[p].pc # "minting"
  BY DEF Allocate, TermTaken
<1>3. proc' = [proc EXCEPT ![p] = r]
  BY DEF Allocate, TermTaken, Goes
<1>4. UNCHANGED <<terms, marker, issued, spent, wiped>>
  BY DEF Allocate, TermTaken, Kept
<1> HIDE DEF r
<1> QED
  BY <1>1, <1>2, <1>3, <1>4, UnownedKeeps DEF NonceInv, NonceTypes

LEMMA ListTermsKeeps ==
    ASSUME NonceInv, NEW p \in Proc, ListTerms(p)
    PROVE  NonceInv'
<1> DEFINE found == [proc[p] EXCEPT !.tries = proc[p].tries + 1, !.newest = Cardinality(terms),
                                    !.pc = IF terms = {} THEN "first" ELSE "marking"]
           r == IF ~Unbroken(terms) \/ proc[p].tries = MAX_ATTEMPTS THEN Stopped ELSE found
<1>1. Cardinality(terms) \in Nat
  <2>1. IsFiniteSet(Epochs)
    BY FS_Interval, NonceAssumption DEF Epochs
  <2>2. IsFiniteSet(terms)
    BY <2>1, FS_Subset DEF NonceInv, NonceTypes
  <2> QED
    BY <2>2, FS_CardinalityType
<1>2. found \in ProcRecord /\ found.pc = (IF terms = {} THEN "first" ELSE "marking")
      /\ found.open = {}
  <2>1. proc[p] \in ProcRecord
    BY DEF NonceInv, NonceTypes, ProcRecord
  <2>2. proc[p].tries + 1 \in Nat
    BY <2>1 DEF ProcRecord
  <2> QED
    BY <1>1, <2>1, <2>2 DEF ProcRecord, ProcPcs, NonceInv, NothingOpen, ListTerms
<1>3. r \in ProcRecord /\ r.pc \in {"stopped", "first", "marking"} /\ (terms = {} => r.pc # "marking")
      /\ r.open = {}
  BY <1>2, StoppedIs
<1>4. proc' = [proc EXCEPT ![p] = r] /\ UNCHANGED <<terms, marker, issued, spent, wiped>>
  BY DEF ListTerms, Kept
<1>5. wiped => terms = {}
  BY DEF NonceInv, TermsKept
<1> HIDE DEF r
<1> QED
  BY <1>3, <1>4, <1>5, UnownedKeeps DEF NonceInv, NonceTypes

LEMMA LookForMarkerKeeps ==
    ASSUME NonceInv, NEW p \in Proc, LookForMarker(p)
    PROVE  NonceInv'
<1> DEFINE went == [proc[p] EXCEPT !.pc = "putting"]
           r == IF MarkerForbids THEN Stopped ELSE went
<1>1. went \in ProcRecord /\ went.pc = "putting" /\ went.open = {}
  BY GoesOn DEF ProcPcs, LookForMarker
<1>2. r \in ProcRecord /\ r.pc \in {"stopped", "putting"} /\ (marker => r.pc = "stopped")
      /\ r.open = {}
  BY <1>1, StoppedIs DEF MarkerForbids
<1>3. proc' = [proc EXCEPT ![p] = r] /\ UNCHANGED <<terms, marker, issued, spent, wiped>>
  BY DEF LookForMarker, Kept
<1>4. wiped => marker
  BY DEF NonceInv, TermsKept
<1> HIDE DEF r
<1> QED
  BY <1>2, <1>3, <1>4, UnownedKeeps DEF NonceInv, NonceTypes

LEMMA EnsureMarkerKeeps ==
    ASSUME NonceInv, NEW p \in Proc, EnsureMarker(p)
    PROVE  NonceInv'
<1> DEFINE r == [proc[p] EXCEPT !.pc = "putting"]
<1>1. r \in ProcRecord /\ r.pc = "putting" /\ r.open = {}
  BY GoesOn DEF ProcPcs, EnsureMarker
<1>2. proc' = [proc EXCEPT ![p] = r]
  BY DEF EnsureMarker, Goes
<1>3. marker' = TRUE /\ UNCHANGED <<terms, issued, spent, wiped>> /\ ~wiped
  BY DEF EnsureMarker, Kept, NonceInv, TermsKept, NonceTypes
<1> HIDE DEF r
<1> QED
  BY <1>1, <1>2, <1>3, UnownedKeeps DEF NonceInv, NonceTypes

(* A process that stops leaves its epoch to nobody; a PUT of it that lands *)
(* later only adds a term.                                                 *)
LEMMA StopKeeps ==
    ASSUME NonceInv, NEW p \in Proc, NEW lands \in BOOLEAN, Stop(p, lands) \/ EpochsExhausted(p)
    PROVE  NonceInv'
<1>1. proc' = [proc EXCEPT ![p] = Stopped] /\ UNCHANGED <<marker, issued, spent, wiped>>
  BY DEF Stop, EpochsExhausted, Kept
<1>2. terms \subseteq terms' /\ terms' \subseteq Epochs
  <2>1. Writable(p) => proc[p].newest \in Epochs
    BY NonceAssumption DEF Writable, NonceInv, NonceTypes, Epochs
  <2>2. terms' = terms \/ (Writable(p) /\ terms' = terms \cup {proc[p].newest})
    BY DEF Stop, EpochsExhausted
  <2> QED
    BY <2>1, <2>2 DEF NonceInv, NonceTypes
<1>3. wiped => terms' = terms
  BY DEF Stop, EpochsExhausted, NonceInv, TermsKept
<1> QED
  BY <1>1, <1>2, <1>3, StoppedIs, UnownedKeeps DEF NonceInv, NonceTypes

(* The sequence of epochs issued, and what an addition to it says.         *)
LEMMA IssuedAppend ==
    ASSUME NonceInv, NEW e \in Epochs, ~WasIssued(e), issued' = Append(issued, e)
    PROVE  /\ issued' \in Seq(Epochs)
           /\ EpochsOnce'
           /\ \A f : WasIssued(f)' <=> WasIssued(f) \/ f = e
           /\ \A i \in 1 .. Len(issued') : WasIssued(issued'[i]) \/ issued'[i] = e
<1>1. issued \in Seq(Epochs) /\ Len(issued) \in Nat
  BY DEF NonceInv, NonceTypes
<1>2. issued' \in Seq(Epochs) /\ Len(issued') = Len(issued) + 1 /\ issued'[Len(issued) + 1] = e
      /\ \A i \in 1 .. Len(issued) : issued'[i] = issued[i]
  BY <1>1
<1>3. \A i \in 1 .. Len(issued') : i \in 1 .. Len(issued) \/ i = Len(issued) + 1
  BY <1>1, <1>2
<1>4. EpochsOnce'
  <2>1. \A i \in 1 .. Len(issued) : issued[i] # e
    BY DEF WasIssued
  <2> QED
    BY <1>2, <1>3, <2>1 DEF EpochsOnce, NonceInv
<1>5. \A f : WasIssued(f)' <=> WasIssued(f) \/ f = e
  BY <1>1, <1>2, <1>3 DEF WasIssued
<1>6. \A i \in 1 .. Len(issued') : WasIssued(issued'[i]) \/ issued'[i] = e
  BY <1>2, <1>3 DEF WasIssued
<1> QED
  BY <1>2, <1>4, <1>5, <1>6

(* A term is taken by one PUT: its epoch was issued to nobody before.      *)
LEMMA PutTermKeeps ==
    ASSUME NonceInv, NEW p \in Proc, PutTerm(p)
    PROVE  NonceInv'
<1> DEFINE e == proc[p].newest
           r == Allocated(p)
<1>1. proc[p] \in ProcRecord /\ e \in Nat /\ e <= MAX_EPOCH /\ e \notin terms
  BY DEF NonceInv, NonceTypes, ProcRecord, PutTerm, Writable, TermFree
<1>2. e \in Epochs
  BY <1>1, NonceAssumption DEF Epochs
<1>w. ~wiped
  BY DEF PutTerm, NonceInv, NonceTypes, TermsKept
<1>3. ~WasIssued(e)
  BY <1>1, <1>w DEF NonceInv, TermsKept, WasIssued
<1>4. /\ r \in ProcRecord /\ r.epoch = e /\ r.next = 0 /\ r.open = {}
      /\ r.pc = IF e = 0 THEN "remarking" ELSE "minting"
  BY <1>1, <1>2 DEF Allocated, ProcRecord, ProcPcs, PutTerm, NonceInv, NothingOpen
<1>5. /\ terms' = terms \cup {e} /\ proc' = [proc EXCEPT ![p] = r]
      /\ issued' = (IF e = 0 THEN issued ELSE Append(issued, e))
      /\ UNCHANGED <<marker, spent, stops, wiped>>
  BY DEF PutTerm
<1>6. proc'[p] = r /\ \A q \in Proc \ {p} : proc'[q] = proc[q]
  BY <1>5 DEF NonceInv, NonceTypes
<1> HIDE DEF r, e
<1>7. /\ issued' \in Seq(Epochs) /\ EpochsOnce'
      /\ \A f : WasIssued(f)' <=> WasIssued(f) \/ (f = e /\ e # 0)
      /\ \A i \in 1 .. Len(issued') : WasIssued(issued'[i]) \/ issued'[i] = e
  <2>1. CASE e = 0
    BY <1>5, <2>1 DEF WasIssued, EpochsOnce, NonceInv, NonceTypes
  <2>2. CASE e # 0
    BY <1>2, <1>3, <1>5, <2>2, IssuedAppend
  <2> QED
    BY <2>1, <2>2
<1>8. NonceTypes'
  BY <1>2, <1>4, <1>5, <1>7 DEF NonceTypes, NonceInv, ProcRecord
<1>9. TermsKept'
  <2>1. \A f : WasIssued(f) => f \in terms
    BY <1>w DEF WasIssued, NonceInv, TermsKept
  <2> QED
    BY <1>w, <1>5, <1>7, <2>1 DEF TermsKept
<1>10. EpochsOwned'
  <2>1. \A q \in Proc : Owns(q) => proc[q].epoch # e
    BY <1>1, <1>3 DEF Owns, NonceInv, EpochsOwned, e
  <2>2. \A q \in Proc : (proc[q].pc = "minting" => WasIssued(proc[q].epoch))'
    <3> SUFFICES ASSUME NEW q \in Proc, proc'[q].pc = "minting"
                 PROVE  \E i \in 1 .. Len(issued') : issued'[i] = proc'[q].epoch
      BY DEF WasIssued
    <3>1. \A f : WasIssued(f) => \E i \in 1 .. Len(issued') : issued'[i] = f
      BY <1>7 DEF WasIssued
    <3>2. CASE q = p
      BY <1>4, <1>6, <1>7, <3>2 DEF WasIssued
    <3>3. CASE q # p
      BY <1>6, <3>1, <3>3 DEF NonceInv, EpochsOwned
    <3> QED
      BY <3>2, <3>3
  <2>3. \A q \in Proc : proc'[q].pc = "remarking" =>
            proc'[q].epoch = 0 /\ ~WasIssued(0)' /\ 0 \in terms'
    BY <1>3, <1>4, <1>5, <1>6, <1>7 DEF NonceInv, EpochsOwned
  <2>4. \A q1, q2 \in Proc : Owns(q1)' /\ Owns(q2)' /\ proc'[q1].epoch = proc'[q2].epoch => q1 = q2
    BY <1>4, <1>6, <2>1 DEF Owns, NonceInv, EpochsOwned
  <2> QED
    BY <2>2, <2>3, <2>4 DEF EpochsOwned
<1>11. CountersPast' /\ NothingOpen'
  <2>1. \A i \in 1 .. Len(spent) : spent[i][1] # e
    BY <1>3 DEF NonceInv, SpentUnderIssued
  <2> QED
    BY <1>4, <1>5, <1>6, <2>1 DEF CountersPast, NothingOpen, NonceInv
<1>12. SpentUnderIssued' /\ NoncesOnce'
  BY <1>5, <1>7 DEF SpentUnderIssued, NoncesOnce, NonceInv
<1> QED
  BY <1>7, <1>8, <1>9, <1>10, <1>11, <1>12 DEF NonceInv

(* Epoch zero is handed to the process whose term it is.                   *)
LEMMA MarkFirstKeeps ==
    ASSUME NonceInv, NEW p \in Proc, MarkFirst(p)
    PROVE  NonceInv'
<1> DEFINE r == [proc[p] EXCEPT !.pc = "minting"]
<1>1. proc[p].pc = "remarking" /\ proc[p].epoch = 0 /\ ~WasIssued(0) /\ 0 \in terms /\ ~wiped
      /\ proc[p].open = {} /\ proc[p].next \in Nat
  BY DEF MarkFirst, NonceInv, EpochsOwned, TermsKept, NonceTypes, NothingOpen
<1>2. r \in ProcRecord /\ r.pc = "minting" /\ r.open = {} /\ r.epoch = 0
  BY ZenonT(30), <1>1, GoesOn DEF ProcPcs, NonceInv, NonceTypes
<1>3. /\ proc' = [proc EXCEPT ![p] = r] /\ marker' = TRUE /\ issued' = Append(issued, 0)
      /\ UNCHANGED <<terms, spent, wiped>>
  BY DEF MarkFirst, Goes
<1>4. proc'[p] = r /\ \A q \in Proc \ {p} : proc'[q] = proc[q]
  BY <1>3 DEF NonceInv, NonceTypes
<1> HIDE DEF r
<1>5. /\ issued' \in Seq(Epochs) /\ EpochsOnce'
      /\ \A f : WasIssued(f)' <=> WasIssued(f) \/ f = 0
      /\ \A i \in 1 .. Len(issued') : WasIssued(issued'[i]) \/ issued'[i] = 0
  <2>1. 0 \in Epochs
    BY NonceAssumption DEF Epochs
  <2> QED
    BY <1>1, <1>3, <2>1, IssuedAppend
<1>6. NonceTypes'
  BY <1>2, <1>3, <1>5 DEF NonceTypes, NonceInv, ProcRecord
<1>7. TermsKept'
  <2>1. \A f : WasIssued(f) => f \in terms
    BY <1>1 DEF WasIssued, NonceInv, TermsKept
  <2> QED
    BY <1>1, <1>3, <1>5, <2>1 DEF TermsKept
<1>8. EpochsOwned'
  <2>1. \A q \in Proc : Owns(q) /\ proc[q].epoch = 0 => q = p
    BY <1>1 DEF Owns, NonceInv, EpochsOwned
  <2>2. \A q \in Proc : (proc[q].pc = "minting" => WasIssued(proc[q].epoch))'
    <3> SUFFICES ASSUME NEW q \in Proc, proc'[q].pc = "minting"
                 PROVE  \E i \in 1 .. Len(issued') : issued'[i] = proc'[q].epoch
      BY DEF WasIssued
    <3>1. \A f : WasIssued(f) => \E i \in 1 .. Len(issued') : issued'[i] = f
      BY <1>5 DEF WasIssued
    <3>2. CASE q = p
      BY <1>2, <1>4, <1>5, <3>2 DEF WasIssued
    <3>3. CASE q # p
      BY <1>4, <3>1, <3>3 DEF NonceInv, EpochsOwned
    <3> QED
      BY <3>2, <3>3
  <2>3. \A q \in Proc : proc'[q].pc # "remarking"
    BY <1>2, <1>4, <2>1 DEF NonceInv, EpochsOwned, Owns
  <2>4. \A q1, q2 \in Proc : Owns(q1)' /\ Owns(q2)' /\ proc'[q1].epoch = proc'[q2].epoch => q1 = q2
    BY <1>2, <1>4, <2>1 DEF Owns, NonceInv, EpochsOwned
  <2> QED
    BY <2>2, <2>3, <2>4 DEF EpochsOwned
<1>9. CountersPast' /\ NothingOpen'
  <2>1. \A i \in 1 .. Len(spent) : spent[i][1] # 0
    BY <1>1 DEF NonceInv, SpentUnderIssued
  <2> QED
    BY <1>2, <1>3, <1>4, <2>1 DEF CountersPast, NothingOpen, NonceInv
<1>10. SpentUnderIssued' /\ NoncesOnce'
  BY <1>3, <1>5 DEF SpentUnderIssued, NoncesOnce, NonceInv
<1> QED
  BY <1>5, <1>6, <1>7, <1>8, <1>9, <1>10 DEF NonceInv

(* A minter that goes on minting: only its counters move.                  *)
LEMMA MintingKeeps ==
    ASSUME NonceInv, NEW p \in Proc, NEW r \in ProcRecord, proc[p].pc = "minting",
           proc' = [proc EXCEPT ![p] = r], r.pc = "minting", r.epoch = proc[p].epoch,
           UNCHANGED <<terms, marker, issued, wiped>>
    PROVE  /\ proc' \in [Proc -> ProcRecord]
           /\ TermsKept' /\ EpochsOwned' /\ EpochsOnce' /\ NothingOpen'
<1>1. proc'[p] = r /\ \A q \in Proc \ {p} : proc'[q] = proc[q]
  BY DEF NonceInv, NonceTypes
<1>2. proc' \in [Proc -> ProcRecord]
  BY DEF NonceInv, NonceTypes, ProcRecord
<1>3. TermsKept' /\ EpochsOnce' /\ NothingOpen'
  BY <1>1 DEF NonceInv, TermsKept, EpochsOnce, NothingOpen
<1>4. EpochsOwned'
  BY <1>1 DEF NonceInv, EpochsOwned, Owns, WasIssued
<1> QED
  BY <1>2, <1>3, <1>4

LEMMA OpenObjectKeeps ==
    ASSUME NonceInv, NEW p \in Proc, OpenObject(p)
    PROVE  NonceInv'
<1> DEFINE k == proc[p].next
           r == [proc[p] EXCEPT !.open = proc[p].open \cup {<<k, 0>>}, !.next = k + 1]
<1>1. proc[p] \in ProcRecord /\ proc[p].pc = "minting"
  BY DEF NonceInv, NonceTypes, ProcRecord, OpenObject
<1>2. NextObject(proc[p]) = r /\ k <= MAX_SEQUENCE
  <2>1. NextObject(proc[p]) # proc[p]
    BY DEF OpenObject
  <2> QED
    BY <1>1, <2>1, NonceAssumption DEF NextObject, ProcRecord
<1>3. k \in Nat /\ <<k, 0>> \in Sources
  BY <1>1, <1>2, NonceAssumption DEF ProcRecord, Sources, ObjectSequences
<1>4. /\ r \in ProcRecord /\ r.pc = "minting" /\ r.epoch = proc[p].epoch
      /\ r.next = k + 1 /\ r.open = proc[p].open \cup {<<k, 0>>}
  <2>1. k + 1 \in Nat /\ proc[p].open \cup {<<k, 0>>} \in SUBSET Sources
    BY <1>1, <1>3 DEF ProcRecord
  <2> QED
    BY <1>1, <2>1 DEF ProcRecord
<1>5. proc' = [proc EXCEPT ![p] = r] /\ UNCHANGED <<terms, marker, issued, spent, wiped>>
  BY <1>2 DEF OpenObject, Kept
<1>6. proc'[p] = r /\ \A q \in Proc \ {p} : proc'[q] = proc[q]
  BY <1>5 DEF NonceInv, NonceTypes
<1> HIDE DEF r
<1>7. proc' \in [Proc -> ProcRecord] /\ TermsKept' /\ EpochsOwned' /\ EpochsOnce' /\ NothingOpen'
  BY <1>1, <1>4, <1>5, MintingKeeps
<1>8. CountersPast'
  <2>1. /\ \A s \in proc[p].open : s[1] \in Nat /\ s[1] < k
        /\ \A s, t \in proc[p].open : s[1] = t[1] => s = t
    BY <1>1 DEF NonceInv, CountersPast, ProcRecord, Sources, ObjectSequences
  <2>2. \A i \in 1 .. Len(spent) : spent[i][1] = proc[p].epoch =>
               /\ spent[i][2] \in Nat /\ spent[i][2] < k
               /\ \A s \in proc[p].open : s[1] = spent[i][2] => spent[i][3] < s[2]
    BY <1>1, SMTT(40) DEF NonceInv, NonceTypes, CountersPast, ObjectSequences
  <2>3. /\ \A s \in r.open : s[1] < r.next
        /\ \A s, t \in r.open : s[1] = t[1] => s = t
    BY <1>3, <1>4, <2>1
  <2>4. \A i \in 1 .. Len(spent) : spent[i][1] = r.epoch =>
               /\ spent[i][2] < r.next
               /\ \A s \in r.open : s[1] = spent[i][2] => spent[i][3] < s[2]
    BY <1>3, <1>4, <2>2
  <2> QED
    BY <1>5, <1>6, <2>3, <2>4 DEF CountersPast, NonceInv
<1>9. NonceTypes' /\ SpentUnderIssued' /\ NoncesOnce'
  BY <1>5, <1>7 DEF NonceTypes, SpentUnderIssued, NoncesOnce, WasIssued, NonceInv, ProcRecord
<1> QED
  BY <1>7, <1>8, <1>9 DEF NonceInv

(* A field wide enough for its value keeps it.                             *)
LEMMA NotTruncated == ASSUME NEW M \in Nat, NEW x \in 0 .. M PROVE x % (M + 1) = x
  OBVIOUS

(* A region in turn is sealed under a nonce nothing was sealed under: no   *)
(* part of it is truncated, and its source's counter was past the rest.    *)
LEMMA SealRegionKeeps ==
    ASSUME NonceInv, NEW p \in Proc, NEW s \in proc[p].open, NEW region \in 0 .. MAX_REGION + 1,
           SealRegion(p, s, region)
    PROVE  NonceInv'
<1> DEFINE nonce == <<proc[p].epoch, s[1], region>>
           t == <<s[1], region + 1>>
           r == [proc[p] EXCEPT !.open = (proc[p].open \ {s}) \cup {t}]
<1>1. proc[p] \in ProcRecord /\ proc[p].pc = "minting"
  BY DEF NonceInv, NonceTypes, ProcRecord, SealRegion
<1>2. s \in Sources /\ region = s[2] /\ region \in 0 .. MAX_REGION
  BY <1>1, NonceAssumption DEF ProcRecord, SealRegion, InTurn
<1>3. s[1] \in ObjectSequences /\ proc[p].epoch \in Epochs /\ t \in Sources /\ s = <<s[1], s[2]>>
  BY <1>1, <1>2, NonceAssumption DEF ProcRecord, Sources
<1>4. NonceOf(proc[p].epoch, s[1], region) = nonce
  <2>1. proc[p].epoch % (MAX_EPOCH + 1) = proc[p].epoch
    BY <1>3, NonceAssumption, NotTruncated DEF Epochs
  <2>2. s[1] % (MAX_SEQUENCE + 1) = s[1]
    BY <1>3, NonceAssumption, NotTruncated DEF ObjectSequences
  <2>3. region % (MAX_REGION + 1) = region
    BY <1>2, NonceAssumption, NotTruncated
  <2> QED
    BY <2>1, <2>2, <2>3 DEF NonceOf
<1>5. /\ r \in ProcRecord /\ r.pc = "minting" /\ r.epoch = proc[p].epoch
      /\ r.next = proc[p].next /\ r.open = (proc[p].open \ {s}) \cup {t}
  BY <1>1, <1>3 DEF ProcRecord
<1>6. /\ proc' = [proc EXCEPT ![p] = r] /\ spent' = Append(spent, nonce)
      /\ UNCHANGED <<terms, marker, issued, wiped>>
  BY <1>4 DEF SealRegion
<1>7. proc'[p] = r /\ \A q \in Proc \ {p} : proc'[q] = proc[q]
  BY <1>6 DEF NonceInv, NonceTypes
<1>8. /\ nonce \in Epochs \X ObjectSequences \X (0 .. MAX_REGION)
      /\ nonce[1] = proc[p].epoch /\ nonce[2] = s[1] /\ nonce[3] = region
      /\ t[1] = s[1] /\ t[2] = region + 1
  BY <1>2, <1>3
<1> HIDE DEF r, nonce, t
<1>9. proc' \in [Proc -> ProcRecord] /\ TermsKept' /\ EpochsOwned' /\ EpochsOnce' /\ NothingOpen'
  BY <1>1, <1>5, <1>6, MintingKeeps
<1>10. /\ spent' \in Seq(Epochs \X ObjectSequences \X (0 .. MAX_REGION))
       /\ Len(spent) \in Nat /\ Len(spent') = Len(spent) + 1
       /\ spent'[Len(spent) + 1] = nonce
       /\ \A i \in 1 .. Len(spent) : spent'[i] = spent[i]
  BY <1>6, <1>8 DEF NonceInv, NonceTypes
<1>11. \A i \in 1 .. Len(spent') : i \in 1 .. Len(spent) \/ i = Len(spent) + 1
  BY <1>10
<1>12. \A i \in 1 .. Len(spent) : spent[i][1] = proc[p].epoch =>
               /\ spent[i][2] < proc[p].next
               /\ \A u \in proc[p].open : u[1] = spent[i][2] => spent[i][3] < u[2]
  BY <1>1 DEF NonceInv, CountersPast
<1>13. NoncesOnce'
  <2>1. \A i \in 1 .. Len(spent) : spent[i] # nonce
    BY <1>2, <1>8, <1>12
  <2> QED
    BY <1>10, <1>11, <2>1 DEF NoncesOnce, NonceInv
<1>14. CountersPast'
  <2>1. /\ \A u \in proc[p].open : u[1] < proc[p].next
        /\ \A u, v \in proc[p].open : u[1] = v[1] => u = v
    BY <1>1 DEF NonceInv, CountersPast
  <2>2. /\ \A u \in r.open : u[1] < r.next
        /\ \A u, v \in r.open : u[1] = v[1] => u = v
    BY <1>5, <1>8, <2>1
  <2>3. ASSUME NEW i \in 1 .. Len(spent'), spent'[i][1] = r.epoch
        PROVE  /\ spent'[i][2] < r.next
               /\ \A u \in r.open : u[1] = spent'[i][2] => spent'[i][3] < u[2]
    <3>1. CASE i = Len(spent) + 1
      <4>1. spent'[i] = nonce /\ nonce[2] = s[1] /\ nonce[3] = region
        BY <1>8, <1>10, <3>1
      <4>2. s[1] < r.next /\ \A u \in r.open : u[1] = s[1] => u = t
        BY <1>5, <1>8, <2>1
      <4> QED
        BY <1>2, <1>8, <4>1, <4>2
    <3>2. CASE i \in 1 .. Len(spent)
      <4>1. spent'[i] = spent[i] /\ spent[i][1] = proc[p].epoch
        BY <1>5, <1>10, <2>3, <3>2
      <4>2. spent[i][3] \in Nat
        BY <3>2 DEF NonceInv, NonceTypes
      <4>3. spent[i][2] = s[1] => spent[i][3] < region
        BY <1>2, <1>12, <3>2, <4>1
      <4>4. ASSUME NEW u \in r.open, u[1] = spent[i][2] PROVE spent[i][3] < u[2]
        <5>1. CASE u = t
          BY <1>2, <1>8, <4>2, <4>3, <4>4, <5>1
        <5>2. CASE u \in proc[p].open
          BY <1>12, <3>2, <4>1, <4>4, <5>2
        <5> QED
          BY <1>5, <5>1, <5>2
      <4> QED
        BY <1>5, <1>12, <3>2, <4>1, <4>4
    <3> QED
      BY <1>11, <3>1, <3>2
  <2>4. ASSUME NEW q \in Proc \ {p}, proc[q].pc = "minting", NEW i \in 1 .. Len(spent'),
               spent'[i][1] = proc[q].epoch
        PROVE  i \in 1 .. Len(spent) /\ spent'[i] = spent[i]
    <3>1. proc[q].epoch # proc[p].epoch
      BY <1>1, <2>4 DEF NonceInv, EpochsOwned, Owns
    <3> QED
      BY <1>8, <1>10, <1>11, <2>4, <3>1
  <2>5. ASSUME NEW q \in Proc, proc'[q].pc = "minting"
        PROVE  /\ \A u \in proc'[q].open : u[1] < proc'[q].next
               /\ \A u, v \in proc'[q].open : u[1] = v[1] => u = v
               /\ \A i \in 1 .. Len(spent') : spent'[i][1] = proc'[q].epoch =>
                      /\ spent'[i][2] < proc'[q].next
                      /\ \A u \in proc'[q].open : u[1] = spent'[i][2] => spent'[i][3] < u[2]
    <3>1. CASE q = p
      BY <1>7, <2>2, <2>3, <3>1
    <3>2. CASE q # p
      BY <1>7, <2>4, <2>5, <3>2 DEF NonceInv, CountersPast
    <3> QED
      BY <3>1, <3>2
  <2> QED
    BY <2>5 DEF CountersPast
<1>15. SpentUnderIssued'
  <2>1. WasIssued(proc[p].epoch)
    BY <1>1 DEF NonceInv, EpochsOwned
  <2>2. \A f : WasIssued(f) => \E j \in 1 .. Len(issued') : issued'[j] = f
    BY <1>6 DEF WasIssued
  <2>3. \A i \in 1 .. Len(spent') : WasIssued(spent'[i][1])
    BY <1>8, <1>10, <1>11, <2>1 DEF NonceInv, SpentUnderIssued
  <2> QED
    BY <2>2, <2>3 DEF SpentUnderIssued, WasIssued
<1>16. NonceTypes'
  BY <1>6, <1>9, <1>10 DEF NonceTypes, NonceInv, ProcRecord
<1> QED
  BY <1>9, <1>13, <1>14, <1>15, <1>16 DEF NonceInv

LEMMA WipeKeeps ==
    ASSUME NonceInv, Wipe
    PROVE  NonceInv'
<1> USE DEF NonceInv, Wipe
<1>1. NonceTypes' /\ TermsKept'
  BY DEF NonceTypes, TermsKept
<1>2. EpochsOwned'
  BY DEF EpochsOwned, Owns, WasIssued
<1>3. CountersPast' /\ NothingOpen' /\ SpentUnderIssued' /\ EpochsOnce' /\ NoncesOnce'
  BY DEF CountersPast, NothingOpen, SpentUnderIssued, EpochsOnce, NoncesOnce, WasIssued
<1> QED
  BY <1>1, <1>2, <1>3

LEMMA NonceNextKeeps == NonceInv /\ [NonceNext]_nonceVars => NonceInv'
<1> SUFFICES ASSUME NonceInv, [NonceNext]_nonceVars PROVE NonceInv'
  OBVIOUS
<1>1. ASSUME NEW p \in Proc,
             \/ Allocate(p) \/ ListTerms(p) \/ LookForMarker(p) \/ EnsureMarker(p)
             \/ PutTerm(p) \/ TermTaken(p) \/ EpochsExhausted(p) \/ MarkFirst(p)
             \/ OpenObject(p)
             \/ \E s \in proc[p].open, i \in 0 .. MAX_REGION + 1 : SealRegion(p, s, i)
      PROVE  NonceInv'
  BY <1>1, AllocateKeeps, ListTermsKeeps, LookForMarkerKeeps, EnsureMarkerKeeps, PutTermKeeps,
     StopKeeps, MarkFirstKeeps, OpenObjectKeeps, SealRegionKeeps
<1>2. ASSUME NEW p \in Proc, NEW b \in BOOLEAN, Stop(p, b) PROVE NonceInv'
  BY <1>2, StopKeeps
<1>3. CASE UNCHANGED nonceVars
  <2> USE <1>3 DEF nonceVars, NonceInv
  <2>1. NonceTypes' /\ TermsKept'
    BY DEF NonceTypes, TermsKept
  <2>2. EpochsOwned'
    BY DEF EpochsOwned, Owns, WasIssued
  <2>3. CountersPast' /\ NothingOpen' /\ SpentUnderIssued' /\ EpochsOnce' /\ NoncesOnce'
    BY DEF CountersPast, NothingOpen, SpentUnderIssued, EpochsOnce, NoncesOnce, WasIssued
  <2> QED
    BY <2>1, <2>2, <2>3
<1> QED
  BY <1>1, <1>2, <1>3, WipeKeeps DEF NonceNext

(* What a key is used with never repeats: no epoch is handed out twice and *)
(* no nonce spent twice, however many processes allocate at once, stop     *)
(* anywhere or find the counter wiped, and at whatever width of each field *)
(* (writer_epoch.rs, allocate; nonce.rs, for_region).                      *)
THEOREM NonceSafety == NonceSpec => []NoncesSound
<1>1. NonceInit => NonceInv
  <2> SUFFICES ASSUME NonceInit PROVE NonceInv
    OBVIOUS
  <2> USE DEF NonceInit
  <2>1. \A p \in Proc : proc[p].pc = "stopped" /\ proc[p].open = {}
    BY StoppedIs
  <2>2. NonceTypes
    <3>1. proc \in [Proc -> ProcRecord]
      BY StoppedIs
    <3>2. issued \in Seq(Epochs) /\ spent \in Seq(Epochs \X ObjectSequences \X (0 .. MAX_REGION))
      OBVIOUS
    <3> QED
      BY <3>1, <3>2 DEF NonceTypes, ProcRecord
  <2>3. TermsKept /\ EpochsOwned /\ CountersPast /\ NothingOpen
    BY <2>1 DEF TermsKept, EpochsOwned, Owns, CountersPast, NothingOpen
  <2>4. SpentUnderIssued /\ EpochsOnce /\ NoncesOnce
    BY DEF SpentUnderIssued, EpochsOnce, NoncesOnce
  <2> QED
    BY <2>2, <2>3, <2>4 DEF NonceInv
<1>2. NonceInv /\ [NonceNext]_nonceVars => NonceInv'
  BY NonceNextKeeps
<1>3. NonceInv => NoncesSound
  BY DEF NonceInv, NoncesSound
<1> QED
  BY <1>1, <1>2, <1>3, PTL DEF NonceSpec

-----------------------------------------------------------------------------
(* The key caches.                                                         *)

Keyed == CustomerKey \X Nat
KeyIds == CustomerKey \cup {"none"}

KeyTypes ==
    /\ time \in Nat /\ back \in Nat /\ uses \in Nat
    /\ deks \in 0 .. MaxDeks /\ volume \in [1 .. MaxDeks -> Nat]
    /\ configured \in CustomerKey
    /\ live \in [dek : Nat, key : KeyIds, wrapped : Keyed \cup {<<>>}, minted_at : Int, sealed : Nat]
    /\ task \in [Task -> [pc : {"idle", "wrap", "unwrap"}, key : KeyIds, dek : Nat,
                          blob : Keyed \cup {<<>>}, answered : Nat]]
    /\ IsFiniteSet(regions)
    /\ regions \subseteq [dek : Nat, before : Nat, wrapped : Keyed, asked : CustomerKey, nth : Nat]
    /\ IsFiniteSet(unwrapped)
    /\ unwrapped \subseteq [blob : Keyed, dek : Nat, unwrapped_at : Int, last_used : Nat,
                            fetched : Nat, used_at : Int, used_time : Nat]

(* The live key has its own envelope, and has sealed what is counted of it. *)
LiveSound ==
    live.dek # 0 => /\ live.key \in CustomerKey /\ live.wrapped = Wrapped(live.key, live.dek)
                    /\ live.dek <= deks /\ volume[live.dek] = live.sealed

(* A key waiting to be wrapped is one task's, and has sealed nothing.      *)
WaitsSound ==
    \A t \in Task :
        /\ task[t].pc = "wrap" =>
               /\ task[t].key \in CustomerKey /\ task[t].dek \in 1 .. deks
               /\ task[t].dek # live.dek /\ volume[task[t].dek] = 0
               /\ \A u \in Task \ {t} : task[u].pc = "wrap" => task[u].dek # task[t].dek
        /\ task[t].pc = "unwrap" => task[t].blob \in Keyed

(* A key not minted yet has sealed nothing either.                         *)
Unminted == \A d \in deks + 1 .. MaxDeks : volume[d] = 0

(* One entry for each wrapped key, each used at a moment of its own, and   *)
(* none dated after the key service gave it.                               *)
EntriesSound ==
    /\ \A e, f \in unwrapped : e.blob = f.blob \/ e.last_used = f.last_used => e = f
    /\ \A e \in unwrapped : e.last_used < uses /\ e.unwrapped_at <= e.fetched

KeyInv == KeyTypes /\ LiveSound /\ WaitsSound /\ Unminted /\ EntriesSound /\ KeysSound

LiveRecord == [dek : Nat, key : KeyIds, wrapped : Keyed \cup {<<>>}, minted_at : Int, sealed : Nat]
WaitRecord == [pc : {"idle", "wrap", "unwrap"}, key : KeyIds, dek : Nat,
               blob : Keyed \cup {<<>>}, answered : Nat]
EntryRecord == [blob : Keyed, dek : Nat, unwrapped_at : Int, last_used : Nat,
                fetched : Nat, used_at : Int, used_time : Nat]

LEMMA NoWaitIs == NoWait \in WaitRecord /\ NoWait.pc = "idle"
  BY DEF NoWait, WaitRecord, KeyIds

LEMMA NowIs == ASSUME KeyInv PROVE Now \in Int /\ Now <= time
  BY DEF Now, KeyInv, KeyTypes

(* What is kept when neither the reader's cache nor its clock moves.       *)
LEMMA EntriesKept ==
    ASSUME KeyInv, UNCHANGED <<unwrapped, uses>>, back' \in Nat, back' >= back
    PROVE  EntriesSound' /\ KeysForgotten'
<1>1. EntriesSound'
  BY DEF KeyInv, EntriesSound
<1>2. \A e \in unwrapped : e.used_time - e.fetched \in Int
  BY DEF KeyInv, KeyTypes
<1>3. KeysForgotten'
  BY SMTT(30), <1>2, KeyAssumption DEF KeyInv, KeysSound, KeysForgotten, KeyTypes
<1> QED
  BY <1>1, <1>3

(* What is kept when no key is minted, put in place or used to seal.       *)
LEMMA SealsKept ==
    ASSUME KeyInv, UNCHANGED <<live, deks, regions, volume>>,
           \A t \in Task : task'[t].pc = "wrap" => task'[t] = task[t],
           \A t \in Task : task'[t].pc = "unwrap" => task'[t].blob \in Keyed
    PROVE  LiveSound' /\ WaitsSound' /\ Unminted' /\ RegionsOpen'
<1>1. LiveSound' /\ Unminted' /\ RegionsOpen'
  BY DEF KeyInv, KeysSound, LiveSound, Unminted, RegionsOpen
<1>2. WaitsSound'
  BY DEF KeyInv, WaitsSound
<1> QED
  BY <1>1, <1>2

(* A region sealed with one entry, which becomes or stays the live key:    *)
(* its envelope is that key's, and the entry counts what it sealed.        *)
LEMMA SealKeeps ==
    ASSUME KeyInv, NEW entry \in LiveRecord, NEW key \in CustomerKey, NEW n \in Sizes,
           entry.dek \in 1 .. deks, entry.key = key, entry.wrapped = Wrapped(key, entry.dek),
           volume[entry.dek] = entry.sealed, entry.sealed < DEK_CAP,
           SealsRegion(entry, key, n),
           UNCHANGED <<time, back, configured, unwrapped, uses, deks>>,
           task' \in [Task -> WaitRecord],
           \A t \in Task : task'[t] = task[t] \/ task'[t].pc = "idle",
           \A t \in Task : task'[t].pc = "wrap" => task[t].dek # entry.dek
    PROVE  KeyInv'
<1> DEFINE r == [dek |-> entry.dek, before |-> volume[entry.dek], wrapped |-> entry.wrapped,
                 asked |-> key, nth |-> Cardinality(regions) + 1]
<1>1. /\ regions' = regions \cup {r} /\ live' = [entry EXCEPT !.sealed = entry.sealed + n]
      /\ volume' = [volume EXCEPT ![entry.dek] = volume[entry.dek] + n]
  BY DEF SealsRegion
<1>2. IsFiniteSet(regions) /\ Cardinality(regions) \in Nat
  BY FS_CardinalityType DEF KeyInv, KeyTypes
<1>3. /\ entry.dek \in Nat /\ deks \in Nat /\ entry.sealed \in Nat /\ entry.wrapped \in Keyed
      /\ n \in Nat /\ MaxDeks \in Nat /\ deks <= MaxDeks /\ volume \in [1 .. MaxDeks -> Nat]
  BY KeyAssumption DEF LiveRecord, Wrapped, Keyed, KeyInv, KeyTypes
<1>4. r \in [dek : Nat, before : Nat, wrapped : Keyed, asked : CustomerKey, nth : Nat]
      /\ r.dek = entry.dek /\ r.wrapped = entry.wrapped /\ r.asked = key
      /\ r.before = entry.sealed
  BY <1>2, <1>3
<1> HIDE DEF r
<1>5. /\ live' \in LiveRecord /\ live'.dek = entry.dek /\ live'.key = key
      /\ live'.wrapped = entry.wrapped /\ live'.sealed = entry.sealed + n
  BY <1>1, <1>3 DEF LiveRecord
<1>6. IsFiniteSet(regions')
  BY <1>1, <1>2, FS_AddElement
<1>7. /\ volume' \in [1 .. MaxDeks -> Nat] /\ volume'[entry.dek] = entry.sealed + n
      /\ \A d \in 1 .. MaxDeks : d # entry.dek => volume'[d] = volume[d]
  BY <1>1, <1>3
<1>8. KeyTypes'
  BY <1>1, <1>4, <1>5, <1>6, <1>7 DEF KeyInv, KeyTypes, LiveRecord, WaitRecord
<1>9. LiveSound'
  BY <1>5, <1>7 DEF LiveSound, Wrapped
<1>10. WaitsSound'
  <2> SUFFICES ASSUME NEW t \in Task
               PROVE  /\ task'[t].pc = "wrap" =>
                            /\ task'[t].key \in CustomerKey /\ task'[t].dek \in 1 .. deks'
                            /\ task'[t].dek # live'.dek /\ volume'[task'[t].dek] = 0
                            /\ \A u \in Task \ {t} : task'[u].pc = "wrap" => task'[u].dek # task'[t].dek
                      /\ task'[t].pc = "unwrap" => task'[t].blob \in Keyed
    BY DEF WaitsSound
  <2>1. CASE task'[t].pc = "wrap"
    <3>1. task'[t] = task[t] /\ task[t].dek # entry.dek /\ task[t].pc = "wrap"
      BY <2>1
    <3>2. task[t].dek \in 1 .. deks /\ volume[task[t].dek] = 0
      BY <3>1 DEF KeyInv, WaitsSound
    <3>3. volume'[task[t].dek] = 0
      BY <1>3, <1>7, <3>1, <3>2
    <3>4. \A u \in Task \ {t} : task'[u].pc = "wrap" => task'[u] = task[u]
      OBVIOUS
    <3> QED
      BY <1>5, <2>1, <3>1, <3>3, <3>4 DEF KeyInv, WaitsSound
  <2>2. CASE task'[t].pc # "wrap"
    BY <2>2 DEF KeyInv, WaitsSound
  <2> QED
    BY <2>1, <2>2
<1>11. Unminted'
  BY <1>3, <1>7 DEF KeyInv, Unminted
<1>12. RegionsOpen'
  BY <1>1, <1>4 DEF KeyInv, KeysSound, RegionsOpen
<1>13. EntriesSound' /\ KeysForgotten'
  BY EntriesKept DEF KeyInv, KeyTypes
<1> QED
  BY <1>8, <1>9, <1>10, <1>11, <1>12, <1>13 DEF KeyInv, KeysSound

LEMMA UseLiveKeeps ==
    ASSUME KeyInv, NEW t \in Task, NEW n \in Sizes, UseLive(t, n)
    PROVE  KeyInv'
<1>1. /\ live \in LiveRecord /\ configured \in CustomerKey /\ live.dek \in Nat /\ deks \in Nat
      /\ task' = task /\ task \in [Task -> WaitRecord]
  BY DEF KeyInv, KeyTypes, LiveRecord, WaitRecord, UseLive
<1>2. live.dek # 0 /\ live.key = configured /\ live.sealed < DEK_CAP
  BY DEF UseLive, Usable
<1>3. live.dek \in 1 .. deks /\ live.wrapped = Wrapped(configured, live.dek)
      /\ volume[live.dek] = live.sealed
  BY <1>1, <1>2 DEF KeyInv, LiveSound
<1>4. \A u \in Task : task'[u].pc = "wrap" => task[u].dek # live.dek
  BY <1>1 DEF KeyInv, WaitsSound
<1> QED
  BY <1>1, <1>2, <1>3, <1>4, SealKeeps DEF UseLive

(* The key a task comes back with is used if no other is there to use: it  *)
(* has sealed nothing, and no other task waits with it.                    *)
LEMMA RotateKeeps ==
    ASSUME KeyInv, NEW t \in Task, NEW n \in Sizes, Rotate(t, n)
    PROVE  KeyInv'
<1> DEFINE w == task[t]
           fresh == [dek |-> w.dek, key |-> w.key, wrapped |-> Wrapped(w.key, w.dek),
                     minted_at |-> Now, sealed |-> 0]
           entry == IF Usable(live, w.key) THEN live ELSE fresh
<1>1. /\ w.pc = "wrap" /\ SealsRegion(entry, w.key, n) /\ task' = [task EXCEPT ![t] = NoWait]
      /\ UNCHANGED <<time, back, configured, unwrapped, uses, deks>>
  BY DEF Rotate
<1>2. /\ live \in LiveRecord /\ live.dek \in Nat /\ deks \in Nat /\ Now \in Int
      /\ task \in [Task -> WaitRecord]
  BY NowIs DEF KeyInv, KeyTypes, LiveRecord, WaitRecord
<1>3. /\ w.key \in CustomerKey /\ w.dek \in 1 .. deks
      /\ w.dek # live.dek /\ volume[w.dek] = 0
      /\ \A u \in Task \ {t} : task[u].pc = "wrap" => task[u].dek # w.dek
  BY <1>1 DEF KeyInv, WaitsSound
<1>4. task' \in [Task -> WaitRecord] /\ task'[t].pc = "idle"
      /\ \A u \in Task \ {t} : task'[u] = task[u]
  BY <1>1, <1>2, NoWaitIs
<1>5. CASE Usable(live, w.key)
  <2>1. entry = live /\ live.dek # 0 /\ live.key = w.key /\ live.sealed < DEK_CAP
    BY <1>5 DEF Usable
  <2>2. live.dek \in 1 .. deks /\ live.wrapped = Wrapped(w.key, live.dek)
        /\ volume[live.dek] = live.sealed
    BY <1>2, <2>1 DEF KeyInv, LiveSound
  <2>3. \A u \in Task : task'[u].pc = "wrap" => task[u].dek # live.dek
    BY <1>4 DEF KeyInv, WaitsSound
  <2>4. SealsRegion(live, w.key, n)
    BY <1>1, <2>1
  <2> HIDE DEF entry, fresh
  <2> QED
    BY <1>1, <1>2, <1>3, <1>4, <2>1, <2>2, <2>3, <2>4, SealKeeps
<1>6. CASE ~Usable(live, w.key)
  <2>1. /\ entry = fresh /\ fresh \in LiveRecord /\ fresh.dek = w.dek /\ fresh.key = w.key
        /\ fresh.wrapped = Wrapped(w.key, w.dek) /\ fresh.sealed = 0
    BY <1>2, <1>3, <1>6 DEF LiveRecord, KeyIds, Keyed, Wrapped
  <2>2. volume[fresh.dek] = fresh.sealed /\ fresh.sealed < DEK_CAP
    BY <1>3, <2>1, KeyAssumption
  <2>3. \A u \in Task : task'[u].pc = "wrap" => task[u].dek # fresh.dek
    BY <1>3, <1>4, <2>1
  <2>4. SealsRegion(fresh, w.key, n)
    BY <1>1, <2>1
  <2> HIDE DEF entry, fresh
  <2> QED
    BY <1>1, <1>3, <1>4, <2>1, <2>2, <2>3, <2>4, SealKeeps
<1> QED
  BY <1>5, <1>6

(* A key is minted under a number of its own.                              *)
LEMMA MintDekKeeps ==
    ASSUME KeyInv, NEW t \in Task, MintDek(t)
    PROVE  KeyInv'
<1> DEFINE w == [NoWait EXCEPT !.pc = "wrap", !.key = configured, !.dek = deks + 1]
<1>1. /\ task' = [task EXCEPT ![t] = w] /\ deks' = deks + 1
      /\ UNCHANGED <<time, back, configured, live, unwrapped, uses, regions, volume>>
  BY DEF MintDek
<1>2. /\ deks \in Nat /\ deks + 1 <= MaxDeks /\ MaxDeks \in Nat /\ configured \in CustomerKey
      /\ task \in [Task -> WaitRecord] /\ live.dek \in Nat
  BY KeyAssumption DEF KeyInv, KeyTypes, WaitRecord, MintDek
<1>3. w \in WaitRecord /\ w.pc = "wrap" /\ w.key = configured /\ w.dek = deks + 1
  <2>1. deks + 1 \in Nat /\ configured \in KeyIds
    BY <1>2 DEF KeyIds
  <2> QED
    BY <2>1, NoWaitIs DEF WaitRecord
<1> HIDE DEF w
<1>4. task'[t] = w /\ \A u \in Task \ {t} : task'[u] = task[u]
  BY <1>1, <1>2
<1>5. KeyTypes'
  BY <1>1, <1>2, <1>3 DEF KeyInv, KeyTypes, WaitRecord
<1>6. LiveSound' /\ Unminted' /\ RegionsOpen'
  <2>1. LiveSound'
    BY <1>1, <1>2 DEF KeyInv, LiveSound
  <2>2. Unminted'
    BY <1>1, <1>2 DEF KeyInv, Unminted
  <2>3. RegionsOpen'
    BY <1>1 DEF KeyInv, KeysSound, RegionsOpen
  <2> QED
    BY <2>1, <2>2, <2>3
<1>7. WaitsSound'
  <2>1. live.dek # deks + 1
    BY <1>2 DEF KeyInv, LiveSound
  <2>2. volume[deks + 1] = 0
    BY <1>2 DEF KeyInv, Unminted
  <2>3. \A u \in Task : task[u].pc = "wrap" => task[u].dek \in 1 .. deks
    BY DEF KeyInv, WaitsSound
  <2> SUFFICES ASSUME NEW u \in Task
               PROVE  /\ task'[u].pc = "wrap" =>
                            /\ task'[u].key \in CustomerKey /\ task'[u].dek \in 1 .. deks'
                            /\ task'[u].dek # live'.dek
                            /\ volume'[task'[u].dek] = 0
                            /\ \A v \in Task \ {u} : task'[v].pc = "wrap" => task'[v].dek # task'[u].dek
                      /\ task'[u].pc = "unwrap" => task'[u].blob \in Keyed
    BY DEF WaitsSound
  <2>4. CASE u = t
    <3>1. task'[u] = w /\ w.dek \in 1 .. deks' /\ w.dek # live'.dek
      BY <1>1, <1>2, <1>3, <1>4, <2>1, <2>4
    <3>2. volume'[w.dek] = 0
      BY <1>1, <1>3, <2>2
    <3>3. \A v \in Task \ {u} : task'[v].pc = "wrap" => task'[v].dek # w.dek
      BY <1>2, <1>3, <1>4, <2>3, <2>4
    <3> QED
      BY <1>2, <1>3, <3>1, <3>2, <3>3
  <2>5. CASE u # t
    <3>1. task'[u] = task[u]
      BY <1>4, <2>5
    <3>2. CASE task[u].pc = "wrap"
      <4>1. /\ task[u].key \in CustomerKey /\ task[u].dek \in 1 .. deks
            /\ task[u].dek # live.dek /\ volume[task[u].dek] = 0
            /\ \A v \in Task \ {u} : task[v].pc = "wrap" => task[v].dek # task[u].dek
        BY <3>2 DEF KeyInv, WaitsSound
      <4>2. \A v \in Task \ {u} : task'[v].pc = "wrap" => task'[v].dek # task[u].dek
        BY <1>2, <1>3, <1>4, <4>1
      <4> QED
        BY <1>1, <1>2, <3>1, <3>2, <4>1, <4>2
    <3>3. CASE task[u].pc # "wrap"
      BY <3>1, <3>3 DEF KeyInv, WaitsSound
    <3> QED
      BY <3>2, <3>3
  <2> QED
    BY <2>4, <2>5
<1>8. EntriesSound' /\ KeysForgotten'
  BY SMTT(30), <1>1, EntriesKept DEF KeyInv, KeyTypes
<1> QED
  BY <1>5, <1>6, <1>7, <1>8 DEF KeyInv, KeysSound

LEMMA ServiceFailsKeeps ==
    ASSUME KeyInv, NEW t \in Task, ServiceFails(t)
    PROVE  KeyInv'
<1>1. /\ task' = [task EXCEPT ![t] = NoWait]
      /\ UNCHANGED <<time, back, configured, live, unwrapped, uses, deks, regions, volume>>
  BY DEF ServiceFails
<1>2. task \in [Task -> WaitRecord]
  BY DEF KeyInv, KeyTypes, WaitRecord
<1>3. task' \in [Task -> WaitRecord] /\ task'[t].pc = "idle"
      /\ \A u \in Task \ {t} : task'[u] = task[u]
  BY <1>1, <1>2, NoWaitIs
<1>4. KeyTypes'
  BY <1>1, <1>3 DEF KeyInv, KeyTypes, WaitRecord
<1>5. LiveSound' /\ WaitsSound' /\ Unminted' /\ RegionsOpen'
  <2>1. \A u \in Task : task'[u].pc = "wrap" => task'[u] = task[u]
    BY <1>3
  <2>2. \A u \in Task : task'[u].pc = "unwrap" => task'[u].blob \in Keyed
    BY <1>3 DEF KeyInv, WaitsSound
  <2> QED
    BY <1>1, <2>1, <2>2, SealsKept
<1>6. EntriesSound' /\ KeysForgotten'
  BY <1>1, EntriesKept DEF KeyInv, KeyTypes
<1> QED
  BY <1>4, <1>5, <1>6 DEF KeyInv, KeysSound

(* Time, the clock's step back and a change of the customer's key.         *)
LEMMA WorldKeeps ==
    ASSUME KeyInv,
           Ages \/ (\E n \in 1 .. MaxStep : StepBack(n)) \/ (\E k \in CustomerKey : Reconfigure(k))
    PROVE  KeyInv'
<1>1. /\ time' \in Nat /\ back' \in Nat /\ back' >= back /\ configured' \in CustomerKey
      /\ UNCHANGED <<live, unwrapped, uses, task, deks, regions, volume>>
  BY KeyAssumption DEF Ages, StepBack, Reconfigure, KeyInv, KeyTypes
<1>2. KeyTypes'
  BY <1>1 DEF KeyInv, KeyTypes
<1>3. LiveSound' /\ WaitsSound' /\ Unminted' /\ RegionsOpen'
  BY <1>1, SealsKept DEF KeyInv, WaitsSound
<1>4. EntriesSound' /\ KeysForgotten'
  BY <1>1, EntriesKept
<1> QED
  BY <1>2, <1>3, <1>4 DEF KeyInv, KeysSound

(* An entry used again.                                                    *)
LEMMA UsedIs ==
    ASSUME KeyInv, NEW e \in EntryRecord
    PROVE  /\ Used(e) \in EntryRecord /\ Used(e).blob = e.blob /\ Used(e).last_used = uses
           /\ Used(e).unwrapped_at = e.unwrapped_at /\ Used(e).fetched = e.fetched
           /\ Used(e).used_time = time
<1>1. uses \in Nat /\ time \in Nat /\ Now \in Int
  BY NowIs DEF KeyInv, KeyTypes
<1> QED
  BY <1>1 DEF Used, EntryRecord

(* An entry that is fresh by the wall clock is within its time, but for    *)
(* what the clock was stepped back.                                        *)
LEMMA FreshWithin ==
    ASSUME KeyInv, NEW e \in EntryRecord, e.unwrapped_at <= e.fetched, FreshAt(e)
    PROVE  time - e.fetched < UNWRAP_TTL + back
  BY KeyAssumption DEF FreshAt, Now, EntryRecord, KeyInv, KeyTypes

(* make_room leaves fresh entries only, and fewer than the cache may hold: *)
(* how many are older than an entry tells the entries apart.               *)
LEMMA RoomIs ==
    ASSUME KeyInv
    PROVE  /\ Room(unwrapped) \subseteq unwrapped
           /\ \A e \in Room(unwrapped) : FreshAt(e)
           /\ IsFiniteSet(Room(unwrapped)) /\ Cardinality(Room(unwrapped)) <= ENTRIES - 1
<1> DEFINE kept == {e \in unwrapped : FreshAt(e)}
           over == Cardinality(kept) - (ENTRIES - 1)
           older(e) == {f \in kept : f.last_used < e.last_used}
           room == {e \in kept : Cardinality(older(e)) >= over}
<1>1. Room(unwrapped) = room
  BY DEF Room
<1>2. room \subseteq kept /\ kept \subseteq unwrapped /\ \A e \in room : FreshAt(e)
  OBVIOUS
<1>3. IsFiniteSet(kept) /\ Cardinality(kept) \in Nat
  <2>1. IsFiniteSet(kept)
    BY <1>2, FS_Subset DEF KeyInv, KeyTypes
  <2> QED
    BY <2>1, FS_CardinalityType
<1>4. IsFiniteSet(room) /\ Cardinality(room) \in Nat /\ Cardinality(room) <= Cardinality(kept)
  <2>1. IsFiniteSet(room) /\ Cardinality(room) <= Cardinality(kept)
    BY <1>2, <1>3, FS_Subset
  <2> QED
    BY <2>1, FS_CardinalityType
<1>5. \A e \in kept : e.last_used \in Nat
  BY DEF KeyInv, KeyTypes
<1>6. \A e \in kept : /\ IsFiniteSet(older(e)) /\ Cardinality(older(e)) \in Nat
                      /\ Cardinality(older(e)) < Cardinality(kept)
  <2> SUFFICES ASSUME NEW e \in kept
               PROVE  /\ IsFiniteSet(older(e)) /\ Cardinality(older(e)) \in Nat
                      /\ Cardinality(older(e)) < Cardinality(kept)
    OBVIOUS
  <2>1. older(e) \subseteq kept /\ e \notin older(e)
    BY <1>5
  <2> HIDE DEF kept, older
  <2>2. IsFiniteSet(older(e)) /\ Cardinality(older(e)) <= Cardinality(kept)
        /\ (Cardinality(kept) = Cardinality(older(e)) => kept = older(e))
    BY <1>3, <2>1, FS_Subset
  <2>3. Cardinality(older(e)) \in Nat
    BY <2>2, FS_CardinalityType
  <2> QED
    BY <1>3, <2>1, <2>2, <2>3
<1>7. ASSUME NEW e \in kept, NEW f \in kept, e # f
      PROVE  Cardinality(older(e)) # Cardinality(older(f))
  <2>1. ASSUME NEW x \in kept, NEW y \in kept, x.last_used < y.last_used
        PROVE  Cardinality(older(x)) < Cardinality(older(y))
    <3>1. older(x) \subseteq older(y) /\ x \in older(y) /\ x \notin older(x)
      BY <1>5, <2>1
    <3>2. /\ IsFiniteSet(older(y)) /\ Cardinality(older(y)) \in Nat
          /\ Cardinality(older(x)) \in Nat
      BY <1>6
    <3> HIDE DEF kept, older
    <3>3. Cardinality(older(x)) <= Cardinality(older(y))
          /\ (Cardinality(older(y)) = Cardinality(older(x)) => older(y) = older(x))
      BY <3>1, <3>2, FS_Subset
    <3> QED
      BY <3>1, <3>2, <3>3
  <2>2. e.last_used # f.last_used
    BY <1>7 DEF KeyInv, EntriesSound
  <2>3. e.last_used < f.last_used \/ f.last_used < e.last_used
    BY <1>5, <2>2
  <2>4. Cardinality(older(e)) \in Nat /\ Cardinality(older(f)) \in Nat
    BY <1>6
  <2> HIDE DEF kept, older
  <2> QED
    BY <2>1, <2>3, <2>4
<1>8. Cardinality(room) <= ENTRIES - 1
  <2>1. CASE over <= 0
    <3> HIDE DEF kept, room
    <3> QED
      BY <1>3, <1>4, <2>1, KeyAssumption
  <2>2. CASE over > 0
    <3> DEFINE ranks == over .. Cardinality(kept) - 1
               rank == [e \in room |-> Cardinality(older(e))]
    <3>1. \A e \in room : Cardinality(older(e)) \in ranks
      <4> SUFFICES ASSUME NEW e \in room PROVE Cardinality(older(e)) \in ranks
        OBVIOUS
      <4>1. e \in kept /\ Cardinality(older(e)) >= over
        OBVIOUS
      <4>2. Cardinality(older(e)) \in Nat /\ Cardinality(older(e)) < Cardinality(kept)
        BY <1>6, <4>1
      <4> HIDE DEF kept, older, room
      <4> QED
        BY <1>3, <4>1, <4>2, KeyAssumption
    <3>2. rank \in [room -> ranks]
      <4> HIDE DEF older, room, ranks
      <4> QED
        BY <3>1
    <3>3. \A e, f \in room : rank[e] = rank[f] => e = f
      <4>1. \A e \in room : rank[e] = Cardinality(older(e)) /\ e \in kept
        BY <1>2
      <4> HIDE DEF kept, older, room, rank
      <4> QED
        BY <1>7, <4>1
    <3>4. rank \in Injection(room, ranks)
      <4> HIDE DEF rank, room, ranks
      <4> QED
        BY <3>2, <3>3 DEF Injection, IsInjective
    <3>5. over \in Int /\ Cardinality(kept) - 1 \in Int
      <4> HIDE DEF kept
      <4> QED
        BY <1>3, KeyAssumption
    <3>6. IsFiniteSet(ranks) /\ Cardinality(ranks) =
             IF over > Cardinality(kept) - 1 THEN 0 ELSE Cardinality(kept) - 1 - over + 1
      <4> HIDE DEF kept, over
      <4> QED
        BY <3>5, FS_Interval
    <3>7. Cardinality(room) <= Cardinality(ranks)
      <4> HIDE DEF rank, room, ranks
      <4> QED
        BY <3>4, <3>6, FS_Injection
    <3> HIDE DEF kept, room, ranks
    <3> QED
      BY <1>3, <1>4, <3>6, <3>7, KeyAssumption
  <2>3. over \in Int
    <3> HIDE DEF kept
    <3> QED
      BY <1>3, KeyAssumption
  <2> HIDE DEF over, room
  <2> QED
    BY <2>1, <2>2, <2>3
<1> HIDE DEF room, kept
<1> QED
  BY <1>1, <1>2, <1>4, <1>8

LEMMA UseFreshKeeps ==
    ASSUME KeyInv, NEW t \in Task, NEW r \in regions, UseFresh(t, r)
    PROVE  KeyInv'
<1>1. PICK e \in HeldFor(r.wrapped) : FreshAt(e) /\ unwrapped' = (unwrapped \ {e}) \cup {Used(e)}
  BY DEF UseFresh
<1>2. uses' = uses + 1 /\ UNCHANGED <<time, back, configured, live, task, deks, regions, volume>>
  BY DEF UseFresh
<1>3. /\ e \in unwrapped /\ e \in EntryRecord /\ unwrapped \subseteq EntryRecord
      /\ e.unwrapped_at <= e.fetched /\ uses \in Nat
  BY <1>1 DEF HeldFor, KeyInv, KeyTypes, EntryRecord, EntriesSound
<1>4. /\ Used(e) \in EntryRecord /\ Used(e).blob = e.blob /\ Used(e).last_used = uses
      /\ Used(e).unwrapped_at = e.unwrapped_at /\ Used(e).fetched = e.fetched
      /\ Used(e).used_time = time
  BY <1>3, UsedIs
<1>5. IsFiniteSet(unwrapped') /\ Cardinality(unwrapped') <= ENTRIES
  <2>1. IsFiniteSet(unwrapped) /\ Cardinality(unwrapped) \in Nat /\ Cardinality(unwrapped) <= ENTRIES
    BY FS_CardinalityType DEF KeyInv, KeyTypes, KeysSound, KeysForgotten
  <2>2. IsFiniteSet(unwrapped \ {e}) /\ Cardinality(unwrapped \ {e}) = Cardinality(unwrapped) - 1
    BY <1>3, <2>1, FS_RemoveElement
  <2>3. IsFiniteSet(unwrapped') /\ Cardinality(unwrapped') =
           IF Used(e) \in unwrapped \ {e} THEN Cardinality(unwrapped \ {e})
           ELSE Cardinality(unwrapped \ {e}) + 1
    BY <1>1, <2>2, FS_AddElement
  <2> QED
    BY <2>1, <2>2, <2>3, KeyAssumption
<1>6. KeyTypes'
  <2>1. unwrapped' \subseteq EntryRecord /\ uses' \in Nat
    BY <1>1, <1>2, <1>3, <1>4
  <2> QED
    BY <1>2, <1>5, <2>1 DEF KeyInv, KeyTypes, EntryRecord
<1>7. LiveSound' /\ WaitsSound' /\ Unminted' /\ RegionsOpen'
  BY <1>2, SealsKept DEF KeyInv, WaitsSound
<1>8. EntriesSound'
  <2>1. \A f \in unwrapped : f.last_used \in Nat /\ f.last_used < uses
    BY <1>3 DEF KeyInv, EntriesSound, EntryRecord
  <2>2. \A f \in unwrapped \ {e} : f.blob # e.blob
    BY <1>3 DEF KeyInv, EntriesSound
  <2>3. \A f, g \in unwrapped \ {e} : f.blob = g.blob \/ f.last_used = g.last_used => f = g
    BY DEF KeyInv, EntriesSound
  <2>4. \A f \in unwrapped' : f.last_used < uses' /\ f.unwrapped_at <= f.fetched
    BY <1>1, <1>2, <1>3, <1>4, <2>1 DEF KeyInv, EntriesSound
  <2>5. \A f, g \in unwrapped' : f.blob = g.blob \/ f.last_used = g.last_used => f = g
    BY <1>1, <1>3, <1>4, <2>1, <2>2, <2>3
  <2> QED
    BY <2>4, <2>5 DEF EntriesSound
<1>9. KeysForgotten'
  <2>1. Used(e).used_time - Used(e).fetched < UNWRAP_TTL + back
    BY <1>1, <1>3, <1>4, FreshWithin
  <2>2. \A f \in unwrapped : f.used_time - f.fetched < UNWRAP_TTL + back
    BY DEF KeyInv, KeysSound, KeysForgotten
  <2>3. \A f \in unwrapped' : f.used_time - f.fetched < UNWRAP_TTL + back'
    BY <1>1, <1>2, <2>1, <2>2
  <2> QED
    BY <1>5, <2>3 DEF KeysForgotten
<1> QED
  BY <1>6, <1>7, <1>8, <1>9 DEF KeyInv, KeysSound

(* Entries taken out leave the rest as sound as they were.                 *)
LEMMA FewerEntries ==
    ASSUME KeyInv, unwrapped' \subseteq unwrapped, UNCHANGED <<back, uses>>
    PROVE  IsFiniteSet(unwrapped') /\ EntriesSound' /\ KeysForgotten'
<1>1. IsFiniteSet(unwrapped') /\ Cardinality(unwrapped') <= Cardinality(unwrapped)
  BY FS_Subset DEF KeyInv, KeyTypes
<1>2. Cardinality(unwrapped) \in Nat /\ Cardinality(unwrapped') \in Nat
      /\ Cardinality(unwrapped) <= ENTRIES
  BY <1>1, FS_CardinalityType DEF KeyInv, KeyTypes, KeysSound, KeysForgotten
<1>3. Cardinality(unwrapped') <= ENTRIES
  BY <1>1, <1>2, KeyAssumption
<1>4. EntriesSound'
  BY DEF EntriesSound, KeyInv
<1>5. KeysForgotten'
  BY <1>3 DEF KeysForgotten, KeyInv, KeysSound
<1> QED
  BY <1>1, <1>4, <1>5

LEMMA UnwrapKeeps ==
    ASSUME KeyInv, NEW t \in Task, NEW r \in regions, Unwrap(t, r)
    PROVE  KeyInv'
<1> DEFINE w == [NoWait EXCEPT !.pc = "unwrap", !.blob = r.wrapped]
<1>1. /\ task' = [task EXCEPT ![t] = w] /\ unwrapped' \subseteq unwrapped
      /\ UNCHANGED <<time, back, configured, live, uses, deks, regions, volume>>
  BY DEF Unwrap
<1>2. r.wrapped \in Keyed /\ task \in [Task -> WaitRecord]
  BY DEF KeyInv, KeyTypes, WaitRecord
<1>3. w \in WaitRecord /\ w.pc = "unwrap" /\ w.blob = r.wrapped
  BY <1>2, NoWaitIs DEF WaitRecord
<1> HIDE DEF w
<1>4. task' \in [Task -> WaitRecord] /\ task'[t] = w /\ \A u \in Task \ {t} : task'[u] = task[u]
  BY <1>1, <1>2, <1>3
<1>5. IsFiniteSet(unwrapped') /\ EntriesSound' /\ KeysForgotten'
  BY <1>1, FewerEntries
<1>6. KeyTypes'
  BY <1>1, <1>4, <1>5 DEF KeyInv, KeyTypes, WaitRecord
<1>7. LiveSound' /\ WaitsSound' /\ Unminted' /\ RegionsOpen'
  <2>1. \A u \in Task : task'[u].pc = "wrap" => task'[u] = task[u]
    BY <1>3, <1>4
  <2>2. \A u \in Task : task'[u].pc = "unwrap" => task'[u].blob \in Keyed
    BY <1>2, <1>3, <1>4 DEF KeyInv, WaitsSound
  <2> QED
    BY <1>1, <2>1, <2>2, SealsKept
<1> QED
  BY <1>5, <1>6, <1>7 DEF KeyInv, KeysSound

(* A key comes back from the key service: room is made for it, or another  *)
(* task's entry for the same key is used instead.                          *)
LEMMA FetchAndUseKeeps ==
    ASSUME KeyInv, NEW t \in Task, FetchAndUse(t)
    PROVE  KeyInv'
<1> DEFINE blob == task[t].blob
           room == Room(unwrapped)
           mine == {e \in room : e.blob = blob}
           fresh == [blob |-> blob, dek |-> blob[2], unwrapped_at |-> Now, last_used |-> uses,
                     fetched |-> time, used_at |-> Now, used_time |-> time]
<1>1. /\ task[t].pc = "unwrap" /\ uses' = uses + 1 /\ task' = [task EXCEPT ![t] = NoWait]
      /\ unwrapped' = IF mine # {} THEN (room \ mine) \cup {Used(e) : e \in mine}
                       ELSE room \cup {fresh}
      /\ UNCHANGED <<time, back, configured, live, deks, regions, volume>>
  BY DEF FetchAndUse
<1>2. /\ room \subseteq unwrapped /\ \A e \in room : FreshAt(e)
      /\ IsFiniteSet(room) /\ Cardinality(room) \in Nat /\ Cardinality(room) <= ENTRIES - 1
  <2>1. IsFiniteSet(room)
    BY RoomIs
  <2> QED
    BY <2>1, RoomIs, FS_CardinalityType
<1>3. /\ blob \in Keyed /\ uses \in Nat /\ time \in Nat /\ Now \in Int /\ Now <= time
      /\ task \in [Task -> WaitRecord] /\ unwrapped \subseteq EntryRecord
  BY <1>1, NowIs DEF KeyInv, KeyTypes, WaitsSound, WaitRecord, EntryRecord
<1> HIDE DEF room
<1>4. PICK n \in EntryRecord, gone \in SUBSET room :
          /\ unwrapped' = (room \ gone) \cup {n}
          /\ n.blob = blob /\ n.last_used = uses /\ n.unwrapped_at <= n.fetched
          /\ n.used_time - n.fetched < UNWRAP_TTL + back
          /\ \A e \in room \ gone : e.blob # blob
  <2>1. CASE mine = {}
    <3>1. fresh \in EntryRecord /\ fresh.blob = blob /\ fresh.last_used = uses
          /\ fresh.unwrapped_at = Now /\ fresh.fetched = time /\ fresh.used_time = time
      BY <1>3 DEF EntryRecord, Keyed
    <3>2. fresh.used_time - fresh.fetched < UNWRAP_TTL + back
      BY <1>3, <3>1, KeyAssumption DEF KeyInv, KeyTypes
    <3>3. unwrapped' = (room \ {}) \cup {fresh} /\ \A e \in room \ {} : e.blob # blob
      BY <1>1, <2>1
    <3> HIDE DEF fresh
    <3> QED
      BY <1>3, <3>1, <3>2, <3>3
  <2>2. CASE mine # {}
    <3>1. PICK e \in mine : TRUE
      BY <2>2
    <3>2. \A f \in mine : f = e
      BY <1>2, <3>1 DEF KeyInv, EntriesSound
    <3>3. mine = {e} /\ {Used(f) : f \in mine} = {Used(e)}
      BY <3>1, <3>2
    <3>4. e \in unwrapped /\ e \in EntryRecord /\ e.unwrapped_at <= e.fetched /\ FreshAt(e)
          /\ e.blob = blob /\ e \in room
      BY <1>2, <1>3, <3>1 DEF KeyInv, EntriesSound
    <3>5. /\ Used(e) \in EntryRecord /\ Used(e).blob = e.blob /\ Used(e).last_used = uses
          /\ Used(e).unwrapped_at = e.unwrapped_at /\ Used(e).fetched = e.fetched
          /\ Used(e).used_time = time
      BY <3>4, UsedIs
    <3>6. Used(e).used_time - Used(e).fetched < UNWRAP_TTL + back
      BY <3>4, <3>5, FreshWithin
    <3>7. unwrapped' = (room \ {e}) \cup {Used(e)}
      BY <1>1, <2>2, <3>3
    <3>8. \A f \in room \ {e} : f.blob # blob
      BY <3>3
    <3>9. {e} \in SUBSET room /\ Used(e).unwrapped_at <= Used(e).fetched /\ Used(e).blob = blob
      BY <3>4, <3>5
    <3> HIDE DEF mine, blob
    <3> Used(e) \in EntryRecord /\ {e} \in SUBSET room
      BY <3>5, <3>9
    <3> WITNESS Used(e) \in EntryRecord, {e} \in SUBSET room
    <3> QED
      BY <3>5, <3>6, <3>7, <3>8, <3>9
  <2> QED
    BY <2>1, <2>2
<1> HIDE DEF blob, mine, fresh
<1>5. IsFiniteSet(unwrapped') /\ Cardinality(unwrapped') <= ENTRIES
  <2>1. /\ IsFiniteSet(room \ gone) /\ Cardinality(room \ gone) <= Cardinality(room)
        /\ Cardinality(room \ gone) \in Nat
    <3>1. room \ gone \in SUBSET room
      OBVIOUS
    <3>2. IsFiniteSet(room \ gone) /\ Cardinality(room \ gone) <= Cardinality(room)
      BY <1>2, <3>1, FS_Subset
    <3> QED
      BY <3>2, FS_CardinalityType
  <2>2. IsFiniteSet(unwrapped') /\ Cardinality(unwrapped') =
           IF n \in room \ gone THEN Cardinality(room \ gone) ELSE Cardinality(room \ gone) + 1
    BY <1>4, <2>1, FS_AddElement
  <2> QED
    BY <1>2, <2>1, <2>2, KeyAssumption
<1>6. task' \in [Task -> WaitRecord] /\ task'[t].pc = "idle"
      /\ \A u \in Task \ {t} : task'[u] = task[u]
  BY <1>1, <1>3, NoWaitIs
<1>7. KeyTypes'
  <2>1. unwrapped' \subseteq EntryRecord
    BY <1>2, <1>3, <1>4
  <2>2. uses' \in Nat
    BY <1>1, <1>3
  <2> QED
    BY <1>1, <1>5, <1>6, <2>1, <2>2 DEF KeyInv, KeyTypes, EntryRecord, WaitRecord
<1>8. LiveSound' /\ WaitsSound' /\ Unminted' /\ RegionsOpen'
  <2>1. \A u \in Task : task'[u].pc = "wrap" => task'[u] = task[u]
    BY <1>6
  <2>2. \A u \in Task : task'[u].pc = "unwrap" => task'[u].blob \in Keyed
    BY <1>6 DEF KeyInv, WaitsSound
  <2> QED
    BY <1>1, <2>1, <2>2, SealsKept
<1>9. EntriesSound'
  <2>1. \A f \in unwrapped : f.last_used \in Nat /\ f.last_used < uses
    BY <1>3 DEF KeyInv, EntriesSound, EntryRecord
  <2>2. \A f, g \in room : f.blob = g.blob \/ f.last_used = g.last_used => f = g
    BY <1>2 DEF KeyInv, EntriesSound
  <2>3. \A f \in unwrapped' : f.last_used < uses' /\ f.unwrapped_at <= f.fetched
    BY <1>1, <1>2, <1>3, <1>4, <2>1 DEF KeyInv, EntriesSound
  <2>4. \A f, g \in unwrapped' : f.blob = g.blob \/ f.last_used = g.last_used => f = g
    <3>1. \A f \in room \ gone : f.blob # n.blob /\ f.last_used # n.last_used
      BY <1>2, <1>3, <1>4, <2>1
    <3> QED
      BY <1>4, <2>2, <3>1
  <2> QED
    BY <2>3, <2>4 DEF EntriesSound
<1>10. KeysForgotten'
  <2>1. \A f \in unwrapped : f.used_time - f.fetched < UNWRAP_TTL + back
    BY DEF KeyInv, KeysSound, KeysForgotten
  <2>2. \A f \in unwrapped' : f.used_time - f.fetched < UNWRAP_TTL + back'
    BY <1>1, <1>2, <1>4, <2>1
  <2> QED
    BY <1>5, <2>2 DEF KeysForgotten
<1> QED
  BY <1>7, <1>8, <1>9, <1>10 DEF KeyInv, KeysSound

LEMMA KeyNextKeeps == KeyInv /\ [KeyNext]_keyVars => KeyInv'
<1> SUFFICES ASSUME KeyInv, [KeyNext]_keyVars PROVE KeyInv'
  OBVIOUS
<1>1. ASSUME NEW t \in Task, MintDek(t) \/ ServiceFails(t) \/ FetchAndUse(t) PROVE KeyInv'
  BY <1>1, MintDekKeeps, ServiceFailsKeeps, FetchAndUseKeeps
<1>4. ASSUME NEW t \in Task, NEW n \in Sizes, UseLive(t, n) \/ Rotate(t, n) PROVE KeyInv'
  BY <1>4, UseLiveKeeps, RotateKeeps
<1>2. ASSUME NEW t \in Task, NEW r \in regions, UseFresh(t, r) \/ Unwrap(t, r) PROVE KeyInv'
  BY <1>2, UseFreshKeeps, UnwrapKeeps
<1>3. CASE UNCHANGED keyVars
  <2> USE <1>3 DEF keyVars
  <2>1. KeyTypes'
    BY DEF KeyInv, KeyTypes
  <2>2. LiveSound' /\ WaitsSound' /\ Unminted' /\ RegionsOpen'
    BY SealsKept DEF KeyInv, WaitsSound
  <2>3. EntriesSound' /\ KeysForgotten'
    BY EntriesKept DEF KeyInv, KeyTypes
  <2> QED
    BY <2>1, <2>2, <2>3 DEF KeyInv, KeysSound
<1> QED
  BY <1>1, <1>2, <1>3, <1>4, WorldKeeps DEF KeyNext

(* Every region opens again under the key its domain asked for, no key     *)
(* seals once it has sealed its cap, and no unwrapped key is used past its *)
(* time or kept past the cache's size, for any number of tasks waiting on  *)
(* the key service at once and regions of any size (dek_cache.rs,          *)
(* rotate_and_use; unwrap_cache.rs, make_room and fetch_and_use).          *)
THEOREM KeySafety == KeySpec => []KeysSound
<1>1. KeyInit => KeyInv
  <2> SUFFICES ASSUME KeyInit PROVE KeyInv
    OBVIOUS
  <2> USE DEF KeyInit
  <2>1. KeyTypes
    <3>1. task \in [Task -> WaitRecord]
      BY NoWaitIs
    <3>2. live \in LiveRecord
      BY DEF NoLive, LiveRecord, KeyIds
    <3> QED
      BY <3>1, <3>2, FS_EmptySet, KeyAssumption DEF KeyTypes, LiveRecord, WaitRecord
  <2>2. LiveSound /\ WaitsSound /\ Unminted /\ EntriesSound
    BY NoWaitIs DEF LiveSound, NoLive, WaitsSound, Unminted, EntriesSound
  <2>3. KeysSound
    BY FS_EmptySet, KeyAssumption DEF KeysSound, RegionsOpen, KeysForgotten
  <2> QED
    BY <2>1, <2>2, <2>3 DEF KeyInv
<1>2. KeyInv /\ [KeyNext]_keyVars => KeyInv'
  BY KeyNextKeeps
<1>3. KeyInv => KeysSound
  BY DEF KeyInv
<1> QED
  BY <1>1, <1>2, <1>3, PTL DEF KeySpec

-----------------------------------------------------------------------------
(* The produce path. *)

ProducePcs == {"idle", "building", "putting", "committing", "flushed", "answering"}
Keys == Nat \X Nat
Region == [part : Hosted, batch : Nat \X Nat]
OpenBundles == [domain : {DomainOf[p] : p \in Hosted}, regions : Seq(Region)]
Codes == {"UNSUPPORTED_FOR_MESSAGE_FORMAT", "INVALID_REQUIRED_ACKS", "UNKNOWN_TOPIC_ID",
          "TOPIC_AUTHORIZATION_FAILED", "UNKNOWN_TOPIC_OR_PARTITION", "INVALID_RECORD", "INVALID_REQUEST",
          "NOT_ENOUGH_REPLICAS", "LEADER_NOT_AVAILABLE", "OUT_OF_ORDER_SEQUENCE_NUMBER", "NONE"}
         \cup UNION {{Verify(r.entries[i].defects) : i \in 1 .. Len(r.entries)} : r \in Request}
Refusals == [kind : {"refused"}, code : Codes]
Slots == Refusals \cup [kind : {"pushed"}, part : Hosted, bundle : Nat, local : Nat]
Offsets == {Cardinality(S) : S \in SUBSET (Nat \X Region)}
Outcomes == Refusals \cup [kind : {"assigned"}, offset : Offsets]
Works == [pc : ProducePcs, nth : Nat, slots : Seq(Slots), bundles : Seq(OpenBundles), at : Nat,
          key : Keys, outcomes : Seq(Seq(Outcomes))]

LogEntry == [key : Keys, spans : SUBSET Region]

ProduceTypes ==
    /\ DOMAIN put \subseteq Keys /\ put \in [DOMAIN put -> Seq(Region)]
    /\ committed \in Seq(LogEntry)
    /\ namer \in [writer : Nat, next : Nat]
    /\ asked \in Seq(Request)
    /\ work \in [Handler -> Works]
    /\ seen \in [Handler -> Nat]

(* Of the log as a parameter.                                              *)
SpansIn(l, n) == UNION {{i} \X l[i].spans : i \in 1 .. n}
EndIn(l, part, n) == Cardinality({at \in SpansIn(l, n) : at[2].part = part})
Log(l) == SpansIn(l, Len(l))

(* Where a request is.                                                     *)
Shaped(w) ==
    /\ w.at \in 1 .. Len(w.bundles) + 1
    /\ w.pc = "building" => w.at = 1
    /\ w.pc \in {"putting", "committing"} => w.at <= Len(w.bundles)
    /\ w.pc = "answering" => Len(w.outcomes) = Len(w.bundles)
    /\ w.pc # "answering" => Len(w.outcomes) = w.at - 1
    /\ \A b \in 1 .. Len(w.outcomes) : Len(w.outcomes[b]) = Len(w.bundles[b].regions)

(* A slot's partition is where the slot says, and nowhere else.            *)
Slotted(w, entries) ==
    /\ \A i \in 1 .. Len(w.slots) : w.slots[i].kind = "pushed" =>
          /\ w.slots[i].bundle \in 1 .. Len(w.bundles)
          /\ w.slots[i].local \in 1 .. Len(w.bundles[w.slots[i].bundle].regions)
          /\ w.bundles[w.slots[i].bundle].regions[w.slots[i].local]
                = [part |-> w.slots[i].part, batch |-> <<w.nth, i>>]
          /\ w.slots[i].part = entries[i].part
    /\ \A b \in 1 .. Len(w.bundles) : \A j \in 1 .. Len(w.bundles[b].regions) :
          \E i \in 1 .. Len(w.slots) :
              w.slots[i].kind = "pushed" /\ w.slots[i].bundle = b /\ w.slots[i].local = j
    /\ \A i, k \in 1 .. Len(w.slots) :
          (/\ w.slots[i].kind = "pushed" /\ w.slots[k].kind = "pushed"
           /\ w.slots[i].part = w.slots[k].part) => i = k

(* What of a request is in the log is of the bundles it is done with.      *)
Flowed(w, l) ==
    \A at \in Log(l) : at[2].batch[1] = w.nth =>
        \E b \in 1 .. Len(w.bundles) : \E j \in 1 .. Len(w.bundles[b].regions) :
            at[2] = w.bundles[b].regions[j] /\ (b < w.at \/ w.pc = "answering")

(* An outcome is the truth of its region, to a session that has seen s.    *)
OutcomeTrue(l, s, o, region) ==
    /\ o.kind = "assigned" =>
          \E at \in Log(l) : at[2] = region /\ at[1] <= s /\ o.offset = EndIn(l, region.part, at[1] - 1)
    /\ o.kind = "refused" /\ o.code \notin Retriable =>
          \A at \in Log(l) : at[2].batch # region.batch

OutcomesTrue(w, l, s) ==
    \A b \in 1 .. Len(w.outcomes) : \A j \in 1 .. Len(w.outcomes[b]) :
        OutcomeTrue(l, s, w.outcomes[b][j], w.bundles[b].regions[j])

(* A request in hand is sound against the log l, the requests a and the    *)
(* watermark s its session has seen.                                       *)
WorkSound(w, l, a, s) ==
    /\ w.pc = "idle" => w.outcomes = <<>>
    /\ w.pc # "idle" =>
          /\ w.nth \in 1 .. Len(a)
          /\ Shaped(w) /\ Slotted(w, a[w.nth].entries)
          /\ Flowed(w, l) /\ OutcomesTrue(w, l, s)

(* Nobody else has the request's number, not even once it is answered.     *)
NumbersOnce ==
    \A h, g \in Handler :
        work[h].pc # "idle" /\ work[g].pc # "idle" /\ work[h].nth = work[g].nth => h = g
RepliesPast ==
    \A r \in replies : /\ r.nth \in 1 .. Len(asked)
                       /\ \A h \in Handler : work[h].pc # "idle" => work[h].nth # r.nth
LogNumbered == \A at \in Log(committed) : at[2].batch[1] \in 1 .. Len(asked)
BatchesOnce == \A a, c \in Log(committed) : a[2].batch = c[2].batch => a = c
SeenBounded == \A h \in Handler : seen[h] <= Len(committed)
Numbered == NumbersOnce /\ RepliesPast /\ LogNumbered /\ BatchesOnce /\ SeenBounded

(* Names are given out once, and a bundle is committed under the name it   *)
(* was put under.                                                          *)
Naming == {"putting", "committing"}
Past(k, n) == k[1] < n.writer \/ (k[1] = n.writer /\ k[2] < n.next)
KeysPast ==
    /\ \A k \in DOMAIN put : Past(k, namer)
    /\ \A h \in Handler : work[h].pc \in Naming => Past(work[h].key, namer)
NamesOnce ==
    \A h, g \in Handler :
        work[h].pc \in Naming /\ work[g].pc \in Naming /\ work[h].key = work[g].key => h = g
NotYetPut == \A h \in Handler : work[h].pc = "putting" => work[h].key \notin DOMAIN put
PutAsNamed ==
    \A h \in Handler : work[h].pc = "committing" =>
        work[h].key \in DOMAIN put /\ put[work[h].key] = work[h].bundles[work[h].at].regions
Named == KeysPast /\ NamesOnce /\ NotYetPut /\ PutAsNamed

WorksSound == \A h \in Handler : WorkSound(work[h], committed, asked, seen[h])
ProduceSound == WorksSound /\ Numbered /\ Named /\ CommittedStored /\ AnswersHold

ProduceInv == ProduceTypes /\ ProduceSound

-----------------------------------------------------------------------------
(* An entry more leaves the prefix of the log what it was.                 *)
LEMMA LogGrows ==
    ASSUME NEW l \in Seq(LogEntry), NEW e \in LogEntry
    PROVE  /\ \A n \in 0 .. Len(l) : SpansIn(Append(l, e), n) = SpansIn(l, n)
           /\ Log(Append(l, e)) = Log(l) \cup ({Len(l) + 1} \X e.spans)
<1> DEFINE m == Append(l, e)
<1>1. /\ Len(l) \in Nat /\ Len(m) = Len(l) + 1 /\ m[Len(l) + 1] = e
      /\ \A i \in 1 .. Len(l) : m[i] = l[i]
  OBVIOUS
<1> HIDE DEF m
<1>2. ASSUME NEW n \in 0 .. Len(l)
      PROVE  SpansIn(m, n) = SpansIn(l, n)
  <2>1. \A i \in 1 .. n : m[i] = l[i]
    BY <1>1
  <2>2. {{i} \X m[i].spans : i \in 1 .. n} = {{i} \X l[i].spans : i \in 1 .. n}
    BY <2>1
  <2> QED
    BY <2>2 DEF SpansIn
<1>3. Log(m) = Log(l) \cup ({Len(l) + 1} \X e.spans)
  <2>1. \A i \in 1 .. Len(m) : i \in 1 .. Len(l) \/ i = Len(l) + 1
    BY <1>1
  <2>2. \A i \in 1 .. Len(l) : i \in 1 .. Len(m)
    BY <1>1
  <2>3. Len(l) + 1 \in 1 .. Len(m)
    BY <1>1
  <2>4. ASSUME NEW at \in Log(m)
        PROVE  at \in Log(l) \cup ({Len(l) + 1} \X e.spans)
    <3>1. PICK i \in 1 .. Len(m) : at \in {i} \X m[i].spans
      BY <2>4 DEF Log, SpansIn
    <3>2. CASE i \in 1 .. Len(l)
      <4>1. at \in {i} \X l[i].spans
        BY <3>1, <3>2, <1>1
      <4> QED
        BY <4>1, <3>2 DEF Log, SpansIn
    <3>3. CASE i = Len(l) + 1
      BY <3>1, <3>3, <1>1
    <3> QED
      BY <3>2, <3>3, <2>1
  <2>5. ASSUME NEW at \in Log(l) \cup ({Len(l) + 1} \X e.spans)
        PROVE  at \in Log(m)
    <3>1. CASE at \in Log(l)
      <4>1. PICK i \in 1 .. Len(l) : at \in {i} \X l[i].spans
        BY <3>1 DEF Log, SpansIn
      <4>2. at \in {i} \X m[i].spans
        BY <4>1, <1>1
      <4> QED
        BY <4>2, <2>2 DEF Log, SpansIn
    <3>2. CASE at \in {Len(l) + 1} \X e.spans
      <4>1. at \in {Len(l) + 1} \X m[Len(l) + 1].spans
        BY <3>2, <1>1
      <4> QED
        BY <4>1, <2>3 DEF Log, SpansIn
    <3> QED
      BY <3>1, <3>2, <2>5
  <2> QED
    BY <2>4, <2>5
<1> QED
  BY <1>2, <1>3 DEF m

(* What is in the log, and where.                                          *)
LEMMA LogPlaces ==
    ASSUME NEW l \in Seq(LogEntry), NEW at \in Log(l)
    PROVE  /\ at = <<at[1], at[2]>>
           /\ at[1] \in 1 .. Len(l) /\ at[2] \in l[at[1]].spans
           /\ at[2] \in Region /\ at[1] - 1 \in 0 .. Len(l)
<1>1. PICK i \in 1 .. Len(l) : at \in {i} \X l[i].spans
  BY DEF Log, SpansIn
<1>2. l[i] \in LogEntry
  BY <1>1
<1>3. l[i].spans \subseteq Region
  BY <1>2 DEF LogEntry
<1>4. at = <<at[1], at[2]>> /\ at[1] = i /\ at[2] \in l[i].spans
  BY <1>1
<1>5. Len(l) \in Nat
  OBVIOUS
<1> QED
  BY <1>1, <1>3, <1>4, <1>5

(* The end of a partition before a place stays what it was.                *)
LEMMA EndsKeep ==
    ASSUME NEW l \in Seq(LogEntry), NEW e \in LogEntry, NEW n \in 0 .. Len(l), NEW part
    PROVE  EndIn(Append(l, e), part, n) = EndIn(l, part, n)
<1>1. SpansIn(Append(l, e), n) = SpansIn(l, n)
  BY LogGrows
<1> QED
  BY <1>1 DEF EndIn

(* A region of a request is where one of its slots says, ...               *)
Backs(w, entries, i, b, j) ==
    /\ w.slots[i].kind = "pushed" /\ w.slots[i].bundle = b /\ w.slots[i].local = j
    /\ w.bundles[b].regions[j] = [part |-> w.slots[i].part, batch |-> <<w.nth, i>>]
    /\ w.slots[i].part = entries[i].part

LEMMA RegionSlot ==
    ASSUME NEW w, NEW entries, Slotted(w, entries),
           NEW b \in 1 .. Len(w.bundles), NEW j \in 1 .. Len(w.bundles[b].regions)
    PROVE  \E i \in 1 .. Len(w.slots) : Backs(w, entries, i, b, j)
<1>1. PICK i \in 1 .. Len(w.slots) :
         w.slots[i].kind = "pushed" /\ w.slots[i].bundle = b /\ w.slots[i].local = j
  BY DEF Slotted
<1>2. /\ w.bundles[w.slots[i].bundle].regions[w.slots[i].local]
            = [part |-> w.slots[i].part, batch |-> <<w.nth, i>>]
      /\ w.slots[i].part = entries[i].part
  BY <1>1 DEF Slotted
<1>3. Backs(w, entries, i, b, j)
  BY <1>1, <1>2 DEF Backs
<1> QED
  BY <1>3

(* ... so it is of that request, ...                                       *)
LEMMA RegionIsOwn ==
    ASSUME NEW w, NEW entries, Slotted(w, entries),
           NEW b \in 1 .. Len(w.bundles), NEW j \in 1 .. Len(w.bundles[b].regions)
    PROVE  w.bundles[b].regions[j].batch[1] = w.nth
<1>1. PICK i \in 1 .. Len(w.slots) : Backs(w, entries, i, b, j)
  BY RegionSlot
<1>2. w.bundles[b].regions[j].batch = <<w.nth, i>>
  BY <1>1 DEF Backs
<1> QED
  BY <1>2

(* ... and no other has its batch or its partition.                        *)
LEMMA RegionIsOnce ==
    ASSUME NEW w, NEW entries, Slotted(w, entries),
           NEW b \in 1 .. Len(w.bundles), NEW j \in 1 .. Len(w.bundles[b].regions),
           NEW c \in 1 .. Len(w.bundles), NEW k \in 1 .. Len(w.bundles[c].regions),
           \/ w.bundles[c].regions[k].batch = w.bundles[b].regions[j].batch
           \/ w.bundles[c].regions[k].part = w.bundles[b].regions[j].part
    PROVE  c = b /\ k = j
<1>1. PICK i \in 1 .. Len(w.slots) : Backs(w, entries, i, b, j)
  BY RegionSlot
<1>2. PICK n \in 1 .. Len(w.slots) : Backs(w, entries, n, c, k)
  BY RegionSlot
<1>3. /\ w.bundles[b].regions[j].batch = <<w.nth, i>>
      /\ w.bundles[b].regions[j].part = w.slots[i].part
  BY <1>1 DEF Backs
<1>4. /\ w.bundles[c].regions[k].batch = <<w.nth, n>>
      /\ w.bundles[c].regions[k].part = w.slots[n].part
  BY <1>2 DEF Backs
<1>5. n = i
  <2>1. CASE w.bundles[c].regions[k].batch = w.bundles[b].regions[j].batch
    <3>1. <<w.nth, n>> = <<w.nth, i>>
      BY <2>1, <1>3, <1>4, Zenon
    <3> QED
      BY <3>1
  <2>2. CASE w.bundles[c].regions[k].part = w.bundles[b].regions[j].part
    BY <2>2, <1>1, <1>2, <1>3, <1>4 DEF Slotted, Backs
  <2> QED
    BY <2>1, <2>2
<1> QED
  BY <1>1, <1>2, <1>5 DEF Backs

-----------------------------------------------------------------------------
(* A request another handler commits for leaves this one sound.            *)
LEMMA OutcomeKeeps ==
    ASSUME NEW l \in Seq(LogEntry), NEW e \in LogEntry, NEW s \in Nat, NEW t \in Nat, s <= t,
           NEW o, NEW region, OutcomeTrue(l, s, o, region),
           \A x \in e.spans : x.batch # region.batch
    PROVE  OutcomeTrue(Append(l, e), t, o, region)
<1> DEFINE m == Append(l, e)
<1>1. Log(m) = Log(l) \cup ({Len(l) + 1} \X e.spans)
  BY LogGrows
<1>2. ASSUME o.kind = "assigned"
      PROVE  \E at \in Log(m) : at[2] = region /\ at[1] <= t
                                /\ o.offset = EndIn(m, region.part, at[1] - 1)
  <2>1. PICK at \in Log(l) : at[2] = region /\ at[1] <= s
                             /\ o.offset = EndIn(l, region.part, at[1] - 1)
    BY <1>2 DEF OutcomeTrue
  <2>2. at[1] \in 1 .. Len(l) /\ at[1] - 1 \in 0 .. Len(l)
    BY LogPlaces
  <2>3. EndIn(m, region.part, at[1] - 1) = EndIn(l, region.part, at[1] - 1)
    BY <2>2, EndsKeep
  <2>4. at[1] <= t
    BY <2>1, <2>2
  <2> QED
    BY <2>1, <2>3, <2>4, <1>1
<1>3. ASSUME o.kind = "refused", o.code \notin Retriable
      PROVE  \A at \in Log(m) : at[2].batch # region.batch
  <2>1. \A at \in Log(l) : at[2].batch # region.batch
    BY <1>3 DEF OutcomeTrue
  <2>2. \A at \in {Len(l) + 1} \X e.spans : at[2] \in e.spans
    OBVIOUS
  <2> QED
    BY <2>1, <2>2, <1>1
<1> QED
  BY <1>2, <1>3 DEF OutcomeTrue

LEMMA OthersKeep ==
    ASSUME NEW l \in Seq(LogEntry), NEW e \in LogEntry, NEW s \in Nat, NEW w \in Works, NEW a,
           WorkSound(w, l, a, s),
           w.pc # "idle" => \A x \in e.spans : x.batch[1] # w.nth
    PROVE  WorkSound(w, Append(l, e), a, s)
<1> DEFINE m == Append(l, e)
<1>1. Log(m) = Log(l) \cup ({Len(l) + 1} \X e.spans)
  BY LogGrows
<1>2. CASE w.pc = "idle"
  BY <1>2 DEF WorkSound
<1>3. CASE w.pc # "idle"
  <2>1. /\ w.nth \in 1 .. Len(a) /\ Shaped(w) /\ Slotted(w, a[w.nth].entries)
        /\ Flowed(w, l) /\ OutcomesTrue(w, l, s)
    BY <1>3 DEF WorkSound
  <2>2. Flowed(w, m)
    <3>1. ASSUME NEW at \in Log(m), at[2].batch[1] = w.nth
          PROVE  at \in Log(l)
      <4>1. at \in {Len(l) + 1} \X e.spans => at[2] \in e.spans
        OBVIOUS
      <4> QED
        BY <4>1, <3>1, <1>1, <1>3
    <3> QED
      BY <3>1, <2>1 DEF Flowed
  <2>3. OutcomesTrue(w, m, s)
    <3>1. SUFFICES ASSUME NEW b \in 1 .. Len(w.outcomes), NEW j \in 1 .. Len(w.outcomes[b])
                   PROVE  OutcomeTrue(m, s, w.outcomes[b][j], w.bundles[b].regions[j])
      BY DEF OutcomesTrue
    <3>2. OutcomeTrue(l, s, w.outcomes[b][j], w.bundles[b].regions[j])
      BY <2>1 DEF OutcomesTrue
    <3>3. b \in 1 .. Len(w.bundles) /\ j \in 1 .. Len(w.bundles[b].regions)
      <4>1. Len(w.outcomes) \in Nat /\ Len(w.bundles) \in Nat /\ w.at \in Nat
        BY DEF Works
      <4>2. w.at \in 1 .. Len(w.bundles) + 1
        BY <2>1 DEF Shaped
      <4>3. Len(w.outcomes) = w.at - 1 \/ Len(w.outcomes) = Len(w.bundles)
        BY <2>1 DEF Shaped
      <4>4. b \in 1 .. Len(w.bundles)
        BY <4>1, <4>2, <4>3
      <4>5. Len(w.outcomes[b]) = Len(w.bundles[b].regions)
        BY <2>1 DEF Shaped
      <4> QED
        BY <4>4, <4>5
    <3>4. w.bundles[b].regions[j].batch[1] = w.nth
      <4>1. Slotted(w, a[w.nth].entries)
        BY <2>1
      <4> QED
        BY <4>1, <3>3, RegionIsOwn
    <3>5. \A x \in e.spans : x.batch # w.bundles[b].regions[j].batch
      BY <3>4, <1>3
    <3>6. s <= s
      OBVIOUS
    <3> QED
      BY <3>2, <3>5, <3>6, OutcomeKeeps
  <2> QED
    BY <2>1, <2>2, <2>3, <1>3 DEF WorkSound
<1> QED
  BY <1>2, <1>3

(* A request received later changes nothing either.                        *)
LEMMA AskedKeeps ==
    ASSUME NEW l, NEW s, NEW w, NEW a \in Seq(Request), NEW r \in Request, WorkSound(w, l, a, s)
    PROVE  WorkSound(w, l, Append(a, r), s)
<1>1. Len(a) \in Nat /\ Len(Append(a, r)) = Len(a) + 1 /\ \A n \in 1 .. Len(a) : Append(a, r)[n] = a[n]
  OBVIOUS
<1>2. ASSUME w.pc # "idle"
      PROVE  w.nth \in 1 .. Len(Append(a, r)) /\ Append(a, r)[w.nth] = a[w.nth]
  <2>1. w.nth \in 1 .. Len(a)
    BY <1>2 DEF WorkSound
  <2> QED
    BY <2>1, <1>1
<1> QED
  BY <1>2 DEF WorkSound

-----------------------------------------------------------------------------
(* Gathering.                                                              *)

(* What one_partition turns a partition away for is a code; when it does   *)
(* not, the partition is hosted and new to the request.                    *)
LEMMA TurnedTyped ==
    ASSUME NEW w \in Works, NEW r \in Request, Len(w.slots) < Len(r.entries), NEW part
    PROVE  Turned(w, r, part) \in Codes
<1>1. Len(w.slots) + 1 \in 1 .. Len(r.entries)
  <2>1. Len(w.slots) \in Nat /\ Len(r.entries) \in Nat
    BY ProduceAssumption DEF Works
  <2> QED
    BY <2>1
<1> DEFINE code == Verify(r.entries[Len(w.slots) + 1].defects)
<1>2. code \in {Verify(r.entries[i].defects) : i \in 1 .. Len(r.entries)}
  BY <1>1, Zenon
<1>3. code \in Codes
  BY <1>2 DEF Codes
<1>4. Admitted(r) \in Codes
  BY DEF Admitted, Codes
<1>5. "UNKNOWN_TOPIC_OR_PARTITION" \in Codes /\ "INVALID_RECORD" \in Codes /\ "NONE" \in Codes
  BY DEF Codes
<1> HIDE DEF code
<1> QED
  BY <1>3, <1>4, <1>5 DEF Turned, code

LEMMA TurnedNone ==
    ASSUME NEW w \in Works, NEW r \in Request, NEW part, Turned(w, r, part) = "NONE"
    PROVE  part \in Hosted /\ ~AlreadyPushed(w, part)
<1>1. Admitted(r) = "NONE"
  BY DEF Turned
<1>2. part \in Hosted
  BY <1>1 DEF Turned
<1>3. Verify(r.entries[Len(w.slots) + 1].defects) = "NONE"
  BY <1>1, <1>2 DEF Turned
<1>4. ~AlreadyPushed(w, part)
  BY <1>1, <1>2, <1>3 DEF Turned
<1> QED
  BY <1>2, <1>4

(* Pending::push adds one region at the end of one bundle, old or new.     *)
PushedTo(w, x, part, b, old) ==
    /\ x.pc = w.pc /\ x.nth = w.nth /\ x.at = w.at /\ x.outcomes = w.outcomes
    /\ x.key = w.key
    /\ x.slots = Append(w.slots, [kind |-> "pushed", part |-> part, bundle |-> b,
                                  local |-> Len(old) + 1])
    /\ b \in 1 .. Len(x.bundles)
    /\ x.bundles[b].regions = Append(old, [part |-> part, batch |-> <<w.nth, Len(w.slots) + 1>>])
    /\ \A c \in 1 .. Len(x.bundles) : c = b \/ c \in 1 .. Len(w.bundles)
    /\ \A c \in 1 .. Len(w.bundles) : c \in 1 .. Len(x.bundles)
    /\ \A c \in 1 .. Len(w.bundles) : c # b => x.bundles[c] = w.bundles[c]
    /\ b \in 1 .. Len(w.bundles) => old = w.bundles[b].regions
    /\ b \notin 1 .. Len(w.bundles) => old = <<>>

LEMMA BundleForIs ==
    ASSUME NEW w \in Works, NEW domain
    PROVE  \/ BundleFor(w, domain) = Len(w.bundles) + 1
           \/ /\ BundleFor(w, domain) \in 1 .. Len(w.bundles)
              /\ w.bundles[BundleFor(w, domain)].domain = domain
<1> DEFINE same == {b \in 1 .. Len(w.bundles) : w.bundles[b].domain = domain}
<1>1. CASE same = {}
  BY <1>1 DEF BundleFor
<1>2. CASE same # {}
  <2>1. BundleFor(w, domain) = CHOOSE b \in same : TRUE
    BY <1>2 DEF BundleFor
  <2>2. (CHOOSE b \in same : TRUE) \in same
    BY <1>2, Zenon
  <2> QED
    BY <2>1, <2>2
<1> QED
  BY <1>1, <1>2

LEMMA PushedIs ==
    ASSUME NEW w \in Works, NEW part \in Hosted
    PROVE  /\ Pushed(w, part) \in Works
           /\ \E b \in Nat : \E old \in Seq(Region) : PushedTo(w, Pushed(w, part), part, b, old)
<1> DEFINE b == BundleFor(w, DomainOf[part])
           region == [part |-> part, batch |-> <<w.nth, Len(w.slots) + 1>>]
           open == IF b > Len(w.bundles) THEN [domain |-> DomainOf[part], regions |-> <<>>]
                   ELSE w.bundles[b]
           filled == [domain |-> open.domain, regions |-> Append(open.regions, region)]
           slot == [kind |-> "pushed", part |-> part, bundle |-> b, local |-> Len(filled.regions)]
           slots == Append(w.slots, slot)
           bundles == IF b > Len(w.bundles) THEN Append(w.bundles, filled)
                      ELSE [w.bundles EXCEPT ![b] = filled]
           x == Pushed(w, part)
<1>1. /\ w.nth \in Nat /\ w.slots \in Seq(Slots) /\ w.bundles \in Seq(OpenBundles)
      /\ Len(w.slots) \in Nat /\ Len(w.bundles) \in Nat
  BY DEF Works
<1>2. x = [w EXCEPT !.slots = slots, !.bundles = bundles]
  BY DEF Pushed
<1>3. b \in Nat /\ (b = Len(w.bundles) + 1 \/ b \in 1 .. Len(w.bundles))
  BY <1>1, BundleForIs
<1>4. region \in Region
  BY <1>1 DEF Region
<1>5. /\ open.domain \in {DomainOf[p] : p \in Hosted} /\ open.regions \in Seq(Region)
      /\ b \in 1 .. Len(w.bundles) => open.regions = w.bundles[b].regions
      /\ b \notin 1 .. Len(w.bundles) => open.regions = <<>>
  <2>1. CASE b = Len(w.bundles) + 1
    <3>1. b > Len(w.bundles) /\ b \notin 1 .. Len(w.bundles)
      BY <2>1, <1>1
    <3> HIDE DEF b
    <3>2. open = [domain |-> DomainOf[part], regions |-> <<>>]
      BY <3>1
    <3> QED
      BY <3>1, <3>2
  <2>2. CASE b \in 1 .. Len(w.bundles)
    <3>1. ~(b > Len(w.bundles))
      BY <2>2, <1>1
    <3> HIDE DEF b
    <3>2. open = w.bundles[b]
      BY <3>1
    <3>3. w.bundles[b] \in OpenBundles
      BY <2>2, <1>1
    <3> QED
      BY <2>2, <3>2, <3>3 DEF OpenBundles
  <2> QED
    BY <2>1, <2>2, <1>3
<1> HIDE DEF region, open, b
<1>6. /\ filled \in OpenBundles /\ filled.regions = Append(open.regions, region)
      /\ Len(filled.regions) = Len(open.regions) + 1
  BY <1>4, <1>5 DEF OpenBundles
<1> HIDE DEF filled
<1>7. slot \in Slots
  BY <1>3, <1>5, <1>6 DEF Slots
<1> HIDE DEF slot
<1>8. slots \in Seq(Slots)
  BY <1>1, <1>7
<1>9. /\ bundles \in Seq(OpenBundles) /\ b \in 1 .. Len(bundles) /\ bundles[b] = filled
      /\ \A c \in 1 .. Len(bundles) : c = b \/ c \in 1 .. Len(w.bundles)
      /\ \A c \in 1 .. Len(w.bundles) : c \in 1 .. Len(bundles)
      /\ \A c \in 1 .. Len(w.bundles) : c # b => bundles[c] = w.bundles[c]
  <2>1. CASE b = Len(w.bundles) + 1
    <3>1. bundles = Append(w.bundles, filled)
      BY <2>1, <1>1
    <3> HIDE DEF bundles
    <3>2. bundles \in Seq(OpenBundles) /\ Len(bundles) = Len(w.bundles) + 1
      BY <3>1, <1>1, <1>6
    <3> QED
      BY <3>1, <3>2, <2>1, <1>1, <1>6
  <2>2. CASE b \in 1 .. Len(w.bundles)
    <3>1. bundles = [w.bundles EXCEPT ![b] = filled]
      BY <2>2, <1>1
    <3> HIDE DEF bundles
    <3>2. bundles \in Seq(OpenBundles) /\ Len(bundles) = Len(w.bundles)
      BY <3>1, <1>1, <1>6, <2>2
    <3> QED
      BY <3>1, <3>2, <2>2, <1>1, <1>6
  <2> QED
    BY <2>1, <2>2, <1>3
<1> HIDE DEF bundles, slots
<1>10. x \in Works
  BY <1>2, <1>8, <1>9 DEF Works
<1>11. /\ x.pc = w.pc /\ x.nth = w.nth /\ x.at = w.at /\ x.outcomes = w.outcomes
       /\ x.key = w.key /\ x.slots = slots /\ x.bundles = bundles
  BY <1>2 DEF Works
<1>12. PushedTo(w, x, part, b, open.regions)
  <2> HIDE DEF x
  <2>1. slots = Append(w.slots, [kind |-> "pushed", part |-> part, bundle |-> b,
                                 local |-> Len(open.regions) + 1])
    BY <1>6 DEF slots, slot
  <2>2. x.bundles[b].regions = Append(open.regions, [part |-> part, batch |-> <<w.nth, Len(w.slots) + 1>>])
    BY <1>6, <1>9, <1>11 DEF region
  <2> QED
    BY <1>5, <1>9, <1>11, <2>1, <2>2 DEF PushedTo
<1> QED
  BY <1>3, <1>5, <1>10, <1>12

(* A partition gathered keeps every slot where it says.                    *)
LEMMA PushedSlotted ==
    ASSUME NEW w \in Works, NEW entries, Slotted(w, entries), NEW part, ~AlreadyPushed(w, part),
           NEW x \in Works, NEW b \in Nat, NEW old \in Seq(Region), PushedTo(w, x, part, b, old),
           part = entries[Len(w.slots) + 1].part
    PROVE  Slotted(x, entries)
<1> DEFINE n == Len(w.slots) + 1
           slot == [kind |-> "pushed", part |-> part, bundle |-> b, local |-> Len(old) + 1]
           region == [part |-> part, batch |-> <<w.nth, n>>]
           H(c) == Len(w.bundles[c].regions)
<1>1. /\ w.slots \in Seq(Slots) /\ Len(w.slots) \in Nat /\ Len(old) \in Nat
      /\ Len(w.bundles) \in Nat /\ Len(x.bundles) \in Nat
  BY DEF Works
<1>2. x.slots = Append(w.slots, slot) /\ x.bundles[b].regions = Append(old, region) /\ x.nth = w.nth
  BY DEF PushedTo
<1>3. slot \in Slots \/ TRUE
  OBVIOUS
<1> HIDE DEF slot, region
<1>4. /\ Len(x.slots) = n /\ x.slots[n] = slot
      /\ \A i \in 1 .. Len(w.slots) : i \in 1 .. n /\ x.slots[i] = w.slots[i]
      /\ \A i \in 1 .. n : i = n \/ i \in 1 .. Len(w.slots)
      /\ n \in 1 .. n
  <2>1. x.slots \in Seq(Slots) /\ Len(x.slots) \in Nat
    BY DEF Works
  <2>2. Len(x.slots) = n /\ x.slots[n] = slot /\ \A i \in 1 .. Len(w.slots) : x.slots[i] = w.slots[i]
    BY <1>1, <1>2
  <2> QED
    BY <2>2, <1>1
<1>5. /\ Len(x.bundles[b].regions) = Len(old) + 1 /\ x.bundles[b].regions[Len(old) + 1] = region
      /\ \A j \in 1 .. Len(old) : x.bundles[b].regions[j] = old[j]
      /\ \A j \in 1 .. Len(old) + 1 : j = Len(old) + 1 \/ j \in 1 .. Len(old)
      /\ \A j \in 1 .. Len(old) : j \in 1 .. Len(old) + 1
      /\ Len(old) + 1 \in 1 .. Len(old) + 1
  <2>1. Append(old, region)[Len(old) + 1] = region /\ Len(Append(old, region)) = Len(old) + 1
        /\ \A j \in 1 .. Len(old) : Append(old, region)[j] = old[j]
    OBVIOUS
  <2> QED
    BY <2>1, <1>1, <1>2
<1> HIDE DEF n
<1>6. ASSUME NEW c \in 1 .. Len(w.bundles), NEW j \in 1 .. Len(w.bundles[c].regions)
      PROVE  /\ c \in 1 .. Len(x.bundles) /\ j \in 1 .. Len(x.bundles[c].regions)
             /\ x.bundles[c].regions[j] = w.bundles[c].regions[j]
  <2>1. c \in 1 .. Len(x.bundles)
    BY DEF PushedTo
  <2>2. CASE c # b
    <3>1. x.bundles[c] = w.bundles[c]
      BY <2>2 DEF PushedTo
    <3> QED
      BY <2>1, <3>1
  <2>3. CASE c = b
    <3>1. old = w.bundles[c].regions
      BY <2>3 DEF PushedTo
    <3>2. j \in 1 .. Len(old)
      BY <3>1
    <3>3. j \in 1 .. Len(x.bundles[b].regions) /\ x.bundles[b].regions[j] = old[j]
      BY <3>2, <1>5
    <3> QED
      BY <2>1, <2>3, <3>1, <3>3
  <2> QED
    BY <2>2, <2>3
<1>7. slot.kind = "pushed" /\ slot.part = part /\ slot.bundle = b /\ slot.local = Len(old) + 1
  BY DEF slot
<1>8. ASSUME NEW i \in 1 .. Len(x.slots), x.slots[i].kind = "pushed"
      PROVE  /\ x.slots[i].bundle \in 1 .. Len(x.bundles)
             /\ x.slots[i].local \in 1 .. Len(x.bundles[x.slots[i].bundle].regions)
             /\ x.bundles[x.slots[i].bundle].regions[x.slots[i].local]
                   = [part |-> x.slots[i].part, batch |-> <<x.nth, i>>]
             /\ x.slots[i].part = entries[i].part
  <2>1. CASE i \in 1 .. Len(w.slots)
    <3>1. x.slots[i] = w.slots[i]
      BY <2>1, <1>4
    <3>2. /\ w.slots[i].bundle \in 1 .. Len(w.bundles)
          /\ w.slots[i].local \in 1 .. Len(w.bundles[w.slots[i].bundle].regions)
          /\ w.bundles[w.slots[i].bundle].regions[w.slots[i].local]
                = [part |-> w.slots[i].part, batch |-> <<w.nth, i>>]
          /\ w.slots[i].part = entries[i].part
      BY <2>1, <3>1, <1>8 DEF Slotted
    <3>3. /\ w.slots[i].bundle \in 1 .. Len(x.bundles)
          /\ w.slots[i].local \in 1 .. Len(x.bundles[w.slots[i].bundle].regions)
          /\ x.bundles[w.slots[i].bundle].regions[w.slots[i].local]
                = w.bundles[w.slots[i].bundle].regions[w.slots[i].local]
      BY <3>2, <1>6
    <3> QED
      BY <3>1, <3>2, <3>3, <1>2
  <2>2. CASE i = n
    <3>1. x.slots[i] = slot
      BY <2>2, <1>4
    <3>2. b \in 1 .. Len(x.bundles)
      BY DEF PushedTo
    <3>3. /\ Len(old) + 1 \in 1 .. Len(x.bundles[b].regions)
          /\ x.bundles[b].regions[Len(old) + 1] = [part |-> part, batch |-> <<x.nth, i>>]
      BY <1>2, <1>5, <2>2 DEF region
    <3>4. part = entries[i].part
      BY <2>2 DEF n
    <3> QED
      BY <3>1, <3>2, <3>3, <3>4, <1>7
  <2> QED
    BY <2>1, <2>2, <1>4
<1>9. ASSUME NEW c \in 1 .. Len(x.bundles), NEW j \in 1 .. Len(x.bundles[c].regions)
      PROVE  \E i \in 1 .. Len(x.slots) :
                 x.slots[i].kind = "pushed" /\ x.slots[i].bundle = c /\ x.slots[i].local = j
  <2>1. CASE c = b /\ j = Len(old) + 1
    BY <2>1, <1>4, <1>7
  <2>2. CASE ~(c = b /\ j = Len(old) + 1)
    <3>1. c \in 1 .. Len(w.bundles) /\ j \in 1 .. Len(w.bundles[c].regions)
      <4>1. CASE c # b
        <5>1. c \in 1 .. Len(w.bundles)
          BY <4>1 DEF PushedTo
        <5>2. x.bundles[c] = w.bundles[c]
          BY <4>1, <5>1 DEF PushedTo
        <5> QED
          BY <5>1, <5>2
      <4>2. CASE c = b
        <5>1. j \in 1 .. Len(old)
          BY <4>2, <2>2, <1>5
        <5>2. old # <<>>
          BY <5>1
        <5>3. b \in 1 .. Len(w.bundles) /\ old = w.bundles[b].regions
          BY <5>2 DEF PushedTo
        <5> QED
          BY <5>1, <5>3, <4>2
      <4> QED
        BY <4>1, <4>2
    <3>2. PICK i \in 1 .. Len(w.slots) : Backs(w, entries, i, c, j)
      BY <3>1, RegionSlot
    <3> QED
      BY <3>2, <1>4 DEF Backs
  <2> QED
    BY <2>1, <2>2
<1>10. ASSUME NEW i \in 1 .. Len(x.slots), NEW k \in 1 .. Len(x.slots),
              x.slots[i].kind = "pushed", x.slots[k].kind = "pushed",
              x.slots[i].part = x.slots[k].part
       PROVE  i = k
  <2>1. \A m \in 1 .. Len(w.slots) : w.slots[m].kind = "pushed" => w.slots[m].part # part
    BY DEF AlreadyPushed
  <2>2. CASE i \in 1 .. Len(w.slots) /\ k \in 1 .. Len(w.slots)
    BY <2>2, <1>4, <1>10 DEF Slotted
  <2>3. CASE i = n \/ k = n
    BY <2>1, <2>3, <1>4, <1>7, <1>10
  <2> QED
    BY <2>2, <2>3, <1>4
<1> QED
  BY <1>8, <1>9, <1>10 DEF Slotted

(* A partition turned away leaves them alone.                              *)
LEMMA RefusedSlotted ==
    ASSUME NEW w \in Works, NEW entries, Slotted(w, entries), NEW code \in Codes,
           NEW x \in Works, x = [w EXCEPT !.slots = Append(w.slots, Rejected(code))]
    PROVE  Slotted(x, entries)
<1> DEFINE n == Len(w.slots) + 1
<1>1. /\ w.slots \in Seq(Slots) /\ Len(w.slots) \in Nat /\ Rejected(code) \in Slots
      /\ Rejected(code).kind = "refused"
  BY DEF Works, Rejected, Slots, Refusals
<1>2. x.bundles = w.bundles /\ x.nth = w.nth /\ x.slots = Append(w.slots, Rejected(code))
  BY DEF Works
<1>3. /\ Len(x.slots) = n /\ x.slots[n].kind = "refused"
      /\ \A i \in 1 .. Len(w.slots) : i \in 1 .. n /\ x.slots[i] = w.slots[i]
      /\ \A i \in 1 .. n : i = n \/ i \in 1 .. Len(w.slots)
  BY <1>1, <1>2
<1> HIDE DEF n
<1>4. \A i \in 1 .. Len(x.slots) : x.slots[i].kind = "pushed" =>
         i \in 1 .. Len(w.slots) /\ x.slots[i] = w.slots[i]
  BY <1>3
<1>5. ASSUME NEW i \in 1 .. Len(x.slots), x.slots[i].kind = "pushed"
      PROVE  /\ x.slots[i].bundle \in 1 .. Len(x.bundles)
             /\ x.slots[i].local \in 1 .. Len(x.bundles[x.slots[i].bundle].regions)
             /\ x.bundles[x.slots[i].bundle].regions[x.slots[i].local]
                   = [part |-> x.slots[i].part, batch |-> <<x.nth, i>>]
             /\ x.slots[i].part = entries[i].part
  <2>1. i \in 1 .. Len(w.slots) /\ x.slots[i] = w.slots[i]
    BY <1>4, <1>5
  <2>2. /\ w.slots[i].bundle \in 1 .. Len(w.bundles)
        /\ w.slots[i].local \in 1 .. Len(w.bundles[w.slots[i].bundle].regions)
        /\ w.bundles[w.slots[i].bundle].regions[w.slots[i].local]
              = [part |-> w.slots[i].part, batch |-> <<w.nth, i>>]
        /\ w.slots[i].part = entries[i].part
    BY <2>1, <1>5 DEF Slotted
  <2> QED
    BY <2>1, <2>2, <1>2
<1>6. \A b \in 1 .. Len(x.bundles) : \A j \in 1 .. Len(x.bundles[b].regions) :
          \E i \in 1 .. Len(x.slots) :
              x.slots[i].kind = "pushed" /\ x.slots[i].bundle = b /\ x.slots[i].local = j
  <2>1. SUFFICES ASSUME NEW b \in 1 .. Len(w.bundles), NEW j \in 1 .. Len(w.bundles[b].regions)
                 PROVE  \E i \in 1 .. Len(x.slots) :
                           x.slots[i].kind = "pushed" /\ x.slots[i].bundle = b /\ x.slots[i].local = j
    BY <1>2, SMTT(40)
  <2>2. PICK i \in 1 .. Len(w.slots) :
           w.slots[i].kind = "pushed" /\ w.slots[i].bundle = b /\ w.slots[i].local = j
    BY SMTT(40) DEF Slotted
  <2> QED
    BY <2>2, <1>3
<1>7. \A i, k \in 1 .. Len(x.slots) :
          (/\ x.slots[i].kind = "pushed" /\ x.slots[k].kind = "pushed"
           /\ x.slots[i].part = x.slots[k].part) => i = k
  BY <1>4 DEF Slotted
<1> QED
  BY <1>5, <1>6, <1>7 DEF Slotted

(* Nothing of a request still gathered is in the log.                      *)
LEMMA BuildingSound ==
    ASSUME NEW w \in Works, NEW x \in Works, NEW l, NEW a, NEW s, WorkSound(w, l, a, s),
           w.pc = "building", x.pc = w.pc, x.nth = w.nth, x.at = w.at, x.outcomes = w.outcomes,
           Slotted(x, a[w.nth].entries)
    PROVE  WorkSound(x, l, a, s)
<1>1. /\ w.nth \in 1 .. Len(a) /\ Shaped(w) /\ Flowed(w, l)
  BY DEF WorkSound
<1>2. w.at = 1 /\ Len(w.outcomes) = 0
  BY <1>1 DEF Shaped
<1>3. Len(x.bundles) \in Nat
  BY DEF Works
<1>4. Shaped(x)
  BY <1>2, <1>3 DEF Shaped
<1>5. \A at \in Log(l) : at[2].batch[1] # w.nth
  <2>1. \A b \in 1 .. Len(w.bundles) : ~(b < w.at)
    BY <1>2
  <2> QED
    BY <1>1, <2>1 DEF Flowed
<1>6. Flowed(x, l)
  BY <1>5 DEF Flowed
<1>7. OutcomesTrue(x, l, s)
  BY <1>2 DEF OutcomesTrue
<1> QED
  BY <1>1, <1>4, <1>6, <1>7 DEF WorkSound

-----------------------------------------------------------------------------
(* What a step of one handler leaves as it was.                            *)

LEMMA NumbersKeep ==
    ASSUME ProduceInv, NEW h \in Handler, NEW x \in Works, work' = [work EXCEPT ![h] = x],
           work[h].pc # "idle", x.nth = work[h].nth, UNCHANGED <<asked, replies>>
    PROVE  NumbersOnce' /\ RepliesPast'
<1>1. /\ \A g \in Handler : g # h => work'[g] = work[g]
      /\ work'[h] = x
  BY DEF ProduceInv, ProduceTypes
<1>2. \A g \in Handler : work'[g].nth = work[g].nth /\ (work'[g].pc # "idle" => work[g].pc # "idle")
  BY <1>1
<1>3. NumbersOnce /\ RepliesPast
  BY DEF ProduceInv, ProduceSound, Numbered
<1>4. NumbersOnce'
  BY <1>2, <1>3 DEF NumbersOnce
<1>5. RepliesPast'
  BY <1>2, <1>3 DEF RepliesPast
<1> QED
  BY <1>4, <1>5

LEMMA NumberedKeeps ==
    ASSUME ProduceInv, NEW h \in Handler, NEW x \in Works, work' = [work EXCEPT ![h] = x],
           work[h].pc # "idle", x.nth = work[h].nth, UNCHANGED <<committed, asked, seen, replies>>
    PROVE  Numbered'
<1>1. NumbersOnce' /\ RepliesPast'
  BY NumbersKeep
<1>2. LogNumbered /\ BatchesOnce /\ SeenBounded
  BY DEF ProduceInv, ProduceSound, Numbered
<1>3. LogNumbered' /\ BatchesOnce' /\ SeenBounded'
  BY <1>2 DEF LogNumbered, BatchesOnce, SeenBounded
<1> QED
  BY <1>1, <1>3 DEF Numbered

LEMMA NamedKeeps ==
    ASSUME ProduceInv, NEW h \in Handler, NEW x \in Works, work' = [work EXCEPT ![h] = x],
           x.pc \notin Naming, UNCHANGED <<put, namer>>
    PROVE  Named'
<1>1. /\ \A g \in Handler : g # h => work'[g] = work[g]
      /\ work'[h] = x
  BY DEF ProduceInv, ProduceTypes
<1>2. \A g \in Handler : work'[g].pc \in Naming => work'[g] = work[g]
  BY <1>1
<1>3. KeysPast /\ NamesOnce /\ NotYetPut /\ PutAsNamed
  BY DEF ProduceInv, ProduceSound, Named
<1>4. KeysPast'
  BY <1>2, <1>3 DEF KeysPast, Past
<1>5. NamesOnce'
  BY <1>2, <1>3 DEF NamesOnce
<1>6. NotYetPut' /\ PutAsNamed'
  BY <1>2, <1>3 DEF NotYetPut, PutAsNamed, Naming
<1> QED
  BY <1>4, <1>5, <1>6 DEF Named

LEMMA WorksKeep ==
    ASSUME ProduceInv, NEW h \in Handler, NEW x \in Works, work' = [work EXCEPT ![h] = x],
           WorkSound(x, committed, asked, seen[h]), UNCHANGED <<committed, asked, seen>>
    PROVE  WorksSound' /\ work' \in [Handler -> Works]
<1>1. /\ \A g \in Handler : g # h => work'[g] = work[g]
      /\ work'[h] = x /\ work' \in [Handler -> Works]
  BY DEF ProduceInv, ProduceTypes
<1>2. ASSUME NEW g \in Handler
      PROVE  WorkSound(work'[g], committed, asked, seen[g])
  <2>1. WorkSound(work[g], committed, asked, seen[g])
    BY DEF ProduceInv, ProduceSound, WorksSound
  <2> QED
    BY <2>1, <1>1
<1> QED
  BY <1>1, <1>2 DEF WorksSound

(* AnswersHold of one answer, with the log and the requests as parameters. *)
AnswerTrue(l, o, batch, part) ==
    /\ Cardinality({at \in Log(l) : at[2].batch = batch}) <= 1
    /\ o.kind = "assigned" =>
          \E at \in Log(l) : at[2].batch = batch /\ at[2].part = part
                             /\ o.offset = EndIn(l, part, at[1] - 1)
    /\ o.kind = "refused" /\ o.code \notin Retriable =>
          \A at \in Log(l) : at[2].batch # batch
Answered(r, l, a) ==
    \A i \in 1 .. Len(r.answers) :
        AnswerTrue(l, r.answers[i], <<r.nth, i>>, a[r.nth].entries[i].part)

LEMMA AnswersAre ==
    AnswersHold <=> \A r \in replies : Answered(r, committed, asked)
<1>1. \A batch : Places(batch) = {at \in Log(committed) : at[2].batch = batch}
  BY DEF Places, Log, Spans, SpansIn
<1>2. \A part, n : EndBefore(part, n) = EndIn(committed, part, n)
  BY DEF EndBefore, EndIn, Spans, SpansIn
<1>3. ASSUME NEW o, NEW batch, NEW part
      PROVE  AnswerTrue(committed, o, batch, part) <=>
                /\ Cardinality(Places(batch)) <= 1
                /\ o.kind = "assigned" =>
                       \E at \in Places(batch) :
                           at[2].part = part /\ o.offset = EndBefore(part, at[1] - 1)
                /\ o.kind = "refused" /\ o.code \notin Retriable => Places(batch) = {}
  <2>1. Places(batch) = {at \in Log(committed) : at[2].batch = batch}
    BY <1>1
  <2>2. (\E at \in Places(batch) : at[2].part = part /\ o.offset = EndBefore(part, at[1] - 1))
         <=> \E at \in Log(committed) : at[2].batch = batch /\ at[2].part = part
                             /\ o.offset = EndIn(committed, part, at[1] - 1)
    BY <2>1, <1>2
  <2>3. Places(batch) = {} <=> \A at \in Log(committed) : at[2].batch # batch
    BY <2>1
  <2> QED
    BY <2>1, <2>2, <2>3 DEF AnswerTrue
<1> QED
  BY <1>3, SMTT(40) DEF AnswersHold, Answered

LEMMA AnswersAreNext ==
    AnswersHold' <=> \A r \in replies' : Answered(r, committed', asked')
<1>1. \A batch : Places(batch)' = {at \in Log(committed') : at[2].batch = batch}
  BY DEF Places, Log, Spans, SpansIn
<1>2. \A part, n : EndBefore(part, n)' = EndIn(committed', part, n)
  BY DEF EndBefore, EndIn, Spans, SpansIn
<1>3. ASSUME NEW o, NEW batch, NEW part
      PROVE  AnswerTrue(committed', o, batch, part) <=>
                /\ Cardinality(Places(batch)') <= 1
                /\ o.kind = "assigned" =>
                       \E at \in Places(batch)' :
                           at[2].part = part /\ o.offset = EndBefore(part, at[1] - 1)'
                /\ o.kind = "refused" /\ o.code \notin Retriable => Places(batch)' = {}
  <2>1. Places(batch)' = {at \in Log(committed') : at[2].batch = batch}
    BY <1>1
  <2>2. (\E at \in Places(batch)' : at[2].part = part /\ o.offset = EndBefore(part, at[1] - 1)')
         <=> \E at \in Log(committed') : at[2].batch = batch /\ at[2].part = part
                             /\ o.offset = EndIn(committed', part, at[1] - 1)
    BY <2>1, <1>2
  <2>3. Places(batch)' = {} <=> \A at \in Log(committed') : at[2].batch # batch
    BY <2>1
  <2> QED
    BY <2>1, <2>2, <2>3 DEF AnswerTrue
<1> QED
  BY <1>3, SMTT(40) DEF AnswersHold, Answered

(* What the log and the answers say holds while neither changes.           *)
LEMMA AnswersKeep ==
    ASSUME AnswersHold, UNCHANGED <<committed, asked, replies>>
    PROVE  AnswersHold'
<1>1. \A r \in replies : Answered(r, committed, asked)
  BY AnswersAre
<1>2. \A r \in replies' : Answered(r, committed', asked')
  BY <1>1
<1> QED
  BY <1>2, AnswersAreNext

LEMMA StoredKeeps ==
    ASSUME CommittedStored, UNCHANGED <<committed, put>>
    PROVE  CommittedStored'
BY DEF CommittedStored

-----------------------------------------------------------------------------
(* One lemma for each action.                                              *)

LEMMA GatherKeeps ==
    ASSUME ProduceInv, NEW h \in Handler, NEW sealed \in BOOLEAN, Gather(h, sealed)
    PROVE  ProduceInv'
<1> DEFINE w == work[h]
           r == asked[w.nth]
           entry == r.entries[Len(w.slots) + 1]
           code == Turned(w, r, entry.part)
           x == work'[h]
<1>1. /\ w.pc = "building" /\ Len(w.slots) < Len(r.entries)
      /\ UNCHANGED <<put, committed, namer, asked, seen, replies>>
  BY DEF Gather, RequestOf
<1>2. /\ w \in Works /\ WorkSound(w, committed, asked, seen[h]) /\ CommittedStored /\ AnswersHold
      /\ work \in [Handler -> Works] /\ asked \in Seq(Request)
  BY DEF ProduceInv, ProduceTypes, ProduceSound, WorksSound
<1>3. w.nth \in 1 .. Len(asked) /\ Slotted(w, r.entries)
  BY <1>1, <1>2 DEF WorkSound
<1>4. r \in Request
  BY <1>2, <1>3
<1>5. code \in Codes
  BY <1>1, <1>2, <1>4, TurnedTyped
<1>6. \/ \E c \in Codes : work' = [work EXCEPT ![h] = [w EXCEPT !.slots = Append(w.slots, Rejected(c))]]
      \/ code = "NONE" /\ work' = [work EXCEPT ![h] = Pushed(w, entry.part)]
  <2>1. "INVALID_REQUEST" \in Codes
    BY DEF Codes
  <2> QED
    BY <1>5, <2>1 DEF Gather, RequestOf
<1>7. /\ x \in Works /\ work' = [work EXCEPT ![h] = x]
      /\ x.pc = w.pc /\ x.nth = w.nth /\ x.at = w.at /\ x.outcomes = w.outcomes
      /\ Slotted(x, r.entries)
  <2>1. CASE \E c \in Codes : work' = [work EXCEPT ![h] = [w EXCEPT !.slots = Append(w.slots, Rejected(c))]]
    <3>1. PICK c \in Codes : work' = [work EXCEPT ![h] = [w EXCEPT !.slots = Append(w.slots, Rejected(c))]]
      BY <2>1
    <3>2. x = [w EXCEPT !.slots = Append(w.slots, Rejected(c))]
      BY <3>1, <1>2
    <3>3. w.slots \in Seq(Slots) /\ Rejected(c) \in Slots
      BY <1>2 DEF Works, Rejected, Slots, Refusals
    <3>4. x \in Works
      <4> DEFINE slots == Append(w.slots, Rejected(c))
      <4>1. slots \in Seq(Slots)
        BY <3>3
      <4>2. x = [w EXCEPT !.slots = slots]
        BY <3>2
      <4> HIDE DEF slots, x, w
      <4> QED
        BY <4>1, <4>2, <1>2 DEF Works
    <3>5. x.pc = w.pc /\ x.nth = w.nth /\ x.at = w.at /\ x.outcomes = w.outcomes
      BY <3>2, <1>2 DEF Works
    <3>6. Slotted(x, r.entries)
      BY <3>2, <3>4, <1>2, <1>3, RefusedSlotted
    <3> QED
      BY <3>1, <3>2, <3>4, <3>5, <3>6
  <2>2. CASE code = "NONE" /\ work' = [work EXCEPT ![h] = Pushed(w, entry.part)]
    <3>1. entry.part \in Hosted /\ ~AlreadyPushed(w, entry.part)
      BY <2>2, <1>2, <1>4, TurnedNone
    <3>2. x = Pushed(w, entry.part)
      BY <2>2, <1>2
    <3>3. /\ x \in Works
          /\ \E b \in Nat : \E old \in Seq(Region) : PushedTo(w, x, entry.part, b, old)
      BY <3>1, <3>2, <1>2, PushedIs
    <3>4. PICK b \in Nat : \E old \in Seq(Region) : PushedTo(w, x, entry.part, b, old)
      BY <3>3
    <3>5. PICK old \in Seq(Region) : PushedTo(w, x, entry.part, b, old)
      BY <3>4
    <3>6. Slotted(x, r.entries)
      BY <3>1, <3>3, <3>5, <1>2, <1>3, PushedSlotted
    <3>7. x.pc = w.pc /\ x.nth = w.nth /\ x.at = w.at /\ x.outcomes = w.outcomes
      BY <3>5 DEF PushedTo
    <3> QED
      BY <2>2, <3>2, <3>3, <3>6, <3>7
  <2> QED
    BY <1>6, <2>1, <2>2
<1> HIDE DEF x, w, r, entry, code
<1>8. WorkSound(x, committed, asked, seen[h])
  BY <1>1, <1>2, <1>7, BuildingSound DEF w, r
<1>9. WorksSound' /\ work' \in [Handler -> Works]
  BY <1>1, <1>7, <1>8, WorksKeep
<1>10. Numbered'
  BY <1>1, <1>7, NumberedKeeps DEF w
<1>11. Named'
  BY <1>1, <1>7, NamedKeeps DEF Naming
<1>12. CommittedStored' /\ AnswersHold'
  BY <1>1, <1>2, AnswersKeep, StoredKeeps
<1>13. ProduceTypes'
  BY <1>1, <1>9 DEF ProduceInv, ProduceTypes
<1> QED
  BY <1>9, <1>10, <1>11, <1>12, <1>13 DEF ProduceInv, ProduceSound

LEMMA IdleTyped == Idle \in Works /\ \A l, a, s : WorkSound(Idle, l, a, s)
<1>1. <<>> \in Seq(Slots) /\ <<>> \in Seq(OpenBundles) /\ <<>> \in Seq(Seq(Outcomes))
  OBVIOUS
<1>2. <<0, 0>> \in Keys /\ "idle" \in ProducePcs
  BY DEF Keys, ProducePcs
<1>3. Idle \in Works
  BY <1>1, <1>2 DEF Idle, Works
<1>4. Idle.pc = "idle" /\ Idle.outcomes = <<>>
  BY DEF Idle
<1> QED
  BY <1>3, <1>4 DEF WorkSound

LEMMA ReceiveKeeps ==
    ASSUME ProduceInv, NEW h \in Handler, NEW r \in Request, Receive(h, r)
    PROVE  ProduceInv'
<1> DEFINE n == Len(asked) + 1
           x == [Idle EXCEPT !.pc = "building", !.nth = n]
<1>1. /\ work[h].pc = "idle" /\ asked' = Append(asked, r) /\ work' = [work EXCEPT ![h] = x]
      /\ UNCHANGED <<put, committed, namer, seen, replies>>
  BY DEF Receive
<1>2. /\ WorksSound /\ Numbered /\ Named /\ CommittedStored /\ AnswersHold
      /\ work \in [Handler -> Works] /\ asked \in Seq(Request)
  BY DEF ProduceInv, ProduceTypes, ProduceSound
<1>3. /\ asked' \in Seq(Request) /\ Len(asked) \in Nat /\ Len(asked') = n
      /\ \A i \in 1 .. Len(asked) : i \in 1 .. n /\ asked'[i] = asked[i] /\ i # n
      /\ n \in 1 .. n /\ n \in Nat
  BY <1>1, <1>2
<1>4. /\ x \in Works /\ x.pc = "building" /\ x.nth = n /\ x.slots = <<>> /\ x.bundles = <<>>
      /\ x.at = 1 /\ x.outcomes = <<>>
  <2>1. /\ Idle.slots = <<>> /\ Idle.bundles = <<>> /\ Idle.at = 1 /\ Idle.outcomes = <<>>
    BY DEF Idle
  <2>2. x \in Works
    BY <1>3, IdleTyped DEF Works, ProducePcs
  <2> QED
    BY <2>1, <2>2, IdleTyped DEF Works
<1> HIDE DEF n, x
<1>5. /\ \A g \in Handler : g # h => work'[g] = work[g]
      /\ work'[h] = x /\ work' \in [Handler -> Works]
  BY <1>1, <1>2, <1>4
<1>6. \A at \in Log(committed) : at[2].batch[1] # n
  BY <1>2, <1>3 DEF Numbered, LogNumbered
<1>7. WorkSound(x, committed, asked', seen[h])
  <2>1. Shaped(x)
    BY <1>4 DEF Shaped
  <2>2. Slotted(x, asked'[n].entries)
    BY <1>4 DEF Slotted
  <2>3. Flowed(x, committed)
    BY <1>4, <1>6 DEF Flowed
  <2>4. OutcomesTrue(x, committed, seen[h])
    BY <1>4 DEF OutcomesTrue
  <2> QED
    BY <1>3, <1>4, <2>1, <2>2, <2>3, <2>4 DEF WorkSound
<1>8. WorksSound'
  <2>1. ASSUME NEW g \in Handler
        PROVE  WorkSound(work'[g], committed', asked', seen'[g])
    <3>1. WorkSound(work[g], committed, asked, seen[g])
      BY <1>2 DEF WorksSound
    <3>2. WorkSound(work[g], committed, Append(asked, r), seen[g])
      BY <3>1, <1>2, AskedKeeps
    <3> QED
      BY <3>2, <1>1, <1>5, <1>7
  <2> QED
    BY <2>1 DEF WorksSound
<1>9. ASSUME NEW g \in Handler, work'[g].pc # "idle", g # h
      PROVE  work'[g] = work[g] /\ work[g].nth \in 1 .. Len(asked) /\ work[g].nth # n
  <2>1. work'[g] = work[g]
    BY <1>5, <1>9
  <2>2. WorkSound(work[g], committed, asked, seen[g])
    BY <1>2 DEF WorksSound
  <2>3. work[g].nth \in 1 .. Len(asked)
    BY <2>1, <2>2, <1>9 DEF WorkSound
  <2> QED
    BY <2>1, <2>3, <1>3
<1>10. Numbered'
  <2>1. NumbersOnce'
    BY <1>2, <1>4, <1>5, <1>9 DEF Numbered, NumbersOnce
  <2>2. RepliesPast'
    <3>1. ASSUME NEW y \in replies
          PROVE  /\ y.nth \in 1 .. Len(asked')
                 /\ \A g \in Handler : work'[g].pc # "idle" => work'[g].nth # y.nth
      <4>1. y.nth \in 1 .. Len(asked) /\ \A g \in Handler : work[g].pc # "idle" => work[g].nth # y.nth
        BY <1>2 DEF Numbered, RepliesPast
      <4>2. y.nth \in 1 .. n /\ y.nth # n
        BY <4>1, <1>3
      <4>3. ASSUME NEW g \in Handler, work'[g].pc # "idle"
            PROVE  work'[g].nth # y.nth
        <5>1. CASE g = h
          BY <5>1, <4>2, <1>4, <1>5
        <5>2. CASE g # h
          BY <5>2, <4>1, <4>3, <1>5
        <5> QED
          BY <5>1, <5>2
      <4> QED
        BY <4>2, <4>3, <1>3
    <3> QED
      BY <3>1, <1>1 DEF RepliesPast
  <2>3. LogNumbered' /\ BatchesOnce' /\ SeenBounded'
    BY <1>1, <1>2, <1>3 DEF Numbered, LogNumbered, BatchesOnce, SeenBounded
  <2> QED
    BY <2>1, <2>2, <2>3 DEF Numbered
<1>11. Named'
  BY <1>1, <1>4, NamedKeeps DEF Naming
<1>12. CommittedStored'
  BY <1>1, <1>2, StoredKeeps
<1>13. AnswersHold'
  <2>1. \A y \in replies : Answered(y, committed, asked)
    BY <1>2, AnswersAre
  <2>2. \A y \in replies : y.nth \in 1 .. Len(asked)
    BY <1>2 DEF Numbered, RepliesPast
  <2>3. \A y \in replies : asked'[y.nth] = asked[y.nth]
    BY <2>2, <1>3
  <2>4. \A y \in replies' : Answered(y, committed', asked')
    BY <2>1, <2>3, <1>1 DEF Answered
  <2> QED
    BY <2>4, AnswersAreNext
<1>14. ProduceTypes'
  BY <1>1, <1>3, <1>5 DEF ProduceInv, ProduceTypes
<1> QED
  BY <1>8, <1>10, <1>11, <1>12, <1>13, <1>14 DEF ProduceInv, ProduceSound

(* A step of a request that leaves what it gathered and was told.          *)
LEMMA SameSlotted ==
    ASSUME NEW w \in Works, NEW x \in Works, NEW entries, Slotted(w, entries),
           x.nth = w.nth, x.slots = w.slots, x.bundles = w.bundles
    PROVE  Slotted(x, entries)
BY SMTT(40) DEF Slotted

LEMMA SameSound ==
    ASSUME NEW w \in Works, NEW x \in Works, NEW l, NEW a, NEW s, WorkSound(w, l, a, s),
           w.pc \in {"building", "putting", "committing", "flushed"},
           x.pc \in {"putting", "committing"},
           x.nth = w.nth, x.slots = w.slots, x.bundles = w.bundles, x.at = w.at,
           x.outcomes = w.outcomes, x.at <= Len(x.bundles)
    PROVE  WorkSound(x, l, a, s)
<1>1. /\ w.nth \in 1 .. Len(a) /\ Shaped(w) /\ Slotted(w, a[w.nth].entries)
      /\ Flowed(w, l) /\ OutcomesTrue(w, l, s)
  BY DEF WorkSound
<1>2. Shaped(x)
  BY <1>1 DEF Shaped
<1>3. Slotted(x, a[x.nth].entries)
  <2>1. Slotted(w, a[x.nth].entries)
    BY <1>1
  <2> QED
    BY <2>1, SameSlotted
<1>4. Flowed(x, l)
  BY <1>1 DEF Flowed
<1>5. OutcomesTrue(x, l, s)
  BY <1>1 DEF OutcomesTrue
<1> QED
  BY <1>1, <1>2, <1>3, <1>4, <1>5 DEF WorkSound

LEMMA NextKeyKeeps ==
    ASSUME ProduceInv, NEW h \in Handler, NextKey(h)
    PROVE  ProduceInv'
<1> DEFINE w == work[h]
           k == <<namer.writer, namer.next>>
           x == [w EXCEPT !.pc = "putting", !.key = k]
<1>1. /\ w.pc \in {"building", "flushed"} /\ w.at <= Len(w.bundles)
      /\ namer' = [namer EXCEPT !.next = namer.next + 1]
      /\ UNCHANGED <<put, committed, asked, seen, replies>>
  BY DEF NextKey
<1>2. /\ w \in Works /\ WorkSound(w, committed, asked, seen[h]) /\ CommittedStored /\ AnswersHold
      /\ Named /\ work \in [Handler -> Works] /\ namer \in [writer : Nat, next : Nat]
  BY DEF ProduceInv, ProduceTypes, ProduceSound, WorksSound
<1>3. work' = [work EXCEPT ![h] = x]
  BY <1>2 DEF NextKey
<1>4. /\ x \in Works /\ x.pc = "putting" /\ x.key = k /\ x.nth = w.nth /\ x.slots = w.slots
      /\ x.bundles = w.bundles /\ x.at = w.at /\ x.outcomes = w.outcomes
  <2>1. k \in Keys
    BY <1>2 DEF Keys
  <2> HIDE DEF k, w
  <2> QED
    BY <2>1, <1>2 DEF Works, ProducePcs
<1> HIDE DEF x, w
<1>5. WorkSound(x, committed, asked, seen[h])
  BY <1>1, <1>2, <1>4, SameSound
<1>6. WorksSound' /\ work' \in [Handler -> Works]
  BY <1>1, <1>3, <1>4, <1>5, WorksKeep
<1>7. Numbered'
  BY <1>1, <1>3, <1>4, NumberedKeeps DEF w
<1>8. /\ namer' \in [writer : Nat, next : Nat] /\ namer'.writer = namer.writer
      /\ namer'.next = namer.next + 1
  BY <1>1, <1>2
<1>9. Named'
  <2>1. KeysPast /\ NamesOnce /\ NotYetPut /\ PutAsNamed
    BY <1>2 DEF Named
  <2>2. \A c \in Keys : Past(c, namer) => Past(c, namer') /\ c # k
    BY <1>2, <1>8 DEF Past, Keys
  <2>3. Past(k, namer')
    BY <1>2, <1>8 DEF Past
  <2>4. /\ \A g \in Handler : g # h => work'[g] = work[g]
        /\ work'[h] = x
    BY <1>2, <1>3
  <2>5. /\ \A c \in DOMAIN put : c \in Keys
        /\ \A g \in Handler : work[g].key \in Keys
    BY DEF ProduceInv, ProduceTypes, Works
  <2>6. \A c \in DOMAIN put : Past(c, namer)
    BY <2>1 DEF KeysPast
  <2>7. \A g \in Handler : g # h /\ work'[g].pc \in Naming => Past(work[g].key, namer)
    BY <2>1, <2>4 DEF KeysPast
  <2> HIDE DEF k
  <2>8. KeysPast'
    <3>1. \A c \in DOMAIN put : Past(c, namer')
      BY <2>2, <2>5, <2>6
    <3>2. \A g \in Handler : work'[g].pc \in Naming => Past(work'[g].key, namer')
      BY <2>2, <2>3, <2>4, <2>5, <2>7, <1>4
    <3> QED
      BY <3>1, <3>2, <1>1 DEF KeysPast
  <2>9. NamesOnce'
    <3>1. SUFFICES ASSUME NEW f \in Handler, NEW g \in Handler, work'[f].pc \in Naming,
                          work'[g].pc \in Naming, work'[f].key = work'[g].key
                   PROVE  f = g
      BY DEF NamesOnce
    <3>2. CASE f # h /\ g # h
      BY <3>1, <3>2, <2>1, <2>4 DEF NamesOnce
    <3>3. CASE f = h /\ g # h
      BY <3>1, <3>3, <2>2, <2>4, <2>5, <2>7, <1>4
    <3>4. CASE g = h /\ f # h
      BY <3>1, <3>4, <2>2, <2>4, <2>5, <2>7, <1>4
    <3> QED
      BY <3>2, <3>3, <3>4
  <2>10. NotYetPut'
    <3>1. k \notin DOMAIN put
      BY <2>2, <2>5, <2>6
    <3> QED
      BY <3>1, <2>1, <2>4, <1>1, <1>4 DEF NotYetPut
  <2>11. PutAsNamed'
    BY <2>1, <2>4, <1>1, <1>4 DEF PutAsNamed
  <2> QED
    BY <2>8, <2>9, <2>10, <2>11 DEF Named
<1>10. CommittedStored' /\ AnswersHold'
  BY <1>1, <1>2, AnswersKeep, StoredKeeps
<1>11. ProduceTypes'
  BY <1>1, <1>6, <1>8 DEF ProduceInv, ProduceTypes
<1> QED
  BY <1>6, <1>7, <1>9, <1>10, <1>11 DEF ProduceInv, ProduceSound

(* A new object joins the store under a name nothing has.                  *)
LEMMA StoredGrows ==
    ASSUME ProduceInv, NEW h \in Handler, work[h].pc = "putting", put' = Stored(h)
    PROVE  /\ DOMAIN put' = DOMAIN put \cup {work[h].key} /\ work[h].key \notin DOMAIN put
           /\ put'[work[h].key] = work[h].bundles[work[h].at].regions
           /\ \A k \in DOMAIN put : put'[k] = put[k]
           /\ DOMAIN put' \subseteq Keys /\ put' \in [DOMAIN put' -> Seq(Region)]
<1> DEFINE w == work[h]
<1>1. /\ w \in Works /\ Shaped(w) /\ DOMAIN put \subseteq Keys /\ put \in [DOMAIN put -> Seq(Region)]
      /\ w.key \notin DOMAIN put
  BY DEF ProduceInv, ProduceTypes, ProduceSound, WorksSound, WorkSound, Named, NotYetPut
<1>2. w.key \in Keys /\ w.bundles[w.at].regions \in Seq(Region)
  <2>1. w.bundles \in Seq(OpenBundles) /\ w.at \in 1 .. Len(w.bundles)
    BY <1>1 DEF Works, Shaped
  <2>2. w.bundles[w.at] \in OpenBundles
    BY <2>1
  <2> QED
    BY <1>1, <2>2 DEF Works, OpenBundles
<1> QED
  BY <1>1, <1>2 DEF Stored

LEMMA NamedAfterPut ==
    ASSUME ProduceInv, NEW h \in Handler, work[h].pc = "putting",
           put' = Stored(h) \/ put' = put, UNCHANGED namer,
           NEW x \in Works, work' = [work EXCEPT ![h] = x],
           \/ x.pc \notin Naming
           \/ /\ x.pc = "committing" /\ put' = Stored(h) /\ x.key = work[h].key
              /\ x.bundles = work[h].bundles /\ x.at = work[h].at
    PROVE  Named'
<1>1. KeysPast /\ NamesOnce /\ NotYetPut /\ PutAsNamed
  BY DEF ProduceInv, ProduceSound, Named
<1>2. /\ \A g \in Handler : g # h => work'[g] = work[g]
      /\ work'[h] = x
  BY DEF ProduceInv, ProduceTypes
<1>3. /\ \A k \in DOMAIN put : k \in DOMAIN put' /\ put'[k] = put[k]
      /\ \A k \in DOMAIN put' : k \in DOMAIN put \/ k = work[h].key
  BY StoredGrows
<1>4. \A g \in Handler : work'[g].pc \in Naming => work[g].pc \in Naming /\ work'[g].key = work[g].key
  BY <1>2 DEF Naming
<1>5. KeysPast'
  <2>1. Past(work[h].key, namer)
    BY <1>1 DEF KeysPast, Naming
  <2>2. \A k \in DOMAIN put' : Past(k, namer)
    BY <2>1, <1>1, <1>3 DEF KeysPast
  <2>3. \A g \in Handler : work'[g].pc \in Naming => Past(work'[g].key, namer)
    BY <1>1, <1>4 DEF KeysPast
  <2> QED
    BY <2>2, <2>3 DEF KeysPast
<1>6. NamesOnce'
  BY <1>1, <1>4 DEF NamesOnce
<1>7. NotYetPut'
  <2>1. ASSUME NEW g \in Handler, work'[g].pc = "putting"
        PROVE  work'[g].key \notin DOMAIN put'
    <3>1. g # h /\ work'[g] = work[g]
      BY <2>1, <1>2 DEF Naming
    <3>2. work[g].key \notin DOMAIN put
      BY <2>1, <3>1, <1>1 DEF NotYetPut
    <3>3. work[g].key # work[h].key
      BY <2>1, <3>1, <1>1 DEF NamesOnce, Naming
    <3> QED
      BY <3>1, <3>2, <3>3, <1>3
  <2> QED
    BY <2>1 DEF NotYetPut
<1>8. PutAsNamed'
  <2>1. ASSUME NEW g \in Handler, work'[g].pc = "committing"
        PROVE  /\ work'[g].key \in DOMAIN put'
               /\ put'[work'[g].key] = work'[g].bundles[work'[g].at].regions
    <3>1. CASE g # h
      <4>1. work'[g] = work[g]
        BY <3>1, <1>2
      <4>2. work[g].key \in DOMAIN put /\ put[work[g].key] = work[g].bundles[work[g].at].regions
        BY <2>1, <4>1, <1>1 DEF PutAsNamed
      <4> QED
        BY <4>1, <4>2, <1>3
    <3>2. CASE g = h
      <4>1. /\ put' = Stored(h) /\ x.key = work[h].key
            /\ x.bundles = work[h].bundles /\ x.at = work[h].at
        BY <2>1, <3>2, <1>2 DEF Naming
      <4>2. work[h].key \in DOMAIN put' /\ put'[work[h].key] = work[h].bundles[work[h].at].regions
        BY <4>1, StoredGrows
      <4> QED
        BY <3>2, <4>1, <4>2, <1>2
    <3> QED
      BY <3>1, <3>2
  <2> QED
    BY <2>1 DEF PutAsNamed
<1> QED
  BY <1>5, <1>6, <1>7, <1>8 DEF Named

(* An object already there stays as it is, so what names it still does.    *)
LEMMA StoredAfterPut ==
    ASSUME CommittedStored, UNCHANGED committed,
           \A k \in DOMAIN put : k \in DOMAIN put' /\ put'[k] = put[k]
    PROVE  CommittedStored'
<1>1. SUFFICES ASSUME NEW i \in 1 .. Len(committed), NEW span \in committed[i].spans
               PROVE  /\ committed[i].key \in DOMAIN put'
                      /\ \E j \in DOMAIN put'[committed[i].key] :
                            /\ put'[committed[i].key][j] = span
                            /\ \A k \in DOMAIN put'[committed[i].key] :
                                  put'[committed[i].key][k].part = span.part => k = j
  BY DEF CommittedStored
<1>2. /\ committed[i].key \in DOMAIN put
      /\ \E j \in DOMAIN put[committed[i].key] :
            /\ put[committed[i].key][j] = span
            /\ \A k \in DOMAIN put[committed[i].key] :
                  put[committed[i].key][k].part = span.part => k = j
  BY DEF CommittedStored
<1>3. put'[committed[i].key] = put[committed[i].key] /\ committed[i].key \in DOMAIN put'
  BY <1>2
<1> QED
  BY <1>2, <1>3

LEMMA PutLandsKeeps ==
    ASSUME ProduceInv, NEW h \in Handler, PutLands(h)
    PROVE  ProduceInv'
<1> DEFINE w == work[h]
           x == [w EXCEPT !.pc = "committing"]
<1>1. /\ w.pc = "putting" /\ put' = Stored(h)
      /\ UNCHANGED <<committed, namer, asked, seen, replies>>
  BY DEF PutLands
<1>2. /\ w \in Works /\ WorkSound(w, committed, asked, seen[h]) /\ CommittedStored /\ AnswersHold
      /\ work \in [Handler -> Works]
  BY DEF ProduceInv, ProduceTypes, ProduceSound, WorksSound
<1>3. work' = [work EXCEPT ![h] = x]
  BY <1>2 DEF PutLands
<1>4. /\ x \in Works /\ x.pc = "committing" /\ x.key = w.key /\ x.nth = w.nth /\ x.slots = w.slots
      /\ x.bundles = w.bundles /\ x.at = w.at /\ x.outcomes = w.outcomes
  BY <1>2 DEF Works, ProducePcs
<1>5. w.at <= Len(w.bundles)
  BY <1>1, <1>2 DEF WorkSound, Shaped
<1> HIDE DEF x, w
<1>6. WorkSound(x, committed, asked, seen[h])
  BY <1>1, <1>2, <1>4, <1>5, SameSound
<1>7. WorksSound' /\ work' \in [Handler -> Works]
  BY <1>1, <1>3, <1>4, <1>6, WorksKeep
<1>8. Numbered'
  BY <1>1, <1>3, <1>4, NumberedKeeps DEF w
<1>9. Named'
  BY <1>1, <1>3, <1>4, NamedAfterPut DEF w
<1>10. /\ \A k \in DOMAIN put : k \in DOMAIN put' /\ put'[k] = put[k]
       /\ DOMAIN put' \subseteq Keys /\ put' \in [DOMAIN put' -> Seq(Region)]
  BY <1>1, StoredGrows DEF w
<1>11. CommittedStored' /\ AnswersHold'
  BY <1>1, <1>2, <1>10, AnswersKeep, StoredAfterPut
<1>12. ProduceTypes'
  BY <1>1, <1>7, <1>10 DEF ProduceInv, ProduceTypes
<1> QED
  BY <1>7, <1>8, <1>9, <1>11, <1>12 DEF ProduceInv, ProduceSound

-----------------------------------------------------------------------------
(* The log after a commit of w's bundle, whether it took effect or not.    *)
Grown(w, l, m) ==
    \/ m = l
    \/ \E e \in LogEntry :
          /\ m = Append(l, e)
          /\ \A y \in e.spans : \E j \in 1 .. Len(w.bundles[w.at].regions) :
                                    y = w.bundles[w.at].regions[j]

(* What there is in it.                                                    *)
LEMMA GrownPlaces ==
    ASSUME NEW w \in Works, NEW l \in Seq(LogEntry), NEW m, Grown(w, l, m), NEW at \in Log(m)
    PROVE  \/ at \in Log(l)
           \/ /\ at[1] = Len(l) + 1
              /\ \E j \in 1 .. Len(w.bundles[w.at].regions) : at[2] = w.bundles[w.at].regions[j]
<1>1. CASE m = l
  BY <1>1
<1>2. CASE m # l
  <2>1. PICK e \in LogEntry :
          /\ m = Append(l, e)
          /\ \A y \in e.spans : \E j \in 1 .. Len(w.bundles[w.at].regions) :
                                    y = w.bundles[w.at].regions[j]
    BY <1>2 DEF Grown
  <2>2. Log(m) = Log(l) \cup ({Len(l) + 1} \X e.spans)
    BY <2>1, LogGrows
  <2>3. CASE at \in {Len(l) + 1} \X e.spans
    <3>1. at[1] = Len(l) + 1 /\ at[2] \in e.spans
      BY <2>3
    <3> QED
      BY <3>1, <2>1
  <2> QED
    BY <2>2, <2>3
<1> QED
  BY <1>1, <1>2

(* It holds what it held, where it was.                                    *)
LEMMA GrownKeeps ==
    ASSUME NEW w \in Works, NEW l \in Seq(LogEntry), NEW m, Grown(w, l, m)
    PROVE  /\ m \in Seq(LogEntry) /\ Len(m) \in Nat /\ Len(l) \in Nat /\ Len(l) <= Len(m)
           /\ \A at \in Log(l) : at \in Log(m)
           /\ \A n \in 0 .. Len(l) : \A part : EndIn(m, part, n) = EndIn(l, part, n)
<1>0. Len(l) \in Nat
  OBVIOUS
<1>1. CASE m = l
  BY <1>0, <1>1
<1>2. CASE m # l
  <2>1. PICK e \in LogEntry : m = Append(l, e)
    BY <1>2 DEF Grown
  <2>2. Log(m) = Log(l) \cup ({Len(l) + 1} \X e.spans)
    BY <2>1, LogGrows
  <2>3. \A at \in Log(l) : at \in Log(m)
    BY <2>2
  <2>4. \A n \in 0 .. Len(l) : \A part : EndIn(m, part, n) = EndIn(l, part, n)
    BY <2>1, EndsKeep
  <2>5. m \in Seq(LogEntry) /\ Len(m) = Len(l) + 1
    BY <2>1
  <2> QED
    BY <1>0, <2>3, <2>4, <2>5
<1> QED
  BY <1>1, <1>2

(* Whoever is not of the request sees nothing new of his.                  *)
LEMMA GrownOthers ==
    ASSUME NEW w \in Works, NEW l \in Seq(LogEntry), NEW m, Grown(w, l, m), NEW a,
           w.at \in 1 .. Len(w.bundles), NEW entries, Slotted(w, entries),
           NEW v \in Works, NEW s \in Nat, WorkSound(v, l, a, s), v.pc # "idle" => v.nth # w.nth
    PROVE  WorkSound(v, m, a, s)
<1>1. CASE m = l
  BY <1>1
<1>2. CASE m # l
  <2>1. PICK e \in LogEntry :
          /\ m = Append(l, e)
          /\ \A y \in e.spans : \E j \in 1 .. Len(w.bundles[w.at].regions) :
                                    y = w.bundles[w.at].regions[j]
    BY <1>2 DEF Grown
  <2>2. \A j \in 1 .. Len(w.bundles[w.at].regions) : w.bundles[w.at].regions[j].batch[1] = w.nth
    BY RegionIsOwn
  <2>3. v.pc # "idle" => \A y \in e.spans : y.batch[1] # v.nth
    BY <2>1, <2>2
  <2> QED
    BY <2>1, <2>3, OthersKeep
<1> QED
  BY <1>1, <1>2

(* An answer given before stands, since its request is not this one.       *)
LEMMA GrownAnswers ==
    ASSUME NEW w \in Works, NEW l \in Seq(LogEntry), NEW m, Grown(w, l, m),
           w.at \in 1 .. Len(w.bundles), NEW entries, Slotted(w, entries),
           NEW o, NEW nth, NEW i, NEW part, AnswerTrue(l, o, <<nth, i>>, part), nth # w.nth
    PROVE  AnswerTrue(m, o, <<nth, i>>, part)
<1> DEFINE batch == <<nth, i>>
<1>0. batch[1] = nth
  OBVIOUS
<1> HIDE DEF batch
<1>1. ASSUME NEW at \in Log(m), at[2].batch = batch
      PROVE  at \in Log(l)
  <2>1. ASSUME NEW j \in 1 .. Len(w.bundles[w.at].regions), at[2] = w.bundles[w.at].regions[j]
        PROVE  FALSE
    <3>1. w.bundles[w.at].regions[j].batch[1] = w.nth
      BY RegionIsOwn
    <3> QED
      BY <2>1, <3>1, <1>0, <1>1
  <2> QED
    BY <2>1, GrownPlaces
<1>2. \A at \in Log(l) : at \in Log(m)
  BY GrownKeeps
<1>3. {at \in Log(m) : at[2].batch = batch} = {at \in Log(l) : at[2].batch = batch}
  BY <1>1, <1>2
<1>4. ASSUME o.kind = "assigned"
      PROVE  \E at \in Log(m) : at[2].batch = batch /\ at[2].part = part
                                /\ o.offset = EndIn(m, part, at[1] - 1)
  <2>1. PICK at \in Log(l) : at[2].batch = batch /\ at[2].part = part
                             /\ o.offset = EndIn(l, part, at[1] - 1)
    BY <1>4 DEF AnswerTrue, batch
  <2>2. at[1] - 1 \in 0 .. Len(l)
    BY LogPlaces
  <2>3. EndIn(m, part, at[1] - 1) = EndIn(l, part, at[1] - 1)
    BY <2>2, GrownKeeps
  <2> QED
    BY <2>1, <2>3, <1>2
<1>5. ASSUME o.kind = "refused", o.code \notin Retriable
      PROVE  \A at \in Log(m) : at[2].batch # batch
  <2>1. \A at \in Log(l) : at[2].batch # batch
    BY <1>5 DEF AnswerTrue, batch
  <2> QED
    BY <2>1, <1>1
<1>6. Cardinality({at \in Log(m) : at[2].batch = batch}) <= 1
  BY <1>3 DEF AnswerTrue, batch
<1> QED
  BY <1>4, <1>5, <1>6 DEF AnswerTrue, batch

(* The request's own outcomes stand too, and nothing of it is new but the  *)
(* bundle's.                                                               *)
FlowsTo(w, l, m) ==
    \A at \in Log(m) : at[2].batch[1] = w.nth =>
        \E b \in 1 .. Len(w.bundles) : \E j \in 1 .. Len(w.bundles[b].regions) :
            /\ at[2] = w.bundles[b].regions[j]
            /\ b < w.at \/ (b = w.at /\ at[1] = Len(l) + 1)

LEMMA GrownOwn ==
    ASSUME NEW w \in Works, NEW l \in Seq(LogEntry), NEW m, Grown(w, l, m), NEW a,
           NEW s \in Nat, NEW t \in Nat, s <= t, WorkSound(w, l, a, s),
           w.pc = "committing" \/ (w.pc = "putting" /\ m = l)
    PROVE  OutcomesTrue(w, m, t) /\ FlowsTo(w, l, m)
<1>1. /\ Shaped(w) /\ Slotted(w, a[w.nth].entries) /\ Flowed(w, l) /\ OutcomesTrue(w, l, s)
      /\ w.pc # "answering" /\ w.pc # "idle"
  BY DEF WorkSound
<1>2. w.at \in 1 .. Len(w.bundles) /\ Len(w.outcomes) = w.at - 1
      /\ Len(w.bundles) \in Nat /\ Len(w.outcomes) \in Nat
  BY <1>1 DEF Shaped, Works
<1>3. ASSUME NEW b \in 1 .. Len(w.outcomes), NEW j \in 1 .. Len(w.outcomes[b])
      PROVE  OutcomeTrue(m, t, w.outcomes[b][j], w.bundles[b].regions[j])
  <2>1. b \in 1 .. Len(w.bundles) /\ b # w.at
    BY <1>2
  <2>2. j \in 1 .. Len(w.bundles[b].regions)
    BY <1>1 DEF Shaped
  <2>3. OutcomeTrue(l, s, w.outcomes[b][j], w.bundles[b].regions[j])
    BY <1>1 DEF OutcomesTrue
  <2> DEFINE o == w.outcomes[b][j]
             region == w.bundles[b].regions[j]
  <2> HIDE DEF o, region
  <2>4. ASSUME o.kind = "assigned"
        PROVE  \E at \in Log(m) : at[2] = region /\ at[1] <= t
                                  /\ o.offset = EndIn(m, region.part, at[1] - 1)
    <3>1. PICK at \in Log(l) : at[2] = region /\ at[1] <= s
                               /\ o.offset = EndIn(l, region.part, at[1] - 1)
      BY <2>3, <2>4 DEF OutcomeTrue, o, region
    <3>2. at[1] - 1 \in 0 .. Len(l) /\ at[1] \in 1 .. Len(l) /\ Len(l) \in Nat
      BY LogPlaces
    <3>3. EndIn(m, region.part, at[1] - 1) = EndIn(l, region.part, at[1] - 1)
      BY <3>2, GrownKeeps
    <3>4. at \in Log(m)
      BY GrownKeeps
    <3>5. at[1] <= t
      BY <3>1, <3>2
    <3> QED
      BY <3>1, <3>3, <3>4, <3>5
  <2>5. ASSUME o.kind = "refused", o.code \notin Retriable
        PROVE  \A at \in Log(m) : at[2].batch # region.batch
    <3>1. \A at \in Log(l) : at[2].batch # region.batch
      BY <2>3, <2>5 DEF OutcomeTrue, o, region
    <3>2. ASSUME NEW k \in 1 .. Len(w.bundles[w.at].regions)
          PROVE  w.bundles[w.at].regions[k].batch # region.batch
      <4>1. SUFFICES ASSUME w.bundles[w.at].regions[k].batch = w.bundles[b].regions[j].batch
                     PROVE  FALSE
        BY DEF region
      <4>2. w.at = b
        BY <4>1, <1>1, <1>2, <2>1, <2>2, RegionIsOnce
      <4> QED
        BY <4>2, <2>1
    <3>3. ASSUME NEW at \in Log(m)
          PROVE  at[2].batch # region.batch
      <4>1. CASE at \in Log(l)
        BY <4>1, <3>1
      <4>2. CASE \E k \in 1 .. Len(w.bundles[w.at].regions) : at[2] = w.bundles[w.at].regions[k]
        BY <4>2, <3>2
      <4> QED
        BY <4>1, <4>2, GrownPlaces
    <3> QED
      BY <3>3
  <2> QED
    BY <2>4, <2>5 DEF OutcomeTrue, o, region
<1>4. ASSUME NEW at \in Log(m), at[2].batch[1] = w.nth
      PROVE  \E b \in 1 .. Len(w.bundles) : \E j \in 1 .. Len(w.bundles[b].regions) :
                 /\ at[2] = w.bundles[b].regions[j]
                 /\ b < w.at \/ (b = w.at /\ at[1] = Len(l) + 1)
  <2>1. CASE at \in Log(l)
    BY <2>1, <1>1, <1>4 DEF Flowed
  <2>2. CASE /\ at[1] = Len(l) + 1
             /\ \E j \in 1 .. Len(w.bundles[w.at].regions) : at[2] = w.bundles[w.at].regions[j]
    BY <2>2, <1>2
  <2> QED
    BY <2>1, <2>2, GrownPlaces
<1> QED
  BY <1>3, <1>4 DEF OutcomesTrue, FlowsTo

(* failed_outcomes: the bundles already flushed keep what they were given, *)
(* every other is told to try again.                                       *)
FailedTo(w, x, code) ==
    /\ x.pc = "answering" /\ x.nth = w.nth /\ x.slots = w.slots /\ x.bundles = w.bundles
    /\ x.at = w.at /\ Len(x.outcomes) = Len(w.bundles)
    /\ \A b \in 1 .. Len(w.outcomes) : x.outcomes[b] = w.outcomes[b]
    /\ \A b \in 1 .. Len(w.bundles) : b \notin 1 .. Len(w.outcomes) =>
          /\ Len(x.outcomes[b]) = Len(w.bundles[b].regions)
          /\ \A j \in 1 .. Len(w.bundles[b].regions) : x.outcomes[b][j] = Rejected(code)

LEMMA Beyond ==
    ASSUME NEW k \in Nat, NEW m \in Nat, NEW b \in 1 .. m, b \notin 1 .. k
    PROVE  b - k \in 1 .. m - k /\ k + (b - k) = b
OBVIOUS

LEMMA FailedIs ==
    ASSUME NEW w \in Works, Shaped(w), w.pc \in {"putting", "committing"}, NEW code \in Codes
    PROVE  Failed(w, code) \in Works /\ FailedTo(w, Failed(w, code), code)
<1> DEFINE k == Len(w.outcomes)
           n == Len(w.bundles) - k
           row == [i \in 1 .. n |-> [j \in 1 .. Len(w.bundles[k + i].regions) |-> Rejected(code)]]
           rows == w.outcomes \o row
           x == Failed(w, code)
<1>1. /\ w.outcomes \in Seq(Seq(Outcomes)) /\ w.bundles \in Seq(OpenBundles)
      /\ Len(w.bundles) \in Nat /\ k \in Nat /\ k = w.at - 1 /\ w.at \in 1 .. Len(w.bundles)
  BY DEF Works, Shaped
<1>2. n \in Nat
  BY <1>1
<1>3. Rejected(code) \in Outcomes
  BY DEF Rejected, Outcomes, Refusals
<1>4. ASSUME NEW i \in 1 .. n
      PROVE  /\ k + i \in 1 .. Len(w.bundles)
             /\ row[i] \in Seq(Outcomes)
             /\ Len(row[i]) = Len(w.bundles[k + i].regions)
             /\ \A j \in 1 .. Len(w.bundles[k + i].regions) : row[i][j] = Rejected(code)
  <2>1. k + i \in 1 .. Len(w.bundles)
    BY <1>1
  <2>2. w.bundles[k + i] \in OpenBundles
    BY <2>1, <1>1
  <2>3. Len(w.bundles[k + i].regions) \in Nat
    BY <2>2 DEF OpenBundles
  <2>4. row[i] = [j \in 1 .. Len(w.bundles[k + i].regions) |-> Rejected(code)]
    OBVIOUS
  <2> HIDE DEF row, k
  <2> QED
    BY <2>1, <2>3, <2>4, <1>3
<1>5. row \in Seq(Seq(Outcomes)) /\ Len(row) = n
  <2>1. DOMAIN row = 1 .. n /\ \A i \in 1 .. n : row[i] \in Seq(Outcomes)
    BY <1>4
  <2>2. row \in [1 .. n -> Seq(Outcomes)]
    BY <1>4
  <2> HIDE DEF row, n
  <2> QED
    BY <2>1, <2>2, <1>2
<1> HIDE DEF row
<1>6. /\ rows \in Seq(Seq(Outcomes)) /\ Len(rows) = Len(w.bundles)
      /\ \A b \in 1 .. k : rows[b] = w.outcomes[b]
      /\ \A i \in 1 .. n : rows[k + i] = row[i]
  <2>1. k + n = Len(w.bundles)
    <3> HIDE DEF k
    <3> QED
      BY <1>1
  <2>2. /\ rows \in Seq(Seq(Outcomes)) /\ Len(rows) = k + Len(row)
        /\ \A b \in 1 .. k : rows[b] = w.outcomes[b]
        /\ \A i \in 1 .. Len(row) : rows[k + i] = row[i]
    <3> DEFINE S == Seq(Outcomes)
               f == w.outcomes
    <3>1. f \in Seq(S) /\ row \in Seq(S)
      BY <1>1, <1>5
    <3> HIDE DEF x, n, S, f
    <3>2. /\ f \o row \in Seq(S) /\ Len(f \o row) = Len(f) + Len(row)
          /\ \A b \in 1 .. Len(f) : (f \o row)[b] = f[b]
          /\ \A i \in 1 .. Len(row) : (f \o row)[Len(f) + i] = row[i]
      BY <3>1
    <3> QED
      BY <3>2, Zenon DEF S, f
  <2> HIDE DEF k, n, rows
  <2> QED
    BY <2>1, <2>2, <1>5
<1>7. x = [w EXCEPT !.pc = "answering", !.outcomes = rows]
  BY DEF Failed, row
<1>8. x \in Works
  <2> HIDE DEF rows, x
  <2> QED
    BY <1>6, <1>7 DEF Works, ProducePcs
<1>9. /\ x.pc = "answering" /\ x.nth = w.nth /\ x.slots = w.slots /\ x.bundles = w.bundles
      /\ x.at = w.at /\ x.outcomes = rows
  <2> HIDE DEF rows, x
  <2> QED
    BY <1>7 DEF Works
<1>10. ASSUME NEW b \in 1 .. Len(w.bundles), b \notin 1 .. k
       PROVE  /\ Len(rows[b]) = Len(w.bundles[b].regions)
              /\ \A j \in 1 .. Len(w.bundles[b].regions) : rows[b][j] = Rejected(code)
  <2> DEFINE i == b - k
  <2>1. i \in 1 .. n /\ k + i = b
    <3>1. k \in Nat /\ Len(w.bundles) \in Nat
      BY <1>1
    <3> HIDE DEF k
    <3> QED
      BY <3>1, <1>10, Beyond
  <2> HIDE DEF i, rows, n, k
  <2>2. rows[b] = row[i]
    BY <2>1, <1>6
  <2>3. /\ Len(row[i]) = Len(w.bundles[k + i].regions)
        /\ \A j \in 1 .. Len(w.bundles[k + i].regions) : row[i][j] = Rejected(code)
    BY <2>1, <1>4
  <2> QED
    BY <2>1, <2>2, <2>3
<1> HIDE DEF rows, x, n
<1>11. FailedTo(w, x, code)
  BY <1>6, <1>9, <1>10 DEF FailedTo, k
<1> QED
  BY <1>8, <1>11 DEF x

(* A request that failed is answered soundly, wherever its bundle ended.   *)
LEMMA FailedSound ==
    ASSUME NEW w \in Works, NEW l \in Seq(LogEntry), NEW m, Grown(w, l, m), NEW a,
           NEW s \in Nat, WorkSound(w, l, a, s),
           w.pc = "committing" \/ (w.pc = "putting" /\ m = l),
           NEW code \in Retriable, NEW x \in Works, FailedTo(w, x, code)
    PROVE  WorkSound(x, m, a, s)
<1>1. /\ w.nth \in 1 .. Len(a) /\ Shaped(w) /\ Slotted(w, a[w.nth].entries)
  BY DEF WorkSound
<1>2. OutcomesTrue(w, m, s) /\ FlowsTo(w, l, m)
  <2>1. s <= s
    OBVIOUS
  <2> QED
    BY <2>1, GrownOwn
<1>3. /\ x.pc = "answering" /\ x.nth = w.nth /\ x.slots = w.slots /\ x.bundles = w.bundles
      /\ x.at = w.at /\ Len(x.outcomes) = Len(w.bundles)
  BY DEF FailedTo
<1>4. /\ Len(w.outcomes) \in Nat /\ Len(w.bundles) \in Nat /\ w.at \in 1 .. Len(w.bundles) + 1
      /\ Len(w.outcomes) = w.at - 1
  BY <1>1, SMTT(40) DEF Shaped, Works
<1>5. Shaped(x)
  <2>1. ASSUME NEW b \in 1 .. Len(x.outcomes)
        PROVE  Len(x.outcomes[b]) = Len(x.bundles[b].regions)
    <3>1. CASE b \in 1 .. Len(w.outcomes)
      BY <3>1, <1>1, <1>3 DEF FailedTo, Shaped
    <3>2. CASE b \notin 1 .. Len(w.outcomes)
      BY <3>2, <1>3 DEF FailedTo
    <3> QED
      BY <3>1, <3>2
  <2> QED
    BY <2>1, <1>3, <1>4 DEF Shaped
<1>6. Slotted(x, a[x.nth].entries)
  <2> DEFINE entries == a[w.nth].entries
  <2>1. Slotted(w, entries) /\ a[x.nth].entries = entries
    BY <1>1, <1>3
  <2> HIDE DEF entries
  <2>2. Slotted(x, entries)
    BY <2>1, <1>3, SameSlotted
  <2> QED
    BY <2>1, <2>2
<1>7. Flowed(x, m)
  BY <1>2, <1>3 DEF Flowed, FlowsTo
<1>8. OutcomesTrue(x, m, s)
  <2>1. SUFFICES ASSUME NEW b \in 1 .. Len(x.outcomes), NEW j \in 1 .. Len(x.outcomes[b])
                 PROVE  OutcomeTrue(m, s, x.outcomes[b][j], x.bundles[b].regions[j])
    BY DEF OutcomesTrue
  <2>2. CASE b \in 1 .. Len(w.outcomes)
    <3>1. x.outcomes[b] = w.outcomes[b]
      BY <2>2 DEF FailedTo
    <3> QED
      BY <2>2, <3>1, <1>2, <1>3 DEF OutcomesTrue
  <2>3. CASE b \notin 1 .. Len(w.outcomes)
    <3>1. x.outcomes[b][j] = Rejected(code)
      BY <2>3, <1>3 DEF FailedTo
    <3>2. Rejected(code).kind = "refused" /\ Rejected(code).code \in Retriable
      BY DEF Rejected
    <3> QED
      BY <3>1, <3>2 DEF OutcomeTrue
  <2> QED
    BY <2>2, <2>3
<1> QED
  BY <1>1, <1>3, <1>5, <1>6, <1>7, <1>8 DEF WorkSound

LEMMA PutErrsKeeps ==
    ASSUME ProduceInv, NEW h \in Handler, NEW landed \in BOOLEAN, PutErrs(h, landed)
    PROVE  ProduceInv'
<1> DEFINE w == work[h]
           code == "NOT_ENOUGH_REPLICAS"
           x == Failed(w, code)
<1>1. /\ w.pc = "putting" /\ (put' = Stored(h) \/ put' = put)
      /\ UNCHANGED <<committed, namer, asked, seen, replies>>
  BY DEF PutErrs
<1>2. /\ w \in Works /\ WorkSound(w, committed, asked, seen[h]) /\ CommittedStored /\ AnswersHold
      /\ work \in [Handler -> Works] /\ committed \in Seq(LogEntry) /\ seen[h] \in Nat
  BY DEF ProduceInv, ProduceTypes, ProduceSound, WorksSound
<1>3. work' = [work EXCEPT ![h] = x]
  BY <1>2 DEF PutErrs
<1>4. code \in Codes /\ code \in Retriable
  BY DEF Codes, Retriable
<1>5. Shaped(w)
  BY <1>1, <1>2 DEF WorkSound
<1> HIDE DEF code, w
<1>6. x \in Works /\ FailedTo(w, x, code)
  BY <1>1, <1>2, <1>4, <1>5, FailedIs
<1> HIDE DEF x
<1>7. WorkSound(x, committed, asked, seen[h])
  <2>1. Grown(w, committed, committed)
    BY DEF Grown
  <2> QED
    BY <2>1, <1>1, <1>2, <1>4, <1>6, FailedSound
<1>8. WorksSound' /\ work' \in [Handler -> Works]
  BY <1>1, <1>3, <1>6, <1>7, WorksKeep
<1>9. x.pc = "answering" /\ x.nth = w.nth
  BY <1>6 DEF FailedTo
<1>10. Numbered'
  BY <1>1, <1>3, <1>6, <1>9, NumberedKeeps DEF w
<1>11. Named'
  <2>1. x.pc \notin Naming
    BY <1>9 DEF Naming
  <2> QED
    BY <2>1, <1>1, <1>3, <1>6, NamedAfterPut DEF w
<1>12. /\ \A k \in DOMAIN put : k \in DOMAIN put' /\ put'[k] = put[k]
       /\ DOMAIN put' \subseteq Keys /\ put' \in [DOMAIN put' -> Seq(Region)]
  <2>1. CASE put' = Stored(h)
    BY <2>1, <1>1, StoredGrows DEF w
  <2>2. CASE put' = put
    BY <2>2 DEF ProduceInv, ProduceTypes
  <2> QED
    BY <2>1, <2>2, <1>1
<1>13. CommittedStored' /\ AnswersHold'
  BY <1>1, <1>2, <1>12, AnswersKeep, StoredAfterPut
<1>14. ProduceTypes'
  BY <1>1, <1>8, <1>12 DEF ProduceInv, ProduceTypes
<1> QED
  BY <1>8, <1>10, <1>11, <1>13, <1>14 DEF ProduceInv, ProduceSound

-----------------------------------------------------------------------------
(* Committing.                                                             *)

LEMMA EntryIs ==
    ASSUME ProduceInv, NEW h \in Handler, work[h].pc = "committing", NEW admitted
    PROVE  /\ EntryOf(h, admitted) \in LogEntry
           /\ EntryOf(h, admitted).key = work[h].key
           /\ \A y : y \in EntryOf(h, admitted).spans <=>
                 /\ y.part \in admitted
                 /\ \E j \in 1 .. Len(work[h].bundles[work[h].at].regions) :
                        y = work[h].bundles[work[h].at].regions[j]
<1> DEFINE w == work[h]
           held == w.bundles[w.at].regions
           e == EntryOf(h, admitted)
<1>1. w \in Works /\ Shaped(w)
  BY DEF ProduceInv, ProduceTypes, ProduceSound, WorksSound, WorkSound
<1>2. w.bundles \in Seq(OpenBundles) /\ w.at \in 1 .. Len(w.bundles) /\ w.key \in Keys
  BY <1>1 DEF Works, Shaped
<1>3. w.bundles[w.at] \in OpenBundles
  BY <1>2
<1>4. held \in Seq(Region)
  BY <1>3 DEF OpenBundles
<1>5. e = [key |-> w.key, spans |-> {y \in Range(held) : y.part \in admitted}]
  BY DEF EntryOf
<1> HIDE DEF held, w, e
<1>6. \A y : y \in Range(held) <=> \E j \in 1 .. Len(held) : y = held[j]
  BY <1>4 DEF Range
<1>7. {y \in Range(held) : y.part \in admitted} \subseteq Region
  BY <1>4, <1>6
<1>8. e \in LogEntry
  BY <1>2, <1>5, <1>7 DEF LogEntry
<1>9. e.key = w.key /\ e.spans = {y \in Range(held) : y.part \in admitted}
  BY <1>5
<1>10. \A y : y \in e.spans <=> y.part \in admitted /\ \E j \in 1 .. Len(held) : y = held[j]
  BY <1>6, <1>9
<1> QED
  BY <1>8, <1>9, <1>10 DEF held, w, e

Landed(h, admitted) == committed' = committed \/ committed' = Append(committed, EntryOf(h, admitted))

LEMMA LandedGrows ==
    ASSUME ProduceInv, NEW h \in Handler, work[h].pc = "committing", NEW admitted,
           Landed(h, admitted)
    PROVE  Grown(work[h], committed, committed')
<1> DEFINE e == EntryOf(h, admitted)
<1>1. CASE committed' = committed
  BY <1>1 DEF Grown
<1>2. CASE committed' = Append(committed, e)
  <2>1. e \in LogEntry
    BY EntryIs
  <2>2. \A y \in e.spans : \E j \in 1 .. Len(work[h].bundles[work[h].at].regions) :
                               y = work[h].bundles[work[h].at].regions[j]
    BY EntryIs
  <2> HIDE DEF e
  <2> QED
    BY <1>2, <2>1, <2>2 DEF Grown
<1> QED
  BY <1>1, <1>2 DEF Landed

(* What a commit names is in the object it was put in, once.               *)
LEMMA LandedStored ==
    ASSUME ProduceInv, NEW h \in Handler, work[h].pc = "committing", NEW admitted,
           Landed(h, admitted), UNCHANGED put
    PROVE  CommittedStored'
<1> DEFINE w == work[h]
           held == w.bundles[w.at].regions
           e == EntryOf(h, admitted)
<1>0. CommittedStored
  BY DEF ProduceInv, ProduceSound
<1>1. CASE committed' = committed
  BY <1>0, <1>1, StoredKeeps
<1>2. CASE committed' = Append(committed, e)
  <2>1. /\ w \in Works /\ WorkSound(w, committed, asked, seen[h]) /\ committed \in Seq(LogEntry)
        /\ w.key \in DOMAIN put /\ put[w.key] = held
    BY DEF ProduceInv, ProduceTypes, ProduceSound, WorksSound, Named, PutAsNamed
  <2>2. Shaped(w) /\ Slotted(w, asked[w.nth].entries)
    BY <2>1 DEF WorkSound
  <2>3. w.at \in 1 .. Len(w.bundles)
    BY <2>1, <2>2 DEF Works, Shaped
  <2>4. DOMAIN held = 1 .. Len(held)
    <3>1. w.bundles \in Seq(OpenBundles)
      BY <2>1 DEF Works
    <3>2. w.bundles[w.at] \in OpenBundles
      BY <2>3, <3>1
    <3>3. held \in Seq(Region)
      BY <3>2 DEF OpenBundles
    <3> HIDE DEF held
    <3> QED
      BY <3>3
  <2>5. /\ e \in LogEntry /\ e.key = w.key
        /\ \A y \in e.spans : \E j \in 1 .. Len(held) : y = held[j]
    BY EntryIs
  <2>6. ASSUME NEW span \in e.spans
        PROVE  \E j \in DOMAIN held : held[j] = span
                   /\ \A k \in DOMAIN held : held[k].part = span.part => k = j
    <3>1. PICK j \in 1 .. Len(held) : span = held[j]
      BY <2>5
    <3>2. ASSUME NEW k \in 1 .. Len(held), held[k].part = held[j].part
          PROVE  k = j
      BY <3>2, <2>2, <2>3, RegionIsOnce
    <3> QED
      BY <3>1, <3>2, <2>4
  <2> HIDE DEF e, held, w
  <2>7. /\ Len(committed) \in Nat /\ Len(committed') = Len(committed) + 1
        /\ committed'[Len(committed) + 1] = e
        /\ \A i \in 1 .. Len(committed) : committed'[i] = committed[i]
        /\ \A i \in 1 .. Len(committed') : i \in 1 .. Len(committed) \/ i = Len(committed) + 1
    BY <1>2, <2>1, <2>5
  <2>8. ASSUME NEW i \in 1 .. Len(committed'), NEW span \in committed'[i].spans
        PROVE  /\ committed'[i].key \in DOMAIN put
               /\ \E j \in DOMAIN put[committed'[i].key] :
                     /\ put[committed'[i].key][j] = span
                     /\ \A k \in DOMAIN put[committed'[i].key] :
                            put[committed'[i].key][k].part = span.part => k = j
    <3>1. CASE i \in 1 .. Len(committed)
      <4>1. committed'[i] = committed[i]
        BY <3>1, <2>7
      <4> QED
        BY <3>1, <4>1, <1>0 DEF CommittedStored
    <3>2. CASE i = Len(committed) + 1
      <4>1. committed'[i] = e
        BY <3>2, <2>7
      <4>2. committed'[i].key = w.key /\ span \in e.spans
        BY <4>1, <2>5
      <4>3. committed'[i].key \in DOMAIN put /\ put[committed'[i].key] = held
        BY <4>2, <2>1 DEF held
      <4> QED
        BY <4>2, <4>3, <2>6
    <3> QED
      BY <3>1, <3>2, <2>7
  <2> QED
    BY <2>8 DEF CommittedStored
<1> QED
  BY <1>1, <1>2 DEF Landed

(* No batch is in the log twice, and each is of a request received.        *)
LEMMA LandedOnce ==
    ASSUME ProduceInv, NEW h \in Handler, work[h].pc = "committing",
           Grown(work[h], committed, committed'), UNCHANGED asked
    PROVE  LogNumbered' /\ BatchesOnce'
<1> DEFINE w == work[h]
           held == w.bundles[w.at].regions
<1>1. /\ w \in Works /\ WorkSound(w, committed, asked, seen[h]) /\ committed \in Seq(LogEntry)
      /\ LogNumbered /\ BatchesOnce
  BY DEF ProduceInv, ProduceTypes, ProduceSound, WorksSound, Numbered
<1>2. Shaped(w) /\ Slotted(w, asked[w.nth].entries) /\ w.nth \in 1 .. Len(asked) /\ Flowed(w, committed)
  BY <1>1 DEF WorkSound
<1>3. w.at \in 1 .. Len(w.bundles) /\ w.at \in Nat
  BY <1>1, <1>2 DEF Works, Shaped
<1>4. \A at \in Log(committed') :
         \/ at \in Log(committed)
         \/ /\ at[1] = Len(committed) + 1 /\ at = <<at[1], at[2]>>
            /\ \E j \in 1 .. Len(held) : at[2] = held[j]
  <2>1. committed' \in Seq(LogEntry)
    BY <1>1, GrownKeeps
  <2>2. \A at \in Log(committed') : at = <<at[1], at[2]>>
    BY <2>1, LogPlaces
  <2>3. \A at \in Log(committed') :
           \/ at \in Log(committed)
           \/ /\ at[1] = Len(committed) + 1
              /\ \E j \in 1 .. Len(held) : at[2] = held[j]
    BY <1>1, GrownPlaces
  <2> QED
    BY <2>2, <2>3, Zenon
<1>5. \A j \in 1 .. Len(held) : held[j].batch[1] = w.nth
  BY <1>2, <1>3, RegionIsOwn
<1>6. ASSUME NEW at \in Log(committed), NEW j \in 1 .. Len(held)
      PROVE  at[2].batch # held[j].batch
  <2>1. SUFFICES ASSUME at[2].batch = held[j].batch
                 PROVE  FALSE
    OBVIOUS
  <2>2. at[2].batch[1] = w.nth
    BY <2>1, <1>5
  <2>3. PICK b \in 1 .. Len(w.bundles) : \E k \in 1 .. Len(w.bundles[b].regions) :
            at[2] = w.bundles[b].regions[k] /\ (b < w.at \/ w.pc = "answering")
    BY <2>2, <1>2 DEF Flowed
  <2>4. PICK k \in 1 .. Len(w.bundles[b].regions) : at[2] = w.bundles[b].regions[k] /\ b < w.at
    BY <2>3
  <2>5. w.bundles[w.at].regions[j].batch = w.bundles[b].regions[k].batch
    BY <2>1, <2>4
  <2>6. w.at = b
    BY <2>5, <1>2, <1>3, RegionIsOnce
  <2> QED
    BY <2>4, <2>6, <1>3
<1>7. \A j, k \in 1 .. Len(held) : held[j].batch = held[k].batch => j = k
  BY <1>2, <1>3, RegionIsOnce
<1>8. LogNumbered'
  BY <1>1, <1>2, <1>4, <1>5 DEF LogNumbered
<1> HIDE DEF held, w
<1>9. BatchesOnce'
  <2>1. SUFFICES ASSUME NEW a \in Log(committed'), NEW c \in Log(committed'),
                        a[2].batch = c[2].batch
                 PROVE  a = c
    BY DEF BatchesOnce
  <2>2. CASE a \in Log(committed) /\ c \in Log(committed)
    BY <2>1, <2>2, <1>1 DEF BatchesOnce
  <2>3. CASE a \in Log(committed) /\ c \notin Log(committed)
    BY <2>1, <2>3, <1>4, <1>6
  <2>4. CASE a \notin Log(committed) /\ c \in Log(committed)
    BY <2>1, <2>4, <1>4, <1>6
  <2>5. CASE a \notin Log(committed) /\ c \notin Log(committed)
    <3>1. a[1] = c[1] /\ a = <<a[1], a[2]>> /\ c = <<c[1], c[2]>>
      BY <2>5, <1>4
    <3>2. a[2] = c[2]
      BY <2>1, <2>5, <1>4, <1>7
    <3> QED
      BY <3>1, <3>2
  <2> QED
    BY <2>2, <2>3, <2>4, <2>5
<1> QED
  BY <1>8, <1>9

(* Everything but the request itself, after a commit.                      *)
LEMMA CommitKeeps ==
    ASSUME ProduceInv, NEW h \in Handler, work[h].pc = "committing", NEW admitted,
           Landed(h, admitted), NEW x \in Works, work' = [work EXCEPT ![h] = x],
           x.nth = work[h].nth, x.pc \notin Naming, UNCHANGED <<put, namer, asked, replies>>,
           seen' \in [Handler -> Nat], \A g \in Handler : g # h => seen'[g] = seen[g],
           seen'[h] <= Len(committed'), WorkSound(x, committed', asked, seen'[h])
    PROVE  ProduceInv'
<1> DEFINE w == work[h]
<1>1. Grown(w, committed, committed')
  BY LandedGrows
<1>2. /\ w \in Works /\ WorkSound(w, committed, asked, seen[h]) /\ committed \in Seq(LogEntry)
      /\ work \in [Handler -> Works] /\ seen \in [Handler -> Nat] /\ Numbered /\ AnswersHold
      /\ WorksSound
  BY DEF ProduceInv, ProduceTypes, ProduceSound, WorksSound
<1>3. Shaped(w) /\ Slotted(w, asked[w.nth].entries)
  BY <1>2 DEF WorkSound
<1>4. w.at \in 1 .. Len(w.bundles)
  BY <1>2, <1>3 DEF Works, Shaped
<1>5. /\ committed' \in Seq(LogEntry) /\ Len(committed) <= Len(committed')
      /\ Len(committed) \in Nat /\ Len(committed') \in Nat
  BY <1>1, <1>2, GrownKeeps
<1>6. /\ \A g \in Handler : g # h => work'[g] = work[g]
      /\ work'[h] = x /\ work' \in [Handler -> Works]
  BY <1>2
<1>7. WorksSound'
  <2>1. ASSUME NEW g \in Handler
        PROVE  WorkSound(work'[g], committed', asked, seen'[g])
    <3>1. CASE g = h
      BY <3>1, <1>6
    <3>2. CASE g # h
      <4>1. WorkSound(work[g], committed, asked, seen[g]) /\ work[g] \in Works /\ seen[g] \in Nat
        BY <1>2 DEF WorksSound
      <4>2. work[g].pc # "idle" => work[g].nth # w.nth
        BY <3>2, <1>2 DEF Numbered, NumbersOnce
      <4>3. WorkSound(work[g], committed', asked, seen[g])
        BY <4>1, <4>2, <1>1, <1>2, <1>3, <1>4, GrownOthers
      <4> QED
        BY <3>2, <4>3, <1>6
    <3> QED
      BY <3>1, <3>2
  <2> QED
    BY <2>1 DEF WorksSound
<1>8. Numbered'
  <2>1. NumbersOnce' /\ RepliesPast'
    BY NumbersKeep
  <2>2. LogNumbered' /\ BatchesOnce'
    BY <1>1, LandedOnce
  <2>3. SeenBounded'
    <3>1. \A g \in Handler : seen[g] <= Len(committed) /\ seen[g] \in Nat
      BY <1>2 DEF Numbered, SeenBounded
    <3>2. \A g \in Handler : seen'[g] <= Len(committed')
      BY <3>1, <1>5
    <3> QED
      BY <3>2 DEF SeenBounded
  <2> QED
    BY <2>1, <2>2, <2>3 DEF Numbered
<1>9. Named'
  BY NamedKeeps
<1>10. CommittedStored'
  BY LandedStored
<1>11. AnswersHold'
  <2>1. ASSUME NEW r \in replies
        PROVE  Answered(r, committed', asked)
    <3>1. Answered(r, committed, asked)
      BY <1>2, AnswersAre
    <3>2. r.nth # w.nth
      BY <1>2 DEF Numbered, RepliesPast
    <3>3. ASSUME NEW i \in 1 .. Len(r.answers)
          PROVE  AnswerTrue(committed', r.answers[i], <<r.nth, i>>, asked[r.nth].entries[i].part)
      <4>1. AnswerTrue(committed, r.answers[i], <<r.nth, i>>, asked[r.nth].entries[i].part)
        BY <3>1 DEF Answered
      <4> QED
        BY <4>1, <3>2, <1>1, <1>2, <1>3, <1>4, GrownAnswers
    <3> QED
      BY <3>3 DEF Answered
  <2> QED
    BY <2>1, AnswersAreNext
<1>12. ProduceTypes'
  BY <1>5, <1>6 DEF ProduceInv, ProduceTypes
<1> QED
  BY <1>7, <1>8, <1>9, <1>10, <1>11, <1>12 DEF ProduceInv, ProduceSound

LEMMA CommitErrsKeeps ==
    ASSUME ProduceInv, NEW h \in Handler, NEW landed \in BOOLEAN, CommitErrs(h, landed)
    PROVE  ProduceInv'
<1> DEFINE w == work[h]
           held == w.bundles[w.at].regions
           admitted == {held[i].part : i \in 1 .. Len(held)}
           code == "LEADER_NOT_AVAILABLE"
           x == Failed(w, code)
<1>1. /\ w.pc = "committing" /\ UNCHANGED <<put, namer, asked, seen, replies>>
      /\ work' = [work EXCEPT ![h] = x]
  BY DEF CommitErrs
<1>2. Landed(h, admitted)
  BY DEF CommitErrs, Journalled, Landed
<1>3. /\ w \in Works /\ WorkSound(w, committed, asked, seen[h]) /\ committed \in Seq(LogEntry)
      /\ seen \in [Handler -> Nat] /\ SeenBounded
  BY DEF ProduceInv, ProduceTypes, ProduceSound, WorksSound, Numbered
<1>4. code \in Codes /\ code \in Retriable
  BY DEF Codes, Retriable
<1>5. Shaped(w)
  BY <1>1, <1>3 DEF WorkSound
<1>6. Grown(w, committed, committed')
  BY <1>1, <1>2, LandedGrows
<1> HIDE DEF code, admitted
<1>7. x \in Works /\ FailedTo(w, x, code)
  BY <1>1, <1>3, <1>4, <1>5, FailedIs
<1> HIDE DEF x
<1>8. WorkSound(x, committed', asked, seen'[h])
  <2>1. seen[h] \in Nat
    BY <1>3
  <2>2. WorkSound(x, committed', asked, seen[h])
    BY <2>1, <1>1, <1>3, <1>4, <1>6, <1>7, FailedSound
  <2> QED
    BY <2>2, <1>1
<1>9. x.nth = w.nth /\ x.pc \notin Naming
  BY <1>7 DEF FailedTo, Naming
<1>10. seen'[h] <= Len(committed')
  <2>1. Len(committed) <= Len(committed') /\ Len(committed) \in Nat /\ Len(committed') \in Nat
    BY <1>3, <1>6, GrownKeeps
  <2>2. seen[h] <= Len(committed) /\ seen[h] \in Nat
    BY <1>3 DEF SeenBounded
  <2> QED
    BY <2>1, <2>2, <1>1
<1>11. seen' \in [Handler -> Nat] /\ \A g \in Handler : g # h => seen'[g] = seen[g]
  BY <1>1, <1>3
<1> QED
  BY <1>1, <1>2, <1>7, <1>8, <1>9, <1>10, <1>11, CommitKeeps

(* A bundle acknowledged: what was admitted has the offset it was given,   *)
(* what was not is nowhere.                                                *)
AckedTo(w, x, l, admitted) ==
    /\ x.pc = "flushed" /\ x.nth = w.nth /\ x.slots = w.slots /\ x.bundles = w.bundles
    /\ x.at = w.at + 1 /\ Len(x.outcomes) = Len(w.outcomes) + 1
    /\ \A b \in 1 .. Len(w.outcomes) : x.outcomes[b] = w.outcomes[b]
    /\ Len(x.outcomes[w.at]) = Len(w.bundles[w.at].regions)
    /\ \A j \in 1 .. Len(w.bundles[w.at].regions) :
          /\ w.bundles[w.at].regions[j].part \in admitted =>
                /\ x.outcomes[w.at][j].kind = "assigned"
                /\ x.outcomes[w.at][j].offset = EndIn(l, w.bundles[w.at].regions[j].part, Len(l))
          /\ w.bundles[w.at].regions[j].part \notin admitted =>
                x.outcomes[w.at][j].kind = "refused"

LEMMA OutcomeTyped ==
    ASSUME committed \in Seq(LogEntry), NEW region, NEW admitted
    PROVE  /\ BundleOutcome(region, admitted) \in Outcomes
           /\ region.part \in admitted =>
                 /\ BundleOutcome(region, admitted).kind = "assigned"
                 /\ BundleOutcome(region, admitted).offset
                       = EndIn(committed, region.part, Len(committed))
           /\ region.part \notin admitted => BundleOutcome(region, admitted).kind = "refused"
<1> DEFINE n == EndBefore(region.part, Len(committed))
           S == {at \in Log(committed) : at[2].part = region.part}
<1>1. n = Cardinality(S) /\ n = EndIn(committed, region.part, Len(committed))
  BY DEF EndBefore, EndIn, Spans, SpansIn, Log
<1>2. \A at \in Log(committed) : at \in Nat \X Region
  <2>1. \A at \in Log(committed) : at = <<at[1], at[2]>> /\ at[1] \in 1 .. Len(committed) /\ at[2] \in Region
    BY LogPlaces
  <2>2. \A i \in 1 .. Len(committed) : i \in Nat
    OBVIOUS
  <2> QED
    BY <2>1, <2>2
<1>3. S \in SUBSET (Nat \X Region)
  BY <1>2
<1> HIDE DEF S
<1>4. n \in Offsets
  BY <1>1, <1>3 DEF Offsets
<1> HIDE DEF n
<1>5. CASE region.part \in admitted
  <2>1. BundleOutcome(region, admitted) = [kind |-> "assigned", offset |-> n]
    BY <1>5 DEF BundleOutcome, n
  <2> QED
    BY <1>1, <1>4, <1>5, <2>1 DEF Outcomes
<1>6. CASE region.part \notin admitted
  <2>1. BundleOutcome(region, admitted) = [kind |-> "refused", code |-> "OUT_OF_ORDER_SEQUENCE_NUMBER"]
    BY <1>6 DEF BundleOutcome, Rejected
  <2>2. "OUT_OF_ORDER_SEQUENCE_NUMBER" \in Codes
    BY DEF Codes
  <2> QED
    BY <1>6, <2>1, <2>2 DEF Outcomes, Refusals
<1> QED
  BY <1>5, <1>6

LEMMA AckedIs ==
    ASSUME ProduceInv, NEW h \in Handler, NEW admitted, CommitAcked(h, admitted)
    PROVE  \E x \in Works : /\ work' = [work EXCEPT ![h] = x]
                            /\ AckedTo(work[h], x, committed, admitted)
<1> DEFINE w == work[h]
           held == w.bundles[w.at].regions
           row == [i \in 1 .. Len(held) |-> BundleOutcome(held[i], admitted)]
           rows == Append(w.outcomes, row)
           x == [w EXCEPT !.pc = "flushed", !.at = w.at + 1, !.outcomes = rows]
<1>1. w.pc = "committing" /\ work' = [work EXCEPT ![h] = x]
  BY DEF CommitAcked
<1>2. w \in Works /\ WorkSound(w, committed, asked, seen[h]) /\ committed \in Seq(LogEntry)
  BY DEF ProduceInv, ProduceTypes, ProduceSound, WorksSound
<1>3. /\ w.at \in 1 .. Len(w.bundles) /\ w.outcomes \in Seq(Seq(Outcomes))
      /\ w.bundles \in Seq(OpenBundles) /\ Len(w.outcomes) = w.at - 1 /\ w.at \in Nat
      /\ Len(w.outcomes) \in Nat
  BY <1>1, <1>2 DEF WorkSound, Shaped, Works
<1>4. Len(held) \in Nat
  <2>1. w.bundles[w.at] \in OpenBundles
    BY <1>3
  <2> QED
    BY <2>1 DEF OpenBundles
<1> HIDE DEF w, held
<1>5. row \in Seq(Outcomes) /\ Len(row) = Len(held)
  <2>1. row \in [1 .. Len(held) -> Outcomes]
    BY <1>2, OutcomeTyped
  <2> HIDE DEF row
  <2> QED
    BY <2>1, <1>4
<1>6. \A j \in 1 .. Len(held) :
          /\ held[j].part \in admitted =>
                row[j].kind = "assigned" /\ row[j].offset = EndIn(committed, held[j].part, Len(committed))
          /\ held[j].part \notin admitted => row[j].kind = "refused"
  BY <1>2, OutcomeTyped
<1> HIDE DEF row
<1>7. /\ rows \in Seq(Seq(Outcomes)) /\ Len(rows) = Len(w.outcomes) + 1 /\ rows[w.at] = row
      /\ \A b \in 1 .. Len(w.outcomes) : rows[b] = w.outcomes[b]
  BY <1>3, <1>5
<1> HIDE DEF rows
<1>8. /\ x \in Works /\ x.pc = "flushed" /\ x.nth = w.nth /\ x.slots = w.slots
      /\ x.bundles = w.bundles /\ x.at = w.at + 1 /\ x.outcomes = rows
  <2> DEFINE n == w.at + 1
  <2>1. n \in Nat
    BY <1>3
  <2> HIDE DEF n
  <2>2. x = [w EXCEPT !.pc = "flushed", !.at = n, !.outcomes = rows]
    BY DEF n
  <2> HIDE DEF x
  <2>3. x \in Works
    BY <1>2, <1>7, <2>1, <2>2 DEF Works, ProducePcs
  <2>4. /\ x.pc = "flushed" /\ x.nth = w.nth /\ x.slots = w.slots
        /\ x.bundles = w.bundles /\ x.at = n /\ x.outcomes = rows
    BY <1>2, <2>2 DEF Works
  <2> QED
    BY <2>3, <2>4 DEF n
<1> HIDE DEF x
<1>9. AckedTo(w, x, committed, admitted)
  BY <1>5, <1>6, <1>7, <1>8 DEF AckedTo, held
<1> QED
  BY <1>1, <1>8, <1>9 DEF w

(* The new entry carries what was admitted and the session has seen it.    *)
Carries(w, l, m, t, admitted) ==
    /\ \A j \in 1 .. Len(w.bundles[w.at].regions) :
          w.bundles[w.at].regions[j].part \in admitted =>
              <<Len(l) + 1, w.bundles[w.at].regions[j]>> \in Log(m) /\ Len(l) + 1 <= t
    /\ \A at \in Log(m) : at[1] = Len(l) + 1 => at[2].part \in admitted

LEMMA AckedSound ==
    ASSUME NEW w \in Works, NEW l \in Seq(LogEntry), NEW m, Grown(w, l, m), NEW a,
           NEW s \in Nat, NEW t \in Nat, s <= t, WorkSound(w, l, a, s), w.pc = "committing",
           NEW admitted, NEW x \in Works, AckedTo(w, x, l, admitted), Carries(w, l, m, t, admitted)
    PROVE  WorkSound(x, m, a, t)
<1> DEFINE held == w.bundles[w.at].regions
<1>1. /\ w.nth \in 1 .. Len(a) /\ Shaped(w) /\ Slotted(w, a[w.nth].entries)
  BY DEF WorkSound
<1>2. OutcomesTrue(w, m, t) /\ FlowsTo(w, l, m)
  BY GrownOwn
<1>3. /\ x.pc = "flushed" /\ x.nth = w.nth /\ x.slots = w.slots /\ x.bundles = w.bundles
      /\ x.at = w.at + 1 /\ Len(x.outcomes) = Len(w.outcomes) + 1
  BY DEF AckedTo
<1>4. /\ Len(w.outcomes) \in Nat /\ Len(w.bundles) \in Nat /\ w.at \in 1 .. Len(w.bundles)
      /\ Len(w.outcomes) = w.at - 1 /\ w.at \in Nat
  BY <1>1, SMTT(40) DEF Shaped, Works
<1>5. /\ \A b \in 1 .. Len(x.outcomes) : b \in 1 .. Len(w.outcomes) \/ b = w.at
      /\ Len(x.outcomes) = x.at - 1 /\ x.at \in 1 .. Len(x.bundles) + 1
  BY <1>3, <1>4, SMTT(40)
<1>6. Shaped(x)
  <2>1. ASSUME NEW b \in 1 .. Len(x.outcomes)
        PROVE  Len(x.outcomes[b]) = Len(x.bundles[b].regions)
    <3>1. CASE b \in 1 .. Len(w.outcomes)
      BY <3>1, <1>1, <1>3 DEF AckedTo, Shaped
    <3>2. CASE b = w.at
      BY <3>2, <1>3 DEF AckedTo
    <3> QED
      BY <3>1, <3>2, <1>5
  <2> QED
    BY <2>1, <1>3, <1>5 DEF Shaped
<1>7. Slotted(x, a[x.nth].entries)
  BY <1>1, <1>3, SameSlotted
<1>8. Flowed(x, m)
  <2>1. ASSUME NEW at \in Log(m), at[2].batch[1] = x.nth
        PROVE  \E b \in 1 .. Len(x.bundles) : \E j \in 1 .. Len(x.bundles[b].regions) :
                   at[2] = x.bundles[b].regions[j] /\ b < x.at
    <3>1. PICK b \in 1 .. Len(w.bundles) : \E j \in 1 .. Len(w.bundles[b].regions) :
              /\ at[2] = w.bundles[b].regions[j]
              /\ b < w.at \/ (b = w.at /\ at[1] = Len(l) + 1)
      BY <2>1, <1>2, <1>3 DEF FlowsTo
    <3>2. b < x.at
      BY <3>1, <1>3, <1>4, SMTT(40)
    <3> QED
      BY <3>1, <3>2, <1>3
  <2> QED
    BY <2>1 DEF Flowed
<1>9. ASSUME NEW j \in 1 .. Len(held)
      PROVE  OutcomeTrue(m, t, x.outcomes[w.at][j], held[j])
  <2> DEFINE o == x.outcomes[w.at][j]
  <2>1. CASE held[j].part \in admitted
    <3> DEFINE at == <<Len(l) + 1, held[j]>>
    <3>1. at \in Log(m) /\ at[2] = held[j] /\ at[1] = Len(l) + 1 /\ Len(l) + 1 <= t
      BY <2>1 DEF Carries
    <3>2. o.kind = "assigned" /\ o.offset = EndIn(l, held[j].part, Len(l))
      BY <2>1 DEF AckedTo
    <3>3. EndIn(m, held[j].part, at[1] - 1) = EndIn(l, held[j].part, Len(l))
      <4>1. at[1] - 1 = Len(l) /\ Len(l) \in 0 .. Len(l)
        <5>1. Len(l) \in Nat
          OBVIOUS
        <5> QED
          BY <3>1, <5>1
      <4> HIDE DEF at
      <4> QED
        BY <4>1, GrownKeeps
    <3> HIDE DEF at, o, held
    <3>4. OutcomeTrue(m, t, o, held[j])
      BY <3>1, <3>2, <3>3 DEF OutcomeTrue
    <3> QED
      BY <3>4 DEF o, held
  <2>2. CASE held[j].part \notin admitted
    <3>1. o.kind = "refused"
      BY <2>2 DEF AckedTo
    <3>2. ASSUME NEW at \in Log(m), at[2].batch = held[j].batch
          PROVE  FALSE
      <4>1. held[j].batch[1] = w.nth
        BY <1>1, <1>4, RegionIsOwn
      <4>2. PICK b \in 1 .. Len(w.bundles) : \E k \in 1 .. Len(w.bundles[b].regions) :
                /\ at[2] = w.bundles[b].regions[k]
                /\ b < w.at \/ (b = w.at /\ at[1] = Len(l) + 1)
        BY <3>2, <4>1, <1>2 DEF FlowsTo
      <4>3. PICK k \in 1 .. Len(w.bundles[b].regions) :
                /\ at[2] = w.bundles[b].regions[k]
                /\ b < w.at \/ (b = w.at /\ at[1] = Len(l) + 1)
        BY <4>2
      <4>4. w.bundles[b].regions[k].batch = w.bundles[w.at].regions[j].batch
        BY <4>3, <3>2
      <4>5. b = w.at /\ k = j
        BY <4>4, <1>1, <1>4, RegionIsOnce
      <4>6. at[1] = Len(l) + 1 /\ at[2] = held[j]
        BY <4>3, <4>5, <1>4
      <4> QED
        BY <4>6, <2>2 DEF Carries
    <3> HIDE DEF o, held
    <3>3. OutcomeTrue(m, t, o, held[j])
      BY <3>1, <3>2 DEF OutcomeTrue
    <3> QED
      BY <3>3 DEF o, held
  <2> QED
    BY <2>1, <2>2
<1>10. OutcomesTrue(x, m, t)
  <2>1. SUFFICES ASSUME NEW b \in 1 .. Len(x.outcomes), NEW j \in 1 .. Len(x.outcomes[b])
                 PROVE  OutcomeTrue(m, t, x.outcomes[b][j], x.bundles[b].regions[j])
    BY DEF OutcomesTrue
  <2>2. CASE b \in 1 .. Len(w.outcomes)
    <3>1. x.outcomes[b] = w.outcomes[b]
      BY <2>2 DEF AckedTo
    <3> QED
      BY <2>2, <3>1, <1>2, <1>3 DEF OutcomesTrue
  <2>3. CASE b = w.at
    <3>1. j \in 1 .. Len(held)
      BY <2>3 DEF AckedTo
    <3> QED
      BY <2>3, <3>1, <1>3, <1>9
  <2> QED
    BY <2>2, <2>3, <1>5
<1> QED
  BY <1>1, <1>3, <1>6, <1>7, <1>8, <1>10 DEF WorkSound

LEMMA CommitAckedKeeps ==
    ASSUME ProduceInv, NEW h \in Handler, NEW admitted \in SUBSET Hosted, CommitAcked(h, admitted)
    PROVE  ProduceInv'
<1> DEFINE w == work[h]
           held == w.bundles[w.at].regions
           e == EntryOf(h, admitted)
<1>1. /\ w.pc = "committing" /\ UNCHANGED <<put, namer, asked, replies>>
      /\ admitted \subseteq {held[i].part : i \in 1 .. Len(held)}
      /\ seen' = IF admitted = {} THEN seen ELSE [seen EXCEPT ![h] = Len(committed')]
      /\ committed' = IF admitted = {} THEN committed ELSE Append(committed, e)
  BY DEF CommitAcked, Journalled
<1>2. Landed(h, admitted)
  BY <1>1 DEF Landed
<1>3. /\ w \in Works /\ WorkSound(w, committed, asked, seen[h]) /\ committed \in Seq(LogEntry)
      /\ seen \in [Handler -> Nat] /\ SeenBounded
  BY DEF ProduceInv, ProduceTypes, ProduceSound, WorksSound, Numbered
<1>4. PICK x \in Works : /\ work' = [work EXCEPT ![h] = x]
                         /\ AckedTo(w, x, committed, admitted)
  BY AckedIs
<1>5. Grown(w, committed, committed')
  BY <1>1, <1>2, LandedGrows
<1>6. /\ Len(committed) <= Len(committed') /\ Len(committed) \in Nat /\ Len(committed') \in Nat
  BY <1>3, <1>5, GrownKeeps
<1>7. seen[h] <= Len(committed) /\ seen[h] \in Nat
  BY <1>3 DEF SeenBounded
<1>8. /\ seen' \in [Handler -> Nat] /\ \A g \in Handler : g # h => seen'[g] = seen[g]
      /\ seen[h] <= seen'[h] /\ seen'[h] <= Len(committed') /\ seen'[h] \in Nat
  <2>1. CASE admitted = {}
    <3>1. seen' = seen
      BY <2>1, <1>1
    <3> QED
      BY <3>1, <1>3, <1>6, <1>7
  <2>2. CASE admitted # {}
    <3>1. seen' = [seen EXCEPT ![h] = Len(committed')]
      BY <2>2, <1>1
    <3>2. seen'[h] = Len(committed')
      BY <3>1, <1>3
    <3>3. seen' \in [Handler -> Nat] /\ \A g \in Handler : g # h => seen'[g] = seen[g]
      BY <3>1, <1>3, <1>6
    <3> QED
      BY <3>2, <3>3, <1>6, <1>7
  <2> QED
    BY <2>1, <2>2
<1>9. /\ e \in LogEntry
      /\ \A y : y \in e.spans <=>
             y.part \in admitted /\ \E j \in 1 .. Len(held) : y = held[j]
  BY <1>1, EntryIs
<1> HIDE DEF e
<1>10. admitted # {} => /\ Log(committed') = Log(committed) \cup ({Len(committed) + 1} \X e.spans)
                        /\ Len(committed') = Len(committed) + 1 /\ seen'[h] = Len(committed')
  <2>1. SUFFICES ASSUME admitted # {}
                 PROVE  /\ Log(committed') = Log(committed) \cup ({Len(committed) + 1} \X e.spans)
                        /\ Len(committed') = Len(committed) + 1 /\ seen'[h] = Len(committed')
    OBVIOUS
  <2>2. committed' = Append(committed, e) /\ seen' = [seen EXCEPT ![h] = Len(committed')]
    BY <2>1, <1>1
  <2>3. Log(committed') = Log(committed) \cup ({Len(committed) + 1} \X e.spans)
    BY <2>2, <1>3, <1>9, LogGrows
  <2>4. Len(committed') = Len(committed) + 1
    BY <2>2, <1>3, <1>9
  <2>5. seen'[h] = Len(committed')
    BY <2>2, <1>3
  <2> QED
    BY <2>3, <2>4, <2>5
<1>11. ASSUME NEW j \in 1 .. Len(held), held[j].part \in admitted
       PROVE  /\ <<Len(committed) + 1, held[j]>> \in Log(committed')
              /\ Len(committed) + 1 <= seen'[h]
  <2>1. admitted # {}
    BY <1>11
  <2>2. held[j] \in e.spans
    BY <1>9, <1>11
  <2>3. <<Len(committed) + 1, held[j]>> \in Log(committed')
    BY <2>1, <2>2, <1>10
  <2>4. Len(committed) + 1 <= seen'[h]
    BY <2>1, <1>6, <1>10
  <2> QED
    BY <2>3, <2>4
<1>12. ASSUME NEW at \in Log(committed'), at[1] = Len(committed) + 1
       PROVE  at[2].part \in admitted
  <2>1. at \notin Log(committed)
    <3>1. at \in Log(committed) => at[1] \in 1 .. Len(committed)
      BY <1>3, LogPlaces
    <3> QED
      BY <3>1, <1>6, <1>12
  <2>2. admitted # {}
    BY <2>1, <1>1
  <2>3. at \in {Len(committed) + 1} \X e.spans
    BY <2>1, <2>2, <1>10
  <2>4. at[2] \in e.spans
    BY <2>3
  <2> QED
    BY <2>4, <1>9
<1>13. WorkSound(x, committed', asked, seen'[h])
  <2>1. Carries(w, committed, committed', seen'[h], admitted)
    BY <1>11, <1>12 DEF Carries
  <2> HIDE DEF w
  <2> QED
    BY <2>1, <1>1, <1>3, <1>4, <1>5, <1>7, <1>8, AckedSound
<1>14. x.nth = w.nth /\ x.pc \notin Naming
  BY <1>4 DEF AckedTo, Naming
<1> QED
  BY <1>1, <1>2, <1>4, <1>8, <1>13, <1>14, CommitKeeps

-----------------------------------------------------------------------------
(* Answering.                                                              *)

(* A batch has one place at most.                                          *)
LEMMA OnePlace ==
    ASSUME BatchesOnce, NEW batch
    PROVE  Cardinality({at \in Log(committed) : at[2].batch = batch}) <= 1
<1> DEFINE S == {at \in Log(committed) : at[2].batch = batch}
<1>1. CASE S = {}
  BY <1>1, FS_EmptySet
<1>2. CASE S # {}
  <2>1. PICK at \in S : TRUE
    BY <1>2
  <2>2. \A c \in S : c = at
    BY <2>1 DEF BatchesOnce
  <2>3. S = {at}
    BY <2>1, <2>2
  <2> HIDE DEF S
  <2>4. Cardinality({at}) = 1
    BY FS_Singleton
  <2>5. Cardinality(S) <= 1
    BY <2>3, <2>4
  <2> QED
    BY <2>5 DEF S
<1> QED
  BY <1>1, <1>2

(* Each slot of a request that is done is answered with the truth.         *)
LEMMA SlotAnswered ==
    ASSUME NEW w \in Works, NEW a, NEW s \in Nat, committed \in Seq(LogEntry),
           WorkSound(w, committed, a, s), w.pc # "idle", BatchesOnce,
           Len(w.outcomes) = Len(w.bundles), NEW i \in 1 .. Len(w.slots)
    PROVE  AnswerTrue(committed, AnswerOf(w, w.slots[i]), <<w.nth, i>>, a[w.nth].entries[i].part)
<1> DEFINE slot == w.slots[i]
           o == AnswerOf(w, slot)
           batch == <<w.nth, i>>
           part == a[w.nth].entries[i].part
<1>1. /\ Shaped(w) /\ Slotted(w, a[w.nth].entries) /\ Flowed(w, committed)
      /\ OutcomesTrue(w, committed, s)
  BY DEF WorkSound
<1>2. Cardinality({at \in Log(committed) : at[2].batch = batch}) <= 1
  BY OnePlace
<1>3. slot.kind = "refused" \/ slot.kind = "pushed"
  <2>1. slot \in Slots
    BY DEF Works
  <2> QED
    BY <2>1 DEF Slots, Refusals
<1>4. CASE slot.kind = "refused"
  <2>1. o = slot
    BY <1>4 DEF AnswerOf
  <2>2. ASSUME NEW at \in Log(committed), at[2].batch = batch
        PROVE  FALSE
    <3>1. at[2].batch[1] = w.nth
      BY <2>2
    <3>2. PICK b \in 1 .. Len(w.bundles) : \E j \in 1 .. Len(w.bundles[b].regions) :
              at[2] = w.bundles[b].regions[j]
      BY <3>1, <1>1 DEF Flowed
    <3>3. PICK j \in 1 .. Len(w.bundles[b].regions) : at[2] = w.bundles[b].regions[j]
      BY <3>2
    <3>4. PICK k \in 1 .. Len(w.slots) : Backs(w, a[w.nth].entries, k, b, j)
      BY <1>1, RegionSlot
    <3>5. w.slots[k].kind = "pushed" /\ w.bundles[b].regions[j].batch = <<w.nth, k>>
      BY <3>4 DEF Backs
    <3>6. <<w.nth, k>> = <<w.nth, i>>
      BY <2>2, <3>3, <3>5
    <3>7. k = i
      BY <3>6
    <3> QED
      BY <3>5, <3>7, <1>4
  <2> HIDE DEF batch, part, o
  <2>3. AnswerTrue(committed, o, batch, part)
    BY <1>2, <1>4, <2>1, <2>2 DEF AnswerTrue
  <2> QED
    BY <2>3 DEF batch, part, o
<1>5. CASE slot.kind = "pushed"
  <2> DEFINE region == w.bundles[slot.bundle].regions[slot.local]
  <2>1. /\ slot.bundle \in 1 .. Len(w.bundles)
        /\ slot.local \in 1 .. Len(w.bundles[slot.bundle].regions)
        /\ region = [part |-> slot.part, batch |-> batch]
        /\ slot.part = part
    BY <1>1, <1>5 DEF Slotted
  <2>2. o = w.outcomes[slot.bundle][slot.local]
    BY <1>5 DEF AnswerOf
  <2>3. slot.bundle \in 1 .. Len(w.outcomes) /\ slot.local \in 1 .. Len(w.outcomes[slot.bundle])
    BY <2>1, <1>1 DEF Shaped
  <2>4. OutcomeTrue(committed, s, o, region)
    BY <2>2, <2>3, <1>1 DEF OutcomesTrue
  <2>5. region.batch = batch /\ region.part = part
    BY <2>1
  <2> HIDE DEF batch, part, o, region, slot
  <2>6. ASSUME o.kind = "assigned"
        PROVE  \E at \in Log(committed) : at[2].batch = batch /\ at[2].part = part
                                          /\ o.offset = EndIn(committed, part, at[1] - 1)
    <3>1. PICK at \in Log(committed) : at[2] = region
                                       /\ o.offset = EndIn(committed, region.part, at[1] - 1)
      BY <2>4, <2>6 DEF OutcomeTrue
    <3> QED
      BY <3>1, <2>5
  <2>7. ASSUME o.kind = "refused", o.code \notin Retriable
        PROVE  \A at \in Log(committed) : at[2].batch # batch
    BY <2>4, <2>5, <2>7 DEF OutcomeTrue
  <2>8. AnswerTrue(committed, o, batch, part)
    BY <1>2, <2>6, <2>7 DEF AnswerTrue
  <2> QED
    BY <2>8 DEF batch, part, o, slot
<1> QED
  BY <1>3, <1>4, <1>5

LEMMA SendAnswersKeeps ==
    ASSUME ProduceInv, NEW h \in Handler, SendAnswers(h)
    PROVE  ProduceInv'
<1> DEFINE w == work[h]
           r == [nth |-> w.nth, by |-> h,
                 answers |-> [i \in 1 .. Len(w.slots) |-> AnswerOf(w, w.slots[i])]]
<1>1. /\ \/ w.pc = "answering"
         \/ w.pc = "flushed" /\ w.at > Len(w.bundles)
         \/ w.pc = "building" /\ w.bundles = <<>>
      /\ work' = [work EXCEPT ![h] = Idle] /\ UNCHANGED <<put, committed, namer, asked, seen>>
      /\ replies' = replies \/ replies' = replies \cup {r}
  BY DEF SendAnswers
<1>2. /\ w \in Works /\ WorkSound(w, committed, asked, seen[h]) /\ committed \in Seq(LogEntry)
      /\ work \in [Handler -> Works] /\ seen \in [Handler -> Nat] /\ Numbered /\ CommittedStored
      /\ AnswersHold /\ seen[h] \in Nat
  BY DEF ProduceInv, ProduceTypes, ProduceSound, WorksSound
<1>3. /\ \A g \in Handler : g # h => work'[g] = work[g]
      /\ work'[h] = Idle /\ Idle.pc = "idle"
  BY <1>1, <1>2 DEF Idle
<1>4. WorksSound' /\ work' \in [Handler -> Works]
  <2>1. Idle \in Works /\ WorkSound(Idle, committed, asked, seen[h])
    BY IdleTyped
  <2> QED
    BY <2>1, <1>1, WorksKeep
<1>5. w.pc # "idle" /\ Len(w.outcomes) = Len(w.bundles) /\ w.nth \in 1 .. Len(asked)
  <2>1. w.pc # "idle"
    BY <1>1
  <2>2. Shaped(w) /\ w.nth \in 1 .. Len(asked)
    BY <2>1, <1>2 DEF WorkSound
  <2>3. Len(w.bundles) \in Nat /\ Len(w.outcomes) \in Nat
    BY <1>2 DEF Works
  <2>4. CASE w.pc = "answering"
    BY <2>2, <2>4 DEF Shaped
  <2>5. CASE w.pc = "flushed" /\ w.at > Len(w.bundles)
    BY <2>2, <2>3, <2>5 DEF Shaped
  <2>6. CASE w.pc = "building" /\ w.bundles = <<>>
    <3>1. Len(w.bundles) = 0
      BY <2>6
    <3> QED
      BY <3>1, <2>2, <2>6 DEF Shaped
  <2> QED
    BY <1>1, <2>1, <2>2, <2>4, <2>5, <2>6
<1>6. Answered(r, committed, asked)
  <2>1. BatchesOnce
    BY <1>2 DEF Numbered
  <2>2. /\ r.nth = w.nth /\ Len(r.answers) = Len(w.slots)
        /\ \A i \in 1 .. Len(w.slots) : r.answers[i] = AnswerOf(w, w.slots[i])
    <3>1. Len(w.slots) \in Nat
      BY <1>2 DEF Works
    <3> QED
      BY <3>1
  <2> HIDE DEF r, w
  <2>3. \A i \in 1 .. Len(w.slots) :
           AnswerTrue(committed, AnswerOf(w, w.slots[i]), <<w.nth, i>>, asked[w.nth].entries[i].part)
    BY <2>1, <1>2, <1>5, SlotAnswered
  <2> QED
    BY <2>2, <2>3 DEF Answered
<1>7. r.nth = w.nth
  OBVIOUS
<1> HIDE DEF r
<1>8. Numbered'
  <2>1. \A g \in Handler : work'[g].pc # "idle" => g # h /\ work'[g] = work[g]
    BY <1>3
  <2>2. NumbersOnce'
    BY <2>1, <1>2 DEF Numbered, NumbersOnce
  <2>3. RepliesPast'
    <3>1. ASSUME NEW y \in replies'
          PROVE  y.nth \in 1 .. Len(asked) /\ \A g \in Handler : work'[g].pc # "idle" => work'[g].nth # y.nth
      <4>1. CASE y \in replies
        BY <4>1, <2>1, <1>2 DEF Numbered, RepliesPast
      <4>2. CASE y = r
        BY <4>2, <2>1, <1>2, <1>5, <1>7 DEF Numbered, NumbersOnce
      <4> QED
        BY <4>1, <4>2, <1>1
    <3> QED
      BY <3>1, <1>1 DEF RepliesPast
  <2>4. LogNumbered' /\ BatchesOnce' /\ SeenBounded'
    BY <1>1, <1>2 DEF Numbered, LogNumbered, BatchesOnce, SeenBounded
  <2> QED
    BY <2>2, <2>3, <2>4 DEF Numbered
<1>9. Named'
  <2>1. Idle \in Works /\ Idle.pc \notin Naming
    BY <1>3, IdleTyped DEF Naming
  <2> QED
    BY <2>1, <1>1, NamedKeeps
<1>10. CommittedStored'
  BY <1>1, <1>2, StoredKeeps
<1>11. AnswersHold'
  <2>1. \A y \in replies : Answered(y, committed, asked)
    BY <1>2, AnswersAre
  <2>2. \A y \in replies' : Answered(y, committed', asked')
    BY <2>1, <1>1, <1>6
  <2> QED
    BY <2>2, AnswersAreNext
<1>12. ProduceTypes'
  BY <1>1, <1>4 DEF ProduceInv, ProduceTypes
<1> QED
  BY <1>4, <1>8, <1>9, <1>10, <1>11, <1>12 DEF ProduceInv, ProduceSound

LEMMA RestartBrokerKeeps ==
    ASSUME ProduceInv, RestartBroker
    PROVE  ProduceInv'
<1>1. /\ namer' = [writer |-> namer.writer + 1, next |-> 0] /\ work' = [h \in Handler |-> Idle]
      /\ seen' = [h \in Handler |-> 0] /\ UNCHANGED <<put, committed, asked, replies>>
  BY DEF RestartBroker, MintWriter
<1>2. /\ Numbered /\ Named /\ CommittedStored /\ AnswersHold /\ namer \in [writer : Nat, next : Nat]
      /\ DOMAIN put \subseteq Keys /\ committed \in Seq(LogEntry)
  BY DEF ProduceInv, ProduceTypes, ProduceSound
<1>3. \A h \in Handler : work'[h] = Idle /\ work'[h].pc = "idle" /\ seen'[h] = 0
  BY <1>1 DEF Idle
<1>4. WorksSound' /\ work' \in [Handler -> Works] /\ seen' \in [Handler -> Nat]
  BY <1>1, <1>3, IdleTyped DEF WorksSound
<1>5. Numbered'
  <2>1. NumbersOnce' /\ RepliesPast'
    BY <1>1, <1>2, <1>3 DEF Numbered, NumbersOnce, RepliesPast
  <2>2. LogNumbered' /\ BatchesOnce'
    BY <1>1, <1>2 DEF Numbered, LogNumbered, BatchesOnce
  <2>3. SeenBounded'
    BY <1>1, <1>2, <1>3 DEF SeenBounded
  <2> QED
    BY <2>1, <2>2, <2>3 DEF Numbered
<1>6. namer' \in [writer : Nat, next : Nat] /\ namer'.writer = namer.writer + 1
  BY <1>1, <1>2
<1>7. Named'
  <2>1. \A k \in Keys : Past(k, namer) => Past(k, namer')
    BY <1>2, <1>6 DEF Past, Keys
  <2>2. KeysPast'
    BY <2>1, <1>1, <1>2, <1>3 DEF Named, KeysPast, Naming
  <2>3. NamesOnce' /\ NotYetPut' /\ PutAsNamed'
    BY <1>3 DEF NamesOnce, NotYetPut, PutAsNamed, Naming
  <2> QED
    BY <2>2, <2>3 DEF Named
<1>8. CommittedStored' /\ AnswersHold'
  BY <1>1, <1>2, AnswersKeep, StoredKeeps
<1>9. ProduceTypes'
  BY <1>1, <1>4, <1>6 DEF ProduceInv, ProduceTypes
<1> QED
  BY <1>4, <1>5, <1>7, <1>8, <1>9 DEF ProduceInv, ProduceSound

-----------------------------------------------------------------------------
LEMMA ProduceStarts == ProduceInit => ProduceInv
<1>1. SUFFICES ASSUME ProduceInit
               PROVE  ProduceInv
  OBVIOUS
<1>2. /\ put = <<>> /\ committed = <<>> /\ asked = <<>> /\ replies = {}
      /\ namer = [writer |-> 1, next |-> 0] /\ work = [h \in Handler |-> Idle]
      /\ seen = [h \in Handler |-> 0]
  BY <1>1 DEF ProduceInit
<1>3. /\ DOMAIN put = {} /\ Len(committed) = 0 /\ committed \in Seq(LogEntry) /\ asked \in Seq(Request)
  BY <1>2
<1>4. \A h \in Handler : work[h] = Idle /\ work[h].pc = "idle" /\ seen[h] = 0
  BY <1>2 DEF Idle
<1>5. Log(committed) = {}
  BY <1>3 DEF Log, SpansIn
<1>6. ProduceTypes
  <2>1. put \in [DOMAIN put -> Seq(Region)]
    BY <1>2, <1>3
  <2> QED
    BY <2>1, <1>2, <1>3, IdleTyped DEF ProduceTypes
<1>7. WorksSound
  BY <1>4, IdleTyped DEF WorksSound
<1>8. Numbered
  BY <1>2, <1>3, <1>4, <1>5 DEF Numbered, NumbersOnce, RepliesPast, LogNumbered, BatchesOnce, SeenBounded
<1>9. Named
  BY <1>3, <1>4 DEF Named, KeysPast, NamesOnce, NotYetPut, PutAsNamed, Naming
<1>10. CommittedStored /\ AnswersHold
  BY <1>2, <1>3 DEF CommittedStored, AnswersHold
<1> QED
  BY <1>6, <1>7, <1>8, <1>9, <1>10 DEF ProduceInv, ProduceSound

LEMMA ProduceStutters ==
    ASSUME ProduceInv, UNCHANGED produceVars
    PROVE  ProduceInv'
<1>1. /\ put' = put /\ committed' = committed /\ namer' = namer /\ asked' = asked /\ work' = work
      /\ seen' = seen /\ replies' = replies
  BY DEF produceVars
<1>2. WorksSound /\ Numbered /\ Named /\ CommittedStored /\ AnswersHold /\ ProduceTypes
  BY DEF ProduceInv, ProduceSound
<1>3. WorksSound' /\ ProduceTypes'
  BY <1>1, <1>2 DEF WorksSound, ProduceTypes
<1>4. Numbered'
  BY <1>1, <1>2 DEF Numbered, NumbersOnce, RepliesPast, LogNumbered, BatchesOnce, SeenBounded
<1>5. Named'
  BY <1>1, <1>2 DEF Named, KeysPast, NamesOnce, NotYetPut, PutAsNamed
<1>6. CommittedStored' /\ AnswersHold'
  BY <1>1, <1>2, AnswersKeep, StoredKeeps
<1> QED
  BY <1>3, <1>4, <1>5, <1>6 DEF ProduceInv, ProduceSound

LEMMA ProduceSteps == ProduceInv /\ [ProduceNext]_produceVars => ProduceInv'
<1>1. SUFFICES ASSUME ProduceInv, [ProduceNext]_produceVars
               PROVE  ProduceInv'
  OBVIOUS
<1>2. CASE \E h \in Handler, r \in Request : Receive(h, r)
  BY <1>1, <1>2, ReceiveKeeps
<1>3. ASSUME NEW h \in Handler, NEW b \in BOOLEAN, Gather(h, b) \/ PutErrs(h, b) \/ CommitErrs(h, b)
      PROVE  ProduceInv'
  BY <1>1, <1>3, GatherKeeps, PutErrsKeeps, CommitErrsKeeps
<1>4. ASSUME NEW h \in Handler, NextKey(h) \/ PutLands(h) \/ SendAnswers(h)
      PROVE  ProduceInv'
  BY <1>1, <1>4, NextKeyKeeps, PutLandsKeeps, SendAnswersKeeps
<1>5. CASE \E h \in Handler, admitted \in SUBSET Hosted : CommitAcked(h, admitted)
  BY <1>1, <1>5, CommitAckedKeeps
<1>6. CASE RestartBroker
  BY <1>1, <1>6, RestartBrokerKeeps
<1>7. CASE UNCHANGED produceVars
  BY <1>1, <1>7, ProduceStutters
<1> QED
  BY <1>1, <1>2, <1>3, <1>4, <1>5, <1>6, <1>7 DEF ProduceNext

(* The invariant the three results rest on: what a request has gathered,   *)
(* named, put, committed and been told agree with the store and the log,   *)
(* no two requests share a number and no two bundles a name.               *)
THEOREM ProduceInvariant == ProduceSpec => []ProduceInv
BY ProduceStarts, ProduceSteps, PTL DEF ProduceSpec

(* Every producer is told the truth of each partition, whatever bundles of *)
(* its request failed, whatever the coordinator admitted, whatever other   *)
(* connections committed in between and however often the process was      *)
(* restarted (answer.rs).                                                  *)
THEOREM ProducersToldTruth == ProduceSpec => []AnswersHold
<1>1. ProduceInv => AnswersHold
  BY DEF ProduceInv, ProduceSound
<1> QED
  BY <1>1, ProduceInvariant, PTL

LEMMA SessionsSee == ProduceInv => SessionSees
<1>1. SUFFICES ASSUME ProduceInv, NEW h \in Handler, NEW b \in 1 .. Len(work[h].outcomes),
                      NEW j \in 1 .. Len(work[h].outcomes[b]),
                      work[h].outcomes[b][j].kind = "assigned",
                      NEW at \in Places(work[h].bundles[b].regions[j].batch)
               PROVE  seen[h] >= at[1]
  BY DEF SessionSees
<1> DEFINE w == work[h]
           region == w.bundles[b].regions[j]
<1>2. /\ WorkSound(w, committed, asked, seen[h]) /\ BatchesOnce /\ committed \in Seq(LogEntry)
      /\ seen[h] \in Nat
  BY <1>1 DEF ProduceInv, ProduceTypes, ProduceSound, WorksSound, Numbered
<1>3. w.pc # "idle"
  <2>1. w.pc = "idle" => w.outcomes = <<>>
    BY <1>2 DEF WorkSound
  <2>2. w.outcomes = <<>> => Len(w.outcomes) = 0
    OBVIOUS
  <2> QED
    BY <2>1, <2>2
<1>4. OutcomeTrue(committed, seen[h], w.outcomes[b][j], region)
  BY <1>2, <1>3 DEF WorkSound, OutcomesTrue
<1>5. PICK c \in Log(committed) : c[2] = region /\ c[1] <= seen[h]
  BY <1>1, <1>4 DEF OutcomeTrue
<1>6. at \in Log(committed) /\ at[2].batch = region.batch
  BY DEF Places, Log, Spans, SpansIn
<1>7. at = c
  BY <1>2, <1>5, <1>6 DEF BatchesOnce
<1>8. at[1] \in 1 .. Len(committed)
  BY <1>2, <1>6, LogPlaces
<1> QED
  BY <1>2, <1>5, <1>7, <1>8

(* What is committed is in the store under the name the log gives it, and  *)
(* a session that was given an offset has seen the commit (flush.rs,       *)
(* session.observe).                                                       *)
THEOREM CommitsAreReadable == ProduceSpec => []CommitsReadable
<1>1. ProduceInv => CommitsReadable
  BY SessionsSee DEF ProduceInv, ProduceSound, CommitsReadable
<1> QED
  BY <1>1, ProduceInvariant, PTL

(* A key names one object for ever, through any number of restarts and of  *)
(* PUTs whose outcome was lost (bundle_name.rs, writer_id.rs).             *)
THEOREM KeysNameOneObject == ProduceSpec => NamesOneObject
<1>1. ProduceInv /\ [ProduceNext]_produceVars
        => [\A k \in DOMAIN put : k \in DOMAIN put' /\ put'[k] = put[k]]_put
  <2>1. SUFFICES ASSUME ProduceInv, [ProduceNext]_produceVars, put' # put
                 PROVE  \A k \in DOMAIN put : k \in DOMAIN put' /\ put'[k] = put[k]
    OBVIOUS
  <2>2. PICK h \in Handler : PutLands(h) \/ \E b \in BOOLEAN : PutErrs(h, b)
    BY <2>1 DEF ProduceNext, Receive, Gather, CommitErrs, NextKey, SendAnswers, CommitAcked,
                RestartBroker, produceVars
  <2>3. work[h].pc = "putting" /\ put' = Stored(h)
    BY <2>1, <2>2 DEF PutLands, PutErrs
  <2> QED
    BY <2>1, <2>3, StoredGrows
<1> QED
  BY <1>1, ProduceInvariant, PTL DEF ProduceSpec, NamesOneObject

-----------------------------------------------------------------------------
(* Offsets and producer sequences.                                         *)

(* Induction, for a set of naturals.                                       *)
LEMMA NatSetInduction ==
    ASSUME NEW S, 0 \in S, \A n \in Nat : n \in S => n + 1 \in S
    PROVE  \A n \in Nat : n \in S
<1> DEFINE T == {n \in Nat : n \notin S}
<1>1. SUFFICES ASSUME T # {} PROVE FALSE
    OBVIOUS
<1>2. T \subseteq Nat
    OBVIOUS
<1> HIDE DEF T
<1>3. PICK m \in T : \A y \in T : ~ (<<y, m>> \in OpToRel(<, Nat))
    BY <1>1, <1>2, NatLessThanWellFounded, WFMin
<1>4. m \in Nat /\ m \notin S
    BY <1>2 DEF T
<1>5. m # 0
    BY <1>4
<1>6. m - 1 \in Nat /\ m - 1 < m /\ (m - 1) + 1 = m
    BY <1>4, <1>5
<1>7. m - 1 \notin T
    BY <1>3, <1>4, <1>6 DEF OpToRel
<1>8. m - 1 \in S
    BY <1>6, <1>7 DEF T
<1>9. QED
    BY <1>4, <1>6, <1>8

(* Records, counted span by span.                                          *)
IsRecords(f, spans, q, n) ==
    f = [i \in 0 .. n |-> IF i = 0 THEN 0 ELSE f[i - 1] + (IF spans[i].part = q THEN spans[i].count ELSE 0)]

LEMMA RecordsExists ==
    ASSUME NEW spans, NEW q, NEW n \in Nat
    PROVE  \E f : IsRecords(f, spans, q, n)
<1> DEFINE Moves(x, i) == x + (IF spans[i].part = q THEN spans[i].count ELSE 0)
           S == {m \in Nat : \E f : IsRecords(f, spans, q, m)}
<1>1. 0 \in S
    <2> DEFINE f == [i \in 0 .. 0 |-> 0]
    <2>1. IsRecords(f, spans, q, 0)
        BY DEF IsRecords
    <2>2. QED
        BY <2>1
<1>2. ASSUME NEW m \in Nat, m \in S PROVE m + 1 \in S
    <2>1. PICK f : IsRecords(f, spans, q, m)
        BY <1>2
    <2> DEFINE b == 0
    <2>2. \A i \in 0 .. m : f[i] = IF i = 0 THEN b ELSE Moves(f[i - 1], i)
        BY <2>1 DEF IsRecords
    <2> DEFINE h == [i \in 0 .. m + 1 |-> IF i = m + 1 THEN Moves(f[m], m + 1) ELSE f[i]]
    <2> HIDE DEF Moves, b
    <2>3. \A i \in 0 .. m + 1 : h[i] = IF i = 0 THEN b ELSE Moves(h[i - 1], i)
        <3>1. SUFFICES ASSUME NEW i \in 0 .. m + 1
                       PROVE  h[i] = IF i = 0 THEN b ELSE Moves(h[i - 1], i)
            OBVIOUS
        <3>2. CASE i = m + 1
            <4>1. h[m + 1] = Moves(f[m], m + 1) /\ h[m] = f[m]
                OBVIOUS
            <4>2. QED
                BY <3>2, <4>1
        <3>3. CASE i \in 0 .. m /\ i # 0
            <4>1. i - 1 \in 0 .. m /\ h[i] = f[i] /\ h[i - 1] = f[i - 1]
                BY <3>3
            <4>2. QED
                BY <2>2, <3>3, <4>1
        <3>4. CASE i = 0
            BY <2>2, <3>4
        <3>5. QED
            BY <3>2, <3>3, <3>4
    <2>4. h = [i \in 0 .. m + 1 |-> h[i]]
        OBVIOUS
    <2> HIDE DEF h
    <2>5. h = [i \in 0 .. m + 1 |-> IF i = 0 THEN b ELSE Moves(h[i - 1], i)]
        BY <2>3, <2>4
    <2>6. IsRecords(h, spans, q, m + 1)
        BY <2>5 DEF IsRecords, Moves, b
    <2>7. QED
        BY <2>6
<1> HIDE DEF S
<1>3. n \in S
    BY <1>1, <1>2, NatSetInduction
<1>4. QED
    BY <1>3 DEF S

LEMMA RecordsIs ==
    ASSUME NEW spans, NEW q, Len(spans) \in Nat
    PROVE  /\ Records(spans, 0, q) = 0
           /\ \A i \in Nat : i + 1 <= Len(spans) => Records(spans, i + 1, q) = Records(spans, i, q) + (IF spans[i + 1].part = q THEN spans[i + 1].count ELSE 0)
<1> DEFINE g == CHOOSE f : IsRecords(f, spans, q, Len(spans))
<1>1. IsRecords(g, spans, q, Len(spans))
    BY RecordsExists
<1>2. \A i : Records(spans, i, q) = g[i]
    BY DEF Records, IsRecords
<1> HIDE DEF g
<1> DEFINE b == 0
           Moves(x, i) == x + (IF spans[i].part = q THEN spans[i].count ELSE 0)
<1>3. \A i \in 0 .. Len(spans) : g[i] = IF i = 0 THEN b ELSE Moves(g[i - 1], i)
    BY <1>1 DEF IsRecords
<1> HIDE DEF b, Moves
<1>4. g[0] = b
    BY <1>3
<1>5. ASSUME NEW i \in Nat, i + 1 <= Len(spans) PROVE g[i + 1] = Moves(g[i], i + 1)
    <2>1. i + 1 \in 0 .. Len(spans) /\ i + 1 # 0 /\ (i + 1) - 1 = i
        BY <1>5
    <2>2. QED
        BY <1>3, <2>1
<1>6. QED
    BY <1>2, <1>4, <1>5 DEF b, Moves

(* The spans of a log, entry by entry.                                     *)
IsFlat(f, entries, n) ==
    f = [i \in 0 .. n |-> IF i = 0 THEN <<>> ELSE f[i - 1] \o entries[i].spans]

LEMMA FlatExists ==
    ASSUME NEW entries, NEW n \in Nat
    PROVE  \E f : IsFlat(f, entries, n)
<1> DEFINE Moves(x, i) == x \o entries[i].spans
           S == {m \in Nat : \E f : IsFlat(f, entries, m)}
<1>1. 0 \in S
    <2> DEFINE f == [i \in 0 .. 0 |-> <<>>]
    <2>1. IsFlat(f, entries, 0)
        BY DEF IsFlat
    <2>2. QED
        BY <2>1
<1>2. ASSUME NEW m \in Nat, m \in S PROVE m + 1 \in S
    <2>1. PICK f : IsFlat(f, entries, m)
        BY <1>2
    <2> DEFINE b == <<>>
    <2>2. \A i \in 0 .. m : f[i] = IF i = 0 THEN b ELSE Moves(f[i - 1], i)
        BY <2>1 DEF IsFlat
    <2> DEFINE h == [i \in 0 .. m + 1 |-> IF i = m + 1 THEN Moves(f[m], m + 1) ELSE f[i]]
    <2> HIDE DEF Moves, b
    <2>3. \A i \in 0 .. m + 1 : h[i] = IF i = 0 THEN b ELSE Moves(h[i - 1], i)
        <3>1. SUFFICES ASSUME NEW i \in 0 .. m + 1
                       PROVE  h[i] = IF i = 0 THEN b ELSE Moves(h[i - 1], i)
            OBVIOUS
        <3>2. CASE i = m + 1
            <4>1. h[m + 1] = Moves(f[m], m + 1) /\ h[m] = f[m]
                OBVIOUS
            <4>2. QED
                BY <3>2, <4>1
        <3>3. CASE i \in 0 .. m /\ i # 0
            <4>1. i - 1 \in 0 .. m /\ h[i] = f[i] /\ h[i - 1] = f[i - 1]
                BY <3>3
            <4>2. QED
                BY <2>2, <3>3, <4>1
        <3>4. CASE i = 0
            BY <2>2, <3>4
        <3>5. QED
            BY <3>2, <3>3, <3>4
    <2>4. h = [i \in 0 .. m + 1 |-> h[i]]
        OBVIOUS
    <2> HIDE DEF h
    <2>5. h = [i \in 0 .. m + 1 |-> IF i = 0 THEN b ELSE Moves(h[i - 1], i)]
        BY <2>3, <2>4
    <2>6. IsFlat(h, entries, m + 1)
        BY <2>5 DEF IsFlat, Moves, b
    <2>7. QED
        BY <2>6
<1> HIDE DEF S
<1>3. n \in S
    BY <1>1, <1>2, NatSetInduction
<1>4. QED
    BY <1>3 DEF S

LEMMA FlatIs ==
    ASSUME NEW entries, Len(entries) \in Nat
    PROVE  /\ FlatTo(entries, 0) = <<>>
           /\ \A i \in Nat : i + 1 <= Len(entries) => FlatTo(entries, i + 1) = FlatTo(entries, i) \o entries[i + 1].spans
<1> DEFINE g == CHOOSE f : IsFlat(f, entries, Len(entries))
<1>1. IsFlat(g, entries, Len(entries))
    BY FlatExists
<1>2. \A i : FlatTo(entries, i) = g[i]
    BY DEF FlatTo, IsFlat
<1> HIDE DEF g
<1> DEFINE b == <<>>
           Moves(x, i) == x \o entries[i].spans
<1>3. \A i \in 0 .. Len(entries) : g[i] = IF i = 0 THEN b ELSE Moves(g[i - 1], i)
    BY <1>1 DEF IsFlat
<1> HIDE DEF b, Moves
<1>4. g[0] = b
    BY <1>3
<1>5. ASSUME NEW i \in Nat, i + 1 <= Len(entries) PROVE g[i + 1] = Moves(g[i], i + 1)
    <2>1. i + 1 \in 0 .. Len(entries) /\ i + 1 # 0 /\ (i + 1) - 1 = i
        BY <1>5
    <2>2. QED
        BY <1>3, <2>1
<1>6. QED
    BY <1>2, <1>4, <1>5 DEF b, Moves

(* The spans of an entry staged, one by one.                               *)
IsStage(f, a, spans, n) ==
    f = [i \in 0 .. n |-> IF i = 0 THEN [bases |-> <<>>, ends |-> a.ends, state |-> a.state, recency |-> a.recency] ELSE PlaceSpan(f[i - 1], spans[i])]

LEMMA StageExists ==
    ASSUME NEW a, NEW spans, NEW n \in Nat
    PROVE  \E f : IsStage(f, a, spans, n)
<1> DEFINE Moves(x, i) == PlaceSpan(x, spans[i])
           S == {m \in Nat : \E f : IsStage(f, a, spans, m)}
<1>1. 0 \in S
    <2> DEFINE f == [i \in 0 .. 0 |-> [bases |-> <<>>, ends |-> a.ends, state |-> a.state, recency |-> a.recency]]
    <2>1. IsStage(f, a, spans, 0)
        BY DEF IsStage
    <2>2. QED
        BY <2>1
<1>2. ASSUME NEW m \in Nat, m \in S PROVE m + 1 \in S
    <2>1. PICK f : IsStage(f, a, spans, m)
        BY <1>2
    <2> DEFINE b == [bases |-> <<>>, ends |-> a.ends, state |-> a.state, recency |-> a.recency]
    <2>2. \A i \in 0 .. m : f[i] = IF i = 0 THEN b ELSE Moves(f[i - 1], i)
        BY <2>1 DEF IsStage
    <2> DEFINE h == [i \in 0 .. m + 1 |-> IF i = m + 1 THEN Moves(f[m], m + 1) ELSE f[i]]
    <2> HIDE DEF Moves, b
    <2>3. \A i \in 0 .. m + 1 : h[i] = IF i = 0 THEN b ELSE Moves(h[i - 1], i)
        <3>1. SUFFICES ASSUME NEW i \in 0 .. m + 1
                       PROVE  h[i] = IF i = 0 THEN b ELSE Moves(h[i - 1], i)
            OBVIOUS
        <3>2. CASE i = m + 1
            <4>1. h[m + 1] = Moves(f[m], m + 1) /\ h[m] = f[m]
                OBVIOUS
            <4>2. QED
                BY <3>2, <4>1
        <3>3. CASE i \in 0 .. m /\ i # 0
            <4>1. i - 1 \in 0 .. m /\ h[i] = f[i] /\ h[i - 1] = f[i - 1]
                BY <3>3
            <4>2. QED
                BY <2>2, <3>3, <4>1
        <3>4. CASE i = 0
            BY <2>2, <3>4
        <3>5. QED
            BY <3>2, <3>3, <3>4
    <2>4. h = [i \in 0 .. m + 1 |-> h[i]]
        OBVIOUS
    <2> HIDE DEF h
    <2>5. h = [i \in 0 .. m + 1 |-> IF i = 0 THEN b ELSE Moves(h[i - 1], i)]
        BY <2>3, <2>4
    <2>6. IsStage(h, a, spans, m + 1)
        BY <2>5 DEF IsStage, Moves, b
    <2>7. QED
        BY <2>6
<1> HIDE DEF S
<1>3. n \in S
    BY <1>1, <1>2, NatSetInduction
<1>4. QED
    BY <1>3 DEF S

LEMMA StageIs ==
    ASSUME NEW a, NEW spans, Len(spans) \in Nat
    PROVE  /\ StageTo(a, spans, 0) = [bases |-> <<>>, ends |-> a.ends, state |-> a.state, recency |-> a.recency]
           /\ \A i \in Nat : i + 1 <= Len(spans) => StageTo(a, spans, i + 1) = PlaceSpan(StageTo(a, spans, i), spans[i + 1])
<1> DEFINE g == CHOOSE f : IsStage(f, a, spans, Len(spans))
<1>1. IsStage(g, a, spans, Len(spans))
    BY StageExists
<1>2. \A i : StageTo(a, spans, i) = g[i]
    BY DEF StageTo, IsStage
<1> HIDE DEF g
<1> DEFINE b == [bases |-> <<>>, ends |-> a.ends, state |-> a.state, recency |-> a.recency]
           Moves(x, i) == PlaceSpan(x, spans[i])
<1>3. \A i \in 0 .. Len(spans) : g[i] = IF i = 0 THEN b ELSE Moves(g[i - 1], i)
    BY <1>1 DEF IsStage
<1> HIDE DEF b, Moves
<1>4. g[0] = b
    BY <1>3
<1>5. ASSUME NEW i \in Nat, i + 1 <= Len(spans) PROVE g[i + 1] = Moves(g[i], i + 1)
    <2>1. i + 1 \in 0 .. Len(spans) /\ i + 1 # 0 /\ (i + 1) - 1 = i
        BY <1>5
    <2>2. QED
        BY <1>3, <2>1
<1>6. QED
    BY <1>2, <1>4, <1>5 DEF b, Moves

(* The spans of a bundle decided, one by one.                              *)
IsAdmit(f, a, spans, n) ==
    f = [i \in 0 .. n |-> IF i = 0 THEN [admitted |-> <<>>, replayed |-> {}, running |-> [k \in Key |-> None]] ELSE Decide(a, f[i - 1], spans[i])]

LEMMA AdmitExists ==
    ASSUME NEW a, NEW spans, NEW n \in Nat
    PROVE  \E f : IsAdmit(f, a, spans, n)
<1> DEFINE Moves(x, i) == Decide(a, x, spans[i])
           S == {m \in Nat : \E f : IsAdmit(f, a, spans, m)}
<1>1. 0 \in S
    <2> DEFINE f == [i \in 0 .. 0 |-> [admitted |-> <<>>, replayed |-> {}, running |-> [k \in Key |-> None]]]
    <2>1. IsAdmit(f, a, spans, 0)
        BY DEF IsAdmit
    <2>2. QED
        BY <2>1
<1>2. ASSUME NEW m \in Nat, m \in S PROVE m + 1 \in S
    <2>1. PICK f : IsAdmit(f, a, spans, m)
        BY <1>2
    <2> DEFINE b == [admitted |-> <<>>, replayed |-> {}, running |-> [k \in Key |-> None]]
    <2>2. \A i \in 0 .. m : f[i] = IF i = 0 THEN b ELSE Moves(f[i - 1], i)
        BY <2>1 DEF IsAdmit
    <2> DEFINE h == [i \in 0 .. m + 1 |-> IF i = m + 1 THEN Moves(f[m], m + 1) ELSE f[i]]
    <2> HIDE DEF Moves, b
    <2>3. \A i \in 0 .. m + 1 : h[i] = IF i = 0 THEN b ELSE Moves(h[i - 1], i)
        <3>1. SUFFICES ASSUME NEW i \in 0 .. m + 1
                       PROVE  h[i] = IF i = 0 THEN b ELSE Moves(h[i - 1], i)
            OBVIOUS
        <3>2. CASE i = m + 1
            <4>1. h[m + 1] = Moves(f[m], m + 1) /\ h[m] = f[m]
                OBVIOUS
            <4>2. QED
                BY <3>2, <4>1
        <3>3. CASE i \in 0 .. m /\ i # 0
            <4>1. i - 1 \in 0 .. m /\ h[i] = f[i] /\ h[i - 1] = f[i - 1]
                BY <3>3
            <4>2. QED
                BY <2>2, <3>3, <4>1
        <3>4. CASE i = 0
            BY <2>2, <3>4
        <3>5. QED
            BY <3>2, <3>3, <3>4
    <2>4. h = [i \in 0 .. m + 1 |-> h[i]]
        OBVIOUS
    <2> HIDE DEF h
    <2>5. h = [i \in 0 .. m + 1 |-> IF i = 0 THEN b ELSE Moves(h[i - 1], i)]
        BY <2>3, <2>4
    <2>6. IsAdmit(h, a, spans, m + 1)
        BY <2>5 DEF IsAdmit, Moves, b
    <2>7. QED
        BY <2>6
<1> HIDE DEF S
<1>3. n \in S
    BY <1>1, <1>2, NatSetInduction
<1>4. QED
    BY <1>3 DEF S

LEMMA AdmitIs ==
    ASSUME NEW a, NEW spans, Len(spans) \in Nat
    PROVE  /\ AdmitTo(a, spans, 0) = [admitted |-> <<>>, replayed |-> {}, running |-> [k \in Key |-> None]]
           /\ \A i \in Nat : i + 1 <= Len(spans) => AdmitTo(a, spans, i + 1) = Decide(a, AdmitTo(a, spans, i), spans[i + 1])
<1> DEFINE g == CHOOSE f : IsAdmit(f, a, spans, Len(spans))
<1>1. IsAdmit(g, a, spans, Len(spans))
    BY AdmitExists
<1>2. \A i : AdmitTo(a, spans, i) = g[i]
    BY DEF AdmitTo, IsAdmit
<1> HIDE DEF g
<1> DEFINE b == [admitted |-> <<>>, replayed |-> {}, running |-> [k \in Key |-> None]]
           Moves(x, i) == Decide(a, x, spans[i])
<1>3. \A i \in 0 .. Len(spans) : g[i] = IF i = 0 THEN b ELSE Moves(g[i - 1], i)
    BY <1>1 DEF IsAdmit
<1> HIDE DEF b, Moves
<1>4. g[0] = b
    BY <1>3
<1>5. ASSUME NEW i \in Nat, i + 1 <= Len(spans) PROVE g[i + 1] = Moves(g[i], i + 1)
    <2>1. i + 1 \in 0 .. Len(spans) /\ i + 1 # 0 /\ (i + 1) - 1 = i
        BY <1>5
    <2>2. QED
        BY <1>3, <2>1
<1>6. QED
    BY <1>2, <1>4, <1>5 DEF b, Moves

(* The log folded, entry by entry.                                         *)
IsFold(f, entries, n) ==
    f = [i \in 0 .. n |-> IF i = 0 THEN NewAllocator ELSE Apply(f[i - 1], entries[i])]

LEMMA FoldExists ==
    ASSUME NEW entries, NEW n \in Nat
    PROVE  \E f : IsFold(f, entries, n)
<1> DEFINE Moves(x, i) == Apply(x, entries[i])
           S == {m \in Nat : \E f : IsFold(f, entries, m)}
<1>1. 0 \in S
    <2> DEFINE f == [i \in 0 .. 0 |-> NewAllocator]
    <2>1. IsFold(f, entries, 0)
        BY DEF IsFold
    <2>2. QED
        BY <2>1
<1>2. ASSUME NEW m \in Nat, m \in S PROVE m + 1 \in S
    <2>1. PICK f : IsFold(f, entries, m)
        BY <1>2
    <2> DEFINE b == NewAllocator
    <2>2. \A i \in 0 .. m : f[i] = IF i = 0 THEN b ELSE Moves(f[i - 1], i)
        BY <2>1 DEF IsFold
    <2> DEFINE h == [i \in 0 .. m + 1 |-> IF i = m + 1 THEN Moves(f[m], m + 1) ELSE f[i]]
    <2> HIDE DEF Moves, b
    <2>3. \A i \in 0 .. m + 1 : h[i] = IF i = 0 THEN b ELSE Moves(h[i - 1], i)
        <3>1. SUFFICES ASSUME NEW i \in 0 .. m + 1
                       PROVE  h[i] = IF i = 0 THEN b ELSE Moves(h[i - 1], i)
            OBVIOUS
        <3>2. CASE i = m + 1
            <4>1. h[m + 1] = Moves(f[m], m + 1) /\ h[m] = f[m]
                OBVIOUS
            <4>2. QED
                BY <3>2, <4>1
        <3>3. CASE i \in 0 .. m /\ i # 0
            <4>1. i - 1 \in 0 .. m /\ h[i] = f[i] /\ h[i - 1] = f[i - 1]
                BY <3>3
            <4>2. QED
                BY <2>2, <3>3, <4>1
        <3>4. CASE i = 0
            BY <2>2, <3>4
        <3>5. QED
            BY <3>2, <3>3, <3>4
    <2>4. h = [i \in 0 .. m + 1 |-> h[i]]
        OBVIOUS
    <2> HIDE DEF h
    <2>5. h = [i \in 0 .. m + 1 |-> IF i = 0 THEN b ELSE Moves(h[i - 1], i)]
        BY <2>3, <2>4
    <2>6. IsFold(h, entries, m + 1)
        BY <2>5 DEF IsFold, Moves, b
    <2>7. QED
        BY <2>6
<1> HIDE DEF S
<1>3. n \in S
    BY <1>1, <1>2, NatSetInduction
<1>4. QED
    BY <1>3 DEF S

LEMMA FoldIs ==
    ASSUME NEW entries, Len(entries) \in Nat
    PROVE  /\ FoldTo(entries, 0) = NewAllocator
           /\ \A i \in Nat : i + 1 <= Len(entries) => FoldTo(entries, i + 1) = Apply(FoldTo(entries, i), entries[i + 1])
<1> DEFINE g == CHOOSE f : IsFold(f, entries, Len(entries))
<1>1. IsFold(g, entries, Len(entries))
    BY FoldExists
<1>2. \A i : FoldTo(entries, i) = g[i]
    BY DEF FoldTo, IsFold
<1> HIDE DEF g
<1> DEFINE b == NewAllocator
           Moves(x, i) == Apply(x, entries[i])
<1>3. \A i \in 0 .. Len(entries) : g[i] = IF i = 0 THEN b ELSE Moves(g[i - 1], i)
    BY <1>1 DEF IsFold
<1> HIDE DEF b, Moves
<1>4. g[0] = b
    BY <1>3
<1>5. ASSUME NEW i \in Nat, i + 1 <= Len(entries) PROVE g[i + 1] = Moves(g[i], i + 1)
    <2>1. i + 1 \in 0 .. Len(entries) /\ i + 1 # 0 /\ (i + 1) - 1 = i
        BY <1>5
    <2>2. QED
        BY <1>3, <2>1
<1>6. QED
    BY <1>2, <1>4, <1>5 DEF b, Moves

-----------------------------------------------------------------------------
(* The sequence space.                                                     *)

LEMMA Remainder ==
    ASSUME NEW a \in Nat, NEW d \in Nat \ {0}
    PROVE  /\ a \div d \in Nat /\ a % d \in Nat /\ a % d < d
           /\ a = (d * (a \div d)) + (a % d)
  BY SMT

LEMMA MultiplesApart ==
    ASSUME NEW m \in Nat \ {0}, NEW x \in Nat, NEW y \in Nat, x > y
    PROVE  m * x >= m * y + m
<1>1. PICK d \in Nat : x = y + 1 + d
    <2>1. x - y - 1 \in Nat /\ x = y + 1 + (x - y - 1)
        OBVIOUS
    <2>2. QED
        BY <2>1
<1>2. m * x = m * y + m + m * d
    BY <1>1
<1>3. m * d \in Nat /\ m * y \in Nat
    OBVIOUS
<1>4. QED
    BY <1>2, <1>3

(* Two numbers closer than the modulus that agree in it are one.           *)
LEMMA CloseAgree ==
    ASSUME NEW m \in Nat \ {0}, NEW x \in Nat, NEW y \in Nat,
           x % m = y % m, x < y + m, y < x + m
    PROVE  x = y
<1> DEFINE a == x \div m
           b == y \div m
           r == x % m
<1>1. a \in Nat /\ b \in Nat /\ r \in Nat /\ x = (m * a) + r /\ y = (m * b) + r
    BY Remainder
<1> HIDE DEF a, b, r
<1>2. m * a \in Nat /\ m * b \in Nat
    BY <1>1
<1>3. ~ (a > b)
    BY <1>1, <1>2, MultiplesApart
<1>4. ~ (b > a)
    BY <1>1, <1>2, MultiplesApart
<1>5. a = b
    BY <1>1, <1>3, <1>4
<1>6. QED
    BY <1>1, <1>5

LEMMA SmallRemainder ==
    ASSUME NEW m \in Nat \ {0}, NEW x \in Nat, x < m
    PROVE  x % m = x
<1> DEFINE a == x \div m
           r == x % m
<1>1. a \in Nat /\ r \in Nat /\ r < m /\ x = (m * a) + r
    BY Remainder
<1> HIDE DEF a
<1>2. a = 0
    <2>1. SUFFICES ASSUME a > 0 PROVE FALSE
        BY <1>1
    <2>2. m * a >= m * 0 + m
        BY <1>1, <2>1, MultiplesApart
    <2>3. m * 0 = 0
        OBVIOUS
    <2>4. m * a \in Nat
        BY <1>1
    <2>5. QED
        BY <1>1, <2>2, <2>3, <2>4
<1>3. m * 0 = 0
    OBVIOUS
<1>4. QED
    BY <1>1, <1>2, <1>3

LEMMA NextRemainder ==
    ASSUME NEW m \in Nat \ {0}, NEW x \in Nat
    PROVE  (x + 1) % m = IF x % m = m - 1 THEN 0 ELSE (x % m) + 1
<1> DEFINE a == x \div m
           r == x % m
           b == (x + 1) \div m
           s == (x + 1) % m
<1>1. /\ a \in Nat /\ r \in Nat /\ r < m /\ x = (m * a) + r
      /\ b \in Nat /\ s \in Nat /\ s < m /\ x + 1 = (m * b) + s
    BY Remainder
<1> HIDE DEF a, r, b, s
<1>2. m * a \in Nat /\ m * b \in Nat /\ m * (a + 1) = (m * a) + m
    BY <1>1
<1>3. CASE r = m - 1
    <2>1. ~ (b > a + 1)
        BY <1>1, <1>2, <1>3, MultiplesApart
    <2>2. ~ (a + 1 > b)
        BY <1>1, <1>2, <1>3, MultiplesApart
    <2>3. b = a + 1
        BY <1>1, <2>1, <2>2
    <2>4. s = 0
        BY <1>1, <1>2, <1>3, <2>3
    <2>5. QED
        BY <1>3, <2>4 DEF r, s
<1>4. CASE r # m - 1
    <2>1. ~ (b > a)
        BY <1>1, <1>2, <1>4, MultiplesApart
    <2>2. ~ (a > b)
        BY <1>1, <1>2, <1>4, MultiplesApart
    <2>3. b = a
        BY <1>1, <2>1, <2>2
    <2>4. s = r + 1
        BY <1>1, <1>2, <2>3
    <2>5. QED
        BY <1>4, <2>4 DEF r, s
<1>5. QED
    BY <1>3, <1>4

-----------------------------------------------------------------------------
(* Spans and what is kept of them.                                         *)

WideSpan == [p : Producer \cup {None}, part : Partition, epoch : Nat, batch : Nat, first : Nat, count : Nat]

Span == [p : Producer \cup {None}, part : Partition, epoch : Epoch, batch : Batch, first : Nat, count : Counts]

Entry == [kind : {"commit", "trim", "retention"}, spans : Seq(WideSpan),
          part : Partition \cup {None}, start : Nat]

LineState == [epoch : Nat, sequence : Nat, base : Nat, count : Nat]

(* next_sequence is the successor in the space.                            *)
LEMMA NextIs ==
    ASSUME NEW b \in Nat
    PROVE  (b + 1) % (SeqMax + 1) = NextSequence(b % (SeqMax + 1))
<1>1. SeqMax + 1 \in Nat \ {0}
    BY SequencingAssumption
<1>2. (b + 1) % (SeqMax + 1) = IF b % (SeqMax + 1) = (SeqMax + 1) - 1 THEN 0 ELSE (b % (SeqMax + 1)) + 1
    BY <1>1, NextRemainder
<1>3. (SeqMax + 1) - 1 = SeqMax
    BY SequencingAssumption
<1>4. QED
    BY <1>2, <1>3 DEF NextSequence

LEMMA SequenceTyped ==
    ASSUME NEW s \in WideSpan
    PROVE  Sequence(s) \in Nat /\ Sequence(s) <= SeqMax
<1>1. SeqMax + 1 \in Nat \ {0} /\ s.first \in Nat
    BY SequencingAssumption DEF WideSpan
<1>2. s.first % (SeqMax + 1) \in Nat /\ s.first % (SeqMax + 1) < SeqMax + 1
    BY <1>1, Remainder
<1>3. QED
    BY <1>2, SequencingAssumption DEF Sequence

LEMMA StateTyped ==
    ASSUME NEW s \in WideSpan, NEW base \in Nat
    PROVE  StateOf(s, base) \in LineState /\ StateOf(s, base) # None
<1>1. StateOf(s, base) \in LineState
    BY SequenceTyped DEF StateOf, LineState, WideSpan
<1>2. QED
    BY <1>1, SequencingAssumption DEF LineState

LEMMA SpaceTyped == SeqMax \in Nat /\ SeqMax + 1 \in Nat \ {0} /\ Window \in Nat /\ Window <= SeqMax
BY SequencingAssumption

LEMMA SpanTyped == \A s \in WideSpan : s.batch \in Nat /\ s.epoch \in Nat
BY DEF WideSpan

LEMMA KeyTyped ==
    ASSUME NEW s \in WideSpan
    PROVE  /\ s.p # None <=> KeyOf(s) \in Key
           /\ KeyOf(s)[1] = s.p /\ KeyOf(s)[2] = s.part
BY SequencingAssumption DEF WideSpan, KeyOf, Key

-----------------------------------------------------------------------------
(* What the first n of a sequence come to depends on them alone.           *)

LEMMA RecordsTyped ==
    ASSUME NEW f \in Seq(WideSpan), NEW q
    PROVE  \A i \in 0 .. Len(f) : Records(f, i, q) \in Nat
<1> DEFINE S == {i \in Nat : i <= Len(f) => Records(f, i, q) \in Nat}
<1>0. Len(f) \in Nat
    OBVIOUS
<1>1. 0 \in S
    BY <1>0, RecordsIs
<1>2. ASSUME NEW i \in Nat, i \in S PROVE i + 1 \in S
    <2>1. SUFFICES ASSUME i + 1 <= Len(f) PROVE Records(f, i + 1, q) \in Nat
        OBVIOUS
    <2>2. Records(f, i, q) \in Nat
        BY <1>0, <1>2, <2>1
    <2>3. i + 1 \in 1 .. Len(f) /\ f[i + 1] \in WideSpan
        BY <1>0, <2>1
    <2>4. f[i + 1].count \in Nat
        BY <2>3 DEF WideSpan
    <2>5. Records(f, i + 1, q) = Records(f, i, q) + (IF f[i + 1].part = q THEN f[i + 1].count ELSE 0)
        BY <1>0, <2>1, RecordsIs
    <2>6. QED
        BY <2>2, <2>4, <2>5
<1> HIDE DEF S
<1>3. \A i \in Nat : i \in S
    BY <1>1, <1>2, NatSetInduction
<1>4. QED
    BY <1>0, <1>3 DEF S

LEMMA RecordsAgree ==
    ASSUME NEW f \in Seq(WideSpan), NEW g \in Seq(WideSpan), NEW q, NEW n \in Nat,
           n <= Len(f), n <= Len(g), \A i \in 1 .. n : f[i] = g[i]
    PROVE  \A i \in 0 .. n : Records(f, i, q) = Records(g, i, q)
<1> DEFINE S == {i \in Nat : i <= n => Records(f, i, q) = Records(g, i, q)}
<1>0. Len(f) \in Nat /\ Len(g) \in Nat
    OBVIOUS
<1>1. 0 \in S
    BY <1>0, RecordsIs
<1>2. ASSUME NEW i \in Nat, i \in S PROVE i + 1 \in S
    <2>1. SUFFICES ASSUME i + 1 <= n PROVE Records(f, i + 1, q) = Records(g, i + 1, q)
        OBVIOUS
    <2>2. Records(f, i, q) = Records(g, i, q)
        BY <1>2, <2>1
    <2>3. i + 1 <= Len(f) /\ i + 1 <= Len(g) /\ f[i + 1] = g[i + 1]
        BY <1>0, <2>1
    <2>4. Records(f, i + 1, q) = Records(f, i, q) + (IF f[i + 1].part = q THEN f[i + 1].count ELSE 0)
        BY <1>0, <2>3, RecordsIs
    <2>5. Records(g, i + 1, q) = Records(g, i, q) + (IF g[i + 1].part = q THEN g[i + 1].count ELSE 0)
        BY <1>0, <2>3, RecordsIs
    <2>6. QED
        BY <2>2, <2>3, <2>4, <2>5
<1> HIDE DEF S
<1>3. \A i \in Nat : i \in S
    BY <1>1, <1>2, NatSetInduction
<1>4. QED
    BY <1>0, <1>3 DEF S

Starts(f, g) == Len(f) <= Len(g) /\ \A i \in 1 .. Len(f) : f[i] = g[i]

LEMMA RecordsStart ==
    ASSUME NEW f \in Seq(WideSpan), NEW g \in Seq(WideSpan), NEW q, Starts(f, g)
    PROVE  \A i \in 0 .. Len(f) : Records(f, i, q) = Records(g, i, q)
<1>1. Len(f) \in Nat /\ Len(f) <= Len(f)
    OBVIOUS
<1>2. Len(f) <= Len(g) /\ \A i \in 1 .. Len(f) : f[i] = g[i]
    BY DEF Starts
<1>3. QED
    BY <1>1, <1>2, RecordsAgree, SMTT(30)

LEMMA Joined ==
    ASSUME NEW T, NEW f \in Seq(T), NEW g \in Seq(T)
    PROVE  /\ f \o g \in Seq(T) /\ Len(f \o g) = Len(f) + Len(g)
           /\ \A i \in 1 .. Len(f) : (f \o g)[i] = f[i]
           /\ \A i \in 1 .. Len(g) : (f \o g)[Len(f) + i] = g[i]
BY SMT

LEMMA JoinedAfter ==
    \A f, g \in Seq(WideSpan) : \A i \in 1 .. Len(g) : (f \o g)[Len(f) + i] = g[i]
BY Joined

LEMMA FlatTyped ==
    ASSUME NEW d \in Seq(Entry), NEW n \in 0 .. Len(d)
    PROVE  FlatTo(d, n) \in Seq(WideSpan)
<1> DEFINE S == {i \in Nat : i <= Len(d) => FlatTo(d, i) \in Seq(WideSpan)}
<1>0. Len(d) \in Nat
    OBVIOUS
<1>1. 0 \in S
    <2>1. FlatTo(d, 0) = <<>>
        BY <1>0, FlatIs
    <2>2. << >> \in Seq(WideSpan)
        OBVIOUS
    <2>3. QED
        BY <2>1, <2>2
<1>2. ASSUME NEW i \in Nat, i \in S PROVE i + 1 \in S
    <2>1. SUFFICES ASSUME i + 1 <= Len(d) PROVE FlatTo(d, i + 1) \in Seq(WideSpan)
        OBVIOUS
    <2>2. FlatTo(d, i) \in Seq(WideSpan)
        BY <1>0, <1>2, <2>1
    <2>3. i + 1 \in 1 .. Len(d) /\ d[i + 1] \in Entry
        BY <1>0, <2>1
    <2>4. d[i + 1].spans \in Seq(WideSpan)
        BY <2>3 DEF Entry
    <2>5. FlatTo(d, i + 1) = FlatTo(d, i) \o d[i + 1].spans
        BY <1>0, <2>1, FlatIs
    <2>6. QED
        BY <2>2, <2>4, <2>5, Joined
<1> HIDE DEF S
<1>3. \A i \in Nat : i \in S
    BY <1>1, <1>2, NatSetInduction
<1>4. QED
    BY <1>0, <1>3 DEF S

(* The log only grows, and the folds of its first n entries stand.         *)
LEMMA EntriesStand ==
    ASSUME NEW d \in Seq(Entry), NEW e \in Entry
    PROVE  /\ Append(d, e) \in Seq(Entry) /\ Len(Append(d, e)) = Len(d) + 1
           /\ Append(d, e)[Len(d) + 1] = e
           /\ \A i \in 1 .. Len(d) : Append(d, e)[i] = d[i]
OBVIOUS

LEMMA FlatStands ==
    ASSUME NEW d \in Seq(Entry), NEW e \in Entry, NEW n \in 0 .. Len(d)
    PROVE  FlatTo(Append(d, e), n) = FlatTo(d, n)
<1> DEFINE g == Append(d, e)
           S == {i \in Nat : i <= Len(d) => FlatTo(g, i) = FlatTo(d, i)}
<1>0. Len(d) \in Nat /\ Len(g) = Len(d) + 1 /\ \A i \in 1 .. Len(d) : g[i] = d[i]
    BY EntriesStand
<1> HIDE DEF g
<1>1. 0 \in S
    BY <1>0, FlatIs
<1>2. ASSUME NEW i \in Nat, i \in S PROVE i + 1 \in S
    <2>1. SUFFICES ASSUME i + 1 <= Len(d) PROVE FlatTo(g, i + 1) = FlatTo(d, i + 1)
        OBVIOUS
    <2>2. FlatTo(g, i) = FlatTo(d, i)
        BY <1>0, <1>2, <2>1
    <2>3. g[i + 1] = d[i + 1] /\ i + 1 <= Len(g) /\ Len(g) \in Nat
        BY <1>0, <2>1
    <2>4. FlatTo(g, i + 1) = FlatTo(g, i) \o g[i + 1].spans /\ FlatTo(d, i + 1) = FlatTo(d, i) \o d[i + 1].spans
        BY <1>0, <2>1, <2>3, FlatIs
    <2>6. QED
        BY <2>2, <2>3, <2>4
<1> HIDE DEF S
<1>3. \A i \in Nat : i \in S
    BY <1>1, <1>2, NatSetInduction
<1>4. QED
    BY <1>0, <1>3 DEF S, g

LEMMA FoldStands ==
    ASSUME NEW d \in Seq(Entry), NEW e \in Entry, NEW n \in 0 .. Len(d)
    PROVE  FoldTo(Append(d, e), n) = FoldTo(d, n)
<1> DEFINE g == Append(d, e)
           S == {i \in Nat : i <= Len(d) => FoldTo(g, i) = FoldTo(d, i)}
<1>0. Len(d) \in Nat /\ Len(g) = Len(d) + 1 /\ \A i \in 1 .. Len(d) : g[i] = d[i]
    BY EntriesStand
<1> HIDE DEF g
<1>1. 0 \in S
    BY <1>0, FoldIs
<1>2. ASSUME NEW i \in Nat, i \in S PROVE i + 1 \in S
    <2>1. SUFFICES ASSUME i + 1 <= Len(d) PROVE FoldTo(g, i + 1) = FoldTo(d, i + 1)
        OBVIOUS
    <2>2. FoldTo(g, i) = FoldTo(d, i)
        BY <1>0, <1>2, <2>1
    <2>3. g[i + 1] = d[i + 1] /\ i + 1 <= Len(g) /\ Len(g) \in Nat
        BY <1>0, <2>1
    <2>4. FoldTo(g, i + 1) = Apply(FoldTo(g, i), g[i + 1]) /\ FoldTo(d, i + 1) = Apply(FoldTo(d, i), d[i + 1])
        BY <1>0, <2>1, <2>3, FoldIs
    <2>6. QED
        BY <2>2, <2>3, <2>4
<1> HIDE DEF S
<1>3. \A i \in Nat : i \in S
    BY <1>1, <1>2, NatSetInduction
<1>4. QED
    BY <1>0, <1>3 DEF S, g

-----------------------------------------------------------------------------
(* The allocator and the spans it was folded from.                         *)

IsLast(f, k, i) ==
    /\ i \in DOMAIN f /\ KeyOf(f[i]) = k
    /\ \A j \in i + 1 .. Len(f) : KeyOf(f[j]) # k

StateAt(f, k, state) == \E i \in DOMAIN f : IsLast(f, k, i) /\ state = StateOf(f[i], Records(f, i - 1, k[2]))

EndsOf(f, ends) == ends \in [Partition -> Nat] /\ \A q \in Partition : ends[q] = Records(f, Len(f), q)

StatesOf(f, state) ==
    /\ state \in [Key -> LineState \cup {None}]
    /\ \A k \in Key : state[k] # None => StateAt(f, k, state[k])

LEMMA OneMore ==
    ASSUME NEW T, NEW f \in Seq(T), NEW s \in T
    PROVE  /\ Append(f, s) \in Seq(T) /\ Len(Append(f, s)) = Len(f) + 1
           /\ Append(f, s)[Len(f) + 1] = s
           /\ \A i \in 1 .. Len(f) : Append(f, s)[i] = f[i]
           /\ DOMAIN f = 1 .. Len(f) /\ DOMAIN Append(f, s) = 1 .. Len(f) + 1 /\ Len(f) \in Nat
OBVIOUS

LEMMA RecordsOneMore ==
    ASSUME NEW f \in Seq(WideSpan), NEW s \in WideSpan, NEW q
    PROVE  /\ \A i \in 0 .. Len(f) : Records(Append(f, s), i, q) = Records(f, i, q)
           /\ Records(Append(f, s), Len(f) + 1, q) = Records(f, Len(f), q) + (IF s.part = q THEN s.count ELSE 0)
<1> DEFINE g == Append(f, s)
<1>1. /\ g \in Seq(WideSpan) /\ Len(g) = Len(f) + 1 /\ Len(f) \in Nat
      /\ g[Len(f) + 1] = s /\ \A i \in 1 .. Len(f) : g[i] = f[i]
    BY OneMore
<1> HIDE DEF g
<1>2. \A i \in 0 .. Len(f) : Records(g, i, q) = Records(f, i, q)
    <2>1. Len(f) <= Len(g) /\ Len(f) <= Len(f) /\ \A i \in 1 .. Len(f) : f[i] = g[i]
        BY <1>1
    <2>2. \A i \in 0 .. Len(f) : Records(f, i, q) = Records(g, i, q)
        BY <1>1, <2>1, RecordsAgree
    <2>3. QED
        BY <2>2
<1>3. Records(g, Len(f) + 1, q) = Records(g, Len(f), q) + (IF g[Len(f) + 1].part = q THEN g[Len(f) + 1].count ELSE 0)
    <2>1. Len(g) \in Nat /\ Len(f) + 1 <= Len(g)
        BY <1>1
    <2>2. \A i \in Nat : i + 1 <= Len(g) =>
              Records(g, i + 1, q) = Records(g, i, q) + (IF g[i + 1].part = q THEN g[i + 1].count ELSE 0)
        BY <2>1, RecordsIs
    <2>3. QED
        BY <1>1, <2>1, <2>2
<1>4. Len(f) \in 0 .. Len(f)
    BY <1>1
<1>5. QED
    BY <1>1, <1>2, <1>3, <1>4 DEF g

LEMMA EndsOneMore ==
    ASSUME NEW f \in Seq(WideSpan), NEW s \in WideSpan, NEW ends, EndsOf(f, ends)
    PROVE  EndsOf(Append(f, s), [ends EXCEPT ![s.part] = ends[s.part] + s.count])
<1> DEFINE g == Append(f, s)
           now == [ends EXCEPT ![s.part] = ends[s.part] + s.count]
<1>1. Len(g) = Len(f) + 1 /\ s.part \in Partition /\ s.count \in Nat
    BY OneMore DEF WideSpan
<1>2. now \in [Partition -> Nat]
    BY <1>1 DEF EndsOf
<1>3. ASSUME NEW q \in Partition PROVE now[q] = Records(g, Len(g), q)
    <2>1. Records(g, Len(g), q) = Records(f, Len(f), q) + (IF s.part = q THEN s.count ELSE 0)
        BY <1>1, RecordsOneMore
    <2>2. ends[q] = Records(f, Len(f), q) /\ ends[q] \in Nat
        BY DEF EndsOf
    <2>3. now[q] = IF s.part = q THEN ends[q] + s.count ELSE ends[q]
        BY <1>1 DEF EndsOf
    <2>4. QED
        BY <2>1, <2>2, <2>3
<1>4. QED
    BY <1>2, <1>3 DEF EndsOf

LEMMA LastStands ==
    ASSUME NEW f \in Seq(WideSpan), NEW s \in WideSpan, NEW k, KeyOf(s) # k, NEW i, IsLast(f, k, i)
    PROVE  IsLast(Append(f, s), k, i)
<1> DEFINE g == Append(f, s)
<1>1. /\ Len(g) = Len(f) + 1 /\ Len(f) \in Nat /\ DOMAIN f = 1 .. Len(f) /\ DOMAIN g = 1 .. Len(f) + 1
      /\ g[Len(f) + 1] = s /\ \A j \in 1 .. Len(f) : g[j] = f[j]
    BY OneMore
<1>2. i \in 1 .. Len(f) /\ KeyOf(f[i]) = k
    BY <1>1 DEF IsLast
<1> HIDE DEF g
<1>3. ASSUME NEW j \in i + 1 .. Len(g) PROVE KeyOf(g[j]) # k
    <2>1. CASE j = Len(f) + 1
        BY <1>1, <2>1
    <2>2. CASE j \in i + 1 .. Len(f)
        <3>1. j \in 1 .. Len(f)
            BY <1>1, <1>2, <2>2
        <3>2. QED
            BY <1>1, <2>2, <3>1 DEF IsLast
    <2>3. QED
        BY <1>1, <1>2, <2>1, <2>2
<1>4. QED
    BY <1>1, <1>2, <1>3 DEF IsLast, g

LEMMA LastSet ==
    ASSUME NEW f \in Seq(WideSpan), NEW s \in WideSpan
    PROVE  IsLast(Append(f, s), KeyOf(s), Len(f) + 1)
BY OneMore DEF IsLast

LEMMA StateStands ==
    ASSUME NEW f \in Seq(WideSpan), NEW s \in WideSpan, NEW k, KeyOf(s) # k, NEW state, StateAt(f, k, state)
    PROVE  StateAt(Append(f, s), k, state)
<1>1. PICK i \in DOMAIN f : IsLast(f, k, i) /\ state = StateOf(f[i], Records(f, i - 1, k[2]))
    BY DEF StateAt
<1>2. IsLast(Append(f, s), k, i)
    BY <1>1, LastStands
<1>3. i \in 1 .. Len(f) /\ i \in DOMAIN Append(f, s) /\ Append(f, s)[i] = f[i]
    BY OneMore
<1>4. i - 1 \in 0 .. Len(f)
    BY <1>3
<1>5. Records(Append(f, s), i - 1, k[2]) = Records(f, i - 1, k[2])
    BY <1>4, RecordsOneMore
<1>6. QED
    BY <1>1, <1>2, <1>3, <1>5 DEF StateAt

LEMMA StateSet ==
    ASSUME NEW f \in Seq(WideSpan), NEW s \in WideSpan
    PROVE  StateAt(Append(f, s), KeyOf(s), StateOf(s, Records(f, Len(f), s.part)))
<1> DEFINE n == Len(f) + 1
<1>1. IsLast(Append(f, s), KeyOf(s), n)
    BY LastSet
<1>2. n \in DOMAIN Append(f, s) /\ Append(f, s)[n] = s /\ n - 1 = Len(f) /\ n - 1 \in 0 .. Len(f)
    BY OneMore
<1>3. Records(Append(f, s), n - 1, s.part) = Records(f, Len(f), s.part)
    BY <1>2, RecordsOneMore
<1>4. KeyOf(s)[2] = s.part
    BY KeyTyped
<1> HIDE DEF n
<1>5. QED
    BY <1>1, <1>2, <1>3, <1>4 DEF StateAt

LEMMA StatesOneMore ==
    ASSUME NEW f \in Seq(WideSpan), NEW s \in WideSpan, NEW state, StatesOf(f, state)
    PROVE  StatesOf(Append(f, s), IF s.p = None THEN state
                                  ELSE [state EXCEPT ![KeyOf(s)] = StateOf(s, Records(f, Len(f), s.part))])
<1>1. CASE s.p = None
    <2>1. KeyOf(s) \notin Key
        BY <1>1, KeyTyped
    <2>2. ASSUME NEW k \in Key, state[k] # None PROVE StateAt(Append(f, s), k, state[k])
        BY <2>1, <2>2, StateStands DEF StatesOf
    <2>3. QED
        BY <1>1, <2>2 DEF StatesOf
<1>2. CASE s.p # None
    <2> DEFINE base == Records(f, Len(f), s.part)
               now == [state EXCEPT ![KeyOf(s)] = StateOf(s, base)]
    <2>1. KeyOf(s) \in Key
        BY <1>2, KeyTyped
    <2>2. base \in Nat
        <3>1. Len(f) \in 0 .. Len(f)
            OBVIOUS
        <3>2. QED
            BY <3>1, RecordsTyped
    <2>3. StateOf(s, base) \in LineState
        BY <2>2, StateTyped
    <2>4. StateAt(Append(f, s), KeyOf(s), StateOf(s, base))
        BY StateSet
    <2> HIDE DEF base
    <2>5. now \in [Key -> LineState \cup {None}]
        BY <2>1, <2>3 DEF StatesOf
    <2>6. ASSUME NEW k \in Key, now[k] # None PROVE StateAt(Append(f, s), k, now[k])
        <3>1. CASE k = KeyOf(s)
            <4>1. now[k] = StateOf(s, base)
                BY <2>1, <3>1 DEF StatesOf
            <4>2. QED
                BY <2>4, <3>1, <4>1
        <3>2. CASE k # KeyOf(s)
            <4>1. now[k] = state[k]
                BY <2>1, <3>2 DEF StatesOf
            <4>2. StateAt(f, k, state[k])
                BY <2>6, <4>1 DEF StatesOf
            <4>3. QED
                BY <3>2, <4>1, <4>2, StateStands
        <3>3. QED
            BY <3>1, <3>2
    <2>7. QED
        BY <1>2, <2>5, <2>6 DEF StatesOf, base
<1>3. QED
    BY <1>1, <1>2

LEMMA SameSequence ==
    ASSUME NEW T, NEW u \in Seq(T), NEW v \in Seq(T), Len(u) = Len(v), \A i \in 1 .. Len(v) : u[i] = v[i]
    PROVE  u = v
<1>1. u = [i \in 1 .. Len(v) |-> u[i]] /\ v = [i \in 1 .. Len(v) |-> v[i]]
    OBVIOUS
<1>2. QED
    BY <1>1

(* f and the first n of spans after it.                                    *)
Upto(f, spans, n) == [i \in 1 .. Len(f) + n |-> IF i <= Len(f) THEN f[i] ELSE spans[i - Len(f)]]

LEMMA UptoIs ==
    ASSUME NEW T, NEW f \in Seq(T), NEW spans \in Seq(T)
    PROVE  /\ Upto(f, spans, 0) = f
           /\ Upto(f, spans, Len(spans)) = f \o spans
           /\ \A n \in 0 .. Len(spans) : Upto(f, spans, n) \in Seq(T) /\ Len(Upto(f, spans, n)) = Len(f) + n
<1>0. Len(f) \in Nat /\ Len(spans) \in Nat
    OBVIOUS
<1>1. Upto(f, spans, 0) = f
    BY DEF Upto
<1>2. ASSUME NEW n \in 0 .. Len(spans)
      PROVE  Upto(f, spans, n) \in Seq(T) /\ Len(Upto(f, spans, n)) = Len(f) + n
    <2>1. Len(f) + n \in Nat
        BY <1>0
    <2>2. ASSUME NEW i \in 1 .. Len(f) + n PROVE (IF i <= Len(f) THEN f[i] ELSE spans[i - Len(f)]) \in T
        <3>1. CASE i <= Len(f)
            <4>1. i \in 1 .. Len(f)
                BY <1>0, <2>1, <3>1
            <4>2. QED
                BY <3>1, <4>1
        <3>2. CASE ~ (i <= Len(f))
            <4>1. i - Len(f) \in 1 .. Len(spans)
                BY <1>0, <2>1, <3>2
            <4>2. QED
                BY <3>2, <4>1
        <3>3. QED
            BY <3>1, <3>2
    <2>3. Upto(f, spans, n) \in [1 .. Len(f) + n -> T]
        BY <2>2 DEF Upto
    <2>4. QED
        BY <2>1, <2>3
<1>3. Upto(f, spans, Len(spans)) = f \o spans
    <2> DEFINE u == Upto(f, spans, Len(spans))
               v == f \o spans
    <2>1. u \in Seq(T) /\ Len(u) = Len(f) + Len(spans)
        BY <1>0, <1>2
    <2>2. /\ v \in Seq(T) /\ Len(v) = Len(f) + Len(spans)
          /\ \A i \in 1 .. Len(f) : v[i] = f[i]
          /\ \A i \in 1 .. Len(spans) : v[Len(f) + i] = spans[i]
        BY Joined
    <2> HIDE DEF v
    <2>3. ASSUME NEW i \in 1 .. Len(f) + Len(spans) PROVE u[i] = v[i]
        <3>1. CASE i <= Len(f)
            BY <1>0, <2>2, <3>1 DEF Upto
        <3>2. CASE ~ (i <= Len(f))
            <4>1. i - Len(f) \in 1 .. Len(spans) /\ Len(f) + (i - Len(f)) = i
                BY <1>0, <3>2
            <4>2. u[i] = spans[i - Len(f)]
                BY <1>0, <3>2 DEF Upto
            <4>3. QED
                BY <2>2, <4>1, <4>2
        <3>3. QED
            BY <3>1, <3>2
    <2> HIDE DEF u
    <2>4. QED
        BY <2>1, <2>2, <2>3, SameSequence DEF u, v
<1>4. QED
    BY <1>1, <1>2, <1>3

LEMMA UptoNext ==
    ASSUME NEW T, NEW f \in Seq(T), NEW spans \in Seq(T), NEW n \in Nat, n + 1 <= Len(spans)
    PROVE  Upto(f, spans, n + 1) = Append(Upto(f, spans, n), spans[n + 1])
<1>0. Len(f) \in Nat /\ Len(spans) \in Nat
    OBVIOUS
<1>1. n \in 0 .. Len(spans) /\ n + 1 \in 0 .. Len(spans)
    BY <1>0
<1> DEFINE u == Upto(f, spans, n)
           v == Upto(f, spans, n + 1)
<1>2. u \in Seq(T) /\ Len(u) = Len(f) + n /\ v \in Seq(T) /\ Len(v) = Len(f) + (n + 1)
    BY <1>1, UptoIs
<1>3. v[Len(u) + 1] = spans[n + 1]
    BY <1>0, <1>2 DEF Upto
<1>4. \A i \in 1 .. Len(u) : v[i] = u[i]
    BY <1>0, <1>2 DEF Upto
<1> HIDE DEF u, v
<1>5. Len(v) = Len(u) + 1
    BY <1>0, <1>2
<1>6. spans[n + 1] \in T
    BY <1>0
<1>7. QED
    <2>1. Append(u, spans[n + 1]) \in Seq(T) /\ Len(Append(u, spans[n + 1])) = Len(v)
        BY <1>2, <1>5, <1>6
    <2>2. \A i \in 1 .. Len(v) : Append(u, spans[n + 1])[i] = v[i]
        BY <1>2, <1>3, <1>4, <1>5
    <2>3. QED
        BY <1>2, <2>1, <2>2, SameSequence DEF u, v

(* stage: the bases are where the spans come to lie.                       *)
BasesOf(f, spans, bases, n) ==
    /\ bases \in Seq(Nat) /\ Len(bases) = n
    /\ \A j \in 1 .. n : bases[j] = Records(f \o spans, Len(f) + j - 1, spans[j].part)

StagedAt(f, spans, staged, n) ==
    /\ EndsOf(Upto(f, spans, n), staged.ends)
    /\ StatesOf(Upto(f, spans, n), staged.state)
    /\ BasesOf(f, spans, staged.bases, n)

LEMMA StageMarks ==
    ASSUME NEW f \in Seq(WideSpan), NEW spans \in Seq(WideSpan), NEW a,
           EndsOf(f, a.ends), StatesOf(f, a.state)
    PROVE  \A n \in 0 .. Len(spans) : StagedAt(f, spans, StageTo(a, spans, n), n)
<1> DEFINE S == {n \in Nat : n <= Len(spans) => StagedAt(f, spans, StageTo(a, spans, n), n)}
<1>0. Len(f) \in Nat /\ Len(spans) \in Nat
    OBVIOUS
<1>1. 0 \in S
    <2>1. StageTo(a, spans, 0) = [bases |-> <<>>, ends |-> a.ends, state |-> a.state, recency |-> a.recency]
        BY <1>0, StageIs
    <2>2. Upto(f, spans, 0) = f
        BY UptoIs
    <2>3. BasesOf(f, spans, << >>, 0)
        BY DEF BasesOf
    <2>4. QED
        BY <2>1, <2>2, <2>3 DEF StagedAt
<1>2. ASSUME NEW n \in Nat, n \in S PROVE n + 1 \in S
    <2>1. SUFFICES ASSUME n + 1 <= Len(spans) PROVE StagedAt(f, spans, StageTo(a, spans, n + 1), n + 1)
        OBVIOUS
    <2> DEFINE acc == StageTo(a, spans, n)
               s == spans[n + 1]
               u == Upto(f, spans, n)
               base == acc.ends[s.part]
    <2>2. StagedAt(f, spans, acc, n)
        BY <1>0, <1>2, <2>1
    <2>3. StageTo(a, spans, n + 1) = PlaceSpan(acc, s)
        BY <1>0, <2>1, StageIs
    <2>4. s \in WideSpan /\ s.part \in Partition
        <3>1. n + 1 \in 1 .. Len(spans)
            BY <1>0, <2>1
        <3>2. s \in WideSpan
            BY <3>1
        <3> HIDE DEF s
        <3>3. QED
            BY <3>2 DEF WideSpan
    <2>5. n \in 0 .. Len(spans) /\ n + 1 \in 0 .. Len(spans)
        BY <1>0, <2>1
    <2>6. u \in Seq(WideSpan) /\ Len(u) = Len(f) + n
        BY <2>5, UptoIs
    <2>7. Upto(f, spans, n + 1) = Append(u, s)
        BY <2>1, UptoNext
    <2> HIDE DEF u, s, acc
    <2>8. base = Records(u, Len(u), s.part) /\ base \in Nat
        BY <2>2, <2>4 DEF StagedAt, EndsOf, u
    <2>9. PlaceSpan(acc, s).ends = [acc.ends EXCEPT ![s.part] = acc.ends[s.part] + s.count]
        BY DEF PlaceSpan
    <2>10. EndsOf(Append(u, s), PlaceSpan(acc, s).ends)
        BY <2>2, <2>4, <2>6, <2>9, EndsOneMore DEF StagedAt, u
    <2>11. PlaceSpan(acc, s).state = IF s.p = None THEN acc.state
                                     ELSE [acc.state EXCEPT ![KeyOf(s)] = StateOf(s, Records(u, Len(u), s.part))]
        BY <2>8 DEF PlaceSpan
    <2>12. StatesOf(Append(u, s), PlaceSpan(acc, s).state)
        <3>1. StatesOf(u, acc.state)
            BY <2>2 DEF StagedAt, u
        <3>2. StatesOf(Append(u, s), IF s.p = None THEN acc.state
                                     ELSE [acc.state EXCEPT ![KeyOf(s)] = StateOf(s, Records(u, Len(u), s.part))])
            BY <2>4, <2>6, <3>1, StatesOneMore
        <3>3. QED
            BY <2>11, <3>2
    <2>13. BasesOf(f, spans, PlaceSpan(acc, s).bases, n + 1)
        <3> DEFINE bases == acc.bases
        <3>1. bases \in Seq(Nat) /\ Len(bases) = n
            BY <2>2 DEF StagedAt, BasesOf
        <3>2. \A j \in 1 .. n : bases[j] = Records(f \o spans, Len(f) + j - 1, spans[j].part)
            BY <2>2 DEF StagedAt, BasesOf
        <3>3. PlaceSpan(acc, s).bases = Append(bases, base)
            BY DEF PlaceSpan
        <3> HIDE DEF bases, base
        <3>4. /\ Append(bases, base) \in Seq(Nat) /\ Len(Append(bases, base)) = n + 1
              /\ Append(bases, base)[n + 1] = base
              /\ \A j \in 1 .. n : Append(bases, base)[j] = bases[j]
            BY <2>8, <3>1, OneMore
        <3>5. Records(u, Len(u), s.part) = Records(f \o spans, Len(u), s.part)
            <4>1. f \o spans \in Seq(WideSpan) /\ Len(f \o spans) = Len(f) + Len(spans)
                BY Joined
            <4>2. Len(u) \in Nat /\ Len(u) <= Len(f \o spans) /\ Len(u) <= Len(u)
                BY <1>0, <2>5, <2>6, <4>1
            <4>3. \A i \in 1 .. Len(u) : u[i] = (f \o spans)[i]
                <5>1. f \o spans = Upto(f, spans, Len(spans))
                    BY UptoIs
                <5>2. SUFFICES ASSUME NEW i \in 1 .. Len(u) PROVE u[i] = Upto(f, spans, Len(spans))[i]
                    BY <5>1
                <5>3. i \in 1 .. Len(f) + n /\ i \in 1 .. Len(f) + Len(spans)
                    BY <1>0, <2>5, <2>6
                <5>4. u[i] = IF i <= Len(f) THEN f[i] ELSE spans[i - Len(f)]
                    BY <5>3 DEF Upto, u
                <5>5. Upto(f, spans, Len(spans))[i] = IF i <= Len(f) THEN f[i] ELSE spans[i - Len(f)]
                    BY <5>3 DEF Upto
                <5>6. QED
                    BY <5>4, <5>5
            <4> DEFINE w == f \o spans
            <4> HIDE DEF w
            <4>4. \A i \in 0 .. Len(u) : Records(u, i, s.part) = Records(w, i, s.part)
                <5>1. w \in Seq(WideSpan) /\ Starts(u, w)
                    BY <4>1, <4>2, <4>3 DEF w, Starts
                <5>2. QED
                    BY <2>6, <5>1, RecordsStart
            <4>5. QED
                BY <4>2, <4>4 DEF w
        <3>6. base = Records(f \o spans, Len(f) + (n + 1) - 1, spans[n + 1].part)
            <4>1. Len(f) + (n + 1) - 1 = Len(u)
                BY <1>0, <2>6
            <4>2. QED
                BY <2>8, <3>5, <4>1 DEF s
        <3>7. ASSUME NEW j \in 1 .. n + 1
              PROVE  Append(bases, base)[j] = Records(f \o spans, Len(f) + j - 1, spans[j].part)
            <4>1. CASE j = n + 1
                BY <3>4, <3>6, <4>1
            <4>2. CASE j \in 1 .. n
                BY <3>2, <3>4, <4>2
            <4>3. j = n + 1 \/ j \in 1 .. n
                OBVIOUS
            <4>4. QED
                BY <4>1, <4>2, <4>3
        <3>8. QED
            BY <3>3, <3>4, <3>7 DEF BasesOf
    <2>14. QED
        BY <2>3, <2>7, <2>10, <2>12, <2>13 DEF StagedAt
<1> HIDE DEF S
<1>3. \A n \in Nat : n \in S
    BY <1>1, <1>2, NatSetInduction
<1>4. QED
    BY <1>0, <1>3 DEF S

AllocatorOf(next, ends, state, recency) ==
    [next |-> next, ends |-> ends, state |-> state, recency |-> recency]

MarkedBy(f, n, a) == a.next = n /\ EndsOf(f, a.ends) /\ StatesOf(f, a.state)

LEMMA EvictMarks ==
    ASSUME NEW f \in Seq(WideSpan), NEW next, NEW ends, NEW state, NEW recency,
           EndsOf(f, ends), StatesOf(f, state)
    PROVE  MarkedBy(f, next, EvictOverCap(AllocatorOf(next, ends, state, recency)))
<1> DEFINE a == AllocatorOf(next, ends, state, recency)
           over == Len(recency) - Cap
           gone == ToSet(SubSeq(recency, 1, over))
           kept == SubSeq(recency, over + 1, Len(recency))
           left == [k \in Key |-> IF k \in gone THEN None ELSE state[k]]
           b == [next |-> next, ends |-> ends, state |-> left, recency |-> kept]
<1>0. a.recency = recency /\ a.state = state /\ a.ends = ends /\ a.next = next
    BY DEF AllocatorOf
<1> HIDE DEF a
<1>1. EvictOverCap(a) = IF over <= 0 THEN a ELSE b
    BY <1>0 DEF EvictOverCap
<1>2. StatesOf(f, left)
    BY DEF StatesOf
<1> HIDE DEF gone, kept, left, over
<1>4. b.ends = ends /\ b.state = left /\ b.next = next
    OBVIOUS
<1> HIDE DEF b
<1>5. QED
    BY <1>0, <1>1, <1>2, <1>4 DEF MarkedBy, a

LEMMA FoldMarks ==
    ASSUME NEW d \in Seq(Entry), NEW n \in 0 .. Len(d)
    PROVE  MarkedBy(FlatTo(d, n), n, FoldTo(d, n))
<1> DEFINE P(i) == MarkedBy(FlatTo(d, i), i, FoldTo(d, i))
           S == {i \in Nat : i <= Len(d) => P(i)}
<1>0. Len(d) \in Nat
    OBVIOUS
<1>1. 0 \in S
    <2>1. FoldTo(d, 0) = NewAllocator /\ FlatTo(d, 0) = << >>
        BY <1>0, FoldIs, FlatIs
    <2>2. EndsOf(<< >>, NewAllocator.ends)
        <3>1. Len(<< >>) = 0
            OBVIOUS
        <3>2. \A q : Records(<< >>, 0, q) = 0
            BY <3>1, RecordsIs
        <3>3. QED
            BY <3>1, <3>2 DEF EndsOf, NewAllocator
    <2>3. StatesOf(<< >>, NewAllocator.state) /\ NewAllocator.next = 0
        BY DEF StatesOf, NewAllocator
    <2>4. QED
        BY <2>1, <2>2, <2>3 DEF MarkedBy
<1>2. ASSUME NEW i \in Nat, i \in S PROVE i + 1 \in S
    <2>1. SUFFICES ASSUME i + 1 <= Len(d) PROVE P(i + 1)
        OBVIOUS
    <2> DEFINE a == FoldTo(d, i)
               f == FlatTo(d, i)
               spans == d[i + 1].spans
               staged == Stage(a, spans)
    <2>2. P(i)
        BY <1>0, <1>2, <2>1
    <2>3. i \in 0 .. Len(d) /\ i + 1 \in 1 .. Len(d)
        BY <1>0, <2>1
    <2>4. f \in Seq(WideSpan)
        BY <2>3, FlatTyped
    <2>5. spans \in Seq(WideSpan)
        <3>1. d[i + 1] \in Entry
            BY <2>3
        <3>2. QED
            BY <3>1 DEF Entry
    <2>6. FlatTo(d, i + 1) = f \o spans /\ FoldTo(d, i + 1) = Apply(a, d[i + 1])
        BY <1>0, <2>1, FlatIs, FoldIs
    <2>7. Apply(a, d[i + 1]) = EvictOverCap(AllocatorOf(i + 1, staged.ends, staged.state, staged.recency))
        <3>1. a.next = i
            BY <2>2 DEF MarkedBy
        <3>2. QED
            BY <3>1 DEF Apply, AllocatorOf
    <2> HIDE DEF a, f, spans
    <2>8. StagedAt(f, spans, staged, Len(spans))
        <3>1. Len(spans) \in 0 .. Len(spans)
            BY <2>5
        <3>2. QED
            BY <2>2, <2>4, <2>5, <3>1, StageMarks DEF Stage, a, f, MarkedBy
    <2>9. Upto(f, spans, Len(spans)) = f \o spans /\ f \o spans \in Seq(WideSpan)
        BY <2>4, <2>5, UptoIs, Joined
    <2>10. EndsOf(f \o spans, staged.ends) /\ StatesOf(f \o spans, staged.state)
        BY <2>8, <2>9 DEF StagedAt
    <2> HIDE DEF staged
    <2>13. MarkedBy(f \o spans, i + 1, EvictOverCap(AllocatorOf(i + 1, staged.ends, staged.state, staged.recency)))
        BY <2>9, <2>10, EvictMarks
    <2>14. QED
        BY <2>6, <2>7, <2>13
<1> HIDE DEF S, P
<1>3. \A i \in Nat : i \in S
    BY <1>1, <1>2, NatSetInduction
<1>4. QED
    BY <1>0, <1>3 DEF S, P

-----------------------------------------------------------------------------
(* What the allocator knows of a line no fold has forgotten.               *)

HasLine(f, k) == \E i \in DOMAIN f : KeyOf(f[i]) = k

Forgot(d, n) ==
    {k \in Key : \E m \in 1 .. n :
        /\ \E i \in 1 .. m : \E j \in DOMAIN d[i].spans : KeyOf(d[i].spans[j]) = k
        /\ FoldTo(d, m).state[k] = None}

Known(f, k, state) == IF state = None THEN ~ HasLine(f, k) ELSE StateAt(f, k, state)

(* A span of the log is a span of one of its entries.                      *)
OfEntry(d, m, s) == \E i \in 1 .. m : \E j \in DOMAIN d[i].spans : d[i].spans[j] = s

LEMMA FlatFrom ==
    ASSUME NEW d \in Seq(Entry), NEW n \in 0 .. Len(d)
    PROVE  \A x \in DOMAIN FlatTo(d, n) : OfEntry(d, n, FlatTo(d, n)[x])
<1> DEFINE P(m) == \A x \in DOMAIN FlatTo(d, m) : OfEntry(d, m, FlatTo(d, m)[x])
           S == {m \in Nat : m <= Len(d) => P(m)}
<1>0. Len(d) \in Nat
    OBVIOUS
<1>1. 0 \in S
    <2>1. FlatTo(d, 0) = << >>
        BY <1>0, FlatIs
    <2>3. QED
        BY <2>1
<1>2. ASSUME NEW m \in Nat, m \in S PROVE m + 1 \in S
    <2>1. SUFFICES ASSUME m + 1 <= Len(d), NEW i \in DOMAIN FlatTo(d, m + 1)
                   PROVE  OfEntry(d, m + 1, FlatTo(d, m + 1)[i])
        OBVIOUS
    <2> DEFINE f == FlatTo(d, m)
               spans == d[m + 1].spans
    <2>2. m \in 0 .. Len(d) /\ m + 1 \in 1 .. Len(d)
        BY <1>0, <2>1
    <2>3. f \in Seq(WideSpan)
        BY <2>2, FlatTyped
    <2>4. spans \in Seq(WideSpan)
        <3>1. d[m + 1] \in Entry
            BY <2>2
        <3>2. QED
            BY <3>1 DEF Entry
    <2>5. FlatTo(d, m + 1) = f \o spans
        BY <1>0, <2>1, FlatIs
    <2>6. P(m)
        BY <1>0, <1>2, <2>1
    <2>7. i \in DOMAIN (f \o spans)
        BY <2>1, <2>5
    <2> HIDE DEF f, spans
    <2>8. Len(f) \in Nat /\ Len(spans) \in Nat /\ DOMAIN f = 1 .. Len(f) /\ DOMAIN spans = 1 .. Len(spans)
        BY <2>3, <2>4
    <2>9. i \in 1 .. Len(f) + Len(spans)
        BY <2>3, <2>4, <2>7, Joined
    <2>10. CASE i <= Len(f)
        <3>1. i \in DOMAIN f /\ (f \o spans)[i] = f[i]
            BY <2>3, <2>4, <2>8, <2>9, <2>10, Joined
        <3>3. PICK x \in 1 .. m : \E j \in DOMAIN d[x].spans : d[x].spans[j] = f[i]
            BY <2>6, <3>1 DEF f, OfEntry
        <3>4. x \in 1 .. m + 1
            OBVIOUS
        <3>5. QED
            BY <2>5, <3>1, <3>3, <3>4 DEF OfEntry
    <2>11. CASE ~ (i <= Len(f))
        <3>1. i - Len(f) \in DOMAIN spans /\ Len(f) + (i - Len(f)) = i
            BY <2>8, <2>9, <2>11
        <3>2. (f \o spans)[i] = spans[i - Len(f)]
            BY <2>3, <2>4, <2>8, <3>1, Joined
        <3>3. m + 1 \in 1 .. m + 1
            OBVIOUS
        <3>4. QED
            BY <2>5, <3>1, <3>2, <3>3 DEF spans, OfEntry
    <2>12. QED
        BY <2>10, <2>11
<1> HIDE DEF S, P
<1>3. \A m \in Nat : m \in S
    BY <1>1, <1>2, NatSetInduction
<1>4. QED
    BY <1>0, <1>3 DEF S, P

LEMMA FlatHolds ==
    ASSUME NEW d \in Seq(Entry), NEW n \in 0 .. Len(d), NEW k, HasLine(FlatTo(d, n), k)
    PROVE  \E i \in 1 .. n : \E j \in DOMAIN d[i].spans : KeyOf(d[i].spans[j]) = k
<1>1. PICK x \in DOMAIN FlatTo(d, n) : KeyOf(FlatTo(d, n)[x]) = k
    BY DEF HasLine
<1>2. OfEntry(d, n, FlatTo(d, n)[x])
    BY FlatFrom
<1>3. QED
    BY <1>1, <1>2 DEF OfEntry

LEMMA KnownIs ==
    ASSUME NEW d \in Seq(Entry), NEW n \in 0 .. Len(d), NEW k \in Key, k \notin Forgot(d, n)
    PROVE  Known(FlatTo(d, n), k, FoldTo(d, n).state[k])
<1>1. CASE FoldTo(d, n).state[k] = None
    <2>1. SUFFICES ASSUME HasLine(FlatTo(d, n), k) PROVE FALSE
        BY <1>1 DEF Known
    <2>2. \E i \in 1 .. n : \E j \in DOMAIN d[i].spans : KeyOf(d[i].spans[j]) = k
        BY <2>1, FlatHolds
    <2>3. n \in 1 .. n
        BY <2>2
    <2>4. QED
        BY <1>1, <2>2, <2>3 DEF Forgot
<1>2. CASE FoldTo(d, n).state[k] # None
    <2>1. StatesOf(FlatTo(d, n), FoldTo(d, n).state)
        BY FoldMarks DEF MarkedBy
    <2>2. QED
        BY <1>2, <2>1 DEF StatesOf, Known
<1>3. QED
    BY <1>1, <1>2

LEMMA ForgotRises ==
    ASSUME NEW d, NEW n \in Nat, NEW m \in Nat, n <= m
    PROVE  Forgot(d, n) \subseteq Forgot(d, m)
<1>1. \A i \in 1 .. n : i \in 1 .. m
    OBVIOUS
<1>2. QED
    BY <1>1 DEF Forgot

LEMMA ForgotStands ==
    ASSUME NEW d \in Seq(Entry), NEW e \in Entry, NEW n \in 0 .. Len(d)
    PROVE  Forgot(Append(d, e), n) = Forgot(d, n)
<1> DEFINE g == Append(d, e)
<1>1. \A m \in 1 .. n : FoldTo(g, m) = FoldTo(d, m)
    <2>1. ASSUME NEW m \in 1 .. n PROVE m \in 0 .. Len(d)
        OBVIOUS
    <2>2. QED
        BY <2>1, FoldStands
<1>2. \A m \in 1 .. n : \A i \in 1 .. m : g[i] = d[i]
    <2>1. ASSUME NEW m \in 1 .. n, NEW i \in 1 .. m PROVE i \in 1 .. Len(d)
        OBVIOUS
    <2>2. QED
        BY <2>1, EntriesStand
<1> HIDE DEF g
<1>3. Forgot(g, n) = Forgot(d, n)
    BY <1>1, <1>2 DEF Forgot
<1>4. QED
    BY <1>3 DEF g

LEMMA ForgottenIs == log \in Seq(Entry) => Forgotten = Forgot(log, Len(log))
<1>1. SUFFICES ASSUME log \in Seq(Entry) PROVE Forgotten = Forgot(log, Len(log))
    OBVIOUS
<1>2. DOMAIN log = 1 .. Len(log)
    BY <1>1
<1>3. QED
    BY <1>2 DEF Forgotten, Forgot

-----------------------------------------------------------------------------
(* A line of batches, in order and with none missing.                      *)

Before(f, k, e, i) == {j \in 1 .. i - 1 : KeyOf(f[j]) = k /\ f[j].epoch = e}

LineOK(f, k) ==
    \A i \in DOMAIN f : KeyOf(f[i]) = k =>
        /\ \A j \in 1 .. i - 1 : KeyOf(f[j]) = k => f[j].epoch <= f[i].epoch
        /\ f[i].batch = Cardinality(Before(f, k, f[i].epoch, i))

LEMMA BeforeFinite ==
    ASSUME NEW f, NEW k, NEW e, NEW i \in Nat
    PROVE  IsFiniteSet(Before(f, k, e, i)) /\ Cardinality(Before(f, k, e, i)) \in Nat
<1>1. IsFiniteSet(1 .. i - 1)
    BY FS_Interval
<1>2. Before(f, k, e, i) \subseteq 1 .. i - 1
    BY DEF Before
<1>3. QED
    BY <1>1, <1>2, FS_Subset, FS_CardinalityType

LEMMA LineStrict ==
    ASSUME NEW f \in Seq(WideSpan), NEW k, LineOK(f, k), NEW i \in DOMAIN f, NEW j \in DOMAIN f, i < j,
           KeyOf(f[i]) = k, KeyOf(f[j]) = k, f[i].epoch = f[j].epoch
    PROVE  f[i].batch < f[j].batch
<1> DEFINE e == f[i].epoch
           a == Before(f, k, e, i)
           b == Before(f, k, e, j)
<1>1. i \in Nat /\ j \in Nat /\ i >= 1
    OBVIOUS
<1>2. IsFiniteSet(a) /\ IsFiniteSet(b) /\ Cardinality(a) \in Nat /\ Cardinality(b) \in Nat
    BY <1>1, BeforeFinite
<1>3. i \notin a /\ a \cup {i} \subseteq b
    BY <1>1 DEF Before
<1>4. f[i].batch = Cardinality(a) /\ f[j].batch = Cardinality(b)
    BY DEF LineOK
<1> HIDE DEF a, b
<1>5. Cardinality(a \cup {i}) = Cardinality(a) + 1
    BY <1>2, <1>3, FS_AddElement
<1>6. Cardinality(a \cup {i}) <= Cardinality(b)
    BY <1>2, <1>3, FS_Subset
<1>7. QED
    BY <1>2, <1>4, <1>5, <1>6

LEMMA LineLast ==
    ASSUME NEW f \in Seq(WideSpan), NEW k, LineOK(f, k), NEW i, IsLast(f, k, i),
           NEW j \in DOMAIN f, KeyOf(f[j]) = k
    PROVE  /\ j <= i /\ f[j].epoch <= f[i].epoch
           /\ f[j].epoch = f[i].epoch => f[j].batch <= f[i].batch
<1>1. i \in 1 .. Len(f) /\ j \in 1 .. Len(f) /\ i \in DOMAIN f /\ KeyOf(f[i]) = k /\ Len(f) \in Nat
    BY DEF IsLast
<1>2. f[i].epoch \in Nat /\ f[j].epoch \in Nat /\ f[i].batch \in Nat /\ f[j].batch \in Nat
    <2>1. f[i] \in WideSpan /\ f[j] \in WideSpan
        BY <1>1
    <2>2. QED
        BY <2>1 DEF WideSpan
<1>3. j <= i
    <2>1. SUFFICES ASSUME j > i PROVE FALSE
        BY <1>1
    <2>2. j \in i + 1 .. Len(f)
        BY <1>1, <2>1
    <2>3. QED
        BY <2>2 DEF IsLast
<1>4. CASE j = i
    BY <1>2, <1>4
<1>5. CASE j < i
    <2>1. j \in 1 .. i - 1
        BY <1>1, <1>5
    <2>2. f[j].epoch <= f[i].epoch
        BY <1>1, <2>1 DEF LineOK
    <2>3. f[j].epoch = f[i].epoch => f[j].batch < f[i].batch
        BY <1>1, <1>5, LineStrict
    <2>4. QED
        BY <1>2, <1>3, <2>2, <2>3
<1>6. QED
    BY <1>1, <1>3, <1>4, <1>5

(* A span after a line.                                                    *)
LEMMA LineMore ==
    ASSUME NEW f \in Seq(WideSpan), NEW s \in WideSpan, NEW k, LineOK(f, k),
           KeyOf(s) = k => /\ \A j \in 1 .. Len(f) : KeyOf(f[j]) = k => f[j].epoch <= s.epoch
                           /\ s.batch = Cardinality(Before(f, k, s.epoch, Len(f) + 1))
    PROVE  LineOK(Append(f, s), k)
<1> DEFINE g == Append(f, s)
<1>1. /\ Len(f) \in Nat /\ DOMAIN f = 1 .. Len(f) /\ DOMAIN g = 1 .. Len(f) + 1
      /\ g[Len(f) + 1] = s /\ \A i \in 1 .. Len(f) : g[i] = f[i]
    BY OneMore
<1> HIDE DEF g
<1>2. \A i \in 1 .. Len(f) + 1 : \A e : Before(g, k, e, i) = Before(f, k, e, i)
    <2>1. \A i \in 1 .. Len(f) + 1 : \A j \in 1 .. i - 1 : g[j] = f[j]
        BY <1>1
    <2>2. QED
        BY <2>1 DEF Before
<1>3. ASSUME NEW i \in 1 .. Len(f) + 1, KeyOf(g[i]) = k
      PROVE  /\ \A j \in 1 .. i - 1 : KeyOf(g[j]) = k => g[j].epoch <= g[i].epoch
             /\ g[i].batch = Cardinality(Before(g, k, g[i].epoch, i))
    <2>1. \A j \in 1 .. i - 1 : g[j] = f[j]
        BY <1>1
    <2>2. CASE i = Len(f) + 1
        <3>1. g[i] = s /\ KeyOf(s) = k
            BY <1>1, <1>3, <2>2
        <3>2. \A j \in 1 .. i - 1 : j \in 1 .. Len(f)
            BY <1>1, <2>2
        <3>3. QED
            BY <1>2, <2>1, <2>2, <3>1, <3>2
    <2>3. CASE i \in 1 .. Len(f)
        <3>1. g[i] = f[i] /\ i \in DOMAIN f
            BY <1>1, <2>3
        <3>2. QED
            BY <1>2, <1>3, <2>1, <3>1 DEF LineOK
    <2>4. QED
        BY <1>1, <2>2, <2>3
<1>4. QED
    BY <1>1, <1>3 DEF LineOK, g

LEMMA LineFirst ==
    ASSUME NEW f \in Seq(WideSpan), NEW s \in WideSpan, NEW k, LineOK(f, k), KeyOf(s) = k,
           \A j \in DOMAIN f : KeyOf(f[j]) = k => f[j].epoch < s.epoch, s.batch = 0
    PROVE  LineOK(Append(f, s), k)
<1>1. Len(f) \in Nat /\ DOMAIN f = 1 .. Len(f) /\ (Len(f) + 1) - 1 = Len(f)
    OBVIOUS
<1>2. \A j \in 1 .. Len(f) : f[j].epoch \in Nat /\ s.epoch \in Nat
    <2>1. \A j \in 1 .. Len(f) : f[j] \in WideSpan
        OBVIOUS
    <2>2. QED
        BY <2>1 DEF WideSpan
<1>3. Before(f, k, s.epoch, Len(f) + 1) = {}
    BY <1>1, <1>2 DEF Before
<1>4. Cardinality({}) = 0
    BY FS_EmptySet
<1>5. \A j \in 1 .. Len(f) : KeyOf(f[j]) = k => f[j].epoch <= s.epoch
    BY <1>1, <1>2
<1>6. QED
    BY <1>3, <1>4, <1>5, LineMore

LEMMA LineFollows ==
    ASSUME NEW f \in Seq(WideSpan), NEW s \in WideSpan, NEW k, LineOK(f, k), KeyOf(s) = k,
           NEW i, IsLast(f, k, i), f[i].epoch = s.epoch
    PROVE  /\ Cardinality(Before(f, k, s.epoch, Len(f) + 1)) = f[i].batch + 1
           /\ \A j \in 1 .. Len(f) : KeyOf(f[j]) = k => f[j].epoch <= s.epoch
<1>1. Len(f) \in Nat /\ DOMAIN f = 1 .. Len(f) /\ (Len(f) + 1) - 1 = Len(f)
    OBVIOUS
<1>2. i \in 1 .. Len(f) /\ i \in DOMAIN f /\ KeyOf(f[i]) = k
    BY <1>1 DEF IsLast
<1> DEFINE a == Before(f, k, s.epoch, i)
           b == Before(f, k, s.epoch, Len(f) + 1)
<1>3. \A j \in 1 .. Len(f) : KeyOf(f[j]) = k => j <= i /\ f[j].epoch <= s.epoch
    BY <1>1, LineLast
<1>4. b = a \cup {i} /\ i \notin a
    <2>1. ASSUME NEW j \in b PROVE j \in a \cup {i}
        <3>1. j \in 1 .. Len(f) /\ KeyOf(f[j]) = k /\ f[j].epoch = s.epoch
            BY <1>1 DEF Before
        <3>2. j <= i
            BY <1>3, <3>1
        <3>3. j \in 1 .. i - 1 \/ j = i
            BY <1>2, <3>1, <3>2
        <3>4. QED
            BY <3>1, <3>3 DEF Before
    <2>2. ASSUME NEW j \in a \cup {i} PROVE j \in b
        BY <1>1, <1>2 DEF Before
    <2>3. i \notin a
        BY <1>2 DEF Before
    <2>4. QED
        BY <2>1, <2>2, <2>3
<1>5. IsFiniteSet(a) /\ Cardinality(a) \in Nat
    BY <1>2, BeforeFinite
<1>6. f[i].batch = Cardinality(a)
    BY <1>2 DEF LineOK
<1> HIDE DEF a, b
<1>7. Cardinality(b) = Cardinality(a) + 1
    BY <1>4, <1>5, FS_AddElement
<1>8. QED
    BY <1>3, <1>6, <1>7 DEF b

-----------------------------------------------------------------------------
(* classify, of a batch its client was free to send.                       *)

(* Its number is its client's count of the records before it.              *)
Counted(k, s) == s.epoch \in Epoch /\ s.batch \in Batch /\ s.first = First[k][s.epoch][s.batch]

(* No older than the space tells apart from the batches free since.        *)
Young(k, s, low) == \A b \in Batch : b < low + Window => First[k][s.epoch][b] < s.first + SeqMax

(* low is the first batch of the line and epoch without an answer.         *)
Near(f, k, s, low) ==
    /\ Counted(k, s) /\ s.batch < low + Window /\ Young(k, s, low)
    /\ \A i \in DOMAIN f : KeyOf(f[i]) = k /\ f[i].epoch = s.epoch =>
          Counted(k, f[i]) /\ f[i].batch < low + Window
    /\ low > 0 => \E i \in DOMAIN f : KeyOf(f[i]) = k /\ f[i].epoch = s.epoch /\ f[i].batch = low - 1

LEMMA BatchIs == \A b \in Batch : b \in 0 .. MaxBatch /\ b + 1 \in 0 .. MaxBatch /\ b \in Nat
BY SequencingAssumption DEF Batch

LEMMA FirstTyped == \A k \in Key : \A e \in Epoch : \A b \in 0 .. MaxBatch : First[k][e][b] \in Nat
<1>1. First \in [Key -> [Epoch -> [0 .. MaxBatch -> Nat]]]
    BY NumberingAssumption DEF Key, Epoch
<1>2. \A k \in Key : First[k] \in [Epoch -> [0 .. MaxBatch -> Nat]]
    BY <1>1
<1>3. \A k \in Key : \A e \in Epoch : First[k][e] \in [0 .. MaxBatch -> Nat]
    BY <1>2
<1>4. QED
    BY <1>3

LEMMA FirstRises ==
    \A k \in Key : \A e \in Epoch : \A a, b \in 0 .. MaxBatch : a < b => First[k][e][a] < First[k][e][b]
BY NumberingAssumption DEF Key, Epoch

LEMMA FirstClose ==
    \A k \in Key : \A e \in Epoch : \A a, b \in 0 .. MaxBatch :
        a < b /\ b <= a + Window => First[k][e][b] <= First[k][e][a] + SeqMax
BY NumberingAssumption DEF Key, Epoch

LEMMA NumberTyped ==
    ASSUME NEW k \in Key, NEW s, Counted(k, s)
    PROVE  s.first \in Nat /\ s.batch \in Nat
BY BatchIs, FirstTyped DEF Counted

LEMMA FirstOfAll ==
    ASSUME NEW k \in Key, NEW s, Counted(k, s)
    PROVE  /\ s.batch = 0 => s.first = 0
           /\ s.first = 0 => s.batch = 0
           /\ s.batch <= Window => s.first <= SeqMax
<1>1. s.epoch \in Epoch /\ s.batch \in 0 .. MaxBatch /\ s.first = First[k][s.epoch][s.batch]
    BY BatchIs DEF Counted
<1>2. First[k][s.epoch][0] = 0 /\ 0 \in 0 .. MaxBatch
    BY <1>1, SequencingAssumption, NumberingAssumption DEF Key, Epoch
<1>3. s.batch # 0 => First[k][s.epoch][0] < s.first
    BY <1>1, <1>2, FirstRises
<1>4. s.batch # 0 /\ s.batch <= 0 + Window => s.first <= First[k][s.epoch][0] + SeqMax
    BY <1>1, <1>2, FirstClose
<1>5. s.first \in Nat /\ s.batch \in Nat
    BY NumberTyped
<1>6. QED
    BY <1>1, <1>2, <1>3, <1>4, <1>5, SpaceTyped

LEMMA SameNumber ==
    ASSUME NEW k \in Key, NEW s, NEW t, Counted(k, s), Counted(k, t), s.epoch = t.epoch, s.first = t.first
    PROVE  s.batch = t.batch
<1>1. /\ s.epoch \in Epoch /\ s.batch \in 0 .. MaxBatch /\ t.batch \in 0 .. MaxBatch
      /\ s.first = First[k][s.epoch][s.batch] /\ t.first = First[k][s.epoch][t.batch]
    BY BatchIs DEF Counted
<1>2. s.first \in Nat /\ s.batch \in Nat /\ t.batch \in Nat
    BY NumberTyped
<1>3. s.batch < t.batch => s.first < t.first
    BY <1>1, FirstRises
<1>4. t.batch < s.batch => t.first < s.first
    BY <1>1, FirstRises
<1>5. QED
    BY <1>2, <1>3, <1>4

LEMMA NextNumber ==
    ASSUME NEW k \in Key, NEW s, NEW t, Counted(k, s), Counted(k, t), s.epoch = t.epoch, s.first = t.first + 1
    PROVE  s.batch = t.batch + 1
<1>1. /\ s.epoch \in Epoch /\ s.batch \in 0 .. MaxBatch /\ t.batch \in 0 .. MaxBatch /\ t.batch + 1 \in 0 .. MaxBatch
      /\ s.first = First[k][s.epoch][s.batch] /\ t.first = First[k][s.epoch][t.batch]
    BY BatchIs DEF Counted
<1>2. s.first \in Nat /\ s.batch \in Nat /\ t.batch \in Nat /\ t.first \in Nat /\ First[k][s.epoch][t.batch + 1] \in Nat
    BY <1>1, NumberTyped, FirstTyped
<1>3. s.batch < t.batch => s.first < t.first
    BY <1>1, FirstRises
<1>4. t.first < First[k][s.epoch][t.batch + 1]
    BY <1>1, <1>2, FirstRises
<1>5. t.batch + 1 < s.batch => First[k][s.epoch][t.batch + 1] < s.first
    BY <1>1, FirstRises
<1>6. s.batch # t.batch
    BY <1>1, <1>2
<1>7. QED
    BY <1>2, <1>3, <1>4, <1>5, <1>6

LEMMA CloseNumbers ==
    ASSUME NEW k \in Key, NEW s, NEW t, Counted(k, s), Counted(k, t), s.epoch = t.epoch,
           s.batch <= t.batch + Window
    PROVE  s.first <= t.first + SeqMax
<1>1. /\ s.epoch \in Epoch /\ s.batch \in 0 .. MaxBatch /\ t.batch \in 0 .. MaxBatch
      /\ s.first = First[k][s.epoch][s.batch] /\ t.first = First[k][s.epoch][t.batch]
    BY BatchIs DEF Counted
<1>2. s.first \in Nat /\ s.batch \in Nat /\ t.batch \in Nat /\ t.first \in Nat
    BY NumberTyped
<1>3. s.batch < t.batch => s.first < t.first
    BY <1>1, FirstRises
<1>4. t.batch < s.batch => s.first <= t.first + SeqMax
    BY <1>1, FirstClose
<1>5. s.batch = t.batch => s.first = t.first
    BY <1>1
<1>6. QED
    BY <1>2, <1>3, <1>4, <1>5, SpaceTyped

Orders(f, k, state) ==
    IF state = None THEN ~ HasLine(f, k)
    ELSE \E i \in DOMAIN f : IsLast(f, k, i) /\ state.epoch = f[i].epoch /\ state.sequence = Sequence(f[i])

LEMMA LastBatch ==
    ASSUME NEW f \in Seq(WideSpan), NEW s \in WideSpan, NEW k, LineOK(f, k), NEW low \in Nat,
           Near(f, k, s, low), NEW i, IsLast(f, k, i), f[i].epoch = s.epoch
    PROVE  f[i].batch \in Nat /\ f[i].batch < low + Window /\ low <= f[i].batch + 1 /\ Counted(k, f[i])
<1>1. i \in DOMAIN f /\ KeyOf(f[i]) = k /\ f[i] \in WideSpan
    BY DEF IsLast
<1>2. f[i].batch \in Nat
    BY <1>1 DEF WideSpan
<1>3. f[i].batch < low + Window /\ Counted(k, f[i])
    BY <1>1 DEF Near
<1>4. CASE low = 0
    BY <1>2, <1>3, <1>4
<1>5. CASE low > 0
    <2>1. PICK j \in DOMAIN f : KeyOf(f[j]) = k /\ f[j].epoch = s.epoch /\ f[j].batch = low - 1
        BY <1>5 DEF Near
    <2>2. f[j].batch <= f[i].batch
        BY <2>1, LineLast
    <2>3. QED
        BY <1>2, <1>3, <2>1, <2>2
<1>6. QED
    BY <1>4, <1>5

LEMMA CloseBatches ==
    ASSUME NEW f \in Seq(WideSpan), NEW s \in WideSpan, NEW k \in Key, LineOK(f, k), NEW low \in Nat,
           Near(f, k, s, low), NEW i, IsLast(f, k, i), f[i].epoch = s.epoch
    PROVE  s.first <= f[i].first + SeqMax /\ f[i].first < s.first + SeqMax
<1>1. f[i].batch \in Nat /\ f[i].batch < low + Window /\ low <= f[i].batch + 1 /\ Counted(k, f[i])
    BY LastBatch
<1>2. Counted(k, s) /\ s.batch < low + Window /\ Young(k, s, low)
    BY DEF Near
<1>3. s.batch \in Nat /\ Window \in Nat
    BY <1>2, NumberTyped, SpaceTyped
<1>4. s.batch <= f[i].batch + Window
    BY <1>1, <1>2, <1>3
<1>5. s.first <= f[i].first + SeqMax
    BY <1>1, <1>2, <1>4, CloseNumbers
<1>6. f[i].batch \in Batch /\ f[i].first = First[k][s.epoch][f[i].batch]
    BY <1>1 DEF Counted
<1>7. f[i].first < s.first + SeqMax
    BY <1>1, <1>2, <1>6 DEF Young
<1>8. QED
    BY <1>5, <1>7

LEMMA AdmitFits ==
    ASSUME NEW f \in Seq(WideSpan), NEW s \in WideSpan, KeyOf(s) \in Key, LineOK(f, KeyOf(s)), NEW low \in Nat,
           Near(f, KeyOf(s), s, low), NEW state, Orders(f, KeyOf(s), state), NEW provisional,
           Classify(state, provisional, s) = "admit"
    PROVE  LineOK(Append(f, s), KeyOf(s))
<1> DEFINE k == KeyOf(s)
<1>0. /\ SeqMax \in Nat /\ SeqMax + 1 \in Nat \ {0} /\ Window \in Nat /\ Window <= SeqMax
      /\ s.batch \in Nat /\ s.epoch \in Nat /\ s.first \in Nat /\ Counted(k, s)
    BY SequencingAssumption DEF WideSpan, Near
<1>1. CASE \A j \in DOMAIN f : KeyOf(f[j]) = k => f[j].epoch < s.epoch
    <2>1. Sequence(s) = 0
        <3>1. CASE state = None
            BY <3>1 DEF Classify
        <3>2. CASE state # None
            <4>1. PICK i \in DOMAIN f : IsLast(f, k, i) /\ state.epoch = f[i].epoch
                BY <3>2 DEF Orders
            <4>2. f[i].epoch < s.epoch /\ f[i].epoch \in Nat
                <5>1. f[i] \in WideSpan
                    BY <4>1
                <5>2. QED
                    BY <1>1, <4>1, <5>1 DEF IsLast, WideSpan
            <4>3. s.epoch > state.epoch
                BY <1>0, <4>1, <4>2
            <4>4. QED
                BY <4>3 DEF Classify
        <3>3. QED
            BY <3>1, <3>2
    <2>2. low = 0
        <3>1. SUFFICES ASSUME low > 0 PROVE FALSE
            OBVIOUS
        <3>2. PICK i \in DOMAIN f : KeyOf(f[i]) = k /\ f[i].epoch = s.epoch
            BY <3>1 DEF Near
        <3>3. QED
            BY <1>0, <1>1, <3>2
    <2>3. s.first < SeqMax + 1
        <3>1. s.batch <= Window
            BY <1>0, <2>2 DEF Near
        <3>2. s.first <= SeqMax
            BY <1>0, <3>1, FirstOfAll
        <3>3. QED
            BY <1>0, <3>2
    <2>4. s.first % (SeqMax + 1) = s.first
        BY <1>0, <2>3, SmallRemainder
    <2>5. s.batch = 0
        BY <1>0, <2>1, <2>4, FirstOfAll DEF Sequence
    <2>6. QED
        BY <1>1, <2>5, LineFirst
<1>2. CASE ~ (\A j \in DOMAIN f : KeyOf(f[j]) = k => f[j].epoch < s.epoch)
    <2>1. PICK j \in DOMAIN f : KeyOf(f[j]) = k /\ ~ (f[j].epoch < s.epoch)
        BY <1>2
    <2>2. state # None
        BY <2>1 DEF Orders, HasLine
    <2>3. PICK i \in DOMAIN f : IsLast(f, k, i) /\ state.epoch = f[i].epoch /\ state.sequence = Sequence(f[i])
        BY <2>2 DEF Orders
    <2>4. f[i] \in WideSpan /\ f[j] \in WideSpan
        BY <2>1, <2>3
    <2>5. f[i].epoch \in Nat /\ f[j].epoch \in Nat /\ f[i].batch \in Nat
        BY <2>4 DEF WideSpan
    <2>6. f[j].epoch <= f[i].epoch
        BY <2>1, <2>3, LineLast
    <2>7. ~ (s.epoch > state.epoch)
        BY <1>0, <2>1, <2>3, <2>5, <2>6
    <2>8. ~ (s.epoch < state.epoch)
        BY <2>2, <2>7 DEF Classify
    <2>9. f[i].epoch = s.epoch
        BY <1>0, <2>3, <2>5, <2>7, <2>8
    <2>10. Sequence(s) = NextSequence(Sequence(f[i]))
        BY <2>2, <2>3, <2>7, <2>8 DEF Classify
    <2>11. Counted(k, f[i]) /\ f[i].first \in Nat
        BY <2>3, <2>9, LastBatch, NumberTyped
    <2>14. s.first % (SeqMax + 1) = (f[i].first + 1) % (SeqMax + 1)
        <3>1. (f[i].first + 1) % (SeqMax + 1) = NextSequence(f[i].first % (SeqMax + 1))
            BY <2>11, NextIs
        <3>2. QED
            BY <2>10, <3>1 DEF Sequence
    <2>15. s.first <= f[i].first + SeqMax /\ f[i].first < s.first + SeqMax
        BY <2>3, <2>9, CloseBatches
    <2>16. s.first = f[i].first + 1
        <3> DEFINE c == f[i].first + 1
                   m == SeqMax + 1
        <3>1. s.first % m = c % m
            BY <2>14
        <3>0. \A u, v, w \in Nat : u <= v + w /\ v < u + w =>
                  v + 1 \in Nat /\ u < v + 1 + (w + 1) /\ v + 1 < u + (w + 1)
            OBVIOUS
        <3>a. c \in Nat /\ s.first < c + m /\ c < s.first + m
            BY <1>0, <2>11, <2>15, <3>0
        <3>2. m \in Nat \ {0} /\ s.first \in Nat
            BY <1>0
        <3> HIDE DEF c, m
        <3>3. s.first = c
            BY <3>1, <3>a, <3>2, CloseAgree
        <3>4. QED
            BY <3>3 DEF c
    <2>17. s.batch = f[i].batch + 1
        BY <1>0, <2>9, <2>11, <2>16, NextNumber
    <2>18. /\ Cardinality(Before(f, k, s.epoch, Len(f) + 1)) = f[i].batch + 1
           /\ \A x \in 1 .. Len(f) : KeyOf(f[x]) = k => f[x].epoch <= s.epoch
        BY <2>3, <2>9, LineFollows
    <2>19. QED
        BY <2>17, <2>18, LineMore
<1>3. QED
    BY <1>1, <1>2

LEMMA ReplayFits ==
    ASSUME NEW f \in Seq(WideSpan), NEW s \in WideSpan, KeyOf(s) \in Key, LineOK(f, KeyOf(s)), NEW low \in Nat,
           Near(f, KeyOf(s), s, low), NEW state, Known(f, KeyOf(s), state), NEW provisional,
           Classify(state, provisional, s) = "replay"
    PROVE  \E i \in DOMAIN f : Same(f[i], s) /\ f[i].count = s.count /\ state.base = Records(f, i - 1, s.part)
<1> DEFINE k == KeyOf(s)
<1>0. /\ SeqMax \in Nat /\ SeqMax + 1 \in Nat \ {0} /\ Window \in Nat /\ Window <= SeqMax
      /\ s.epoch \in Nat /\ Counted(k, s) /\ s.first \in Nat
    BY SpaceTyped, SpanTyped, NumberTyped DEF Near
<1>1. state # None
    BY DEF Classify
<1>2. PICK i \in DOMAIN f : IsLast(f, k, i) /\ state = StateOf(f[i], Records(f, i - 1, k[2]))
    BY <1>1 DEF Known, StateAt
<1>3. f[i] \in WideSpan /\ KeyOf(f[i]) = k
    BY <1>2 DEF IsLast
<1>4. f[i].epoch \in Nat /\ f[i].batch \in Nat
    BY <1>3 DEF WideSpan
<1>5. /\ state.epoch = f[i].epoch /\ state.sequence = Sequence(f[i]) /\ state.count = f[i].count
      /\ state.base = Records(f, i - 1, k[2])
    BY <1>2 DEF StateOf
<1>6. ~ (s.epoch > state.epoch) /\ ~ (s.epoch < state.epoch)
    BY <1>1 DEF Classify
<1>7. f[i].epoch = s.epoch
    BY <1>0, <1>4, <1>5, <1>6
<1>8. Sequence(s) = state.sequence /\ s.count = state.count
    BY <1>1, <1>6 DEF Classify
<1>9. Counted(k, f[i]) /\ f[i].first \in Nat
    BY <1>2, <1>7, LastBatch, NumberTyped
<1>10. s.first <= f[i].first + SeqMax /\ f[i].first < s.first + SeqMax
    BY <1>2, <1>7, CloseBatches
<1>11. s.first < f[i].first + (SeqMax + 1) /\ f[i].first < s.first + (SeqMax + 1)
    BY <1>0, <1>9, <1>10
<1>12. s.first % (SeqMax + 1) = f[i].first % (SeqMax + 1)
    BY <1>5, <1>8 DEF Sequence
<1>13. s.batch = f[i].batch
    <2>1. s.first = f[i].first
        BY <1>0, <1>9, <1>11, <1>12, CloseAgree
    <2>2. QED
        BY <1>0, <1>7, <1>9, <2>1, SameNumber
<1>14. f[i].p = s.p /\ f[i].part = s.part /\ k[2] = s.part
    <2>1. KeyOf(f[i])[1] = f[i].p /\ KeyOf(f[i])[2] = f[i].part /\ KeyOf(s)[1] = s.p /\ KeyOf(s)[2] = s.part
        BY <1>3, KeyTyped
    <2>2. QED
        BY <1>3, <2>1
<1>15. QED
    BY <1>5, <1>7, <1>8, <1>13, <1>14 DEF Same

-----------------------------------------------------------------------------
(* admit, of a bundle.                                                     *)

WideAnswer == [p : Producer \cup {None}, part : Partition, epoch : Nat, batch : Nat, base : Nat, count : Nat]

Decisions == [admitted : Seq(WideSpan), replayed : SUBSET WideAnswer,
              running : [Key -> LineState \cup {None}]]

(* What the clients of line k were free to send.                           *)
Sendable(f, k, spans, low) ==
    /\ \A x \in 1 .. Len(spans) : KeyOf(spans[x]) = k =>
          /\ Counted(k, spans[x]) /\ spans[x].batch < low[spans[x].epoch] + Window
          /\ Young(k, spans[x], low[spans[x].epoch])
    /\ \A i \in DOMAIN f : KeyOf(f[i]) = k => Counted(k, f[i]) /\ f[i].batch < low[f[i].epoch] + Window
    /\ \A e \in Nat : low[e] > 0 =>
          \E i \in DOMAIN f : KeyOf(f[i]) = k /\ f[i].epoch = e /\ f[i].batch = low[e] - 1

OfBundle(spans, acc) ==
    /\ \A j \in 1 .. Len(acc.admitted) : \E x \in 1 .. Len(spans) : acc.admitted[j] = spans[x]
    /\ \A r \in acc.replayed : r.p # None /\ \E x \in 1 .. Len(spans) : Same(r, spans[x])

(* Line k, when some of the bundle is decided.                             *)
Ordered(f, k, acc) ==
    /\ LineOK(f \o acc.admitted, k)
    /\ IF acc.running[k] = None THEN \A j \in 1 .. Len(acc.admitted) : KeyOf(acc.admitted[j]) # k
       ELSE Orders(f \o acc.admitted, k, acc.running[k])
    /\ \A r \in acc.replayed : KeyOf(r) = k => Told(f, r)

LEMMA JoinOneMore ==
    ASSUME NEW T, NEW f \in Seq(T), NEW g \in Seq(T), NEW s \in T
    PROVE  f \o Append(g, s) = Append(f \o g, s)
<1> DEFINE u == f \o Append(g, s)
           v == Append(f \o g, s)
<1>1. Append(g, s) \in Seq(T) /\ Len(Append(g, s)) = Len(g) + 1 /\ Len(f) \in Nat /\ Len(g) \in Nat
    BY OneMore
<1>2. f \o g \in Seq(T) /\ Len(f \o g) = Len(f) + Len(g)
    BY Joined
<1>3. u \in Seq(T) /\ Len(u) = Len(f) + (Len(g) + 1)
    BY <1>1, Joined
<1>4. v \in Seq(T) /\ Len(v) = (Len(f) + Len(g)) + 1
    BY <1>2, OneMore
<1>5. ASSUME NEW i \in 1 .. Len(f) + Len(g) + 1 PROVE u[i] = v[i]
    <2>1. CASE i \in 1 .. Len(f)
        <3>1. u[i] = f[i] /\ (f \o g)[i] = f[i]
            BY <1>1, <2>1, Joined
        <3>2. i \in 1 .. Len(f \o g)
            BY <1>1, <1>2, <2>1
        <3>3. v[i] = (f \o g)[i]
            BY <1>2, <3>2, OneMore
        <3>4. QED
            BY <3>1, <3>3
    <2>2. CASE i - Len(f) \in 1 .. Len(g)
        <3>1. Len(f) + (i - Len(f)) = i /\ i - Len(f) \in 1 .. Len(Append(g, s)) /\ i \in 1 .. Len(f \o g)
            BY <1>1, <1>2, <2>2
        <3>2. u[i] = Append(g, s)[i - Len(f)] /\ (f \o g)[i] = g[i - Len(f)]
            BY <1>1, <2>2, <3>1, Joined
        <3>3. v[i] = (f \o g)[i] /\ Append(g, s)[i - Len(f)] = g[i - Len(f)]
            BY <1>2, <2>2, <3>1, OneMore
        <3>4. QED
            BY <3>2, <3>3
    <2>3. CASE i = Len(f) + (Len(g) + 1)
        <3>1. Len(g) + 1 \in 1 .. Len(Append(g, s)) /\ i = Len(f \o g) + 1
            BY <1>1, <1>2, <2>3
        <3>2. u[i] = Append(g, s)[Len(g) + 1] /\ Append(g, s)[Len(g) + 1] = s
            BY <1>1, <2>3, <3>1, Joined, OneMore
        <3>3. v[i] = s
            BY <1>2, <3>1, OneMore
        <3>4. QED
            BY <3>2, <3>3
    <2>4. QED
        BY <1>1, <2>1, <2>2, <2>3
<1> HIDE DEF u, v
<1>6. Len(u) = Len(v) /\ \A i \in 1 .. Len(v) : u[i] = v[i]
    BY <1>1, <1>3, <1>4, <1>5
<1>7. u = v
    BY <1>3, <1>4, <1>6, SameSequence
<1>8. QED
    BY <1>7 DEF u, v

LEMMA DecideTyped ==
    ASSUME NEW a, a.state \in [Key -> LineState \cup {None}], NEW acc \in Decisions,
           NEW s \in WideSpan
    PROVE  Decide(a, acc, s) \in Decisions
<1> DEFINE k == KeyOf(s)
           cur == IF acc.running[k] # None THEN acc.running[k] ELSE a.state[k]
           d == Classify(cur, acc.running[k] # None, s)
           appended == Append(acc.admitted, s)
           run == [acc.running EXCEPT ![k] = StateOf(s, 0)]
           told == acc.replayed \cup {Answer(s, cur.base)}
<1>1. acc.admitted \in Seq(WideSpan) /\ acc.replayed \in SUBSET WideAnswer /\ acc.running \in [Key -> LineState \cup {None}]
    BY DEF Decisions
<1>2. appended \in Seq(WideSpan)
    BY <1>1, OneMore
<1>3. CASE s.p = None
    <2>1. Decide(a, acc, s) = [acc EXCEPT !.admitted = appended]
        BY <1>3 DEF Decide
    <2> HIDE DEF appended
    <2>2. QED
        BY <1>2, <2>1 DEF Decisions
<1>4. CASE s.p # None /\ d = "admit"
    <2>1. Decide(a, acc, s) = [acc EXCEPT !.admitted = appended, !.running = run]
        BY <1>4 DEF Decide
    <2>2. StateOf(s, 0) \in LineState
        BY StateTyped
    <2>3. run \in [Key -> LineState \cup {None}]
        BY <1>1, <2>2
    <2> HIDE DEF appended, run
    <2>4. QED
        BY <1>2, <2>1, <2>3 DEF Decisions
<1>5. CASE s.p # None /\ d = "replay"
    <2>1. Decide(a, acc, s) = [acc EXCEPT !.replayed = told]
        BY <1>5 DEF Decide
    <2>2. k \in Key
        BY <1>5, KeyTyped
    <2>3. cur # None
        BY <1>5 DEF Classify
    <2>4. cur \in LineState
        BY <1>1, <2>2, <2>3
    <2> HIDE DEF cur
    <2>5. cur.base \in Nat
        BY <2>4 DEF LineState
    <2>6. Answer(s, cur.base) \in WideAnswer
        BY <2>5 DEF Answer, WideAnswer, WideSpan
    <2>7. told \in SUBSET WideAnswer
        BY <1>1, <2>6
    <2> HIDE DEF told
    <2>8. QED
        BY <2>1, <2>7 DEF Decisions
<1>6. CASE s.p # None /\ d # "admit" /\ d # "replay"
    BY <1>6 DEF Decide
<1>7. QED
    BY <1>3, <1>4, <1>5, <1>6

Standing(a, acc, k) == IF acc.running[k] # None THEN acc.running[k] ELSE a.state[k]
Deemed(a, acc, s) == Classify(Standing(a, acc, KeyOf(s)), acc.running[KeyOf(s)] # None, s)

Takes(acc, now, s) ==
    /\ now.admitted = Append(acc.admitted, s) /\ now.replayed = acc.replayed
    /\ now.running = IF s.p = None THEN acc.running ELSE [acc.running EXCEPT ![KeyOf(s)] = StateOf(s, 0)]
Repeats(a, acc, now, s) ==
    /\ now.admitted = acc.admitted /\ now.running = acc.running
    /\ now.replayed = acc.replayed \cup {Answer(s, Standing(a, acc, KeyOf(s)).base)}

LEMMA DecideCases ==
    ASSUME NEW a, NEW acc \in Decisions, NEW s
    PROVE  \/ s.p = None /\ Takes(acc, Decide(a, acc, s), s)
           \/ s.p # None /\ Deemed(a, acc, s) = "admit" /\ Takes(acc, Decide(a, acc, s), s)
           \/ s.p # None /\ Deemed(a, acc, s) = "replay" /\ Repeats(a, acc, Decide(a, acc, s), s)
           \/ s.p # None /\ Decide(a, acc, s) = acc
<1> DEFINE d == Deemed(a, acc, s)
           appended == Append(acc.admitted, s)
           run == [acc.running EXCEPT ![KeyOf(s)] = StateOf(s, 0)]
           told == acc.replayed \cup {Answer(s, Standing(a, acc, KeyOf(s)).base)}
<1>1. CASE s.p = None
    <2>1. Decide(a, acc, s) = [acc EXCEPT !.admitted = appended]
        BY <1>1 DEF Decide
    <2> HIDE DEF appended
    <2>2. /\ Decide(a, acc, s).admitted = appended /\ Decide(a, acc, s).replayed = acc.replayed
          /\ Decide(a, acc, s).running = acc.running
        BY <2>1 DEF Decisions
    <2>3. QED
        BY <1>1, <2>2 DEF Takes, appended
<1>2. CASE s.p # None /\ d = "admit"
    <2>1. Decide(a, acc, s) = [acc EXCEPT !.admitted = appended, !.running = run]
        BY <1>2 DEF Decide, Deemed, Standing
    <2> HIDE DEF appended, run
    <2>2. /\ Decide(a, acc, s).admitted = appended /\ Decide(a, acc, s).replayed = acc.replayed
          /\ Decide(a, acc, s).running = run
        BY <2>1 DEF Decisions
    <2>3. QED
        BY <1>2, <2>2 DEF Takes, appended, run
<1>3. CASE s.p # None /\ d = "replay"
    <2>1. Decide(a, acc, s) = [acc EXCEPT !.replayed = told]
        BY <1>3 DEF Decide, Deemed, Standing
    <2> HIDE DEF told
    <2>2. /\ Decide(a, acc, s).admitted = acc.admitted /\ Decide(a, acc, s).replayed = told
          /\ Decide(a, acc, s).running = acc.running
        BY <2>1 DEF Decisions
    <2>3. QED
        BY <1>3, <2>2 DEF Repeats, told
<1>4. CASE s.p # None /\ d # "admit" /\ d # "replay"
    BY <1>4 DEF Decide, Deemed, Standing
<1>5. QED
    BY <1>1, <1>2, <1>3, <1>4

LEMMA BundleKeeps ==
    ASSUME NEW a, NEW acc \in Decisions, NEW spans \in Seq(WideSpan), OfBundle(spans, acc),
           NEW x \in 1 .. Len(spans)
    PROVE  OfBundle(spans, Decide(a, acc, spans[x]))
<1> DEFINE s == spans[x]
           now == Decide(a, acc, s)
           g == acc.admitted
<1>1. g \in Seq(WideSpan) /\ s \in WideSpan
    BY DEF Decisions
<1>0. SUFFICES OfBundle(spans, now)
    OBVIOUS
<1> HIDE DEF now
<1>2. CASE Takes(acc, now, s)
    <2>1. now.admitted = Append(g, s) /\ now.replayed = acc.replayed
        BY <1>2 DEF Takes
    <2>2. /\ Len(now.admitted) = Len(g) + 1 /\ now.admitted[Len(g) + 1] = s /\ Len(g) \in Nat
          /\ \A i \in 1 .. Len(g) : now.admitted[i] = g[i]
        BY <1>1, <2>1, OneMore
    <2>3. ASSUME NEW j \in 1 .. Len(now.admitted) PROVE \E y \in 1 .. Len(spans) : now.admitted[j] = spans[y]
        <3>1. CASE j = Len(g) + 1
            BY <2>2, <3>1
        <3>2. CASE j \in 1 .. Len(g)
            BY <2>2, <3>2 DEF OfBundle
        <3>3. QED
            BY <2>2, <3>1, <3>2
    <2>4. QED
        BY <2>1, <2>3 DEF OfBundle
<1>3. CASE s.p # None /\ Repeats(a, acc, now, s)
    <2> DEFINE r == Answer(s, Standing(a, acc, KeyOf(s)).base)
    <2>1. now.admitted = acc.admitted /\ now.replayed = acc.replayed \cup {r}
        BY <1>3 DEF Repeats
    <2>2. Same(r, spans[x]) /\ r.p # None
        BY <1>3 DEF Answer, Same
    <2> HIDE DEF r
    <2>3. QED
        BY <2>1, <2>2 DEF OfBundle
<1>4. CASE now = acc
    BY <1>4
<1>5. QED
    BY <1>2, <1>3, <1>4, DecideCases DEF now

LEMMA LastJoined ==
    ASSUME NEW f \in Seq(WideSpan), NEW g \in Seq(WideSpan), NEW k,
           \A j \in 1 .. Len(g) : KeyOf(g[j]) # k, NEW i, IsLast(f, k, i)
    PROVE  IsLast(f \o g, k, i) /\ (f \o g)[i] = f[i] /\ i \in DOMAIN (f \o g)
<1> DEFINE h == f \o g
<1>1. /\ h \in Seq(WideSpan) /\ Len(h) = Len(f) + Len(g) /\ Len(f) \in Nat /\ Len(g) \in Nat
      /\ \A j \in 1 .. Len(f) : h[j] = f[j]
      /\ \A j \in 1 .. Len(g) : h[Len(f) + j] = g[j]
    BY Joined
<1> HIDE DEF h
<1>2. i \in 1 .. Len(f) /\ KeyOf(f[i]) = k
    BY DEF IsLast
<1>3. i \in DOMAIN h /\ h[i] = f[i]
    BY <1>1, <1>2
<1>4. ASSUME NEW j \in i + 1 .. Len(h) PROVE KeyOf(h[j]) # k
    <2>1. CASE j <= Len(f)
        <3>1. j \in 1 .. Len(f) /\ j \in i + 1 .. Len(f)
            BY <1>1, <1>2, <2>1
        <3>2. QED
            BY <1>1, <3>1 DEF IsLast
    <2>2. CASE ~ (j <= Len(f))
        <3>1. j - Len(f) \in 1 .. Len(g) /\ Len(f) + (j - Len(f)) = j
            BY <1>1, <1>2, <2>2
        <3>2. h[j] = g[j - Len(f)]
            BY <1>1, <3>1
        <3>3. QED
            BY <3>1, <3>2
    <2>3. QED
        BY <2>1, <2>2
<1>5. QED
    BY <1>2, <1>3, <1>4 DEF IsLast, h

LEMMA KnownOrders ==
    ASSUME NEW f \in Seq(WideSpan), NEW g \in Seq(WideSpan), NEW k,
           \A j \in 1 .. Len(g) : KeyOf(g[j]) # k, NEW state, Known(f, k, state)
    PROVE  Orders(f \o g, k, state)
<1>1. CASE state = None
    <2>1. SUFFICES ASSUME HasLine(f \o g, k) PROVE FALSE
        BY <1>1 DEF Orders
    <2>2. PICK i \in DOMAIN (f \o g) : KeyOf((f \o g)[i]) = k
        BY <2>1 DEF HasLine
    <2>3. i \in 1 .. Len(f) + Len(g) /\ Len(f) \in Nat /\ Len(g) \in Nat
        BY Joined
    <2>4. CASE i <= Len(f)
        <3>1. i \in DOMAIN f /\ KeyOf(f[i]) = k
            BY <2>2, <2>3, <2>4, Joined
        <3>2. QED
            BY <1>1, <3>1 DEF Known, HasLine
    <2>5. CASE ~ (i <= Len(f))
        <3>1. i - Len(f) \in 1 .. Len(g) /\ Len(f) + (i - Len(f)) = i
            BY <2>3, <2>5
        <3>2. (f \o g)[i] = g[i - Len(f)]
            BY <3>1, Joined
        <3>3. QED
            BY <2>2, <3>1, <3>2
    <2>6. QED
        BY <2>4, <2>5
<1>2. CASE state # None
    <2>1. PICK i \in DOMAIN f : IsLast(f, k, i) /\ state = StateOf(f[i], Records(f, i - 1, k[2]))
        BY <1>2 DEF Known, StateAt
    <2>2. IsLast(f \o g, k, i) /\ (f \o g)[i] = f[i] /\ i \in DOMAIN (f \o g)
        BY <2>1, LastJoined
    <2>3. state.epoch = f[i].epoch /\ state.sequence = Sequence(f[i])
        BY <2>1 DEF StateOf
    <2>4. QED
        BY <1>2, <2>2, <2>3 DEF Orders
<1>3. QED
    BY <1>1, <1>2

LEMMA PastEnd ==
    ASSUME NEW m \in Nat, NEW n \in Nat, NEW i \in 1 .. m + n, ~ (i <= m)
    PROVE  i - m \in 1 .. n /\ m + (i - m) = i
OBVIOUS

LEMMA LastOrBefore ==
    ASSUME NEW n \in Nat, NEW i \in 1 .. n + 1
    PROVE  i = n + 1 \/ i \in 1 .. n
OBVIOUS

LEMMA JoinTyped ==
    ASSUME NEW T, NEW f \in Seq(T), NEW g \in Seq(T)
    PROVE  f \o g \in Seq(T)
BY Joined

LEMMA JoinLen ==
    ASSUME NEW T, NEW f \in Seq(T), NEW g \in Seq(T)
    PROVE  Len(f \o g) = Len(f) + Len(g) /\ Len(f) \in Nat /\ Len(g) \in Nat
BY Joined

LEMMA JoinOneSpan ==
    \A f, g \in Seq(WideSpan) : \A s \in WideSpan : f \o Append(g, s) = Append(f \o g, s)
BY JoinOneMore

(* What Append does, once more, for use among many facts.                  *)
MoreBy(h, s, g) ==
    /\ Len(h) + 1 \in DOMAIN g /\ g[Len(h) + 1] = s
    /\ \A i \in DOMAIN h : i \in DOMAIN g /\ g[i] = h[i]
LEMMA MoreByOne ==
    ASSUME NEW h \in Seq(WideSpan), NEW s \in WideSpan
    PROVE  MoreBy(h, s, Append(h, s))
<1>1. DOMAIN h = 1 .. Len(h) /\ DOMAIN Append(h, s) = 1 .. Len(h) + 1 /\ Len(h) \in Nat
    BY OneMore
<1>2. Append(h, s)[Len(h) + 1] = s /\ \A i \in 1 .. Len(h) : Append(h, s)[i] = h[i]
    BY OneMore
<1>3. QED
    BY <1>1, <1>2 DEF MoreBy

LEMMA NearJoined ==
    ASSUME NEW f \in Seq(WideSpan), NEW g \in Seq(WideSpan), NEW k, NEW spans \in Seq(WideSpan),
           NEW low \in [Nat -> Nat], Sendable(f, k, spans, low),
           \A j \in 1 .. Len(g) : \E x \in 1 .. Len(spans) : g[j] = spans[x],
           NEW x \in 1 .. Len(spans), KeyOf(spans[x]) = k
    PROVE  Near(f \o g, k, spans[x], low[spans[x].epoch])
<1> DEFINE h == f \o g
           s == spans[x]
           n == low[s.epoch]
<1>1. /\ h \in Seq(WideSpan) /\ Len(h) = Len(f) + Len(g) /\ Len(f) \in Nat /\ Len(g) \in Nat
      /\ \A j \in 1 .. Len(f) : h[j] = f[j]
      /\ \A j \in 1 .. Len(g) : h[Len(f) + j] = g[j]
    <2>1. h \in Seq(WideSpan) /\ Len(h) = Len(f) + Len(g) /\ Len(f) \in Nat /\ Len(g) \in Nat
        <3>1. h \in Seq(WideSpan)
            BY JoinTyped
        <3>2. QED
            BY <3>1, JoinLen
    <2>2. \A j \in 1 .. Len(f) : h[j] = f[j]
        BY Joined
    <2>3. \A j \in 1 .. Len(g) : h[Len(f) + j] = g[j]
        BY Joined
    <2>4. QED
        BY <2>1, <2>2, <2>3
<1> HIDE DEF h
<1>2. DOMAIN f = 1 .. Len(f) /\ DOMAIN h = 1 .. Len(f) + Len(g)
    BY <1>1
<1>3. Counted(k, s) /\ s.batch < n + Window /\ Young(k, s, n)
    BY DEF Sendable
<1>4. s.epoch \in Nat
    <2>1. s \in WideSpan
        OBVIOUS
    <2>2. QED
        BY <2>1 DEF WideSpan
<1>5. ASSUME NEW i \in DOMAIN h, KeyOf(h[i]) = k, h[i].epoch = s.epoch
      PROVE  Counted(k, h[i]) /\ h[i].batch < n + Window
    <2>1. CASE i <= Len(f)
        <3>1. i \in DOMAIN f /\ h[i] = f[i]
            BY <1>1, <1>2, <2>1
        <3>2. QED
            BY <1>5, <3>1 DEF Sendable
    <2>2. CASE ~ (i <= Len(f))
        <3>1. i - Len(f) \in 1 .. Len(g) /\ Len(f) + (i - Len(f)) = i
            <4>1. i \in 1 .. Len(f) + Len(g)
                BY <1>2
            <4>2. Len(f) \in Nat /\ Len(g) \in Nat
                BY <1>1
            <4>3. QED
                BY <2>2, <4>1, <4>2, PastEnd
        <3>2. h[i] = g[i - Len(f)]
            BY <1>1, <3>1
        <3>3. PICK y \in 1 .. Len(spans) : h[i] = spans[y]
            BY <3>1, <3>2
        <3>4. KeyOf(spans[y]) = k => Counted(k, spans[y]) /\ spans[y].batch < low[spans[y].epoch] + Window
            BY DEF Sendable
        <3>5. QED
            BY <1>5, <3>3, <3>4
    <2>3. QED
        BY <2>1, <2>2
<1>6. ASSUME n > 0
      PROVE  \E i \in DOMAIN h : KeyOf(h[i]) = k /\ h[i].epoch = s.epoch /\ h[i].batch = n - 1
    <2>1. PICK i \in DOMAIN f : KeyOf(f[i]) = k /\ f[i].epoch = s.epoch /\ f[i].batch = n - 1
        BY <1>4, <1>6 DEF Sendable
    <2>2. i \in DOMAIN h /\ h[i] = f[i]
        BY <1>1, <1>2
    <2>3. QED
        BY <2>1, <2>2
<1> HIDE DEF n, s
<1>7. Near(h, k, s, n)
    BY <1>3, <1>5, <1>6 DEF Near
<1>8. QED
    BY <1>7 DEF h, n, s

LEMMA OrderedKeeps ==
    ASSUME NEW f \in Seq(WideSpan), NEW k \in Key, NEW spans \in Seq(WideSpan),
           NEW low \in [Nat -> Nat], Sendable(f, k, spans, low), LineOK(f, k),
           NEW a, Known(f, k, a.state[k]),
           NEW acc \in Decisions, OfBundle(spans, acc), Ordered(f, k, acc),
           NEW x \in 1 .. Len(spans)
    PROVE  Ordered(f, k, Decide(a, acc, spans[x]))
<1> DEFINE s == spans[x]
           now == Decide(a, acc, s)
           g == acc.admitted
           h == f \o g
           n == low[s.epoch]
<1>0. SUFFICES Ordered(f, k, now)
    OBVIOUS
<1>1. g \in Seq(WideSpan) /\ s \in WideSpan /\ h \in Seq(WideSpan) /\ acc.running \in [Key -> LineState \cup {None}]
    <2>1. g \in Seq(WideSpan) /\ acc.running \in [Key -> LineState \cup {None}]
        BY DEF Decisions
    <2>2. h \in Seq(WideSpan)
        BY <2>1, Joined
    <2>3. s \in WideSpan
        OBVIOUS
    <2>4. QED
        BY <2>1, <2>2, <2>3
<1>2. n \in Nat
    <2> HIDE DEF s
    <2>1. s.epoch \in Nat
        BY <1>1 DEF WideSpan
    <2>2. QED
        BY <2>1
<1>3. KeyOf(s) = k => Near(h, k, s, n)
    BY <1>1, NearJoined DEF OfBundle
<1>4. KeyOf(s) = k => Near(f, k, s, n)
    <2>1. f \o << >> = f
        OBVIOUS
    <2>2. << >> \in Seq(WideSpan) /\ \A j \in 1 .. Len(<< >>) : \E y \in 1 .. Len(spans) : << >>[j] = spans[y]
        OBVIOUS
    <2>3. KeyOf(s) = k => Near(f \o << >>, k, s, n)
        BY <2>2, NearJoined
    <2>4. QED
        BY <2>1, <2>3
<1>5. LineOK(h, k)
    BY DEF Ordered
<1>6. Orders(h, k, Standing(a, acc, k))
    <2>1. CASE acc.running[k] = None
        <3>1. \A j \in 1 .. Len(g) : KeyOf(g[j]) # k
            BY <2>1 DEF Ordered
        <3>2. Orders(h, k, a.state[k])
            BY <1>1, <3>1, KnownOrders
        <3>3. QED
            BY <2>1, <3>2 DEF Standing
    <2>2. CASE acc.running[k] # None
        BY <2>2 DEF Ordered, Standing
    <2>3. QED
        BY <2>1, <2>2
<1>15. f \o Append(g, s) = Append(h, s)
    <2> HIDE DEF g, s
    <2>1. f \o Append(g, s) = Append(f \o g, s)
        BY <1>1, JoinOneSpan
    <2>2. QED
        BY <2>1
<1>16. /\ Len(h) + 1 \in DOMAIN Append(h, s) /\ Append(h, s)[Len(h) + 1] = s
       /\ \A i \in DOMAIN h : i \in DOMAIN Append(h, s) /\ Append(h, s)[i] = h[i]
    <2> HIDE DEF h, s
    <2>1. MoreBy(h, s, Append(h, s))
        BY <1>1, MoreByOne
    <2>2. QED
        BY <2>1 DEF MoreBy
<1>17. /\ Len(Append(g, s)) = Len(g) + 1 /\ Append(g, s)[Len(g) + 1] = s /\ Len(g) \in Nat
       /\ \A i \in 1 .. Len(g) : Append(g, s)[i] = g[i]
    <2> HIDE DEF g, s
    <2>1. QED
        BY <1>1, OneMore
<1> HIDE DEF now, h, n
<1>7. CASE Takes(acc, now, s) /\ KeyOf(s) # k
    <2>1. now.admitted = Append(g, s) /\ now.replayed = acc.replayed
        BY <1>7 DEF Takes
    <2>2. f \o now.admitted = Append(h, s)
        BY <1>15, <2>1
    <2>3. now.running[k] = acc.running[k]
        BY <1>1, <1>7 DEF Takes
    <2>4. LineOK(Append(h, s), k)
        BY <1>1, <1>5, <1>7, LineMore
    <2>5. CASE acc.running[k] = None
        <3>1. \A j \in 1 .. Len(g) : KeyOf(g[j]) # k
            BY <2>5 DEF Ordered
        <3>2. \A j \in 1 .. Len(now.admitted) : KeyOf(now.admitted[j]) # k
            <4>1. ASSUME NEW j \in 1 .. Len(g) + 1 PROVE KeyOf(Append(g, s)[j]) # k
                <5>1. CASE j = Len(g) + 1
                    BY <1>7, <1>17, <5>1
                <5>2. CASE j \in 1 .. Len(g)
                    BY <1>17, <3>1, <5>2
                <5>3. QED
                    BY <1>17, <5>1, <5>2, LastOrBefore
            <4>2. QED
                BY <1>17, <2>1, <4>1
        <3>3. QED
            BY <2>1, <2>2, <2>3, <2>4, <2>5, <3>2 DEF Ordered
    <2>6. CASE acc.running[k] # None
        <3>1. Orders(h, k, acc.running[k])
            BY <2>6 DEF Ordered, h
        <3>2. PICK i \in DOMAIN h : IsLast(h, k, i) /\ acc.running[k].epoch = h[i].epoch /\ acc.running[k].sequence = Sequence(h[i])
            BY <2>6, <3>1 DEF Orders
        <3>3. IsLast(Append(h, s), k, i) /\ i \in DOMAIN Append(h, s) /\ Append(h, s)[i] = h[i]
            <4>1. IsLast(Append(h, s), k, i)
                BY <1>1, <1>7, <3>2, LastStands
            <4>2. QED
                BY <1>16, <4>1
        <3>4. Orders(Append(h, s), k, acc.running[k])
            BY <2>6, <3>2, <3>3 DEF Orders
        <3>5. QED
            BY <2>1, <2>2, <2>3, <2>4, <2>6, <3>4 DEF Ordered
    <2>7. QED
        BY <2>5, <2>6
<1>8. CASE Takes(acc, now, s) /\ KeyOf(s) = k /\ s.p # None /\ Deemed(a, acc, s) = "admit"
    <2>1. now.admitted = Append(g, s) /\ now.replayed = acc.replayed
        BY <1>8 DEF Takes
    <2>2. f \o now.admitted = Append(h, s)
        BY <1>15, <2>1
    <2>3. now.running[k] = StateOf(s, 0)
        BY <1>1, <1>8 DEF Takes
    <2>4. Classify(Standing(a, acc, k), acc.running[k] # None, s) = "admit"
        BY <1>8 DEF Deemed
    <2>5. LineOK(Append(h, s), KeyOf(s))
        BY <1>1, <1>2, <1>3, <1>5, <1>6, <1>8, <2>4, AdmitFits
    <2>6. IsLast(Append(h, s), k, Len(h) + 1) /\ Len(h) + 1 \in DOMAIN Append(h, s) /\ Append(h, s)[Len(h) + 1] = s
        <3>1. IsLast(Append(h, s), KeyOf(s), Len(h) + 1)
            BY <1>1, LastSet
        <3>2. QED
            BY <1>8, <1>16, <3>1
    <2>7. StateOf(s, 0) # None /\ StateOf(s, 0).epoch = s.epoch /\ StateOf(s, 0).sequence = Sequence(s)
        BY <1>1, StateTyped DEF StateOf
    <2>8. Orders(Append(h, s), k, StateOf(s, 0))
        BY <2>6, <2>7 DEF Orders
    <2>9. QED
        BY <1>8, <2>1, <2>2, <2>3, <2>5, <2>7, <2>8 DEF Ordered
<1>9. CASE Repeats(a, acc, now, s) /\ s.p # None /\ Deemed(a, acc, s) = "replay"
    <2> DEFINE state == Standing(a, acc, KeyOf(s))
               r == Answer(s, state.base)
    <2>1. now.admitted = g /\ now.running = acc.running /\ now.replayed = acc.replayed \cup {r}
        BY <1>9 DEF Repeats
    <2>2. ASSUME KeyOf(r) = k PROVE Told(f, r)
        <3>1. KeyOf(s) = k
            BY <2>2 DEF Answer, KeyOf
        <3>2. acc.running[k] = None
            BY <1>9, <3>1 DEF Deemed, Classify
        <3>3. state = a.state[k]
            BY <3>1, <3>2 DEF Standing
        <3>4. Classify(state, acc.running[k] # None, s) = "replay"
            BY <1>9, <3>1 DEF Deemed
        <3>5. Known(f, KeyOf(s), state)
            BY <3>1, <3>3
        <3> HIDE DEF state
        <3>6. PICK i \in DOMAIN f : Same(f[i], s) /\ f[i].count = s.count /\ state.base = Records(f, i - 1, s.part)
            <4>1. KeyOf(s) \in Key /\ LineOK(f, KeyOf(s)) /\ Near(f, KeyOf(s), s, n)
                BY <1>4, <3>1
            <4> HIDE DEF s
            <4>2. QED
                BY <1>1, <1>2, <3>4, <3>5, <4>1, ReplayFits
        <3>7. QED
            BY <3>6 DEF Told, Same, Answer
    <2> HIDE DEF r
    <2>3. QED
        BY <2>1, <2>2 DEF Ordered
<1>10. CASE now = acc
    BY <1>10
<1>11. s.p = None => KeyOf(s) # k
    BY <1>1, KeyTyped
<1>12. QED
    BY <1>7, <1>8, <1>9, <1>10, <1>11, DecideCases DEF now

LEMMA AdmitTyped ==
    ASSUME NEW a, a.state \in [Key -> LineState \cup {None}], NEW spans \in Seq(WideSpan)
    PROVE  \A n \in 0 .. Len(spans) : AdmitTo(a, spans, n) \in Decisions /\ OfBundle(spans, AdmitTo(a, spans, n))
<1> DEFINE P(n) == AdmitTo(a, spans, n) \in Decisions /\ OfBundle(spans, AdmitTo(a, spans, n))
           S == {n \in Nat : n <= Len(spans) => P(n)}
<1>0. Len(spans) \in Nat
    OBVIOUS
<1>1. 0 \in S
    <2>1. AdmitTo(a, spans, 0) = [admitted |-> <<>>, replayed |-> {}, running |-> [k \in Key |-> None]]
        BY <1>0, AdmitIs
    <2>2. << >> \in Seq(WideSpan) /\ [k \in Key |-> None] \in [Key -> LineState \cup {None}]
        OBVIOUS
    <2> DEFINE acc == AdmitTo(a, spans, 0)
    <2>3. acc \in Decisions
        <3> DEFINE none == [k \in Key |-> None]
        <3>1. none \in [Key -> LineState \cup {None}] /\ acc = [admitted |-> <<>>, replayed |-> {}, running |-> none]
            BY <2>1, <2>2
        <3> HIDE DEF none, acc
        <3>2. {} \in SUBSET WideAnswer
            OBVIOUS
        <3>3. QED
            BY <2>2, <3>1, <3>2 DEF Decisions
    <2>4. acc.admitted = << >> /\ acc.replayed = {} /\ Len(<< >>) = 0
        BY <2>1
    <2> HIDE DEF acc
    <2>5. OfBundle(spans, acc)
        BY <2>4 DEF OfBundle
    <2>6. QED
        BY <2>3, <2>5 DEF acc
<1>2. ASSUME NEW n \in Nat, n \in S PROVE n + 1 \in S
    <2>1. SUFFICES ASSUME n + 1 <= Len(spans) PROVE P(n + 1)
        OBVIOUS
    <2> DEFINE acc == AdmitTo(a, spans, n)
    <2>2. P(n)
        BY <1>0, <1>2, <2>1
    <2>3. AdmitTo(a, spans, n + 1) = Decide(a, acc, spans[n + 1])
        BY <1>0, <2>1, AdmitIs
    <2>4. n + 1 \in 1 .. Len(spans) /\ spans[n + 1] \in WideSpan
        BY <1>0, <2>1
    <2> HIDE DEF acc
    <2>5. Decide(a, acc, spans[n + 1]) \in Decisions
        BY <2>2, <2>4, DecideTyped DEF acc
    <2>6. OfBundle(spans, Decide(a, acc, spans[n + 1]))
        BY <2>2, <2>4, BundleKeeps DEF acc
    <2>7. QED
        BY <2>3, <2>5, <2>6
<1> HIDE DEF S, P
<1>3. \A n \in Nat : n \in S
    BY <1>1, <1>2, NatSetInduction
<1>4. QED
    BY <1>0, <1>3 DEF S, P

LEMMA NextNatural == \A n \in Nat : n + 1 \in Nat
OBVIOUS

LEMMA NextWithin == \A n, m \in Nat : n + 1 <= m => n + 1 \in 1 .. m /\ n \in 0 .. m
OBVIOUS

LEMMA AdmitOrdered ==
    ASSUME NEW f \in Seq(WideSpan), NEW k \in Key, NEW spans \in Seq(WideSpan),
           NEW low \in [Nat -> Nat], Sendable(f, k, spans, low), LineOK(f, k),
           NEW a, a.state \in [Key -> LineState \cup {None}], Known(f, k, a.state[k])
    PROVE  Ordered(f, k, Admit(a, spans))
<1> DEFINE P(n) == Ordered(f, k, AdmitTo(a, spans, n))
           S == {n \in Nat : n <= Len(spans) => P(n)}
<1>0. Len(spans) \in Nat
    OBVIOUS
<1>1. 0 \in S
    <2>1. AdmitTo(a, spans, 0) = [admitted |-> <<>>, replayed |-> {}, running |-> [x \in Key |-> None]]
        BY <1>0, AdmitIs
    <2>2. f \o << >> = f
        OBVIOUS
    <2> DEFINE acc == AdmitTo(a, spans, 0)
    <2>3. acc.admitted = << >> /\ acc.replayed = {} /\ acc.running[k] = None /\ Len(<< >>) = 0
        BY <2>1
    <2> HIDE DEF acc
    <2>4. Ordered(f, k, acc)
        BY <2>2, <2>3 DEF Ordered
    <2>5. QED
        BY <2>4 DEF acc
<1>2. ASSUME NEW n \in Nat, n \in S PROVE n + 1 \in S
    <2>0. n + 1 \in Nat
        BY NextNatural
    <2>1. SUFFICES ASSUME n + 1 <= Len(spans) PROVE P(n + 1)
        BY <2>0, Zenon
    <2> DEFINE acc == AdmitTo(a, spans, n)
    <2>2. Ordered(f, k, acc)
        BY <1>0, <1>2, <2>1
    <2>3. AdmitTo(a, spans, n + 1) = Decide(a, acc, spans[n + 1])
        BY <1>0, <2>1, AdmitIs
    <2>4. n + 1 \in 1 .. Len(spans) /\ n \in 0 .. Len(spans)
        BY <1>0, <2>1, NextWithin
    <2>5. acc \in Decisions /\ OfBundle(spans, acc)
        BY <2>4, AdmitTyped
    <2> HIDE DEF acc
    <2>6. Ordered(f, k, Decide(a, acc, spans[n + 1]))
        BY <2>2, <2>4, <2>5, OrderedKeeps
    <2>7. QED
        BY <2>3, <2>6
<1> HIDE DEF S, P
<1>3. \A n \in Nat : n \in S
    BY <1>1, <1>2, NatSetInduction
<1>4. QED
    BY <1>0, <1>3 DEF S, P, Admit

-----------------------------------------------------------------------------
(* The least batch without an answer.                                      *)

Least(g) == CHOOSE b \in 0 .. MaxBatch : b \notin g /\ 0 .. b - 1 \subseteq g

LEMMA LeastIs ==
    ASSUME NEW g \in SUBSET Batch
    PROVE  Least(g) \in 0 .. MaxBatch /\ Least(g) \notin g /\ 0 .. Least(g) - 1 \subseteq g
<1> DEFINE S == {n \in Nat : 0 .. n - 1 \subseteq g}
<1>1. g \in SUBSET Batch /\ MaxBatch \in Nat
    BY SequencingAssumption
<1>2. SUFFICES \E b \in 0 .. MaxBatch : b \notin g /\ 0 .. b - 1 \subseteq g
    BY DEF Least
<1>3. SUFFICES ASSUME \A b \in 0 .. MaxBatch : 0 .. b - 1 \subseteq g => b \in g PROVE FALSE
    OBVIOUS
<1>4. 0 \in S
    OBVIOUS
<1>5. ASSUME NEW n \in Nat, n \in S PROVE n + 1 \in S
    <2>1. n <= MaxBatch
        <3>1. SUFFICES ASSUME n > MaxBatch PROVE FALSE
            BY <1>1
        <3>2. MaxBatch \in 0 .. n - 1
            BY <1>1, <3>1
        <3>3. MaxBatch \in Batch
            BY <1>1, <1>5, <3>2
        <3>4. QED
            BY <1>1, <3>3 DEF Batch
    <2>2. n \in g
        BY <1>1, <1>3, <1>5, <2>1
    <2>3. ASSUME NEW x \in 0 .. (n + 1) - 1 PROVE x \in g
        <3>1. x = n \/ x \in 0 .. n - 1
            OBVIOUS
        <3>2. QED
            BY <1>5, <2>2, <3>1
    <2>4. QED
        BY <2>3
<1> HIDE DEF S
<1>6. MaxBatch + 1 \in S
    <2>1. MaxBatch + 1 \in Nat
        BY <1>1
    <2>2. QED
        BY <1>4, <1>5, <2>1, NatSetInduction
<1>7. MaxBatch \in g
    BY <1>1, <1>6 DEF S
<1>8. QED
    BY <1>1, <1>7 DEF Batch

LEMMA LeastRises ==
    ASSUME NEW g \in SUBSET Batch, NEW h \in SUBSET Batch, g \subseteq h
    PROVE  Least(g) \in Nat /\ Least(h) \in Nat /\ Least(g) <= Least(h)
<1>1. Least(g) \in 0 .. MaxBatch /\ 0 .. Least(g) - 1 \subseteq g
    BY LeastIs
<1>2. Least(h) \in 0 .. MaxBatch /\ Least(h) \notin h
    BY LeastIs
<1>3. MaxBatch \in Nat
    BY SequencingAssumption
<1>4. QED
    BY <1>1, <1>2, <1>3

-----------------------------------------------------------------------------
(* The invariant.                                                          *)

(* What is on its way was sent by a client that was free to.               *)
Sent(g, ep, s) ==
    s.p # None => /\ s \in Span /\ s.epoch <= ep[s.p]
                  /\ s.batch < Least(g[KeyOf(s)][s.epoch]) + Window /\ Counted(KeyOf(s), s)

(* An entry carries on the line below version n, wherever it lands there.  *)
Fits(d, g, ep, n, e) ==
    /\ \A j \in 1 .. Len(e.spans) : Sent(g, ep, e.spans[j])
    /\ \A k \in Key : k \notin Forgot(d, n) => LineOK(FlatTo(d, n) \o e.spans, k)
    /\ e.kind = "trim" =>
          e.part \in Partition /\ e.start <= Records(FlatTo(d, n), Len(FlatTo(d, n)), e.part)

(* An answer is true of the first n entries.                               *)
Vouched(d, n, a) == KeyOf(a) \in Forgot(d, n) \/ Told(FlatTo(d, n), a)

ToClient == [p : Producer, part : Partition, epoch : Epoch, batch : Batch, base : Nat, count : Nat]

SeqTypes ==
    /\ log \in Seq(Entry) /\ Len(log) <= MaxLog
    /\ current \in BOOLEAN /\ pc \in {"idle", "put", "landed"}
    /\ epoch \in [Producer -> Epoch]
    /\ got \in [Key -> [Epoch -> SUBSET Batch]]
    /\ IsFiniteSet(late) /\ Cardinality(late) <= MaxLate

AllocAt == alloc.next \in 0 .. Len(log) /\ alloc = FoldTo(log, alloc.next)

JobSays(d, n, j) ==
    /\ j.entry \in Entry
    /\ \A a \in j.replayed : a \in ToClient /\ Vouched(d, n, a)
    /\ \A a \in j.assigned : a.p # None => a \in ToClient /\ Told(FlatTo(d, n) \o j.entry.spans, a)

JobAt ==
    /\ pc # "idle" => current /\ JobSays(log, alloc.next, job)
    /\ pc = "put" => alloc.next < MaxLog /\ Fits(log, got, epoch, alloc.next, job.entry)
    /\ pc = "landed" => alloc.next + 1 <= Len(log) /\ log[alloc.next + 1] = job.entry

LateAt ==
    \A w \in late : /\ w.version \in 0 .. Len(log) /\ w.version < MaxLog /\ w.entry \in Entry
                    /\ Fits(log, got, epoch, w.version, w.entry)

LogAt == \A i \in 1 .. Len(log) : Fits(log, got, epoch, i - 1, log[i])

AnswersAt == \A a \in answers : a \in ToClient /\ Vouched(log, alloc.next, a)

GotAt ==
    \A k \in Key : \A e \in Epoch : \A b \in got[k][e] :
        \E a \in answers : KeyOf(a) = k /\ a.epoch = e /\ a.batch = b

SeqInv == SeqTypes /\ AllocAt /\ JobAt /\ LateAt /\ LogAt /\ AnswersAt /\ GotAt

-----------------------------------------------------------------------------
(* What stays true while log, answers and epochs grow.                     *)

LEMMA ToldJoined ==
    ASSUME NEW f \in Seq(WideSpan), NEW g \in Seq(WideSpan), NEW a, Told(f, a)
    PROVE  Told(f \o g, a)
<1> DEFINE h == f \o g
<1>1. PICK i \in DOMAIN f : Same(f[i], a) /\ f[i].count = a.count /\ a.base = Records(f, i - 1, a.part)
    BY DEF Told
<1>2. h \in Seq(WideSpan) /\ Len(h) = Len(f) + Len(g) /\ Len(f) \in Nat /\ Len(g) \in Nat
    BY JoinTyped, JoinLen
<1>3. \A j \in 1 .. Len(f) : h[j] = f[j]
    BY Joined
<1> HIDE DEF h
<1>4. i \in 1 .. Len(f) /\ i \in DOMAIN h /\ h[i] = f[i] /\ i - 1 \in 0 .. Len(f)
    BY <1>2, <1>3
<1>5. Starts(f, h)
    BY <1>2, <1>3 DEF Starts
<1>6. \A j \in 0 .. Len(f) : Records(f, j, a.part) = Records(h, j, a.part)
    BY <1>2, <1>5, RecordsStart
<1>7. Records(h, i - 1, a.part) = Records(f, i - 1, a.part)
    BY <1>4, <1>6
<1>8. Told(h, a)
    BY <1>1, <1>4, <1>7 DEF Told
<1>9. QED
    BY <1>8 DEF h

LEMMA FlatNext ==
    ASSUME NEW d \in Seq(Entry), NEW n \in Nat, n + 1 <= Len(d)
    PROVE  /\ FlatTo(d, n + 1) = FlatTo(d, n) \o d[n + 1].spans
           /\ FlatTo(d, n) \in Seq(WideSpan) /\ d[n + 1].spans \in Seq(WideSpan)
<1>1. Len(d) \in Nat /\ n \in 0 .. Len(d) /\ n + 1 \in 1 .. Len(d)
    OBVIOUS
<1>2. d[n + 1] \in Entry
    BY <1>1
<1>3. d[n + 1].spans \in Seq(WideSpan)
    BY <1>2 DEF Entry
<1>4. FlatTo(d, n) \in Seq(WideSpan)
    BY <1>1, FlatTyped
<1>5. QED
    BY <1>1, <1>3, <1>4, FlatIs

LEMMA VouchedNext ==
    ASSUME NEW d \in Seq(Entry), NEW n \in Nat, n + 1 <= Len(d), NEW a, Vouched(d, n, a)
    PROVE  Vouched(d, n + 1, a)
<1>1. Forgot(d, n) \subseteq Forgot(d, n + 1)
    BY ForgotRises
<1>2. CASE Told(FlatTo(d, n), a)
    <2>1. Told(FlatTo(d, n) \o d[n + 1].spans, a)
        BY <1>2, FlatNext, ToldJoined
    <2>2. QED
        BY <2>1, FlatNext DEF Vouched
<1>3. QED
    BY <1>1, <1>2 DEF Vouched

LEMMA VouchedAll ==
    ASSUME NEW d \in Seq(Entry), NEW n \in 0 .. Len(d), NEW a, Vouched(d, n, a)
    PROVE  Vouched(d, Len(d), a)
<1> DEFINE S == {i \in Nat : n + i <= Len(d) => Vouched(d, n + i, a)}
<1>0. Len(d) \in Nat /\ n \in Nat
    OBVIOUS
<1>1. 0 \in S
    <2>1. n + 0 = n
        BY <1>0
    <2>2. QED
        BY <2>1
<1>2. ASSUME NEW i \in Nat, i \in S PROVE i + 1 \in S
    <2>1. SUFFICES ASSUME n + (i + 1) <= Len(d) PROVE Vouched(d, n + (i + 1), a)
        OBVIOUS
    <2>2. n + i \in Nat /\ (n + i) + 1 <= Len(d) /\ n + (i + 1) = (n + i) + 1 /\ n + i <= Len(d)
        BY <1>0, <2>1
    <2>3. Vouched(d, n + i, a)
        BY <1>2, <2>2
    <2>4. Vouched(d, (n + i) + 1, a)
        BY <2>2, <2>3, VouchedNext
    <2>5. QED
        BY <2>2, <2>4
<1> HIDE DEF S
<1>3. Len(d) - n \in Nat /\ n + (Len(d) - n) = Len(d) /\ Len(d) <= Len(d)
    BY <1>0
<1>4. Len(d) - n \in S
    BY <1>1, <1>2, <1>3, NatSetInduction
<1>5. n + (Len(d) - n) <= Len(d) => Vouched(d, n + (Len(d) - n), a)
    BY <1>4 DEF S
<1>6. QED
    BY <1>3, <1>5

LEMMA VouchedStands ==
    ASSUME NEW d \in Seq(Entry), NEW e \in Entry, NEW n \in 0 .. Len(d), NEW a, Vouched(d, n, a)
    PROVE  Vouched(Append(d, e), n, a)
BY FlatStands, ForgotStands DEF Vouched

LEMMA FitsStands ==
    ASSUME NEW d \in Seq(Entry), NEW e \in Entry, NEW n \in 0 .. Len(d), NEW g, NEW ep, NEW x,
           Fits(d, g, ep, n, x)
    PROVE  Fits(Append(d, e), g, ep, n, x)
<1>1. FlatTo(Append(d, e), n) = FlatTo(d, n) /\ Forgot(Append(d, e), n) = Forgot(d, n)
    BY FlatStands, ForgotStands
<1>2. QED
    BY <1>1 DEF Fits

(* Answers reach clients, incarnations come: what was sent stays sendable. *)
Later(g, h, ep, eq) ==
    /\ g \in [Key -> [Epoch -> SUBSET Batch]] /\ h \in [Key -> [Epoch -> SUBSET Batch]]
    /\ \A k \in Key : \A e \in Epoch : g[k][e] \subseteq h[k][e]
    /\ ep \in [Producer -> Epoch] /\ eq \in [Producer -> Epoch]
    /\ \A p \in Producer : ep[p] <= eq[p]

LEMMA SentLater ==
    ASSUME NEW g, NEW h, NEW ep, NEW eq, Later(g, h, ep, eq), NEW s, Sent(g, ep, s)
    PROVE  Sent(h, eq, s)
<1>1. SUFFICES ASSUME s.p # None
               PROVE  /\ s \in Span /\ s.epoch <= eq[s.p] /\ Counted(KeyOf(s), s)
                      /\ s.batch < Least(h[KeyOf(s)][s.epoch]) + Window
    BY DEF Sent
<1>2. /\ s \in Span /\ s.epoch <= ep[s.p] /\ Counted(KeyOf(s), s)
      /\ s.batch < Least(g[KeyOf(s)][s.epoch]) + Window
    BY <1>1 DEF Sent
<1>3. s.p \in Producer /\ s.epoch \in Epoch /\ s.batch \in Batch /\ KeyOf(s) \in Key
    BY <1>1, <1>2 DEF Span, KeyOf, Key
<1>4. Least(g[KeyOf(s)][s.epoch]) \in Nat /\ Least(h[KeyOf(s)][s.epoch]) \in Nat
      /\ Least(g[KeyOf(s)][s.epoch]) <= Least(h[KeyOf(s)][s.epoch])
    <2>1. g[KeyOf(s)][s.epoch] \in SUBSET Batch /\ h[KeyOf(s)][s.epoch] \in SUBSET Batch
          /\ g[KeyOf(s)][s.epoch] \subseteq h[KeyOf(s)][s.epoch]
        BY <1>3 DEF Later
    <2>2. QED
        BY <2>1, LeastRises
<1>5. ep[s.p] \in Nat /\ eq[s.p] \in Nat /\ ep[s.p] <= eq[s.p] /\ s.epoch \in Nat /\ s.batch \in Nat
      /\ Window \in Nat
    BY <1>3, SequencingAssumption DEF Later, Epoch, Batch
<1>6. s.epoch <= eq[s.p]
    BY <1>2, <1>5
<1>7. s.batch < Least(h[KeyOf(s)][s.epoch]) + Window
    BY <1>2, <1>4, <1>5
<1>8. QED
    BY <1>2, <1>6, <1>7

LEMMA FitsLater ==
    ASSUME NEW g, NEW h, NEW ep, NEW eq, Later(g, h, ep, eq), NEW d, NEW n, NEW e, Fits(d, g, ep, n, e)
    PROVE  Fits(d, h, eq, n, e)
<1>1. \A j \in 1 .. Len(e.spans) : Sent(h, eq, e.spans[j])
    BY SentLater DEF Fits
<1>2. QED
    BY <1>1 DEF Fits

-----------------------------------------------------------------------------
(* serve, up to the journal step.                                          *)

LEMMA SpanWide == Span \subseteq WideSpan /\ Plain \subseteq WideSpan
<1>1. Epoch \subseteq Nat /\ Batch \subseteq Nat /\ Counts \subseteq Nat
    BY SequencingAssumption DEF Epoch, Batch
<1>2. Span \subseteq WideSpan
    BY <1>1 DEF Span, WideSpan
<1>3. Plain \subseteq WideSpan
    <2>1. {None} \subseteq Producer \cup {None} /\ {0} \subseteq Nat
        OBVIOUS
    <2> DEFINE n == {0}
               none == {None}
               any == Producer \cup {None}
    <2>2. n \subseteq Nat /\ none \subseteq any
        BY <2>1
    <2>3. Plain = [p : none, part : Partition, epoch : n, batch : n, first : n, count : Counts]
        BY DEF Plain
    <2>4. WideSpan = [p : any, part : Partition, epoch : Nat, batch : Nat, first : Nat, count : Nat]
        BY DEF WideSpan
    <2> HIDE DEF n, none, any
    <2>5. QED
        BY <1>1, <2>2, <2>3, <2>4
<1>4. QED
    BY <1>2, <1>3

LEMMA RequestIs ==
    ASSUME SeqTypes, NEW k \in Key, NEW s \in Requests(k)
    PROVE  /\ s \in Span /\ KeyOf(s) = k /\ s.epoch <= epoch[s.p] /\ s.p # None /\ s.p \in Producer
           /\ s.epoch \in Epoch /\ s.batch \in Batch
           /\ s.batch < Least(got[k][s.epoch]) + Window
           /\ Counted(k, s) /\ Young(k, s, Least(got[k][s.epoch]))
<1> DEFINE counts(e, b) == {First[k][e][b + 1] - First[k][e][b]} \cup Claims
           young(e) == {b \in Free(k, e) : \A x \in Free(k, e) : First[k][e][x] < First[k][e][b] + SeqMax}
           of(e, b) == {BatchOf(k, e, b, c) : c \in counts(e, b)}
<1>a. s \in UNION {UNION {of(e, b) : b \in young(e)} : e \in 0 .. epoch[k[1]]}
    BY DEF Requests
<1>b. PICK e \in 0 .. epoch[k[1]] : s \in UNION {of(e, b) : b \in young(e)}
    BY <1>a
<1>c. PICK b \in young(e) : s \in of(e, b)
    BY <1>b
<1>d. PICK c \in counts(e, b) : s = BatchOf(k, e, b, c)
    BY <1>c
<1>1. /\ c \in {First[k][e][b + 1] - First[k][e][b]} \cup Claims
      /\ s = BatchOf(k, e, b, c) /\ b \in Free(k, e) /\ b \in Batch
      /\ \A x \in Free(k, e) : First[k][e][x] < First[k][e][b] + SeqMax
    BY <1>c, <1>d DEF Free
<1> HIDE DEF counts, young, of
<1>2. k[1] \in Producer /\ k[2] \in Partition /\ k = <<k[1], k[2]>>
    BY DEF Key
<1>3. s.p = k[1] /\ s.part = k[2] /\ s.epoch = e /\ s.batch = b /\ s.first = First[k][e][b] /\ s.count = c
    BY <1>1 DEF BatchOf
<1>4. e \in Epoch /\ e <= epoch[k[1]]
    <2>1. epoch[k[1]] \in 0 .. MaxEpoch /\ MaxEpoch \in Nat
        BY <1>2, SequencingAssumption DEF SeqTypes, Epoch
    <2>2. QED
        BY <1>1, <2>1 DEF Epoch
<1>5. First[k][e][b] \in Nat /\ First[k][e][b + 1] - First[k][e][b] \in Counts
    <2>1. b \in 0 .. MaxBatch - 1 /\ b \in 0 .. MaxBatch
        BY <1>1, BatchIs DEF Batch
    <2>2. First[k][e][b] \in Nat
        BY <1>4, <2>1, FirstTyped
    <2>3. QED
        BY <1>4, <2>1, <2>2, NumberingAssumption DEF Key, Epoch
<1>6. c \in Counts
    BY <1>1, <1>5, SequencingAssumption
<1>7. s \in Span
    BY <1>1, <1>2, <1>4, <1>5, <1>6 DEF BatchOf, Span
<1>8. KeyOf(s) = k /\ s.p # None
    BY <1>2, <1>3, SequencingAssumption DEF KeyOf
<1>9. Counted(k, s)
    BY <1>1, <1>3, <1>4 DEF Counted
<1>10. Lowest(k, e) = Least(got[k][e])
    BY DEF Lowest, Least
<1>11. b < Least(got[k][e]) + Window
    BY <1>1, <1>10 DEF Free
<1>12. Young(k, s, Least(got[k][e]))
    BY <1>1, <1>3, <1>10 DEF Free, Young
<1>13. QED
    BY <1>1, <1>2, <1>3, <1>4, <1>7, <1>8, <1>9, <1>11, <1>12

FreeToSend(spans) ==
    \A x \in 1 .. Len(spans) :
        spans[x].p = None \/ (KeyOf(spans[x]) \in Key /\ spans[x] \in Requests(KeyOf(spans[x])))

LEMMA BundleSpans ==
    ASSUME SeqTypes, NEW spans \in Bundles(Partition, Counts)
    PROVE  spans \in Seq(WideSpan) /\ FreeToSend(spans)
<1> DEFINE free == UNION {Requests(k) : k \in Key}
           all == {s \in Plain \cup free : s.part \in Partition /\ s.count \in Counts}
<1>1. PICK n \in 1 .. MaxBundle : spans \in [1 .. n -> all]
    BY DEF Bundles
<1>2. all \subseteq Plain \cup free /\ free \subseteq Span
    BY RequestIs
<1>3. all \subseteq WideSpan
    BY <1>2, SpanWide
<1>4. n \in Nat /\ Len(spans) = n
    BY <1>1, SequencingAssumption
<1>5. spans \in Seq(WideSpan)
    BY <1>1, <1>3, <1>4
<1>6. ASSUME NEW x \in 1 .. Len(spans), spans[x].p # None
      PROVE  KeyOf(spans[x]) \in Key /\ spans[x] \in Requests(KeyOf(spans[x]))
    <2>1. spans[x] \in Plain \cup free
        BY <1>1, <1>2, <1>4
    <2>2. spans[x] \notin Plain
        BY <1>6 DEF Plain
    <2>3. PICK k \in Key : spans[x] \in Requests(k)
        BY <2>1, <2>2
    <2>4. KeyOf(spans[x]) = k
        BY <2>3, RequestIs
    <2>5. QED
        BY <2>3, <2>4
<1>7. QED
    BY <1>5, <1>6 DEF FreeToSend

LEMMA RequestsSent ==
    ASSUME SeqTypes, NEW spans, FreeToSend(spans), NEW x \in 1 .. Len(spans)
    PROVE  Sent(got, epoch, spans[x])
<1> DEFINE s == spans[x]
<1>1. SUFFICES ASSUME s.p # None PROVE Sent(got, epoch, s)
    BY DEF Sent
<1>2. KeyOf(s) \in Key /\ s \in Requests(KeyOf(s))
    BY <1>1 DEF FreeToSend
<1> HIDE DEF s
<1>3. /\ s \in Span /\ s.epoch <= epoch[s.p] /\ Counted(KeyOf(s), s)
      /\ s.batch < Least(got[KeyOf(s)][s.epoch]) + Window
    BY <1>2, RequestIs
<1>4. QED
    BY <1>3 DEF Sent

LEMMA LineAt ==
    ASSUME SeqTypes, LogAt, NEW n \in 0 .. Len(log), NEW k \in Key, k \notin Forgot(log, n)
    PROVE  LineOK(FlatTo(log, n), k)
<1>0. log \in Seq(Entry) /\ Len(log) \in Nat
    BY DEF SeqTypes
<1>1. CASE n = 0
    <2>1. FlatTo(log, 0) = << >>
        BY <1>0, FlatIs
    <2>2. QED
        BY <1>1, <2>1 DEF LineOK
<1>2. CASE n # 0
    <2>1. n - 1 \in Nat /\ (n - 1) + 1 = n /\ n \in 1 .. Len(log) /\ n - 1 <= n /\ n \in Nat /\ (n - 1) + 1 <= Len(log)
        BY <1>0, <1>2
    <2>2. k \notin Forgot(log, n - 1)
        BY <2>1, ForgotRises
    <2>3. LineOK(FlatTo(log, n - 1) \o log[n].spans, k)
        BY <2>1, <2>2 DEF LogAt, Fits
    <2>4. FlatTo(log, (n - 1) + 1) = FlatTo(log, n - 1) \o log[(n - 1) + 1].spans
        BY <1>0, <2>1, FlatNext
    <2>5. QED
        BY <2>1, <2>3, <2>4
<1>3. QED
    BY <1>1, <1>2

LEMMA FlatSent ==
    ASSUME SeqTypes, LogAt, NEW n \in 0 .. Len(log), NEW x \in DOMAIN FlatTo(log, n)
    PROVE  Sent(got, epoch, FlatTo(log, n)[x])
<1>0. log \in Seq(Entry) /\ Len(log) \in Nat
    BY DEF SeqTypes
<1>1. PICK i \in 1 .. n : \E j \in DOMAIN log[i].spans : log[i].spans[j] = FlatTo(log, n)[x]
    BY <1>0, FlatFrom DEF OfEntry
<1>2. PICK j \in DOMAIN log[i].spans : log[i].spans[j] = FlatTo(log, n)[x]
    BY <1>1
<1>3. i \in 1 .. Len(log)
    BY <1>0
<1>4. log[i].spans \in Seq(WideSpan)
    <2>1. log[i] \in Entry
        BY <1>0, <1>3
    <2>2. QED
        BY <2>1 DEF Entry
<1>5. j \in 1 .. Len(log[i].spans)
    BY <1>4
<1>6. QED
    BY <1>2, <1>3, <1>5 DEF LogAt, Fits

Lows(g, k) == [e \in Nat |-> IF e \in Epoch THEN Least(g[k][e]) ELSE 0]

LEMMA LineSendable ==
    ASSUME SeqTypes, AllocAt, LogAt, AnswersAt, GotAt, NEW k \in Key, k \notin Forgot(log, alloc.next),
           NEW spans \in Seq(WideSpan), FreeToSend(spans)
    PROVE  Lows(got, k) \in [Nat -> Nat] /\ Sendable(FlatTo(log, alloc.next), k, spans, Lows(got, k))
<1> DEFINE n == alloc.next
           f == FlatTo(log, n)
           low == Lows(got, k)
<1>0. log \in Seq(Entry) /\ n \in 0 .. Len(log) /\ f \in Seq(WideSpan)
    BY FlatTyped DEF SeqTypes, AllocAt
<1>1. \A e \in Epoch : Least(got[k][e]) \in Nat /\ 0 .. Least(got[k][e]) - 1 \subseteq got[k][e]
    <2>1. ASSUME NEW e \in Epoch PROVE Least(got[k][e]) \in 0 .. MaxBatch /\ 0 .. Least(got[k][e]) - 1 \subseteq got[k][e]
        <3>1. got[k][e] \in SUBSET Batch
            BY DEF SeqTypes
        <3>2. QED
            BY <3>1, LeastIs
    <2>2. QED
        BY <2>1, SequencingAssumption
<1>2. low \in [Nat -> Nat]
    BY <1>1 DEF Lows
<1>3. \A e \in Epoch : low[e] = Least(got[k][e]) /\ e \in Nat
    BY SequencingAssumption DEF Lows, Epoch
<1>4. \A e \in Nat : low[e] > 0 => e \in Epoch
    BY DEF Lows
<1> HIDE DEF low
<1>5. ASSUME NEW x \in 1 .. Len(spans), KeyOf(spans[x]) = k
      PROVE  /\ Counted(k, spans[x]) /\ spans[x].batch < low[spans[x].epoch] + Window
             /\ Young(k, spans[x], low[spans[x].epoch])
    <2>1. spans[x] \in WideSpan
        OBVIOUS
    <2>2. spans[x].p # None
        BY <1>5, <2>1, KeyTyped
    <2>3. spans[x] \in Requests(k)
        BY <1>5, <2>2 DEF FreeToSend
    <2>4. /\ spans[x].epoch \in Epoch /\ spans[x].batch < Least(got[k][spans[x].epoch]) + Window
          /\ Counted(k, spans[x]) /\ Young(k, spans[x], Least(got[k][spans[x].epoch]))
        BY <2>3, RequestIs
    <2>5. QED
        BY <1>3, <2>4
<1>6. ASSUME NEW i \in DOMAIN f, KeyOf(f[i]) = k
      PROVE  Counted(k, f[i]) /\ f[i].batch < low[f[i].epoch] + Window
    <2>1. f[i] \in WideSpan
        BY <1>0
    <2>2. f[i].p # None
        BY <1>6, <2>1, KeyTyped
    <2>3. Sent(got, epoch, f[i])
        BY <1>0, FlatSent
    <2>4. f[i] \in Span /\ f[i].batch < Least(got[k][f[i].epoch]) + Window /\ Counted(k, f[i])
        BY <1>6, <2>2, <2>3 DEF Sent
    <2>5. f[i].epoch \in Epoch
        BY <2>4 DEF Span
    <2>6. QED
        BY <1>3, <2>4, <2>5
<1>7. ASSUME NEW e \in Nat, low[e] > 0
      PROVE  \E i \in DOMAIN f : KeyOf(f[i]) = k /\ f[i].epoch = e /\ f[i].batch = low[e] - 1
    <2>1. e \in Epoch /\ low[e] \in Nat
        BY <1>2, <1>4, <1>7
    <2>2. low[e] - 1 \in 0 .. low[e] - 1
        BY <1>7, <2>1
    <2>3. low[e] - 1 \in got[k][e]
        BY <1>1, <1>3, <2>1, <2>2
    <2>4. PICK a \in answers : KeyOf(a) = k /\ a.epoch = e /\ a.batch = low[e] - 1
        BY <2>1, <2>3 DEF GotAt
    <2>5. Told(f, a)
        BY <2>4 DEF AnswersAt, Vouched
    <2>6. PICK i \in DOMAIN f : Same(f[i], a)
        BY <2>5 DEF Told
    <2>7. KeyOf(f[i]) = k /\ f[i].epoch = e /\ f[i].batch = low[e] - 1
        BY <2>4, <2>6 DEF Same, KeyOf
    <2>8. QED
        BY <2>7
<1>8. Sendable(f, k, spans, low)
    BY <1>5, <1>6, <1>7 DEF Sendable
<1>9. QED
    BY <1>2, <1>8 DEF low

LEMMA Shifted ==
    ASSUME NEW m \in Nat, NEW n \in Nat, NEW j \in 1 .. n
    PROVE  m + j \in 1 .. m + n
OBVIOUS

LEMMA SeqDomain == \A h \in Seq(WideSpan) : DOMAIN h = 1 .. Len(h)
OBVIOUS

LEMMA OutcomeSays ==
    ASSUME SeqInv, NEW spans \in Seq(WideSpan), FreeToSend(spans)
    PROVE  JobSays(log, alloc.next, Outcome(spans)) /\ Fits(log, got, epoch, alloc.next, Outcome(spans).entry)
<1> DEFINE n == alloc.next
           f == FlatTo(log, n)
           adm == Admit(alloc, spans)
           g == adm.admitted
           staged == Stage(alloc, g)
           e == [kind |-> "commit", spans |-> g, part |-> None, start |-> 0]
           assigned == {Answer(g[j], staged.bases[j]) : j \in 1 .. Len(g)}
<1>0. SeqTypes /\ AllocAt /\ LogAt /\ AnswersAt /\ GotAt
    BY DEF SeqInv
<1>1. log \in Seq(Entry) /\ n \in 0 .. Len(log) /\ f \in Seq(WideSpan) /\ alloc = FoldTo(log, n)
    BY <1>0, FlatTyped DEF SeqTypes, AllocAt
<1>2. EndsOf(f, alloc.ends) /\ StatesOf(f, alloc.state)
    BY <1>1, FoldMarks DEF MarkedBy
<1>3. alloc.state \in [Key -> LineState \cup {None}]
    BY <1>2 DEF StatesOf
<1>4. adm \in Decisions /\ OfBundle(spans, adm)
    <2>1. Len(spans) \in 0 .. Len(spans)
        OBVIOUS
    <2>2. QED
        BY <1>3, <2>1, AdmitTyped DEF Admit
<1>5. g \in Seq(WideSpan)
    BY <1>4 DEF Decisions
<1>6. ASSUME NEW k \in Key, k \notin Forgot(log, n) PROVE Ordered(f, k, adm)
    <2>1. Lows(got, k) \in [Nat -> Nat] /\ Sendable(f, k, spans, Lows(got, k))
        BY <1>0, <1>6, LineSendable
    <2>2. LineOK(f, k)
        BY <1>0, <1>1, <1>6, LineAt
    <2>3. Known(f, k, alloc.state[k])
        BY <1>1, <1>6, KnownIs
    <2>4. QED
        BY <1>1, <1>3, <2>1, <2>2, <2>3, AdmitOrdered
<1>7. Outcome(spans) = [entry |-> e, replayed |-> adm.replayed, assigned |-> assigned]
    BY DEF Outcome
<1>8. Outcome(spans).entry = e /\ Outcome(spans).replayed = adm.replayed /\ Outcome(spans).assigned = assigned
    BY <1>7
<1>9. BasesOf(f, g, staged.bases, Len(g))
    <2>1. Len(g) \in 0 .. Len(g)
        BY <1>5
    <2>2. StagedAt(f, g, StageTo(alloc, g, Len(g)), Len(g))
        BY <1>1, <1>2, <1>5, <2>1, StageMarks
    <2>3. QED
        BY <2>2 DEF StagedAt, Stage
<1> HIDE DEF adm, staged
<1>10. e \in Entry /\ e.spans = g /\ e.kind # "trim"
    <2>1. None \in Partition \cup {None} /\ 0 \in Nat /\ "commit" \in {"commit", "trim", "retention"}
        OBVIOUS
    <2>2. e.spans = g /\ e.kind = "commit"
        OBVIOUS
    <2> HIDE DEF g
    <2>3. QED
        BY <1>5, <2>1, <2>2 DEF Entry
<1> HIDE DEF e
<1>11. \A j \in 1 .. Len(g) : Sent(got, epoch, g[j])
    <2>1. ASSUME NEW j \in 1 .. Len(g) PROVE Sent(got, epoch, g[j])
        <3>1. PICK x \in 1 .. Len(spans) : g[j] = spans[x]
            BY <1>4 DEF OfBundle
        <3>2. QED
            BY <1>0, <3>1, RequestsSent
    <2>2. QED
        BY <2>1
<1>12. Fits(log, got, epoch, n, e)
    BY <1>6, <1>10, <1>11 DEF Fits, Ordered
<1>13. ASSUME NEW a \in adm.replayed PROVE a \in ToClient /\ Vouched(log, n, a)
    <2>1. a \in WideAnswer /\ a.p # None
        BY <1>4 DEF Decisions, OfBundle
    <2>2. PICK x \in 1 .. Len(spans) : Same(a, spans[x])
        BY <1>4 DEF OfBundle
    <2>3. spans[x].p # None
        BY <2>1, <2>2 DEF Same
    <2>4. spans[x].epoch \in Epoch /\ spans[x].batch \in Batch
        BY <1>0, <2>3, RequestIs DEF FreeToSend
    <2>5. a.epoch \in Epoch /\ a.batch \in Batch
        BY <2>2, <2>4 DEF Same
    <2>6. a \in ToClient /\ KeyOf(a) \in Key
        BY <2>1, <2>5 DEF WideAnswer, ToClient, KeyOf, Key
    <2>7. KeyOf(a) \notin Forgot(log, n) => Told(f, a)
        BY <1>6, <2>6 DEF Ordered
    <2>8. QED
        BY <2>6, <2>7 DEF Vouched
<1>14. ASSUME NEW a \in assigned, a.p # None PROVE a \in ToClient /\ Told(f \o g, a)
    <2>1. PICK j \in 1 .. Len(g) : a = Answer(g[j], staged.bases[j])
        OBVIOUS
    <2>2. g[j] \in WideSpan /\ staged.bases[j] \in Nat
        <3> DEFINE bases == staged.bases
        <3>1. bases \in Seq(Nat) /\ Len(bases) = Len(g)
            BY <1>9 DEF BasesOf
        <3> HIDE DEF bases
        <3>2. bases[j] \in Nat
            BY <3>1
        <3>3. g[j] \in WideSpan
            BY <1>5
        <3>4. QED
            BY <3>2, <3>3 DEF bases
    <2>3. staged.bases[j] = Records(f \o g, Len(f) + j - 1, g[j].part)
        BY <1>9 DEF BasesOf
    <2>4. /\ a.p = g[j].p /\ a.part = g[j].part /\ a.epoch = g[j].epoch /\ a.batch = g[j].batch
          /\ a.count = g[j].count /\ a.base = staged.bases[j]
        BY <2>1 DEF Answer
    <2>5. g[j] \in Span
        BY <1>11, <1>14, <2>4 DEF Sent
    <2>6. a \in ToClient
        <3>1. g[j].p \in Producer /\ g[j].part \in Partition /\ g[j].epoch \in Epoch /\ g[j].batch \in Batch /\ g[j].count \in Nat
            <4> DEFINE s == g[j]
            <4>1. s \in WideSpan /\ s \in Span /\ s.p # None
                BY <1>14, <2>2, <2>4, <2>5
            <4> HIDE DEF s
            <4>2. s.p \in Producer /\ s.part \in Partition /\ s.epoch \in Epoch /\ s.batch \in Batch
                BY <4>1 DEF Span
            <4>3. s.count \in Nat
                BY <4>1 DEF WideSpan
            <4>4. QED
                BY <4>2, <4>3 DEF s
        <3>2. QED
            BY <2>1, <2>2, <3>1 DEF Answer, ToClient
    <2> DEFINE h == f \o g
               i == Len(f) + j
    <2>7. i \in DOMAIN h /\ h[i] = g[j]
        <3>1. h \in Seq(WideSpan) /\ Len(h) = Len(f) + Len(g) /\ Len(f) \in Nat /\ Len(g) \in Nat
            BY <1>1, <1>5, JoinTyped, JoinLen
        <3>2. h[i] = g[j]
            BY <1>1, <1>5, JoinedAfter
        <3>3. i \in 1 .. Len(f) + Len(g)
            BY <3>1, Shifted
        <3>4. DOMAIN h = 1 .. Len(h)
            BY <3>1, SeqDomain
        <3> HIDE DEF h, i
        <3>5. QED
            BY <3>1, <3>2, <3>3, <3>4
    <2> HIDE DEF h
    <2>8. Told(h, a)
        <3>1. Same(h[i], a) /\ h[i].count = a.count
            BY <2>4, <2>7 DEF Same
        <3>2. a.base = Records(h, i - 1, a.part)
            BY <2>3, <2>4 DEF h
        <3> HIDE DEF i
        <3>3. QED
            BY <2>7, <3>1, <3>2 DEF Told
    <2>9. QED
        BY <2>6, <2>8 DEF h
<1> HIDE DEF assigned
<1>15. JobSays(log, n, Outcome(spans))
    BY <1>8, <1>10, <1>13, <1>14 DEF JobSays
<1>16. QED
    BY <1>8, <1>12, <1>15

-----------------------------------------------------------------------------
(* The steps.                                                              *)

(* Answers reach clients.                                                  *)
LEMMA ReplyGrows ==
    ASSUME SeqTypes, GotAt, NEW as, \A a \in as : a.p # None => a \in ToClient, Reply(as), epoch' = epoch
    PROVE  /\ got' \in [Key -> [Epoch -> SUBSET Batch]] /\ Later(got, got', epoch, epoch') /\ GotAt'
           /\ answers' = answers \cup {a \in as : a.p # None}
<1> DEFINE toClients == {a \in as : a.p # None}
<1>1. PICK heard \in SUBSET toClients :
          got' = [k \in Key |-> [e \in Epoch |->
                    got[k][e] \cup {a.batch : a \in {x \in heard : KeyOf(x) = k /\ x.epoch = e}}]]
    BY DEF Reply
<1>2. answers' = answers \cup toClients
    BY DEF Reply
<1>3. \A a \in heard : a.batch \in Batch
    BY DEF ToClient
<1>4. \A k \in Key : \A e \in Epoch :
          got'[k][e] = got[k][e] \cup {a.batch : a \in {x \in heard : KeyOf(x) = k /\ x.epoch = e}}
    BY <1>1
<1>5. got \in [Key -> [Epoch -> SUBSET Batch]] /\ epoch \in [Producer -> Epoch]
    BY DEF SeqTypes
<1>6. \A k \in Key : \A e \in Epoch : got[k][e] \subseteq got'[k][e] /\ got'[k][e] \in SUBSET Batch
    <2>1. SUFFICES ASSUME NEW k \in Key, NEW e \in Epoch
                   PROVE  got[k][e] \subseteq got'[k][e] /\ got'[k][e] \in SUBSET Batch
        OBVIOUS
    <2> DEFINE more == {a.batch : a \in {x \in heard : KeyOf(x) = k /\ x.epoch = e}}
    <2>2. got'[k][e] = got[k][e] \cup more
        BY <1>4
    <2>3. got[k][e] \in SUBSET Batch
        BY <1>5
    <2>4. more \subseteq Batch
        BY <1>3
    <2> HIDE DEF more
    <2>5. QED
        BY <2>2, <2>3, <2>4
<1>7. got' \in [Key -> [Epoch -> SUBSET Batch]]
    <2>1. \A k \in Key : got'[k] = [e \in Epoch |-> got'[k][e]]
        BY <1>1
    <2>2. \A k \in Key : got'[k] \in [Epoch -> SUBSET Batch]
        BY <1>6, <2>1
    <2>3. got' = [k \in Key |-> got'[k]]
        BY <1>1
    <2>4. QED
        BY <2>2, <2>3
<1>8. Later(got, got', epoch, epoch')
    <2>1. \A p \in Producer : epoch[p] <= epoch'[p]
        BY <1>5, SequencingAssumption DEF Epoch
    <2>2. QED
        BY <1>5, <1>6, <1>7, <2>1 DEF Later
<1>9. GotAt'
    <2>1. SUFFICES ASSUME NEW k \in Key, NEW e \in Epoch, NEW b \in got'[k][e]
                   PROVE  \E a \in answers' : KeyOf(a) = k /\ a.epoch = e /\ a.batch = b
        BY DEF GotAt
    <2>2. CASE b \in got[k][e]
        <3>1. PICK a \in answers : KeyOf(a) = k /\ a.epoch = e /\ a.batch = b
            BY <2>2 DEF GotAt
        <3>2. a \in answers'
            BY <1>2
        <3>3. QED
            BY <3>1, <3>2
    <2>3. CASE b \notin got[k][e]
        <3>1. PICK a \in heard : KeyOf(a) = k /\ a.epoch = e /\ a.batch = b
            BY <1>4, <2>3
        <3>2. a \in answers'
            BY <1>2
        <3>3. QED
            BY <3>1, <3>2
    <2>4. QED
        BY <2>2, <2>3
<1>10. QED
    BY <1>2, <1>7, <1>8, <1>9

LEMMA LogLater ==
    ASSUME LogAt, log' = log, Later(got, got', epoch, epoch')
    PROVE  LogAt'
<1>1. ASSUME NEW i \in 1 .. Len(log) PROVE Fits(log, got', epoch', i - 1, log[i])
    BY FitsLater DEF LogAt
<1>2. QED
    BY <1>1 DEF LogAt

LEMMA LateLater ==
    ASSUME LateAt, log' = log, late' = late, Later(got, got', epoch, epoch')
    PROVE  LateAt'
<1>1. ASSUME NEW w \in late PROVE Fits(log, got', epoch', w.version, w.entry)
    BY FitsLater DEF LateAt
<1>2. QED
    BY <1>1 DEF LateAt

LEMMA SeqServe ==
    ASSUME SeqInv, NEW spans \in Bundles(Partition, Counts), Serve(spans)
    PROVE  SeqInv'
<1>1. spans \in Seq(WideSpan) /\ FreeToSend(spans)
    BY BundleSpans DEF SeqInv
<1>2. JobSays(log, alloc.next, Outcome(spans)) /\ Fits(log, got, epoch, alloc.next, Outcome(spans).entry)
    BY <1>1, OutcomeSays
<1>3. /\ job' = Outcome(spans) /\ pc' = "put" /\ current /\ Len(log) < MaxLog
      /\ UNCHANGED <<log, alloc, current, late, epoch, got, answers>>
    BY DEF Serve
<1>4. alloc.next < MaxLog
    <2>1. alloc.next \in 0 .. Len(log) /\ Len(log) \in Nat /\ MaxLog \in Nat
        BY SequencingAssumption DEF SeqInv, AllocAt, SeqTypes
    <2>2. QED
        BY <1>3, <2>1
<1>5. JobAt'
    BY <1>2, <1>3, <1>4 DEF JobAt
<1>6. QED
    BY <1>3, <1>5 DEF SeqInv, SeqTypes, AllocAt, LateAt, LogAt, AnswersAt, GotAt

LEMMA SeqServeNothing ==
    ASSUME SeqInv, NEW spans \in Bundles(Partition, Counts), ServeNothing(spans)
    PROVE  SeqInv'
<1>1. spans \in Seq(WideSpan) /\ FreeToSend(spans)
    BY BundleSpans DEF SeqInv
<1> DEFINE as == Outcome(spans).replayed
<1>2. JobSays(log, alloc.next, Outcome(spans))
    BY <1>1, OutcomeSays
<1>3. pc = "idle" /\ Reply(as) /\ UNCHANGED <<log, alloc, current, pc, job, late, epoch>>
    BY DEF ServeNothing
<1>4. \A a \in as : a \in ToClient /\ Vouched(log, alloc.next, a)
    BY <1>2 DEF JobSays
<1> HIDE DEF as
<1>5. SeqTypes /\ GotAt /\ LogAt /\ LateAt /\ AnswersAt /\ AllocAt
    BY DEF SeqInv
<1>6. /\ got' \in [Key -> [Epoch -> SUBSET Batch]] /\ Later(got, got', epoch, epoch') /\ GotAt'
      /\ answers' = answers \cup {a \in as : a.p # None}
    BY <1>3, <1>4, <1>5, ReplyGrows
<1>7. LogAt' /\ LateAt'
    BY <1>3, <1>5, <1>6, LogLater, LateLater
<1>8. AnswersAt'
    BY <1>3, <1>4, <1>5, <1>6 DEF AnswersAt
<1>9. SeqTypes' /\ AllocAt' /\ JobAt'
    BY <1>3, <1>5, <1>6 DEF SeqTypes, AllocAt, JobAt
<1>10. QED
    BY <1>6, <1>7, <1>8, <1>9 DEF SeqInv

LEMMA SeqJob ==
    ASSUME SeqInv, NEW e \in Entry, job' = [NoJob EXCEPT !.entry = e], e.spans = << >>,
           e.kind = "trim" => e.part \in Partition /\ e.start <= alloc.ends[e.part],
           pc' = "put", current, Len(log) < MaxLog, UNCHANGED <<log, alloc, current, late, epoch, got, answers>>
    PROVE  SeqInv'
<1> DEFINE n == alloc.next
           f == FlatTo(log, n)
<1>0. SeqTypes /\ AllocAt /\ LogAt
    BY DEF SeqInv
<1>1. log \in Seq(Entry) /\ n \in 0 .. Len(log) /\ f \in Seq(WideSpan) /\ alloc = FoldTo(log, n)
    BY <1>0, FlatTyped DEF SeqTypes, AllocAt
<1>2. job' = [entry |-> e, replayed |-> {}, assigned |-> {}]
    BY DEF NoJob
<1>3. job'.entry = e /\ job'.replayed = {} /\ job'.assigned = {}
    BY <1>2
<1>4. JobSays(log, n, job')
    BY <1>3 DEF JobSays
<1>5. f \o << >> = f
    BY <1>1
<1>6. \A k \in Key : k \notin Forgot(log, n) => LineOK(f \o e.spans, k)
    BY <1>0, <1>1, <1>5, LineAt
<1>7. EndsOf(f, alloc.ends)
    BY <1>1, FoldMarks DEF MarkedBy
<1>8. e.kind = "trim" => e.part \in Partition /\ e.start <= Records(f, Len(f), e.part)
    BY <1>7 DEF EndsOf
<1>9. \A j \in 1 .. Len(e.spans) : Sent(got, epoch, e.spans[j])
    <2>1. Len(e.spans) = 0
        OBVIOUS
    <2>2. QED
        BY <2>1
<1>10. Fits(log, got, epoch, n, e)
    BY <1>6, <1>8, <1>9 DEF Fits
<1>11. n < MaxLog
    <2>1. Len(log) \in Nat /\ MaxLog \in Nat
        BY <1>1, SequencingAssumption
    <2>2. QED
        BY <1>1, <2>1
<1>12. JobAt'
    BY <1>3, <1>4, <1>10, <1>11 DEF JobAt
<1>13. QED
    BY <1>12 DEF SeqInv, SeqTypes, AllocAt, LateAt, LogAt, AnswersAt, GotAt

LEMMA SeqTrim ==
    ASSUME SeqInv, NEW q \in Partition, NEW start \in 0 .. alloc.ends[q] + 1, ServeTrim(q, start)
    PROVE  SeqInv'
<1> DEFINE e == TrimEntry(q, start)
<1>1. alloc.ends[q] \in Nat
    <2>1. log \in Seq(Entry) /\ alloc.next \in 0 .. Len(log) /\ alloc = FoldTo(log, alloc.next)
        BY DEF SeqInv, SeqTypes, AllocAt
    <2>2. QED
        BY <2>1, FoldMarks DEF MarkedBy, EndsOf
<1>2. start \in Nat
    BY <1>1
<1>3. e.spans = << >> /\ e.part = q /\ e.start = start
    BY DEF TrimEntry
<1>4. e \in Entry
    <2>1. << >> \in Seq(WideSpan) /\ q \in Partition \cup {None}
        OBVIOUS
    <2>2. QED
        BY <1>2, <2>1 DEF TrimEntry, Entry
<1>5. /\ job' = [NoJob EXCEPT !.entry = e] /\ start <= alloc.ends[q] /\ pc' = "put" /\ current /\ Len(log) < MaxLog
      /\ UNCHANGED <<log, alloc, current, late, epoch, got, answers>>
    BY DEF ServeTrim
<1> HIDE DEF e
<1>6. QED
    BY <1>3, <1>4, <1>5, SeqJob

LEMMA SeqRetention ==
    ASSUME SeqInv, ServeRetention
    PROVE  SeqInv'
<1> DEFINE e == [kind |-> "retention", spans |-> << >>, part |-> None, start |-> 0]
<1>1. e \in Entry /\ e.spans = << >> /\ e.kind # "trim"
    <2>1. << >> \in Seq(WideSpan) /\ None \in Partition \cup {None}
        OBVIOUS
    <2>2. QED
        BY <2>1 DEF Entry
<1>2. /\ job' = [NoJob EXCEPT !.entry = e] /\ pc' = "put" /\ current /\ Len(log) < MaxLog
      /\ UNCHANGED <<log, alloc, current, late, epoch, got, answers>>
    BY DEF ServeRetention
<1> HIDE DEF e
<1>3. QED
    BY <1>1, <1>2, SeqJob

(* An entry lands at the end of the log, and all that was said stands.     *)
LEMMA LogAppends ==
    ASSUME SeqInv, NEW e \in Entry, Fits(log, got, epoch, Len(log), e), log' = Append(log, e), Len(log) < MaxLog,
           UNCHANGED <<alloc, current, epoch, got, answers>>
    PROVE  /\ log' \in Seq(Entry) /\ Len(log') = Len(log) + 1 /\ Len(log') <= MaxLog
           /\ log'[Len(log) + 1] = e /\ \A i \in 1 .. Len(log) : log'[i] = log[i]
           /\ AllocAt' /\ LogAt' /\ AnswersAt' /\ GotAt'
           /\ \A n \in 0 .. Len(log) : \A x : Fits(log, got, epoch, n, x) => Fits(log, got, epoch, n, x)'
           /\ \A j : JobSays(log, alloc.next, j) => JobSays(log', alloc.next, j)
<1>0. SeqTypes /\ AllocAt /\ LogAt /\ AnswersAt /\ GotAt
    BY DEF SeqInv
<1>1. log \in Seq(Entry) /\ alloc.next \in 0 .. Len(log) /\ Len(log) \in Nat /\ MaxLog \in Nat
    BY <1>0, SequencingAssumption DEF SeqTypes, AllocAt
<1>2. /\ log' \in Seq(Entry) /\ Len(log') = Len(log) + 1 /\ log'[Len(log) + 1] = e
      /\ \A i \in 1 .. Len(log) : log'[i] = log[i]
    BY <1>1, EntriesStand
<1>3. Len(log') <= MaxLog
    BY <1>1, <1>2
<1>4. AllocAt'
    <2>1. FoldTo(log', alloc.next) = FoldTo(log, alloc.next)
        BY <1>1, FoldStands
    <2>2. alloc.next \in 0 .. Len(log')
        BY <1>1, <1>2
    <2>3. QED
        BY <1>0, <2>1, <2>2 DEF AllocAt
<1>5. ASSUME NEW n \in 0 .. Len(log), NEW x, Fits(log, got, epoch, n, x) PROVE Fits(log', got, epoch, n, x)
    BY <1>1, <1>5, FitsStands
<1>6. LogAt'
    <2>1. ASSUME NEW i \in 1 .. Len(log) + 1 PROVE Fits(log', got, epoch, i - 1, log'[i])
        <3>1. CASE i = Len(log) + 1
            <4>1. i - 1 = Len(log) /\ i - 1 \in 0 .. Len(log) /\ log'[i] = e
                BY <1>1, <1>2, <3>1
            <4>2. QED
                BY <1>5, <4>1
        <3>2. CASE i \in 1 .. Len(log)
            <4>1. i - 1 \in 0 .. Len(log) /\ log'[i] = log[i]
                BY <1>1, <1>2, <3>2
            <4>2. QED
                BY <1>0, <1>5, <3>2, <4>1 DEF LogAt
        <3>3. QED
            BY <1>1, <3>1, <3>2, LastOrBefore
    <2>2. QED
        BY <1>2, <2>1 DEF LogAt
<1>7. \A a : Vouched(log, alloc.next, a) => Vouched(log', alloc.next, a)
    BY <1>1, VouchedStands
<1>8. AnswersAt'
    BY <1>0, <1>7 DEF AnswersAt
<1>9. GotAt'
    BY <1>0 DEF GotAt
<1>10. ASSUME NEW j, JobSays(log, alloc.next, j) PROVE JobSays(log', alloc.next, j)
    <2>1. FlatTo(log', alloc.next) = FlatTo(log, alloc.next)
        BY <1>1, FlatStands
    <2>2. QED
        BY <1>7, <1>10, <2>1 DEF JobSays
<1>11. QED
    BY <1>2, <1>3, <1>4, <1>5, <1>6, <1>8, <1>9, <1>10

LEMMA SeqLands ==
    ASSUME SeqInv, Lands
    PROVE  SeqInv'
<1>1. /\ pc = "put" /\ alloc.next = Len(log) /\ log' = Append(log, job.entry) /\ pc' = "landed"
      /\ UNCHANGED <<alloc, current, job, late, epoch, got, answers>>
    BY DEF Lands
<1>2. /\ current /\ JobSays(log, alloc.next, job) /\ alloc.next < MaxLog
      /\ Fits(log, got, epoch, alloc.next, job.entry)
    BY <1>1 DEF SeqInv, JobAt
<1>3. job.entry \in Entry
    BY <1>2 DEF JobSays
<1>4. /\ log' \in Seq(Entry) /\ Len(log') = Len(log) + 1 /\ Len(log') <= MaxLog
      /\ log'[Len(log) + 1] = job.entry
    BY <1>1, <1>2, <1>3, LogAppends
<1>5. AllocAt' /\ LogAt' /\ AnswersAt' /\ GotAt'
    BY <1>1, <1>2, <1>3, LogAppends
<1>6. \A n \in 0 .. Len(log) : \A x : Fits(log, got, epoch, n, x) => Fits(log, got, epoch, n, x)'
    BY <1>1, <1>2, <1>3, LogAppends
<1>7. JobSays(log', alloc.next, job)
    BY <1>1, <1>2, <1>3, LogAppends
<1>8. SeqTypes'
    BY <1>1, <1>4 DEF SeqInv, SeqTypes
<1>9. Len(log) \in Nat
    BY DEF SeqInv, SeqTypes
<1>10. JobAt'
    BY <1>1, <1>2, <1>4, <1>7, <1>9 DEF JobAt
<1>11. LateAt'
    <2>1. \A n \in 0 .. Len(log) : n \in 0 .. Len(log')
        BY <1>4, <1>9
    <2>2. QED
        BY <1>1, <1>6, <2>1 DEF SeqInv, LateAt
<1>12. QED
    BY <1>5, <1>8, <1>10, <1>11 DEF SeqInv

LEMMA SeqLateLands ==
    ASSUME SeqInv, NEW w \in late, LateLands(w)
    PROVE  SeqInv'
<1>1. /\ late' = late \ {w} /\ log' = IF w.version = Len(log) THEN Append(log, w.entry) ELSE log
      /\ UNCHANGED <<alloc, current, pc, job, epoch, got, answers>>
    BY DEF LateLands
<1>2. /\ w.version \in 0 .. Len(log) /\ w.version < MaxLog /\ w.entry \in Entry
      /\ Fits(log, got, epoch, w.version, w.entry)
    BY DEF SeqInv, LateAt
<1>3. IsFiniteSet(late') /\ Cardinality(late') <= MaxLate
    <2>1. IsFiniteSet(late) /\ Cardinality(late) <= MaxLate /\ Cardinality(late) \in Nat
        BY FS_CardinalityType DEF SeqInv, SeqTypes
    <2>2. late' \subseteq late
        BY <1>1
    <2>3. IsFiniteSet(late') /\ Cardinality(late') <= Cardinality(late) /\ Cardinality(late') \in Nat
        BY <2>1, <2>2, FS_Subset, FS_CardinalityType
    <2>4. QED
        BY <2>1, <2>3, SequencingAssumption
<1>4. Len(log) \in Nat
    BY DEF SeqInv, SeqTypes
<1>5. CASE w.version # Len(log)
    <2>1. log' = log
        BY <1>1, <1>5
    <2>2. QED
        BY <1>1, <1>3, <2>1 DEF SeqInv, SeqTypes, AllocAt, JobAt, LateAt, LogAt, AnswersAt, GotAt
<1>6. CASE w.version = Len(log)
    <2>1. log' = Append(log, w.entry) /\ Len(log) < MaxLog /\ Fits(log, got, epoch, Len(log), w.entry)
        BY <1>1, <1>2, <1>6
    <2>2. /\ log' \in Seq(Entry) /\ Len(log') = Len(log) + 1 /\ Len(log') <= MaxLog
          /\ \A i \in 1 .. Len(log) : log'[i] = log[i]
        BY <1>1, <1>2, <2>1, LogAppends
    <2>3. AllocAt' /\ LogAt' /\ AnswersAt' /\ GotAt'
        BY <1>1, <1>2, <2>1, LogAppends
    <2>4. \A n \in 0 .. Len(log) : \A x : Fits(log, got, epoch, n, x) => Fits(log, got, epoch, n, x)'
        BY <1>1, <1>2, <2>1, LogAppends
    <2>5. JobSays(log, alloc.next, job) => JobSays(log', alloc.next, job)
        BY <1>1, <1>2, <2>1, LogAppends
    <2>6. SeqTypes'
        BY <1>1, <1>3, <2>2 DEF SeqInv, SeqTypes
    <2>7. \A n \in 0 .. Len(log) : n \in 0 .. Len(log')
        BY <1>4, <2>2
    <2>8. alloc.next \in 0 .. Len(log)
        BY DEF SeqInv, AllocAt
    <2>9. JobAt'
        <3>1. pc # "idle" => current /\ JobSays(log', alloc.next, job)
            BY <2>5 DEF SeqInv, JobAt
        <3>2. pc = "put" => alloc.next < MaxLog /\ Fits(log', got', epoch', alloc.next, job.entry)
            BY <2>4, <2>8 DEF SeqInv, JobAt
        <3>3. pc = "landed" => alloc.next + 1 <= Len(log') /\ log'[alloc.next + 1] = job.entry
            <4>1. SUFFICES ASSUME pc = "landed" PROVE alloc.next + 1 <= Len(log') /\ log'[alloc.next + 1] = job.entry
                OBVIOUS
            <4>2. alloc.next + 1 <= Len(log) /\ log[alloc.next + 1] = job.entry
                BY <4>1 DEF SeqInv, JobAt
            <4>3. alloc.next + 1 \in 1 .. Len(log)
                BY <1>4, <2>8, <4>2
            <4>4. QED
                BY <1>4, <2>2, <4>2, <4>3
        <3>4. QED
            BY <1>1, <3>1, <3>2, <3>3 DEF JobAt
    <2>10. LateAt'
        BY <1>1, <2>4, <2>7 DEF SeqInv, LateAt
    <2>11. QED
        BY <2>3, <2>6, <2>9, <2>10 DEF SeqInv
<1>7. QED
    BY <1>5, <1>6

LEMMA SeqAbandon ==
    ASSUME SeqInv, Abandon, current' \in BOOLEAN, UNCHANGED <<log, alloc, epoch, got, answers>>
    PROVE  SeqInv'
<1>1. pc' = "idle" /\ job' = NoJob
    BY DEF Abandon
<1>2. SeqTypes /\ LateAt /\ JobAt /\ AllocAt
    BY DEF SeqInv
<1>3. IsFiniteSet(late') /\ Cardinality(late') <= MaxLate /\ LateAt'
    <2>1. CASE late' = late
        BY <1>2, <2>1 DEF SeqTypes, LateAt
    <2>2. CASE /\ pc = "put" /\ Cardinality(late) < MaxLate
               /\ late' = late \cup {[version |-> alloc.next, entry |-> job.entry]}
        <3> DEFINE w == [version |-> alloc.next, entry |-> job.entry]
        <3>1. IsFiniteSet(late) /\ Cardinality(late) \in Nat
            BY <1>2, FS_CardinalityType DEF SeqTypes
        <3>2. IsFiniteSet(late') /\ Cardinality(late') <= Cardinality(late) + 1 /\ Cardinality(late') \in Nat
            <4>1. IsFiniteSet(late \cup {w}) /\
                  Cardinality(late \cup {w}) = IF w \in late THEN Cardinality(late) ELSE Cardinality(late) + 1
                BY <3>1, FS_AddElement
            <4>2. QED
                BY <2>2, <3>1, <4>1
        <3>3. Cardinality(late') <= MaxLate
            BY <2>2, <3>1, <3>2, SequencingAssumption
        <3>4. /\ w.version = alloc.next /\ w.entry = job.entry
              /\ w.version \in 0 .. Len(log) /\ w.version < MaxLog /\ w.entry \in Entry
              /\ Fits(log, got, epoch, w.version, w.entry)
            BY <1>2, <2>2 DEF JobAt, JobSays, AllocAt
        <3> HIDE DEF w
        <3>5. LateAt'
            BY <1>2, <2>2, <3>4 DEF LateAt, w
        <3>6. QED
            BY <3>2, <3>3, <3>5
    <2>3. QED
        BY <2>1, <2>2 DEF Abandon
<1>4. SeqTypes'
    BY <1>1, <1>2, <1>3 DEF SeqTypes
<1>5. QED
    BY <1>1, <1>3, <1>4 DEF SeqInv, AllocAt, JobAt, LogAt, AnswersAt, GotAt

LEMMA SeqAck ==
    ASSUME SeqInv, Ack
    PROVE  SeqInv'
<1> DEFINE n == alloc.next
           as == job.replayed \cup job.assigned
<1>1. /\ pc = "landed" /\ alloc' = Apply(alloc, job.entry) /\ Reply(as)
      /\ pc' = "idle" /\ job' = NoJob /\ UNCHANGED <<log, current, late, epoch>>
    BY DEF Ack
<1>2. SeqTypes /\ GotAt /\ LogAt /\ LateAt /\ AnswersAt /\ AllocAt
    BY DEF SeqInv
<1>3. JobSays(log, n, job) /\ n + 1 <= Len(log) /\ log[n + 1] = job.entry
    BY <1>1 DEF SeqInv, JobAt
<1>4. log \in Seq(Entry) /\ n \in Nat /\ Len(log) \in Nat /\ alloc = FoldTo(log, n)
    BY <1>2 DEF SeqTypes, AllocAt
<1>5. alloc' = FoldTo(log, n + 1)
    BY <1>1, <1>3, <1>4, FoldIs
<1>6. n + 1 \in 0 .. Len(log)
    BY <1>3, <1>4
<1>7. alloc'.next = n + 1
    BY <1>4, <1>5, <1>6, FoldMarks DEF MarkedBy
<1>8. AllocAt'
    BY <1>1, <1>5, <1>6, <1>7 DEF AllocAt
<1>9. \A a : Vouched(log, n, a) => Vouched(log, n + 1, a)
    BY <1>3, <1>4, VouchedNext
<1>10. FlatTo(log, n + 1) = FlatTo(log, n) \o job.entry.spans
    BY <1>3, <1>4, FlatNext
<1>11. \A a \in as : a.p # None => a \in ToClient /\ Vouched(log, n + 1, a)
    BY <1>3, <1>9, <1>10 DEF JobSays, Vouched
<1> HIDE DEF as
<1>12. /\ got' \in [Key -> [Epoch -> SUBSET Batch]] /\ Later(got, got', epoch, epoch') /\ GotAt'
       /\ answers' = answers \cup {a \in as : a.p # None}
    BY <1>1, <1>2, <1>11, ReplyGrows
<1>13. LogAt' /\ LateAt'
    BY <1>1, <1>2, <1>12, LogLater, LateLater
<1>14. AnswersAt'
    BY <1>1, <1>2, <1>7, <1>9, <1>11, <1>12 DEF AnswersAt
<1>15. SeqTypes' /\ JobAt'
    BY <1>1, <1>2, <1>12 DEF SeqTypes, JobAt
<1>16. QED
    BY <1>8, <1>12, <1>13, <1>14, <1>15 DEF SeqInv

LEMMA SeqRefold ==
    ASSUME SeqInv, Refold
    PROVE  SeqInv'
<1> DEFINE n == alloc.next
<1>1. ~ current /\ alloc' = FoldTo(log, Len(log)) /\ current' = TRUE /\ UNCHANGED <<log, pc, job, late, epoch, got, answers>>
    BY DEF Refold, Replay
<1>2. log \in Seq(Entry) /\ n \in 0 .. Len(log) /\ Len(log) \in 0 .. Len(log)
    BY DEF SeqInv, SeqTypes, AllocAt
<1>3. alloc'.next = Len(log)
    BY <1>1, <1>2, FoldMarks DEF MarkedBy
<1>4. AllocAt'
    BY <1>1, <1>2, <1>3 DEF AllocAt
<1>5. \A a : Vouched(log, n, a) => Vouched(log, Len(log), a)
    BY <1>2, VouchedAll
<1>6. AnswersAt'
    BY <1>1, <1>3, <1>5 DEF SeqInv, AnswersAt
<1>7. pc = "idle"
    BY <1>1 DEF SeqInv, JobAt
<1>8. QED
    BY <1>1, <1>4, <1>6, <1>7 DEF SeqInv, SeqTypes, JobAt, LateAt, LogAt, GotAt

LEMMA SeqBump ==
    ASSUME SeqInv, NEW p \in Producer, Bump(p)
    PROVE  SeqInv'
<1>1. /\ epoch[p] < MaxEpoch /\ epoch' = [epoch EXCEPT ![p] = epoch[p] + 1]
      /\ UNCHANGED <<log, alloc, current, pc, job, late, got, answers>>
    BY DEF Bump
<1>2. SeqTypes /\ LogAt /\ LateAt /\ JobAt
    BY DEF SeqInv
<1>3. epoch' \in [Producer -> Epoch] /\ \A x \in Producer : epoch[x] <= epoch'[x]
    <2>1. epoch \in [Producer -> Epoch] /\ MaxEpoch \in Nat
        BY <1>2, SequencingAssumption DEF SeqTypes
    <2>2. \A x \in Producer : epoch[x] \in 0 .. MaxEpoch
        BY <2>1 DEF Epoch
    <2>3. epoch[p] + 1 \in 0 .. MaxEpoch
        BY <1>1, <2>1, <2>2
    <2>4. QED
        BY <1>1, <2>1, <2>2, <2>3 DEF Epoch
<1>4. Later(got, got', epoch, epoch')
    BY <1>1, <1>2, <1>3 DEF SeqTypes, Later
<1>5. LogAt' /\ LateAt'
    BY <1>1, <1>2, <1>4, LogLater, LateLater
<1>6. pc = "put" => Fits(log, got', epoch', alloc.next, job.entry)
    BY <1>2, <1>4, FitsLater DEF JobAt
<1>7. JobAt'
    BY <1>1, <1>2, <1>6 DEF JobAt
<1>8. QED
    BY <1>1, <1>3, <1>5, <1>7 DEF SeqInv, SeqTypes, AllocAt, AnswersAt, GotAt

LEMMA SeqInit == Init => SeqInv
<1>1. SUFFICES ASSUME Init PROVE SeqInv
    OBVIOUS
<1>2. log = << >> /\ alloc = NewAllocator /\ current = TRUE /\ pc = "idle" /\ late = {} /\ answers = {}
      /\ epoch = [p \in Producer |-> 0] /\ got = [k \in Key |-> [e \in Epoch |-> {}]]
    BY <1>1 DEF Init
<1>3. << >> \in Seq(Entry) /\ Len(<< >>) = 0 /\ 0 \in Epoch /\ MaxLog \in Nat /\ MaxLate \in Nat
    BY SequencingAssumption DEF Epoch
<1>4. IsFiniteSet({}) /\ Cardinality({}) = 0
    BY FS_EmptySet
<1>5. SeqTypes
    BY <1>2, <1>3, <1>4 DEF SeqTypes
<1>6. AllocAt
    <2>1. FoldTo(<< >>, 0) = NewAllocator
        BY <1>3, FoldIs
    <2>2. NewAllocator.next = 0
        BY DEF NewAllocator
    <2>3. QED
        BY <1>2, <1>3, <2>1, <2>2 DEF AllocAt
<1>7. GotAt
    BY <1>2 DEF GotAt
<1>8. LogAt
    BY <1>2, <1>3 DEF LogAt
<1>9. QED
    BY <1>2, <1>5, <1>6, <1>7, <1>8 DEF SeqInv, JobAt, LateAt, AnswersAt

LEMMA SeqStep == SeqInv /\ [Next]_vars => SeqInv'
<1>1. SUFFICES ASSUME SeqInv, [Next]_vars PROVE SeqInv'
    OBVIOUS
<1>2. CASE \E spans \in Bundles(Partition, Counts) : Serve(spans) \/ ServeNothing(spans)
    BY <1>1, <1>2, SeqServe, SeqServeNothing
<1>3. CASE \E q \in Partition : \E start \in 0 .. alloc.ends[q] + 1 : ServeTrim(q, start)
    BY <1>1, <1>3, SeqTrim
<1>4. CASE ServeRetention
    BY <1>1, <1>4, SeqRetention
<1>5. CASE Lands
    BY <1>1, <1>5, SeqLands
<1>6. CASE Refused
    <2>1. /\ log' = log /\ alloc' = alloc /\ late' = late /\ epoch' = epoch /\ got' = got /\ answers' = answers
          /\ current' = FALSE /\ pc' = "idle"
        BY <1>6 DEF Refused
    <2>2. SeqTypes' /\ AllocAt'
        BY <1>1, <2>1 DEF SeqInv, SeqTypes, AllocAt
    <2>3. JobAt'
        BY <2>1 DEF JobAt
    <2>4. LateAt' /\ LogAt'
        BY <1>1, <2>1 DEF SeqInv, LateAt, LogAt
    <2>5. AnswersAt' /\ GotAt'
        BY <1>1, <2>1 DEF SeqInv, AnswersAt, GotAt
    <2>6. QED
        BY <2>2, <2>3, <2>4, <2>5 DEF SeqInv
<1>7. CASE Ack
    BY <1>1, <1>7, SeqAck
<1>8. CASE Errs
    <2>1. current' \in BOOLEAN /\ Abandon /\ UNCHANGED <<log, alloc, epoch, got, answers>>
        BY <1>1, <1>8 DEF Errs, SeqInv, SeqTypes
    <2>2. QED
        BY <1>1, <2>1, SeqAbandon
<1>9. CASE Deposed
    <2>1. current' \in BOOLEAN /\ Abandon /\ UNCHANGED <<log, alloc, epoch, got, answers>>
        BY <1>9 DEF Deposed
    <2>2. QED
        BY <1>1, <2>1, SeqAbandon
<1>10. CASE Refold
    BY <1>1, <1>10, SeqRefold
<1>11. CASE \E w \in late : LateLands(w)
    BY <1>1, <1>11, SeqLateLands
<1>12. CASE \E p \in Producer : Bump(p)
    BY <1>1, <1>12, SeqBump
<1>13. CASE UNCHANGED vars
    BY <1>1, <1>13 DEF vars, SeqInv, SeqTypes, AllocAt, JobAt, LateAt, LogAt, AnswersAt, GotAt
<1>14. QED
    BY <1>1, <1>2, <1>3, <1>4, <1>5, <1>6, <1>7, <1>8, <1>9, <1>10, <1>11, <1>12, <1>13 DEF Next, NextOver

LEMMA SeqHolds == Spec => []SeqInv
BY SeqInit, SeqStep, PTL DEF Spec

-----------------------------------------------------------------------------
(* What the runs check, from the invariant.                                *)

LEMMA FlatLine ==
    SeqInv => /\ log \in Seq(Entry) /\ Flat(log) \in Seq(WideSpan)
              /\ \A k \in Key : k \notin Forgotten => LineOK(Flat(log), k)
<1>1. SUFFICES ASSUME SeqInv PROVE /\ log \in Seq(Entry) /\ Flat(log) \in Seq(WideSpan)
                                   /\ \A k \in Key : k \notin Forgotten => LineOK(Flat(log), k)
    OBVIOUS
<1>2. log \in Seq(Entry) /\ Len(log) \in 0 .. Len(log)
    BY <1>1 DEF SeqInv, SeqTypes
<1>3. Flat(log) \in Seq(WideSpan)
    BY <1>2, FlatTyped DEF Flat
<1>4. Forgotten = Forgot(log, Len(log))
    BY <1>2, ForgottenIs
<1>5. ASSUME NEW k \in Key, k \notin Forgotten PROVE LineOK(Flat(log), k)
    BY <1>1, <1>2, <1>4, <1>5, LineAt DEF SeqInv, Flat
<1>6. QED
    BY <1>2, <1>3, <1>5

LEMMA LineOnce ==
    ASSUME NEW f \in Seq(WideSpan), NEW k \in Key, LineOK(f, k), NEW i \in DOMAIN f, NEW j \in DOMAIN f,
           i < j, KeyOf(f[i]) = k
    PROVE  ~ Same(f[i], f[j])
<1>1. SUFFICES ASSUME Same(f[i], f[j]) PROVE FALSE
    OBVIOUS
<1>2. KeyOf(f[j]) = k /\ f[i].epoch = f[j].epoch /\ f[i].batch = f[j].batch
    BY <1>1 DEF Same, KeyOf
<1>3. f[i].batch < f[j].batch
    BY <1>2, LineStrict
<1>4. f[j].batch \in Nat
    <2>1. f[j] \in WideSpan
        OBVIOUS
    <2>2. QED
        BY <2>1 DEF WideSpan
<1>5. QED
    BY <1>2, <1>3, <1>4

LEMMA LineHolds == SeqInv => LinesExact
<1>1. SUFFICES ASSUME SeqInv PROVE NoDuplicate /\ InOrder
    BY DEF LinesExact
<1> DEFINE f == Flat(log)
<1>2. /\ f \in Seq(WideSpan)
      /\ \A k \in Key : k \notin Forgotten => LineOK(f, k)
    BY <1>1, FlatLine
<1> HIDE DEF f
<1>3. \A i \in DOMAIN f : f[i].p # None => KeyOf(f[i]) \in Key
    <2>1. \A i \in DOMAIN f : f[i] \in WideSpan
        BY <1>2
    <2>2. QED
        BY <2>1, KeyTyped
<1>4. ASSUME NEW i \in DOMAIN f, NEW j \in DOMAIN f, i < j, f[i].p # None, KeyOf(f[i]) \notin Forgotten
      PROVE  ~ Same(f[i], f[j])
    BY <1>2, <1>3, <1>4, LineOnce
<1>5. NoDuplicate
    BY <1>4 DEF NoDuplicate, f
<1>6. ASSUME NEW i \in DOMAIN f, f[i].p # None, KeyOf(f[i]) \notin Forgotten
      PROVE  /\ \A j \in {j \in 1 .. i - 1 : KeyOf(f[j]) = KeyOf(f[i])} : f[j].epoch <= f[i].epoch
             /\ f[i].batch = Cardinality({j \in {j \in 1 .. i - 1 : KeyOf(f[j]) = KeyOf(f[i])} :
                                              f[j].epoch = f[i].epoch})
    <2>1. LineOK(f, KeyOf(f[i]))
        BY <1>2, <1>3, <1>6
    <2>2. {j \in {j \in 1 .. i - 1 : KeyOf(f[j]) = KeyOf(f[i])} : f[j].epoch = f[i].epoch}
            = Before(f, KeyOf(f[i]), f[i].epoch, i)
        BY DEF Before
    <2>3. QED
        BY <2>1, <2>2 DEF LineOK
<1>7. InOrder
    BY <1>6 DEF InOrder, f
<1>8. QED
    BY <1>5, <1>7

(* A batch is written once and in its producer's order, whatever is        *)
(* retried, duplicated, reordered or in doubt, through lost answers,       *)
(* failed appends and failovers, as long as its line is not forgotten at   *)
(* the cap (admission.rs, admit; serve.rs, serve).                         *)
THEOREM LinesHeld == Spec => []LinesExact
BY SeqHolds, LineHolds, PTL

LEMMA AnswerHolds == SeqInv => AnswersTrue
<1>1. SUFFICES ASSUME SeqInv, NEW a \in answers PROVE KeyOf(a) \in Forgotten \/ Told(Flat(log), a)
    BY DEF AnswersTrue
<1>2. log \in Seq(Entry) /\ alloc.next \in 0 .. Len(log) /\ Vouched(log, alloc.next, a)
    BY <1>1 DEF SeqInv, SeqTypes, AllocAt, AnswersAt
<1>3. Vouched(log, Len(log), a)
    BY <1>2, VouchedAll
<1>4. Forgotten = Forgot(log, Len(log))
    BY <1>2, ForgottenIs
<1>5. QED
    BY <1>3, <1>4 DEF Vouched, Flat

(* Every offset a client is given, on a first commit or on a retry, is     *)
(* where the log holds that batch, with that many records (serve.rs,       *)
(* serve).                                                                 *)
THEOREM AnswersAreTrue == Spec => []AnswersTrue
BY SeqHolds, AnswerHolds, PTL

(* What the allocator has on record of a line, when it has the whole log.  *)
LEMMA RecordIs ==
    ASSUME SeqInv, alloc.next = Len(log), NEW k \in Key, k \notin Forgotten
    PROVE  Known(Flat(log), k, alloc.state[k])
<1>1. log \in Seq(Entry) /\ Len(log) \in 0 .. Len(log) /\ alloc = FoldTo(log, Len(log))
    BY DEF SeqInv, SeqTypes, AllocAt
<1>2. k \notin Forgot(log, Len(log))
    BY <1>1, ForgottenIs
<1>3. QED
    BY <1>1, <1>2, KnownIs DEF Flat

(* Every span of the log is of an incarnation that has been.               *)
LEMMA FlatEpoch ==
    ASSUME SeqInv, NEW i \in DOMAIN Flat(log), Flat(log)[i].p # None
    PROVE  /\ Flat(log)[i] \in Span /\ Flat(log)[i].epoch <= epoch[Flat(log)[i].p]
           /\ Flat(log)[i].batch < Least(got[KeyOf(Flat(log)[i])][Flat(log)[i].epoch]) + Window
           /\ Counted(KeyOf(Flat(log)[i]), Flat(log)[i])
<1>1. log \in Seq(Entry) /\ Len(log) \in 0 .. Len(log) /\ SeqTypes /\ LogAt
    BY DEF SeqInv, SeqTypes
<1>2. i \in DOMAIN FlatTo(log, Len(log))
    BY DEF Flat
<1>3. Sent(got, epoch, FlatTo(log, Len(log))[i])
    BY <1>1, <1>2, FlatSent
<1>4. QED
    BY <1>3 DEF Sent, Flat

LEMMA AdmitsNext ==
    ASSUME NEW f \in Seq(WideSpan), NEW k \in Key, LineOK(f, k), NEW state, Known(f, k, state),
           NEW s \in WideSpan, KeyOf(s) = k,
           \A i \in DOMAIN f : KeyOf(f[i]) = k => f[i].epoch <= s.epoch,
           s.batch = Cardinality(Before(f, k, s.epoch, Len(f) + 1)),
           s.batch = 0 => s.first = 0,
           \A i \in DOMAIN f : KeyOf(f[i]) = k /\ f[i].epoch = s.epoch /\ s.batch = f[i].batch + 1 => s.first = f[i].first + 1
    PROVE  Classify(state, FALSE, s) = "admit"
<1>1. Len(f) \in Nat /\ DOMAIN f = 1 .. Len(f) /\ (Len(f) + 1) - 1 = Len(f)
    OBVIOUS
<1>2. s.epoch \in Nat /\ s.batch \in Nat /\ SeqMax + 1 \in Nat \ {0}
    BY SequencingAssumption DEF WideSpan
<1>3. ASSUME \A i \in DOMAIN f : KeyOf(f[i]) = k => f[i].epoch # s.epoch PROVE Sequence(s) = 0
    <2>1. Before(f, k, s.epoch, Len(f) + 1) = {}
        BY <1>1, <1>3 DEF Before
    <2>2. s.batch = 0
        BY <2>1, FS_EmptySet
    <2>3. 0 % (SeqMax + 1) = 0
        BY <1>2, SmallRemainder
    <2>4. QED
        BY <2>2, <2>3 DEF Sequence
<1>4. CASE state = None
    <2>1. Sequence(s) = 0
        BY <1>3, <1>4 DEF Known, HasLine
    <2>2. QED
        BY <1>4, <2>1 DEF Classify
<1>5. CASE state # None
    <2>1. PICK i \in DOMAIN f : IsLast(f, k, i) /\ state = StateOf(f[i], Records(f, i - 1, k[2]))
        BY <1>5 DEF Known, StateAt
    <2>2. f[i] \in WideSpan /\ KeyOf(f[i]) = k
        BY <2>1 DEF IsLast
    <2>3. f[i].epoch \in Nat /\ f[i].first \in Nat /\ f[i].epoch <= s.epoch
        BY <2>2 DEF WideSpan
    <2>4. state.epoch = f[i].epoch /\ state.sequence = Sequence(f[i])
        BY <2>1 DEF StateOf
    <2>5. CASE f[i].epoch < s.epoch
        <3>1. \A j \in DOMAIN f : KeyOf(f[j]) = k => f[j].epoch <= f[i].epoch
            BY <2>1, LineLast
        <3>2. \A j \in DOMAIN f : f[j].epoch \in Nat
            <4>1. \A j \in DOMAIN f : f[j] \in WideSpan
                OBVIOUS
            <4>2. QED
                BY <4>1 DEF WideSpan
        <3>3. \A j \in DOMAIN f : KeyOf(f[j]) = k => f[j].epoch # s.epoch
            BY <1>2, <2>3, <2>5, <3>1, <3>2
        <3>4. Sequence(s) = 0
            BY <1>3, <3>3
        <3>5. s.epoch > state.epoch
            BY <1>2, <2>3, <2>4, <2>5
        <3>6. QED
            BY <3>4, <3>5 DEF Classify
    <2>6. CASE f[i].epoch = s.epoch
        <3>1. s.batch = f[i].batch + 1
            BY <2>1, <2>6, LineFollows
        <3>2. Sequence(s) = NextSequence(state.sequence)
            <4>1. s.first = f[i].first + 1
                BY <2>2, <2>6, <3>1
            <4>2. QED
                BY <2>3, <2>4, <4>1, NextIs DEF Sequence
        <3>3. ~(s.epoch > state.epoch) /\ ~(s.epoch < state.epoch)
            BY <1>2, <2>4, <2>6
        <3>4. QED
            BY <1>5, <3>2, <3>3 DEF Classify
    <2>7. f[i].epoch < s.epoch \/ f[i].epoch = s.epoch
        BY <1>2, <2>3
    <2>8. QED
        BY <2>5, <2>6, <2>7
<1>6. QED
    BY <1>4, <1>5

LEMMA NextHolds == SeqInv => NextOfOneAdmitted
<1> DEFINE f == Flat(log)
<1>1. SUFFICES ASSUME SeqInv, alloc.next = Len(log), NEW k \in Key \ Forgotten, NEW c \in Counts,
                      \/ Committed(k, epoch[k[1]]) = 0
                      \/ First[k][epoch[k[1]]][Committed(k, epoch[k[1]])]
                           = First[k][epoch[k[1]]][Committed(k, epoch[k[1]]) - 1] + 1
               PROVE  Classify(alloc.state[k], FALSE,
                               BatchOf(k, epoch[k[1]], Committed(k, epoch[k[1]]), c)) = "admit"
    BY DEF NextOfOneAdmitted, Admits
<1> DEFINE e == epoch[k[1]]
           n == Committed(k, e)
           t == BatchOf(k, e, n, c)
<1>2. f \in Seq(WideSpan) /\ LineOK(f, k)
    BY <1>1, FlatLine
<1>3. Known(f, k, alloc.state[k])
    BY <1>1, RecordIs
<1>4. k \in Key /\ k[1] \in Producer /\ k[2] \in Partition /\ k = <<k[1], k[2]>>
    BY <1>1 DEF Key
<1>5. e \in Epoch /\ e \in Nat
    BY <1>1, <1>4, SequencingAssumption DEF SeqInv, SeqTypes, Epoch
<1>6. \A i \in DOMAIN f : KeyOf(f[i]) = k => f[i].epoch <= e /\ Counted(k, f[i])
    <2>1. SUFFICES ASSUME NEW i \in DOMAIN f, KeyOf(f[i]) = k PROVE f[i].epoch <= e /\ Counted(k, f[i])
        OBVIOUS
    <2>2. f[i].p = k[1]
        BY <2>1 DEF KeyOf
    <2>3. f[i].p # None
        BY <1>4, <2>2, SequencingAssumption
    <2>4. QED
        BY <1>1, <2>1, <2>2, <2>3, FlatEpoch
<1>7. n = Cardinality(Before(f, k, e, Len(f) + 1))
    <2>1. n = Cardinality({i \in DOMAIN f : KeyOf(f[i]) = k /\ f[i].epoch = e})
        BY DEF Committed
    <2> HIDE DEF f, e, n
    <2>2. DOMAIN f = 1 .. Len(f) /\ (Len(f) + 1) - 1 = Len(f)
        BY <1>2
    <2>3. {i \in DOMAIN f : KeyOf(f[i]) = k /\ f[i].epoch = e} = Before(f, k, e, Len(f) + 1)
        BY <2>2 DEF Before
    <2>4. QED
        BY <2>1, <2>3
<1>8. n = 0 \/ First[k][e][n] = First[k][e][n - 1] + 1
    BY <1>1
<1> HIDE DEF f, e, n
<1>9. ASSUME n # 0 PROVE n \in 0 .. MaxBatch
    <2>1. Before(f, k, e, Len(f) + 1) # {}
        BY <1>7, <1>9, FS_EmptySet
    <2>2. PICK j \in DOMAIN f : KeyOf(f[j]) = k /\ f[j].epoch = e
        BY <1>2, <2>1 DEF Before
    <2>3. PICK i \in DOMAIN f : IsLast(f, k, i)
        BY <1>3, <2>2 DEF Known, HasLine, StateAt
    <2>4. f[i] \in WideSpan /\ KeyOf(f[i]) = k
        BY <1>2, <2>3 DEF IsLast
    <2>5. f[i].epoch = e
        <3>1. f[j].epoch <= f[i].epoch
            BY <1>2, <2>2, <2>3, LineLast
        <3>2. f[i].epoch <= e /\ f[i].epoch \in Nat
            BY <1>6, <2>4 DEF WideSpan
        <3>3. QED
            BY <1>5, <2>2, <3>1, <3>2
    <2>6. Cardinality(Before(f, k, f[i].epoch, Len(f) + 1)) = f[i].batch + 1
        BY <1>2, <2>3, <2>4, LineFollows
    <2>7. f[i].batch \in Batch
        BY <1>6, <2>4 DEF Counted
    <2>8. QED
        BY <1>7, <2>5, <2>6, <2>7, BatchIs
<1>10. n \in 0 .. MaxBatch
    BY <1>9, SequencingAssumption
<1>11. t.p = k[1] /\ t.part = k[2] /\ t.epoch = e /\ t.batch = n /\ t.first = First[k][e][n] /\ t.count = c
    BY DEF BatchOf
<1>12. t \in WideSpan
    <2>1. First[k][e][n] \in Nat
        BY <1>4, <1>5, <1>10, FirstTyped
    <2>2. n \in Nat /\ c \in Nat
        BY <1>10, SequencingAssumption
    <2>3. QED
        BY <1>4, <1>5, <2>1, <2>2 DEF WideSpan, BatchOf
<1>13. KeyOf(t) = k
    BY <1>4, <1>11 DEF KeyOf
<1> HIDE DEF t
<1>14. n = 0 => t.first = 0
    BY <1>4, <1>5, <1>11, NumberingAssumption DEF Key, Epoch
<1>15. ASSUME NEW i \in DOMAIN f, KeyOf(f[i]) = k, f[i].epoch = e, n = f[i].batch + 1
       PROVE  t.first = f[i].first + 1
    <2>1. Counted(k, f[i]) /\ f[i].batch \in Nat
        BY <1>4, <1>6, <1>15, NumberTyped
    <2>2. n # 0 /\ n - 1 = f[i].batch
        BY <1>15, <2>1
    <2>3. f[i].first = First[k][e][n - 1]
        BY <1>15, <2>1, <2>2 DEF Counted
    <2>4. QED
        BY <1>8, <1>11, <2>2, <2>3
<1>16. Classify(alloc.state[k], FALSE, t) = "admit"
    <2>1. \A i \in DOMAIN f : KeyOf(f[i]) = k => f[i].epoch <= t.epoch
        BY <1>6, <1>11
    <2>2. t.batch = Cardinality(Before(f, k, t.epoch, Len(f) + 1))
        BY <1>7, <1>11
    <2>3. t.batch = 0 => t.first = 0
        BY <1>11, <1>14
    <2>4. \A i \in DOMAIN f : KeyOf(f[i]) = k /\ f[i].epoch = t.epoch /\ t.batch = f[i].batch + 1 => t.first = f[i].first + 1
        BY <1>11, <1>15
    <2>5. QED
        BY <1>2, <1>3, <1>4, <1>12, <1>13, <2>1, <2>2, <2>3, <2>4, AdmitsNext
<1>17. QED
    BY <1>16 DEF t, e, n

(* A line that is not forgotten begins, and moves on from a batch of one   *)
(* record: a leader that has the whole log admits the batch after the last *)
(* of a client's newest incarnation, however many batches the client keeps *)
(* in flight, through the wrap of the sequence space and across epochs     *)
(* (admission.rs, classify).                                               *)
THEOREM LinesMoveOn == Spec => []NextOfOneAdmitted
BY SeqHolds, NextHolds, PTL

LEMMA RepeatsLast ==
    ASSUME NEW s \in WideSpan, NEW base \in Nat
    PROVE  Classify(StateOf(s, base), FALSE, s) = "replay"
<1> DEFINE state == StateOf(s, base)
<1>1. state.epoch = s.epoch /\ state.sequence = Sequence(s) /\ state.count = s.count
    BY DEF StateOf
<1>2. s.epoch \in Nat /\ Sequence(s) \in Nat
    BY SequenceTyped DEF WideSpan
<1>3. Sequence(s) # NextSequence(Sequence(s))
    BY <1>2, SequencingAssumption DEF NextSequence
<1>4. state # None
    BY StateTyped
<1> HIDE DEF state
<1>5. ~(s.epoch > state.epoch) /\ ~(s.epoch < state.epoch)
    BY <1>1, <1>2
<1>6. Classify(state, FALSE, s) = "replay"
    BY <1>1, <1>3, <1>4, <1>5 DEF Classify
<1>7. QED
    BY <1>6 DEF state

(* A client that keeps one batch in flight: one it has no answer for is    *)
(* the last of its line.                                                   *)
LEMMA UnansweredLast ==
    ASSUME Window = 1, SeqInv, NEW i \in DOMAIN Flat(log), NEW j \in DOMAIN Flat(log),
           Flat(log)[i].p # None, KeyOf(Flat(log)[i]) \notin Forgotten,
           Flat(log)[i].epoch = epoch[Flat(log)[i].p],
           Flat(log)[i].batch \notin got[KeyOf(Flat(log)[i])][Flat(log)[i].epoch],
           IsLast(Flat(log), KeyOf(Flat(log)[i]), j)
    PROVE  i = j
<1> DEFINE f == Flat(log)
           k == KeyOf(f[i])
<1>1. f \in Seq(WideSpan) /\ (k \in Key => LineOK(f, k))
    BY FlatLine
<1>2. KeyOf(f[j]) = k
    BY DEF IsLast
<1>3. f[j].p = f[i].p
    BY <1>2 DEF KeyOf
<1>4. f[j] \in Span /\ f[j].epoch <= epoch[f[j].p] /\ f[j].batch < Least(got[k][f[j].epoch]) + Window
    BY <1>2, <1>3, FlatEpoch
<1>5. f[i] \in Span
    BY FlatEpoch
<1> HIDE DEF f
<1>6. k \in Key
    BY <1>5, SequencingAssumption DEF Span, KeyOf, Key, f
<1>7. /\ f[i].epoch \in Epoch /\ f[i].batch \in Batch /\ f[j].epoch \in Epoch /\ f[j].batch \in Batch
    BY <1>4, <1>5 DEF Span
<1>8. f[i].epoch \in Nat /\ f[i].batch \in Nat /\ f[j].epoch \in Nat /\ f[j].batch \in Nat
    BY <1>7 DEF Epoch, Batch
<1>9. j <= i \/ i < j
    <2>1. i \in Nat /\ j \in Nat
        BY <1>1 DEF f
    <2>2. QED
        BY <2>1
<1>10. i <= j /\ f[i].epoch <= f[j].epoch
    BY <1>1, <1>6, LineLast DEF f
<1>11. f[i].epoch = f[j].epoch
    BY <1>3, <1>4, <1>8, <1>10 DEF f
<1>12. got[k][f[i].epoch] \in SUBSET Batch
    BY <1>6, <1>7 DEF SeqInv, SeqTypes
<1> DEFINE g == got[k][f[i].epoch]
<1>13. f[i].batch \notin g
    BY DEF f
<1> HIDE DEF g
<1>14. Least(g) \in Nat /\ 0 .. Least(g) - 1 \subseteq g
    BY <1>12, LeastIs DEF g
<1>15. f[j].batch < Least(g) + 1
    BY <1>4, <1>11 DEF g
<1>16. ~ (f[i].batch < f[j].batch)
    <2>1. SUFFICES ASSUME f[i].batch < f[j].batch PROVE FALSE
        OBVIOUS
    <2>2. f[i].batch \in 0 .. Least(g) - 1
        BY <1>8, <1>14, <1>15, <2>1
    <2>3. QED
        BY <1>13, <1>14, <2>2
<1>17. ~ (i < j)
    <2>1. SUFFICES ASSUME i < j PROVE f[i].batch < f[j].batch
        BY <1>16
    <2>2. QED
        BY <1>1, <1>2, <1>6, <1>11, <2>1, LineStrict DEF f
<1>18. i \in Nat /\ j \in Nat
    BY <1>1 DEF f
<1>19. QED
    BY <1>10, <1>17, <1>18

LEMMA RetryHolds == SeqInv => RetriesDeduplicated
<1> DEFINE f == Flat(log)
<1>1. SUFFICES ASSUME SeqInv, current, alloc.next = Len(log), NEW i \in DOMAIN f,
                      f[i].p # None, KeyOf(f[i]) \notin Forgotten,
                      f[i].epoch = epoch[f[i].p], f[i].batch \notin got[KeyOf(f[i])][f[i].epoch],
                      Window = 1 \/ \A j \in i + 1 .. Len(f) : KeyOf(f[j]) # KeyOf(f[i])
               PROVE  Classify(alloc.state[KeyOf(f[i])], FALSE, f[i]) = "replay"
    BY DEF RetriesDeduplicated
<1>2. f \in Seq(WideSpan)
    BY <1>1, FlatLine
<1>3. f[i] \in WideSpan
    <2> HIDE DEF f
    <2>1. QED
        BY <1>1, <1>2
<1>4. KeyOf(f[i]) \in Key /\ KeyOf(f[i])[2] = f[i].part
    BY <1>1, <1>3, KeyTyped
<1>5. Known(f, KeyOf(f[i]), alloc.state[KeyOf(f[i])])
    BY <1>1, <1>4, RecordIs
<1>6. HasLine(f, KeyOf(f[i]))
    BY <1>1 DEF HasLine
<1>7. PICK j \in DOMAIN f : /\ IsLast(f, KeyOf(f[i]), j)
                            /\ alloc.state[KeyOf(f[i])] = StateOf(f[j], Records(f, j - 1, KeyOf(f[i])[2]))
    BY <1>5, <1>6 DEF Known, StateAt
<1>8. i = j
    <2>1. CASE Window = 1
        BY <1>1, <1>7, <2>1, UnansweredLast
    <2>2. CASE \A x \in i + 1 .. Len(f) : KeyOf(f[x]) # KeyOf(f[i])
        <3> HIDE DEF f
        <3>1. i \in 1 .. Len(f) /\ j \in 1 .. Len(f) /\ Len(f) \in Nat
            BY <1>1, <1>2, <1>7
        <3>2. KeyOf(f[j]) = KeyOf(f[i]) /\ \A x \in j + 1 .. Len(f) : KeyOf(f[x]) # KeyOf(f[i])
            BY <1>7 DEF IsLast
        <3>3. ~ (i < j) /\ ~ (j < i)
            BY <2>2, <3>1, <3>2
        <3>4. QED
            BY <3>1, <3>3
    <2>3. QED
        BY <1>1, <2>1, <2>2
<1> HIDE DEF f
<1>9. i - 1 \in 0 .. Len(f) /\ f[i].part \in Partition
    <2>1. i \in 1 .. Len(f) /\ Len(f) \in Nat
        BY <1>1, <1>2
    <2>2. QED
        BY <1>3, <2>1 DEF WideSpan
<1>10. Records(f, i - 1, f[i].part) \in Nat
    BY <1>2, <1>9, RecordsTyped
<1>11. QED
    BY <1>3, <1>4, <1>7, <1>8, <1>10, RepeatsLast

(* A client gets on: a batch of its that is in the log and that it holds   *)
(* no answer for is answered as committed when it is sent again, if the    *)
(* client keeps one batch in flight or the batch is the last of its line;  *)
(* and the batch after one of one record is admitted (admission.rs,        *)
(* Decision::Replay).                                                      *)
THEOREM RetriesAreServed == Spec => []RetriesServed
<1>1. SeqInv => RetriesServed
    BY RetryHolds, NextHolds DEF RetriesServed
<1>2. QED
    BY <1>1, SeqHolds, PTL

-----------------------------------------------------------------------------
(* The recency tracker.                                                    *)

LEMMA JoinKeys ==
    ASSUME NEW f \in Seq(Key), NEW g \in Seq(Key)
    PROVE  /\ f \o g \in Seq(Key) /\ Len(f \o g) = Len(f) + Len(g)
           /\ \A i \in 1 .. Len(f) : (f \o g)[i] = f[i]
           /\ \A i \in 1 .. Len(g) : (f \o g)[Len(f) + i] = g[i]
BY SMT

LEMMA WithoutIs ==
    ASSUME NEW r \in Seq(Key), NEW i \in 1 .. Len(r)
    PROVE  /\ RemoveAt(r, i) \in Seq(Key) /\ Len(RemoveAt(r, i)) = Len(r) - 1
           /\ \A a \in 1 .. Len(r) - 1 : RemoveAt(r, i)[a] = IF a < i THEN r[a] ELSE r[a + 1]
<1> DEFINE u == SubSeq(r, 1, i - 1)
           v == SubSeq(r, i + 1, Len(r))
           w == u \o v
<1>0. Len(r) \in Nat /\ i \in Nat
    OBVIOUS
<1>1. u \in Seq(Key) /\ Len(u) = i - 1 /\ \A a \in 1 .. i - 1 : u[a] = r[a]
    OBVIOUS
<1>2. v \in Seq(Key) /\ Len(v) = Len(r) - i /\ \A a \in 1 .. Len(r) - i : v[a] = r[a + i]
    OBVIOUS
<1> HIDE DEF u, v
<1>3. /\ w \in Seq(Key) /\ Len(w) = Len(u) + Len(v)
      /\ \A a \in 1 .. Len(u) : w[a] = u[a]
      /\ \A a \in 1 .. Len(v) : w[Len(u) + a] = v[a]
    BY <1>1, <1>2, JoinKeys
<1> HIDE DEF w
<1>4. Len(w) = Len(r) - 1
    BY <1>0, <1>1, <1>2, <1>3
<1>5. ASSUME NEW a \in 1 .. Len(r) - 1 PROVE w[a] = IF a < i THEN r[a] ELSE r[a + 1]
    <2>1. CASE a < i
        <3>1. a \in 1 .. i - 1
            BY <1>0, <2>1
        <3>2. QED
            BY <1>1, <1>3, <2>1, <3>1
    <2>2. CASE ~ (a < i)
        <3> DEFINE c == a - (i - 1)
        <3>1. c \in 1 .. Len(r) - i /\ (i - 1) + c = a /\ c + i = a + 1
            BY <1>0, <2>2
        <3> HIDE DEF c
        <3>2. w[a] = v[c] /\ v[c] = r[c + i]
            BY <1>1, <1>2, <1>3, <3>1
        <3>3. QED
            BY <2>2, <3>1, <3>2
    <2>3. QED
        BY <2>1, <2>2
<1>6. RemoveAt(r, i) = w
    BY DEF RemoveAt, w, u, v
<1>7. QED
    BY <1>3, <1>4, <1>5, <1>6

Once(r) == r \in Seq(Key) /\ \A a, b \in 1 .. Len(r) : a < b => r[a] # r[b]

(* t is r with k moved to the back.                                        *)
Moved(r, k, t) ==
    /\ t \in Seq(Key) /\ Len(t) >= 1 /\ t[Len(t)] = k
    /\ \A a \in 1 .. Len(t) - 1 : t[a] # k
    /\ \A a, b \in 1 .. Len(t) - 1 : a < b => \E c, d \in 1 .. Len(r) : c < d /\ t[a] = r[c] /\ t[b] = r[d]
    /\ \A x : x \in ToSet(t) <=> x \in ToSet(r) \/ x = k

LEMMA AppendMoves ==
    ASSUME NEW r \in Seq(Key), NEW u \in Seq(Key), NEW k \in Key,
           \A a \in 1 .. Len(u) : u[a] # k,
           \A a, b \in 1 .. Len(u) : a < b => \E c, d \in 1 .. Len(r) : c < d /\ u[a] = r[c] /\ u[b] = r[d],
           \A x : x \in ToSet(u) \/ x = k <=> x \in ToSet(r) \/ x = k
    PROVE  Moved(r, k, Append(u, k))
<1> DEFINE t == Append(u, k)
<1>1. /\ t \in Seq(Key) /\ Len(t) = Len(u) + 1 /\ t[Len(u) + 1] = k
      /\ \A i \in 1 .. Len(u) : t[i] = u[i]
      /\ DOMAIN u = 1 .. Len(u) /\ DOMAIN t = 1 .. Len(u) + 1 /\ Len(u) \in Nat
    BY OneMore
<1> HIDE DEF t
<1>2. Len(t) - 1 = Len(u) /\ Len(t) >= 1
    BY <1>1
<1>3. ASSUME NEW x PROVE x \in ToSet(t) <=> x \in ToSet(u) \/ x = k
    <2>1. ASSUME NEW i \in 1 .. Len(u) + 1, t[i] = x PROVE x \in ToSet(u) \/ x = k
        <3>1. i = Len(u) + 1 \/ i \in 1 .. Len(u)
            BY <1>1
        <3>2. QED
            BY <1>1, <2>1, <3>1 DEF ToSet
    <2>2. ASSUME NEW i \in 1 .. Len(u), u[i] = x PROVE x \in ToSet(t)
        <3>1. i \in 1 .. Len(u) + 1
            BY <1>1
        <3>2. QED
            BY <1>1, <2>2, <3>1 DEF ToSet
    <2>3. k \in ToSet(t)
        <3>1. Len(u) + 1 \in 1 .. Len(u) + 1
            BY <1>1
        <3>2. QED
            BY <1>1, <3>1 DEF ToSet
    <2>4. QED
        BY <1>1, <2>1, <2>2, <2>3 DEF ToSet
<1>4. \A a \in 1 .. Len(t) - 1 : t[a] # k
    BY <1>1, <1>2
<1>5. ASSUME NEW a \in 1 .. Len(t) - 1, NEW b \in 1 .. Len(t) - 1, a < b
      PROVE  \E c, d \in 1 .. Len(r) : c < d /\ t[a] = r[c] /\ t[b] = r[d]
    <2>1. a \in 1 .. Len(u) /\ b \in 1 .. Len(u)
        BY <1>2
    <2>2. t[a] = u[a] /\ t[b] = u[b]
        BY <1>1, <2>1
    <2>3. \E c, d \in 1 .. Len(r) : c < d /\ u[a] = r[c] /\ u[b] = r[d]
        BY <1>5, <2>1
    <2>4. QED
        BY <2>2, <2>3
<1>6. \A x : x \in ToSet(t) <=> x \in ToSet(r) \/ x = k
    BY <1>3
<1>7. t[Len(t)] = k
    BY <1>1
<1>8. Moved(r, k, t)
    BY <1>1, <1>2, <1>4, <1>5, <1>6, <1>7 DEF Moved
<1>9. QED
    BY <1>8 DEF t

LEMMA TouchMoves ==
    ASSUME NEW r, Once(r), NEW k \in Key
    PROVE  Moved(r, k, Touch(r, k))
<1> DEFINE old == CHOOSE i \in DOMAIN r : r[i] = k
           u == RemoveAt(r, old)
<1>1. r \in Seq(Key) /\ Len(r) \in Nat /\ DOMAIN r = 1 .. Len(r)
    BY DEF Once
<1>2. CASE k \notin ToSet(r)
    <2>1. \A a \in 1 .. Len(r) : r[a] # k
        BY <1>1, <1>2 DEF ToSet
    <2>2. Moved(r, k, Append(r, k))
        BY <1>1, <2>1, AppendMoves
    <2>3. QED
        BY <1>2, <2>2 DEF Touch
<1>3. CASE k \in ToSet(r)
    <2>1. old \in 1 .. Len(r) /\ r[old] = k
        BY <1>1, <1>3 DEF ToSet
    <2> HIDE DEF old
    <2>2. /\ u \in Seq(Key) /\ Len(u) = Len(r) - 1
          /\ \A a \in 1 .. Len(r) - 1 : u[a] = IF a < old THEN r[a] ELSE r[a + 1]
        BY <1>1, <2>1, WithoutIs
    <2> HIDE DEF u
    <2> DEFINE from(a) == IF a < old THEN a ELSE a + 1
    <2>3. \A a \in 1 .. Len(u) : from(a) \in 1 .. Len(r) /\ from(a) # old /\ u[a] = r[from(a)]
        BY <1>1, <2>1, <2>2
    <2>4. \A a, b \in 1 .. Len(u) : a < b => from(a) < from(b)
        BY <1>1, <2>1, <2>2
    <2>5. ASSUME NEW a \in 1 .. Len(u) PROVE u[a] # k
        <3>1. from(a) \in 1 .. Len(r) /\ from(a) # old /\ u[a] = r[from(a)]
            BY <2>3
        <3> HIDE DEF from
        <3>2. from(a) < old \/ old < from(a)
            BY <1>1, <2>1, <3>1
        <3>3. QED
            BY <2>1, <3>1, <3>2 DEF Once
    <2>6. ASSUME NEW a \in 1 .. Len(u), NEW b \in 1 .. Len(u), a < b
          PROVE  \E c, d \in 1 .. Len(r) : c < d /\ u[a] = r[c] /\ u[b] = r[d]
        <3>1. /\ from(a) \in 1 .. Len(r) /\ u[a] = r[from(a)]
              /\ from(b) \in 1 .. Len(r) /\ u[b] = r[from(b)] /\ from(a) < from(b)
            BY <2>3, <2>4, <2>6
        <3> HIDE DEF from
        <3>2. QED
            BY <3>1
    <2>7. DOMAIN u = 1 .. Len(u)
        BY <2>2
    <2>8. ASSUME NEW x PROVE x \in ToSet(u) \/ x = k <=> x \in ToSet(r) \/ x = k
        <3>1. ASSUME NEW i \in 1 .. Len(u), u[i] = x PROVE x \in ToSet(r)
            <4>1. from(i) \in 1 .. Len(r) /\ u[i] = r[from(i)]
                BY <2>3
            <4> HIDE DEF from
            <4>2. QED
                BY <1>1, <3>1, <4>1 DEF ToSet
        <3>2. ASSUME NEW i \in 1 .. Len(r), r[i] = x PROVE x \in ToSet(u) \/ x = k
            <4>1. CASE i = old
                BY <2>1, <3>2, <4>1
            <4>2. CASE i < old
                <5>1. i \in 1 .. Len(u) /\ u[i] = r[i]
                    BY <1>1, <2>1, <2>2, <4>2
                <5>2. QED
                    BY <2>7, <3>2, <5>1 DEF ToSet
            <4>3. CASE i > old
                <5>1. i - 1 \in 1 .. Len(u) /\ u[i - 1] = r[i]
                    BY <1>1, <2>1, <2>2, <4>3
                <5>2. QED
                    BY <2>7, <3>2, <5>1 DEF ToSet
            <4>4. i = old \/ i < old \/ i > old
                BY <1>1, <2>1
            <4>5. QED
                BY <4>1, <4>2, <4>3, <4>4
        <3>3. QED
            BY <1>1, <2>7, <3>1, <3>2 DEF ToSet
    <2>9. Moved(r, k, Append(u, k))
        BY <1>1, <2>2, <2>5, <2>6, <2>8, AppendMoves
    <2>10. QED
        BY <1>3, <2>9 DEF Touch, old, u
<1>4. QED
    BY <1>2, <1>3


LEMMA OnceCounts ==
    ASSUME NEW r, Once(r)
    PROVE  IsFiniteSet(ToSet(r)) /\ Cardinality(ToSet(r)) = Len(r)
<1>1. r \in Seq(Key) /\ Len(r) \in Nat /\ DOMAIN r = 1 .. Len(r)
    BY DEF Once
<1>2. r \in [1 .. Len(r) -> ToSet(r)]
    BY <1>1 DEF ToSet
<1>3. \A a, b \in 1 .. Len(r) : r[a] = r[b] => a = b
    <2>1. SUFFICES ASSUME NEW a \in 1 .. Len(r), NEW b \in 1 .. Len(r), r[a] = r[b], a # b PROVE FALSE
        OBVIOUS
    <2>2. a < b \/ b < a
        BY <1>1, <2>1
    <2>3. QED
        BY <2>1, <2>2 DEF Once
<1>4. r \in Injection(1 .. Len(r), ToSet(r))
    BY <1>2, <1>3 DEF Injection, IsInjective
<1>5. r \in Surjection(1 .. Len(r), ToSet(r))
    BY <1>1, <1>2 DEF Surjection, ToSet
<1>6. ExistsBijection(1 .. Len(r), ToSet(r))
    BY <1>4, <1>5 DEF ExistsBijection, Bijection
<1>7. IsFiniteSet(ToSet(r))
    BY <1>1, <1>6, FS_NatBijection
<1>8. Cardinality(ToSet(r)) = Len(r)
    BY <1>1, <1>6, FS_CountingElements
<1>9. QED
    BY <1>7, <1>8

LEMMA LastBack ==
    ASSUME NEW f \in Seq(WideSpan), NEW s \in WideSpan, NEW k, KeyOf(s) # k, NEW i, IsLast(Append(f, s), k, i)
    PROVE  i \in 1 .. Len(f) /\ IsLast(f, k, i)
<1> DEFINE g == Append(f, s)
<1>1. /\ Len(g) = Len(f) + 1 /\ Len(f) \in Nat /\ DOMAIN f = 1 .. Len(f) /\ DOMAIN g = 1 .. Len(f) + 1
      /\ g[Len(f) + 1] = s /\ \A j \in 1 .. Len(f) : g[j] = f[j]
    BY OneMore
<1>2. i \in DOMAIN g /\ KeyOf(g[i]) = k /\ \A j \in i + 1 .. Len(g) : KeyOf(g[j]) # k
    BY DEF IsLast
<1> HIDE DEF g
<1>3. i \in 1 .. Len(f)
    <2>1. i # Len(f) + 1
        BY <1>1, <1>2
    <2>2. QED
        BY <1>1, <1>2, <2>1
<1>4. ASSUME NEW j \in i + 1 .. Len(f) PROVE KeyOf(f[j]) # k
    <2>1. j \in 1 .. Len(f) /\ j \in i + 1 .. Len(g)
        BY <1>1, <1>3
    <2>2. QED
        BY <1>1, <1>2, <2>1
<1>5. KeyOf(f[i]) = k
    BY <1>1, <1>2, <1>3
<1>6. QED
    BY <1>1, <1>3, <1>4, <1>5 DEF IsLast

(* The tracker's lines are in the order of their last spans.               *)
Recent(f, r) ==
    /\ Once(r)
    /\ \A a, b \in 1 .. Len(r) : a < b =>
          \A i, j \in DOMAIN f : IsLast(f, r[a], i) /\ IsLast(f, r[b], j) => i < j

LEMMA RecentStands ==
    ASSUME NEW f \in Seq(WideSpan), NEW s \in WideSpan, s.p = None, NEW r, Recent(f, r)
    PROVE  Recent(Append(f, s), r)
<1>1. KeyOf(s) \notin Key
    BY KeyTyped
<1>2. \A a \in 1 .. Len(r) : r[a] \in Key
    BY DEF Recent, Once
<1>3. ASSUME NEW a \in 1 .. Len(r), NEW b \in 1 .. Len(r), a < b, NEW i, NEW j,
             IsLast(Append(f, s), r[a], i), IsLast(Append(f, s), r[b], j)
      PROVE  i < j
    <2>1. KeyOf(s) # r[a] /\ KeyOf(s) # r[b]
        BY <1>1, <1>2
    <2>2. i \in 1 .. Len(f) /\ IsLast(f, r[a], i)
        BY <1>3, <2>1, LastBack
    <2>3. j \in 1 .. Len(f) /\ IsLast(f, r[b], j)
        BY <1>3, <2>1, LastBack
    <2>4. DOMAIN f = 1 .. Len(f)
        OBVIOUS
    <2>5. QED
        BY <1>3, <2>2, <2>3, <2>4 DEF Recent
<1>4. QED
    BY <1>3 DEF Recent

LEMMA RecentMoves ==
    ASSUME NEW f \in Seq(WideSpan), NEW s \in WideSpan, NEW r, Recent(f, r), NEW t, Moved(r, KeyOf(s), t)
    PROVE  Recent(Append(f, s), t)
<1> DEFINE k == KeyOf(s)
           n == Len(t)
<1>1. /\ t \in Seq(Key) /\ n \in Nat /\ n >= 1 /\ t[n] = k
      /\ \A a \in 1 .. n - 1 : t[a] # k
      /\ \A a, b \in 1 .. n - 1 : a < b => \E c, d \in 1 .. Len(r) : c < d /\ t[a] = r[c] /\ t[b] = r[d]
    BY DEF Moved
<1>2. Len(f) \in Nat /\ DOMAIN f = 1 .. Len(f)
    OBVIOUS
<1>3. IsLast(Append(f, s), k, Len(f) + 1)
    BY LastSet
<1> HIDE DEF k, n
<1>4. ASSUME NEW a \in 1 .. n, NEW b \in 1 .. n, a < b
      PROVE  t[a] # t[b]
    <2>1. a \in 1 .. n - 1
        BY <1>1, <1>4
    <2>2. CASE b = n
        BY <1>1, <2>1, <2>2
    <2>3. CASE b # n
        <3>1. b \in 1 .. n - 1
            BY <1>1, <2>3
        <3>2. PICK c \in 1 .. Len(r), d \in 1 .. Len(r) : c < d /\ t[a] = r[c] /\ t[b] = r[d]
            BY <1>1, <1>4, <2>1, <3>1
        <3>3. QED
            BY <3>2 DEF Recent, Once
    <2>4. QED
        BY <2>2, <2>3
<1>5. ASSUME NEW a \in 1 .. n, NEW b \in 1 .. n, a < b,
             NEW i \in DOMAIN Append(f, s), NEW j \in DOMAIN Append(f, s),
             IsLast(Append(f, s), t[a], i), IsLast(Append(f, s), t[b], j)
      PROVE  i < j
    <2>1. a \in 1 .. n - 1
        BY <1>1, <1>5
    <2>2. KeyOf(s) # t[a]
        BY <1>1, <2>1 DEF k
    <2>3. i \in 1 .. Len(f) /\ IsLast(f, t[a], i)
        BY <1>5, <2>2, LastBack
    <2>4. CASE b = n
        <3>1. KeyOf(Append(f, s)[j]) = k /\ \A x \in j + 1 .. Len(Append(f, s)) : KeyOf(Append(f, s)[x]) # k
            BY <1>1, <1>5, <2>4 DEF IsLast
        <3>2. Len(Append(f, s)) = Len(f) + 1 /\ DOMAIN Append(f, s) = 1 .. Len(f) + 1
            BY OneMore
        <3>3. KeyOf(Append(f, s)[Len(f) + 1]) = k
            BY <1>3 DEF IsLast
        <3>4. ~ (j < Len(f) + 1)
            <4>1. SUFFICES ASSUME j < Len(f) + 1 PROVE Len(f) + 1 \in j + 1 .. Len(Append(f, s))
                BY <3>1, <3>3
            <4>2. QED
                BY <1>2, <3>2, <4>1
        <3>5. QED
            BY <1>2, <2>3, <3>2, <3>4
    <2>5. CASE b # n
        <3>1. b \in 1 .. n - 1
            BY <1>1, <2>5
        <3>2. KeyOf(s) # t[b]
            BY <1>1, <3>1 DEF k
        <3>3. j \in 1 .. Len(f) /\ IsLast(f, t[b], j)
            BY <1>5, <3>2, LastBack
        <3>4. PICK c \in 1 .. Len(r), d \in 1 .. Len(r) : c < d /\ t[a] = r[c] /\ t[b] = r[d]
            BY <1>1, <1>5, <2>1, <3>1
        <3>5. QED
            BY <1>2, <2>3, <3>3, <3>4 DEF Recent
    <2>6. QED
        BY <2>4, <2>5
<1>6. Once(t)
    BY <1>1, <1>4 DEF Once, n
<1>7. QED
    BY <1>5, <1>6 DEF Recent, n


(* The lines committed after the span at i.                                *)
After(f, i) == {KeyOf(f[j]) : j \in {j \in i + 1 .. Len(f) : f[j].p # None}}

LEMMA AfterFinite ==
    ASSUME NEW f \in Seq(WideSpan), NEW i \in Nat
    PROVE  IsFiniteSet(After(f, i))
<1> DEFINE S == {j \in i + 1 .. Len(f) : f[j].p # None}
<1>1. IsFiniteSet(i + 1 .. Len(f))
    BY FS_Interval
<1>2. IsFiniteSet(S)
    <2>1. S \subseteq i + 1 .. Len(f)
        OBVIOUS
    <2>2. QED
        BY <1>1, <2>1, FS_Subset
<1> DEFINE m == [j \in S |-> KeyOf(f[j])]
           T == After(f, i)
<1>3. T = {m[j] : j \in S}
    BY DEF After
<1> HIDE DEF S, m, T
<1>4. m \in Surjection(S, T)
    <2>1. m \in [S -> T]
        BY <1>3 DEF m
    <2>2. QED
        BY <1>3, <2>1 DEF Surjection
<1>5. IsFiniteSet(T)
    BY <1>2, <1>4, FS_Surjection
<1>6. QED
    BY <1>5 DEF T

LEMMA AfterRises ==
    ASSUME NEW f \in Seq(WideSpan), NEW s \in WideSpan, NEW i \in DOMAIN f
    PROVE  After(f, i) \subseteq After(Append(f, s), i)
<1> DEFINE g == Append(f, s)
<1>1. /\ Len(g) = Len(f) + 1 /\ Len(f) \in Nat /\ DOMAIN f = 1 .. Len(f)
      /\ \A j \in 1 .. Len(f) : g[j] = f[j]
    BY OneMore
<1> HIDE DEF g
<1>2. SUFFICES ASSUME NEW j \in i + 1 .. Len(f), f[j].p # None
               PROVE  KeyOf(f[j]) \in After(g, i)
    BY DEF After, g
<1>3. j \in 1 .. Len(f) /\ j \in i + 1 .. Len(g)
    BY <1>1
<1>4. g[j] = f[j]
    BY <1>1, <1>3
<1>5. QED
    BY <1>2, <1>3, <1>4 DEF After

(* A line that is not on record has had Cap others committed since.        *)
Remembers(f, state) ==
    \A i \in DOMAIN f : f[i].p # None /\ state[KeyOf(f[i])] = None => Cardinality(After(f, i)) >= Cap

LEMMA RemembersMore ==
    ASSUME NEW f \in Seq(WideSpan), NEW s \in WideSpan, NEW state, NEW now, Remembers(f, state),
           \A k \in Key : now[k] = None => state[k] = None,
           s.p # None => now[KeyOf(s)] # None
    PROVE  Remembers(Append(f, s), now)
<1> DEFINE g == Append(f, s)
<1>1. /\ g \in Seq(WideSpan) /\ Len(g) = Len(f) + 1 /\ Len(f) \in Nat
      /\ DOMAIN f = 1 .. Len(f) /\ DOMAIN g = 1 .. Len(f) + 1
      /\ g[Len(f) + 1] = s /\ \A j \in 1 .. Len(f) : g[j] = f[j]
    BY OneMore
<1>2. \A i \in DOMAIN f : After(f, i) \subseteq After(g, i)
    BY AfterRises
<1> HIDE DEF g
<1>3. SUFFICES ASSUME NEW i \in DOMAIN g, g[i].p # None, now[KeyOf(g[i])] = None
               PROVE  Cardinality(After(g, i)) >= Cap
    BY DEF Remembers, g
<1>4. i \in 1 .. Len(f)
    <2>1. i # Len(f) + 1
        BY <1>1, <1>3
    <2>2. QED
        BY <1>1, <2>1
<1>5. g[i] = f[i] /\ f[i] \in WideSpan /\ i \in Nat
    BY <1>1, <1>4
<1>6. KeyOf(f[i]) \in Key
    BY <1>3, <1>5, KeyTyped
<1>7. Cardinality(After(f, i)) >= Cap
    BY <1>1, <1>3, <1>4, <1>5, <1>6 DEF Remembers
<1>8. IsFiniteSet(After(f, i)) /\ IsFiniteSet(After(g, i))
    BY <1>1, <1>5, AfterFinite
<1>9. Cardinality(After(f, i)) <= Cardinality(After(g, i))
    BY <1>1, <1>2, <1>4, <1>8, FS_Subset
<1>10. Cardinality(After(f, i)) \in Nat /\ Cardinality(After(g, i)) \in Nat /\ Cap \in Nat
    BY <1>8, FS_CardinalityType, SequencingAssumption
<1>11. QED
    BY <1>7, <1>9, <1>10

(* The tracker names the lines on record, oldest first.                    *)
OnRecord(state) == {k \in Key : state[k] # None}

Tracks(f, state, r) == Recent(f, r) /\ ToSet(r) = OnRecord(state) /\ Remembers(f, state)

LEMMA TracksMore ==
    ASSUME NEW f \in Seq(WideSpan), NEW s \in WideSpan, NEW state \in [Key -> LineState \cup {None}],
           NEW r, Tracks(f, state, r), NEW base \in Nat
    PROVE  Tracks(Append(f, s), IF s.p = None THEN state ELSE [state EXCEPT ![KeyOf(s)] = StateOf(s, base)],
                  IF s.p = None THEN r ELSE Touch(r, KeyOf(s)))
<1>1. Recent(f, r) /\ ToSet(r) = OnRecord(state) /\ Remembers(f, state)
    BY DEF Tracks
<1>2. CASE s.p = None
    <2>1. Recent(Append(f, s), r)
        BY <1>1, <1>2, RecentStands
    <2>2. Remembers(Append(f, s), state)
        BY <1>1, <1>2, RemembersMore
    <2>3. QED
        BY <1>1, <1>2, <2>1, <2>2 DEF Tracks
<1>3. CASE s.p # None
    <2> DEFINE now == [state EXCEPT ![KeyOf(s)] = StateOf(s, base)]
               t == Touch(r, KeyOf(s))
    <2>1. KeyOf(s) \in Key /\ StateOf(s, base) # None
        BY <1>3, KeyTyped, StateTyped
    <2>2. \A k \in Key : now[k] = IF k = KeyOf(s) THEN StateOf(s, base) ELSE state[k]
        OBVIOUS
    <2>3. Moved(r, KeyOf(s), t)
        BY <1>1, <2>1, TouchMoves DEF Recent
    <2> HIDE DEF now, t
    <2>4. Recent(Append(f, s), t)
        BY <1>1, <2>3, RecentMoves
    <2>5. Remembers(Append(f, s), now)
        BY <1>1, <2>1, <2>2, RemembersMore
    <2>6. \A x : x \in ToSet(t) <=> x \in OnRecord(state) \/ x = KeyOf(s)
        BY <1>1, <2>3 DEF Moved
    <2>7. \A x : x \in OnRecord(now) <=> x \in OnRecord(state) \/ x = KeyOf(s)
        BY <2>1, <2>2 DEF OnRecord
    <2>8. ToSet(t) = OnRecord(now)
        BY <2>6, <2>7
    <2>9. QED
        BY <1>3, <2>4, <2>5, <2>8 DEF Tracks, now, t
<1>4. QED
    BY <1>2, <1>3

LEMMA StageTracks ==
    ASSUME NEW f \in Seq(WideSpan), NEW spans \in Seq(WideSpan), NEW a,
           EndsOf(f, a.ends), StatesOf(f, a.state), Tracks(f, a.state, a.recency)
    PROVE  \A n \in 0 .. Len(spans) :
               Tracks(Upto(f, spans, n), StageTo(a, spans, n).state, StageTo(a, spans, n).recency)
<1> DEFINE P(n) == Tracks(Upto(f, spans, n), StageTo(a, spans, n).state, StageTo(a, spans, n).recency)
           S == {n \in Nat : n <= Len(spans) => P(n)}
<1>0. Len(f) \in Nat /\ Len(spans) \in Nat
    OBVIOUS
<1>1. 0 \in S
    <2>1. StageTo(a, spans, 0) = [bases |-> <<>>, ends |-> a.ends, state |-> a.state, recency |-> a.recency]
        BY <1>0, StageIs
    <2>2. Upto(f, spans, 0) = f
        BY UptoIs
    <2>3. P(0)
        BY <2>1, <2>2
    <2>4. QED
        BY <2>3
<1>2. ASSUME NEW n \in Nat, n \in S PROVE n + 1 \in S
    <2>1. SUFFICES ASSUME n + 1 <= Len(spans) PROVE P(n + 1)
        OBVIOUS
    <2> DEFINE acc == StageTo(a, spans, n)
               s == spans[n + 1]
               u == Upto(f, spans, n)
               base == acc.ends[s.part]
    <2>2. Tracks(u, acc.state, acc.recency)
        BY <1>0, <1>2, <2>1
    <2>3. StageTo(a, spans, n + 1) = PlaceSpan(acc, s)
        BY <1>0, <2>1, StageIs
    <2>4. s \in WideSpan /\ s.part \in Partition
        <3>1. n + 1 \in 1 .. Len(spans)
            BY <1>0, <2>1
        <3>2. s \in WideSpan
            BY <3>1
        <3> HIDE DEF s
        <3>3. QED
            BY <3>2 DEF WideSpan
    <2>5. n \in 0 .. Len(spans)
        BY <1>0, <2>1
    <2>6. u \in Seq(WideSpan)
        BY <2>5, UptoIs
    <2>7. Upto(f, spans, n + 1) = Append(u, s)
        BY <2>1, UptoNext
    <2>8. StagedAt(f, spans, acc, n)
        BY <2>5, StageMarks
    <2> HIDE DEF u, s, acc
    <2>9. base \in Nat /\ acc.state \in [Key -> LineState \cup {None}]
        BY <2>4, <2>8 DEF StagedAt, EndsOf, StatesOf
    <2>10. /\ PlaceSpan(acc, s).state
                = (IF s.p = None THEN acc.state ELSE [acc.state EXCEPT ![KeyOf(s)] = StateOf(s, base)])
           /\ PlaceSpan(acc, s).recency = (IF s.p = None THEN acc.recency ELSE Touch(acc.recency, KeyOf(s)))
        BY DEF PlaceSpan
    <2> HIDE DEF base
    <2>11. Tracks(Append(u, s), IF s.p = None THEN acc.state ELSE [acc.state EXCEPT ![KeyOf(s)] = StateOf(s, base)],
                  IF s.p = None THEN acc.recency ELSE Touch(acc.recency, KeyOf(s)))
        BY <2>2, <2>4, <2>6, <2>9, TracksMore
    <2>12. QED
        BY <2>3, <2>7, <2>10, <2>11
<1> HIDE DEF S, P
<1>3. \A n \in Nat : n \in S
    BY <1>1, <1>2, NatSetInduction
<1>4. QED
    BY <1>0, <1>3 DEF S, P


(* The back of a tracker.                                                  *)
LEMMA KeptIs ==
    ASSUME NEW r, Once(r), NEW over \in 0 .. Len(r)
    PROVE  /\ SubSeq(r, over + 1, Len(r)) \in Seq(Key)
           /\ Len(SubSeq(r, over + 1, Len(r))) = Len(r) - over
           /\ \A a \in 1 .. Len(r) - over : SubSeq(r, over + 1, Len(r))[a] = r[over + a]
           /\ \A x : x \in ToSet(SubSeq(r, over + 1, Len(r))) <=> \E b \in over + 1 .. Len(r) : x = r[b]
           /\ \A x : x \in ToSet(SubSeq(r, 1, over)) <=> \E b \in 1 .. over : x = r[b]
<1> DEFINE u == SubSeq(r, 1, over)
           v == SubSeq(r, over + 1, Len(r))
<1>0. r \in Seq(Key) /\ Len(r) \in Nat /\ over \in Nat
    BY DEF Once
<1>1. u \in Seq(Key) /\ Len(u) = over /\ \A a \in 1 .. over : u[a] = r[a]
    BY <1>0
<1>2. v \in Seq(Key) /\ Len(v) = Len(r) - over /\ \A a \in 1 .. Len(r) - over : v[a] = r[over + a]
    BY <1>0
<1> HIDE DEF u, v
<1>3. DOMAIN u = 1 .. over /\ DOMAIN v = 1 .. Len(r) - over
    BY <1>1, <1>2
<1>4. ASSUME NEW x PROVE x \in ToSet(u) <=> \E b \in 1 .. over : x = r[b]
    BY <1>1, <1>3 DEF ToSet
<1>5. ASSUME NEW x PROVE x \in ToSet(v) <=> \E b \in over + 1 .. Len(r) : x = r[b]
    <2>1. ASSUME NEW a \in 1 .. Len(r) - over, x = v[a] PROVE \E b \in over + 1 .. Len(r) : x = r[b]
        <3>1. over + a \in over + 1 .. Len(r)
            BY <1>0
        <3>2. QED
            BY <1>2, <2>1, <3>1
    <2>2. ASSUME NEW b \in over + 1 .. Len(r), x = r[b] PROVE \E a \in 1 .. Len(r) - over : x = v[a]
        <3>1. b - over \in 1 .. Len(r) - over /\ over + (b - over) = b
            BY <1>0
        <3>2. QED
            BY <1>2, <2>2, <3>1
    <2>3. QED
        BY <1>3, <2>1, <2>2 DEF ToSet
<1>6. QED
    BY <1>2, <1>4, <1>5 DEF u, v

LEMMA RecentKept ==
    ASSUME NEW f, NEW r, Recent(f, r), NEW over \in 0 .. Len(r)
    PROVE  Recent(f, SubSeq(r, over + 1, Len(r)))
<1> DEFINE v == SubSeq(r, over + 1, Len(r))
<1>1. Once(r)
    BY DEF Recent
<1>2. r \in Seq(Key) /\ Len(r) \in Nat /\ over \in Nat
    BY <1>1 DEF Once
<1>3. v \in Seq(Key) /\ Len(v) = Len(r) - over /\ \A a \in 1 .. Len(r) - over : v[a] = r[over + a]
    BY <1>1, KeptIs
<1> HIDE DEF v
<1>4. ASSUME NEW a \in 1 .. Len(v), NEW b \in 1 .. Len(v), a < b
      PROVE  /\ v[a] # v[b]
             /\ \A i, j \in DOMAIN f : IsLast(f, v[a], i) /\ IsLast(f, v[b], j) => i < j
    <2>1. /\ over + a \in 1 .. Len(r) /\ over + b \in 1 .. Len(r) /\ over + a < over + b
          /\ v[a] = r[over + a] /\ v[b] = r[over + b]
        BY <1>2, <1>3, <1>4
    <2>2. QED
        BY <2>1 DEF Recent, Once
<1>5. Recent(f, v)
    BY <1>3, <1>4 DEF Recent, Once
<1>6. QED
    BY <1>5 DEF v

(* A line evicted has Cap others behind it.                                *)
LEMMA EvictedBehind ==
    ASSUME NEW f \in Seq(WideSpan), NEW state, StatesOf(f, state), NEW r, Tracks(f, state, r),
           NEW over \in 0 .. Len(r), NEW a \in 1 .. over, NEW i \in DOMAIN f, KeyOf(f[i]) = r[a]
    PROVE  ToSet(SubSeq(r, over + 1, Len(r))) \subseteq After(f, i)
<1>1. Once(r) /\ Recent(f, r) /\ ToSet(r) = OnRecord(state)
    BY DEF Tracks, Recent
<1>2. r \in Seq(Key) /\ Len(r) \in Nat /\ over \in Nat /\ DOMAIN r = 1 .. Len(r)
    BY <1>1 DEF Once
<1>3. Len(f) \in Nat /\ DOMAIN f = 1 .. Len(f)
    OBVIOUS
<1>4. ASSUME NEW b \in 1 .. Len(r) PROVE \E j \in DOMAIN f : IsLast(f, r[b], j)
    <2>1. r[b] \in OnRecord(state)
        BY <1>1, <1>2 DEF ToSet
    <2>2. r[b] \in Key /\ state[r[b]] # None
        BY <2>1 DEF OnRecord
    <2>3. QED
        BY <2>2 DEF StatesOf, StateAt
<1>5. SUFFICES ASSUME NEW b \in over + 1 .. Len(r) PROVE r[b] \in After(f, i)
    BY <1>1, KeptIs
<1>6. a \in 1 .. Len(r) /\ b \in 1 .. Len(r) /\ a < b
    BY <1>2
<1>7. PICK x \in DOMAIN f : IsLast(f, r[a], x)
    BY <1>4, <1>6
<1>8. PICK j \in DOMAIN f : IsLast(f, r[b], j)
    BY <1>4, <1>6
<1>9. x < j
    BY <1>1, <1>6, <1>7, <1>8 DEF Recent
<1>10. ~ (x < i)
    <2>1. SUFFICES ASSUME x < i PROVE i \in x + 1 .. Len(f)
        BY <1>7 DEF IsLast
    <2>2. QED
        BY <1>3, <2>1
<1>11. j \in i + 1 .. Len(f)
    BY <1>3, <1>9, <1>10
<1>12. KeyOf(f[j]) = r[b] /\ f[j] \in WideSpan
    BY <1>8 DEF IsLast
<1>13. r[b] \in Key
    BY <1>2, <1>6
<1>14. f[j].p # None
    BY <1>12, <1>13, KeyTyped
<1>15. QED
    BY <1>11, <1>12, <1>14 DEF After

LEMMA EvictTracks ==
    ASSUME NEW f \in Seq(WideSpan), NEW next, NEW ends, NEW state, StatesOf(f, state),
           NEW r, Tracks(f, state, r)
    PROVE  LET b == EvictOverCap(AllocatorOf(next, ends, state, r))
           IN  Tracks(f, b.state, b.recency) /\ Len(b.recency) <= Cap
<1> DEFINE a == AllocatorOf(next, ends, state, r)
           over == Len(r) - Cap
           gone == ToSet(SubSeq(r, 1, over))
           kept == SubSeq(r, over + 1, Len(r))
           left == [k \in Key |-> IF k \in gone THEN None ELSE state[k]]
           b == [next |-> next, ends |-> ends, state |-> left, recency |-> kept]
<1>0. a.recency = r /\ a.state = state /\ a.ends = ends /\ a.next = next
    BY DEF AllocatorOf
<1> HIDE DEF a
<1>1. EvictOverCap(a) = IF over <= 0 THEN a ELSE b
    BY <1>0 DEF EvictOverCap
<1>2. Once(r) /\ Recent(f, r) /\ ToSet(r) = OnRecord(state) /\ Remembers(f, state)
    BY DEF Tracks, Recent
<1>3. r \in Seq(Key) /\ Len(r) \in Nat /\ Cap \in Nat \ {0} /\ DOMAIN r = 1 .. Len(r)
    BY <1>2, SequencingAssumption DEF Once
<1>4. CASE over <= 0
    <2>1. EvictOverCap(a) = a
        BY <1>1, <1>4
    <2>2. Len(r) <= Cap
        BY <1>3, <1>4
    <2>3. QED
        BY <1>0, <2>1, <2>2 DEF a
<1>5. CASE ~ (over <= 0)
    <2>1. over \in 0 .. Len(r) /\ over \in Nat /\ Len(r) - over = Cap
        BY <1>3, <1>5
    <2>2. Recent(f, kept)
        BY <1>2, <2>1, RecentKept
    <2>3. Len(kept) = Cap
        BY <1>2, <2>1, KeptIs
    <2>4. \A x : x \in ToSet(kept) <=> \E c \in over + 1 .. Len(r) : x = r[c]
        BY <1>2, <2>1, KeptIs
    <2>5. \A x : x \in gone <=> \E c \in 1 .. over : x = r[c]
        BY <1>2, <2>1, KeptIs
    <2>6. \A x : x \in OnRecord(state) <=> \E c \in 1 .. Len(r) : x = r[c]
        BY <1>2, <1>3 DEF ToSet
    <2>7. \A k \in Key : left[k] = IF k \in gone THEN None ELSE state[k]
        OBVIOUS
    <2>8. \A c \in 1 .. over : \A x \in DOMAIN f : KeyOf(f[x]) = r[c] => ToSet(kept) \subseteq After(f, x)
        BY <2>1, EvictedBehind
    <2>9. IsFiniteSet(ToSet(kept)) /\ Cardinality(ToSet(kept)) = Cap
        BY <2>2, <2>3, OnceCounts DEF Recent
    <2> HIDE DEF gone, kept, left, over
    <2>10. ASSUME NEW x PROVE x \in ToSet(kept) <=> x \in OnRecord(left)
        <3>1. ASSUME x \in ToSet(kept) PROVE x \in OnRecord(left)
            <4>1. PICK c \in over + 1 .. Len(r) : x = r[c]
                BY <2>4, <3>1
            <4>2. c \in 1 .. Len(r)
                BY <1>3, <2>1
            <4>3. x \in OnRecord(state)
                BY <2>6, <4>1, <4>2
            <4>4. x \notin gone
                <5>1. SUFFICES ASSUME NEW d \in 1 .. over, x = r[d] PROVE FALSE
                    BY <2>5
                <5>2. d \in 1 .. Len(r) /\ d < c
                    BY <1>3, <2>1
                <5>3. QED
                    BY <1>2, <4>1, <4>2, <5>1, <5>2 DEF Once
            <4>5. QED
                BY <2>7, <4>3, <4>4 DEF OnRecord
        <3>2. ASSUME x \in OnRecord(left) PROVE x \in ToSet(kept)
            <4>1. x \in OnRecord(state) /\ x \notin gone
                BY <2>7, <3>2 DEF OnRecord
            <4>2. PICK c \in 1 .. Len(r) : x = r[c]
                BY <2>6, <4>1
            <4>3. c \notin 1 .. over
                BY <2>5, <4>1, <4>2
            <4>4. c \in over + 1 .. Len(r)
                BY <1>3, <2>1, <4>3
            <4>5. QED
                BY <2>4, <4>2, <4>4
        <3>3. QED
            BY <3>1, <3>2
    <2>11. ToSet(kept) = OnRecord(left)
        BY <2>10
    <2>12. ASSUME NEW i \in DOMAIN f, f[i].p # None, left[KeyOf(f[i])] = None
           PROVE  Cardinality(After(f, i)) >= Cap
        <3>1. KeyOf(f[i]) \in Key /\ i \in Nat
            <4>1. f[i] \in WideSpan
                OBVIOUS
            <4>2. QED
                BY <2>12, <4>1, KeyTyped
        <3>2. CASE KeyOf(f[i]) \in gone
            <4>1. PICK c \in 1 .. over : KeyOf(f[i]) = r[c]
                BY <2>5, <3>2
            <4>2. ToSet(kept) \subseteq After(f, i)
                BY <2>8, <4>1
            <4>3. IsFiniteSet(After(f, i))
                BY <3>1, AfterFinite
            <4>4. Cardinality(ToSet(kept)) <= Cardinality(After(f, i)) /\ Cardinality(After(f, i)) \in Nat
                BY <4>2, <4>3, FS_Subset, FS_CardinalityType
            <4>5. QED
                BY <1>3, <2>9, <4>4
        <3>3. CASE KeyOf(f[i]) \notin gone
            <4>1. state[KeyOf(f[i])] = None
                BY <2>7, <2>12, <3>1, <3>3
            <4>2. QED
                BY <1>2, <2>12, <4>1 DEF Remembers
        <3>4. QED
            BY <3>2, <3>3
    <2>13. Remembers(f, left)
        BY <2>12 DEF Remembers
    <2>14. b.state = left /\ b.recency = kept
        OBVIOUS
    <2> HIDE DEF b
    <2>15. EvictOverCap(a) = b
        BY <1>1, <1>5
    <2>16. Cap <= Cap
        BY <1>3
    <2>17. QED
        BY <2>2, <2>3, <2>11, <2>13, <2>14, <2>15, <2>16 DEF Tracks, a
<1>6. QED
    BY <1>4, <1>5


LEMMA FoldTracks ==
    ASSUME NEW d \in Seq(Entry), NEW n \in 0 .. Len(d)
    PROVE  Tracks(FlatTo(d, n), FoldTo(d, n).state, FoldTo(d, n).recency) /\ Len(FoldTo(d, n).recency) <= Cap
<1> DEFINE P(i) == /\ Tracks(FlatTo(d, i), FoldTo(d, i).state, FoldTo(d, i).recency)
                   /\ Len(FoldTo(d, i).recency) <= Cap
           S == {i \in Nat : i <= Len(d) => P(i)}
<1>0. Len(d) \in Nat
    OBVIOUS
<1>1. 0 \in S
    <2>1. FoldTo(d, 0) = NewAllocator /\ FlatTo(d, 0) = << >>
        BY <1>0, FoldIs, FlatIs
    <2>2. NewAllocator.recency = << >> /\ NewAllocator.state = [k \in Key |-> None]
        BY DEF NewAllocator
    <2>3. Recent(<< >>, << >>) /\ ToSet(<< >>) = {} /\ Remembers(<< >>, [k \in Key |-> None])
        BY DEF Recent, Once, ToSet, Remembers
    <2>4. OnRecord([k \in Key |-> None]) = {}
        BY DEF OnRecord
    <2>5. Len(<< >>) <= Cap
        BY SequencingAssumption
    <2>6. P(0)
        BY <2>1, <2>2, <2>3, <2>4, <2>5 DEF Tracks
    <2>7. QED
        BY <2>6
<1>2. ASSUME NEW i \in Nat, i \in S PROVE i + 1 \in S
    <2>1. SUFFICES ASSUME i + 1 <= Len(d) PROVE P(i + 1)
        OBVIOUS
    <2> DEFINE a == FoldTo(d, i)
               f == FlatTo(d, i)
               spans == d[i + 1].spans
               staged == Stage(a, spans)
    <2>2. P(i)
        BY <1>0, <1>2, <2>1
    <2>3. i \in 0 .. Len(d) /\ i + 1 \in 1 .. Len(d)
        BY <1>0, <2>1
    <2>4. f \in Seq(WideSpan) /\ MarkedBy(f, i, a)
        BY <2>3, FlatTyped, FoldMarks
    <2>5. spans \in Seq(WideSpan)
        <3>1. d[i + 1] \in Entry
            BY <2>3
        <3>2. QED
            BY <3>1 DEF Entry
    <2>6. FlatTo(d, i + 1) = f \o spans /\ FoldTo(d, i + 1) = Apply(a, d[i + 1])
        BY <1>0, <2>1, FlatIs, FoldIs
    <2>7. Apply(a, d[i + 1]) = EvictOverCap(AllocatorOf(i + 1, staged.ends, staged.state, staged.recency))
        <3>1. a.next = i
            BY <2>4 DEF MarkedBy
        <3>2. QED
            BY <3>1 DEF Apply, AllocatorOf
    <2>8. Tracks(f, a.state, a.recency)
        BY <2>2
    <2> HIDE DEF a, f, spans
    <2>9. Len(spans) \in 0 .. Len(spans)
        BY <2>5
    <2>10. EndsOf(f, a.ends) /\ StatesOf(f, a.state)
        BY <2>4 DEF MarkedBy
    <2>11. StagedAt(f, spans, staged, Len(spans))
        BY <2>4, <2>5, <2>9, <2>10, StageMarks DEF Stage
    <2>12. Tracks(Upto(f, spans, Len(spans)), staged.state, staged.recency)
        BY <2>4, <2>5, <2>8, <2>9, <2>10, StageTracks DEF Stage
    <2>13. Upto(f, spans, Len(spans)) = f \o spans /\ f \o spans \in Seq(WideSpan)
        BY <2>4, <2>5, UptoIs, Joined
    <2>14. StatesOf(f \o spans, staged.state) /\ Tracks(f \o spans, staged.state, staged.recency)
        BY <2>11, <2>12, <2>13 DEF StagedAt
    <2> HIDE DEF staged
    <2> DEFINE b == EvictOverCap(AllocatorOf(i + 1, staged.ends, staged.state, staged.recency))
    <2>15. Tracks(f \o spans, b.state, b.recency) /\ Len(b.recency) <= Cap
        BY <2>13, <2>14, EvictTracks
    <2>16. QED
        BY <2>6, <2>7, <2>15
<1> HIDE DEF S, P
<1>3. \A i \in Nat : i \in S
    BY <1>1, <1>2, NatSetInduction
<1>4. n \in Nat /\ n <= Len(d)
    BY <1>0
<1>5. P(n)
    BY <1>3, <1>4 DEF S
<1>6. QED
    BY <1>5 DEF P

LEMMA FoldHolds == SeqInv => FoldsTrue
<1>1. SUFFICES ASSUME SeqInv PROVE FoldsTrue
    OBVIOUS
<1> DEFINE f == FlatTo(log, alloc.next)
<1>2. log \in Seq(Entry) /\ alloc.next \in 0 .. Len(log) /\ alloc = FoldTo(log, alloc.next)
    BY <1>1 DEF SeqInv, SeqTypes, AllocAt
<1>3. f \in Seq(WideSpan)
    BY <1>2, FlatTyped
<1>4. MarkedBy(f, alloc.next, FoldTo(log, alloc.next))
    BY <1>2, FoldMarks
<1>5. EndsOf(f, alloc.ends) /\ StatesOf(f, alloc.state)
    BY <1>2, <1>4 DEF MarkedBy
<1>6. /\ Tracks(f, FoldTo(log, alloc.next).state, FoldTo(log, alloc.next).recency)
      /\ Len(FoldTo(log, alloc.next).recency) <= Cap
    BY <1>2, FoldTracks
<1>7. Tracks(f, alloc.state, alloc.recency) /\ Len(alloc.recency) <= Cap
    BY <1>2, <1>6
<1>8. Once(alloc.recency) /\ ToSet(alloc.recency) = OnRecord(alloc.state) /\ Remembers(f, alloc.state)
    BY <1>7 DEF Tracks, Recent
<1>9. Tracked = OnRecord(alloc.state)
    BY DEF Tracked, OnRecord
<1>10. Len(alloc.recency) = Cardinality(Tracked)
    BY <1>8, <1>9, OnceCounts
<1>11. TypeOK
    <2>1. Len(log) <= MaxLog + MaxLate
        <3>1. Len(log) \in Nat /\ Len(log) <= MaxLog /\ MaxLog \in Nat /\ MaxLate \in Nat
            BY <1>1, SequencingAssumption DEF SeqInv, SeqTypes
        <3>2. QED
            BY <3>1
    <2>2. \A i \in DOMAIN log : log[i].kind \in {"commit", "trim", "retention"}
        <3>1. \A i \in DOMAIN log : log[i] \in Entry
            BY <1>2
        <3>2. QED
            BY <3>1 DEF Entry
    <2>3. Cardinality(Tracked) <= Cap
        BY <1>7, <1>10
    <2>4. QED
        BY <1>1, <1>2, <1>8, <1>9, <1>10, <2>1, <2>2, <2>3 DEF TypeOK, SeqInv, SeqTypes
<1>12. AllocatorMatchesLog
    <2> DEFINE last(k) == {i \in DOMAIN f : KeyOf(f[i]) = k /\ \A j \in i + 1 .. Len(f) : KeyOf(f[j]) # k}
    <2>1. \A q \in Partition : alloc.ends[q] = Records(f, Len(f), q)
        BY <1>5 DEF EndsOf
    <2>2. ASSUME NEW k \in Tracked
          PROVE  \E i \in last(k) : alloc.state[k] = StateOf(f[i], Records(f, i - 1, k[2]))
        <3>1. StateAt(f, k, alloc.state[k])
            BY <1>5, <2>2 DEF StatesOf, Tracked
        <3> HIDE DEF f
        <3>2. QED
            BY <3>1 DEF StateAt, IsLast
    <2>3. QED
        BY <2>1, <2>2 DEF AllocatorMatchesLog
<1>13. ForgetsOldest
    <2>1. ASSUME NEW i \in DOMAIN f, f[i].p # None, KeyOf(f[i]) \notin Tracked
          PROVE  Cardinality({KeyOf(f[j]) : j \in {j \in i + 1 .. Len(f) : f[j].p # None}}) >= Cap
        <3> HIDE DEF f
        <3>1. f[i] \in WideSpan
            BY <1>3, <2>1
        <3>2. KeyOf(f[i]) \in Key
            BY <2>1, <3>1, KeyTyped
        <3>3. alloc.state[KeyOf(f[i])] = None
            BY <2>1, <3>2 DEF Tracked
        <3>4. Cardinality(After(f, i)) >= Cap
            BY <1>8, <2>1, <3>3 DEF Remembers
        <3>5. QED
            BY <3>4 DEF After
    <2>2. QED
        BY <2>1 DEF ForgetsOldest
<1>14. TrimsWithinEnd
    <2>1. SUFFICES ASSUME NEW i \in DOMAIN log, log[i].kind = "trim"
                   PROVE  log[i].start <= Records(FlatTo(log, i - 1), Len(FlatTo(log, i - 1)), log[i].part)
        BY DEF TrimsWithinEnd
    <2>2. i \in 1 .. Len(log)
        BY <1>2
    <2>3. QED
        BY <1>1, <2>1, <2>2 DEF SeqInv, LogAt, Fits
<1>15. QED
    BY <1>11, <1>12, <1>13, <1>14 DEF FoldsTrue

(* The allocator is what its part of the log says: each partition's end is *)
(* its records counted, each line on record is its last span where that    *)
(* lies, the tracker names those lines once each and never more than the   *)
(* cap, a line it forgot has had Cap others committed since, and no trim   *)
(* in the log is past its partition's end as of that entry, so that every  *)
(* fold of the log accepts it (allocator.rs, replay; expiry.rs).           *)
THEOREM FoldsAreTrue == Spec => []FoldsTrue
BY SeqHolds, FoldHolds, PTL
=============================================================================
