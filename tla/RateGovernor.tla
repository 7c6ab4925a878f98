---------------------------- MODULE RateGovernor ----------------------------
(* RateGovernor: a token bucket for writes and one for reads, refilled     *)
(* against a ceiling that is fixed or doubles as the prefix warms up.  A   *)
(* bucket counts whole tokens and carries the remainder in SCALE-ths of a  *)
(* token, for as long as the ceiling is the one it was earned at.          *)
EXTENDS Integers, Sequences, FiniteSets

CONSTANTS
    SCALE,      \* milliseconds in a second
    MAX_RATE,   \* u32::MAX
    Policy,     \* FixedCeiling or Ramping: the ceilings of writes and of reads, the doubling period
    MaxInstant,    \* bound on the clock
    MaxPolls    \* bound: requests for admission

OpClass == {"write", "read"}

(* The ceilings are NonZeroU32.                                            *)
ASSUME GovAssumption ==
    /\ {SCALE, MAX_RATE} \subseteq Nat \ {0}
    /\ \A k \in OpClass : Policy[k] \in Nat \ {0}
    /\ Policy.period \in Nat
    /\ {MaxInstant, MaxPolls} \subseteq Nat

VARIABLES
    instant,      \* Clock::now, which never goes back
    bucket,     \* one Bucket per class
    answers     \* each class's answers: when, at which ceiling, admitted or the delay

govVars == <<instant, bucket, answers>>

Least(a, b) == IF a < b THEN a ELSE b

(* RateLimitPolicy::ceiling.                                               *)
Ceiling(class, elapsed) ==
    IF Policy.kind = "fixed" THEN Policy[class]
    ELSE IF Policy.period = 0 THEN MAX_RATE
    ELSE Least(Policy[class] * 2 ^ Least(elapsed \div Policy.period, 32), MAX_RATE)

GovInit ==
    /\ instant = 0
    /\ bucket = [k \in OpClass |-> [tokens |-> Ceiling(k, 0), last_refill |-> 0,
                                    carry |-> 0, carry_ceiling |-> Ceiling(k, 0)]]
    /\ answers = [k \in OpClass |-> <<>>]

Ticks ==
    /\ instant < MaxInstant
    /\ instant' = instant + 1
    /\ UNCHANGED <<bucket, answers>>

(* Mutant of Refill: time is charged for the whole tokens alone, converted *)
(* back with a second division.                                            *)
RefillBack(b, now, ceiling) ==
    LET earned == ((now - b.last_refill) * ceiling) \div SCALE
    IN  [tokens |-> Least(b.tokens + earned, ceiling),
         last_refill |-> b.last_refill + (earned * SCALE) \div ceiling,
         carry |-> 0, carry_ceiling |-> ceiling]

(* Bucket::admit, up to the decision.                                      *)
Refill(b, now, ceiling) ==
    LET carried == IF b.carry_ceiling = ceiling THEN b.carry ELSE 0
        millitokens == carried + (now - b.last_refill) * ceiling
    IN  [tokens |-> Least(b.tokens + millitokens \div SCALE, ceiling), last_refill |-> now,
         carry |-> millitokens % SCALE, carry_ceiling |-> ceiling]

(* The delay told: the time one token takes, rounded up.                   *)
WaitFor(ceiling) == (SCALE + ceiling - 1) \div ceiling

AdmitOne(k) ==
    LET ceiling == Ceiling(k, instant)
        full == Refill(bucket[k], instant, ceiling)
        yes == full.tokens >= 1
    IN  /\ Len(answers.write) + Len(answers.read) < MaxPolls
        /\ bucket' = [bucket EXCEPT ![k] = IF yes THEN [full EXCEPT !.tokens = @ - 1] ELSE full]
        /\ answers' = [answers EXCEPT ![k] = Append(@,
               [at |-> instant, ceiling |-> ceiling, delay |-> IF yes THEN 0 ELSE WaitFor(ceiling)])]
        /\ UNCHANGED instant

GovNext == Ticks \/ \E k \in OpClass : AdmitOne(k)

GovSpec == GovInit /\ [][GovNext]_govVars

-----------------------------------------------------------------------------
(* Between any two answers no more was admitted than a full bucket and     *)
(* what the time between them earns at the ceiling reached, rounded up:    *)
(* however the requests fall, the rate does not creep above the ceiling.   *)
RateHeld ==
    \A k \in OpClass : \A j \in DOMAIN answers[k] : \A i \in 1 .. j :
        LET top == answers[k][j].ceiling
            earned == ((answers[k][j].at - answers[k][i].at) * top + SCALE - 1) \div SCALE
            count == Cardinality({n \in i .. j : answers[k][n].delay = 0})
        IN  count <= top + earned

(* A caller that waits the delay it was told is admitted, though others or *)
(* itself asked in the meantime and were refused, unless the ceiling moved *)
(* or another took the token.                                              *)
DelaysHonoured ==
    \A k \in OpClass : \A j \in DOMAIN answers[k] : \A i \in 1 .. j - 1 :
        (/\ answers[k][i].delay > 0
         /\ answers[k][j].at >= answers[k][i].at + answers[k][i].delay
         /\ answers[k][j].ceiling = answers[k][i].ceiling
         /\ \A n \in i .. j - 1 : answers[k][n].delay > 0)
            => answers[k][j].delay = 0

(* The two together: neither too much nor too little is admitted.          *)
RateExact == RateHeld /\ DelaysHonoured
=============================================================================
