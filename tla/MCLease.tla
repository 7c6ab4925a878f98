------------------------------- MODULE MCLease -------------------------------
(* The lease, and beside it the components with clocks or counters of      *)
(* their own: writer epochs and nonces, the key caches, the rate governor, *)
(* and connections with their quotas. They share no state; each behaviour  *)
(* is of one of them.                                                      *)
EXTENDS Lease, WriterNonces, KeyCaches, RateGovernor, Connection, TLC

CONSTANT Parts   \* the components to check

VARIABLE part

Symmetric == Permutations(Node)

(* The write ceiling does not divide SCALE, and doubles once.              *)
MCPolicy == [kind |-> "ramping", write |-> 3, read |-> 2, period |-> 6]

(* One client authenticates twice with a produce in between; another       *)
(* authenticates as the first did and changes that principal's quota.      *)
Asks(k) == [kind |-> k, user |-> "u1", good |-> TRUE, limit |-> -1, name |-> "t"]
MCFrames == [c1 |-> <<Asks("sasl"), Asks("acks0"), [Asks("sasl") EXCEPT !.user = "u2"]>>,
             c2 |-> <<Asks("sasl"), [Asks("alter") EXCEPT !.limit = 2], Asks("api_versions")>>]
MCGrants == {<<"u1", "t">>}

mcVars == <<part, vars, nonceVars, keyVars, govVars, connVars>>

(* What a component may start from is tried in its own behaviours only.    *)
MCInit ==
    /\ part \in Parts
    /\ Init /\ NonceInit /\ KeyInit /\ GovInit /\ ConnInit
    /\ part # "keys" => configured = "k1"

(* A connection ends early or a handler panics, not both.                  *)
MCNext ==
    /\ UNCHANGED part
    /\ \/ part = "lease" /\ Next /\ UNCHANGED <<nonceVars, keyVars, govVars, connVars>>
       \/ part = "nonces" /\ NonceNext /\ UNCHANGED <<vars, keyVars, govVars, connVars>>
       \/ part = "keys" /\ KeyNext /\ UNCHANGED <<vars, nonceVars, govVars, connVars>>
       \/ part = "governor" /\ GovNext /\ UNCHANGED <<vars, nonceVars, keyVars, connVars>>
       \/ /\ part = "connections" /\ ConnNext /\ ends'.early + ends'.panics <= 1
          /\ UNCHANGED <<vars, nonceVars, keyVars, govVars>>

MCSpec == MCInit /\ [][MCNext]_mcVars
=============================================================================
