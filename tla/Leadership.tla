----------------------------- MODULE Leadership -----------------------------
(***************************************************************************)
(* What ObjectStoreLease (oqueue-core/src/lease.rs) promises the parts of  *)
(* the coordinator that ask it for leave to write: a sequence of terms, at *)
(* most one of them led at any moment, each led at most once and by one    *)
(* node, and none created while an earlier one is still being led.         *)
(* Lease.tla, with its clocks, objects and requests, implements this.      *)
(***************************************************************************)
EXTENDS Naturals

CONSTANTS Node,     \* the processes that may hold the lease
          None      \* no node

VARIABLES terms,    \* how many terms exist: the newest is terms - 1
          pending,  \* who has created the newest term and not begun to lead it
          leader    \* whose is_held answers TRUE now

vars == <<terms, pending, leader>>

Init == terms = 0 /\ pending = None /\ leader = None

(* A challenger's object lands. p is None when no answer can reach whoever *)
(* sent it: that term is never led.                                        *)
Create(p) ==
    /\ leader = None
    /\ terms' = terms + 1
    /\ pending' = p
    /\ UNCHANGED leader

(* The challenger learns that its object landed, and the lease is its own. *)
Lead(n) ==
    /\ pending = n /\ leader = None
    /\ leader' = n
    /\ pending' = None
    /\ UNCHANGED terms

(* The challenger learns it too late, or never.                            *)
Forfeit ==
    /\ pending # None
    /\ pending' = None
    /\ UNCHANGED <<terms, leader>>

(* The deadline passes, the process stops, or a successor is found.        *)
Lapse ==
    /\ leader # None
    /\ leader' = None
    /\ UNCHANGED <<terms, pending>>

Next == \/ \E p \in Node \cup {None} : Create(p)
        \/ \E n \in Node : Lead(n)
        \/ Forfeit
        \/ Lapse

Spec == Init /\ [][Next]_vars
=============================================================================
