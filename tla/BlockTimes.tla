------------------------------ MODULE BlockTimes ------------------------------
(* When the blocks of the masterchain were produced, and what a liteserver
   answers when it is asked for a block by time.                             *)
EXTENDS MasterChain

CONSTANT Utime   \* gen_utime of each block

ASSUME UtimeAssumption ==
    /\ Utime \in [0 .. MaxSeqno -> Nat]
    /\ \A a, b \in 0 .. MaxSeqno : a < b => Utime[a] < Utime[b]

\* lookupBlock by time answers only for times the chain has reached, with a
\* block next to that time, before it or after it.
AtOrAfter(t) == {b \in 0 .. tip : Utime[b] >= t /\ (b > 0 => Utime[b - 1] < t)}
AtOrBefore(t) == {b \in 0 .. tip : Utime[b] <= t /\ (b < tip => Utime[b + 1] > t)}
BlocksAt(t) == IF AtOrAfter(t) = {} THEN {} ELSE AtOrAfter(t) \cup AtOrBefore(t)
=============================================================================
