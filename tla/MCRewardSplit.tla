----------------------------- MODULE MCRewardSplit -----------------------------
(* Two validators; pools of none, one or two nominators.  A pool has sent all it
   has to the elector, which locked it or returned a part as credit.         *)
EXTENDS RoundCheck

Sent(own, amounts) == own + SumFunction(amounts)

Pool(kind, true, credit, share, amounts) ==
    [kind |-> kind, trueStake |-> true, credit |-> credit, rewardShare |-> share,
     depositors |-> IF kind = "nominator" THEN Nominators ELSE {}, amounts |-> amounts]

Nobody == [n \in Nominators |-> 0]

NominatorPools ==
    UNION {{Pool("nominator", true, Sent(1, amounts) - true, share, amounts) :
              true \in 1 .. Sent(1, amounts)} :
           share \in {3333, 12000}, amounts \in [Nominators -> 0 .. 2]}

\* The pool of a validator that has no nominators yet.
EmptyPool == [Pool("nominator", 3, 1, 3333, Nobody) EXCEPT !.depositors = {}]

MCPools == {Pool("none", 0, 0, 0, Nobody), Pool("other", 2, 1, 0, Nobody), EmptyPool}
             \cup NominatorPools
MCRewardPools == {1, 10}
=============================================================================
