---------------------------- MODULE MCTimedChain ------------------------------
(* Three rounds of about seven blocks on a chain that halts for one second
   before blocks 8 and 14.  Elections are on time, late by one or two seconds, or late
   by more than a search; rotation takes the first or the second block.      *)
EXTENDS TimedChain

MCUtime == [b \in 0 .. MaxSeqno |-> IF b < 8 THEN b + 1 ELSE IF b < 14 THEN b + 2 ELSE b + 3]

MCIDs == {1, 8, 9, 12, 15, 16, 17, 19}
MCUntil == [id \in MCIDs |-> id + 7]
MCTimes == {4, 8, 10, 15, 9 + Uint32Range}

\* The chain on which the round after election 1 is s1, starting d1 blocks
\* after the first block that could start it, and the next one is s2.
History(s1, d1, s2, d2) ==
    LET First(s) == CHOOSE b \in 0 .. MaxSeqno :
                       MCUtime[b] >= s /\ \A k \in 0 .. b - 1 : MCUtime[k] < s
    IN [b \in 0 .. MaxSeqno |->
           IF b < First(s1) + d1 THEN 1 ELSE IF b < First(s2) + d2 THEN s1 ELSE s2]

MCChains == {History(8, 0, 15, 0), History(8, 1, 15, 1), History(8, 0, 16, 0),
             History(8, 1, 17, 0), History(9, 0, 16, 1), History(9, 1, 17, 0),
             History(9, 0, 17, 1), History(12, 0, 19, 0), History(8, 0, 19, 0)}
MCFewChains == {History(8, 1, 15, 1), History(9, 0, 17, 1), History(12, 0, 19, 0)}

MCSkews == {-1, 0, 2}
=============================================================================
