------------------------------ MODULE MCPoolData ------------------------------
(* Rounds 1 and 2, of two and three blocks: election 2 is listed in the last block
   of round 1, election 3 in the last of round 2, and election 1 is no longer
   listed one block into round 2, or is fined in that round's first block.  Keys
   are elected once, twice or three times, v1 always from pool p and v2 from q
   until its last election.  Election 1 or 2 may have members that do not parse. *)
EXTENDS PoolData, TLC

CONSTANTS r1, r2, v1, v2, p, q, early, late

History(members, fine, unparsed) ==
    [listed  |-> (0 :> {1} @@ 1 :> {1, 2} @@ 2 :> {1, 2} @@ 3 :> {2} @@ 4 :> {2, 3}),
     current |-> (0 :> 1 @@ 1 :> 1 @@ 2 :> 2 @@ 3 :> 2 @@ 4 :> 2),
     parsed  |-> (1 .. 3) \ {unparsed},
     frozen  |-> (1 :> members[1] @@ 2 :> members[2] @@ 3 :> members[3]),
     src     |-> [e \in 1 .. 3 |-> (v1 :> p @@ v2 :> IF e = 3 THEN p ELSE q)],
     fined   |-> (1 :> fine @@ 2 :> MaxBlock + 1 @@ 3 :> MaxBlock + 1)]

Memberships == {m \in [1 .. 3 -> [Validators -> {0, 3, 5}]] :
                  /\ \A v \in Validators : m[1][v] = 3 /\ m[2][v] # 3 /\ m[3][v] # 5
                  /\ m[2][v1] = 5 /\ m[3][v1] = 0}

MCHistories == {History(m, h.fine, h.unparsed) : m \in Memberships, h \in
                  {[fine |-> 2, unparsed |-> 0], [fine |-> 2, unparsed |-> 2],
                   [fine |-> MaxBlock + 1, unparsed |-> 1]}}

Account(code, data) == [active |-> TRUE, code |-> code, data |-> data]
Absent == [active |-> FALSE, code |-> NoCode, data |-> NoData]

\* The nominators of p change in each round; q is deployed in block 1, and its
\* roles decode from block 2 on.
MCAccounts ==
    {p :> [b \in Blocks |-> Account(NominatorV10, IF b < 2 THEN early ELSE late)] @@
     q :> [b \in Blocks |-> IF b = 0 THEN Absent
                            ELSE Account(SingleV10, IF b = 1 THEN Garbled ELSE late)]}

Requesters == Permutations(Requests)
=============================================================================
