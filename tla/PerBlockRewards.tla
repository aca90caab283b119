---------------------------- MODULE PerBlockRewards ----------------------------
(* GET /api/validators: HandleValidators (src/api/handler.go) and
   FetchPerBlockRewards (src/service/blocks.go), one request from its
   parameters to its answer, while the chain grows.

   Three of the goroutines of fetchGroup matter to the reward: config param 34,
   past elections at the block, past elections at the block before.  Each reads
   at a block that no longer changes, so what it read is told by whether it
   succeeded.  Block time, elector balance and pools only fill fields of their
   own.                                                                      *)
EXTENDS TimedChain

CONSTANT MaxWalk   \* fetchPrevElectionIDForBlock: maxIterations (1000)

ASSUME MaxWalkAssumption == MaxWalk \in Nat \ {0}

\* A round has more blocks than the walk may step over, also when it starts two
\* blocks early.
ASSUME RoundsOutlastTheWalk ==
    \A c \in Chains : \A a, b \in Edges(c, MaxSeqno) : a < b => b - a > MaxWalk + 1

VARIABLES pc,                    \* how far the request has come
          query,                 \* the parameter given, if any, and its value
          block,                 \* blockIDExt.Seqno
          reads,                 \* how far each goroutine of fetchGroup is
          startBlock, endBlock,  \* roundStartBlock and roundEndBlock
          answer,                \* model.Output
          cause                  \* history: why the request failed

requestVars == <<pc, query, block, reads, startBlock, endBlock, answer, cause>>
vars == <<chain, tip, skew, requestVars>>

Kinds == {"block", "unixtime"}
NoQuery == [kind |-> "none", value |-> 0]

Reads == {"config", "elections", "previous"}
Outcomes == {"pending", "ok", "failed"}

Absent == 0   \* roundStartBlock or roundEndBlock not resolved
NoAnswer == [ElectionID |-> Unresolved, Reward |-> Unresolved,
             PrevElectionID |-> Unresolved, NextElectionID |-> Unresolved]

Init == /\ ChainInit
        /\ skew \in Skews
        /\ pc = "idle"
        /\ query = NoQuery
        /\ block = Unresolved
        /\ reads = [r \in Reads |-> "pending"]
        /\ startBlock = Absent /\ endBlock = Absent
        /\ answer = NoAnswer
        /\ cause = "none"

NewBlock == Grow /\ UNCHANGED <<skew, requestVars>>

-------------------------------------------------------------------------------
(* The request *)

\* At most one of seqno and unixtime.
Accept == /\ pc = "idle"
          /\ \/ query' = NoQuery
             \/ \E kind \in Kinds :
                   \E v \in IF kind = "block" THEN 0 .. MaxSeqno ELSE Times :
                       query' = [kind |-> kind, value |-> v]
          /\ pc' = "block"
          /\ UNCHANGED <<chainVars, skew, block, reads, startBlock, endBlock, answer, cause>>

FailWith(why) == /\ pc' = "failed"
                 /\ cause' = why
                 /\ UNCHANGED <<chainVars, skew, query, block, reads, startBlock,
                                endBlock, answer>>

\* Both parameters, or one that does not parse.
Reject == pc = "idle" /\ FailWith("bad request")

\* The block is not found, or a read of the walk back fails.
RPCFails == pc \in {"block", "walk"} /\ FailWith("rpc")

ResolveBlock == /\ pc = "block"
                /\ block' \in IF query.kind = "none" THEN {tip} ELSE AnchorBlocks(query)
                /\ pc' = "reads"
                /\ UNCHANGED <<chainVars, skew, query, reads, startBlock, endBlock,
                               answer, cause>>

\* One goroutine of fetchGroup ends.  There is nothing before block 1 to read.
Read(r) == /\ pc = "reads"
           /\ reads[r] = "pending"
           /\ \E outcome \in {"ok", "failed"} :
                 /\ r = "previous" /\ outcome = "ok" => block > 1
                 /\ reads' = [reads EXCEPT ![r] = outcome]
           /\ UNCHANGED <<chainVars, skew, pc, query, block, startBlock, endBlock,
                          answer, cause>>

AllRead == pc = "reads" /\ \A r \in Reads : reads[r] # "pending"

\* fetchGroup.Wait: only the configuration is indispensable.
NoConfig == AllRead /\ reads["config"] = "failed" /\ FailWith("rpc")

electionID == chain[block]
roundUntil == Until[chain[block]]

\* (Mutant of startUtime: the round's other end.)
endUtime == Until[chain[block]]

\* roundSince.
startUtime == chain[block]

\* blockGroup: the round's blocks by time, the end only once it is over.  A
\* lookup that fails leaves its block out.
ResolveBlocks ==
    /\ AllRead /\ reads["config"] = "ok"
    /\ startBlock' \in BlocksAt(startUtime) \cup {Absent}
    /\ endBlock' \in {Absent} \cup IF roundUntil <= Now THEN BlocksAt(roundUntil) ELSE {}
    /\ pc' = "walk"
    /\ UNCHANGED <<chainVars, skew, query, block, reads, answer, cause>>

\* Where the previous bonuses are read.
previousBlock == block - 1

\* (Mutant of rewardPerBlock: no bonuses before are taken for bonuses of zero.)
rewardSinceNothing ==
    (IF reads["elections"] = "ok" /\ electionID \in PastElectionsAt(block)
     THEN BonusesAt(electionID, block) ELSE 0)
    - (IF reads["previous"] = "ok" /\ electionID \in PastElectionsAt(previousBlock)
       THEN BonusesAt(electionID, previousBlock) ELSE 0)

\* findElection at both blocks: a difference only when both list the election
\* and both reads succeeded, nothing otherwise.
rewardPerBlock ==
    IF /\ reads["elections"] = "ok" /\ reads["previous"] = "ok"
       /\ electionID \in PastElectionsAt(block)
       /\ electionID \in PastElectionsAt(previousBlock)
    THEN BonusesAt(electionID, block) - BonusesAt(electionID, previousBlock)
    ELSE 0

\* (Mutant of WalkedTo: no bound on the walk.)
WalkedFreely(s) == {chain[b] : b \in {k \in 0 .. s - 1 :
                                        /\ chain[k] # chain[s]
                                        /\ \A j \in k + 1 .. s : chain[j] = chain[s]}}

\* fetchPrevElectionIDForBlock: down from s, within MaxWalk blocks, to the first
\* of another election.
WalkedTo(s) == {chain[b] : b \in {k \in 0 .. s - 1 :
                                    /\ s - k <= MaxWalk /\ chain[k] # chain[s]
                                    /\ \A j \in k + 1 .. s : chain[j] = chain[s]}}

AnswerWith(prev) ==
    /\ answer' = [ElectionID     |-> electionID,
                  Reward         |-> rewardPerBlock,
                  PrevElectionID |-> prev,
                  NextElectionID |-> IF roundUntil <= Now THEN roundUntil ELSE Unresolved]
    /\ pc' = "answered"
    /\ UNCHANGED <<chainVars, skew, query, block, reads, startBlock, endBlock, cause>>

\* The round's start is not known: no previous election in the answer.
WithoutPrev == pc = "walk" /\ startBlock = Absent /\ AnswerWith(Unresolved)

WalkBack == /\ pc = "walk" /\ startBlock > 1
            /\ \E prev \in WalkedTo(startBlock) : AnswerWith(prev)

\* startBlock is 1, or the walk ends without another election: 500.
NoPrev == /\ pc = "walk" /\ startBlock # Absent
          /\ startBlock = 1 \/ WalkedTo(startBlock) = {}
          /\ FailWith("no previous election")

Serve == \/ Accept \/ Reject \/ RPCFails
         \/ ResolveBlock \/ (\E r \in Reads : Read(r)) \/ NoConfig \/ ResolveBlocks
         \/ WithoutPrev \/ WalkBack \/ NoPrev

Next == NewBlock \/ Serve

Spec == Init /\ [][Next]_vars

-------------------------------------------------------------------------------
(* Correctness *)

TypeOK == /\ chain \in Chains /\ tip \in 0 .. MaxSeqno /\ skew \in Skews
          /\ pc \in {"idle", "block", "reads", "walk", "answered", "failed"}
          /\ query.kind \in Kinds \cup {"none"}
          /\ block \in 0 .. tip \cup {Unresolved}
          /\ reads \in [Reads -> Outcomes]
          /\ startBlock \in 0 .. tip /\ endBlock \in 0 .. tip
          /\ answer.PrevElectionID \in ElectionIDs \cup {Unresolved}
          /\ cause \in {"none", "bad request", "rpc", "no previous election"}

\* The fees of one block, in the units bonuses are counted in.
BlockFees == 1

\* The reward answered is never that of more than the one block, whichever reads
\* failed: it is what that block earned if the bonuses were read at both blocks,
\* also for the first block of a round, whose predecessor belongs to another
\* election, and none otherwise.
RewardIsTheBlocks ==
    pc = "answered" =>
        answer.Reward = IF reads["elections"] = "ok" /\ reads["previous"] = "ok"
                        THEN BlockFees ELSE 0

\* A previous election that is answered is the one just before the block's
\* round: the walk, which starts where a lookup by time landed, never steps over
\* a whole round nor names the block's own.
PrevIsPrevious ==
    pc = "answered" /\ answer.PrevElectionID # Unresolved =>
        \E b \in 1 .. block : /\ chain[b] = chain[block]
                              /\ chain[b - 1] # chain[b]
                              /\ answer.PrevElectionID = chain[b - 1]

\* Without a failing call, a request fails only when the lookup of the round's
\* start landed before the round's first block.
FailsForAReason ==
    [][cause' = "no previous election" /\ cause = "none" =>
          \A b \in 0 .. tip : chain[b] = chain[block] => startBlock < b]_vars
=============================================================================
