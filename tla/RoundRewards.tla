----------------------------- MODULE RoundRewards -----------------------------
(* GET /api/round-rewards: HandleRoundRewards (src/api/handler.go) and
   FetchRoundRewards (src/service/rounds.go), one request from its parameters
   to its answer, while the chain grows and the wall clock runs.

   The two boundary searches are used through what BoundaryPromise says of
   them, and the chain's clock and schedule are TimedChain's.                *)
EXTENDS TimedChain

VARIABLES pc,              \* how far the request has come
          query,           \* the parameter given and its value
          anchor,          \* anchorExt.Seqno
          since, until,    \* the anchor round, from its config param 34
          startBoundary, endBoundary,
          answer,          \* RoundRewardsOutput
          cause            \* history: why the request failed

vars == <<chain, tip, skew, pc, query, anchor, since, until,
          startBoundary, endBoundary, answer, cause>>

requestVars == <<pc, query, anchor, since, until, startBoundary, endBoundary,
                 answer, cause>>

Kinds == {"election_id", "block", "unixtime"}
NoQuery == [kind |-> "none", value |-> 0]
NoAnswer == [ElectionID |-> Unresolved]

Init == /\ ChainInit
        /\ skew \in Skews
        /\ pc = "idle"
        /\ query = NoQuery
        /\ anchor = Unresolved
        /\ since = Unresolved /\ until = Unresolved
        /\ startBoundary = NoBoundary /\ endBoundary = NoBoundary
        /\ answer = NoAnswer
        /\ cause = "none"

-------------------------------------------------------------------------------
NewBlock == Grow /\ UNCHANGED <<skew, requestVars>>

-------------------------------------------------------------------------------
(* The request *)

\* countTrue(hasElection, hasBlock, hasUnixtime) must be exactly one.
Accept == /\ pc = "idle"
          /\ \E kind \in Kinds :
                \E v \in IF kind = "block" THEN 0 .. MaxSeqno ELSE Times :
                    query' = [kind |-> kind, value |-> v]
          /\ pc' = "anchor"
          /\ UNCHANGED <<chainVars, skew, anchor, since, until, startBoundary,
                         endBoundary, answer, cause>>

FailWith(why) == /\ pc' = "failed"
                 /\ cause' = why
                 /\ UNCHANGED <<chainVars, skew, query, anchor, since, until,
                                startBoundary, endBoundary, answer>>

\* No parameter, several, or one that does not parse: 400.
Reject == pc = "idle" /\ FailWith("bad request")

\* A liteserver call that 30 attempts do not bring through, or an answer that
\* does not decode: 500, at any stage.
RPCFails == /\ pc \in {"anchor", "config", "start", "end", "data"}
            /\ FailWith("rpc")

\* getAnchorExt gives the block.
ResolveAnchor == /\ pc = "anchor"
                 /\ anchor' \in AnchorBlocks(query)
                 /\ pc' = "config"
                 /\ UNCHANGED <<chainVars, skew, query, since, until, startBoundary,
                                endBoundary, answer, cause>>

\* getConfigParam34 at the anchor, then the round must be over by our clock.
ReadRound == /\ pc = "config"
             /\ Until[chain[anchor]] <= Now
             /\ since' = chain[anchor]
             /\ until' = Until[chain[anchor]]
             /\ pc' = "start"
             /\ UNCHANGED <<chainVars, skew, query, anchor, startBoundary,
                            endBoundary, answer, cause>>

NotFinished == /\ pc = "config"
               /\ Until[chain[anchor]] > Now
               /\ FailWith("unfinished")

FindStart == /\ pc = "start"
             /\ startBoundary' \in Found(since)
             /\ pc' = "end"
             /\ UNCHANGED <<chainVars, skew, query, anchor, since, until,
                            endBoundary, answer, cause>>

\* (Mutant of FindEnd: it searches near since.)
FindEndNearSince == /\ pc = "end"
                    /\ endBoundary' \in Found(since)
                    /\ pc' = "data"
                    /\ UNCHANGED <<chainVars, skew, query, anchor, since, until,
                                   startBoundary, answer, cause>>

FindEnd == /\ pc = "end"
           /\ endBoundary' \in Found(until)
           /\ pc' = "data"
           /\ UNCHANGED <<chainVars, skew, query, anchor, since, until,
                          startBoundary, answer, cause>>

NoStart == pc = "start" /\ NothingNear(since) /\ FailWith("no boundary")
NoEnd == pc = "end" /\ NothingNear(until) /\ FailWith("no boundary")

\* (Mutant of currentPinned: the validators of the first block after the round.)
pinnedAfter == endBoundary.AfterBlock

\* What is read where: the validators at the round's last block, the elector's
\* past elections at the next round's first.
currentPinned == endBoundary.BeforeBlock
nextRoundPinned == endBoundary.AfterBlock

electionID == startBoundary.AfterElectionID

\* (Mutant of nextID: the end of the round taken for the next election's id.)
nextIDIsUntil == until

nextID == endBoundary.AfterElectionID

Output ==
    [ElectionID     |-> electionID,
     RoundStart     |-> since,
     RoundEnd       |-> until,
     StartBlock     |-> startBoundary.AfterBlock,
     EndBlock       |-> endBoundary.BeforeBlock,
     PrevElectionID |-> startBoundary.BeforeElectionID,
     NextElectionID |-> nextID,
     ValidatorsOf   |-> chain[currentPinned],
     TotalBonuses   |-> BonusesAt(electionID, nextRoundPinned)]

Compute == /\ pc = "data"
           /\ electionID \in PastElectionsAt(nextRoundPinned)
           /\ answer' = Output
           /\ pc' = "answered"
           /\ UNCHANGED <<chainVars, skew, query, anchor, since, until,
                          startBoundary, endBoundary, cause>>

Serve == \/ Accept \/ Reject \/ RPCFails
         \/ ResolveAnchor \/ ReadRound \/ NotFinished
         \/ FindStart \/ NoStart \/ FindEnd \/ NoEnd
         \/ Compute

Next == NewBlock \/ Serve

Spec == Init /\ [][Next]_vars

-------------------------------------------------------------------------------
(* Correctness *)

BoundaryType == [BeforeBlock : Int, BeforeElectionID : Int,
                 AfterBlock : Int, AfterElectionID : Int]

TypeOK == /\ chain \in Chains /\ tip \in 0 .. MaxSeqno /\ skew \in Skews
          /\ pc \in {"idle", "anchor", "config", "start", "end", "data",
                     "answered", "failed"}
          /\ query.kind \in Kinds \cup {"none"}
          /\ anchor \in 0 .. tip \cup {Unresolved}
          /\ since \in ElectionIDs \cup {Unresolved}
          /\ until \in Nat \cup {Unresolved}
          /\ startBoundary \in BoundaryType
          /\ endBoundary \in BoundaryType
          /\ cause \in {"none", "bad request", "rpc", "unfinished", "no boundary"}

\* The blocks reported are all the blocks of that round, those still to come
\* included: a round is never answered for before its last block.
AnswerIsWhole ==
    pc = "answered" =>
        {b \in 0 .. MaxSeqno : chain[b] = answer.ElectionID} =
            answer.StartBlock .. answer.EndBlock

\* The request asks for election e by its id, one that uint32 holds.
AsksFor(e) == query.kind = "election_id" /\ query.value = e /\ e < Uint32Range

\* Everything in one answer is of one round, the one the anchor block belongs to,
\* although it is found by two searches and read at three different blocks; and
\* the bonuses are the round's final ones.  The round of an election asked for by
\* its id is answered, or the one just before: the id is looked up as a time, and
\* the block at that time may still be of the outgoing validators.
AnswerIsOneRound ==
    pc = "answered" =>
        /\ answer.ElectionID = chain[anchor]
        /\ answer.RoundStart = answer.ElectionID
        /\ answer.RoundEnd = Until[answer.ElectionID]
        /\ answer.ValidatorsOf = answer.ElectionID
        /\ answer.TotalBonuses = BonusesAt(answer.ElectionID, MaxSeqno)
        /\ \A b \in 0 .. MaxSeqno :
              AsksFor(chain[b]) => chain[b] \in {answer.ElectionID, answer.NextElectionID}

\* prev_election_id and next_election_id are the elections of the blocks just
\* outside the round, also when the next election came late.
NeighboursAreAdjacent ==
    pc = "answered" =>
        /\ answer.PrevElectionID = chain[answer.StartBlock - 1]
        /\ answer.NextElectionID = chain[answer.EndBlock + 1]

\* The round that follows id started too late for a search near t to see it.
StartsLate(t, e) == \E b \in AtOrAfter(t) : e >= b + MaxBoundarySearch

\* If every call goes through, a round our clock calls over is refused only
\* when the chain starts in it, when its successor has not started, or when
\* its successor started a whole search range late.
RefusedForAReason ==
    [][cause' = "no boundary" /\ cause = "none" =>
          \/ chain[anchor] = chain[0]
          \/ \A e \in Edges(chain, tip) : chain[e - 1] # chain[anchor]
          \/ \E e \in Edges(chain, tip) : chain[e - 1] = chain[anchor]
                                          /\ StartsLate(until, e)]_vars
=============================================================================
