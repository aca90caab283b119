--------------------------- MODULE ValidationRounds ---------------------------
(* GET /api/validation-rounds: HandleValidationRounds (src/api/handler.go) and
   FetchValidationRounds (src/service/rounds.go), one request from its
   parameters to its answer, while the chain grows.

   limit is the constant 1, so the estimation of earlier rounds (roundLength
   and the goroutines under "remaining > 0") never runs and is left out.  The
   two background searches only warm the loaders' caches.                    *)
EXTENDS TimedChain

VARIABLES pc,        \* how far the request has come
          query,     \* the parameter given, if any, and its value
          anchor,    \* anchorExt.Seqno
          now,       \* the clock as read once the anchor is known
          round,     \* the roundInfo being filled in, then answered
          answer,    \* "rounds", "error" (200, no rounds, Error set) or "none"
          cause      \* history: why the answer has no round

requestVars == <<pc, query, anchor, now, round, answer, cause>>
vars == <<chain, tip, skew, requestVars>>

Kinds == {"election_id", "block", "unixtime"}
NoQuery == [kind |-> "none", value |-> 0]

Absent == 0   \* a field of roundInfo the JSON answer omits
NoRound == [electionID |-> Absent, endUtime |-> Absent, startBlock |-> Absent,
            endBlock |-> Absent, finished |-> FALSE,
            prevElectionID |-> Unresolved, nextElectionID |-> Unresolved]

Init == /\ ChainInit
        /\ skew \in Skews
        /\ pc = "idle"
        /\ query = NoQuery
        /\ anchor = Unresolved
        /\ now = Unresolved
        /\ round = NoRound
        /\ answer = "none"
        /\ cause = "none"

NewBlock == Grow /\ UNCHANGED <<skew, requestVars>>

-------------------------------------------------------------------------------
(* The request *)

\* At most one parameter.
Accept == /\ pc = "idle"
          /\ \/ query' = NoQuery
             \/ \E kind \in Kinds :
                   \E v \in IF kind = "block" THEN 0 .. MaxSeqno ELSE Times :
                       query' = [kind |-> kind, value |-> v]
          /\ pc' = "anchor"
          /\ UNCHANGED <<chainVars, skew, anchor, now, round, answer, cause>>

\* The request fails: 400 or 500, no body but the error.
FailWith(why) == /\ pc' = "failed"
                 /\ cause' = why
                 /\ UNCHANGED <<chainVars, skew, query, anchor, now, round, answer>>

\* Several parameters, or one that does not parse.
Reject == pc = "idle" /\ FailWith("bad request")

\* The anchor lookup, or the last search, is not brought through by its retries.
RPCFails == pc \in {"anchor", "prev"} /\ FailWith("rpc")

\* getAnchorExt for a block or an election_id; GetMasterchainInfo otherwise,
\* also for a unixtime.
ResolveAnchor == /\ pc = "anchor"
                 /\ anchor' \in IF query.kind \in {"block", "election_id"}
                                THEN AnchorBlocks(query) ELSE {tip}
                 /\ now' = Now
                 /\ pc' = "config"
                 /\ UNCHANGED <<chainVars, skew, query, round, answer, cause>>

ReadRound == /\ pc = "config"
             /\ round' = [round EXCEPT !.electionID = chain[anchor],
                                       !.endUtime = Until[chain[anchor]]]
             /\ pc' = "start"
             /\ UNCHANGED <<chainVars, skew, query, anchor, now, answer, cause>>

\* A failed getConfigParam34 or lookup of the round's start: no rounds, 200.
WalkFails == /\ pc \in {"config", "start"}
             /\ pc' = "answered"
             /\ answer' = "error"
             /\ cause' = "rpc"
             /\ round' = NoRound
             /\ UNCHANGED <<chainVars, skew, query, anchor, now>>

\* (Mutant of FindStart: the block at the round's end.)
FindStartNearEnd == /\ pc = "start"
                    /\ \E s \in BlocksAt(round.endUtime) :
                          round' = [round EXCEPT !.startBlock = s]
                    /\ pc' = "end"
                    /\ UNCHANGED <<chainVars, skew, query, anchor, now, answer, cause>>

\* start_block is the block the lookup by time gives.
FindStart == /\ pc = "start"
             /\ \E s \in BlocksAt(round.electionID) :
                   round' = [round EXCEPT !.startBlock = s]
             /\ pc' = "end"
             /\ UNCHANGED <<chainVars, skew, query, anchor, now, answer, cause>>

\* (Mutant of Ending: the first block of the next round.)
EndingAfter(edge) == edge.AfterBlock

\* end_block is the last block of this round.
Ending(edge) == edge.BeforeBlock

\* The round is over by the clock, and its end boundary is found.
FindEnd == /\ pc = "end"
           /\ round.endUtime <= now
           /\ \E edge \in Found(round.endUtime) :
                 round' = [round EXCEPT !.finished = TRUE, !.endBlock = Ending(edge)]
           /\ pc' = "prev"
           /\ UNCHANGED <<chainVars, skew, query, anchor, now, answer, cause>>

\* Over by the clock, but the search fails or finds nothing: only logged.
EndUnknown == /\ pc = "end"
              /\ round.endUtime <= now
              /\ round' = [round EXCEPT !.finished = TRUE]
              /\ pc' = "prev"
              /\ UNCHANGED <<chainVars, skew, query, anchor, now, answer, cause>>

StillRunning == /\ pc = "end"
                /\ round.endUtime >= now
                /\ pc' = "prev"
                /\ UNCHANGED <<chainVars, skew, query, anchor, now, round, answer, cause>>

\* (Mutant of Preceding: the other side of the boundary.)
PrecedingAfter(edge) == edge.AfterElectionID

Preceding(edge) == edge.BeforeElectionID

\* (Mutant of PrevSearchTime: the other end of the round.)
PrevSearchEnd == round.endUtime

\* rounds[i].startUtime.
PrevSearchTime == round.electionID

\* populatePrevNextElectionIDs: a search for the one, endUtime for the other.
FindPrev == /\ pc = "prev"
            /\ \E edge \in Found(PrevSearchTime) :
                  round' = [round EXCEPT
                      !.prevElectionID = Preceding(edge),
                      !.nextElectionID = IF round.finished THEN round.endUtime ELSE @]
            /\ answer' = "rounds"
            /\ pc' = "answered"
            /\ UNCHANGED <<chainVars, skew, query, anchor, now, cause>>

NoPrev == pc = "prev" /\ NothingNear(PrevSearchTime) /\ FailWith("no boundary")

Serve == \/ Accept \/ Reject \/ RPCFails
         \/ ResolveAnchor \/ ReadRound \/ WalkFails
         \/ FindStart \/ FindEnd \/ EndUnknown \/ StillRunning
         \/ FindPrev \/ NoPrev

Next == NewBlock \/ Serve

Spec == Init /\ [][Next]_vars

-------------------------------------------------------------------------------
(* Correctness *)

TypeOK == /\ chain \in Chains /\ tip \in 0 .. MaxSeqno /\ skew \in Skews
          /\ pc \in {"idle", "anchor", "config", "start", "end", "prev",
                     "answered", "failed"}
          /\ query.kind \in Kinds \cup {"none"}
          /\ anchor \in 0 .. tip \cup {Unresolved}
          /\ now \in Int
          /\ round \in [electionID : ElectionIDs \cup {Absent}, endUtime : Nat,
                        startBlock : 0 .. tip, endBlock : 0 .. tip,
                        finished : BOOLEAN,
                        prevElectionID : ElectionIDs \cup {Unresolved},
                        nextElectionID : Nat \cup {Unresolved}]
          /\ answer \in {"none", "rounds", "error"}
          /\ cause \in {"none", "bad request", "rpc", "no boundary"}

Answered == pc = "answered" /\ answer = "rounds"

\* All blocks of the round of the chain's whole history.
RoundBlocks == {b \in 0 .. MaxSeqno : chain[b] = round.electionID}

\* The blocks reported hold the whole round: start_block, found by time, is at
\* most two blocks early and never late, and end_block, when there is one, is
\* the round's last block, not merely the last produced so far.
BlocksHoldTheRound ==
    Answered =>
        /\ \E first \in RoundBlocks : \A b \in RoundBlocks :
              first <= b /\ round.startBlock \in first - 2 .. first
        /\ round.endBlock # Absent =>
              /\ round.endBlock \in RoundBlocks
              /\ \A b \in RoundBlocks : b <= round.endBlock

\* prev_election_id is the election of the block just before the round, though
\* the two come from a search near since and from the anchor's configuration.
PrevIsAdjacent ==
    Answered => \E b \in 1 .. MaxSeqno : /\ b \in RoundBlocks
                                         /\ chain[b - 1] # round.electionID
                                         /\ round.prevElectionID = chain[b - 1]

\* With every call going through, the only round that is refused outright is
\* the one the chain starts in.
RefusedOnlyAtTheStart ==
    [][cause' = "no boundary" /\ cause = "none" => chain[anchor] = chain[0]]_vars
=============================================================================
