------------------------- MODULE ValidationRounds_proofs -------------------------
(* The one round FetchValidationRounds answers with is the anchor's: its first block
   comes from a look-up by time, its last and its predecessor from a search each, and
   the three agree, for every chain whose rounds are long against a search.     *)
EXTENDS ValidationRounds, TimedChain_proofs

-------------------------------------------------------------------------------
(* The invariant *)

\* The round being filled in is that of the anchor block.
Anchored == /\ anchor \in 0 .. tip
            /\ round.electionID = chain[anchor]
            /\ round.endUtime = Until[chain[anchor]]

\* start_block is near the round's first block.
StartOK == IF chain[anchor] = chain[0] THEN round.startBlock = 0
           ELSE \E a \in Edges(chain, tip) : /\ chain[a] = chain[anchor]
                                             /\ round.startBlock \in a - 2 .. a

\* end_block, if there is one, is before the boundary at the round's end, unless
\* the chain starts in the round; then the last search will find nothing.
EndOK == round.endBlock # Absent /\ chain[anchor] # chain[0] =>
            \E e \in Edges(chain, tip) : /\ chain[e - 1] = chain[anchor]
                                         /\ round.endBlock = e - 1

\* prev_election_id is from the boundary at the round's begin.
PrevOK == \E a \in Edges(chain, tip) : /\ chain[a] = chain[anchor]
                                       /\ chain[anchor] # chain[0]
                                       /\ round.prevElectionID = chain[a - 1]

Progress == /\ pc = "config" => anchor \in 0 .. tip
            /\ pc \in {"idle", "anchor", "config", "start", "end"} => round.endBlock = Absent
            /\ pc \in {"start", "end", "prev"} \/ Answered => Anchored
            /\ pc \in {"end", "prev"} \/ Answered => StartOK
            /\ pc = "prev" \/ Answered => EndOK
            /\ Answered => PrevOK

RoundType == [electionID : ElectionIDs \cup {Absent}, endUtime : Nat,
              startBlock : 0 .. tip, endBlock : 0 .. tip, finished : BOOLEAN,
              prevElectionID : ElectionIDs \cup {Unresolved},
              nextElectionID : Nat \cup {Unresolved}]

Inv == TypeOK /\ Progress

LEMMA TypeIs ==
    TypeOK => ChainOK /\ round \in RoundType /\ tip \in Nat /\ MaxSeqno \in Nat
<1>1. TypeOK => chain \in Chains /\ tip \in 0 .. MaxSeqno
  BY Zenon DEF TypeOK
<1>2. TypeOK => round \in RoundType
  BY Zenon DEF TypeOK, RoundType
<1> QED
  BY <1>1, <1>2, MaxSeqnoAssumption DEF ChainOK

LEMMA NoRoundIsARound == tip \in Nat => NoRound \in RoundType
  BY DEF NoRound, RoundType, Absent, Unresolved

-------------------------------------------------------------------------------
LEMMA InitEstablishes == Init => Inv
<1> SUFFICES ASSUME Init PROVE Inv
  OBVIOUS
<1>1. tip \in Nat /\ round = NoRound
  BY MaxSeqnoAssumption DEF Init, ChainInit
<1>2. TypeOK
  BY <1>1, NoRoundIsARound DEF Init, ChainInit, NoQuery, TypeOK, RoundType, Unresolved
<1>3. Progress
  BY DEF Init, Progress, Answered, NoRound
<1> QED
  BY <1>2, <1>3 DEF Inv

\* A new block adds to what there is and changes nothing of it.
LEMMA NewBlockKeeps == ASSUME Inv, NewBlock PROVE Inv'
<1>1. /\ chain' = chain /\ tip' \in 0 .. MaxSeqno /\ tip <= tip' /\ tip \in Int /\ tip' \in Int
      /\ UNCHANGED <<skew, pc, query, anchor, now, round, answer, cause>>
  <2>1. tip \in 0 .. MaxSeqno /\ tip < MaxSeqno /\ tip' = tip + 1 /\ chain' = chain
    BY DEF NewBlock, Grow, Inv, TypeOK
  <2>2. UNCHANGED <<skew, pc, query, anchor, now, round, answer, cause>>
    BY DEF NewBlock, requestVars
  <2> QED
    BY <2>1, <2>2, MaxSeqnoAssumption
<1>2. \A b \in 0 .. tip : b \in 0 .. tip'
  BY <1>1
<1>3. TypeOK'
  <2>1. round' \in RoundType'
    BY <1>1, <1>2, TypeIs DEF Inv, RoundType
  <2> QED
    BY <1>1, <1>2, <2>1 DEF Inv, TypeOK, RoundType
<1>4. \A a \in Edges(chain, tip) : a \in Edges(chain, tip')
  BY <1>1, TypeIs, EdgesGrow DEF NewBlock, Inv
<1>5. /\ Anchored => Anchored'
      /\ StartOK => StartOK'
      /\ EndOK => EndOK'
      /\ PrevOK => PrevOK'
  BY <1>1, <1>2, <1>4 DEF Anchored, StartOK, EndOK, PrevOK
<1>6. Progress'
  BY <1>1, <1>2, <1>5 DEF Inv, Progress, Answered
<1> QED
  BY <1>3, <1>6 DEF Inv

\* A step of the request, not of the chain, keeps the invariant if it keeps the
\* round's type and what the request then knows.
LEMMA StepKeeps ==
    ASSUME Inv, UNCHANGED <<chain, tip, skew>>, round' \in RoundType, Progress',
           pc' \in {"idle", "anchor", "config", "start", "end", "prev", "answered", "failed"},
           query'.kind \in Kinds \cup {"none"}, anchor' \in 0 .. tip \cup {Unresolved},
           now' \in Int, answer' \in {"none", "rounds", "error"},
           cause' \in {"none", "bad request", "rpc", "no boundary"}
    PROVE  Inv'
  BY DEF Inv, TypeOK, RoundType

LEMMA AcceptKeeps == ASSUME Inv, Accept PROVE Inv'
<1>1. query'.kind \in Kinds \cup {"none"}
  BY DEF Accept, NoQuery
<1>2. pc = "idle" /\ pc' = "anchor" /\ round' = round
  BY DEF Accept
<1>3. Progress'
  BY <1>2 DEF Inv, Progress, Answered
<1> QED
  BY <1>1, <1>3, TypeIs, StepKeeps DEF Accept, chainVars, Inv, TypeOK

LEMMA FailKeeps == ASSUME Inv, Reject \/ RPCFails \/ NoPrev PROVE Inv'
<1>1. \E why \in {"bad request", "rpc", "no boundary"} : FailWith(why)
  BY DEF Reject, RPCFails, NoPrev
<1>2. Progress'
  BY <1>1 DEF FailWith, Progress, Answered
<1> QED
  BY <1>1, <1>2, TypeIs, StepKeeps DEF FailWith, chainVars, Inv, TypeOK

LEMMA ResolveKeeps == ASSUME Inv, ResolveAnchor PROVE Inv'
<1>1. anchor' \in 0 .. tip
  BY TypeIs, AnchorsAreThere DEF ResolveAnchor, Inv
<1>2. now' \in Int
  <2>1. tip \in 0 .. MaxSeqno /\ skew \in Int
    BY SkewsAssumption DEF Inv, TypeOK
  <2>2. Utime[tip] \in Nat
    BY <2>1, TimesRise
  <2> QED
    BY <2>1, <2>2 DEF ResolveAnchor, Now
<1>3. Progress'
  BY <1>1 DEF ResolveAnchor, chainVars, Inv, Progress, Answered
<1> QED
  BY <1>1, <1>2, <1>3, TypeIs, StepKeeps DEF ResolveAnchor, chainVars, Inv, TypeOK

LEMMA ReadRoundKeeps == ASSUME Inv, ReadRound PROVE Inv'
<1>1. anchor \in 0 .. tip /\ chain \in Chains /\ anchor \in 0 .. MaxSeqno
  BY TypeIs DEF ReadRound, Inv, Progress, ChainOK
<1>2. chain[anchor] \in ElectionIDs /\ Until[chain[anchor]] \in Nat
  BY <1>1, ElectionsAreNat, UntilAssumption
<1>3. round \in RoundType /\ round.endBlock = Absent
  BY TypeIs DEF ReadRound, Inv, Progress
<1>4. /\ round' \in RoundType /\ round'.endBlock = Absent
      /\ round'.electionID = chain[anchor] /\ round'.endUtime = Until[chain[anchor]]
  BY <1>2, <1>3 DEF ReadRound, RoundType
<1>5. Progress'
  BY <1>1, <1>4 DEF ReadRound, chainVars, Progress, Answered, Anchored
<1> QED
  BY <1>4, <1>5, TypeIs, StepKeeps DEF ReadRound, chainVars, Inv, TypeOK

LEMMA WalkFailsKeeps == ASSUME Inv, WalkFails PROVE Inv'
<1>1. round' \in RoundType
  BY TypeIs, NoRoundIsARound DEF WalkFails, Inv
<1>2. Progress'
  BY DEF WalkFails, Progress, Answered
<1> QED
  BY <1>1, <1>2, StepKeeps DEF WalkFails, chainVars, Inv, TypeOK

LEMMA FindStartKeeps == ASSUME Inv, FindStart PROVE Inv'
<1>1. ChainOK /\ Anchored /\ round \in RoundType /\ round.endBlock = Absent
  BY TypeIs DEF FindStart, Inv, Progress
<1>2. PICK s \in BlocksAt(round.electionID) : round' = [round EXCEPT !.startBlock = s]
  BY DEF FindStart
<1>3. s \in 0 .. tip
  BY <1>2, BlocksAreThere
<1>4. /\ round' \in RoundType /\ round'.startBlock = s /\ round'.endBlock = Absent
      /\ round'.electionID = round.electionID /\ round'.endUtime = round.endUtime
  BY <1>1, <1>2, <1>3 DEF RoundType
<1>5. IF chain[anchor] = chain[0] THEN s = 0
      ELSE \E a \in Edges(chain, tip) : chain[a] = chain[anchor] /\ s \in a - 2 .. a
  <2>1. CASE chain[anchor] = chain[0]
    BY <1>1, <1>2, <2>1, FirstStart DEF Anchored
  <2>2. CASE chain[anchor] # chain[0]
    <3>1. PICK a \in Edges(chain, tip) : chain[a] = chain[anchor] /\ a - 2 <= s /\ s <= a
      BY <1>1, <1>2, <2>2, StartNear DEF Anchored
    <3>2. a \in Int /\ s \in Int
      BY <1>3 DEF Edges
    <3> QED
      BY <2>2, <3>1, <3>2
  <2> QED
    BY <2>1, <2>2
<1>6. Anchored' /\ StartOK'
  BY <1>1, <1>4, <1>5 DEF FindStart, chainVars, Anchored, StartOK
<1>7. Progress'
  BY <1>4, <1>6 DEF FindStart, Progress, Answered
<1> QED
  BY <1>4, <1>7, StepKeeps DEF FindStart, chainVars, Inv, TypeOK

\* The search near the round's end, one that brings nothing, or none: as long as it
\* sets no other block than the one before the end.
LEMMA EndStepKeeps == ASSUME Inv, FindEnd \/ EndUnknown \/ StillRunning PROVE Inv'
<1>1. ChainOK /\ Anchored /\ StartOK /\ round \in RoundType /\ round.endBlock = Absent
      /\ tip \in Nat
  BY TypeIs DEF FindEnd, EndUnknown, StillRunning, Inv, Progress
<1>2. /\ round' \in RoundType
      /\ round'.startBlock = round.startBlock
      /\ round'.electionID = round.electionID /\ round'.endUtime = round.endUtime
      /\ round'.endBlock # Absent /\ chain[anchor] # chain[0] =>
            \E e \in Edges(chain, tip) : /\ chain[e - 1] = chain[anchor]
                                         /\ round'.endBlock = e - 1
  <2>1. CASE FindEnd
    <3>1. PICK edge \in Found(round.endUtime) :
            round' = [round EXCEPT !.finished = TRUE, !.endBlock = Ending(edge)]
      BY <2>1 DEF FindEnd
    <3>2. PICK k \in Edges(chain, tip) : edge = EdgeAt(chain, k)
      BY FoundIs
    <3>3. k \in 1 .. tip /\ k - 1 \in 0 .. tip /\ Ending(edge) = k - 1
      BY <1>1, <3>2 DEF Edges, Ending, EdgeAt, BoundaryRec
    <3>4. /\ round' \in RoundType /\ round'.endBlock = Ending(edge)
          /\ round'.startBlock = round.startBlock
          /\ round'.electionID = round.electionID /\ round'.endUtime = round.endUtime
      BY <1>1, <3>1, <3>3 DEF RoundType
    <3>5. ASSUME chain[anchor] # chain[0]
          PROVE  \E e \in Edges(chain, tip) : /\ chain[e - 1] = chain[anchor]
                                              /\ Ending(edge) = e - 1
      <4>1. PICK a \in Edges(chain, tip) : chain[a] = chain[anchor]
        BY <1>1, <3>5, StartNear DEF Anchored
      <4>2. PICK e \in Edges(chain, tip) : edge = EdgeAt(chain, e) /\ chain[e - 1] = chain[a]
        BY <1>1, <4>1, EndFound DEF Anchored
      <4> QED
        BY <4>1, <4>2 DEF Ending, EdgeAt, BoundaryRec
    <3> QED
      BY <3>4, <3>5
  <2>2. CASE EndUnknown \/ StillRunning
    BY <1>1, <2>2 DEF EndUnknown, StillRunning, RoundType
  <2> QED
    BY <2>1, <2>2
<1>3. Anchored' /\ StartOK' /\ EndOK'
  BY <1>1, <1>2 DEF FindEnd, EndUnknown, StillRunning, chainVars, Anchored, StartOK, EndOK
<1>4. Progress'
  BY <1>3 DEF FindEnd, EndUnknown, StillRunning, Progress, Answered
<1> QED
  BY <1>2, <1>4, StepKeeps DEF FindEnd, EndUnknown, StillRunning, chainVars, Inv, TypeOK

LEMMA FindPrevKeeps == ASSUME Inv, FindPrev PROVE Inv'
<1>1. ChainOK /\ Anchored /\ StartOK /\ EndOK /\ round \in RoundType
  BY TypeIs DEF FindPrev, Inv, Progress
<1>2. PICK edge \in Found(round.electionID) :
        round' = [round EXCEPT
            !.prevElectionID = Preceding(edge),
            !.nextElectionID = IF round.finished THEN round.endUtime ELSE @]
  BY DEF FindPrev, PrevSearchTime
<1>3. PICK a \in Edges(chain, tip) : /\ edge = EdgeAt(chain, a)
                                     /\ chain[a] = chain[anchor] /\ chain[anchor] # chain[0]
  BY <1>1, <1>2, StartFound DEF Anchored
<1>4. Preceding(edge) = chain[a - 1] /\ chain[a - 1] \in ElectionIDs
  BY <1>1, <1>3, EdgesAre, ElectionsAreNat DEF Preceding, EdgeAt, BoundaryRec, ChainOK
<1>5. /\ round' \in RoundType /\ round'.prevElectionID = chain[a - 1]
      /\ round'.startBlock = round.startBlock /\ round'.endBlock = round.endBlock
      /\ round'.electionID = round.electionID /\ round'.endUtime = round.endUtime
  BY <1>1, <1>2, <1>4 DEF RoundType
<1>6. Anchored' /\ StartOK' /\ EndOK' /\ PrevOK'
  BY <1>1, <1>3, <1>5 DEF FindPrev, chainVars, Anchored, StartOK, EndOK, PrevOK
<1>7. Progress'
  BY <1>6 DEF FindPrev, Progress
<1> QED
  BY <1>5, <1>7, StepKeeps DEF FindPrev, chainVars, Inv, TypeOK

LEMMA NextPreserves == ASSUME Inv, [Next]_vars PROVE Inv'
<1>1. CASE NewBlock
  BY <1>1, NewBlockKeeps
<1>2. CASE Serve
  BY <1>2, AcceptKeeps, FailKeeps, ResolveKeeps, ReadRoundKeeps, WalkFailsKeeps,
     FindStartKeeps, EndStepKeeps, FindPrevKeeps DEF Serve
<1>3. CASE UNCHANGED vars
  <2>1. TypeOK'
    <3>1. UNCHANGED <<chain, tip, skew, pc, query, anchor, now, round, answer, cause>>
      BY <1>3 DEF vars, requestVars
    <3>2. round' \in RoundType
      BY <3>1, TypeIs DEF Inv
    <3> QED
      BY <3>1, <3>2 DEF Inv, TypeOK, RoundType
  <2>2. Progress'
    BY <1>3 DEF vars, requestVars, Inv, Progress, Answered, Anchored, StartOK, EndOK, PrevOK
  <2> QED
    BY <2>1, <2>2 DEF Inv
<1> QED
  BY <1>1, <1>2, <1>3 DEF Next

-------------------------------------------------------------------------------
(* The theorems *)

\* The inductive invariant holds: what the request has filled in is of one round.
THEOREM Invariance == Spec => []Inv
  BY InitEstablishes, NextPreserves, PTL DEF Spec

\* A request keeps its types: start_block and end_block are blocks there are.
THEOREM RoundsTypeCorrect == Spec => []TypeOK
<1>1. Inv => TypeOK
  BY DEF Inv
<1> QED
  BY <1>1, Invariance, PTL

\* For any chain, limit and clock, what FetchValidationRounds reports holds the whole
\* round, to the last block when it names one.
THEOREM BlocksHoldTheRoundThm == Spec => []BlocksHoldTheRound
<1>1. ASSUME Inv, Answered PROVE BlocksHoldTheRound
  <2>1. ChainOK /\ Anchored /\ StartOK /\ EndOK /\ PrevOK
    BY <1>1, TypeIs DEF Inv, Progress
  <2>2. chain \in Chains /\ tip \in 0 .. MaxSeqno
    BY <2>1 DEF ChainOK
  <2>3. PICK a \in Edges(chain, tip) : chain[a] = chain[anchor] /\ chain[anchor] # chain[0]
    BY <2>1 DEF PrevOK
  <2>4. a \in Edges(chain, MaxSeqno) /\ a \in 0 .. MaxSeqno /\ a \in Int
    BY <2>2, EdgesAre
  <2>5. \A b \in RoundBlocks : a <= b /\ b \in 0 .. MaxSeqno
    BY <2>1, <2>2, <2>3, <2>4, FirstOfRound DEF RoundBlocks, Anchored
  <2>6. PICK f \in Edges(chain, tip) : /\ chain[f] = chain[anchor]
                                       /\ round.startBlock \in f - 2 .. f
    BY <2>1, <2>3 DEF StartOK
  <2>7. f = a
    <3>1. f \in Edges(chain, MaxSeqno) /\ f \in 0 .. MaxSeqno /\ f \in Int
      BY <2>2, EdgesAre
    <3>2. f <= a /\ a <= f
      BY <2>2, <2>3, <2>4, <2>6, <3>1, FirstOfRound
    <3> QED
      BY <2>4, <3>1, <3>2
  <2>8. a \in RoundBlocks
    BY <2>1, <2>3, <2>4 DEF RoundBlocks, Anchored
  <2>9. ASSUME round.endBlock # Absent
        PROVE  round.endBlock \in RoundBlocks /\ \A b \in RoundBlocks : b <= round.endBlock
    <3>1. PICK e \in Edges(chain, tip) : /\ chain[e - 1] = chain[anchor]
                                         /\ round.endBlock = e - 1
      BY <2>1, <2>3, <2>9 DEF EndOK
    <3>2. e \in Edges(chain, MaxSeqno) /\ e - 1 \in 0 .. MaxSeqno
      BY <2>2, EdgesAre
    <3>3. round.endBlock \in RoundBlocks
      BY <2>1, <3>1, <3>2 DEF RoundBlocks, Anchored
    <3>4. ASSUME NEW b \in RoundBlocks PROVE b <= round.endBlock
      BY <2>1, <2>2, <3>1, <3>2, LastOfRound DEF RoundBlocks, Anchored
    <3> QED
      BY <3>3, <3>4
  <2> QED
    BY <2>5, <2>6, <2>7, <2>8, <2>9 DEF BlocksHoldTheRound
<1>2. Inv => BlocksHoldTheRound
  BY <1>1 DEF BlocksHoldTheRound
<1> QED
  BY <1>2, Invariance, PTL

\* The previous election is that of the block before the anchor's round, whichever
\* block the search started from.
THEOREM PrevIsAdjacentThm == Spec => []PrevIsAdjacent
<1>1. ASSUME Inv, Answered PROVE PrevIsAdjacent
  <2>1. chain \in Chains /\ tip \in 0 .. MaxSeqno /\ Anchored /\ PrevOK
    BY <1>1 DEF Inv, Progress, TypeOK
  <2>2. PICK a \in Edges(chain, tip) : /\ chain[a] = chain[anchor]
                                       /\ round.prevElectionID = chain[a - 1]
    BY <2>1 DEF PrevOK
  <2>3. a \in 1 .. MaxSeqno /\ a \in 0 .. MaxSeqno /\ chain[a - 1] # chain[a]
    BY <2>1, EdgesAre, MaxSeqnoAssumption
  <2> QED
    BY <2>1, <2>2, <2>3 DEF PrevIsAdjacent, RoundBlocks, Anchored
<1>2. Inv => PrevIsAdjacent
  BY <1>1 DEF PrevIsAdjacent
<1> QED
  BY <1>2, Invariance, PTL

\* With every call going through, only the chain's first round is refused outright.
THEOREM RefusedOnlyAtTheStartThm == Spec => RefusedOnlyAtTheStart
<1>1. ASSUME Inv, [Next]_vars, cause' = "no boundary", cause = "none"
      PROVE  chain[anchor] = chain[0]
  <2>1. NoPrev
    BY <1>1 DEF Next, NewBlock, requestVars, Serve, Accept, Reject, RPCFails, ResolveAnchor,
                ReadRound, WalkFails, FindStart, FindEnd, EndUnknown, StillRunning, FindPrev,
                FailWith, vars
  <2>2. ChainOK /\ Anchored
    BY <1>1, <2>1, TypeIs DEF NoPrev, Inv, Progress
  <2> QED
    BY <2>1, <2>2, StartIsFound DEF NoPrev, PrevSearchTime, Anchored
<1>2. Inv /\ [Next]_vars =>
        [cause' = "no boundary" /\ cause = "none" => chain[anchor] = chain[0]]_vars
  BY <1>1
<1> QED
  BY <1>2, Invariance, PTL DEF Spec, RefusedOnlyAtTheStart
=============================================================================
