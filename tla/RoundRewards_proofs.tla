--------------------------- MODULE RoundRewards_proofs ---------------------------
(* An answer of FetchRoundRewards is of one round, the anchor's, and of all of it,
   for every chain whose rounds are long against a search.                   *)
EXTENDS RoundRewards, TimedChain_proofs

-------------------------------------------------------------------------------
(* The invariant *)

\* The round asked for is that of the anchor block.
Anchored == anchor \in 0 .. tip /\ since = chain[anchor] /\ until = Until[since]

\* A round asked for by its election id is the anchor's or starts where that ends.
Named == \A b \in 0 .. MaxSeqno : AsksFor(chain[b]) =>
            \/ chain[anchor] = chain[b]
            \/ \E a \in Edges(chain, MaxSeqno) : /\ chain[a] = chain[b]
                                                 /\ chain[a - 1] = chain[anchor]

\* The two searches found the two ends of that round.
StartOK == \E a \in Edges(chain, tip) : /\ startBoundary = EdgeAt(chain, a)
                                        /\ chain[a] = since
EndOK == \E e \in Edges(chain, tip) : /\ endBoundary = EdgeAt(chain, e)
                                      /\ startBoundary.AfterBlock < e
                                      /\ chain[e - 1] = since

Progress == /\ pc = "anchor" => query.kind \in Kinds
            /\ pc = "config" => anchor \in 0 .. tip
            /\ pc \in {"config", "start", "end", "data", "answered"} => Named
            /\ pc \in {"start", "end", "data", "answered"} => Anchored
            /\ pc \in {"end", "data", "answered"} => StartOK
            /\ pc \in {"data", "answered"} => EndOK
            /\ pc = "answered" => answer = Output

Inv == TypeOK /\ Progress

LEMMA TypeIsChainOK == TypeOK => ChainOK
  BY DEF TypeOK, ChainOK

LEMMA EdgeIsABoundary ==
    ASSUME NEW c \in Chains, NEW a \in Edges(c, MaxSeqno)
    PROVE  EdgeAt(c, a) \in BoundaryType
<1>1. a \in Int /\ a - 1 \in Int /\ c[a] \in Int /\ c[a - 1] \in Int
  BY EdgesAre, ElectionsAreNat, MaxSeqnoAssumption
<1> QED
  BY <1>1 DEF EdgeAt, BoundaryRec, BoundaryType

-------------------------------------------------------------------------------
LEMMA InitEstablishes == Init => Inv
<1> SUFFICES ASSUME Init PROVE Inv
  OBVIOUS
<1>1. TypeOK
  BY DEF Init, ChainInit, NoQuery, TypeOK, NoBoundary, BoundaryRec, BoundaryType, Unresolved
<1>2. Progress
  BY DEF Init, Progress
<1> QED
  BY <1>1, <1>2 DEF Inv

\* A new block adds to what there is and changes nothing of it.
LEMMA NewBlockKeeps == ASSUME Inv, NewBlock PROVE Inv'
<1>1. /\ chain' = chain /\ tip' \in 0 .. MaxSeqno /\ tip <= tip' /\ tip \in Int /\ tip' \in Int
      /\ UNCHANGED <<skew, pc, query, anchor, since, until, startBoundary, endBoundary,
                     answer, cause>>
  <2>1. tip \in 0 .. MaxSeqno /\ tip < MaxSeqno /\ tip' = tip + 1 /\ chain' = chain
    BY DEF NewBlock, Grow, Inv, TypeOK
  <2>2. UNCHANGED <<skew, pc, query, anchor, since, until, startBoundary, endBoundary,
                    answer, cause>>
    BY DEF NewBlock, requestVars
  <2> QED
    BY <2>1, <2>2, MaxSeqnoAssumption
<1>2. \A b \in 0 .. tip : b \in 0 .. tip'
  BY <1>1
<1>3. TypeOK'
  BY <1>1, <1>2 DEF Inv, TypeOK
<1>4. \A a \in Edges(chain, tip) : a \in Edges(chain, tip')
  BY <1>1, TypeIsChainOK, EdgesGrow DEF NewBlock, Inv
<1>5. (Anchored => Anchored') /\ (StartOK => StartOK') /\ (EndOK => EndOK')
      /\ (Named => Named')
  BY <1>1, <1>2, <1>4 DEF Anchored, StartOK, EndOK, Named, AsksFor, Edges
<1>6. Output' = Output
  BY <1>1 DEF Output, electionID, nextID, currentPinned, nextRoundPinned, BonusesAt
<1>7. Progress'
  BY <1>1, <1>2, <1>5, <1>6 DEF Inv, Progress
<1> QED
  BY <1>3, <1>7 DEF Inv

LEMMA AcceptKeeps == ASSUME Inv, Accept PROVE Inv'
<1>1. query'.kind \in Kinds
  BY DEF Accept
<1>2. TypeOK'
  BY <1>1 DEF Accept, chainVars, Inv, TypeOK
<1>3. Progress'
  BY <1>1 DEF Accept, Progress
<1> QED
  BY <1>2, <1>3 DEF Inv

LEMMA FailKeeps ==
    ASSUME Inv, Reject \/ RPCFails \/ NotFinished \/ NoStart \/ NoEnd PROVE Inv'
<1>1. TypeOK'
  BY DEF Reject, RPCFails, NotFinished, NoStart, NoEnd, FailWith, chainVars, Inv, TypeOK
<1>2. pc' = "failed"
  BY DEF Reject, RPCFails, NotFinished, NoStart, NoEnd, FailWith
<1>3. Progress'
  BY <1>2 DEF Progress
<1> QED
  BY <1>1, <1>3 DEF Inv

\* An id that uint32 holds is looked up uncut.
LEMMA IdsAreLookedUp ==
    ASSUME ChainOK, NEW b \in 0 .. MaxSeqno, AsksFor(chain[b]),
           NEW s \in AnchorBlocks(query)
    PROVE  s \in BlocksAt(chain[b])
<1>1. chain[b] \in Nat
  BY ElectionsAreNat DEF ChainOK
<1>2. chain[b] % Uint32Range = chain[b]
  BY <1>1, Uint32RangeAssumption DEF AsksFor
<1> QED
  BY <1>2 DEF AnchorBlocks, AsksFor

LEMMA ResolveKeeps == ASSUME Inv, ResolveAnchor PROVE Inv'
<1>1. anchor' \in 0 .. tip
  BY AnchorsAreThere DEF ResolveAnchor, Inv, Progress, Kinds
<1>2. TypeOK'
  BY <1>1 DEF ResolveAnchor, chainVars, Inv, TypeOK
<1>3. Named'
  <2>1. ASSUME NEW b \in 0 .. MaxSeqno, AsksFor(chain[b])
        PROVE  \/ chain[anchor'] = chain[b]
               \/ \E a \in Edges(chain, MaxSeqno) : /\ chain[a] = chain[b]
                                                    /\ chain[a - 1] = chain[anchor']
    BY <2>1, TypeIsChainOK, IdsAreLookedUp, AtAnElectionsTime DEF ResolveAnchor, Inv
  <2> QED
    BY <2>1 DEF ResolveAnchor, chainVars, Named, AsksFor
<1>4. Progress'
  BY <1>1, <1>3 DEF ResolveAnchor, chainVars, Progress
<1> QED
  BY <1>2, <1>4 DEF Inv

LEMMA ReadRoundKeeps == ASSUME Inv, ReadRound PROVE Inv'
<1>1. anchor \in 0 .. tip /\ chain \in Chains /\ anchor \in 0 .. MaxSeqno
  <2>1. pc = "config" /\ Progress /\ chain \in Chains /\ tip \in 0 .. MaxSeqno
    BY DEF ReadRound, Inv, TypeOK
  <2>2. anchor \in 0 .. tip
    BY <2>1 DEF Progress
  <2> QED
    BY <2>1, <2>2, MaxSeqnoAssumption
<1>2. since' = chain[anchor] /\ until' = Until[since'] /\ since' \in ElectionIDs
      /\ until' \in Nat
  BY <1>1, ElectionsAreNat, UntilAssumption DEF ReadRound
<1>3. TypeOK'
  BY <1>2 DEF ReadRound, chainVars, Inv, TypeOK
<1>4. Anchored'
  BY <1>1, <1>2 DEF ReadRound, chainVars, Anchored
<1>5. Named'
  BY DEF ReadRound, chainVars, Inv, Progress, Named, AsksFor
<1>6. Progress'
  BY <1>4, <1>5 DEF ReadRound, Progress
<1> QED
  BY <1>3, <1>6 DEF Inv

LEMMA FindStartKeeps == ASSUME Inv, FindStart PROVE Inv'
<1>1. ChainOK /\ Anchored
  BY TypeIsChainOK DEF FindStart, Inv, Progress
<1>2. PICK a \in Edges(chain, tip) : startBoundary' = EdgeAt(chain, a) /\ chain[a] = since
  BY <1>1, StartFound DEF FindStart, Anchored
<1>3. startBoundary' \in BoundaryType
  BY <1>1, <1>2, EdgesAre, EdgeIsABoundary DEF ChainOK
<1>4. TypeOK'
  BY <1>3 DEF FindStart, chainVars, Inv, TypeOK
<1>5. Anchored' /\ StartOK' /\ Named'
  BY <1>1, <1>2 DEF FindStart, chainVars, Anchored, StartOK, Inv, Progress, Named, AsksFor
<1>6. Progress'
  BY <1>5 DEF FindStart, Progress
<1> QED
  BY <1>4, <1>6 DEF Inv

LEMMA FindEndKeeps == ASSUME Inv, FindEnd PROVE Inv'
<1>1. ChainOK /\ Anchored /\ StartOK
  BY TypeIsChainOK DEF FindEnd, Inv, Progress
<1>2. PICK a \in Edges(chain, tip) : startBoundary = EdgeAt(chain, a) /\ chain[a] = since
  BY <1>1 DEF StartOK
<1>3. endBoundary' \in Found(Until[chain[a]])
  BY <1>1, <1>2 DEF FindEnd, Anchored
<1>4. PICK e \in Edges(chain, tip) : /\ endBoundary' = EdgeAt(chain, e)
                                     /\ a < e /\ chain[e - 1] = chain[a]
  BY <1>1, <1>3, EndFound
<1>5. startBoundary.AfterBlock = a
  BY <1>2 DEF EdgeAt, BoundaryRec
<1>6. endBoundary' \in BoundaryType
  BY <1>1, <1>4, EdgesAre, EdgeIsABoundary DEF ChainOK
<1>7. TypeOK'
  BY <1>6 DEF FindEnd, chainVars, Inv, TypeOK
<1>8. Anchored' /\ StartOK' /\ EndOK' /\ Named'
  BY <1>1, <1>2, <1>4, <1>5
     DEF FindEnd, chainVars, Anchored, StartOK, EndOK, Inv, Progress, Named, AsksFor
<1>9. Progress'
  BY <1>8 DEF FindEnd, Progress
<1> QED
  BY <1>7, <1>9 DEF Inv

LEMMA ComputeKeeps == ASSUME Inv, Compute PROVE Inv'
<1>1. /\ UNCHANGED <<chain, tip, skew, query, anchor, since, until, startBoundary,
                     endBoundary, cause>>
      /\ answer' = Output /\ pc = "data" /\ pc' = "answered"
  BY DEF Compute, chainVars
<1>2. TypeOK'
  BY <1>1 DEF Inv, TypeOK
<1>3. Output' = Output
  BY <1>1 DEF Output, electionID, nextID, currentPinned, nextRoundPinned, BonusesAt
<1>4. Anchored' /\ StartOK' /\ EndOK' /\ Named'
  BY <1>1 DEF Inv, Progress, Anchored, StartOK, EndOK, Named, AsksFor
<1>5. Progress'
  BY <1>1, <1>3, <1>4 DEF Progress
<1> QED
  BY <1>2, <1>5 DEF Inv

LEMMA NextPreserves == ASSUME Inv, [Next]_vars PROVE Inv'
<1>1. CASE NewBlock
  BY <1>1, NewBlockKeeps
<1>2. CASE Serve
  BY <1>2, AcceptKeeps, FailKeeps, ResolveKeeps, ReadRoundKeeps, FindStartKeeps,
     FindEndKeeps, ComputeKeeps DEF Serve
<1>3. CASE UNCHANGED vars
  <2>1. Output' = Output
    BY <1>3 DEF vars, Output, electionID, nextID, currentPinned, nextRoundPinned, BonusesAt
  <2>2. TypeOK'
    BY <1>3 DEF vars, Inv, TypeOK
  <2>3. Progress'
    BY <1>3, <2>1 DEF vars, Inv, Progress, Anchored, StartOK, EndOK, Named, AsksFor
  <2> QED
    BY <2>2, <2>3 DEF Inv
<1> QED
  BY <1>1, <1>2, <1>3 DEF Next

-------------------------------------------------------------------------------
(* The theorems *)

\* In every state of a request the anchor, the schedule and the boundaries it has
\* found are those of one round.
THEOREM Invariance == Spec => []Inv
  BY InitEstablishes, NextPreserves, PTL DEF Spec

\* A request keeps its types: its anchor is a block there is, its schedule one of an
\* election.
THEOREM RequestTypeCorrect == Spec => []TypeOK
<1>1. Inv => TypeOK
  BY DEF Inv
<1> QED
  BY <1>1, Invariance, PTL

\* What an answer is made of: the two boundaries of the anchor's round.
LEMMA AnsweredRound ==
    ASSUME Inv, pc = "answered"
    PROVE  \E a, e \in Edges(chain, tip) :
              /\ a < e /\ chain[a] = chain[anchor] /\ chain[e - 1] = chain[a]
              /\ startBoundary = EdgeAt(chain, a) /\ endBoundary = EdgeAt(chain, e)
              /\ since = chain[anchor] /\ until = Until[chain[anchor]]
              /\ answer = Output
<1>1. Anchored /\ StartOK /\ EndOK /\ answer = Output
  BY DEF Inv, Progress
<1>2. PICK a \in Edges(chain, tip) : startBoundary = EdgeAt(chain, a) /\ chain[a] = since
  BY <1>1 DEF StartOK
<1>3. startBoundary.AfterBlock = a
  BY <1>2 DEF EdgeAt, BoundaryRec
<1> QED
  BY <1>1, <1>2, <1>3 DEF Anchored, EndOK

LEMMA AnswerIs ==
    ASSUME NEW a, NEW e, startBoundary = EdgeAt(chain, a), endBoundary = EdgeAt(chain, e)
    PROVE  Output = [ElectionID     |-> chain[a],
                     RoundStart     |-> since,
                     RoundEnd       |-> until,
                     StartBlock     |-> a,
                     EndBlock       |-> e - 1,
                     PrevElectionID |-> chain[a - 1],
                     NextElectionID |-> chain[e],
                     ValidatorsOf   |-> chain[e - 1],
                     TotalBonuses   |-> BonusesAt(chain[a], e)]
  BY DEF Output, electionID, nextID, currentPinned, nextRoundPinned, EdgeAt, BoundaryRec

\* FetchRoundRewards answers for all blocks of the round, whatever searches found
\* it and however far the chain had come.
THEOREM AnswerIsWholeThm == Spec => []AnswerIsWhole
<1>1. ASSUME Inv, pc = "answered"
      PROVE  {b \in 0 .. MaxSeqno : chain[b] = answer.ElectionID} =
                answer.StartBlock .. answer.EndBlock
  <2>1. PICK a \in Edges(chain, tip), e \in Edges(chain, tip) :
          /\ a < e /\ chain[e - 1] = chain[a]
          /\ startBoundary = EdgeAt(chain, a) /\ endBoundary = EdgeAt(chain, e)
          /\ answer = Output
    BY <1>1, AnsweredRound
  <2>2. chain \in Chains /\ tip \in 0 .. MaxSeqno
    BY <1>1 DEF Inv, TypeOK
  <2>3. a \in Edges(chain, MaxSeqno) /\ e \in Edges(chain, MaxSeqno)
    BY <2>2, EdgesAre
  <2>4. {b \in 0 .. MaxSeqno : chain[b] = chain[a]} = a .. e - 1
    BY <2>1, <2>2, <2>3, RoundIsInterval
  <2>5. /\ answer.ElectionID = chain[a]
        /\ answer.StartBlock = a /\ answer.EndBlock = e - 1
    BY <2>1, AnswerIs
  <2> QED
    BY <2>4, <2>5
<1>2. Inv => AnswerIsWhole
  BY <1>1 DEF AnswerIsWhole
<1> QED
  BY <1>2, Invariance, PTL

\* The first block of the round after the answer's is the one past its last.
LEMMA NextStartsThere ==
    ASSUME NEW c \in Chains, NEW a \in Edges(c, MaxSeqno), NEW e \in Edges(c, MaxSeqno),
           a < e, c[e - 1] = c[a], NEW x \in Edges(c, MaxSeqno), c[x - 1] = c[a]
    PROVE  x = e
<1>1. {k \in 0 .. MaxSeqno : c[k] = c[a]} = a .. e - 1
  BY RoundIsInterval
<1>2. /\ x \in 1 .. MaxSeqno /\ x - 1 \in 0 .. MaxSeqno /\ x \in 0 .. MaxSeqno
      /\ c[x] # c[a] /\ a \in Int /\ e \in Int /\ x \in Int
  BY MaxSeqnoAssumption DEF Edges
<1>3. x - 1 \in a .. e - 1 /\ x \notin a .. e - 1
  BY <1>1, <1>2
<1> QED
  BY <1>2, <1>3

\* Everything in an answer is of the anchor's round, and the bonuses are those of all
\* its blocks; a round named by its id is the anchor's or the one after.
THEOREM AnswerIsOneRoundThm == Spec => []AnswerIsOneRound
<1>1. ASSUME Inv, pc = "answered" PROVE AnswerIsOneRound
  <2>1. PICK a \in Edges(chain, tip), e \in Edges(chain, tip) :
          /\ a < e /\ chain[a] = chain[anchor] /\ chain[e - 1] = chain[a]
          /\ startBoundary = EdgeAt(chain, a) /\ endBoundary = EdgeAt(chain, e)
          /\ since = chain[anchor] /\ until = Until[chain[anchor]]
          /\ answer = Output
    BY <1>1, AnsweredRound
  <2>2. chain \in Chains /\ tip \in 0 .. MaxSeqno
    BY <1>1 DEF Inv, TypeOK
  <2>3. a \in Edges(chain, MaxSeqno) /\ e \in Edges(chain, MaxSeqno) /\ e \in 1 .. MaxSeqno
    BY <2>2, EdgesAre
  <2>4. {b \in 0 .. MaxSeqno : chain[b] = chain[a]} = a .. e - 1
    BY <2>1, <2>2, <2>3, RoundIsInterval
  <2>5. {k \in 0 .. e : chain[k] = chain[a]} = {k \in 0 .. MaxSeqno : chain[k] = chain[a]}
    <3>1. 0 .. e \subseteq 0 .. MaxSeqno /\ a .. e - 1 \subseteq 0 .. e
      BY <2>3, MaxSeqnoAssumption, EdgesAre, <2>2
    <3> QED
      BY <2>4, <3>1
  <2>6. BonusesAt(chain[a], e) = BonusesAt(chain[a], MaxSeqno)
    BY <2>5 DEF BonusesAt
  <2>7. /\ answer.ElectionID = chain[a] /\ answer.RoundStart = since
        /\ answer.RoundEnd = until /\ answer.ValidatorsOf = chain[e - 1]
        /\ answer.TotalBonuses = BonusesAt(chain[a], e)
        /\ answer.NextElectionID = chain[e]
    BY <2>1, AnswerIs
  <2>8. ASSUME NEW b \in 0 .. MaxSeqno, AsksFor(chain[b])
        PROVE  chain[b] \in {chain[a], chain[e]}
    <3>1. CASE chain[anchor] = chain[b]
      BY <2>1, <3>1
    <3>2. CASE \E x \in Edges(chain, MaxSeqno) : /\ chain[x] = chain[b]
                                               /\ chain[x - 1] = chain[anchor]
      BY <2>1, <2>2, <2>3, <3>2, NextStartsThere
    <3> QED
      BY <1>1, <2>8, <3>1, <3>2 DEF Inv, Progress, Named
  <2> QED
    BY <2>1, <2>6, <2>7, <2>8 DEF AnswerIsOneRound
<1>2. Inv => AnswerIsOneRound
  BY <1>1 DEF AnswerIsOneRound
<1> QED
  BY <1>2, Invariance, PTL

\* The neighbours named in an answer are the elections of the blocks beside it.
THEOREM NeighboursAreAdjacentThm == Spec => []NeighboursAreAdjacent
<1>1. ASSUME Inv, pc = "answered" PROVE NeighboursAreAdjacent
  <2>1. PICK a \in Edges(chain, tip), e \in Edges(chain, tip) :
          /\ startBoundary = EdgeAt(chain, a) /\ endBoundary = EdgeAt(chain, e)
          /\ answer = Output
    BY <1>1, AnsweredRound
  <2>2. e \in Int /\ e - 1 + 1 = e
    BY MaxSeqnoAssumption DEF Edges
  <2>3. /\ answer.PrevElectionID = chain[a - 1] /\ answer.NextElectionID = chain[e]
        /\ answer.StartBlock = a /\ answer.EndBlock = e - 1
    BY <2>1, AnswerIs
  <2> QED
    BY <2>2, <2>3 DEF NeighboursAreAdjacent
<1>2. Inv => NeighboursAreAdjacent
  BY <1>1 DEF NeighboursAreAdjacent
<1> QED
  BY <1>2, Invariance, PTL

\* What ends the search at a round's end without a boundary, if no call fails.
LEMMA EndNotFound ==
    ASSUME ChainOK, NEW e \in Edges(chain, tip), until = Until[chain[e - 1]],
           NothingNear(until)
    PROVE  StartsLate(until, e)
<1> DEFINE M == MaxBoundarySearch
<1>1. /\ chain \in Chains /\ tip \in 0 .. MaxSeqno /\ e \in Edges(chain, MaxSeqno)
      /\ e \in 1 .. tip /\ e \in 0 .. MaxSeqno /\ e - 1 \in 0 .. MaxSeqno /\ e \in Int
      /\ M \in Nat \ {0}
  BY EdgesAre, MaxSeqnoAssumption, MaxBoundarySearchAssumption DEF ChainOK
<1>2. until \in Nat /\ Utime[e] \in Nat /\ chain[e] \in Nat
  BY <1>1, UntilAssumption, ElectionsAreNat, TimesRise
<1>3. PICK s \in BlocksAt(until) : Edges(chain, tip) \cap SearchRange(s) = {}
  BY DEF NothingNear
<1>4. until <= Utime[e]
  <2>1. until <= chain[e] /\ chain[e] <= Utime[e]
    BY <1>1, RotationAssumption
  <2> QED
    BY <1>2, <2>1
<1>5. s \in 0 .. tip /\ s <= e /\ s \in Int
  BY <1>1, <1>2, <1>4, NotAfter
<1>6. e > s + M
  <2>1. e \notin SearchRange(s)
    BY <1>3
  <2> QED
    BY <1>1, <1>5, <2>1 DEF SearchRange
<1>7. PICK b \in AtOrAfter(until) : TRUE
  BY <1>3 DEF BlocksAt
<1>8. b \in 0 .. tip /\ b \in Int /\ b \in 0 .. MaxSeqno
  BY <1>1, <1>7, MaxSeqnoAssumption DEF AtOrAfter
<1>9. b <= s + 1
  <2> SUFFICES ASSUME b > s + 1 PROVE FALSE
    BY <1>5, <1>8
  <2>1. b - 1 \in 0 .. MaxSeqno /\ Utime[b - 1] < until
    BY <1>1, <1>5, <1>7, <1>8, MaxSeqnoAssumption DEF AtOrAfter
  <2>2. s >= b - 1
    BY <1>2, <2>1, NotBefore
  <2> QED
    BY <1>5, <1>8, <2>2
<1>10. e >= b + M
  BY <1>1, <1>5, <1>6, <1>8, <1>9
<1> QED
  BY <1>7, <1>10 DEF StartsLate

\* With every call going through, a finished round is refused only where the chain
\* holds no end of it within a search.
THEOREM RefusedForAReasonThm == Spec => RefusedForAReason
<1>1. ASSUME Inv, [Next]_vars, cause' = "no boundary", cause = "none"
      PROVE  \/ chain[anchor] = chain[0]
             \/ \A e \in Edges(chain, tip) : chain[e - 1] # chain[anchor]
             \/ \E e \in Edges(chain, tip) : /\ chain[e - 1] = chain[anchor]
                                             /\ StartsLate(until, e)
  <2>1. ChainOK
    BY <1>1, TypeIsChainOK DEF Inv
  <2>2. NoStart \/ NoEnd
    BY <1>1 DEF Next, NewBlock, requestVars, Serve, Accept, Reject, RPCFails, ResolveAnchor,
                ReadRound, NotFinished, FindStart, FindEnd, Compute, FailWith, vars
  <2>3. Anchored
    BY <1>1, <2>2 DEF NoStart, NoEnd, Inv, Progress
  <2>4. CASE NoStart
    BY <2>1, <2>3, <2>4, StartIsFound DEF NoStart, Anchored
  <2>5. CASE NoEnd
    BY <2>1, <2>3, <2>5, EndNotFound DEF NoEnd, Anchored
  <2> QED
    BY <2>2, <2>4, <2>5
<1>2. Inv /\ [Next]_vars =>
        [cause' = "no boundary" /\ cause = "none" =>
            \/ chain[anchor] = chain[0]
            \/ \A e \in Edges(chain, tip) : chain[e - 1] # chain[anchor]
            \/ \E e \in Edges(chain, tip) : chain[e - 1] = chain[anchor]
                                            /\ StartsLate(until, e)]_vars
  BY <1>1
<1> QED
  BY <1>2, Invariance, PTL DEF Spec, RefusedForAReason
=============================================================================
