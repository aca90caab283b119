------------------------ MODULE ElectionBoundary_proofs ------------------------
(* What findElectionBoundary guarantees for every chain, every tip and every
   search limit: TypeOK, FoundIsBoundary, FoundIsNear, NearestWhenReliable and
   NotFoundIsTrue are invariants, and the search implements BoundaryPromise.

   The inductive invariant says what the loop has read so far: every block
   from bwd to fwd is of the election eid (Window), and how far apart bwd and
   fwd are after i rounds (Reach).

   The last two sections say what the request handlers may take for the outcome
   of a search near a time, which alone needs block times (TimedChain_proofs),
   and how many steps a search makes.                                        *)
EXTENDS ElectionBoundary, TimedChain_proofs

Walked == {"forward", "backward", "found", "notFound"}

\* Nothing is known before the time resolves; afterwards the loop has read
\* bwd .. fwd, around start, and found one election there.
Window ==
    /\ pc = "resolve" => start = Unresolved /\ boundary = NoBoundary /\ i = 0
    /\ pc \in Walked =>
          /\ start \in 0 .. tip /\ bwd \in 0 .. start /\ fwd \in start .. tip
          /\ \A b \in bwd .. fwd : chain[b] = eid

\* Steps forward the loop has tried.  The forward step comes first in a round.
ForwardTries ==
    IF pc = "backward" \/ (pc = "found" /\ boundary.AfterBlock = bwd)
    THEN i + 1 ELSE i

\* How far the walk has come: never more than one block a try, exactly one a
\* try while nothing is missed.
Reach ==
    /\ pc \in Walked =>
          /\ fwd <= start + ForwardTries
          /\ "forward" \notin missed => fwd = start + ForwardTries
          /\ bwd >= start - i
          /\ "backward" \notin missed => bwd = start - i \/ bwd = 0
    /\ pc \in {"forward", "backward", "found"} => i < MaxBoundarySearch
    /\ pc = "notFound" => i = MaxBoundarySearch

\* The boundary found is at one end of the window.
AtAnEnd ==
    pc = "found" =>
        \/ fwd + 1 \in Edges(chain, tip) /\ boundary = EdgeAt(chain, fwd + 1)
        \/ bwd \in Edges(chain, tip) /\ boundary = EdgeAt(chain, bwd)

IInv == TypeOK /\ Window /\ Reach /\ AtAnEnd

USE MaxSeqnoAssumption, MaxBoundarySearchAssumption

-------------------------------------------------------------------------------
\* A search that has not resolved its time knows nothing: IInv holds at first.
LEMMA InitIInv == Init => IInv
  BY SMT DEF Init, ChainInit, IInv, TypeOK, Window, Reach, AtAnEnd, Walked,
     Finished, NoBoundary, BoundaryRec, Unresolved

\* A growing chain disturbs no search: it only adds blocks beyond the window.
LEMMA NewBlockIInv == IInv /\ NewBlock => IInv'
  BY SMT DEF NewBlock, Grow, IInv, TypeOK, Window, Reach, ForwardTries, AtAnEnd,
     Walked, Finished, Edges, EdgeAt, BoundaryRec, Unresolved

\* Every produced block has an election id, and election ids are numbers.
LEMMA ChainIds == TypeOK => \A b \in 0 .. tip : chain[b] \in ElectionIDs /\ chain[b] \in Int
<1> SUFFICES ASSUME TypeOK, NEW b \in 0 .. tip
             PROVE  chain[b] \in ElectionIDs /\ chain[b] \in Int
    OBVIOUS
<1>1. chain \in [0 .. MaxSeqno -> ElectionIDs]
    BY ChainsAssumption DEF TypeOK
<1>2. b \in 0 .. MaxSeqno
    BY SMT DEF TypeOK
<1>3. chain[b] \in ElectionIDs
    BY <1>1, <1>2
<1>4. \A id \in ElectionIDs : id \in Int
    BY ElectionIDsAssumption
<1> QED
    BY <1>3, <1>4, Zenon

\* Resolving the time opens a window of one block.
LEMMA ResolveIInv == IInv /\ Resolve => IInv'
<1> SUFFICES ASSUME IInv, Resolve PROVE IInv'
    OBVIOUS
<1>1. PICK s \in 0 .. tip : start' = s /\ fwd' = s /\ bwd' = s /\ eid' = chain[s]
    BY DEF Resolve
<1>2. /\ pc = "resolve" /\ pc' = "forward" /\ i' = i /\ missed' = missed
      /\ chain' = chain /\ tip' = tip /\ boundary' = boundary
    BY DEF Resolve, chainVars
<1>3. s \in Int /\ s >= 0 /\ s <= tip /\ chain[s] \in ElectionIDs
    BY <1>1, ChainIds, SMT DEF IInv, TypeOK
<1>4. TypeOK'
    BY <1>1, <1>2, <1>3, SMT DEF IInv, TypeOK
<1>5. Window' /\ AtAnEnd'
    BY <1>1, <1>2, <1>3, SMT DEF Window, AtAnEnd, Walked
<1>6. Reach'
    BY <1>1, <1>2, <1>3, SMT DEF IInv, TypeOK, Window, Reach, ForwardTries, Walked
<1> QED
    BY <1>4, <1>5, <1>6 DEF IInv

\* Errors end the search and promise nothing.
LEMMA AbortIInv == IInv /\ Abort => IInv'
  BY SMT DEF Abort, chainVars, IInv, TypeOK, Window, Reach, AtAnEnd,
     Walked, Finished, Unresolved

\* Finding the boundary at the forward end of the window.
LEMMA ForwardDiffersIInv == IInv /\ ForwardDiffers => IInv'
<1> SUFFICES ASSUME IInv, ForwardDiffers PROVE IInv'
    OBVIOUS
<1>1. /\ pc = "forward" /\ pc' = "found"
      /\ UNCHANGED <<chain, tip, start, eid, fwd, bwd, i, missed>>
    BY DEF ForwardDiffers, ForwardHits, chainVars
<1>2. /\ fwd + 1 \in 1 .. tip /\ (fwd + 1) - 1 = fwd /\ bwd <= fwd
      /\ fwd \in Int /\ bwd \in Int /\ chain[fwd] = eid
    BY <1>1, SMT DEF ForwardDiffers, ForwardHits, Known, IInv, TypeOK, Window, Walked,
       Unresolved
<1>3. chain[fwd] \in Int /\ chain[fwd + 1] \in Int
    BY <1>2, ChainIds, SMT DEF IInv, TypeOK
<1>4. boundary' = EdgeAt(chain, fwd + 1) /\ fwd + 1 \in Edges(chain, tip)
    BY <1>2, SMT DEF ForwardDiffers, Edges, EdgeAt
<1>5. /\ boundary'.AfterBlock = fwd + 1
      /\ boundary' \in [BeforeBlock : Int, BeforeElectionID : Int,
                        AfterBlock : Int, AfterElectionID : Int]
    BY <1>2, <1>3, <1>4, SMT DEF EdgeAt, BoundaryRec
<1>6. TypeOK'
    BY <1>1, <1>5 DEF IInv, TypeOK, Finished
<1>7. Window'
    BY <1>1 DEF IInv, Window, Walked
<1>8. Reach'
    BY <1>1, <1>2, <1>5, SMT DEF IInv, Reach, ForwardTries, Walked
<1>9. AtAnEnd'
    BY <1>1, <1>4 DEF AtAnEnd
<1> QED
    BY <1>6, <1>7, <1>8, <1>9 DEF IInv

\* A forward step that misses, extends the window, or finds its end.
LEMMA ForwardIInv == IInv /\ Forward => IInv'
<1> SUFFICES ASSUME IInv, Forward PROVE IInv'
    OBVIOUS
<1> USE DEF IInv, TypeOK, Window, Reach, ForwardTries, AtAnEnd, Walked, Finished,
            chainVars, Unresolved
<1>1. CASE ForwardMisses
    BY <1>1, SMT DEF ForwardMisses
<1>2. CASE ForwardConfigFails
    BY <1>2, AbortIInv DEF ForwardConfigFails
<1>3. CASE ForwardSame
    BY <1>3, SMT DEF ForwardSame, ForwardHits, Known
<1>4. CASE ForwardDiffers
    BY <1>4, ForwardDiffersIInv
<1> QED
    BY <1>1, <1>2, <1>3, <1>4 DEF Forward

\* Finding the boundary at the backward end of the window.
LEMMA BackwardDiffersIInv == IInv /\ BackwardDiffers => IInv'
<1> SUFFICES ASSUME IInv, BackwardDiffers PROVE IInv'
    OBVIOUS
<1>1. /\ pc = "backward" /\ pc' = "found"
      /\ UNCHANGED <<chain, tip, start, eid, fwd, bwd, i, missed>>
    BY DEF BackwardDiffers, BackwardHits, chainVars
<1>2. bwd \in 1 .. tip /\ bwd \in Int /\ chain[bwd] = eid
    BY <1>1, SMT DEF BackwardDiffers, BackwardHits, IInv, TypeOK, Window, Walked,
       Unresolved
<1>3. chain[bwd] \in Int /\ chain[bwd - 1] \in Int
    BY <1>2, ChainIds, SMT DEF IInv, TypeOK
<1>4. boundary' = EdgeAt(chain, bwd) /\ bwd \in Edges(chain, tip)
    BY <1>2, SMT DEF BackwardDiffers, Edges, EdgeAt
<1>5. /\ boundary'.AfterBlock = bwd
      /\ boundary' \in [BeforeBlock : Int, BeforeElectionID : Int,
                        AfterBlock : Int, AfterElectionID : Int]
    BY <1>2, <1>3, <1>4, SMT DEF EdgeAt, BoundaryRec
<1>6. TypeOK'
    BY <1>1, <1>5 DEF IInv, TypeOK, Finished
<1>7. Window'
    BY <1>1 DEF IInv, Window, Walked
<1>8. Reach'
    BY <1>1, <1>5, SMT DEF IInv, Reach, ForwardTries, Walked
<1>9. AtAnEnd'
    BY <1>1, <1>4 DEF AtAnEnd
<1> QED
    BY <1>6, <1>7, <1>8, <1>9 DEF IInv

\* A backward step likewise; each one but the last two also ends a round.
LEMMA BackwardIInv == IInv /\ Backward => IInv'
<1> SUFFICES ASSUME IInv, Backward PROVE IInv'
    OBVIOUS
<1> USE DEF IInv, TypeOK, Window, Reach, ForwardTries, AtAnEnd, Walked, Finished,
            chainVars, Unresolved
<1>1. CASE BackwardAtGenesis
    BY <1>1, SMT DEF BackwardAtGenesis, NextRound
<1>2. CASE BackwardMisses
    BY <1>2, SMT DEF BackwardMisses, BackwardHits, NextRound
<1>3. CASE BackwardConfigFails
    BY <1>3, AbortIInv DEF BackwardConfigFails
<1>4. CASE BackwardSame
    BY <1>4, SMT DEF BackwardSame, BackwardHits, NextRound
<1>5. CASE BackwardDiffers
    BY <1>5, BackwardDiffersIInv
<1> QED
    BY <1>1, <1>2, <1>3, <1>4, <1>5 DEF Backward

LEMMA StepIInv == IInv /\ [Next]_vars => IInv'
<1> SUFFICES ASSUME IInv, [Next]_vars PROVE IInv'
    OBVIOUS
<1>1. CASE NewBlock
    BY <1>1, NewBlockIInv
<1>2. CASE Resolve
    BY <1>2, ResolveIInv
<1>3. CASE ResolveFails
    BY <1>3, AbortIInv DEF ResolveFails
<1>4. CASE Forward
    BY <1>4, ForwardIInv
<1>5. CASE Backward
    BY <1>5, BackwardIInv
<1>6. CASE UNCHANGED vars
    BY <1>6 DEF vars, IInv, TypeOK, Window, Reach, ForwardTries, AtAnEnd, Edges, EdgeAt
<1> QED
    BY <1>1, <1>2, <1>3, <1>4, <1>5, <1>6 DEF Next, Search

\* The inductive invariant holds in every state of every search.
THEOREM Inductive == Spec => []IInv
  BY InitIInv, StepIInv, PTL DEF Spec

-------------------------------------------------------------------------------
\* Type correctness of the search, whatever the chain and the search limit.
THEOREM TypeCorrect == Spec => []TypeOK
  BY Inductive, PTL DEF IInv

\* What the inductive invariant says of an answer.
LEMMA FoundFacts == IInv => FoundIsBoundary /\ FoundIsNear
<1>1. IInv => FoundIsBoundary
    BY SMT DEF IInv, AtAnEnd, FoundIsBoundary, EdgeAt, BoundaryRec
<1>2. IInv => FoundIsNear
  <2> SUFFICES ASSUME IInv, pc = "found" PROVE boundary.AfterBlock \in SearchRange(start)
      BY DEF FoundIsNear
  <2>1. boundary.AfterBlock = fwd + 1 \/ boundary.AfterBlock = bwd
      BY SMT DEF IInv, AtAnEnd, EdgeAt, BoundaryRec
  <2> QED
      BY <2>1, SMT DEF IInv, TypeOK, Window, Reach, ForwardTries, Walked, SearchRange,
         Unresolved
<1> QED
    BY <1>1, <1>2

\* An answer is a boundary of the chain: two adjacent blocks, their ids differ.
THEOREM FoundIsBoundaryThm == Spec => []FoundIsBoundary
  BY FoundFacts, Inductive, PTL

\* An answer lies within MaxBoundarySearch blocks of the resolved block.
THEOREM FoundIsNearThm == Spec => []FoundIsNear
  BY FoundFacts, Inductive, PTL

\* No block of the window is the later block of an edge, except its first.
LEMMA NoEdgeInside ==
    ASSUME IInv, pc \in Walked
    PROVE  \A a \in Edges(chain, tip) : a <= bwd \/ a >= fwd + 1
  BY SMT DEF IInv, TypeOK, Window, Edges, Unresolved

\* With no lookup missed, the answer is the nearest boundary the chain has.
THEOREM NearestWhenReliableThm == Spec => []NearestWhenReliable
<1>1. IInv => NearestWhenReliable
  <2> SUFFICES ASSUME IInv, pc = "found", missed = {}, NEW a \in Edges(chain, tip)
               PROVE  SearchRank(boundary.AfterBlock) <= SearchRank(a)
      BY DEF NearestWhenReliable
  <2>1. a <= bwd \/ a >= fwd + 1
      BY NoEdgeInside DEF Walked
  <2>2. a \in Int /\ a >= 1
      BY SMT DEF Edges
  <2>3. /\ start \in Int /\ i \in Int /\ fwd \in Int /\ bwd \in Int
        /\ bwd <= start /\ start <= fwd
        /\ fwd = start + ForwardTries
        /\ bwd = start - i \/ bwd = 0
      BY SMT DEF IInv, TypeOK, Window, Reach, Walked
  <2>4. CASE boundary.AfterBlock = fwd + 1
      BY <2>1, <2>2, <2>3, <2>4, SMT DEF ForwardTries, SearchRank
  <2>5. CASE boundary.AfterBlock = bwd /\ bwd >= 1
      BY <2>1, <2>2, <2>3, <2>5, SMT DEF ForwardTries, SearchRank
  <2> QED
      BY <2>4, <2>5, SMT DEF IInv, AtAnEnd, Edges, EdgeAt, BoundaryRec
<1> QED
    BY <1>1, Inductive, PTL

\* A not-found error is true of every direction in which no lookup missed.
THEOREM NotFoundIsTrueThm == Spec => []NotFoundIsTrue
<1>1. IInv => NotFoundIsTrue
  <2> SUFFICES ASSUME IInv, pc = "notFound", NEW a \in Edges(chain, tip)
      PROVE /\ "forward" \notin missed =>
                    a \notin (start + 1) .. (start + MaxBoundarySearch)
            /\ "backward" \notin missed =>
                    a \notin (start - MaxBoundarySearch + 1) .. start
      BY DEF NotFoundIsTrue
  <2>1. a <= bwd \/ a >= fwd + 1
      BY NoEdgeInside DEF Walked
  <2>2. a \in Int /\ a >= 1
      BY SMT DEF Edges
  <2> QED
      BY <2>1, <2>2, SMT DEF IInv, TypeOK, Window, Reach, ForwardTries, Walked
<1> QED
    BY <1>1, Inductive, PTL

-------------------------------------------------------------------------------
\* The search implements what its callers rely on: each of its steps is one of
\* BoundaryPromise's, or invisible to the caller.
THEOREM Refinement == Spec => ImplementsPromise
<1>1. Init => Promise!PromiseInit
    BY DEF Init, Promise!PromiseInit, ChainInit, Promise!ChainInit, promiseStatus, Unresolved,
       Promise!Unresolved, NoBoundary, Promise!NoBoundary, BoundaryRec, Promise!BoundaryRec
<1>2. IInv' => (FoundIsBoundary /\ FoundIsNear)'
    BY FoundFacts, PTL
<1>3. IInv /\ [Next]_vars => [Promise!PromiseNext]_(Promise!promiseVars)
  <2> SUFFICES ASSUME IInv, [Next]_vars
               PROVE  Promise!PromiseNext \/ UNCHANGED Promise!promiseVars
      OBVIOUS
  <2> USE DEF Promise!promiseVars, chainVars, promiseStatus
  <2>1. CASE NewBlock
      BY <2>1 DEF NewBlock, Grow, Promise!PromiseNext, Promise!Produce, Promise!Grow
  <2>2. CASE Resolve
      BY <2>2, SMT DEF Resolve, Promise!PromiseNext, Promise!Locate
  <2>3. CASE Abort /\ pc \in {"resolve", "forward", "backward"}
      BY <2>3, SMT DEF Abort, Promise!PromiseNext, Promise!Fail
  <2>4. CASE ForwardMisses \/ ForwardSame
      BY <2>4, SMT DEF ForwardMisses, ForwardSame, ForwardHits
  <2>5. CASE ForwardDiffers \/ BackwardDiffers
    <3>1. IInv' /\ pc' = "found" /\ chain' = chain /\ tip' = tip /\ start' = start
        BY <2>5, StepIInv, ForwardIInv, BackwardIInv
           DEF ForwardDiffers, BackwardDiffers, Forward, Backward
    <3>2. FoundIsBoundary' /\ FoundIsNear'
        BY <3>1, <1>2
    <3>3. boundary' = EdgeAt(chain, boundary'.AfterBlock)
          /\ boundary'.AfterBlock \in Edges(chain, tip) \cap SearchRange(start)
        BY <3>1, <3>2 DEF FoundIsBoundary, FoundIsNear
    <3>4. promiseStatus = "searching" /\ promiseStatus' = "found"
        BY <2>5, <3>1 DEF ForwardDiffers, BackwardDiffers, ForwardHits, BackwardHits
    <3> QED
        BY <2>5, <3>1, <3>3, <3>4
           DEF Promise!PromiseNext, Promise!Answer, Edges, Promise!Edges, EdgeAt,
               Promise!EdgeAt, BoundaryRec, Promise!BoundaryRec, SearchRange,
               Promise!SearchRange
  <2>6. CASE BackwardAtGenesis \/ BackwardMisses \/ BackwardSame
      BY <2>6, SMT DEF BackwardAtGenesis, BackwardMisses, BackwardSame, BackwardHits,
         NextRound, Promise!PromiseNext, Promise!Fail
  <2>7. CASE UNCHANGED vars
      BY <2>7 DEF vars
  <2> QED
      BY <2>1, <2>2, <2>3, <2>4, <2>5, <2>6, <2>7 DEF Next, Search, ResolveFails,
         Forward, Backward, ForwardConfigFails, BackwardConfigFails, ForwardHits,
         BackwardHits
<1> QED
    BY <1>1, <1>3, Inductive, PTL DEF Spec, ImplementsPromise, Promise!PromiseSpec

-------------------------------------------------------------------------------
(* The search as the request handlers use it *)

\* A search near time t: it starts from a block that a look-up by time may give.
SpecNear(t) == Spec /\ [][Resolve => start' \in BlocksAt(t)]_vars

\* What RoundRewards and ValidationRounds take for the outcome of such a search.
OutcomeNear(t) == /\ pc = "found" => boundary \in Found(t)
                  /\ pc = "notFound" /\ missed = {} => NothingNear(t)

\* The block a time resolved to stays one that it resolves to.
LEMMA StartStaysNear ==
    ASSUME NEW t \in Nat, IInv, [Next]_vars, Resolve => start' \in BlocksAt(t),
           pc \in Walked => start \in BlocksAt(t)
    PROVE  (pc \in Walked => start \in BlocksAt(t))'
<1>1. ChainOK
    BY DEF IInv, TypeOK, ChainOK
<1>2. CASE NewBlock
  <2>1. BlocksAt(t) \subseteq BlocksAt(t)'
      BY <1>1, <1>2, BlocksAtGrow DEF NewBlock
  <2> QED
      BY <1>2, <2>1 DEF NewBlock
<1>3. BlocksAt(t)' = BlocksAt(t) \/ NewBlock
    BY DEF Next, Search, Resolve, ResolveFails, Abort, Forward, Backward, ForwardMisses,
       ForwardConfigFails, ForwardSame, ForwardDiffers, BackwardAtGenesis, BackwardMisses,
       BackwardConfigFails, BackwardSame, BackwardDiffers, chainVars, vars, BlocksAt,
       AtOrAfter, AtOrBefore
<1>4. CASE Resolve
    BY <1>3, <1>4, <1>2
<1>5. CASE Abort
    BY <1>5 DEF Abort, Walked
<1>6. CASE Forward \/ Backward
  <2>1. pc \in Walked /\ start' = start
      BY <1>6 DEF Forward, Backward, ForwardMisses, ForwardConfigFails, ForwardSame,
         ForwardDiffers, BackwardAtGenesis, BackwardMisses, BackwardConfigFails,
         BackwardSame, BackwardDiffers, ForwardHits, BackwardHits, Abort, Walked
  <2> QED
      BY <1>2, <1>3, <2>1
<1>7. CASE UNCHANGED vars
    BY <1>2, <1>3, <1>7 DEF vars
<1> QED
    BY <1>2, <1>4, <1>5, <1>6, <1>7 DEF Next, Search, ResolveFails

\* A search that starts where its time resolved comes back with what the handlers
\* expect near that time, also while blocks come; and if no look-up failed and it
\* found nothing, then there is nothing near.
THEOREM OutcomeNearThm == ASSUME NEW t \in Nat PROVE SpecNear(t) => []OutcomeNear(t)
<1> DEFINE Near == pc \in Walked => start \in BlocksAt(t)
<1>1. Init => Near
    BY DEF Init, Walked
<1>2. IInv /\ Near /\ [Next]_vars /\ [Resolve => start' \in BlocksAt(t)]_vars => Near'
  <2> SUFFICES ASSUME IInv, Near, [Next]_vars, [Resolve => start' \in BlocksAt(t)]_vars
               PROVE  Near'
      OBVIOUS
  <2>1. CASE Resolve => start' \in BlocksAt(t)
      BY <2>1, StartStaysNear
  <2>2. CASE UNCHANGED vars
      BY <2>2 DEF vars, BlocksAt, AtOrAfter, AtOrBefore
  <2> QED
      BY <2>1, <2>2
<1>3. Near /\ FoundIsBoundary /\ FoundIsNear /\ NotFoundIsTrue /\ IInv => OutcomeNear(t)
  <2> SUFFICES ASSUME Near, FoundIsBoundary, FoundIsNear, NotFoundIsTrue, IInv
               PROVE  OutcomeNear(t)
      OBVIOUS
  <2>1. pc = "found" => boundary \in Found(t)
      BY DEF Walked, FoundIsBoundary, FoundIsNear, Found
  <2>2. ASSUME pc = "notFound", missed = {} PROVE NothingNear(t)
    <3>1. start \in BlocksAt(t) /\ start \in Int
        BY <2>2 DEF Walked, BlocksAt, AtOrAfter, AtOrBefore
    <3>2. \A a \in Edges(chain, tip) : a \notin SearchRange(start)
      <4>1. ASSUME NEW a \in Edges(chain, tip) PROVE a \notin SearchRange(start)
        <5>1. /\ a \notin (start + 1) .. (start + MaxBoundarySearch)
              /\ a \notin (start - MaxBoundarySearch + 1) .. start
            BY <2>2 DEF NotFoundIsTrue
        <5> QED
            BY <3>1, <5>1 DEF SearchRange
      <4> QED
          BY <4>1
    <3> QED
        BY <3>1, <3>2 DEF NothingNear
  <2> QED
      BY <2>1, <2>2 DEF OutcomeNear
<1>4. SpecNear(t) => Spec
    BY DEF SpecNear
<1>5. SpecNear(t) => []IInv
    BY <1>4, Inductive, PTL
<1>6. SpecNear(t) => [](FoundIsBoundary /\ FoundIsNear /\ NotFoundIsTrue)
    BY <1>4, FoundIsBoundaryThm, FoundIsNearThm, NotFoundIsTrueThm, PTL
<1> QED
    BY <1>1, <1>2, <1>3, <1>5, <1>6, PTL DEF SpecNear, Spec

-------------------------------------------------------------------------------
(* The end of the search *)

\* How many steps the search can still make.
StepsLeft == CASE pc = "resolve"  -> 2 * MaxBoundarySearch + 1
               [] pc = "forward"  -> 2 * (MaxBoundarySearch - i)
               [] pc = "backward" -> 2 * (MaxBoundarySearch - i) - 1
               [] OTHER           -> 0

\* The safety half of Terminates: whatever a step of the search meets, a miss and
\* block 0 included, it leaves fewer steps to make, and new blocks do not add any.
\* A search makes at most 2 * maxBoundarySearch + 1.
StepsRunOut == /\ [](StepsLeft \in 0 .. 2 * MaxBoundarySearch + 1)
               /\ [][IF NewBlock THEN StepsLeft' = StepsLeft
                     ELSE StepsLeft' < StepsLeft]_vars

THEOREM StepsRunOutThm == Spec => StepsRunOut
<1>1. IInv => StepsLeft \in 0 .. 2 * MaxBoundarySearch + 1
    BY SMT DEF IInv, TypeOK, Reach, StepsLeft
<1>2. IInv /\ [Next]_vars =>
        [IF NewBlock THEN StepsLeft' = StepsLeft ELSE StepsLeft' < StepsLeft]_vars
  <2> SUFFICES ASSUME IInv, Next
               PROVE  IF NewBlock THEN StepsLeft' = StepsLeft ELSE StepsLeft' < StepsLeft
      OBVIOUS
  <2>1. CASE NewBlock
      BY <2>1 DEF NewBlock, StepsLeft
  <2>2. ASSUME Search PROVE StepsLeft' < StepsLeft
    <3>1. i \in Int /\ (pc \in {"forward", "backward"} => i < MaxBoundarySearch)
        BY DEF IInv, TypeOK, Reach
    <3>2. CASE Resolve
        BY <3>1, <3>2, SMT DEF Resolve, StepsLeft, IInv, Window
    <3>3. CASE Abort /\ pc \in {"resolve", "forward", "backward"}
        BY <3>1, <3>3, SMT DEF Abort, StepsLeft
    <3>4. CASE ForwardMisses \/ ForwardSame \/ ForwardDiffers
        BY <3>1, <3>4, SMT DEF ForwardMisses, ForwardSame, ForwardDiffers, ForwardHits, StepsLeft
    <3>5. CASE BackwardAtGenesis \/ BackwardMisses \/ BackwardSame
      <4>1. /\ pc = "backward" /\ i' = i + 1
            /\ pc' = "forward" \/ pc' = "notFound"
          BY <3>5 DEF BackwardAtGenesis, BackwardMisses, BackwardSame, BackwardHits, NextRound
      <4>2. StepsLeft = 2 * (MaxBoundarySearch - i) - 1
          BY <4>1 DEF StepsLeft
      <4>3. StepsLeft' = 2 * (MaxBoundarySearch - (i + 1)) \/ StepsLeft' = 0
          BY <4>1 DEF StepsLeft
      <4> QED
          BY <3>1, <4>1, <4>2, <4>3
    <3>6. CASE BackwardDiffers
        BY <3>1, <3>6, SMT DEF BackwardDiffers, BackwardHits, StepsLeft
    <3> QED
        BY <2>2, <3>2, <3>3, <3>4, <3>5, <3>6 DEF Search, ResolveFails, Forward, Backward,
           ForwardConfigFails, BackwardConfigFails, ForwardHits, BackwardHits
  <2> QED
      BY <2>1, <2>2 DEF Next
<1> QED
    BY <1>1, <1>2, Inductive, PTL DEF Spec, StepsRunOut
=============================================================================
