--------------------------- MODULE ElectionBoundary ---------------------------
(* findElectionBoundary (src/service/rounds.go): from the block nearest a
   given time, walk outward one block forward, one block backward, until
   config param 34 names another election.

   The masterchain grows while the search runs.  A lookup may miss: the block
   is not produced yet, or every retry failed; the search then goes on and
   asks for the same block in its next round.  A failed read of config param
   34 ends the search with an error.  The five look-ahead goroutines the code
   starts only warm the loaders' caches, so they leave no trace here.        *)
EXTENDS MasterChain

VARIABLES pc,                  \* where the search stands
          start, eid,          \* the resolved block and its election
          fwd, bwd,            \* fwdExt.Seqno and bwdExt.Seqno
          i,                   \* rounds of the loop done
          boundary,            \* the answer
          missed               \* history: the directions in which a lookup missed

vars == <<chain, tip, pc, start, eid, fwd, bwd, i, boundary, missed>>

Finished == {"found", "notFound", "error"}

Init == /\ ChainInit
        /\ pc = "resolve"
        /\ start = Unresolved /\ eid = Unresolved
        /\ fwd = Unresolved /\ bwd = Unresolved
        /\ i = 0
        /\ boundary = NoBoundary
        /\ missed = {}

-------------------------------------------------------------------------------
\* The validators produce one more block while the search runs.
NewBlock == Grow /\ UNCHANGED <<pc, start, eid, fwd, bwd, i, boundary, missed>>

\* (Mutant of Resolve: the backward step comes first.)
ResolveThenBackward == /\ pc = "resolve"
                       /\ \E s \in 0 .. tip :
                             /\ start' = s /\ fwd' = s /\ bwd' = s
                             /\ eid' = chain[s]
                       /\ pc' = "backward"
                       /\ UNCHANGED <<chainVars, i, boundary, missed>>

\* The time resolves to some produced block, whose param 34 is read.
Resolve == /\ pc = "resolve"
           /\ \E s \in 0 .. tip :
                 /\ start' = s /\ fwd' = s /\ bwd' = s
                 /\ eid' = chain[s]
           /\ pc' = "forward"
           /\ UNCHANGED <<chainVars, i, boundary, missed>>

\* Any failure to resolve, and any failed read of param 34 later on.
Abort == /\ pc' = "error"
         /\ UNCHANGED <<chainVars, start, eid, fwd, bwd, i, boundary, missed>>

ResolveFails == pc = "resolve" /\ Abort

ForwardHits == pc = "forward" /\ Known(fwd + 1)

ForwardMisses == /\ pc = "forward"
                 /\ pc' = "backward"
                 /\ missed' = missed \cup {"forward"}
                 /\ UNCHANGED <<chainVars, start, eid, fwd, bwd, i, boundary>>

ForwardConfigFails == ForwardHits /\ Abort

ForwardSame == /\ ForwardHits
               /\ chain[fwd + 1] = eid
               /\ fwd' = fwd + 1
               /\ pc' = "backward"
               /\ UNCHANGED <<chainVars, start, eid, bwd, i, boundary, missed>>

ForwardDiffers == /\ ForwardHits
                  /\ chain[fwd + 1] # eid
                  /\ boundary' = BoundaryRec(fwd, eid, fwd + 1, chain[fwd + 1])
                  /\ pc' = "found"
                  /\ UNCHANGED <<chainVars, start, eid, fwd, bwd, i, missed>>

\* (Mutants of NextRound: one round too many, one too few.)
NextRoundLate == /\ i' = i + 1
                 /\ pc' = IF i < MaxBoundarySearch THEN "forward" ELSE "notFound"
NextRoundEarly == /\ i' = i + 1
                  /\ pc' = IF i + 2 < MaxBoundarySearch THEN "forward" ELSE "notFound"

\* The loop's own step: another round, or the not-found error.
NextRound == /\ i' = i + 1
             /\ pc' = IF i + 1 < MaxBoundarySearch THEN "forward" ELSE "notFound"

BackwardHits == pc = "backward" /\ bwd > 0

BackwardAtGenesis == /\ pc = "backward" /\ bwd = 0
                     /\ NextRound
                     /\ UNCHANGED <<chainVars, start, eid, fwd, bwd, boundary, missed>>

\* (Mutant of BackwardMisses: a miss does not use up the round.)
BackwardMissesAgain == /\ BackwardHits
                       /\ pc' = "forward"
                       /\ missed' = missed \cup {"backward"}
                       /\ UNCHANGED <<chainVars, start, eid, fwd, bwd, i, boundary>>

BackwardMisses == /\ BackwardHits
                  /\ NextRound
                  /\ missed' = missed \cup {"backward"}
                  /\ UNCHANGED <<chainVars, start, eid, fwd, bwd, boundary>>

BackwardConfigFails == BackwardHits /\ Abort

BackwardSame == /\ BackwardHits
                /\ chain[bwd - 1] = eid
                /\ bwd' = bwd - 1
                /\ NextRound
                /\ UNCHANGED <<chainVars, start, eid, fwd, boundary, missed>>

\* (Mutant of BackwardDiffers: the elections of the two blocks swapped.)
BackwardDiffersSwapped == /\ BackwardHits
                          /\ chain[bwd - 1] # eid
                          /\ boundary' = BoundaryRec(bwd - 1, eid, bwd, chain[bwd - 1])
                          /\ pc' = "found"
                          /\ UNCHANGED <<chainVars, start, eid, fwd, bwd, i, missed>>

BackwardDiffers == /\ BackwardHits
                   /\ chain[bwd - 1] # eid
                   /\ boundary' = BoundaryRec(bwd - 1, chain[bwd - 1], bwd, eid)
                   /\ pc' = "found"
                   /\ UNCHANGED <<chainVars, start, eid, fwd, bwd, i, missed>>

Forward == \/ ForwardMisses
           \/ ForwardConfigFails
           \/ ForwardSame
           \/ ForwardDiffers

Backward == \/ BackwardAtGenesis
            \/ BackwardMisses
            \/ BackwardConfigFails
            \/ BackwardSame
            \/ BackwardDiffers

Search == Resolve \/ ResolveFails \/ Forward \/ Backward

Next == NewBlock \/ Search

\* Every lookup returns after at most 30 attempts, so the search keeps going;
\* nothing obliges the chain to grow.
Spec == Init /\ [][Next]_vars /\ WF_vars(Search)

-------------------------------------------------------------------------------
(* Correctness *)

TypeOK == /\ chain \in Chains
          /\ tip \in 0 .. MaxSeqno
          /\ pc \in {"resolve", "forward", "backward"} \cup Finished
          /\ start \in 0 .. tip \cup {Unresolved}
          /\ eid \in ElectionIDs \cup {Unresolved}
          /\ fwd \in 0 .. tip \cup {Unresolved}
          /\ bwd \in 0 .. tip \cup {Unresolved}
          /\ i \in 0 .. MaxBoundarySearch
          /\ boundary \in [BeforeBlock : Int, BeforeElectionID : Int,
                           AfterBlock : Int, AfterElectionID : Int]
          /\ missed \subseteq {"forward", "backward"}

\* The number of param 34 reads the code makes before it can see the edge at a.
SearchRank(a) == IF a > start THEN 2 * (a - start) - 1 ELSE 2 * (start - a + 1)

\* An answer is two adjacent blocks of the chain, with their own election ids,
\* and those ids differ -- whatever misses, errors and new blocks the search met.
FoundIsBoundary ==
    pc = "found" =>
        /\ boundary.AfterBlock \in Edges(chain, tip)
        /\ boundary = EdgeAt(chain, boundary.AfterBlock)

\* An answer lies within maxBoundarySearch blocks of the resolved block, so two
\* callers more than twice that far apart are never given the same boundary.
FoundIsNear ==
    pc = "found" =>
        boundary.AfterBlock \in SearchRange(start)

\* With no lookup missed, the answer is the nearest boundary the chain has.
NearestWhenReliable ==
    pc = "found" /\ missed = {} =>
        \A a \in Edges(chain, tip) : SearchRank(boundary.AfterBlock) <= SearchRank(a)

\* "not found within N blocks" is true of each direction whose lookups all hit:
\* the walk leaves no block of its range unread.
NotFoundIsTrue ==
    pc = "notFound" =>
        /\ "forward" \notin missed =>
              \A a \in Edges(chain, tip) : a \notin (start + 1) .. (start + MaxBoundarySearch)
        /\ "backward" \notin missed =>
              \A a \in Edges(chain, tip) : a \notin (start - MaxBoundarySearch + 1) .. start

\* The search ends: with a boundary, a not-found error, or a config error.
Terminates == <>(pc \in Finished)

\* The search implements what its callers rely on.
promiseStatus ==
    CASE pc = "resolve" -> "asked"
      [] pc \in {"forward", "backward"} -> "searching"
      [] pc = "found" -> "found"
      [] OTHER -> "failed"

Promise == INSTANCE BoundaryPromise WITH status <- promiseStatus

\* Every behaviour of the search is one BoundaryPromise allows.
ImplementsPromise == Promise!PromiseSpec
=============================================================================
