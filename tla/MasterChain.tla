----------------------------- MODULE MasterChain -----------------------------
(* The masterchain as src/service reads it: each block carries the election id
   (config param 34's utime_since) in force at it.  The history is fixed when
   a behaviour starts and revealed one block at a time.  The chain is not code
   of this repository: this is what its liteservers answer.                  *)
EXTENDS Integers

CONSTANTS MaxSeqno,           \* last seqno the chain may reach (bounds the model)
          ElectionIDs,        \* the values utime_since may take
          Chains,             \* the possible histories: seqno -> election id
          MaxBoundarySearch   \* rounds.go: maxBoundarySearch (20)

ASSUME MaxSeqnoAssumption == MaxSeqno \in Nat
ASSUME MaxBoundarySearchAssumption == MaxBoundarySearch \in Nat \ {0}
ASSUME ElectionIDsAssumption == ElectionIDs \subseteq Nat
ASSUME ChainsAssumption == Chains \subseteq [0 .. MaxSeqno -> ElectionIDs]

VARIABLES chain,      \* election id in force at each seqno
          tip         \* last block produced so far

chainVars == <<chain, tip>>

Unresolved == -1

\* electionBoundary (rounds.go): two adjacent blocks of different elections.
BoundaryRec(before, beforeID, after, afterID) ==
    [BeforeBlock |-> before, BeforeElectionID |-> beforeID,
     AfterBlock  |-> after,  AfterElectionID  |-> afterID]

\* electionBoundary{}, what the code returns beside an error.
NoBoundary == BoundaryRec(Unresolved, Unresolved, Unresolved, Unresolved)

\* The boundary of chain c whose later block is a.
EdgeAt(c, a) == BoundaryRec(a - 1, c[a - 1], a, c[a])

\* Later blocks of the boundaries chain c shows once block t is produced.
Edges(c, t) == {a \in 1 .. t : c[a - 1] # c[a]}

\* (Mutant of SearchRange: one step less each way.)
ShortRange(s) == (s - MaxBoundarySearch + 2) .. (s + MaxBoundarySearch - 1)

\* The later blocks a search from s can come to: at most MaxBoundarySearch
\* steps forward, at most MaxBoundarySearch steps backward.
SearchRange(s) == (s - MaxBoundarySearch + 1) .. (s + MaxBoundarySearch)

\* A liteserver can answer a lookup only for a block that has been produced.
Known(seqno) == seqno \in 0 .. tip

ChainInit == chain \in Chains /\ tip \in 0 .. MaxSeqno

\* The validators produce one more block.
Grow == tip < MaxSeqno /\ tip' = tip + 1 /\ chain' = chain
=============================================================================
