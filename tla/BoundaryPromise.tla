--------------------------- MODULE BoundaryPromise ---------------------------
(* What a caller of findElectionBoundary (src/service/rounds.go) may rely on:
   an answer is a pair of adjacent blocks at which the election id really
   changes, within MaxBoundarySearch of the block the caller's time resolved
   to; otherwise the caller gets an error.                                   *)
EXTENDS MasterChain

VARIABLES start,      \* block the caller's time resolved to, or Unresolved
          status,     \* "asked", "searching", "found" or "failed"
          boundary    \* the answer, once status = "found"

promiseVars == <<chain, tip, start, status, boundary>>

PromiseInit == /\ ChainInit
               /\ start = Unresolved
               /\ status = "asked"
               /\ boundary = NoBoundary

Produce == Grow /\ UNCHANGED <<start, status, boundary>>

Locate == /\ status = "asked"
          /\ start' \in 0 .. tip
          /\ status' = "searching"
          /\ UNCHANGED <<chain, tip, boundary>>

Answer == /\ status = "searching"
          /\ \E a \in Edges(chain, tip) \cap SearchRange(start) :
                boundary' = EdgeAt(chain, a)
          /\ status' = "found"
          /\ UNCHANGED <<chain, tip, start>>

Fail == /\ status \in {"asked", "searching"}
        /\ status' = "failed"
        /\ UNCHANGED <<chain, tip, start, boundary>>

PromiseNext == Produce \/ Locate \/ Answer \/ Fail

PromiseSpec == PromiseInit /\ [][PromiseNext]_promiseVars
=============================================================================
