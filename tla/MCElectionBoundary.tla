-------------------------- MODULE MCElectionBoundary --------------------------
(* Every history of 7 blocks in which election ids never go back. *)
EXTENDS ElectionBoundary

MCIDs == 1 .. 3
MCChains == {c \in [0 .. MaxSeqno -> MCIDs] :
                \A b \in 1 .. MaxSeqno : c[b - 1] <= c[b]}
=============================================================================
