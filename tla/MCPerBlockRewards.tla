--------------------------- MODULE MCPerBlockRewards ---------------------------
(* FetchPerBlockRewards over MCTimedChain's histories. *)
EXTENDS PerBlockRewards, MCTimedChain
=============================================================================
