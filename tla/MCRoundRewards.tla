---------------------------- MODULE MCRoundRewards ----------------------------
(* FetchRoundRewards over MCTimedChain's histories. *)
EXTENDS RoundRewards, MCTimedChain
=============================================================================
