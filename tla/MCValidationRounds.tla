-------------------------- MODULE MCValidationRounds --------------------------
(* FetchValidationRounds over MCTimedChain's histories. *)
EXTENDS ValidationRounds, MCTimedChain
=============================================================================
