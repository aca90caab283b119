------------------------------- MODULE MCLoaders -------------------------------
(* Blocks 0 and 1, of elections 10 and 11, and two callers, each of a request of
   its own.                                                                  *)
EXTENDS Loaders

CONSTANTS a, b, A, B

MCChains == {[s \in 0 .. 1 |-> 10 + s]}
MCUtime == [s \in 0 .. 1 |-> 5 + 2 * s]
MCRequestOf == [c \in Callers |-> IF c = b THEN B ELSE A]
MCKeys == {Key("blockByUtime", 6), Key("blockBySeqno", 0), Key("blockBySeqno", 1),
           Key("configParams", 1)}
=============================================================================
