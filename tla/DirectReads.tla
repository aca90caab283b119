------------------------------ MODULE DirectReads ------------------------------
(* What the three reads of src/service/loaders.go do when no loader is in the
   context: lookupMasterchainBlockByUtime, lookupMasterchainBlock and
   cachedGetConfigParams then ask the liteservers themselves.  A read comes back
   with what the chain holds at that moment, or with an error.  This is what
   the loaders and their caches have to be as good as.                       *)
EXTENDS BlockTimes

CONSTANTS Callers,   \* goroutines that read
          Keys       \* what they may ask for

Loaders == {"blockByUtime", "blockBySeqno", "configParams"}

\* arg is a time or a seqno.  Config param 34 is all the service asks for, always
\* in the same mode, so of configParamsKey the seqno is left.
Key(loader, arg) == [loader |-> loader, arg |-> arg]
ASSUME KeysAssumption ==
    /\ Keys \subseteq [loader : Loaders, arg : Nat]
    /\ \A k \in Keys : k.loader = "configParams" => Key("blockBySeqno", k.arg) \in Keys

VARIABLE call   \* the read each caller is about, or has done last

readVars == <<chain, tip, call>>

\* Results: a block's seqno or an election id; Failed is an error.
Failed == -1
NoResult == -3
NoKey == Key("none", 0)
NoCall == [pc |-> "idle", key |-> NoKey, result |-> NoResult]

\* What the liteservers hold for a key now: the block and its time, the block a
\* time resolves to, the configuration in force at a block.
Answers(k) == CASE k.loader = "blockByUtime" -> BlocksAt(k.arg)
                [] k.loader = "blockBySeqno" -> {b \in {k.arg} : Known(b)}
                [] OTHER -> {chain[b] : b \in {s \in {k.arg} : Known(s)}}

ReadInit == /\ ChainInit
            /\ call = [c \in Callers |-> NoCall]

Produce == Grow /\ UNCHANGED call

Ask(c, k) == /\ call[c].pc # "asked"
             /\ call' = [call EXCEPT ![c] = [pc |-> "asked", key |-> k, result |-> NoResult]]
             /\ UNCHANGED chainVars

Reply(c) == /\ call[c].pc = "asked"
            /\ \E x \in Answers(call[c].key) \cup {Failed} :
                  call' = [call EXCEPT ![c].pc = "answered", ![c].result = x]
            /\ UNCHANGED chainVars

\* A request is over and the next one takes the caller's place.
Leave(gone) == /\ \A c \in gone : call[c].pc # "asked"
               /\ call' = [c \in Callers |-> IF c \in gone THEN NoCall ELSE call[c]]
               /\ UNCHANGED chainVars

ReadNext == \/ Produce
            \/ \E c \in Callers : \/ \E k \in Keys : Ask(c, k)
                                  \/ Reply(c)
            \/ \E gone \in SUBSET Callers : Leave(gone)

ReadSpec == ReadInit /\ [][ReadNext]_readVars
=============================================================================
