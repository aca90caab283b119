---------------------------- MODULE PastElections ----------------------------
(* getAllPoolAddresses (src/service/pool.go): the pools and true stakes of the
   validators, merged from the elector's past elections at a block, and
   pastElectionsCache, which all requests share.  The cache is read and written
   under its lock, but a request that misses parses between the two.         *)
EXTENDS Integers

CONSTANTS Requests,    \* handlers running at the same time
          Validators,  \* validator keys
          Addresses,   \* of the pools they stake from
          MaxBlock,    \* last block (bounds the model)
          Histories    \* what the elector may hold, block by block

ASSUME MaxBlockAssumption == MaxBlock \in Nat

\* A history gives, for each block, the elections listed and the one whose round
\* it is; the elections whose members can be parsed; for each election, the stake
\* each key froze in it (0: not a member), the pool it came from, and the block from
\* which a fine has taken one unit of each stake (MaxBlock + 1: never).
Blocks == 0 .. MaxBlock

ASSUME HistoriesAssumption ==
    \A h \in Histories :
        /\ \A b \in Blocks : /\ h.listed[b] \subseteq DOMAIN h.frozen
                             /\ h.current[b] \in h.listed[b]
        /\ DOMAIN h.frozen \subseteq Nat
        /\ \A e \in DOMAIN h.frozen : h.frozen[e] \in [Validators -> Nat]
        /\ \A e \in DOMAIN h.frozen : h.src[e] \in [Validators -> Addresses]
        /\ \A e \in DOMAIN h.frozen : h.fined[e] \in Nat

\* There are finitely many elections: some of them have a last.
ASSUME LastElectionAssumption ==
    \A h \in Histories : \A S \in SUBSET DOMAIN h.frozen :
        S # {} => \E e \in S : \A f \in S : f <= e

VARIABLES history,   \* the elector's, fixed
          cache,     \* pastElectionsCache: electionIDs and data
          pc,        \* how far each request is
          at,        \* the block each request reads
          pools      \* what getAllPoolAddresses returned to each request

vars == <<history, cache, pc, at, pools>>

NoPools == <<>>   \* nil, or a map without entries
EmptyCache == [filled |-> FALSE, electionIDs |-> {}, data |-> NoPools]

Init == /\ history \in Histories
        /\ cache = EmptyCache
        /\ pc = [r \in Requests |-> "idle"]
        /\ at = [r \in Requests |-> 0]
        /\ pools = [r \in Requests |-> NoPools]

-------------------------------------------------------------------------------
ids(b) == history.listed[b]

\* The stake key v has in election e, as the elector holds it at block b.
StakeAt(b, e, v) ==
    LET stake == history.frozen[e][v]
    IN IF stake > 0 /\ b >= history.fined[e] THEN stake - 1 ELSE stake

\* poolEntry: what the merge keeps of key v's place in election e.
Entry(b, e, v) == [Addr |-> history.src[e][v], TrueStake |-> StakeAt(b, e, v)]

\* An election whose members do not parse is left out, with a warning.
Parsed(b) == ids(b) \cap history.parsed

ElectionsOf(b, v) == {e \in Parsed(b) : history.frozen[e][v] > 0}

\* (Mutant of Merge: sorted the other way round.)
MergeEarliest(b) ==
    [v \in {w \in Validators : ElectionsOf(b, w) # {}} |->
        LET first == CHOOSE e \in ElectionsOf(b, v) : \A f \in ElectionsOf(b, v) : e <= f
        IN Entry(b, first, v)]

\* The merge in ascending order of elections: a key's last election wins.
Merge(b) ==
    [v \in {w \in Validators : ElectionsOf(b, w) # {}} |->
        LET last == CHOOSE e \in ElectionsOf(b, v) : \A f \in ElectionsOf(b, v) : f <= e
        IN Entry(b, last, v)]

-------------------------------------------------------------------------------
\* A request comes to need the pools at some block.
Begin(r) == /\ pc[r] \in {"idle", "done"}
            /\ \E b \in Blocks : at' = [at EXCEPT ![r] = b]
            /\ pc' = [pc EXCEPT ![r] = "check"]
            /\ pools' = [pools EXCEPT ![r] = NoPools]
            /\ UNCHANGED <<history, cache>>

Done(r, p) == /\ pools' = [pools EXCEPT ![r] = p]
              /\ pc' = [pc EXCEPT ![r] = "done"]
              /\ UNCHANGED <<history, at>>

\* fetchRawPastElections fails: no pools, and only a warning.
Unread(r) == pc[r] = "check" /\ Done(r, NoPools) /\ UNCHANGED cache

\* (Mutant of CacheHits: only the latest election is compared.)
CacheHitsLatest(r) ==
    /\ cache.filled
    /\ \E e \in ids(at[r]) \cap cache.electionIDs :
          \A f \in ids(at[r]) \cup cache.electionIDs : f <= e

\* slices.Equal(ids, electionIDs) && data != nil.
CacheHits(r) == cache.filled /\ ids(at[r]) = cache.electionIDs

Hit(r) == /\ pc[r] = "check" /\ CacheHits(r)
          /\ Done(r, cache.data)
          /\ UNCHANGED cache

Miss(r) == /\ pc[r] = "check" /\ ~CacheHits(r)
           /\ pc' = [pc EXCEPT ![r] = "parse"]
           /\ UNCHANGED <<history, cache, at, pools>>

\* Parsed and merged; stored over whatever the cache holds by now, under all the
\* ids, those that were left out included.
Store(r) == /\ pc[r] = "parse"
            /\ cache' = [filled |-> TRUE, electionIDs |-> ids(at[r]),
                         data |-> Merge(at[r])]
            /\ Done(r, Merge(at[r]))

Next == \E r \in Requests : Begin(r) \/ Unread(r) \/ Hit(r) \/ Miss(r) \/ Store(r)

Spec == Init /\ [][Next]_vars

-------------------------------------------------------------------------------
(* Correctness *)

IsPools(p) == /\ DOMAIN p \subseteq Validators
              /\ \A v \in DOMAIN p : p[v] \in [Addr : Addresses, TrueStake : Nat]

TypeOK == /\ cache.filled \in BOOLEAN
          /\ cache.filled <=> cache.electionIDs # {}
          /\ cache.electionIDs \subseteq DOMAIN history.frozen
          /\ IsPools(cache.data)
          /\ pc \in [Requests -> {"idle", "check", "parse", "done"}]
          /\ at \in [Requests -> Blocks]
          /\ DOMAIN pools = Requests /\ \A r \in Requests : IsPools(pools[r])

Served(r) == pc[r] = "done" /\ pools[r] # NoPools

\* Whatever other requests stored meanwhile, a request is given the members of
\* exactly the elections its own block lists.
ServesItsElections ==
    \A r \in Requests : Served(r) =>
        \E b \in Blocks : ids(b) = ids(at[r]) /\ pools[r] = Merge(b)

\* A validator of the round is never given what an older election froze of it,
\* though that is still listed and whichever elections beside the round's do not
\* parse: the stake and the pool are those of the round, or of a later election of
\* the same key, as the elector held them when it listed the very same elections.
StakeIsTheRounds ==
    \A r \in Requests : Served(r) =>
        \A v \in Validators : history.current[at[r]] \in ElectionsOf(at[r], v) =>
            \E e \in ElectionsOf(at[r], v), b \in Blocks :
                /\ e >= history.current[at[r]]
                /\ ids(b) = ids(at[r])
                /\ pools[r][v] = Entry(b, e, v)
=============================================================================
