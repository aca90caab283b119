---------------------------- MODULE PoolData_proofs ----------------------------
(* Whatever the requests interleave, pastElectionsCache never hands a request the
   members of other elections than those its block lists, nor, on top of that,
   poolTypeCache what its own block does not hold.                           *)
EXTENDS PoolData, TLAPS

-------------------------------------------------------------------------------
(* pastElectionsCache, in getAllPoolAddresses on its own *)

\* p is what a request that reads block b would have parsed itself, or another
\* that reads a block with the same elections.
MergeFor(p, listed) == \E b \in Blocks : ids(b) = listed /\ p = Merge(b)

\* The cache's two fields are of one read.
CacheIsOfOneRead == cache.filled => MergeFor(cache.data, cache.electionIDs)

\* What ServesItsElections needs to be inductive: where the requests are, and
\* what a hit will find.
IInv == /\ pc \in [Requests -> {"idle", "check", "parse", "done"}]
        /\ at \in [Requests -> Blocks]
        /\ DOMAIN pools = Requests
        /\ CacheIsOfOneRead
        /\ ServesItsElections

\* The elector's history is fixed, so a merge does not change from step to step.
LEMMA MergeIsStable ==
    ASSUME history' = history, NEW b \in Blocks
    PROVE  ids(b)' = ids(b) /\ Merge(b)' = Merge(b)
  BY DEF ids, Merge, Entry, ElectionsOf, Parsed, StakeAt

\* Nor does what may be served for some elections.
LEMMA MergeForIsStable ==
    ASSUME history' = history, NEW p, NEW listed, MergeFor(p, listed)
    PROVE  \E b \in Blocks : ids(b)' = listed /\ p = Merge(b)'
  BY MergeIsStable DEF MergeFor

\* No request has been served, and the cache is empty.
LEMMA InitEstablishes == Init => IInv
  BY MaxBlockAssumption DEF Init, IInv, EmptyCache, CacheIsOfOneRead, ServesItsElections, Served, Blocks

\* Each step of each request preserves it.
LEMMA NextPreserves == IInv /\ [Next]_vars => IInv'
<1> SUFFICES ASSUME IInv, [Next]_vars PROVE IInv'
  OBVIOUS
<1>1. CASE UNCHANGED vars
  <2>1. UNCHANGED <<history, cache, pc, at, pools>>
    BY <1>1 DEF vars
  <2>2. \A b \in Blocks : ids(b)' = ids(b) /\ Merge(b)' = Merge(b)
    BY <2>1, MergeIsStable
  <2> QED
    BY <2>1, <2>2 DEF IInv, CacheIsOfOneRead, MergeFor, ServesItsElections, Served, NoPools, Blocks
<1>2. ASSUME NEW r \in Requests, Begin(r) \/ Unread(r) \/ Hit(r) \/ Miss(r) \/ Store(r)
      PROVE  IInv'
  <2>1. history' = history
    BY <1>2 DEF Begin, Unread, Hit, Miss, Store, Done
  <2>2. \A b \in Blocks : ids(b)' = ids(b) /\ Merge(b)' = Merge(b)
    BY <2>1, MergeIsStable
  <2>3. /\ pc' \in [Requests -> {"idle", "check", "parse", "done"}]
        /\ at' \in [Requests -> Blocks]
        /\ DOMAIN pools' = Requests
    BY <1>2 DEF IInv, Begin, Unread, Hit, Miss, Store, Done
  <2>4. CacheIsOfOneRead'
    <3>1. CASE Store(r)
      <4>1. cache'.electionIDs = ids(at[r]) /\ cache'.data = Merge(at[r])
        BY <3>1 DEF Store
      <4>2. at[r] \in Blocks
        BY DEF IInv
      <4> QED
        BY <4>1, <4>2, <2>2 DEF CacheIsOfOneRead, MergeFor
    <3>2. CASE ~Store(r)
      <4>1. cache' = cache
        BY <1>2, <3>2 DEF Begin, Unread, Hit, Miss
      <4> QED
        BY <4>1, <2>2 DEF IInv, CacheIsOfOneRead, MergeFor
    <3> QED
      BY <3>1, <3>2
  <2>5. ASSUME NEW q \in Requests, Served(q)'
        PROVE  \E b \in Blocks : ids(b) = ids(at'[q]) /\ pools'[q] = Merge(b)
    <3>1. CASE q # r
      <4>1. pc'[q] = pc[q] /\ at'[q] = at[q] /\ pools'[q] = pools[q]
        BY <1>2, <3>1 DEF IInv, Begin, Unread, Hit, Miss, Store, Done
      <4> QED
        BY <4>1, <2>5 DEF IInv, ServesItsElections, Served
    <3>2. CASE q = r /\ Hit(r)
      <4>1. /\ cache.filled /\ ids(at[r]) = cache.electionIDs
            /\ pools'[r] = cache.data /\ at' = at
        BY <3>2 DEF Hit, CacheHits, Done, IInv
      <4> QED
        BY <4>1, <3>2 DEF IInv, CacheIsOfOneRead, MergeFor
    <3>3. CASE q = r /\ Store(r)
      <4>1. pools'[r] = Merge(at[r]) /\ at' = at /\ at[r] \in Blocks
        BY <3>3 DEF Store, Done, IInv
      <4> QED
        BY <4>1, <3>3
    <3>4. CASE q = r /\ (Begin(r) \/ Unread(r) \/ Miss(r))
      <4>1. pools'[r] = NoPools \/ pc'[r] = "parse"
        BY <3>4 DEF Begin, Unread, Miss, Done, IInv
      <4> QED
        BY <4>1, <3>4, <2>5 DEF Served
    <3> QED
      BY <1>2, <3>1, <3>2, <3>3, <3>4
  <2>6. ServesItsElections'
    <3>1. \A q \in Requests : at'[q] \in Blocks
      BY <2>3
    <3> QED
      BY <2>2, <2>5, <3>1 DEF ServesItsElections
  <2> QED
    BY <2>3, <2>4, <2>6 DEF IInv
<1> QED
  BY <1>1, <1>2 DEF Next

\* A request is given the members of exactly the elections its own block lists,
\* for any number of requests, blocks and histories.
THEOREM ServesItsElectionsThm == Spec => []ServesItsElections
<1>1. IInv => ServesItsElections
  BY DEF IInv
<1> QED
  BY <1>1, InitEstablishes, NextPreserves, PTL DEF Spec

-------------------------------------------------------------------------------
(* Type correctness *)

\* TypeOK with the history it speaks of.
TypeInv == history \in Histories /\ TypeOK

\* An entry of a key's place in an election has a pool and a stake: a fine takes
\* one unit of a stake that is there.
LEMMA EntryIsTyped ==
    ASSUME history \in Histories, NEW b \in Blocks,
           NEW e \in DOMAIN history.frozen, NEW v \in Validators
    PROVE  Entry(b, e, v) \in [Addr : Addresses, TrueStake : Nat]
<1>1. history.frozen[e][v] \in Nat /\ history.src[e][v] \in Addresses
  BY HistoriesAssumption
<1> QED
  BY <1>1 DEF Entry, StakeAt

\* A merge gives every key in it an entry.
LEMMA MergeIsPools ==
    ASSUME history \in Histories, NEW b \in Blocks
    PROVE  IsPools(Merge(b))
<1> DEFINE Last(v) == CHOOSE e \in ElectionsOf(b, v) : \A f \in ElectionsOf(b, v) : f <= e
<1>1. DOMAIN Merge(b) \subseteq Validators
  BY DEF Merge
<1>2. ASSUME NEW v \in DOMAIN Merge(b)
      PROVE  Merge(b)[v] \in [Addr : Addresses, TrueStake : Nat]
  <2>1. v \in Validators /\ ElectionsOf(b, v) # {} /\ Merge(b)[v] = Entry(b, Last(v), v)
    BY <1>2 DEF Merge
  <2>2. ElectionsOf(b, v) \in SUBSET DOMAIN history.frozen
    BY HistoriesAssumption DEF ElectionsOf, Parsed, ids
  <2>3. \E e \in ElectionsOf(b, v) : \A f \in ElectionsOf(b, v) : f <= e
    BY <2>1, <2>2, LastElectionAssumption
  <2>4. Last(v) \in DOMAIN history.frozen
    BY <2>2, <2>3
  <2> QED
    BY <2>1, <2>4, EntryIsTyped
<1> QED
  BY <1>1, <1>2 DEF IsPools

\* No pools are a map too.
LEMMA NoPoolsIsPools == IsPools(NoPools)
  BY DEF IsPools, NoPools

\* The elections a block lists are among those of the history, and not none.
LEMMA ListedAreKnown ==
    ASSUME history \in Histories, NEW b \in Blocks
    PROVE  ids(b) \subseteq DOMAIN history.frozen /\ ids(b) # {}
  BY HistoriesAssumption DEF ids

LEMMA TypeInit == Init => TypeInv
  BY MaxBlockAssumption, NoPoolsIsPools DEF Init, TypeInv, TypeOK, EmptyCache, Blocks

LEMMA TypeNext == TypeInv /\ [Next]_vars => TypeInv'
<1> SUFFICES ASSUME TypeInv, [Next]_vars PROVE TypeInv'
  OBVIOUS
<1>1. CASE UNCHANGED vars
  BY <1>1 DEF vars, TypeInv, TypeOK, IsPools
<1>2. ASSUME NEW r \in Requests, Begin(r) \/ Unread(r) \/ Hit(r) \/ Miss(r) \/ Store(r)
      PROVE  TypeInv'
  <2>1. history' = history /\ history \in Histories
    BY <1>2 DEF Begin, Unread, Hit, Miss, Store, Done, TypeInv
  <2>2. /\ pc' \in [Requests -> {"idle", "check", "parse", "done"}]
        /\ at' \in [Requests -> Blocks]
        /\ DOMAIN pools' = Requests
    BY <1>2 DEF TypeInv, TypeOK, Begin, Unread, Hit, Miss, Store, Done
  <2>3. /\ cache'.filled \in BOOLEAN
        /\ cache'.filled <=> cache'.electionIDs # {}
        /\ cache'.electionIDs \subseteq DOMAIN history.frozen
        /\ IsPools(cache'.data)
    <3>1. CASE Store(r)
      <4>1. at[r] \in Blocks
        BY DEF TypeInv, TypeOK
      <4>2. cache' = [filled |-> TRUE, electionIDs |-> ids(at[r]), data |-> Merge(at[r])]
        BY <3>1 DEF Store
      <4> QED
        BY <2>1, <4>1, <4>2, MergeIsPools, ListedAreKnown
    <3>2. CASE ~Store(r)
      <4>1. cache' = cache
        BY <1>2, <3>2 DEF Begin, Unread, Hit, Miss
      <4> QED
        BY <4>1 DEF TypeInv, TypeOK
    <3> QED
      BY <3>1, <3>2
  <2>4. ASSUME NEW q \in Requests PROVE IsPools(pools'[q])
    <3>1. pools'[q] \in {pools[q], NoPools, cache.data, Merge(at[r])}
      BY <1>2 DEF TypeInv, TypeOK, Begin, Unread, Hit, Miss, Store, Done
    <3>2. at[r] \in Blocks /\ IsPools(pools[q]) /\ IsPools(cache.data)
      BY DEF TypeInv, TypeOK
    <3> QED
      BY <2>1, <3>1, <3>2, NoPoolsIsPools, MergeIsPools
  <2> QED
    BY <2>1, <2>2, <2>3, <2>4 DEF TypeInv, TypeOK, IsPools
<1> QED
  BY <1>1, <1>2 DEF Next

\* The cache and what the requests hold are pools of listed elections, with an
\* entry for every key in them.
THEOREM TypeCorrect == Spec => []TypeOK
<1>1. TypeInv => TypeOK
  BY DEF TypeInv
<1> QED
  BY <1>1, TypeInit, TypeNext, PTL DEF Spec

-------------------------------------------------------------------------------
(* Stakes *)

\* What a merge gives a key is its place in an election no older than any of those
\* the block lists it in.
LEMMA MergeGivesTheLast ==
    ASSUME TypeInv, NEW b \in Blocks, NEW v \in Validators, NEW e \in ElectionsOf(b, v)
    PROVE  \E f \in ElectionsOf(b, v) : f >= e /\ Merge(b)[v] = Entry(b, f, v)
<1> DEFINE Last == CHOOSE x \in ElectionsOf(b, v) : \A f \in ElectionsOf(b, v) : f <= x
<1>1. ElectionsOf(b, v) \subseteq DOMAIN history.frozen /\ ElectionsOf(b, v) # {}
      /\ history \in Histories /\ DOMAIN history.frozen \subseteq Nat
  BY HistoriesAssumption, ListedAreKnown DEF TypeInv, ElectionsOf, Parsed
<1>2. \E x \in ElectionsOf(b, v) : \A f \in ElectionsOf(b, v) : f <= x
  BY <1>1, LastElectionAssumption
<1>3. Last \in ElectionsOf(b, v) /\ \A f \in ElectionsOf(b, v) : f <= Last
  BY <1>2
<1>4. Last >= e
  <2>1. Last \in Nat /\ e \in Nat /\ e <= Last
    BY <1>1, <1>3
  <2> QED
    BY <2>1
<1>5. Merge(b)[v] = Entry(b, Last, v)
  BY <1>1 DEF Merge
<1> QED
  BY <1>3, <1>4, <1>5

\* For any history, fines and elections that do not parse included: what the merge
\* and the cache make of the elections is never of one older than the round's.
THEOREM StakeIsTheRoundsThm == Spec => []StakeIsTheRounds
<1>1. ASSUME IInv, TypeInv PROVE StakeIsTheRounds
  <2> SUFFICES ASSUME NEW r \in Requests, Served(r), NEW v \in Validators,
                      history.current[at[r]] \in ElectionsOf(at[r], v)
               PROVE  \E e \in ElectionsOf(at[r], v), b \in Blocks :
                          /\ e >= history.current[at[r]]
                          /\ ids(b) = ids(at[r])
                          /\ pools[r][v] = Entry(b, e, v)
    BY DEF StakeIsTheRounds
  <2>1. PICK b \in Blocks : ids(b) = ids(at[r]) /\ pools[r] = Merge(b)
    BY <1>1 DEF IInv, ServesItsElections
  <2>2. ElectionsOf(b, v) = ElectionsOf(at[r], v)
    BY <2>1 DEF ElectionsOf, Parsed
  <2>3. PICK e \in ElectionsOf(b, v) : e >= history.current[at[r]] /\ Merge(b)[v] = Entry(b, e, v)
    BY <1>1, <2>2, MergeGivesTheLast
  <2> QED
    BY <2>1, <2>2, <2>3
<1>2. IInv /\ TypeInv => StakeIsTheRounds
  BY <1>1
<1> QED
  BY <1>2, InitEstablishes, NextPreserves, TypeInit, TypeNext, PTL DEF Spec

-------------------------------------------------------------------------------
(* getAllPoolAddresses under fetchPoolData *)

\* fetchPoolData leaves the pools alone: each step is one of PastElections, or none.
LEMMA PoolStepIsAStep == [PoolNext]_allVars => [Next]_vars
<1>1. ASSUME UNCHANGED allVars PROVE UNCHANGED vars
  BY <1>1 DEF allVars
<1>2. ASSUME NEW r \in Requests, BeginAnew(r) \/ Unread(r) \/ Hit(r) \/ Miss(r) \/ Store(r)
      PROVE  Next
  BY <1>2 DEF BeginAnew, Next
<1>3. ASSUME NEW r \in Requests, Fork(r) \/ \E v \in Validators : Lookup(r, v)
      PROVE  UNCHANGED vars
  BY <1>3 DEF Fork, Lookup, Recall, NotKept, Detect, StateFails, Finish
<1> QED
  BY <1>1, <1>2, <1>3 DEF PoolNext

\* The composition implements getAllPoolAddresses on its own.
THEOREM ImplementsPastElections == PoolSpec => Spec
<1>1. PoolInit => Init
  BY DEF PoolInit
<1> QED
  BY <1>1, PoolStepIsAStep, PTL DEF PoolSpec, Spec

\* With pool data, too, the cached pools are never those of other elections.
THEOREM PoolServesItsElections == PoolSpec => []ServesItsElections
  BY ImplementsPastElections, ServesItsElectionsThm, PTL

\* Nor are the stakes rows are made of.
THEOREM PoolStakesAreTheRounds == PoolSpec => []StakeIsTheRounds
  BY ImplementsPastElections, StakeIsTheRoundsThm, PTL

-------------------------------------------------------------------------------
(* poolTypeCache *)

\* What is kept for ever was once true of the pool, and may be kept: no failure,
\* no gap and no nominator pool gets into the cache.
WasTrue(a, info) == \E b \in Blocks : /\ Keeps(accounts[a][b])
                                      /\ info = Answer(Type(accounts[a][b]), Decoded(accounts[a][b]))
KeptWasTrue == \A a \in Addresses : typeCache[a] # NoInfo => WasTrue(a, typeCache[a])

\* Where a goroutine's answer may come from.
Sourced(r, v) ==
    LET a == PoolOf(r, v)
        acc == accounts[a][dataAt[r]]
    IN \/ fetch[r][v].answer = NoAnswer
       \/ fetch[r][v].answer = Answer(Type(acc), Decoded(acc))
       \/ WasTrue(a, fetch[r][v].answer)

Steps == {"none", "load", "state", "done"}

\* The goroutines run for rows of a request that has its pools, and all answers
\* have a source.
FetchInv == /\ accounts \in Accounts
            /\ FetchTypeOK
            /\ \A r \in Requests : \A v \in Validators :
                  fetch[r][v].step # "none" => pc[r] = "done" /\ v \in DOMAIN pools[r]
            /\ \A r \in Requests : \A v \in Validators :
                  fetch[r][v].step = "done" => Sourced(r, v)

PoolIInv == TypeInv /\ FetchInv /\ KeptWasTrue

LEMMA AccountIsTyped ==
    ASSUME accounts \in Accounts, NEW a \in Addresses, NEW b \in Blocks
    PROVE  accounts[a][b] \in AccountStates
  BY AccountsAssumption

\* Whatever is read of an account is an answer.
LEMMA DetectionIsTyped ==
    ASSUME NEW acc \in AccountStates
    PROVE  Answer(Type(acc), Decoded(acc)) \in Answers
<1>1. Type(acc) \in {Unknown, Other, NominatorV10, SingleV10, SingleV11}
  BY DEF AccountStates, Type, IsBare, Unknown, Other, NominatorV10, SingleV10, SingleV11, NoCode, NoData
<1>2. Decoded(acc) \in Contents \cup {NoData}
  <2>1. CASE Type(acc) \in {Unknown, Other} \/ acc.data = Garbled
    BY <2>1 DEF Decoded
  <2>2. CASE ~(Type(acc) \in {Unknown, Other} \/ acc.data = Garbled)
    <3>1. acc.data \in Contents \cup {NoData, Garbled}
      BY DEF AccountStates
    <3> QED
      BY <2>2, <3>1 DEF Decoded
  <2> QED
    BY <2>1, <2>2
<1> QED
  BY <1>1, <1>2 DEF Answers, Answer

LEMMA NoAnswerIsTyped == NoAnswer \in Answers /\ NotRunning.step = "none" /\ NotRunning.answer = NoAnswer
  BY DEF NoAnswer, Answer, Answers, NotRunning, Goroutine

\* Absent redeployment, an answer with a source agrees with the request's block.
LEMMA SourcedAgrees ==
    ASSUME FetchInv, NEW r \in Requests, NEW v \in Validators, Sourced(r, v),
           PoolOf(r, v) \in Addresses, dataAt[r] \in Blocks,
           fetch[r][v].answer # NoAnswer, Settled(PoolOf(r, v)),
           accounts[PoolOf(r, v)][dataAt[r]].active
    PROVE  LET answer == fetch[r][v].answer
               acc == accounts[PoolOf(r, v)][dataAt[r]]
           IN /\ answer.type = Type(acc)
              /\ Decoded(acc) # NoData => answer.data = Decoded(acc)
<1> DEFINE a == PoolOf(r, v)
           acc == accounts[a][dataAt[r]]
           answer == fetch[r][v].answer
<1>1. CASE answer = Answer(Type(acc), Decoded(acc))
  BY <1>1 DEF Answer
<1>2. CASE WasTrue(a, answer)
  <2>1. PICK b \in Blocks : Keeps(accounts[a][b])
                            /\ answer = Answer(Type(accounts[a][b]), Decoded(accounts[a][b]))
    BY <1>2 DEF WasTrue
  <2> DEFINE kept == accounts[a][b]
  <2>2. answer.type = Type(kept) /\ answer.data = Decoded(kept)
    BY <2>1 DEF Answer
  <2>3. kept.active
    <3>1. Type(kept) # Unknown
      BY <2>1 DEF Keeps, Unknown, Other, SingleV10, SingleV11
    <3>2. kept.active \in BOOLEAN
      BY AccountIsTyped DEF FetchInv, AccountStates
    <3> QED
      BY <3>1, <3>2 DEF Type
  <2>4. Type(kept) = Type(acc)
    BY <2>3 DEF Settled
  <2>5. ASSUME Decoded(acc) # NoData PROVE Decoded(kept) = Decoded(acc)
    <3>1. Type(acc) # Other
      BY <2>5 DEF Decoded
    <3>2. Type(kept) \in {SingleV10, SingleV11} /\ Decoded(kept) # NoData
      BY <2>1, <2>4, <3>1 DEF Keeps
    <3> QED
      BY <2>3, <2>5, <3>2 DEF Settled
  <2> QED
    BY <2>2, <2>4, <2>5
<1> QED
  BY <1>1, <1>2 DEF Sourced

LEMMA PoolInvImplies == PoolIInv => AgreesWithItsBlock
<1> SUFFICES ASSUME PoolIInv, NEW r \in Requests, NEW v \in Rows(r),
                    fetch[r][v].step = "done", fetch[r][v].answer # NoAnswer,
                    Settled(PoolOf(r, v)), accounts[PoolOf(r, v)][dataAt[r]].active
             PROVE  LET answer == fetch[r][v].answer
                        acc == accounts[PoolOf(r, v)][dataAt[r]]
                    IN /\ answer.type = Type(acc)
                       /\ Decoded(acc) # NoData => answer.data = Decoded(acc)
  BY DEF AgreesWithItsBlock
<1>1. v \in DOMAIN pools[r] /\ v \in Validators /\ pools[r][v].Addr \in Addresses
  BY DEF Rows, PoolIInv, TypeInv, TypeOK, IsPools
<1>2. PoolOf(r, v) \in Addresses /\ dataAt[r] \in Blocks
  BY <1>1 DEF PoolOf, PoolIInv, FetchInv, FetchTypeOK
<1>3. Sourced(r, v)
  BY <1>1 DEF PoolIInv, FetchInv
<1> QED
  BY <1>1, <1>2, <1>3, SourcedAgrees DEF PoolIInv

-------------------------------------------------------------------------------
(* The steps *)

\* The accounts are fixed, and so is what was once true of them.
LEMMA WasTrueIsStable ==
    ASSUME accounts' = accounts, NEW a, NEW info
    PROVE  WasTrue(a, info)' <=> WasTrue(a, info)
  BY DEF WasTrue, Keeps, Answer, Type, Decoded, IsBare

\* The source of an answer stays while its request's pools and block do.
LEMMA SourcedIsStable ==
    ASSUME NEW r, NEW v, Sourced(r, v), accounts' = accounts,
           pools'[r] = pools[r], dataAt'[r] = dataAt[r],
           fetch'[r][v].answer = fetch[r][v].answer
    PROVE  Sourced(r, v)'
  BY WasTrueIsStable DEF Sourced, PoolOf, Type, Decoded, IsBare, Answer

LEMMA KeptIsStable ==
    ASSUME KeptWasTrue, accounts' = accounts, typeCache' = typeCache
    PROVE  KeptWasTrue'
  BY WasTrueIsStable DEF KeptWasTrue

LEMMA PoolInitEstablishes == PoolInit => PoolIInv
<1> SUFFICES ASSUME PoolInit PROVE PoolIInv
  OBVIOUS
<1>1. TypeInv
  BY TypeInit DEF PoolInit
<1>2. 0 \in Blocks
  BY MaxBlockAssumption DEF Blocks
<1>3. NoInfo \in Answers /\ NotRunning \in [step : Steps, answer : Answers]
  BY DEF NoInfo, NoAnswer, Answer, Answers, NotRunning, Goroutine, Steps
<1>4. FetchInv
  BY <1>2, <1>3, NoAnswerIsTyped DEF PoolInit, FetchInv, FetchTypeOK, Steps
<1>5. KeptWasTrue
  BY DEF PoolInit, KeptWasTrue
<1> QED
  BY <1>1, <1>4, <1>5 DEF PoolIInv

\* A request begins again when its goroutines are joined.
LEMMA BeginKeeps ==
    ASSUME PoolIInv, NEW r \in Requests, BeginAnew(r)
    PROVE  FetchInv' /\ KeptWasTrue'
<1>1. /\ accounts' = accounts /\ typeCache' = typeCache /\ dataAt' = dataAt
      /\ fetch' = [fetch EXCEPT ![r] = [v \in Validators |-> NotRunning]]
  BY DEF BeginAnew
<1>2. NotRunning \in [step : Steps, answer : Answers] /\ NotRunning.step = "none"
  BY NoAnswerIsTyped DEF NotRunning, Goroutine, Steps
<1>3. FetchTypeOK'
  BY <1>1, <1>2 DEF PoolIInv, FetchInv, FetchTypeOK, Steps
<1>4. ASSUME NEW q \in Requests, NEW v \in Validators, fetch'[q][v].step # "none"
      PROVE  q # r /\ fetch'[q] = fetch[q]
  BY <1>1, <1>2, <1>4 DEF PoolIInv, FetchInv, FetchTypeOK
<1>5. ASSUME NEW q \in Requests, q # r
      PROVE  pc'[q] = pc[q] /\ pools'[q] = pools[q]
  BY <1>5 DEF BeginAnew, Begin, PoolIInv, TypeInv, TypeOK
<1>6. ASSUME NEW q \in Requests, NEW v \in Validators, fetch'[q][v].step # "none"
      PROVE  pc'[q] = "done" /\ v \in DOMAIN pools'[q]
  BY <1>4, <1>5, <1>6 DEF PoolIInv, FetchInv
<1>7. ASSUME NEW q \in Requests, NEW v \in Validators, fetch'[q][v].step = "done"
      PROVE  Sourced(q, v)'
  BY <1>1, <1>4, <1>5, <1>7, SourcedIsStable DEF PoolIInv, FetchInv
<1> QED
  BY <1>1, <1>3, <1>6, <1>7, KeptIsStable DEF PoolIInv, FetchInv

\* A request that still waits for its pools has no goroutines.
LEMMA ElectionStepKeeps ==
    ASSUME PoolIInv, NEW r \in Requests,
           Unread(r) \/ Hit(r) \/ Miss(r) \/ Store(r), UNCHANGED poolVars
    PROVE  FetchInv' /\ KeptWasTrue'
<1>1. accounts' = accounts /\ typeCache' = typeCache /\ dataAt' = dataAt /\ fetch' = fetch
  BY DEF poolVars
<1>2. pc[r] # "done"
  BY DEF Unread, Hit, Miss, Store
<1>3. ASSUME NEW q \in Requests, q # r
      PROVE  pc'[q] = pc[q] /\ pools'[q] = pools[q]
  BY <1>3 DEF Unread, Hit, Miss, Store, Done, PoolIInv, TypeInv, TypeOK
<1>4. ASSUME NEW q \in Requests, NEW v \in Validators, fetch'[q][v].step # "none"
      PROVE  q # r /\ pc'[q] = "done" /\ v \in DOMAIN pools'[q]
  BY <1>1, <1>2, <1>3, <1>4 DEF PoolIInv, FetchInv
<1>5. ASSUME NEW q \in Requests, NEW v \in Validators, fetch'[q][v].step = "done"
      PROVE  Sourced(q, v)'
  BY <1>1, <1>3, <1>4, <1>5, SourcedIsStable DEF PoolIInv, FetchInv
<1>6. FetchTypeOK'
  BY <1>1 DEF PoolIInv, FetchInv, FetchTypeOK
<1> QED
  BY <1>1, <1>4, <1>5, <1>6, KeptIsStable DEF PoolIInv, FetchInv

\* Goroutines start without an answer.
LEMMA ForkKeeps ==
    ASSUME PoolIInv, NEW r \in Requests, Fork(r)
    PROVE  FetchInv' /\ KeptWasTrue'
<1> DEFINE started == [v \in Validators |->
                         IF v \in Rows(r) THEN Goroutine("load", NoAnswer) ELSE NotRunning]
<1>1. /\ accounts' = accounts /\ typeCache' = typeCache /\ pools' = pools /\ pc' = pc
      /\ pc[r] = "done" /\ fetch' = [fetch EXCEPT ![r] = started]
  BY DEF Fork, vars
<1>2. PICK b \in Blocks : dataAt' = [dataAt EXCEPT ![r] = b]
  BY DEF Fork
<1>3. \A v \in Validators : /\ started[v] \in [step : Steps, answer : Answers]
                            /\ started[v].step # "done"
                            /\ started[v].step # "none" => v \in DOMAIN pools[r]
  BY NoAnswerIsTyped DEF Goroutine, NotRunning, Steps, Rows
<1>4. FetchTypeOK'
  BY <1>1, <1>2, <1>3 DEF PoolIInv, FetchInv, FetchTypeOK, Steps
<1>5. ASSUME NEW q \in Requests, q # r
      PROVE  fetch'[q] = fetch[q] /\ dataAt'[q] = dataAt[q]
  BY <1>1, <1>2, <1>5 DEF PoolIInv, FetchInv, FetchTypeOK
<1>6. fetch'[r] = started
  BY <1>1 DEF PoolIInv, FetchInv, FetchTypeOK
<1>7. ASSUME NEW q \in Requests, NEW v \in Validators, fetch'[q][v].step # "none"
      PROVE  pc'[q] = "done" /\ v \in DOMAIN pools'[q]
  BY <1>1, <1>3, <1>5, <1>6, <1>7 DEF PoolIInv, FetchInv
<1>8. ASSUME NEW q \in Requests, NEW v \in Validators, fetch'[q][v].step = "done"
      PROVE  Sourced(q, v)'
  <2>1. q # r
    BY <1>3, <1>6, <1>8
  <2> QED
    BY <1>1, <1>5, <1>8, <2>1, SourcedIsStable DEF PoolIInv, FetchInv
<1> QED
  BY <1>1, <1>4, <1>7, <1>8, KeptIsStable DEF PoolIInv, FetchInv

\* One goroutine goes on, and the pools stay: what is to be shown of its step is
\* that its answer has a source, and what it keeps was true.
LEMMA GoroutineStep ==
    ASSUME PoolIInv, NEW r \in Requests, NEW v \in Validators,
           NEW g \in [step : Steps \ {"none"}, answer : Answers],
           UNCHANGED <<vars, accounts, dataAt>>,
           fetch[r][v].step # "none",
           fetch' = [fetch EXCEPT ![r][v] = g],
           g.step = "done" => Sourced(r, v)',
           typeCache' \in [Addresses -> Answers]
    PROVE  FetchInv'
<1>1. accounts' = accounts /\ pools' = pools /\ pc' = pc /\ dataAt' = dataAt
  BY DEF vars
<1>2. FetchTypeOK'
  BY <1>1 DEF PoolIInv, FetchInv, FetchTypeOK, Steps
<1>3. ASSUME NEW q \in Requests, NEW w \in Validators, ~(q = r /\ w = v)
      PROVE  fetch'[q][w] = fetch[q][w]
  BY <1>3 DEF PoolIInv, FetchInv, FetchTypeOK
<1>4. fetch'[r][v] = g
  BY DEF PoolIInv, FetchInv, FetchTypeOK
<1>5. ASSUME NEW q \in Requests, NEW w \in Validators, fetch'[q][w].step # "none"
      PROVE  pc'[q] = "done" /\ w \in DOMAIN pools'[q]
  BY <1>1, <1>3, <1>5 DEF PoolIInv, FetchInv
<1>6. ASSUME NEW q \in Requests, NEW w \in Validators, fetch'[q][w].step = "done"
      PROVE  Sourced(q, w)'
  BY <1>1, <1>3, <1>4, <1>6, SourcedIsStable DEF PoolIInv, FetchInv
<1> QED
  BY <1>1, <1>2, <1>5, <1>6 DEF PoolIInv, FetchInv

LEMMA LookupKeeps ==
    ASSUME PoolIInv, NEW r \in Requests, NEW v \in Validators, Lookup(r, v)
    PROVE  FetchInv' /\ KeptWasTrue'
<1> DEFINE a == PoolOf(r, v)
           acc == accounts[a][dataAt[r]]
<1>1. fetch[r][v].step # "none" /\ UNCHANGED <<vars, accounts, dataAt>>
  BY DEF Lookup, Recall, NotKept, Detect, StateFails, Finish
<1>2. v \in DOMAIN pools[r] /\ a \in Addresses /\ dataAt[r] \in Blocks
  BY <1>1 DEF PoolIInv, FetchInv, FetchTypeOK, TypeInv, TypeOK, IsPools, PoolOf
<1>3. accounts' = accounts /\ pools' = pools /\ dataAt' = dataAt /\ PoolOf(r, v)' = a
  BY <1>1 DEF vars, PoolOf
<1>4. typeCache \in [Addresses -> Answers] /\ fetch[r][v] \in [step : Steps, answer : Answers]
  BY DEF PoolIInv, FetchInv, FetchTypeOK, Steps
<1>5. ASSUME NEW g, fetch' = [fetch EXCEPT ![r][v] = g]
      PROVE  fetch'[r][v] = g
  BY <1>5 DEF PoolIInv, FetchInv, FetchTypeOK
<1>6. CASE Recall(r, v)
  <2> DEFINE g == Goroutine("done", typeCache[a])
  <2>1. fetch' = [fetch EXCEPT ![r][v] = g] /\ typeCache' = typeCache /\ typeCache[a] # NoInfo
    BY <1>6 DEF Recall, Finish
  <2>2. g \in [step : Steps \ {"none"}, answer : Answers] /\ g.answer = typeCache[a]
    BY <1>2, <1>4 DEF Goroutine, Steps
  <2>3. WasTrue(a, typeCache[a])'
    BY <1>2, <1>3, <2>1, WasTrueIsStable DEF PoolIInv, KeptWasTrue
  <2>4. fetch'[r][v].answer = typeCache[a]
    <3>1. fetch'[r][v] = g
      BY <1>5, <2>1
    <3> QED
      BY <2>2, <3>1
  <2>5. Sourced(r, v)'
    BY <1>3, <2>1, <2>3, <2>4 DEF Sourced
  <2> QED
    BY <1>1, <1>3, <1>4, <2>1, <2>2, <2>5, GoroutineStep, KeptIsStable DEF PoolIInv
<1>7. CASE NotKept(r, v)
  <2> DEFINE g == [fetch[r][v] EXCEPT !.step = "state"]
  <2>1. fetch' = [fetch EXCEPT ![r][v] = g] /\ typeCache' = typeCache
    BY <1>7 DEF NotKept
  <2>2. g \in [step : Steps \ {"none"}, answer : Answers] /\ g.step # "done"
    BY <1>4 DEF Steps
  <2> QED
    BY <1>1, <1>3, <1>4, <2>1, <2>2, GoroutineStep, KeptIsStable DEF PoolIInv
<1>8. CASE Detect(r, v)
  <2> DEFINE answer == Answer(Type(acc), Decoded(acc))
             g == Goroutine("done", answer)
  <2>1. /\ fetch' = [fetch EXCEPT ![r][v] = g]
        /\ typeCache' = IF Keeps(acc) THEN [typeCache EXCEPT ![a] = answer] ELSE typeCache
    BY <1>8 DEF Detect, Finish
  <2>2. answer \in Answers
    BY <1>2, AccountIsTyped, DetectionIsTyped DEF PoolIInv, FetchInv
  <2>3. g \in [step : Steps \ {"none"}, answer : Answers] /\ g.answer = answer
    BY <2>2 DEF Goroutine, Steps
  <2>4. fetch'[r][v].answer = answer
    <3>1. fetch'[r][v] = g
      BY <1>5, <2>1
    <3> QED
      BY <2>3, <3>1
  <2>5. Sourced(r, v)'
    <3>1. answer' = answer
      BY <1>3 DEF Answer, Type, Decoded, IsBare
    <3> QED
      BY <1>3, <2>4, <3>1 DEF Sourced
  <2>6. typeCache' \in [Addresses -> Answers]
    BY <1>4, <2>1, <2>2
  <2>7. KeptWasTrue'
    <3>1. CASE Keeps(acc)
      <4>1. WasTrue(a, answer)
        BY <1>2, <3>1 DEF WasTrue
      <4>2. ASSUME NEW c \in Addresses, typeCache'[c] # NoInfo
            PROVE  WasTrue(c, typeCache'[c])
        <5>1. typeCache'[c] = IF c = a THEN answer ELSE typeCache[c]
          BY <1>4, <2>1, <3>1
        <5> QED
          BY <4>1, <4>2, <5>1 DEF PoolIInv, KeptWasTrue
      <4> QED
        BY <1>3, <4>2, WasTrueIsStable DEF KeptWasTrue
    <3>2. CASE ~Keeps(acc)
      BY <1>3, <2>1, <3>2, KeptIsStable DEF PoolIInv
    <3> QED
      BY <3>1, <3>2
  <2> QED
    BY <1>1, <2>1, <2>3, <2>5, <2>6, <2>7, GoroutineStep
<1>9. CASE StateFails(r, v)
  <2> DEFINE g == Goroutine("done", NoAnswer)
  <2>1. fetch' = [fetch EXCEPT ![r][v] = g] /\ typeCache' = typeCache
    BY <1>9 DEF StateFails, Finish
  <2>2. g \in [step : Steps \ {"none"}, answer : Answers] /\ g.answer = NoAnswer
    BY NoAnswerIsTyped DEF Goroutine, Steps
  <2>3. fetch'[r][v].answer = NoAnswer
    <3>1. fetch'[r][v] = g
      BY <1>5, <2>1
    <3> QED
      BY <2>2, <3>1
  <2>4. Sourced(r, v)'
    BY <2>3 DEF Sourced
  <2> QED
    BY <1>1, <1>3, <1>4, <2>1, <2>2, <2>4, GoroutineStep, KeptIsStable DEF PoolIInv
<1> QED
  BY <1>6, <1>7, <1>8, <1>9 DEF Lookup

LEMMA PoolNextPreserves == PoolIInv /\ [PoolNext]_allVars => PoolIInv'
<1> SUFFICES ASSUME PoolIInv, [PoolNext]_allVars PROVE PoolIInv'
  OBVIOUS
<1>1. TypeInv'
  BY PoolStepIsAStep, TypeNext DEF PoolIInv
<1>2. CASE UNCHANGED allVars
  <2>1. /\ accounts' = accounts /\ typeCache' = typeCache /\ dataAt' = dataAt
        /\ fetch' = fetch /\ pools' = pools /\ pc' = pc
    BY <1>2 DEF allVars, vars, poolVars
  <2>2. FetchTypeOK'
    BY <2>1 DEF PoolIInv, FetchInv, FetchTypeOK
  <2>3. ASSUME NEW q \in Requests, NEW v \in Validators, fetch'[q][v].step = "done"
        PROVE  Sourced(q, v)'
    BY <2>1, <2>3, SourcedIsStable DEF PoolIInv, FetchInv
  <2> QED
    BY <1>1, <2>1, <2>2, <2>3, KeptIsStable DEF PoolIInv, FetchInv
<1>3. CASE PoolNext
  BY <1>1, <1>3, BeginKeeps, ElectionStepKeeps, ForkKeeps, LookupKeeps DEF PoolNext, PoolIInv
<1> QED
  BY <1>2, <1>3

\* The cache of pool types, the goroutines and their answers are well formed.
THEOREM PoolTypeCorrect == PoolSpec => []PoolTypeOK
<1>1. PoolIInv => PoolTypeOK
  BY DEF PoolIInv, FetchInv, PoolTypeOK, IInv, TypeInv
<1> QED
  BY <1>1, PoolInitEstablishes, PoolNextPreserves, PTL DEF PoolSpec

\* For any number of requests, validators, pools and blocks: the type and the data
\* a validator is shown are those of its pool at its request's own block, if
\* the contract was not replaced and could be read.
THEOREM AgreesWithItsBlockThm == PoolSpec => []AgreesWithItsBlock
  BY PoolInvImplies, PoolInitEstablishes, PoolNextPreserves, PTL DEF PoolSpec
=============================================================================
