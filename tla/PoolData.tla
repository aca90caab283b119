------------------------------- MODULE PoolData -------------------------------
(* fetchPoolData (src/service/pool.go) on top of getAllPoolAddresses: once a
   request has its pools, a goroutine for each of its validators reads the
   account of the validator's pool, finds out its type, and decodes what it
   holds.  poolTypeCache keeps what it found out, except of nominator pools, for
   every later request of the process and whatever block it reads.

   The accounts are contracts, not code of this repository.                  *)
EXTENDS PastElections

CONSTANTS Contents,  \* what the data of a pool decodes to: roles, nominators
          Accounts   \* what the pools' accounts may hold, block by block

NominatorV10 == "nominator-pool-v1.0"
SingleV10 == "single-nominator-pool-v1.0"
SingleV11 == "single-nominator-pool-v1.1"
Other == "other"
Unknown == ""

NoCode == "no code"
NoData == "no data"
Garbled == "garbled"   \* data that does not decode

ASSUME ContentsAssumption == {NoData, Garbled} \cap Contents = {}

AccountStates == [active : BOOLEAN,
                  code   : {NominatorV10, SingleV10, SingleV11, "another", NoCode},
                  data   : Contents \cup {NoData, Garbled}]

ASSUME AccountsAssumption == Accounts \subseteq [Addresses -> [Blocks -> AccountStates]]

VARIABLES accounts,   \* the pools' accounts, fixed
          typeCache,  \* poolTypeCache
          dataAt,     \* the block each request reads its pools' accounts at
          fetch       \* the goroutine of each request and validator

poolVars == <<accounts, typeCache, dataAt, fetch>>
allVars == <<vars, poolVars>>

\* What fetchPoolData returns, and what it keeps.
Answer(type, data) == [type |-> type, data |-> data]
NoAnswer == Answer(Unknown, NoData)
NoInfo == Answer(Unknown, NoData)

Goroutine(step, answer) == [step |-> step, answer |-> answer]
NotRunning == Goroutine("none", NoAnswer)

PoolInit == /\ Init
            /\ accounts \in Accounts
            /\ typeCache = [a \in Addresses |-> NoInfo]
            /\ dataAt = [r \in Requests |-> 0]
            /\ fetch = [r \in Requests |-> [v \in Validators |-> NotRunning]]

-------------------------------------------------------------------------------
(* What an account is taken for *)

IsBare(acc) == acc.code = NoCode \/ acc.data = NoData

\* poolTypeByCodeHash, and what is not a pool.
Type(acc) == CASE ~acc.active -> Unknown
               [] acc.active /\ (IsBare(acc) \/ acc.code = "another") -> Other
               [] OTHER -> acc.code

\* (Mutant of Decoded: the error of the decoder is not looked at.)
DecodedAnyhow(acc) == IF Type(acc) \in {Unknown, Other} THEN NoData ELSE acc.data

Decoded(acc) == IF Type(acc) \in {Unknown, Other} \/ acc.data = Garbled THEN NoData
                ELSE acc.data

\* (Mutant of Keeps: whatever decodes is kept, nominators included.)
KeepsAll(acc) == Type(acc) = Other \/ Decoded(acc) # NoData

\* A nominator pool is never kept, nor what could not be read.
Keeps(acc) == \/ Type(acc) = Other
              \/ Type(acc) \in {SingleV10, SingleV11} /\ Decoded(acc) # NoData

-------------------------------------------------------------------------------
\* The validators of the round whose pools are known, each given a goroutine.
Rows(r) == {v \in DOMAIN pools[r] : history.frozen[history.current[at[r]]][v] > 0}

Joined(r) == \A v \in Validators : fetch[r][v].step \in {"none", "done"}

BeginAnew(r) == /\ Joined(r) /\ Begin(r)
                /\ fetch' = [fetch EXCEPT ![r] = [v \in Validators |-> NotRunning]]
                /\ UNCHANGED <<accounts, typeCache, dataAt>>

\* A request about a block reads the accounts at that block, one about a round at
\* the block after the round's last, where the pools were read.
Fork(r) == /\ pc[r] = "done" /\ pools[r] # NoPools
           /\ fetch[r] = [v \in Validators |-> NotRunning]
           /\ \E b \in {at[r], at[r] + 1} \cap Blocks : dataAt' = [dataAt EXCEPT ![r] = b]
           /\ fetch' = [fetch EXCEPT ![r] = [v \in Validators |->
                           IF v \in Rows(r) THEN Goroutine("load", NoAnswer) ELSE NotRunning]]
           /\ UNCHANGED <<vars, accounts, typeCache>>

PoolOf(r, v) == pools[r][v].Addr

Finish(r, v, answer) ==
    /\ fetch' = [fetch EXCEPT ![r][v] = Goroutine("done", answer)]
    /\ UNCHANGED <<vars, accounts, dataAt>>

\* The fast path: a type found out before, at whatever block.
Recall(r, v) == /\ fetch[r][v].step = "load"
                /\ typeCache[PoolOf(r, v)] # NoInfo
                /\ Finish(r, v, typeCache[PoolOf(r, v)])
                /\ UNCHANGED typeCache

NotKept(r, v) == /\ fetch[r][v].step = "load"
                 /\ typeCache[PoolOf(r, v)] = NoInfo
                 /\ fetch' = [fetch EXCEPT ![r][v].step = "state"]
                 /\ UNCHANGED <<vars, accounts, typeCache, dataAt>>

\* GetAccountState at the request's block, the detection and the decoding.
Detect(r, v) ==
    LET acc == accounts[PoolOf(r, v)][dataAt[r]]
        answer == Answer(Type(acc), Decoded(acc))
    IN /\ fetch[r][v].step = "state"
       /\ Finish(r, v, answer)
       /\ typeCache' = IF Keeps(acc) THEN [typeCache EXCEPT ![PoolOf(r, v)] = answer]
                       ELSE typeCache

\* The account cannot be read: no type, and nothing is kept.
StateFails(r, v) == /\ fetch[r][v].step = "state"
                    /\ Finish(r, v, NoAnswer)
                    /\ UNCHANGED typeCache

Lookup(r, v) == Recall(r, v) \/ NotKept(r, v) \/ Detect(r, v) \/ StateFails(r, v)

PoolNext == \E r \in Requests :
                \/ BeginAnew(r)
                \/ (Unread(r) \/ Hit(r) \/ Miss(r) \/ Store(r)) /\ UNCHANGED poolVars
                \/ Fork(r)
                \/ \E v \in Validators : Lookup(r, v)

PoolSpec == PoolInit /\ [][PoolNext]_allVars

-------------------------------------------------------------------------------
(* Correctness *)

Answers == [type : {Unknown, Other, NominatorV10, SingleV10, SingleV11},
            data : Contents \cup {NoData}]

FetchTypeOK ==
    /\ typeCache \in [Addresses -> Answers]
    /\ dataAt \in [Requests -> Blocks]
    /\ fetch \in [Requests -> [Validators ->
                     [step : {"none", "load", "state", "done"}, answer : Answers]]]

PoolTypeOK == TypeOK /\ FetchTypeOK

\* The code of pool a is set once, and the roles of a single nominator never
\* change.  What a nominator pool holds may.
Settled(a) ==
    \A b, c \in Blocks :
        LET x == accounts[a][b]
            y == accounts[a][c]
        IN x.active /\ y.active =>
              /\ Type(x) = Type(y)
              /\ Type(x) \in {SingleV10, SingleV11} /\ NoData \notin {Decoded(x), Decoded(y)}
                    => Decoded(x) = Decoded(y)

\* The type and the data a validator is shown are those of its pool at its
\* request's own block, though others kept them from other blocks, unless they
\* could not be read: above all the nominators, who change from block to block.
AgreesWithItsBlock ==
    \A r \in Requests : \A v \in Rows(r) :
        LET answer == fetch[r][v].answer
            acc == accounts[PoolOf(r, v)][dataAt[r]]
        IN fetch[r][v].step = "done" /\ answer # NoAnswer /\ Settled(PoolOf(r, v)) /\ acc.active =>
              /\ answer.type = Type(acc)
              /\ Decoded(acc) # NoData => answer.data = Decoded(acc)
=============================================================================
