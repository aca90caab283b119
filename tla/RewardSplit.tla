----------------------------- MODULE RewardSplit -----------------------------
(* computeValidatorRewards (src/service/shared.go), with the rows
   buildValidatorRows gives it and MulDiv of src/utils/math.go: how the elector's
   bonuses are split among the validators of a round by true stake, and a
   nominator pool's part among its nominators by deposit.

   One goroutine per validator fills in the place of the answer that its row has
   after the sort.  A division by zero in one of them stops the process.     *)
EXTENDS Integers, FiniteSets, Functions

CONSTANTS Validators,   \* the validators of config param 34
          Nominators,   \* who may have a deposit in a pool
          Pools,        \* the pools a validator's stake may come from
          RewardPools   \* the totals to distribute, in nanoTON

\* A pool as it is read: its type, what the elector holds of it (true stake and
\* credit), its validator's share in 1/10000, and its nominators' deposits.  A
\* deposit of 0 is a nominator whose first deposit still pends.
PoolKinds == {"none", "nominator", "other"}
Uint16 == 0 .. 65535
ASSUME PoolsAssumption ==
    \A p \in Pools : /\ p.kind \in PoolKinds
                     /\ p.trueStake \in Nat /\ p.credit \in Nat
                     /\ p.rewardShare \in Uint16
                     /\ p.depositors \subseteq Nominators
                     /\ p.amounts \in [Nominators -> Nat]
                     /\ p.kind = "none" => p.trueStake = 0

\* A pool stakes what its nominators have deposited; the elector has locked it or
\* holds it as credit.
ASSUME DepositsAssumption ==
    \A p \in Pools : p.kind = "nominator" =>
        SumFunctionOnSet(p.amounts, p.depositors) <= p.trueStake + p.credit

ASSUME RewardPoolsAssumption == RewardPools \subseteq Nat
ASSUME ValidatorsAssumption == IsFiniteSet(Validators) /\ IsFiniteSet(Nominators)

VARIABLES pool,         \* each validator's pool
          rewardPool,   \* the total to distribute
          shallow,      \* the query's shallow flag
          phase,        \* "rows", "entries", "answered" or "panicked"
          rank,         \* the place of each validator's row in rewardRows
          slots,        \* validatorRewards, by place
          filled,       \* the validators whose goroutine has ended
          creditRead    \* history: where compute_returned_stake was answered

splitVars == <<pool, rewardPool, shallow, phase, rank, slots, filled, creditRead>>
input == <<pool, rewardPool, shallow>>

Unset == -1
Places == 1 .. Cardinality(Validators)
NoEntry == [validator |-> Unset, reward |-> Unset, totalStake |-> Unset,
            split |-> FALSE, rewards |-> [n \in {} |-> 0], stakes |-> [n \in {} |-> 0]]

SplitInit == /\ pool \in [Validators -> Pools]
             /\ rewardPool \in RewardPools
             /\ shallow \in BOOLEAN
             /\ phase = "rows"
             /\ rank = [v \in Validators |-> 0]
             /\ slots = [p \in Places |-> NoEntry]
             /\ filled = {}
             /\ creditRead = {}

-------------------------------------------------------------------------------
(* The arithmetic *)

\* (Mutant of MulDiv: it rounds up.)
MulDivUp(a, b, c) == (a * b + c - 1) \div c

\* big.Int's Div; the program divides nothing negative here.
MulDiv(a, b, c) == (a * b) \div c

trueStake == [v \in Validators |-> pool[v].trueStake]

\* (Mutant of totalTrueStake: only the nominator pools are counted.)
totalNominatorStake ==
    SumFunctionOnSet(trueStake, {v \in Validators : pool[v].kind = "nominator"})

totalTrueStake == SumFunction(trueStake)

validatorReward(v) ==
    IF totalTrueStake > 0 THEN MulDiv(rewardPool, trueStake[v], totalTrueStake) ELSE 0

basisPoints == 10000

\* (Mutant of selfReward: the share is not capped at the whole.)
selfRewardUncapped(v) == MulDiv(validatorReward(v), pool[v].rewardShare, basisPoints)

\* The validator's own cut of a nominator pool's reward, at most all of it.
selfReward(v) ==
    LET cut == MulDiv(validatorReward(v), pool[v].rewardShare, basisPoints)
    IN IF cut > validatorReward(v) THEN validatorReward(v) ELSE cut

\* fetchPoolData: the sum over the nominators.
NominatorsAmount(v) == SumFunctionOnSet(pool[v].amounts, pool[v].depositors)

\* (Mutant of nominatorReward: of the whole reward.)
nominatorRewardOfAll(v, n) ==
    MulDiv(validatorReward(v), pool[v].amounts[n], NominatorsAmount(v))

nominatorReward(v, n) ==
    MulDiv(validatorReward(v) - selfReward(v), pool[v].amounts[n], NominatorsAmount(v))

\* (Mutant of nominatorEffectiveStake: the ratio turned over.)
nominatorEffectiveInverted(v, n, totalStake) ==
    MulDiv(pool[v].amounts[n], totalStake, trueStake[v])

nominatorEffectiveStake(v, n, totalStake) ==
    MulDiv(pool[v].amounts[n], trueStake[v], totalStake)

-------------------------------------------------------------------------------
(* The goroutines *)

\* sort.Slice by descending stake; it leaves equal stakes in any order.
SortedRanks == {r \in [Validators -> Places] :
                  \A v, w \in Validators : v # w =>
                      r[v] # r[w] /\ (trueStake[v] > trueStake[w] => r[v] < r[w])}

Rank == /\ phase = "rows"
        /\ rank' \in SortedRanks
        /\ phase' = "entries"
        /\ UNCHANGED <<input, slots, filled, creditRead>>

\* (Mutant of Slot: entries in the order in which the goroutines end.)
SlotAsTheyEnd(v) == Cardinality(filled) + 1

\* Where the goroutine of a validator writes: the i of its row.
Slot(v) == rank[v]

Fill(v, e) == /\ slots' = [slots EXCEPT ![Slot(v)] = e]
              /\ filled' = filled \cup {v}
              /\ UNCHANGED <<input, phase, rank>>

Pending(v) == phase = "entries" /\ v \notin filled

\* What every entry has.
Basic(v) == [NoEntry EXCEPT !.validator = v, !.reward = validatorReward(v)]

\* shallow=1, or a validator none of the listed elections knows.
FillBasic(v) == /\ Pending(v)
                /\ shallow \/ pool[v].kind = "none"
                /\ Fill(v, Basic(v))
                /\ UNCHANGED creditRead

\* compute_returned_stake; a failure counts as no credit.
CreditOf(v, answered) == IF answered THEN pool[v].credit ELSE 0
NoteCredit(v, answered) == creditRead' = IF answered THEN creditRead \cup {v} ELSE creditRead

\* What the entry of a pool has whose stake is all one owner's.
Whole(v, totalStake) == [Basic(v) EXCEPT !.totalStake = totalStake]

\* Another type of pool, or one whose data could not be read.
FillPool(v) == /\ Pending(v)
               /\ ~shallow /\ pool[v].kind # "none"
               /\ \E answered \in BOOLEAN :
                     /\ Fill(v, Whole(v, trueStake[v] + CreditOf(v, answered)))
                     /\ NoteCredit(v, answered)

\* Some division of the nominators' loop has a zero divisor.
DividesByZero(v, totalStake) ==
    pool[v].depositors # {} /\ (NominatorsAmount(v) = 0 \/ totalStake = 0)

Splits(v) == Pending(v) /\ ~shallow /\ pool[v].kind = "nominator"

\* What the entry of a nominator pool has.
Shared(v, totalStake) ==
    [validator  |-> v,
     reward     |-> validatorReward(v),
     totalStake |-> totalStake,
     split      |-> TRUE,
     rewards    |-> [n \in pool[v].depositors |-> nominatorReward(v, n)],
     stakes     |-> [n \in pool[v].depositors |-> nominatorEffectiveStake(v, n, totalStake)]]

\* A nominator pool: its part of the reward goes to the nominators.
FillNominators(v) ==
    /\ Splits(v)
    /\ \E answered \in BOOLEAN :
          LET totalStake == trueStake[v] + CreditOf(v, answered)
          IN /\ ~DividesByZero(v, totalStake)
             /\ Fill(v, Shared(v, totalStake))
             /\ NoteCredit(v, answered)

Panics(v) == /\ Splits(v)
             /\ \E answered \in BOOLEAN :
                   DividesByZero(v, trueStake[v] + CreditOf(v, answered))
             /\ phase' = "panicked"
             /\ UNCHANGED <<input, rank, slots, filled, creditRead>>

\* g.Wait() returns and the answer is written.
Answer == /\ phase = "entries" /\ filled = Validators
          /\ phase' = "answered"
          /\ UNCHANGED <<input, rank, slots, filled, creditRead>>

SplitNext == \/ Rank \/ Answer
             \/ \E v \in Validators :
                   FillBasic(v) \/ FillPool(v) \/ FillNominators(v) \/ Panics(v)

SplitSpec == SplitInit /\ [][SplitNext]_splitVars

-------------------------------------------------------------------------------
(* Correctness *)

\* What the answer has where a validator's row was.
Entry(v) == slots[rank[v]]

SplitTypeOK == /\ phase \in {"rows", "entries", "answered", "panicked"}
               /\ rank \in [Validators -> 0 .. Cardinality(Validators)]
               /\ filled \subseteq Validators /\ creditRead \subseteq filled
               /\ \A v \in filled : Entry(v).reward \in 0 .. rewardPool

\* The validators get no more than there is to distribute; of it, less than one
\* nanoTON per validator is lost to rounding, unless nobody has any stake.
RewardsFitThePool ==
    phase = "answered" =>
        LET paid == SumFunction([v \in Validators |-> Entry(v).reward])
        IN /\ paid <= rewardPool
           /\ totalTrueStake > 0 /\ Validators # {} => rewardPool - paid < Cardinality(Validators)

\* A pool's nominators get what its validator leaves them, less than one
\* nanoTON each lost to rounding, whatever share the pool's contract names.
NominatorsGetTheRest ==
    phase = "answered" => \A v \in Validators :
        LET rest == Entry(v).reward - selfReward(v)
            paid == SumFunction(Entry(v).rewards)
        IN Entry(v).split /\ pool[v].depositors # {} =>
              paid \in 0 .. rest /\ rest - paid < Cardinality(pool[v].depositors)

\* In whatever order the goroutines end: every validator has a place of the answer,
\* and a better place never comes with a smaller reward (the order is that of the
\* stakes, the rewards are rounded).
RanksFollowRewards ==
    phase = "answered" =>
        /\ {slots[p].validator : p \in Places} = Validators
        /\ \A p, q \in Places : p < q => slots[p].reward >= slots[q].reward

LockedStakes(v) == SumFunction(Entry(v).stakes)

\* The nominators of a pool are given no more effective stake than the elector
\* locked.  Where the call for the credit fails they may be given the pool's
\* whole deposits: what is locked and the credit that went unread.
StakesWithinLocked ==
    phase = "answered" => \A v \in Validators :
        LockedStakes(v) <= IF v \in creditRead THEN trueStake[v]
                           ELSE trueStake[v] + pool[v].credit

\* README.md: a nominator's weight is the "Nominator's share of the total
\* nominators' deposit (0-1)", so a pool's list of nominators can be weighed.
\* The code divides by that total also when every deposit still pends.
NominatorsCanBeWeighed == phase # "panicked"
=============================================================================
