---------------------------- MODULE Validators_proofs ----------------------------
(* What GET /api/validators answers: the reward of one block (PerBlockRewards), how it is
   split among the validators and their nominators (RewardSplit), and what the roundcheck
   command makes of such a split (RoundCheck).

   Nothing here is by induction on an operator: a sum's equation comes from the fold it is
   defined by, and induction over a finite set is the choice of a smallest subset.       *)
EXTENDS PerBlockRewards, RoundCheck, TimedChain_proofs, FiniteSetTheorems, TLAPS

-------------------------------------------------------------------------------
(* Sums over finite sets *)

\* Induction: a nonempty set of subsets of a finite set has a smallest.
LEMMA SmallestSubset ==
    ASSUME NEW S, IsFiniteSet(S), NEW T \in SUBSET SUBSET S, T # {}
    PROVE  \E x \in T : \A y \in T : ~(y \subseteq x /\ y # x)
<1>1. IsWellFoundedOn(StrictSubsetOrdering(S), SUBSET S)
  BY FS_StrictSubsetOrderingWellFounded, FS_FiniteSubsetsOfFinite
<1>2. \E x \in T : \A y \in T : ~ (<<y, x>> \in StrictSubsetOrdering(S))
  BY <1>1, WFMin
<1> QED
  BY <1>2 DEF StrictSubsetOrdering

\* The element a sum takes out first.
First(s) == CHOOSE x \in s : TRUE

Rest(s) == s \ {First(s)}

\* What SumFunctionOnSet looks its result up in.
IsTable(f, g, S) ==
    g = [s \in SUBSET S |-> IF s = {} THEN 0 ELSE f[First(s)] + g[Rest(s)]]

LEMMA FirstIsIn == ASSUME NEW s, s # {} PROVE First(s) \in s
  BY DEF First

LEMMA SumIsTheTables ==
    ASSUME NEW f, NEW S, \E g : IsTable(f, g, S)
    PROVE  \E g : IsTable(f, g, S) /\ SumFunctionOnSet(f, S) = g[S]
<1> DEFINE h == CHOOSE g : g = [s \in SUBSET S |->
                                  IF s = {} THEN 0 ELSE f[First(s)] + g[s \ {First(s)}]]
<1>1. SumFunctionOnSet(f, S) = h[S]
  BY Zenon DEF SumFunctionOnSet, FoldFunctionOnSet, MapThenFoldSet, First
<1>2. h = [s \in SUBSET S |-> IF s = {} THEN 0 ELSE f[First(s)] + h[s \ {First(s)}]]
  BY Zenon DEF IsTable, Rest
<1> QED
  BY <1>1, <1>2, Zenon DEF IsTable, Rest

LEMMA SumEmpty == ASSUME NEW f PROVE SumFunctionOnSet(f, {}) = 0
<1>1. IsTable(f, [s \in SUBSET {} |-> 0], {})
  BY DEF IsTable
<1>2. PICK g : IsTable(f, g, {}) /\ SumFunctionOnSet(f, {}) = g[{}]
  BY <1>1, SumIsTheTables, Zenon
<1>3. g[{}] = 0
  BY <1>2 DEF IsTable
<1> QED
  BY <1>2, <1>3

\* Two tables agree where both have an entry.
LEMMA TablesAgree ==
    ASSUME NEW f, NEW T, IsFiniteSet(T), NEW S \in SUBSET T, NEW g, NEW h,
           IsTable(f, g, S), IsTable(f, h, T)
    PROVE  g[S] = h[S]
<1> DEFINE Bad == {s \in SUBSET S : g[s] # h[s]}
<1> SUFFICES ASSUME Bad # {} PROVE FALSE
  OBVIOUS
<1>1. PICK s \in Bad : \A y \in Bad : ~(y \subseteq s /\ y # s)
  <2>1. Bad \in SUBSET SUBSET S /\ IsFiniteSet(S)
    BY FS_Subset
  <2> HIDE DEF Bad
  <2> QED
    BY <2>1, SmallestSubset
<1>2. /\ s \in SUBSET S /\ s \in SUBSET T
      /\ g[s] = IF s = {} THEN 0 ELSE f[First(s)] + g[Rest(s)]
      /\ h[s] = IF s = {} THEN 0 ELSE f[First(s)] + h[Rest(s)]
  BY DEF IsTable
<1>3. s # {}
  BY <1>1, <1>2
<1>4. Rest(s) \in SUBSET S /\ Rest(s) \subseteq s /\ Rest(s) # s
  BY <1>2, <1>3, FirstIsIn DEF Rest
<1>5. g[Rest(s)] = h[Rest(s)]
  BY <1>1, <1>4
<1> QED
  BY <1>1, <1>2, <1>5

\* The equation of a sum, where there are the tables.
LEMMA SumFromTables ==
    ASSUME NEW f, NEW S, IsFiniteSet(S), S # {}, \E g : IsTable(f, g, S),
           \E g : IsTable(f, g, Rest(S))
    PROVE  SumFunctionOnSet(f, S) = f[First(S)] + SumFunctionOnSet(f, Rest(S))
<1>1. PICK g : IsTable(f, g, S) /\ SumFunctionOnSet(f, S) = g[S]
  BY SumIsTheTables
<1>2. PICK h : IsTable(f, h, Rest(S)) /\ SumFunctionOnSet(f, Rest(S)) = h[Rest(S)]
  BY SumIsTheTables
<1>3. Rest(S) \subseteq S /\ IsFiniteSet(Rest(S))
  BY FS_RemoveElement DEF Rest
<1>4. Rest(S) \in SUBSET S
  BY <1>3
<1>5. h[Rest(S)] = g[Rest(S)]
  <2>1. ASSUME NEW U \in SUBSET S, IsTable(f, h, U), IsTable(f, g, S) PROVE h[U] = g[U]
    BY <2>1, TablesAgree
  <2> QED
    BY <1>1, <1>2, <1>4, <2>1
<1>6. g[S] = f[First(S)] + g[Rest(S)]
  BY <1>1 DEF IsTable
<1> QED
  BY <1>1, <1>2, <1>5, <1>6

\* Every finite set has its table: that of its subsets' sums.
LEMMA TableExists ==
    ASSUME NEW f, NEW S, IsFiniteSet(S)
    PROVE  \E g : IsTable(f, g, S)
<1> DEFINE Bad == {T \in SUBSET S : ~ \E g : IsTable(f, g, T)}
<1> SUFFICES ASSUME Bad # {} PROVE FALSE
  OBVIOUS
<1>1. PICK T \in Bad : \A y \in Bad : ~(y \subseteq T /\ y # T)
  <2>1. Bad \in SUBSET SUBSET S
    OBVIOUS
  <2> HIDE DEF Bad
  <2> QED
    BY <2>1, SmallestSubset
<1>2. \A y \in SUBSET T : y # T => \E g : IsTable(f, g, y)
  BY <1>1
<1> DEFINE g == [s \in SUBSET T |->
                   IF s = {} THEN 0
                   ELSE IF s = T THEN f[First(T)] + SumFunctionOnSet(f, Rest(T))
                   ELSE SumFunctionOnSet(f, s)]
<1>3. \A s \in SUBSET T : s # {} => /\ Rest(s) \in SUBSET T /\ Rest(s) # T /\ Rest(s) # s
                                    /\ Rest(s) \subseteq s
  BY FirstIsIn DEF Rest
<1>4. SumFunctionOnSet(f, {}) = 0
  BY SumEmpty
<1>5. ASSUME NEW s \in SUBSET T, s # {}, s # T
      PROVE  SumFunctionOnSet(f, s) = f[First(s)] + SumFunctionOnSet(f, Rest(s))
  <2>1. IsFiniteSet(s)
    BY FS_Subset
  <2> QED
    BY <1>2, <1>3, <1>5, <2>1, SumFromTables
<1>6. ASSUME NEW s \in SUBSET T, s # {}
      PROVE  g[s] = f[First(s)] + g[Rest(s)]
  <2>1. g[Rest(s)] = SumFunctionOnSet(f, Rest(s))
    BY <1>3, <1>4, <1>6
  <2> QED
    BY <1>5, <1>6, <2>1
<1>7. IsTable(f, g, T)
  BY <1>6 DEF IsTable
<1> QED
  BY <1>1, <1>7

\* A sum takes one element out.
LEMMA SumNonempty ==
    ASSUME NEW f, NEW S, IsFiniteSet(S), S # {}
    PROVE  SumFunctionOnSet(f, S) = f[First(S)] + SumFunctionOnSet(f, Rest(S))
<1>1. IsFiniteSet(Rest(S))
  BY FS_RemoveElement DEF Rest
<1> QED
  BY <1>1, TableExists, SumFromTables

-------------------------------------------------------------------------------
(* Shares *)

LEMMA DivBounds ==
    ASSUME NEW m \in Nat, NEW d \in Nat \ {0}
    PROVE  m \div d \in Nat /\ d * (m \div d) <= m /\ m < d * (m \div d) + d
  OBVIOUS

LEMMA SumIsNat ==
    ASSUME NEW f, NEW S, IsFiniteSet(S), \A x \in S : f[x] \in Nat
    PROVE  SumFunctionOnSet(f, S) \in Nat
<1> DEFINE Bad == {s \in SUBSET S : SumFunctionOnSet(f, s) \notin Nat}
<1> SUFFICES ASSUME Bad # {} PROVE FALSE
  OBVIOUS
<1>1. PICK s \in Bad : \A y \in Bad : ~(y \subseteq s /\ y # s)
  <2>1. Bad \in SUBSET SUBSET S
    OBVIOUS
  <2> HIDE DEF Bad
  <2> QED
    BY <2>1, SmallestSubset
<1>2. s # {}
  <2>1. SumFunctionOnSet(f, {}) = 0
    BY SumEmpty
  <2> QED
    BY <2>1
<1>3. First(s) \in S /\ Rest(s) \in SUBSET S /\ Rest(s) \subseteq s /\ Rest(s) # s
  BY <1>2, FirstIsIn DEF Rest
<1>4. SumFunctionOnSet(f, s) = f[First(s)] + SumFunctionOnSet(f, Rest(s))
  BY <1>2, FS_Subset, SumNonempty
<1>5. SumFunctionOnSet(f, Rest(s)) \in Nat
  BY <1>1, <1>3
<1> QED
  BY <1>1, <1>3, <1>4, <1>5

\* Let r[x] be f[x] / d of c, rounded down.  Then the sum of the shares is the sum of
\* f over d of c, less what is lost to rounding.
LEMMA SharesAddUp ==
    ASSUME NEW f, NEW r, NEW S, IsFiniteSet(S), NEW c \in Nat, NEW d \in Nat \ {0},
           \A x \in S : /\ f[x] \in Nat /\ r[x] \in Nat
                        /\ d * r[x] <= c * f[x] /\ c * f[x] < d * r[x] + d
    PROVE  /\ d * SumFunctionOnSet(r, S) <= c * SumFunctionOnSet(f, S)
           /\ c * SumFunctionOnSet(f, S) + Cardinality(S)
                <= d * SumFunctionOnSet(r, S) + d * Cardinality(S)
<1> DEFINE Holds(s) ==
             /\ d * SumFunctionOnSet(r, s) <= c * SumFunctionOnSet(f, s)
             /\ c * SumFunctionOnSet(f, s) + Cardinality(s)
                  <= d * SumFunctionOnSet(r, s) + d * Cardinality(s)
           Bad == {s \in SUBSET S : ~Holds(s)}
<1> SUFFICES ASSUME Bad # {} PROVE FALSE
  OBVIOUS
<1>1. PICK s \in Bad : \A y \in Bad : ~(y \subseteq s /\ y # s)
  <2>1. Bad \in SUBSET SUBSET S
    OBVIOUS
  <2> HIDE DEF Bad
  <2> QED
    BY <2>1, SmallestSubset
<1>2. s # {}
  <2>1. Holds({})
    BY SumEmpty, FS_EmptySet
  <2> QED
    BY <1>1, <2>1
<1>3. First(s) \in s /\ Rest(s) \in SUBSET S /\ Rest(s) \subseteq s /\ Rest(s) # s
  BY <1>2, FirstIsIn DEF Rest
<1>4. Holds(Rest(s))
  BY <1>1, <1>3
<1>5. Cardinality(s) = Cardinality(Rest(s)) + 1 /\ Cardinality(Rest(s)) \in Nat
  BY <1>2, <1>3, FS_Subset, FS_RemoveElement, FS_CardinalityType DEF Rest
<1>6. /\ SumFunctionOnSet(f, s) = f[First(s)] + SumFunctionOnSet(f, Rest(s))
      /\ SumFunctionOnSet(r, s) = r[First(s)] + SumFunctionOnSet(r, Rest(s))
  BY <1>2, FS_Subset, SumNonempty
<1>7. /\ SumFunctionOnSet(f, Rest(s)) \in Nat /\ SumFunctionOnSet(r, Rest(s)) \in Nat
  BY <1>3, FS_Subset, SumIsNat
<1>8. \A a, b, t, u, n \in Nat :
        /\ d * a <= c * b /\ c * b < d * a + d
        /\ d * t <= c * u /\ c * u + n <= d * t + d * n
        => /\ d * (a + t) <= c * (b + u)
           /\ c * (b + u) + (n + 1) <= d * (a + t) + d * (n + 1)
  OBVIOUS
<1>9. Holds(s)
  BY <1>3, <1>4, <1>5, <1>6, <1>7, <1>8
<1> QED
  BY <1>1, <1>9

\* Shares of the whole never come to more than it, and little is lost.
LEMMA SharesOfTheWhole ==
    ASSUME NEW f, NEW r, NEW S, IsFiniteSet(S), NEW c \in Nat,
           SumFunctionOnSet(f, S) # 0,
           \A x \in S : f[x] \in Nat /\ r[x] = (c * f[x]) \div SumFunctionOnSet(f, S)
    PROVE  /\ SumFunctionOnSet(r, S) \in 0 .. c
           /\ c - SumFunctionOnSet(r, S) < Cardinality(S)
<1> DEFINE d == SumFunctionOnSet(f, S)
           p == SumFunctionOnSet(r, S)
<1>1. d \in Nat \ {0}
  BY SumIsNat
<1>2. \A x \in S : c * f[x] \in Nat
  OBVIOUS
<1>3. \A x \in S : /\ f[x] \in Nat /\ r[x] \in Nat
                   /\ d * r[x] <= c * f[x] /\ c * f[x] < d * r[x] + d
  BY <1>1, <1>2, DivBounds
<1>4. p \in Nat /\ Cardinality(S) \in Nat
  BY <1>3, SumIsNat, FS_CardinalityType
<1>5. d * p <= c * d /\ c * d + Cardinality(S) <= d * p + d * Cardinality(S)
  BY <1>1, <1>3, SharesAddUp
<1>6. S # {}
  BY <1>1, SumEmpty
<1>7. Cardinality(S) # 0
  BY <1>6, FS_EmptySet
<1> HIDE DEF d, p
<1>8. p <= c
  BY <1>1, <1>4, <1>5
<1>9. c - p < Cardinality(S)
  BY <1>1, <1>4, <1>5, <1>7
<1> QED
  BY <1>4, <1>8, <1>9 DEF p

-------------------------------------------------------------------------------
(* The reward split: the invariant *)

\* What the goroutine of a validator has left where its row was.
Written(v) ==
    LET totalStake == trueStake[v] + CreditOf(v, v \in creditRead)
    IN \/ Entry(v) = Basic(v) \/ Entry(v) = Whole(v, totalStake)
       \/ /\ pool[v].kind = "nominator" /\ ~DividesByZero(v, totalStake)
          /\ Entry(v) = Shared(v, totalStake)

SplitInv ==
    /\ pool \in [Validators -> Pools] /\ rewardPool \in RewardPools
    /\ phase \in {"rows", "entries", "answered", "panicked"}
    /\ rank \in IF phase = "rows" THEN [Validators -> {0}] ELSE SortedRanks
    /\ filled \subseteq Validators /\ creditRead \subseteq filled
    /\ DOMAIN slots = Places /\ slots = [p \in Places |-> slots[p]]
    /\ phase = "rows" => filled = {}
    /\ \A v \in filled : Written(v)
    /\ phase = "answered" => filled = Validators

\* What is computed of the input does not change with the rest.
LEMMA ComputedOfInput ==
    ASSUME UNCHANGED input
    PROVE  /\ pool' = pool /\ rewardPool' = rewardPool /\ SortedRanks' = SortedRanks
           /\ \A v : /\ trueStake[v]' = trueStake[v] /\ Basic(v)' = Basic(v)
                     /\ \A t : /\ Whole(v, t)' = Whole(v, t) /\ Shared(v, t)' = Shared(v, t)
                               /\ DividesByZero(v, t)' = DividesByZero(v, t)
                     /\ \A answered : CreditOf(v, answered)' = CreditOf(v, answered)
  BY DEF input, SortedRanks, trueStake, Basic, Whole, Shared, DividesByZero, CreditOf,
         validatorReward, totalTrueStake, MulDiv, nominatorReward, nominatorEffectiveStake,
         selfReward, NominatorsAmount, NoEntry

LEMMA SplitInitEstablishes == SplitInit => SplitInv
  BY DEF SplitInit, SplitInv

\* Every validator's row has a place, no two the same, and no place is left over:
\* otherwise the validators would have one place too few.
LEMMA RowsHavePlaces ==
    ASSUME NEW r \in SortedRanks
    PROVE  /\ \A v \in Validators : r[v] \in Places
           /\ \A v, w \in Validators : v # w => r[v] # r[w]
           /\ \A p \in Places : \E v \in Validators : r[v] = p
<1>1. r \in [Validators -> Places] /\ \A v, w \in Validators : v # w => r[v] # r[w]
  BY DEF SortedRanks
<1>2. ASSUME NEW p \in Places, \A v \in Validators : r[v] # p PROVE FALSE
  <2>1. Cardinality(Validators) \in Nat
    BY ValidatorsAssumption, FS_CardinalityType
  <2>2. IsFiniteSet(Places) /\ Cardinality(Places) = Cardinality(Validators)
    BY <2>1, FS_Interval DEF Places
  <2>3. /\ IsFiniteSet(Places \ {p})
        /\ Cardinality(Places \ {p}) = Cardinality(Validators) - 1
    BY <2>2, FS_RemoveElement
  <2>4. r \in [Validators -> Places \ {p}]
    BY <1>1, <1>2
  <2>5. Cardinality(Places \ {p}) < Cardinality(Validators)
    BY <2>1, <2>3
  <2>6. \E v, w \in Validators : v # w /\ r[v] = r[w]
    BY <2>3, <2>4, <2>5, ValidatorsAssumption, FS_PigeonHole
  <2> QED
    BY <1>1, <2>6
<1> QED
  BY <1>1, <1>2

\* A goroutine writes where its own row was, once.
LEMMA FillKeeps ==
    ASSUME SplitInv, NEW v \in Validators, v \notin filled, NEW answered \in BOOLEAN,
           NEW e, Fill(v, e), NoteCredit(v, answered),
           LET totalStake == trueStake[v] + CreditOf(v, answered)
           IN \/ e = Basic(v) \/ e = Whole(v, totalStake)
              \/ /\ pool[v].kind = "nominator" /\ ~DividesByZero(v, totalStake)
                 /\ e = Shared(v, totalStake),
           phase = "entries"
    PROVE  SplitInv'
<1>1. UNCHANGED input /\ phase' = phase /\ rank' = rank
  BY DEF Fill
<1>2. /\ filled' = filled \cup {v} /\ v \notin creditRead
      /\ v \in creditRead' <=> answered
      /\ \A w : w # v => (w \in creditRead' <=> w \in creditRead)
      /\ creditRead' \subseteq filled'
  BY DEF Fill, NoteCredit, SplitInv
<1>3. /\ DOMAIN slots' = Places /\ slots' = [p \in Places |-> slots'[p]]
      /\ Entry(v)' = e /\ \A w \in Validators : w # v => Entry(w)' = Entry(w)
  <2>1. rank \in SortedRanks
    BY DEF SplitInv
  <2>2. rank[v] \in Places /\ \A w \in Validators : w # v => rank[w] # rank[v] /\ rank[w] \in Places
    BY <2>1, RowsHavePlaces
  <2>3. slots' = [slots EXCEPT ![rank[v]] = e] /\ DOMAIN slots = Places
    BY DEF Fill, Slot, SplitInv
  <2> QED
    BY <1>1, <2>2, <2>3 DEF Entry
<1>4. ASSUME NEW w \in filled PROVE Written(w)'
  <2>1. w # v /\ Written(w) /\ Entry(w)' = Entry(w)
    BY <1>3 DEF SplitInv
  <2> QED
    BY <1>1, <1>2, <2>1, ComputedOfInput DEF Written
<1>5. Written(v)'
  <2>1. CreditOf(v, v \in creditRead') = CreditOf(v, answered)
    BY <1>2 DEF CreditOf
  <2> QED
    BY <1>1, <1>3, <2>1, ComputedOfInput DEF Written
<1> QED
  BY <1>1, <1>2, <1>3, <1>4, <1>5, ComputedOfInput DEF SplitInv

LEMMA SplitNextKeeps == SplitInv /\ [SplitNext]_splitVars => SplitInv'
<1> SUFFICES ASSUME SplitInv, [SplitNext]_splitVars PROVE SplitInv'
  OBVIOUS
<1>1. ASSUME UNCHANGED <<input, slots, filled, creditRead>>,
             \/ phase' = phase /\ rank' = rank
             \/ phase = "rows" /\ phase' = "entries" /\ rank' \in SortedRanks
             \/ phase = "entries" /\ phase' = "panicked" /\ rank' = rank
             \/ phase = "entries" /\ phase' = "answered" /\ rank' = rank /\ filled = Validators
      PROVE  SplitInv'
  <2>1. \A v \in filled : Written(v)'
    BY <1>1, ComputedOfInput DEF SplitInv, Written, Entry
  <2> QED
    BY <1>1, <2>1, ComputedOfInput DEF SplitInv
<1>2. CASE Rank
  BY <1>1, <1>2 DEF Rank
<1>3. CASE Answer
  BY <1>1, <1>3 DEF Answer
<1>4. CASE UNCHANGED splitVars
  BY <1>1, <1>4 DEF splitVars, input
<1>5. ASSUME NEW v \in Validators,
             FillBasic(v) \/ FillPool(v) \/ FillNominators(v) \/ Panics(v)
      PROVE  SplitInv'
  <2>1. CASE FillBasic(v)
    <3>1. NoteCredit(v, FALSE)
      BY <2>1 DEF FillBasic, NoteCredit
    <3> QED
      BY <2>1, <3>1, FillKeeps DEF FillBasic, Pending
  <2>2. CASE FillPool(v)
    <3>1. PICK answered \in BOOLEAN :
             /\ Fill(v, Whole(v, trueStake[v] + CreditOf(v, answered)))
             /\ NoteCredit(v, answered)
      BY <2>2 DEF FillPool
    <3> QED
      BY <2>2, <3>1, FillKeeps DEF FillPool, Pending
  <2>3. CASE FillNominators(v)
    <3>1. PICK answered \in BOOLEAN :
             /\ ~DividesByZero(v, trueStake[v] + CreditOf(v, answered))
             /\ Fill(v, Shared(v, trueStake[v] + CreditOf(v, answered)))
             /\ NoteCredit(v, answered)
      BY <2>3 DEF FillNominators
    <3> QED
      BY <2>3, <3>1, FillKeeps DEF FillNominators, Splits, Pending
  <2>4. CASE Panics(v)
    BY <1>1, <2>4 DEF Panics, Splits, Pending
  <2> QED
    BY <1>5, <2>1, <2>2, <2>3, <2>4
<1> QED
  BY <1>2, <1>3, <1>4, <1>5 DEF SplitNext

LEMMA SplitInvariance == SplitSpec => []SplitInv
  BY SplitInitEstablishes, SplitNextKeeps, PTL DEF SplitSpec

-------------------------------------------------------------------------------
(* The reward split: what the numbers come to *)

LEMMA SumBounds ==
    ASSUME NEW f, NEW S, IsFiniteSet(S), \A x \in S : f[x] \in Nat, NEW x \in S
    PROVE  f[x] <= SumFunctionOnSet(f, S)
<1> DEFINE Bad == {s \in SUBSET S : x \in s /\ f[x] > SumFunctionOnSet(f, s)}
<1> SUFFICES ASSUME Bad # {} PROVE FALSE
  <2>1. SumFunctionOnSet(f, S) \in Nat
    BY SumIsNat
  <2> QED
    BY <2>1
<1>1. PICK s \in Bad : \A y \in Bad : ~(y \subseteq s /\ y # s)
  <2>1. Bad \in SUBSET SUBSET S
    OBVIOUS
  <2> HIDE DEF Bad
  <2> QED
    BY <2>1, SmallestSubset
<1>2. First(s) \in S /\ Rest(s) \in SUBSET S /\ Rest(s) \subseteq s /\ Rest(s) # s
  BY <1>1, FirstIsIn DEF Rest
<1>3. SumFunctionOnSet(f, s) = f[First(s)] + SumFunctionOnSet(f, Rest(s))
  BY <1>1, FS_Subset, SumNonempty
<1>4. SumFunctionOnSet(f, Rest(s)) \in Nat
  BY <1>2, FS_Subset, SumIsNat
<1>5. x # First(s) => f[x] <= SumFunctionOnSet(f, Rest(s))
  BY <1>1, <1>2, <1>4 DEF Rest
<1> QED
  BY <1>1, <1>2, <1>3, <1>4, <1>5

\* A validator's pool is as it may be read.
LEMMA PoolIsRead ==
    ASSUME SplitInv, NEW v \in Validators
    PROVE  /\ trueStake[v] \in Nat /\ pool[v].credit \in Nat /\ pool[v].rewardShare \in Nat
           /\ pool[v].depositors \subseteq Nominators /\ IsFiniteSet(pool[v].depositors)
           /\ \A n \in pool[v].depositors : pool[v].amounts[n] \in Nat
           /\ pool[v].kind = "nominator" =>
                NominatorsAmount(v) <= trueStake[v] + pool[v].credit
<1>1. pool[v] \in Pools /\ trueStake[v] = pool[v].trueStake
  BY DEF SplitInv, trueStake
<1> DEFINE p == pool[v]
<1> HIDE DEF p
<1>2. /\ p.trueStake \in Nat /\ p.credit \in Nat /\ p.rewardShare \in Uint16
      /\ p.depositors \subseteq Nominators /\ p.amounts \in [Nominators -> Nat]
  BY <1>1, PoolsAssumption DEF p
<1>3. IsFiniteSet(p.depositors)
  BY <1>2, ValidatorsAssumption, FS_Subset
<1>4. \A n \in p.depositors : p.amounts[n] \in Nat
  BY <1>2
<1>5. p.kind = "nominator" =>
         SumFunctionOnSet(p.amounts, p.depositors) <= p.trueStake + p.credit
  BY <1>1, DepositsAssumption DEF p
<1>6. p.rewardShare \in Nat
  <2>1. Uint16 \subseteq Nat
    BY SMT DEF Uint16
  <2> QED
    BY <1>2, <2>1
<1> QED
  BY <1>1, <1>2, <1>3, <1>4, <1>5, <1>6 DEF NominatorsAmount, p

LEMMA TotalIsTheSum ==
    ASSUME SplitInv
    PROVE  totalTrueStake = SumFunctionOnSet(trueStake, Validators) /\ totalTrueStake \in Nat
<1>1. totalTrueStake = SumFunctionOnSet(trueStake, Validators)
  BY DEF totalTrueStake, SumFunction, trueStake
<1> QED
  BY <1>1, PoolIsRead, ValidatorsAssumption, SumIsNat

LEMMA MulDivMonotone ==
    ASSUME NEW a \in Nat, NEW b \in Nat, NEW c \in Nat, NEW d \in Nat \ {0}, b <= a
    PROVE  MulDiv(c, b, d) <= MulDiv(c, a, d)
<1>1. c * a \in Nat /\ c * b \in Nat /\ c * b <= c * a
  OBVIOUS
<1> DEFINE p == (c * a) \div d
           q == (c * b) \div d
<1>2. /\ p \in Nat /\ c * a < d * p + d
      /\ q \in Nat /\ d * q <= c * b
  BY <1>1, DivBounds
<1> HIDE DEF p, q
<1>3. d * q < d * p + d
  BY <1>1, <1>2
<1>4. q <= p
  BY <1>2, <1>3
<1> QED
  BY <1>4 DEF MulDiv, p, q

\* A share by a part of the whole is at most all of it.
LEMMA MulDivBounded ==
    ASSUME NEW b \in Nat, NEW c \in Nat, NEW d \in Nat \ {0}
    PROVE  MulDiv(c, b, d) \in Nat /\ (b <= d => MulDiv(c, b, d) <= c)
<1>1. c * b \in Nat
  OBVIOUS
<1> DEFINE q == (c * b) \div d
<1>2. q \in Nat /\ d * q <= c * b
  BY <1>1, DivBounds
<1> HIDE DEF q
<1>3. ASSUME b <= d PROVE q <= c
  <2>1. c * b <= c * d
    BY <1>3
  <2>2. d * q <= d * c
    BY <1>2, <2>1
  <2> QED
    BY <1>2, <2>2
<1> QED
  BY <1>2, <1>3 DEF MulDiv, q

LEMMA RewardIsWithin ==
    ASSUME SplitInv, NEW v \in Validators
    PROVE  /\ rewardPool \in Nat
           /\ validatorReward(v) \in 0 .. rewardPool
           /\ selfReward(v) \in 0 .. validatorReward(v)
<1>1. rewardPool \in Nat
  BY RewardPoolsAssumption DEF SplitInv
<1>2. trueStake[v] \in Nat /\ trueStake[v] <= totalTrueStake
  BY PoolIsRead, TotalIsTheSum, ValidatorsAssumption, SumBounds
<1>3. validatorReward(v) \in 0 .. rewardPool
  <2>1. CASE totalTrueStake > 0
    <3>1. totalTrueStake \in Nat \ {0}
      BY <2>1, TotalIsTheSum
    <3>2. /\ MulDiv(rewardPool, trueStake[v], totalTrueStake) \in Nat
          /\ MulDiv(rewardPool, trueStake[v], totalTrueStake) <= rewardPool
      BY <1>1, <1>2, <3>1, MulDivBounded
    <3>3. validatorReward(v) = MulDiv(rewardPool, trueStake[v], totalTrueStake)
      BY <2>1, Zenon DEF validatorReward
    <3> QED
      BY <1>1, <3>2, <3>3
  <2>2. CASE ~(totalTrueStake > 0)
    <3>1. validatorReward(v) = 0
      BY <2>2, Zenon DEF validatorReward
    <3> QED
      BY <1>1, <3>1
  <2> QED
    BY <2>1, <2>2
<1> DEFINE w == validatorReward(v)
           s == pool[v].rewardShare
<1>4. w \in Nat /\ s \in Nat /\ basisPoints \in Nat \ {0}
  BY <1>1, <1>3, PoolIsRead, SMT DEF basisPoints
<1>5. selfReward(v) \in 0 .. w
  <2>1. selfReward(v) = IF MulDiv(w, s, basisPoints) > w THEN w ELSE MulDiv(w, s, basisPoints)
    BY DEF selfReward
  <2> HIDE DEF w, s
  <2>2. MulDiv(w, s, basisPoints) \in Nat
    BY <1>4, MulDivBounded
  <2> QED
    BY <1>4, <2>1, <2>2
<1> QED
  BY <1>1, <1>3, <1>5

\* Every entry of an answer has its validator's key and reward.
LEMMA EntryHasTheReward ==
    ASSUME SplitInv, NEW v \in filled
    PROVE  Entry(v).reward = validatorReward(v) /\ Entry(v).validator = v
<1> DEFINE t == trueStake[v] + CreditOf(v, v \in creditRead)
<1>1. Entry(v) = Basic(v) \/ Entry(v) = Whole(v, t) \/ Entry(v) = Shared(v, t)
  BY DEF SplitInv, Written
<1> HIDE DEF t
<1>2. Basic(v).reward = validatorReward(v) /\ Basic(v).validator = v
  BY DEF Basic, NoEntry
<1>3. Whole(v, t).reward = validatorReward(v) /\ Whole(v, t).validator = v
  BY DEF Whole, Basic, NoEntry
<1>4. Shared(v, t).reward = validatorReward(v) /\ Shared(v, t).validator = v
  BY DEF Shared
<1> QED
  BY <1>1, <1>2, <1>3, <1>4

-------------------------------------------------------------------------------
(* The reward split: theorems *)

\* While the entries are written, each has a reward there is, and whose credit was
\* read is written.
THEOREM SplitTypeCorrect == SplitSpec => []SplitTypeOK
<1>1. SplitInv => SplitTypeOK
  <2> SUFFICES ASSUME SplitInv PROVE SplitTypeOK
    OBVIOUS
  <2>1. \A v \in filled : Entry(v).reward \in 0 .. rewardPool
    BY EntryHasTheReward, RewardIsWithin DEF SplitInv
  <2>2. Cardinality(Validators) \in Nat
    BY ValidatorsAssumption, FS_CardinalityType
  <2>3. rank \in [Validators -> 0 .. Cardinality(Validators)]
    BY <2>2 DEF SplitInv, SortedRanks, Places
  <2> QED
    BY <2>1, <2>3 DEF SplitInv, SplitTypeOK
<1> QED
  BY <1>1, SplitInvariance, PTL

\* All rewards of an answer together are at most what there was to distribute, and
\* short of it by less than one nanoTON per validator: the two halves of
\* SharesOfTheWhole, with the stakes for parts of the total stake.
LEMMA RewardsFit ==
    ASSUME SplitInv, phase = "answered"
    PROVE  LET paid == SumFunction([v \in Validators |-> Entry(v).reward])
           IN /\ paid \in 0 .. rewardPool
              /\ totalTrueStake > 0 => rewardPool - paid < Cardinality(Validators)
<1> DEFINE r == [v \in Validators |-> Entry(v).reward]
           paid == SumFunctionOnSet(r, Validators)
<1>1. SumFunction(r) = paid
  BY DEF SumFunction
<1>2. \A v \in Validators : r[v] = validatorReward(v) /\ r[v] \in Nat /\ trueStake[v] \in Nat
  BY EntryHasTheReward, RewardIsWithin, PoolIsRead DEF SplitInv
<1>3. rewardPool \in Nat
  BY RewardPoolsAssumption DEF SplitInv
<1> HIDE DEF r
<1>4. CASE totalTrueStake > 0
  <2>1. SumFunctionOnSet(trueStake, Validators) # 0
    BY <1>4, TotalIsTheSum
  <2>2. \A v \in Validators :
           r[v] = (rewardPool * trueStake[v]) \div SumFunctionOnSet(trueStake, Validators)
    BY <1>2, <1>4, TotalIsTheSum DEF validatorReward, MulDiv
  <2>3. paid \in 0 .. rewardPool /\ rewardPool - paid < Cardinality(Validators)
    BY <1>2, <1>3, <2>1, <2>2, ValidatorsAssumption, SharesOfTheWhole
  <2> QED
    BY <1>1, <2>3 DEF r
<1>5. CASE ~(totalTrueStake > 0)
  <2>1. \A v \in Validators : r[v] = 0
    BY <1>2, <1>5 DEF validatorReward
  <2>2. 1 * paid <= 0 * SumFunctionOnSet(trueStake, Validators)
    BY <1>2, <2>1, ValidatorsAssumption, SharesAddUp
  <2>3. paid \in Nat /\ SumFunctionOnSet(trueStake, Validators) \in Nat
    BY <1>2, ValidatorsAssumption, SumIsNat
  <2>4. paid = 0
    BY <2>2, <2>3
  <2> QED
    BY <1>1, <1>3, <1>5, <2>4 DEF r
<1> QED
  BY <1>4, <1>5

\* The rewards answered fit what computeValidatorRewards was given to distribute, for
\* any number of validators with any stakes.
THEOREM RewardsFitThePoolThm == SplitSpec => []RewardsFitThePool
<1>1. SplitInv => RewardsFitThePool
  <2> SUFFICES ASSUME SplitInv, phase = "answered"
               PROVE  LET paid == SumFunction([v \in Validators |-> Entry(v).reward])
                      IN /\ paid <= rewardPool
                         /\ totalTrueStake > 0 => rewardPool - paid < Cardinality(Validators)
    BY DEF RewardsFitThePool
  <2> QED
    BY RewardsFit, RewardPoolsAssumption DEF SplitInv
<1> QED
  BY <1>1, SplitInvariance, PTL

\* A row with a better rank has the larger stake, so the larger reward.
LEMMA BetterRankHasMore ==
    ASSUME SplitInv, phase = "answered", NEW v \in Validators, NEW w \in Validators,
           rank[v] < rank[w]
    PROVE  Entry(v).reward >= Entry(w).reward
<1>1. /\ Entry(v).reward = validatorReward(v) /\ Entry(w).reward = validatorReward(w)
      /\ trueStake[v] \in Nat /\ trueStake[w] \in Nat /\ rewardPool \in Nat
      /\ totalTrueStake \in Nat
  BY EntryHasTheReward, PoolIsRead, RewardIsWithin, TotalIsTheSum DEF SplitInv
<1>2. trueStake[w] <= trueStake[v]
  <2>1. rank \in SortedRanks
    BY DEF SplitInv
  <2>2. rank[v] \in Int /\ rank[w] \in Int /\ v # w
    BY <2>1 DEF SortedRanks, Places
  <2>3. ~(trueStake[w] > trueStake[v])
    BY <2>1, <2>2 DEF SortedRanks
  <2> QED
    BY <1>1, <2>3
<1>3. CASE totalTrueStake > 0
  <2>1. MulDiv(rewardPool, trueStake[w], totalTrueStake)
          <= MulDiv(rewardPool, trueStake[v], totalTrueStake)
    BY <1>1, <1>2, <1>3, MulDivMonotone
  <2>2. validatorReward(w) <= validatorReward(v)
    BY <1>3, <2>1 DEF validatorReward
  <2>3. validatorReward(w) \in Int /\ validatorReward(v) \in Int
    BY RewardIsWithin
  <2> QED
    BY <1>1, <2>2, <2>3
<1>4. CASE ~(totalTrueStake > 0)
  BY <1>1, <1>4 DEF validatorReward
<1> QED
  BY <1>3, <1>4

\* The rows are sorted by stake, a reward does not fall where the stake does not, and
\* each goroutine writes where its row is, so that no place is written twice or left out.
THEOREM RanksFollowRewardsThm == SplitSpec => []RanksFollowRewards
<1>1. SplitInv => RanksFollowRewards
  <2> SUFFICES ASSUME SplitInv, phase = "answered"
               PROVE  /\ {slots[p].validator : p \in Places} = Validators
                      /\ \A p, q \in Places : p < q => slots[p].reward >= slots[q].reward
    BY DEF RanksFollowRewards
  <2>1. rank \in SortedRanks
    BY DEF SplitInv
  <2>2. \A v \in Validators : rank[v] \in Places /\ slots[rank[v]].validator = v
    BY <2>1, RowsHavePlaces, EntryHasTheReward DEF SplitInv, Entry
  <2>3. \A p \in Places : \E v \in Validators : rank[v] = p
    BY <2>1, RowsHavePlaces
  <2>4. {slots[p].validator : p \in Places} = Validators
    BY <2>2, <2>3
  <2>5. ASSUME NEW p \in Places, NEW q \in Places, p < q
        PROVE  slots[p].reward >= slots[q].reward
    <3>1. PICK v \in Validators, w \in Validators : rank[v] = p /\ rank[w] = q
      BY <2>3
    <3> QED
      BY <2>5, <3>1, BetterRankHasMore DEF Entry
  <2> QED
    BY <2>4, <2>5
<1> QED
  BY <1>1, SplitInvariance, PTL

\* A pool's nominators share what the validator's own cut leaves, by their deposits.
THEOREM NominatorsGetTheRestThm == SplitSpec => []NominatorsGetTheRest
<1>1. SplitInv => NominatorsGetTheRest
  <2> SUFFICES ASSUME SplitInv, phase = "answered", NEW v \in Validators, Entry(v).split,
                      pool[v].depositors # {}
               PROVE  LET rest == Entry(v).reward - selfReward(v)
                          paid == SumFunction(Entry(v).rewards)
                      IN paid \in 0 .. rest /\ rest - paid < Cardinality(pool[v].depositors)
    BY DEF NominatorsGetTheRest
  <2> DEFINE D == pool[v].depositors
             a == pool[v].amounts
             r == [n \in D |-> nominatorReward(v, n)]
             rest == validatorReward(v) - selfReward(v)
  <2>1. PICK t : /\ Entry(v) = Shared(v, t) /\ ~DividesByZero(v, t)
    <3>1. Entry(v) # Basic(v) /\ \A t : Entry(v) # Whole(v, t)
      BY DEF Basic, Whole, NoEntry
    <3> QED
      BY <3>1 DEF SplitInv, Written
  <2>2. Entry(v).reward = validatorReward(v) /\ Entry(v).rewards = r
    BY <2>1 DEF Shared
  <2>3. SumFunction(r) = SumFunctionOnSet(r, D)
    BY DEF SumFunction
  <2>4. rest \in Nat
    BY RewardIsWithin
  <2>5. SumFunctionOnSet(a, D) # 0
    BY <2>1 DEF DividesByZero, NominatorsAmount
  <2>6. \A n \in D : a[n] \in Nat /\ r[n] = (rest * a[n]) \div SumFunctionOnSet(a, D)
    BY PoolIsRead DEF nominatorReward, MulDiv, NominatorsAmount
  <2>7. IsFiniteSet(D)
    BY PoolIsRead
  <2> HIDE DEF D, a, r, rest
  <2>8. SumFunctionOnSet(r, D) \in 0 .. rest /\ rest - SumFunctionOnSet(r, D) < Cardinality(D)
    BY <2>4, <2>5, <2>6, <2>7, SharesOfTheWhole
  <2> QED
    BY <2>2, <2>3, <2>8 DEF rest, D
<1> QED
  BY <1>1, SplitInvariance, PTL

\* Nominators are given no more effective stake than is locked: their deposits are
\* within stake and credit, and scaled down by the stake's part.  Where the credit was
\* not read they are not scaled, and within stake and credit still.
THEOREM StakesWithinLockedThm == SplitSpec => []StakesWithinLocked
<1>1. SplitInv => StakesWithinLocked
  <2> DEFINE Bound(v) == IF v \in creditRead THEN trueStake[v]
                         ELSE trueStake[v] + pool[v].credit
  <2> SUFFICES ASSUME SplitInv, phase = "answered", NEW v \in Validators
               PROVE  SumFunction(Entry(v).stakes) <= Bound(v)
    BY DEF StakesWithinLocked, LockedStakes
  <2> DEFINE t == trueStake[v] + CreditOf(v, v \in creditRead)
             total == trueStake[v] + pool[v].credit
             D == pool[v].depositors
             a == pool[v].amounts
             s == [n \in D |-> nominatorEffectiveStake(v, n, t)]
  <2>1. /\ trueStake[v] \in Nat /\ pool[v].credit \in Nat /\ t \in Nat /\ total \in Nat
        /\ IsFiniteSet(D) /\ \A n \in D : a[n] \in Nat
        /\ Bound(v) \in Nat
    BY PoolIsRead DEF CreditOf
  <2>5. \/ v \in creditRead /\ t = total /\ Bound(v) = trueStake[v]
        \/ v \notin creditRead /\ t = trueStake[v] /\ Bound(v) = total
    BY <2>1 DEF CreditOf
  <2>2. \/ Entry(v) = Basic(v) \/ Entry(v) = Whole(v, t)
        \/ /\ pool[v].kind = "nominator" /\ ~DividesByZero(v, t) /\ Entry(v) = Shared(v, t)
    BY DEF SplitInv, Written
  <2>3. CASE Entry(v) = Basic(v) \/ Entry(v) = Whole(v, t)
    <3>1. Entry(v).stakes = [n \in {} |-> 0]
      BY <2>3 DEF Basic, Whole, NoEntry
    <3>2. SumFunction([n \in {} |-> 0]) = 0
      BY SumEmpty DEF SumFunction
    <3> QED
      BY <2>1, <3>1, <3>2
  <2>4. CASE pool[v].kind = "nominator" /\ ~DividesByZero(v, t) /\ Entry(v) = Shared(v, t)
    <3>1. Entry(v).stakes = s
      BY <2>4 DEF Shared
    <3>2. SumFunction(s) = SumFunctionOnSet(s, D)
      BY DEF SumFunction
    <3>3. CASE D = {}
      BY <2>1, <3>1, <3>2, <3>3, SumEmpty
    <3>4. CASE D # {}
      <4>1. t \in Nat \ {0}
        BY <2>1, <2>4, <3>4 DEF DividesByZero
      <4>2. \A n \in D : s[n] = (a[n] * trueStake[v]) \div t
        BY DEF nominatorEffectiveStake, MulDiv
      <4>3. \A n \in D : a[n] * trueStake[v] \in Nat /\ a[n] * trueStake[v] = trueStake[v] * a[n]
        BY <2>1
      <4>4. SumFunctionOnSet(a, D) \in Nat /\ SumFunctionOnSet(a, D) <= total
        BY <2>1, <2>4, PoolIsRead, SumIsNat DEF NominatorsAmount
      <4> HIDE DEF t, total, D, a, s, Bound
      <4>5. \A n \in D : /\ a[n] \in Nat /\ s[n] \in Nat
                         /\ t * s[n] <= trueStake[v] * a[n]
                         /\ trueStake[v] * a[n] < t * s[n] + t
        BY <2>1, <4>1, <4>2, <4>3, DivBounds
      <4>6. t * SumFunctionOnSet(s, D) <= trueStake[v] * SumFunctionOnSet(a, D)
        BY <2>1, <4>1, <4>5, SharesAddUp
      <4>7. SumFunctionOnSet(s, D) \in Nat
        BY <2>1, <4>5, SumIsNat
      <4>8. \A p, q, m \in Nat : t * p <= m * q /\ q <= t => p <= m
        <5> SUFFICES ASSUME NEW p \in Nat, NEW q \in Nat, NEW m \in Nat, t * p <= m * q, q <= t
                     PROVE  p <= m
          OBVIOUS
        <5>1. m * q <= m * t
          BY <4>1
        <5>2. t * p <= t * m
          BY <4>1, <5>1
        <5> QED
          BY <4>1, <5>2
      <4>9. CASE t = total /\ Bound(v) = trueStake[v]
        BY <2>1, <3>1, <3>2, <4>4, <4>6, <4>7, <4>8, <4>9
      <4>10. CASE t = trueStake[v] /\ Bound(v) = total
        <5>1. \A p, q \in Nat : t * p <= t * q => p <= q
          BY <4>1
        <5>2. SumFunctionOnSet(s, D) <= SumFunctionOnSet(a, D)
          BY <4>4, <4>6, <4>7, <4>10, <5>1
        <5> QED
          BY <2>1, <3>1, <3>2, <4>4, <4>7, <4>10, <5>2
      <4> QED
        BY <2>5, <4>9, <4>10
    <3> QED
      BY <3>3, <3>4
  <2> QED
    BY <2>2, <2>3, <2>4
<1> QED
  BY <1>1, SplitInvariance, PTL

\* The difference the roundcheck command reports for a sound answer is what rounding
\* lost, and it can read the answer.
THEOREM RoundChecksOutThm == SplitSpec => []RoundChecksOut
<1>1. SplitInv => RoundChecksOut
  <2> DEFINE in == File("round-rewards")
             r == [v \in Validators |-> Entry(v).reward]
  <2> SUFFICES ASSUME SplitInv, phase = "answered", totalTrueStake > 0
               PROVE  ~calculateFails(in) /\ -valueDiff(in) \in 0 .. Cardinality(Validators) - 1
    BY DEF RoundChecksOut
  <2>1. rewardPool \in Nat /\ Cardinality(Validators) \in Nat
    BY RewardPoolsAssumption, ValidatorsAssumption, FS_CardinalityType DEF SplitInv
  <2>2. /\ in.TotalBonuses = rewardPool /\ DOMAIN in.Validators = Validators
        /\ \A v \in Validators : in.Validators[v].Reward = Entry(v).reward
        /\ in.RewardPerBlock = Unset
    BY DEF File
  <2> HIDE DEF in
  <2>10. in.TotalBonuses # Unset /\ ~(in.RewardPerBlock # Unset)
    BY <2>1, <2>2 DEF Unset
  <2>3. checkMode(in) = "round_rewards"
    BY <2>10, SMT DEF checkMode
  <2>4. values(in) = r
    BY <2>2, <2>3 DEF values
  <2>5. valueDiff(in) = SumFunction(r) - rewardPool
    BY <2>2, <2>3, <2>4 DEF valueDiff, targetValue
  <2>6. SumFunction(r) \in 0 .. rewardPool /\ rewardPool - SumFunction(r) < Cardinality(Validators)
    BY RewardsFit
  <2>7. -valueDiff(in) \in 0 .. Cardinality(Validators) - 1
    BY <2>1, <2>5, <2>6
  <2>8. Validators # {}
    <3>1. Cardinality(Validators) # 0
      BY <2>1, <2>6
    <3>2. Validators = {} => Cardinality(Validators) = 0
      BY FS_EmptySet, Zenon
    <3> QED
      BY <3>1, <3>2, Zenon
  <2>9. \A v \in Validators : r[v] # Unset
    BY EntryHasTheReward, RewardIsWithin DEF SplitInv, Unset
  <2> QED
    BY <2>2, <2>3, <2>4, <2>7, <2>8, <2>9 DEF calculateFails
<1> QED
  BY <1>1, SplitInvariance, PTL

-------------------------------------------------------------------------------
(* The reward of one block: the invariant *)

\* The block is there, and is not looked at before it is.
BlockRead == /\ pc \in {"reads", "walk", "answered"} => block \in 0 .. tip
             /\ pc \in {"idle", "block"} => reads["previous"] # "ok"
             /\ reads["previous"] = "ok" => block > 1

\* roundStartBlock, when it is known, is at most two blocks before the round's
\* first, and not of the chain's first round.
StartRead == /\ pc \in {"idle", "block", "reads"} => startBlock = Absent
             /\ startBlock # Absent =>
                   /\ block \in 0 .. tip
                   /\ \E a \in Edges(chain, tip) : /\ a <= block /\ chain[a] = chain[block]
                                                   /\ startBlock \in a - 2 .. a

AnswerMade == /\ pc # "answered" => answer = NoAnswer
              /\ RewardIsTheBlocks
              /\ PrevIsPrevious

BlockInv == TypeOK /\ BlockRead /\ StartRead /\ AnswerMade

LEMMA BlockFacts ==
    TypeOK => /\ ChainOK /\ tip \in Int /\ MaxSeqno \in Nat
              /\ tip \in 0 .. tip /\ 0 .. tip \subseteq 0 .. MaxSeqno
              /\ chain \in Chains /\ tip \in 0 .. MaxSeqno /\ startBlock \in 0 .. tip
<1>1. TypeOK => /\ chain \in Chains /\ tip \in 0 .. MaxSeqno
                /\ startBlock \in 0 .. tip
  BY Zenon DEF TypeOK
<1> QED
  BY <1>1, MaxSeqnoAssumption DEF ChainOK

LEMMA BlockInitEstablishes == Init => BlockInv
<1> SUFFICES ASSUME Init PROVE BlockInv
  OBVIOUS
<1>1. TypeOK
  BY MaxSeqnoAssumption
  DEF Init, ChainInit, TypeOK, NoQuery, NoAnswer, Outcomes, Absent, Unresolved
<1>2. BlockRead /\ StartRead
  BY DEF Init, BlockRead, StartRead, Reads, Absent
<1>3. AnswerMade
  BY DEF Init, AnswerMade, RewardIsTheBlocks, PrevIsPrevious
<1> QED
  BY <1>1, <1>2, <1>3 DEF BlockInv

LEMMA NewBlockKeeps == ASSUME BlockInv, NewBlock PROVE BlockInv'
<1>1. /\ chain' = chain /\ tip' \in 0 .. MaxSeqno /\ tip <= tip' /\ tip \in Int /\ tip' \in Int
      /\ UNCHANGED <<skew, pc, query, block, reads, startBlock, endBlock, answer, cause>>
  <2>1. tip \in 0 .. MaxSeqno /\ tip < MaxSeqno /\ tip' = tip + 1 /\ chain' = chain
    BY DEF NewBlock, Grow, BlockInv, TypeOK
  <2>2. UNCHANGED <<skew, pc, query, block, reads, startBlock, endBlock, answer, cause>>
    BY DEF NewBlock, requestVars
  <2> QED
    BY <2>1, <2>2, MaxSeqnoAssumption
<1>2. \A b \in 0 .. tip : b \in 0 .. tip'
  BY <1>1
<1>3. TypeOK'
  BY <1>1, <1>2 DEF BlockInv, TypeOK
<1>4. \A a \in Edges(chain, tip) : a \in Edges(chain, tip')
  BY <1>1, BlockFacts, EdgesGrow DEF NewBlock, BlockInv
<1>5. BlockRead' /\ StartRead'
  BY <1>1, <1>2, <1>4 DEF BlockInv, BlockRead, StartRead
<1>6. AnswerMade'
  BY <1>1 DEF BlockInv, AnswerMade, RewardIsTheBlocks, PrevIsPrevious
<1> QED
  BY <1>3, <1>5, <1>6 DEF BlockInv

\* A step of the request before its answer keeps the invariant if it keeps the types
\* and what the request then knows.
LEMMA ServeKeeps ==
    ASSUME BlockInv, UNCHANGED <<chain, tip, skew, answer>>, pc # "answered",
           pc' \in {"idle", "block", "reads", "walk", "failed"},
           query'.kind \in Kinds \cup {"none"}, block' \in 0 .. tip \cup {Unresolved},
           reads' \in [Reads -> Outcomes], startBlock' \in 0 .. tip, endBlock' \in 0 .. tip,
           cause' \in {"none", "bad request", "rpc", "no previous election"},
           BlockRead', StartRead'
    PROVE  BlockInv'
<1>1. TypeOK'
  BY DEF BlockInv, TypeOK
<1>2. AnswerMade'
  BY DEF BlockInv, AnswerMade, RewardIsTheBlocks, PrevIsPrevious
<1> QED
  BY <1>1, <1>2 DEF BlockInv

LEMMA AcceptKeeps == ASSUME BlockInv, Accept PROVE BlockInv'
<1>1. query'.kind \in Kinds \cup {"none"}
  BY DEF Accept, NoQuery
<1>2. BlockRead' /\ StartRead'
  BY DEF Accept, BlockInv, BlockRead, StartRead, chainVars
<1> QED
  BY <1>1, <1>2, ServeKeeps DEF Accept, chainVars, BlockInv, TypeOK

LEMMA FailKeeps ==
    ASSUME BlockInv, Reject \/ RPCFails \/ NoConfig \/ NoPrev PROVE BlockInv'
<1>1. \E why \in {"bad request", "rpc", "no previous election"} : FailWith(why)
  BY DEF Reject, RPCFails, NoConfig, NoPrev
<1>2. pc # "answered"
  BY DEF Reject, RPCFails, NoConfig, NoPrev, AllRead
<1>3. BlockRead' /\ StartRead'
  BY <1>1 DEF FailWith, BlockInv, BlockRead, StartRead, chainVars
<1> QED
  BY <1>1, <1>2, <1>3, ServeKeeps DEF FailWith, chainVars, BlockInv, TypeOK

LEMMA ResolveBlockKeeps == ASSUME BlockInv, ResolveBlock PROVE BlockInv'
<1>1. block' \in 0 .. tip
  <2>1. CASE query.kind = "none"
    BY <2>1, BlockFacts DEF ResolveBlock, BlockInv
  <2>2. CASE query.kind # "none"
    <3>1. query.kind \in {"election_id", "block", "unixtime"} /\ block' \in AnchorBlocks(query)
      BY <2>2 DEF ResolveBlock, BlockInv, TypeOK, Kinds
    <3> QED
      BY <3>1, AnchorsAreThere
  <2> QED
    BY <2>1, <2>2
<1>2. BlockRead' /\ StartRead'
  BY <1>1 DEF ResolveBlock, BlockInv, BlockRead, StartRead, chainVars
<1> QED
  BY <1>1, <1>2, ServeKeeps DEF ResolveBlock, chainVars, BlockInv, TypeOK

LEMMA ReadKeeps == ASSUME BlockInv, NEW r \in Reads, Read(r) PROVE BlockInv'
<1>1. PICK outcome \in {"ok", "failed"} :
        /\ r = "previous" /\ outcome = "ok" => block > 1
        /\ reads' = [reads EXCEPT ![r] = outcome]
  BY DEF Read
<1>2. reads \in [Reads -> Outcomes] /\ reads' \in [Reads -> Outcomes]
  BY <1>1 DEF BlockInv, TypeOK, Outcomes
<1>3. reads'["previous"] = "ok" => block > 1
  BY <1>1, <1>2 DEF BlockInv, BlockRead, Reads
<1>4. BlockRead' /\ StartRead'
  BY <1>3 DEF Read, BlockInv, BlockRead, StartRead, chainVars
<1> QED
  BY <1>2, <1>4, ServeKeeps DEF Read, chainVars, BlockInv, TypeOK

\* The look-up of the round's start lands near it, or gives the chain's first block.
LEMMA ResolveBlocksKeeps == ASSUME BlockInv, ResolveBlocks PROVE BlockInv'
<1>1. block \in 0 .. tip /\ ChainOK /\ tip \in Int /\ 0 \in 0 .. tip
  BY BlockFacts, MaxSeqnoAssumption DEF ResolveBlocks, AllRead, BlockInv, BlockRead, ChainOK
<1>2. startBlock' \in BlocksAt(chain[block]) \/ startBlock' = Absent
  BY DEF ResolveBlocks, startUtime
<1>3. startBlock' \in 0 .. tip /\ endBlock' \in 0 .. tip
  BY <1>1, <1>2, BlocksAreThere DEF ResolveBlocks, Absent
<1>4. startBlock' # Absent =>
        \E a \in Edges(chain, tip) : /\ a <= block /\ chain[a] = chain[block]
                                     /\ startBlock' \in a - 2 .. a
  <2> SUFFICES ASSUME startBlock' # Absent
               PROVE  \E a \in Edges(chain, tip) :
                         a <= block /\ chain[a] = chain[block] /\ startBlock' \in a - 2 .. a
    OBVIOUS
  <2>1. startBlock' \in BlocksAt(chain[block]) /\ startBlock' # 0
    BY <1>2 DEF Absent
  <2>2. chain[block] # chain[0]
    BY <1>1, <2>1, FirstStart
  <2>3. PICK a \in Edges(chain, tip) :
           a <= block /\ chain[a] = chain[block] /\ a - 2 <= startBlock' /\ startBlock' <= a
    BY <1>1, <2>1, <2>2, StartNear
  <2>4. a \in Int /\ startBlock' \in Int
    BY <1>3 DEF Edges
  <2> QED
    BY <2>3, <2>4
<1>5. BlockRead' /\ StartRead'
  BY <1>1, <1>4 DEF ResolveBlocks, AllRead, BlockInv, BlockRead, StartRead, chainVars
<1> QED
  BY <1>3, <1>5, ServeKeeps DEF ResolveBlocks, AllRead, chainVars, BlockInv, TypeOK

-------------------------------------------------------------------------------
(* What is answered *)

\* The bonuses of an election grow by one with each of its blocks.
LEMMA BonusesGrow ==
    ASSUME NEW b \in Nat, b > 0
    PROVE  BonusesAt(chain[b], b) - BonusesAt(chain[b], b - 1) = BlockFees
<1> DEFINE S == {k \in 0 .. b - 1 : chain[k] = chain[b]}
<1>1. IsFiniteSet(S)
  <2>1. IsFiniteSet(0 .. b - 1)
    BY FS_Interval
  <2>2. S \in SUBSET (0 .. b - 1)
    OBVIOUS
  <2> QED
    BY <2>1, <2>2, FS_Subset
<1>2. {k \in 0 .. b : chain[k] = chain[b]} = S \cup {b} /\ b \notin S
  OBVIOUS
<1>3. Cardinality(S) \in Nat /\ Cardinality(S \cup {b}) = Cardinality(S) + 1
  BY <1>1, <1>2, FS_AddElement, FS_CardinalityType
<1> HIDE DEF S
<1>4. BonusesAt(chain[b], b) = Cardinality(S) + 1
  BY <1>2, <1>3 DEF BonusesAt
<1>5. BonusesAt(chain[b], b - 1) = Cardinality(S)
  BY DEF BonusesAt, S
<1> QED
  BY <1>3, <1>4, <1>5 DEF BlockFees

LEMMA RewardIsOneBlocks ==
    ASSUME BlockInv, block \in 0 .. tip,
           reads["elections"] = "ok", reads["previous"] = "ok"
    PROVE  rewardPerBlock = BlockFees
<1>1. block > 1
  BY DEF BlockInv, BlockRead
<1>2. block \in Nat /\ block \in 0 .. MaxSeqno
  BY BlockFacts DEF BlockInv
<1>3. chain[block] \in PastElectionsAt(block) /\ chain[block] \in PastElectionsAt(block - 1)
  BY <1>2 DEF PastElectionsAt
<1>4. rewardPerBlock = BonusesAt(chain[block], block) - BonusesAt(chain[block], block - 1)
  BY <1>1, <1>3 DEF rewardPerBlock, previousBlock, electionID
<1> QED
  BY <1>1, <1>2, <1>4, BonusesGrow

\* The walk back from near the round's start ends at the block before the round's
\* first: the round before it is too long to be stepped over.
LEMMA WalkEndsAtTheRound ==
    ASSUME BlockInv, startBlock > 1, NEW prev \in WalkedTo(startBlock)
    PROVE  \E a \in 1 .. block : /\ chain[a] = chain[block] /\ chain[a - 1] # chain[a]
                                 /\ prev = chain[a - 1]
<1> DEFINE s == startBlock
<1>1. /\ s \in 0 .. tip /\ s \in Int /\ block \in 0 .. tip /\ block \in Int
      /\ chain \in Chains /\ tip \in 0 .. MaxSeqno /\ tip \in Int /\ MaxSeqno \in Nat
      /\ MaxWalk \in Nat
  <2>1. block \in 0 .. tip
    BY DEF BlockInv, StartRead, Absent
  <2> QED
    BY <2>1, BlockFacts, MaxWalkAssumption DEF BlockInv
<1>2. PICK a \in Edges(chain, tip) :
        a <= block /\ chain[a] = chain[block] /\ s \in a - 2 .. a
  BY DEF BlockInv, StartRead, Absent
<1>3. PICK k \in 0 .. s - 1 : /\ prev = chain[k] /\ s - k <= MaxWalk /\ chain[k] # chain[s]
                              /\ \A j \in k + 1 .. s : chain[j] = chain[s]
  BY DEF WalkedTo
<1>4. /\ a \in Edges(chain, MaxSeqno) /\ a \in Int /\ a \in 1 .. tip /\ k \in Int
      /\ chain[a - 1] # chain[a]
  BY <1>1, EdgesAre
<1>5. k + 1 \in k + 1 .. s /\ s \in k + 1 .. s
  BY <1>1, <1>3, <1>4
<1>6. chain[k + 1] = chain[s] /\ chain[(k + 1) - 1] # chain[k + 1] /\ k + 1 \in 1 .. MaxSeqno
  <2>1. chain[k + 1] = chain[s] /\ (k + 1) - 1 = k /\ k + 1 \in 1 .. MaxSeqno
    BY <1>1, <1>3, <1>4, <1>5
  <2> QED
    BY <1>3, <2>1
<1>7. k + 1 \in Edges(chain, MaxSeqno)
  BY <1>6 DEF Edges
<1>8. k + 1 = a
  <2>1. k + 1 <= a
    BY <1>1, <1>2, <1>3, <1>4
  <2>2. ~(k + 1 < a)
    <3> SUFFICES ASSUME k + 1 < a PROVE FALSE
      OBVIOUS
    <3>1. a - (k + 1) > MaxWalk + 1
      BY <1>1, <1>4, <1>7, RoundsOutlastTheWalk
    <3> QED
      BY <1>1, <1>2, <1>3, <1>4, <3>1
  <2> QED
    BY <1>4, <2>1, <2>2
<1>9. a - 1 = k /\ a \in 1 .. block
  BY <1>1, <1>2, <1>4, <1>8
<1> QED
  BY <1>2, <1>3, <1>4, <1>9

LEMMA AnswerKeeps == ASSUME BlockInv, WithoutPrev \/ WalkBack PROVE BlockInv'
<1>1. PICK prev \in {Unresolved} \cup WalkedTo(startBlock) :
         /\ AnswerWith(prev)
         /\ prev # Unresolved => startBlock > 1 /\ prev \in WalkedTo(startBlock)
  BY DEF WithoutPrev, WalkBack
<1>2. pc = "walk" /\ block \in 0 .. tip
  BY DEF WithoutPrev, WalkBack, BlockInv, BlockRead
<1>3. /\ UNCHANGED <<chain, tip, skew, query, block, reads, startBlock, endBlock, cause>>
      /\ pc' = "answered" /\ answer'.PrevElectionID = prev
      /\ answer'.Reward = rewardPerBlock
  BY <1>1 DEF AnswerWith, chainVars
<1>4. prev # Unresolved =>
        \E a \in 1 .. block : /\ chain[a] = chain[block] /\ chain[a - 1] # chain[a]
                              /\ prev = chain[a - 1]
  BY <1>1, WalkEndsAtTheRound
<1>5. PrevIsPrevious'
  BY <1>3, <1>4 DEF PrevIsPrevious
<1>6. RewardIsTheBlocks'
  <2>1. CASE reads["elections"] = "ok" /\ reads["previous"] = "ok"
    BY <1>2, <1>3, <2>1, RewardIsOneBlocks DEF RewardIsTheBlocks, BlockFees
  <2>2. CASE ~(reads["elections"] = "ok" /\ reads["previous"] = "ok")
    BY <1>3, <2>2 DEF RewardIsTheBlocks, rewardPerBlock
  <2> QED
    BY <2>1, <2>2
<1>7. prev \in ElectionIDs \cup {Unresolved}
  <2> SUFFICES ASSUME prev # Unresolved PROVE prev \in ElectionIDs
    OBVIOUS
  <2>1. PICK a \in 1 .. block : prev = chain[a - 1]
    BY <1>4
  <2>2. a - 1 \in 0 .. MaxSeqno /\ chain \in Chains
    BY <1>2, <2>1, BlockFacts DEF BlockInv, ChainOK
  <2> QED
    BY <2>1, <2>2, ElectionsAreNat
<1>8. TypeOK'
  BY <1>3, <1>7 DEF BlockInv, TypeOK
<1>9. BlockRead' /\ StartRead'
  BY <1>2, <1>3 DEF BlockInv, BlockRead, StartRead
<1> QED
  BY <1>3, <1>5, <1>6, <1>8, <1>9 DEF BlockInv, AnswerMade

LEMMA BlockNextKeeps == BlockInv /\ [Next]_vars => BlockInv'
<1> SUFFICES ASSUME BlockInv, [Next]_vars PROVE BlockInv'
  OBVIOUS
<1>1. CASE NewBlock
  BY <1>1, NewBlockKeeps
<1>2. CASE Accept
  BY <1>2, AcceptKeeps
<1>3. CASE Reject \/ RPCFails \/ NoConfig \/ NoPrev
  BY <1>3, FailKeeps
<1>4. CASE ResolveBlock
  BY <1>4, ResolveBlockKeeps
<1>5. CASE \E r \in Reads : Read(r)
  BY <1>5, ReadKeeps
<1>6. CASE ResolveBlocks
  BY <1>6, ResolveBlocksKeeps
<1>7. CASE WithoutPrev \/ WalkBack
  BY <1>7, AnswerKeeps
<1>8. CASE UNCHANGED vars
  BY <1>8 DEF vars, requestVars, BlockInv, TypeOK, BlockRead, StartRead, AnswerMade,
              RewardIsTheBlocks, PrevIsPrevious
<1> QED
  BY <1>1, <1>2, <1>3, <1>4, <1>5, <1>6, <1>7, <1>8 DEF Next, Serve

LEMMA BlockInvariance == Spec => []BlockInv
  BY BlockInitEstablishes, BlockNextKeeps, PTL DEF Spec

-------------------------------------------------------------------------------
(* The reward of one block: the theorems *)

\* A request about one block stays well-formed: in particular a previous election
\* that is answered is one the chain has had.
THEOREM BlockTypeCorrect == Spec => []TypeOK
<1>1. BlockInv => TypeOK
  BY DEF BlockInv
<1> QED
  BY <1>1, BlockInvariance, PTL

\* The reward answered, the difference of two readings of the bonuses, is what the
\* block earned, in the first block of a round too, and none if a reading failed.
THEOREM RewardIsTheBlocksThm == Spec => []RewardIsTheBlocks
<1>1. BlockInv => RewardIsTheBlocks
  BY DEF BlockInv, AnswerMade
<1> QED
  BY <1>1, BlockInvariance, PTL

\* fetchPrevElectionIDForBlock, which starts wherever the look-up by time landed, ends
\* in the round just before the block's own.
THEOREM PrevIsPreviousThm == Spec => []PrevIsPrevious
<1>1. BlockInv => PrevIsPrevious
  BY DEF BlockInv, AnswerMade
<1> QED
  BY <1>1, BlockInvariance, PTL

\* A walk from the round's first block does find the election before.
LEMMA WalkSucceeds ==
    ASSUME BlockInv, NEW a \in Edges(chain, tip), startBlock = a
    PROVE  startBlock # 1 /\ WalkedTo(startBlock) # {}
<1>1. /\ chain \in Chains /\ tip \in 0 .. MaxSeqno /\ tip \in Int
      /\ a \in Edges(chain, MaxSeqno) /\ a \in 1 .. tip /\ a \in Int /\ chain[a - 1] # chain[a]
  BY BlockFacts, EdgesAre DEF BlockInv, ChainOK
<1>2. a # 1
  <2>1. a > MaxBoundarySearch
    BY <1>1, LongRoundsAssumption
  <2> QED
    BY <1>1, <2>1, MaxBoundarySearchAssumption, LongRoundsAssumption
<1>3. chain[a - 1] \in WalkedTo(a)
  <2>1. a - 1 \in 0 .. a - 1 /\ a - (a - 1) <= MaxWalk /\ chain[a - 1] # chain[a]
    BY <1>1, MaxWalkAssumption
  <2>2. \A j \in (a - 1) + 1 .. a : chain[j] = chain[a]
    BY <1>1
  <2> QED
    BY <2>1, <2>2 DEF WalkedTo
<1> QED
  BY <1>2, <1>3

\* The walk comes back empty-handed only if it started before the round's first block.
LEMMA NoPrevIsEarly ==
    ASSUME BlockInv, NoPrev, NEW b \in 0 .. tip, chain[b] = chain[block]
    PROVE  startBlock < b
<1>1. PICK a \in Edges(chain, tip) :
        a <= block /\ chain[a] = chain[block] /\ startBlock \in a - 2 .. a
  BY DEF NoPrev, BlockInv, StartRead
<1>2. startBlock # a
  BY <1>1, WalkSucceeds DEF NoPrev
<1>3. chain \in Chains /\ tip \in 0 .. MaxSeqno /\ b \in 0 .. MaxSeqno /\ b \in Int
  BY BlockFacts DEF BlockInv
<1>4. a \in Edges(chain, MaxSeqno) /\ a \in Int
  BY <1>3, EdgesAre
<1>5. a <= b
  BY <1>1, <1>3, <1>4, FirstOfRound
<1> QED
  BY <1>1, <1>2, <1>3, <1>4, <1>5

\* Where no call fails, a request fails only because the look-up by time landed before
\* the round's first block: fetchPrevElectionIDForBlock then steps back through the
\* round before, and further than it may.
THEOREM FailsForAReasonThm == Spec => FailsForAReason
<1>1. BlockInv /\ [Next]_vars =>
        [cause' = "no previous election" /\ cause = "none" =>
            \A b \in 0 .. tip : chain[b] = chain[block] => startBlock < b]_vars
  <2> SUFFICES ASSUME BlockInv, Next, cause' = "no previous election", cause = "none"
               PROVE  \A b \in 0 .. tip : chain[b] = chain[block] => startBlock < b
    OBVIOUS
  <2>1. NoPrev
    BY DEF Next, Serve, NewBlock, requestVars, Accept, Reject, RPCFails, FailWith,
           ResolveBlock, Read, NoConfig, ResolveBlocks, WithoutPrev, WalkBack, AnswerWith
  <2> QED
    BY <2>1, NoPrevIsEarly
<1> QED
  BY <1>1, BlockInvariance, PTL DEF Spec, FailsForAReason
=================================================================================
