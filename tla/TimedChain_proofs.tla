---------------------------- MODULE TimedChain_proofs ----------------------------
(* Rounds are intervals of blocks, and a search near one end of a round finds
   that end or nothing.  This is why the handlers may take what a search near a
   time brings for the boundary of the round they mean.                      *)
EXTENDS TimedChain, WellFoundedInduction, TLAPS

LEMMA LeastOne ==
    ASSUME NEW S \in SUBSET Nat, S # {}
    PROVE  \E m \in S : \A k \in S : m <= k
<1>1. PICK m \in S : \A k \in S : ~ (<<k, m>> \in OpToRel(<, Nat))
  BY NatLessThanWellFounded, WFMin
<1>2. \A k \in S : ~ (k < m)
  BY <1>1 DEF OpToRel
<1> QED
  BY <1>2

-------------------------------------------------------------------------------
(* Rounds *)

LEMMA ElectionsAreNat ==
    ASSUME NEW c \in Chains, NEW b \in 0 .. MaxSeqno
    PROVE  c[b] \in ElectionIDs /\ c[b] \in Nat
  BY ChainsAssumption, ElectionIDsAssumption

LEMMA EdgesAre ==
    ASSUME NEW c \in Chains, NEW t \in 0 .. MaxSeqno, NEW a \in Edges(c, t)
    PROVE  /\ a \in Edges(c, MaxSeqno) /\ a \in 1 .. t
           /\ a \in 1 .. MaxSeqno /\ a - 1 \in 0 .. MaxSeqno
           /\ c[a - 1] # c[a]
  BY MaxSeqnoAssumption DEF Edges

\* Election ids never fall: the first block that had a greater one before it would
\* have it just before it.
LEMMA ElectionsRise ==
    ASSUME NEW c \in Chains, NEW i \in 0 .. MaxSeqno, NEW j \in 0 .. MaxSeqno, i <= j
    PROVE  c[i] <= c[j]
<1> DEFINE Fallen == {k \in 0 .. MaxSeqno : \E l \in 0 .. k : c[l] > c[k]}
<1>1. CASE Fallen = {}
  <2>1. ~ (c[i] > c[j])
    BY <1>1
  <2> QED
    BY <2>1, ElectionsAreNat
<1>2. CASE Fallen # {}
  <2>1. Fallen \in SUBSET Nat
    BY MaxSeqnoAssumption
  <2>2. PICK k \in Fallen : \A m \in Fallen : k <= m
    BY <1>2, <2>1, LeastOne
  <2>3. PICK l \in 0 .. k : c[l] > c[k]
    BY <2>2
  <2>4. /\ k \in Int /\ l \in Int /\ k \in 0 .. MaxSeqno /\ l \in 0 .. MaxSeqno
        /\ c[l] \in Nat /\ c[k] \in Nat
    BY <2>3, MaxSeqnoAssumption, ElectionsAreNat
  <2>5. l # k /\ k - 1 \in 0 .. MaxSeqno /\ l \in 0 .. k - 1 /\ k - 1 < k
    BY <2>3, <2>4, MaxSeqnoAssumption
  <2>6. k - 1 \notin Fallen
    BY <2>2, <2>4, <2>5
  <2>7. c[k - 1] \in Nat /\ ~ (c[l] > c[k - 1])
    BY <2>5, <2>6, ElectionsAreNat
  <2>8. c[k - 1] <= c[k]
    <3>1. CASE c[k - 1] = c[k]
      BY <2>4, <3>1
    <3>2. CASE c[k - 1] # c[k]
      <4>1. k \in Edges(c, MaxSeqno)
        BY <2>4, <2>5, <3>2 DEF Edges
      <4>2. c[k - 1] < c[k]
        BY <4>1, RotationAssumption
      <4> QED
        BY <2>4, <2>7, <4>2
    <3> QED
      BY <3>1, <3>2
  <2> QED
    BY <2>3, <2>4, <2>7, <2>8
<1> QED
  BY <1>1, <1>2

\* A round that is not the chain's first has a first block, and its boundary there.
LEMMA RoundHasStart ==
    ASSUME NEW c \in Chains, NEW b \in 0 .. MaxSeqno, c[b] # c[0]
    PROVE  \E a \in Edges(c, MaxSeqno) : a <= b /\ c[a] = c[b]
<1> DEFINE R == {k \in 0 .. MaxSeqno : c[k] = c[b]}
<1>1. R \in SUBSET Nat /\ b \in R
  BY MaxSeqnoAssumption
<1>2. PICK a \in R : \A k \in R : a <= k
  BY <1>1, LeastOne
<1>3. a \in Int /\ a # 0 /\ a \in 1 .. MaxSeqno
  BY <1>2, MaxSeqnoAssumption
<1>4. a - 1 \in 0 .. MaxSeqno /\ a - 1 \notin R
  BY <1>2, <1>3, MaxSeqnoAssumption
<1>5. a \in Edges(c, MaxSeqno)
  BY <1>3, <1>4 DEF Edges
<1> QED
  BY <1>1, <1>2, <1>5

\* A boundary is followed by another if a later block has another election.
LEMMA RoundHasEnd ==
    ASSUME NEW c \in Chains, NEW a \in 0 .. MaxSeqno, NEW b \in 0 .. MaxSeqno,
           a < b, c[b] # c[a]
    PROVE  \E e \in Edges(c, MaxSeqno) : a < e /\ e <= b /\ c[e - 1] = c[a]
<1> DEFINE S == {k \in 0 .. MaxSeqno : a < k /\ c[k] # c[a]}
<1>1. S \in SUBSET Nat /\ b \in S
  BY MaxSeqnoAssumption
<1>2. PICK e \in S : \A k \in S : e <= k
  BY <1>1, LeastOne
<1>3. e \in Int /\ e \in 1 .. MaxSeqno /\ e - 1 \in 0 .. MaxSeqno /\ a <= e - 1 /\ e <= b
  BY <1>1, <1>2, MaxSeqnoAssumption
<1>4. c[e - 1] = c[a]
  <2>1. e - 1 \notin S
    BY <1>2, <1>3
  <2> QED
    BY <1>3, <2>1
<1>5. e \in Edges(c, MaxSeqno)
  BY <1>2, <1>3, <1>4 DEF Edges
<1> QED
  BY <1>2, <1>3, <1>4, <1>5

\* A round is all the blocks from its first boundary to the next.
LEMMA RoundIsInterval ==
    ASSUME NEW c \in Chains, NEW a \in Edges(c, MaxSeqno), NEW e \in Edges(c, MaxSeqno),
           a < e, c[e - 1] = c[a]
    PROVE  {k \in 0 .. MaxSeqno : c[k] = c[a]} = a .. e - 1
<1>1. /\ a \in 1 .. MaxSeqno /\ e \in 1 .. MaxSeqno
      /\ a - 1 \in 0 .. MaxSeqno /\ e - 1 \in 0 .. MaxSeqno
      /\ c[a - 1] < c[a] /\ c[e - 1] < c[e]
  BY MaxSeqnoAssumption, RotationAssumption, EdgesAre
<1>2. ASSUME NEW k \in 0 .. MaxSeqno PROVE c[k] = c[a] <=> k \in a .. e - 1
  <2>1. c[k] \in Nat /\ c[a] \in Nat /\ c[a - 1] \in Nat /\ c[e] \in Nat
    BY <1>1, ElectionsAreNat
  <2>2. CASE k < a
    <3>1. c[k] <= c[a - 1]
      BY <1>1, <2>2, ElectionsRise
    <3> QED
      BY <1>1, <2>1, <2>2, <3>1
  <2>3. CASE k >= e
    <3>1. c[e] <= c[k]
      BY <1>1, <2>3, ElectionsRise
    <3> QED
      BY <1>1, <2>1, <2>3, <3>1
  <2>4. CASE a <= k /\ k < e
    <3>1. c[a] <= c[k] /\ c[k] <= c[e - 1]
      BY <1>1, <2>4, ElectionsRise
    <3> QED
      BY <1>1, <2>1, <2>4, <3>1
  <2> QED
    BY <1>1, <2>2, <2>3, <2>4
<1>3. a .. e - 1 \subseteq 0 .. MaxSeqno
  BY <1>1, MaxSeqnoAssumption
<1> QED
  BY <1>2, <1>3

\* No block of a round comes before its first boundary ...
LEMMA FirstOfRound ==
    ASSUME NEW c \in Chains, NEW a \in Edges(c, MaxSeqno), NEW b \in 0 .. MaxSeqno,
           c[b] = c[a]
    PROVE  a <= b
<1>1. a \in 1 .. MaxSeqno /\ a - 1 \in 0 .. MaxSeqno /\ a \in Int /\ b \in Int
      /\ c[a - 1] < c[a] /\ c[a - 1] \in Nat /\ c[a] \in Nat
  BY EdgesAre, ElectionsAreNat, RotationAssumption, MaxSeqnoAssumption
<1> SUFFICES ASSUME b < a PROVE FALSE
  BY <1>1
<1>2. c[b] <= c[a - 1]
  BY <1>1, ElectionsRise
<1> QED
  BY <1>1, <1>2

\* ... nor after the one at its end.
LEMMA LastOfRound ==
    ASSUME NEW c \in Chains, NEW e \in Edges(c, MaxSeqno), NEW b \in 0 .. MaxSeqno,
           c[b] = c[e - 1]
    PROVE  b <= e - 1
<1>1. e \in 1 .. MaxSeqno /\ e \in 0 .. MaxSeqno /\ e \in Int /\ b \in Int
      /\ c[e - 1] < c[e] /\ e - 1 \in 0 .. MaxSeqno /\ c[e - 1] \in Nat /\ c[e] \in Nat
  BY EdgesAre, ElectionsAreNat, RotationAssumption, MaxSeqnoAssumption
<1> SUFFICES ASSUME e <= b PROVE FALSE
  BY <1>1
<1>2. c[e] <= c[b]
  BY <1>1, ElectionsRise
<1> QED
  BY <1>1, <1>2

-------------------------------------------------------------------------------
(* Look-ups by time *)

LEMMA TimesRise ==
    ASSUME NEW i \in 0 .. MaxSeqno, NEW j \in 0 .. MaxSeqno
    PROVE  /\ Utime[i] \in Nat /\ Utime[j] \in Nat
           /\ i < j <=> Utime[i] < Utime[j]
<1>1. i \in Int /\ j \in Int /\ Utime[i] \in Nat /\ Utime[j] \in Nat
  BY UtimeAssumption
<1>2. (i < j => Utime[i] < Utime[j]) /\ (j < i => Utime[j] < Utime[i])
  BY UtimeAssumption
<1>3. i = j => Utime[i] = Utime[j]
  OBVIOUS
<1> QED
  BY <1>1, <1>2, <1>3

ChainOK == chain \in Chains /\ tip \in 0 .. MaxSeqno

\* A look-up by time gives no block after the first that has reached it ...
LEMMA NotAfter ==
    ASSUME ChainOK, NEW t \in Nat, NEW s \in BlocksAt(t), NEW a \in 0 .. MaxSeqno,
           t <= Utime[a]
    PROVE  s \in 0 .. tip /\ s <= a
<1>1. s \in 0 .. tip /\ (s \in AtOrAfter(t) \/ s \in AtOrBefore(t))
  BY DEF BlocksAt, AtOrAfter, AtOrBefore
<1>2. s \in 0 .. MaxSeqno /\ s \in Int /\ Utime[s] \in Nat /\ Utime[a] \in Nat
  BY <1>1, MaxSeqnoAssumption, TimesRise DEF ChainOK
<1>3. CASE s \in AtOrAfter(t)
  <2> SUFFICES ASSUME a < s PROVE FALSE
    BY <1>1, <1>2
  <2>1. s > 0 /\ s - 1 \in 0 .. MaxSeqno /\ a <= s - 1
    BY <1>2, MaxSeqnoAssumption
  <2>2. Utime[s - 1] < t
    BY <1>3, <2>1 DEF AtOrAfter
  <2>3. ~ (Utime[a] > Utime[s - 1])
    BY <2>1, TimesRise
  <2>4. Utime[s - 1] \in Nat
    BY <2>1, TimesRise
  <2> QED
    BY <1>2, <2>2, <2>3, <2>4
<1>4. CASE s \in AtOrBefore(t)
  <2>1. Utime[s] <= t
    BY <1>4 DEF AtOrBefore
  <2>2. ~ (Utime[a] < Utime[s])
    BY <1>2, <2>1
  <2> QED
    BY <1>1, <1>2, <2>2, TimesRise
<1> QED
  BY <1>1, <1>3, <1>4

\* ... and none that has a block after it which has not reached it.
LEMMA NotBefore ==
    ASSUME ChainOK, NEW t \in Nat, NEW s \in BlocksAt(t), NEW b \in 0 .. MaxSeqno,
           Utime[b] < t
    PROVE  s \in 0 .. tip /\ s >= b
<1>1. s \in 0 .. tip /\ (s \in AtOrAfter(t) \/ s \in AtOrBefore(t))
  BY DEF BlocksAt, AtOrAfter, AtOrBefore
<1>2. s \in 0 .. MaxSeqno /\ s \in Int /\ tip \in Int /\ Utime[s] \in Nat /\ Utime[b] \in Nat
  BY <1>1, MaxSeqnoAssumption, TimesRise DEF ChainOK
<1>3. CASE s \in AtOrAfter(t)
  <2>1. Utime[b] < Utime[s]
    BY <1>2, <1>3 DEF AtOrAfter
  <2> QED
    BY <1>1, <1>2, <2>1, TimesRise
<1>4. CASE s \in AtOrBefore(t)
  <2>1. PICK u \in 0 .. tip : Utime[u] >= t
    BY DEF BlocksAt, AtOrAfter
  <2>2. u \in 0 .. MaxSeqno /\ Utime[u] \in Nat
    BY <2>1, MaxSeqnoAssumption, TimesRise DEF ChainOK
  <2>3. b < u
    <3>1. Utime[b] < Utime[u]
      BY <1>2, <2>1, <2>2
    <3> QED
      BY <2>2, <3>1, TimesRise
  <2>4. CASE s = tip
    BY <1>1, <1>2, <2>1, <2>3, <2>4
  <2>5. CASE s < tip
    <3>1. Utime[s + 1] > t /\ s + 1 \in 0 .. MaxSeqno
      BY <1>2, <1>4, <2>5, MaxSeqnoAssumption DEF AtOrBefore, ChainOK
    <3>2. Utime[b] < Utime[s + 1]
      <4>1. Utime[s + 1] \in Nat
        BY <3>1, TimesRise
      <4> QED
        BY <1>2, <3>1, <4>1
    <3>3. b < s + 1
      BY <3>1, <3>2, TimesRise
    <3> QED
      BY <1>1, <1>2, <3>3
  <2> QED
    BY <1>1, <1>2, <2>4, <2>5
<1> QED
  BY <1>1, <1>3, <1>4

\* Once the chain has reached a time, the blocks next to it stay the same.
LEMMA BlocksAtGrow ==
    ASSUME ChainOK, Grow, NEW t \in Nat
    PROVE  BlocksAt(t) \subseteq BlocksAt(t)'
<1>1. tip \in 0 .. MaxSeqno /\ tip' = tip + 1 /\ tip' \in 0 .. MaxSeqno
  BY MaxSeqnoAssumption DEF ChainOK, Grow
<1>2. ASSUME NEW b \in AtOrAfter(t) PROVE b \in AtOrAfter(t)'
  BY <1>1, <1>2 DEF AtOrAfter
<1>3. ASSUME NEW a \in AtOrAfter(t), NEW b \in AtOrBefore(t) PROVE b \in AtOrBefore(t)'
  <2>1. a \in 0 .. tip /\ Utime[a] >= t /\ b \in 0 .. tip /\ Utime[b] <= t
        /\ (b < tip => Utime[b + 1] > t)
    BY <1>3 DEF AtOrAfter, AtOrBefore
  <2>2. Utime[tip + 1] \in Nat /\ Utime[a] \in Nat /\ Utime[a] < Utime[tip + 1]
    BY <1>1, <2>1, UtimeAssumption, MaxSeqnoAssumption
  <2>3. Utime[b + 1] > t
    <3>1. CASE b < tip
      BY <2>1, <3>1
    <3>2. CASE b = tip
      BY <2>1, <2>2, <3>2
    <3> QED
      BY <1>1, <2>1, <3>1, <3>2
  <2> QED
    BY <1>1, <2>1, <2>3 DEF AtOrBefore
<1> QED
  BY <1>2, <1>3 DEF BlocksAt

\* What a look-up gives is a block there is.
LEMMA BlocksAreThere == \A t : BlocksAt(t) \subseteq 0 .. tip
  BY DEF BlocksAt, AtOrAfter, AtOrBefore

LEMMA AnchorsAreThere ==
    ASSUME NEW q, q.kind \in {"election_id", "block", "unixtime"}, NEW b \in AnchorBlocks(q)
    PROVE  b \in 0 .. tip
  BY BlocksAreThere DEF AnchorBlocks, Known

\* New blocks add boundaries and take none away.
LEMMA EdgesGrow ==
    ASSUME ChainOK, Grow PROVE Edges(chain, tip) \subseteq Edges(chain', tip')
  BY MaxSeqnoAssumption DEF ChainOK, Grow, Edges

-------------------------------------------------------------------------------
(* Searches *)

LEMMA FoundIs ==
    ASSUME NEW t, NEW x \in Found(t)
    PROVE  \E e \in Edges(chain, tip), s \in BlocksAt(t) :
              /\ x = EdgeAt(chain, e)
              /\ s - MaxBoundarySearch + 1 <= e /\ e <= s + MaxBoundarySearch
  BY DEF Found, SearchRange

\* Boundaries are too far apart for a search to confuse them.
LEMMA EdgesApart ==
    ASSUME NEW c \in Chains, NEW a \in Edges(c, MaxSeqno), NEW b \in Edges(c, MaxSeqno),
           a < b
    PROVE  b > a + 2 * MaxBoundarySearch
<1>1. b - a > 2 * MaxBoundarySearch
  BY LongRoundsAssumption
<1> QED
  BY <1>1, MaxBoundarySearchAssumption, EdgesAre, MaxSeqnoAssumption

\* A look-up of an election's time comes at most two blocks before its round.
LEMMA StartNear ==
    ASSUME ChainOK, NEW b \in 0 .. tip, chain[b] # chain[0]
    PROVE  \E a \in Edges(chain, tip) :
              /\ a <= b /\ chain[a] = chain[b]
              /\ \A s \in BlocksAt(chain[b]) : a - 2 <= s /\ s <= a
<1> DEFINE E == chain[b]
<1>1. /\ chain \in Chains /\ tip \in 0 .. MaxSeqno /\ b \in 0 .. MaxSeqno /\ E \in Nat
      /\ b \in Int /\ tip \in Int /\ MaxSeqno \in Nat
  BY MaxSeqnoAssumption, ElectionsAreNat DEF ChainOK
<1>2. PICK a \in Edges(chain, MaxSeqno) : a <= b /\ chain[a] = E
  BY <1>1, RoundHasStart
<1>3. a \in 1 .. MaxSeqno /\ a \in 0 .. MaxSeqno /\ a \in Int /\ a \in Edges(chain, tip)
  BY <1>1, <1>2 DEF Edges
<1>4. E <= Utime[a] /\ (a > 1 => Utime[a - 2] < E)
  BY <1>1, <1>2, RotationAssumption
<1>5. ASSUME NEW s \in BlocksAt(E) PROVE a - 2 <= s /\ s <= a
  <2>1. s \in 0 .. tip /\ s <= a
    BY <1>1, <1>3, <1>4, NotAfter
  <2>2. CASE a > 1
    <3>1. a - 2 \in 0 .. MaxSeqno
      BY <1>1, <1>3, <2>2
    <3> QED
      BY <1>1, <1>4, <2>1, <2>2, <3>1, NotBefore
  <2>3. CASE a = 1
    BY <2>1, <2>3
  <2> QED
    BY <1>3, <2>1, <2>2, <2>3
<1> QED
  BY <1>2, <1>3, <1>5

\* The first round has no begin to find: the look-up gives the chain's first block.
LEMMA FirstStart ==
    ASSUME ChainOK, NEW s \in BlocksAt(chain[0]) PROVE s = 0
<1>1. chain \in Chains /\ 0 \in 0 .. MaxSeqno /\ chain[0] \in Nat
  BY MaxSeqnoAssumption, ElectionsAreNat DEF ChainOK
<1>2. chain[0] <= Utime[0]
  BY <1>1, FirstRoundAssumption
<1>3. s \in 0 .. tip /\ s <= 0
  BY <1>1, <1>2, NotAfter
<1> QED
  BY <1>3

\* The block at an election's time is of its round or of the one before.
LEMMA AtAnElectionsTime ==
    ASSUME ChainOK, NEW b \in 0 .. MaxSeqno, NEW s \in BlocksAt(chain[b])
    PROVE  \/ chain[s] = chain[b]
           \/ \E a \in Edges(chain, MaxSeqno) : /\ chain[a] = chain[b]
                                                /\ chain[a - 1] = chain[s]
<1> DEFINE E == chain[b]
<1>1. /\ chain \in Chains /\ tip \in 0 .. MaxSeqno /\ E \in Nat /\ s \in 0 .. tip
      /\ b \in Int /\ tip \in Int /\ MaxSeqno \in Nat /\ s \in Int /\ s \in 0 .. MaxSeqno
  BY MaxSeqnoAssumption, ElectionsAreNat, BlocksAreThere DEF ChainOK
<1>2. CASE E = chain[0]
  BY <1>2, FirstStart
<1>3. CASE E # chain[0]
  <2>1. PICK a \in Edges(chain, MaxSeqno) : a <= b /\ chain[a] = E
    BY <1>1, <1>3, RoundHasStart
  <2>2. a \in 1 .. MaxSeqno /\ a \in 0 .. MaxSeqno /\ a \in Int /\ a - 1 \in 0 .. MaxSeqno
    BY <1>1, <2>1 DEF Edges
  <2>3. E <= Utime[a] /\ (a > 1 => Utime[a - 2] < E)
    BY <1>1, <2>1, RotationAssumption
  <2>4. s <= a
    BY <1>1, <2>2, <2>3, NotAfter
  <2>5. a > 1 => s >= a - 2
    BY <1>1, <2>2, <2>3, NotBefore
  <2>6. s = a \/ s = a - 1 \/ (s = a - 2 /\ a > 1)
    BY <1>1, <2>2, <2>4, <2>5
  <2>7. ASSUME s = a - 2, a > 1 PROVE chain[a - 2] = chain[a - 1]
    <3> SUFFICES ASSUME chain[a - 2] # chain[a - 1] PROVE FALSE
      OBVIOUS
    <3>1. a - 1 \in Edges(chain, MaxSeqno)
      BY <1>1, <2>2, <2>7 DEF Edges
    <3>2. a > a - 1 + 2 * MaxBoundarySearch
      BY <1>1, <2>1, <2>2, <3>1, EdgesApart
    <3> QED
      BY <2>2, <3>2, MaxBoundarySearchAssumption
  <2> QED
    BY <2>1, <2>6, <2>7
<1> QED
  BY <1>2, <1>3

\* What a search near an election's time finds is the start of its round.
LEMMA StartFound ==
    ASSUME ChainOK, NEW b \in 0 .. tip, NEW x \in Found(chain[b])
    PROVE  \E a \in Edges(chain, tip) : /\ x = EdgeAt(chain, a)
                                        /\ chain[a] = chain[b] /\ chain[b] # chain[0]
<1> DEFINE E == chain[b]
<1>1. chain \in Chains /\ tip \in 0 .. MaxSeqno
  BY DEF ChainOK
<1>2. PICK e \in Edges(chain, tip), s \in BlocksAt(E) :
        /\ x = EdgeAt(chain, e)
        /\ s - MaxBoundarySearch + 1 <= e /\ e <= s + MaxBoundarySearch
  BY FoundIs
<1>3. e \in Edges(chain, MaxSeqno) /\ e \in Int
  BY <1>1, EdgesAre
<1>4. s \in Int
  BY DEF BlocksAt, AtOrAfter, AtOrBefore
<1>5. E # chain[0]
  <2> SUFFICES ASSUME E = chain[0] PROVE FALSE
    OBVIOUS
  <2>1. s = 0
    BY <1>2, FirstStart
  <2>2. e > MaxBoundarySearch
    BY <1>1, <1>3, LongRoundsAssumption
  <2> QED
    BY <1>2, <1>3, <2>1, <2>2, MaxBoundarySearchAssumption
<1>6. PICK a \in Edges(chain, tip) : chain[a] = E /\ a - 2 <= s /\ s <= a
  BY <1>2, <1>5, StartNear
<1>7. a \in Edges(chain, MaxSeqno) /\ a \in Int
  BY <1>1, EdgesAre
<1>8. ~ (e < a)
  <2>1. e < a => a > e + 2 * MaxBoundarySearch
    BY <1>1, <1>3, <1>7, EdgesApart
  <2> QED
    BY <1>2, <1>3, <1>4, <1>6, <1>7, <2>1, MaxBoundarySearchAssumption, LongRoundsAssumption
<1>9. ~ (a < e)
  <2>1. a < e => e > a + 2 * MaxBoundarySearch
    BY <1>1, <1>3, <1>7, EdgesApart
  <2> QED
    BY <1>2, <1>3, <1>4, <1>6, <1>7, <2>1, MaxBoundarySearchAssumption
<1> QED
  BY <1>2, <1>3, <1>5, <1>6, <1>7, <1>8, <1>9

\* A search near the time of an election whose round has a begin finds something.
LEMMA StartIsFound ==
    ASSUME ChainOK, NEW b \in 0 .. tip, NothingNear(chain[b]) PROVE chain[b] = chain[0]
<1> SUFFICES ASSUME chain[b] # chain[0] PROVE FALSE
  OBVIOUS
<1>1. PICK s \in BlocksAt(chain[b]) : Edges(chain, tip) \cap SearchRange(s) = {}
  BY DEF NothingNear
<1>2. PICK a \in Edges(chain, tip) : a - 2 <= s /\ s <= a
  BY <1>1, StartNear
<1>3. a \in Int /\ s \in Int
  BY DEF Edges, BlocksAt, AtOrAfter, AtOrBefore
<1>4. a \in SearchRange(s)
  BY <1>2, <1>3, MaxBoundarySearchAssumption, LongRoundsAssumption DEF SearchRange
<1> QED
  BY <1>1, <1>4

\* What a search near a round's end finds is its end, if the round has a start.
LEMMA EndFound ==
    ASSUME ChainOK, NEW a \in Edges(chain, tip), NEW x \in Found(Until[chain[a]])
    PROVE  \E e \in Edges(chain, tip) : /\ x = EdgeAt(chain, e)
                                        /\ a < e /\ chain[e - 1] = chain[a]
<1> DEFINE U == Until[chain[a]]
           M == MaxBoundarySearch
<1>1. /\ chain \in Chains /\ tip \in 0 .. MaxSeqno /\ tip \in Int /\ MaxSeqno \in Nat
      /\ M \in Nat \ {0} /\ a \in Edges(chain, MaxSeqno) /\ a \in 1 .. tip
      /\ a \in 0 .. MaxSeqno /\ a \in Int
  BY MaxSeqnoAssumption, MaxBoundarySearchAssumption, EdgesAre DEF ChainOK
<1>2. U \in Nat
  BY <1>1, UntilAssumption, ElectionsAreNat
<1> HIDE DEF U
<1>3. PICK e \in Edges(chain, tip), s \in BlocksAt(U) :
        x = EdgeAt(chain, e) /\ s - M + 1 <= e /\ e <= s + M
  BY FoundIs DEF U
<1>4. e \in Edges(chain, MaxSeqno) /\ e \in 1 .. tip /\ e \in 1 .. MaxSeqno /\ e \in Int
      /\ e - 1 \in 0 .. MaxSeqno /\ e \in 0 .. MaxSeqno
  BY <1>1, EdgesAre
<1>5. s \in 0 .. tip /\ s \in Int
  BY DEF BlocksAt, AtOrAfter, AtOrBefore
<1>6. s >= a + M
  <2>1. \A k \in 0 .. MaxSeqno : k <= a + M => Utime[k] < U
    BY <1>1, LongRoundsAssumption DEF U
  <2>2. CASE a + M \in 0 .. MaxSeqno
    BY <1>1, <1>2, <2>1, <2>2, NotBefore
  <2>3. CASE a + M \notin 0 .. MaxSeqno
    <3>1. PICK u \in 0 .. tip : Utime[u] >= U
      BY DEF BlocksAt, AtOrAfter
    <3>2. u \in 0 .. MaxSeqno /\ u <= a + M /\ Utime[u] \in Nat
      BY <1>1, <2>3, TimesRise
    <3> QED
      BY <1>2, <2>1, <3>1, <3>2
  <2> QED
    BY <2>2, <2>3
<1>7. a < e
  BY <1>1, <1>3, <1>4, <1>5, <1>6
<1>8. chain[e - 1] = chain[a]
  <2> SUFFICES ASSUME chain[e - 1] # chain[a] PROVE FALSE
    OBVIOUS
  <2>1. a < e - 1
    <3>1. a # e - 1
      OBVIOUS
    <3> QED
      BY <1>1, <1>4, <1>7, <3>1
  <2>2. PICK d \in Edges(chain, MaxSeqno) : a < d /\ d <= e - 1 /\ chain[d - 1] = chain[a]
    BY <1>1, <1>4, <2>1, RoundHasEnd
  <2>3. d \in 1 .. MaxSeqno /\ d \in Int /\ d \in 0 .. MaxSeqno /\ d < e
    BY <1>1, <1>4, <2>2, EdgesAre
  <2>4. U <= Utime[d]
    <3>1. U <= chain[d] /\ chain[d] <= Utime[d]
      BY <1>1, <2>2, RotationAssumption DEF U
    <3>2. chain[d] \in Nat /\ Utime[d] \in Nat
      BY <1>1, <2>3, ElectionsAreNat, TimesRise
    <3> QED
      BY <1>2, <3>1, <3>2
  <2>5. s <= d
    BY <1>2, <2>3, <2>4, NotAfter
  <2>6. e > d + 2 * M
    BY <1>1, <1>4, <2>2, <2>3, EdgesApart
  <2> QED
    BY <1>1, <1>3, <1>4, <1>5, <2>3, <2>5, <2>6
<1> QED
  BY <1>3, <1>7, <1>8
=============================================================================
