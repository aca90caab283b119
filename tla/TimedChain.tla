------------------------------ MODULE TimedChain ------------------------------
(* What the request handlers read of the masterchain besides its election ids:
   block times, the schedule of the rounds, lookups by time, and the elector's
   bonuses.  Only getAnchorExt, the step the handlers share, is code of
   src/service; the rest is what the liteservers and the elector answer.

   Amounts belong to RewardSplit, so bonuses are counted in blocks here: one
   unit for each block the round's validators have produced.                 *)
EXTENDS BlockTimes, FiniteSets

CONSTANTS Until,       \* utime_until of each election's validator set
          Skews,       \* how far the server's clock may be off the chain's
          Times,       \* the election ids and times a request may name
          Uint32Range  \* 2^32

ASSUME SkewsAssumption == Skews \subseteq Int

ASSUME Uint32RangeAssumption == Uint32Range \in Nat \ {0}

\* getConfigParam34 takes a zero utime for an empty parameter; there is none.
ASSUME UntilAssumption == 0 \notin ElectionIDs /\ Until \in [ElectionIDs -> Nat \ {0}]

\* The rotation to election id happens at the first or second block whose time
\* has reached id, and never before the outgoing set's utime_until.
ASSUME RotationAssumption ==
    \A c \in Chains : \A a \in Edges(c, MaxSeqno) :
        /\ c[a - 1] < c[a] /\ Until[c[a - 1]] <= c[a]
        /\ c[a] <= Utime[a]
        /\ a > 1 => Utime[a - 2] < c[a]

\* Rounds are long (about 18 hours) against a search (20 blocks, a minute or
\* two): the first lasts longer than a search, no two boundaries share a search
\* range, and no round is scheduled to end within a search of its first block.
ASSUME LongRoundsAssumption ==
    /\ MaxBoundarySearch >= 2
    /\ \A c \in Chains : \A a \in Edges(c, MaxSeqno) :
          /\ a > MaxBoundarySearch
          /\ \A b \in Edges(c, MaxSeqno) : a < b => b - a > 2 * MaxBoundarySearch
          /\ \A k \in 0 .. MaxSeqno : k <= a + MaxBoundarySearch => Utime[k] < Until[c[a]]

\* The chain starts in a round that has begun.
ASSUME FirstRoundAssumption == \A c \in Chains : c[0] <= Utime[0]

VARIABLE skew   \* the server's clock less the chain's

\* time.Now() on the server, when the chain has just produced its tip.
Now == Utime[tip] + skew

\* What the elector has credited to a round's validators by block b.
BonusesAt(id, b) == Cardinality({k \in 0 .. b : chain[k] = id})

\* The elections past_elections lists at block b: an election is listed, with
\* no bonuses yet, before its validators take over.
PastElectionsAt(b) == {chain[k] : k \in {j \in 0 .. MaxSeqno : j <= b + 1}}

\* (Mutant of AnchorBlocks: a block number is not looked up.)
AnchorUnchecked(q) ==
    CASE q.kind = "block" -> {q.value}
      [] q.kind = "election_id" -> BlocksAt(q.value % Uint32Range)
      [] q.kind = "unixtime" -> BlocksAt(q.value)

\* getAnchorExt.  An election_id is looked up as a time, cut to 32 bits.
AnchorBlocks(q) ==
    CASE q.kind = "block" -> {b \in {q.value} : Known(b)}
      [] q.kind = "election_id" -> BlocksAt(q.value % Uint32Range)
      [] q.kind = "unixtime" -> BlocksAt(q.value)

\* The boundaries a search near time t may come back with.
Found(t) == {EdgeAt(chain, a) : a \in {e \in Edges(chain, tip) :
                                         \E s \in BlocksAt(t) : e \in SearchRange(s)}}

\* A search in which every lookup went through may still find nothing.
NothingNear(t) == \E s \in BlocksAt(t) : Edges(chain, tip) \cap SearchRange(s) = {}
=============================================================================
