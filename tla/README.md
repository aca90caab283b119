# Specifications of ton-validators-rewards-api

TLA+ models of the service under `src/`, TLC configurations that check them on
small instances, and TLAPS proofs of what they state but for liveness. Every definition
is translated from the Go source; `PROJECT.json` maps each one to its lines.

Parse with `tlasany M.tla`, check with `tlc -config X.cfg MCM.tla`, prove with
`tlapm M_proofs.tla`, all in this directory.

## 1. The system

An HTTP service answers three questions about TON validators. It keeps no
database: each answer is computed from what a set of liteservers say about the
masterchain, whose blocks, configuration (param 34: the validator set in force,
with `utime_since` = the election id and `utime_until`) and elector contract
(`past_elections`, `compute_returned_stake`) it reads.

| Part | State it keeps | Operations | Interacts with |
|---|---|---|---|
| Boundary search, `findElectionBoundary` (rounds.go) | none beyond a call: two ends of a window, a loop counter | resolve a time, walk outward one block forward, one back, up to 20 rounds | loaders; called by both round handlers, and by `populatePrevNextElectionIDs` |
| Round rewards, `FetchRoundRewards` (rounds.go) | per request | anchor, round, two searches, pin two blocks, read bonuses, split | search, reward split, past elections |
| Validation rounds, `FetchValidationRounds` (rounds.go) | per request | anchor, round, start block, end search, neighbours | search, loaders |
| Per-block rewards, `FetchPerBlockRewards` (blocks.go) | per request | block, five concurrent reads, bonus difference, round's blocks, walk back to the previous round | past elections, reward split |
| Reward split, `computeValidatorRewards` (shared.go) | per request; one goroutine per validator | integer shares, sort, fill entries, nominators' shares | pool data, returned stake |
| Past elections, `getAllPoolAddresses` (pool.go) | **process-wide cache** `pastElectionsCache` | check, parse and merge, store | elector |
| Pool data, `fetchPoolData` (pool.go) | **process-wide** `poolTypeCache`; one goroutine per validator | look in the cache, read the account, detect by code hash, decode, keep | pool contracts; called with the addresses of past elections |
| Liteserver client (roundrobin.go, retry.go) | round-robin counter **shared by all sessions**; per session an exclude list | pick a connected server, call, exclude, retry up to 30 times | liteapi connections |
| Client refresh and config (service.go, client.go) | **process-wide** client and config, each with an age | double-checked refresh under a write lock, fetch or reuse config | config file or URL |
| Loaders (loaders.go) | **process-wide** loaders by time, seqno and config, each with an LRU cache of 1000 thunks and the batch it collects | load: join a flight or open one; run a batch; delete the key of an error | the client they were made with; config looks blocks up with seqno; called by everything that reads the chain |
| Handlers (api/handler.go) | none | accept or refuse parameters | the three fetches |
| roundcheck (cmd/roundcheck) | none | add up an answer's rewards against its total | an answer in a file |

What is hard here: the chain grows while a request runs, and times are resolved
to a block on either side; an answer is assembled from several such reads; many
failures are only logged and an answer is given without the missing part;
several process-wide objects are read and written by concurrent requests with
the lock released in between, or kept across a call that may not come back;
requests share their reads, and the errors of them; what was read of one block is
kept and served for others; retries share state with each other. Sixteen-digit
amounts are rounded at three levels and have to add up.

What makes each part correct, in a sentence:

* search: what it returns is a real pair of adjacent blocks, near its start, the
  nearest if nothing failed; "not found" is true; it ends;
* round rewards: an answer is about the anchor's round, whole, and all of it from
  that round; a refusal has a reason;
* validation rounds: the blocks reported hold the round; `prev_election_id` is
  the round before; only a round without a predecessor is refused outright;
* per-block rewards: the reward is that block's; the previous election is the
  previous one;
* split: never more than there is, at most rounding lost, at every level;
* roundcheck: a sound answer misses its total by the rounding and no more;
* past elections: a request gets the members of the elections it read;
* pool data: what a validator is shown of its pool is what the pool holds at the
  request's own block;
* loaders: a read through them is as good as asking a liteserver; no error is
  kept; every read comes back;
* client: an excluded server is not asked again, the server that has the block is
  reached, every session ends;
* refresh: once per TTL, from a config fetched anew, always a usable client, no
  request waits for ever unless the config source does not answer for ever.

## 2. The modules

```
MasterChain                             elections of the blocks, the newest block
 |-- BoundaryPromise                    what callers of a search rely on
 |-- ElectionBoundary                   findElectionBoundary; implements BoundaryPromise
 |    `-- ElectionBoundary_proofs (and TimedChain_proofs)
 `-- BlockTimes                         block times, look-ups by time and seqno
      |-- TimedChain                    schedule, anchors, searches as promised, bonuses
      |    |-- TimedChain_proofs        lemmas
      |    |-- RoundRewards             GET /api/round-rewards
      |    |    `-- RoundRewards_proofs (and TimedChain_proofs)
      |    |-- ValidationRounds         GET /api/validation-rounds
      |    |    `-- ValidationRounds_proofs (and TimedChain_proofs)
      |    `-- PerBlockRewards          GET /api/validators
      |         `-- Validators_proofs (and RoundCheck, TimedChain_proofs)
      `-- DirectReads                   the three reads without loaders
           `-- Loaders                  loaders.go; implements DirectReads
                `-- Loaders_proofs
PastElections                           getAllPoolAddresses and its cache
 `-- PoolData                           fetchPoolData and poolTypeCache on top of it;
      |                                 implements PastElections
      `-- PoolData_proofs               proofs of both caches
RewardSplit                             computeValidatorRewards, buildValidatorRows, MulDiv
 `-- RoundCheck                         cmd/roundcheck, on the answers of the split
      `-- Validators_proofs             proofs of split, roundcheck and PerBlockRewards
LiteClient                              nextClient, clientForRequest, retryWithContext
 `-- Client_proofs (and ServiceClient)
ServiceClient                           currentClient, getCachedConfig, WithLoaders
 `-- Client_proofs                      proofs of both client modules
MC*                                     constants for TLC, nothing else
```

(A line leads from a module to those that extend it.)

**MasterChain, BlockTimes, TimedChain** are mostly the environment: the election id in force
at each block (`chain`), the newest block (`tip`, which only `Grow` moves), block
times and schedules. From the code they take the shape of a boundary, the reach
of a search (`SearchRange`: forward 20 blocks, back 19 plus the block the edge
belongs to), `getAnchorExt` (`AnchorBlocks`) and the two look-ups (`Known`,
`BlocksAt`). Amounts are left to RewardSplit: `BonusesAt` counts one unit per
block of the round, which is enough to tell whether a difference spans one
block, two, or two rounds.

**ElectionBoundary** has one action per outcome of a step of the loop: a look-up
hits or misses (a miss covers both a block that does not exist yet and an
exhausted retry, which the code does not tell apart), a config read fails (the
search aborts) or gives the same or another election. `missed` is a history
variable. The warm-up goroutines (rounds.go:140-157) are left out here: they
change only what the loaders hold, and their look-ups, which may outlive the
request and ask for blocks there are not (`ext.Seqno - 2` wraps around in uint32
at blocks 0 and 1), are callers of Loaders.

**BoundaryPromise** has three steps: the time is located, an edge in range is
answered, or the search fails. ElectionBoundary is checked and proved to
implement it, with `promiseStatus` for the promise's `status`. The request modules use a search as this promise
(`Found(t)` is the set of edges it may answer, `NothingNear(t)` whether it may
find none, with any start the time may resolve to). That a search has only such
outcomes is proved (`OutcomeNearThm`), so that they need not be composed with it step
by step.

**RoundRewards, ValidationRounds, PerBlockRewards** follow one request each,
from its parameters (`Accept`, `Reject`: the handler) through one action per
read to the answer, with `NewBlock` at any point and `RPCFails` where a failed
call is returned to the user. Where the code only logs, the action goes on
without the value (`EndUnknown`, `WalkFails`, failed `reads`, `Absent` blocks).
The host's clock is the chain's plus a fixed `skew`. In ValidationRounds the
estimation of further rounds (rounds.go:413-490) is unreachable since `limit` is
the constant 1, and left out. `RPCFails` also stands for the checks of
rounds.go:273-285 that end in a plain error: no validators, no true stake, the
election not listed.

**RewardSplit** is one call: `Rank` builds and sorts the rows (ties in any order:
Go's sort is not stable), then one goroutine per validator writes the place its row
has (`Slot`), in any order, in one of the code's ways: basic (`FillBasic`: shallow or no pool),
pool (`FillPool`), nominators (`FillNominators`), or the division by zero that
ends the process (`Panics`). The credit is read or not, independently.

**RoundCheck** reads RewardSplit's answer as the command does, with the fields the
two endpoints write and those they do not (`Unset`), and adds it up.

**PastElections** separates what the lock separates: `Hit` and `Miss` are
decided under it, `Store` is a second critical section after the parse. The
elector's contents at each block are a fixed history: what is listed, what each
key froze and from which pool, from which block a fine has lowered it, and which
elections have members that parse (`Parsed`: the others are left out of the merge,
and cached under their ids nevertheless).

**PoolData** goes on where a request of PastElections has its pools: `Fork` starts
a goroutine for each validator of the round, at the block the pools were read at
or, for a round, at the next one. Each looks in the cache (`Recall`, `NotKept`),
then reads the account and keeps what `fetchPoolData` keeps (`Detect`), or cannot
read it (`StateFails`). The check and the store are two steps, since `sync.Map`
makes them two. The pools' accounts, block by block, are a constant: not
deployed, foreign code, a nominator pool or a single nominator, with data that
decodes or does not.

**DirectReads** is the abstract specification of the loaders, and code too: what
the three read functions do when no loader is in the context. A read asks, and is
answered with an error or with what the chain holds at that moment.

**Loaders** has `Begin` (a load: `Hit` takes the thunk in the cache, `Miss` caches
a new one, perhaps dropping another, and joins or opens a batch), `CloseWindow`
(the 16 ms are over), `Fetch` and `FetchFails` for each key of a running batch,
`LookUp` and `LookedUp` for the nested look-up of a config read, `Land` (all
goroutines of the batch are done and the results are handed out) and `Return`
(with `NewSkipCacheError`'s deletion). `Cancel` and `Renew` are the requests: a
batch has the context of the load that opened it, callers go on reading when
their request is gone, and a new request starts when all of them have come back.
A thunk is in flight, known by the load that started it, or resolved. How
graph-gophers/dataloader (v7) collects batches, keeps thunks and deletes errors
is modelled from its use here.

**LiteClient** has N servers whose connections come and go, and retry sessions
of three kinds that differ in what the request sees of the exclude list and in
whose counter it steps: `lookup` (the loaders' look-ups, and every other use of
`retry` on the base client), `pinned` (a client fresh from `WithBlock`) and
`fallback` (look-ups without loaders, which the service never makes: every fetch
calls `WithLoaders`). Several goroutines retrying on one pinned client are as
`lookup` sessions of a client whose counter is that one's. `Scan` and `Pick` are separate since
sessions interleave between the connection check and the atomic add.

**ServiceClient** has a clock, a config source that changes, and requests going
through `currentClient` and `WithLoaders`. The read lock protects one step; the
write lock is held from `Lock` to `Return`. The source may be `Stalled`: a fetch
then neither returns nor fails until the source comes back.

## 3. The runs

| Run | Instance | Shows |
|---|---|---|
| ElectionBoundary | 7 blocks, every non-decreasing history of 3 elections, any tip, limit 3 | the search implements BoundaryPromise (a real boundary, in range), takes the nearest, is right when it finds none, and ends |
| RoundRewards | 19 blocks, 9 histories, 3 skews, limit 2 | an answer is whole, all of the anchor's round, with adjacent neighbours; refusals have a reason |
| ValidationRounds | the same with 3 histories | blocks hold the round, previous is adjacent, refused only at the chain's start |
| PerBlockRewards | the same with 3 histories, walk of 3 | reward of that block, previous is previous, failures have a reason |
| RewardSplit | 2 validators, 2 nominators, deposits 0..2, shares 33.33 % and 120 %, totals 1 and 10 | rounding at all levels, the order of the places, stakes within what is locked, what roundcheck makes of the answer |
| PoolData | 2 requests, 5 blocks, 3 elections, 2 keys elected one to three times, a fine, an election that does not parse; 2 pools: a nominator pool whose nominators change, a single nominator deployed in block 1 and decodable from block 2 | cached addresses are those of the elections read; stakes are never an older election's; pool types and contents are those of the request's block |
| Loaders | 2 callers of 2 requests, 2 blocks, a time, 2 seqnos and a config, caches of 1 entry | the loaders implement direct reads, keep no error, and every read returns |
| LiteClient | 2 servers, 2 sessions, 2 attempts, 1 flap, all kinds | exclusion, reaching the holder, ending |
| ServiceClient | 2 requests, 2 configs, a source that fails, empties and stalls, clock to 5, TTL 2 | a client only from a config fetched anew, usable client, everyone served |
| RewardSplitWeigh, LiteClientExclude, LoadersCancelled | as above or smaller | a disagreement each, section 6 |

Why the bounds are enough:

* ElectionBoundary: with a limit of 3 every edge lies in reach, just out of it,
  at the tip, at block 0, or competes with another edge; misses can make either
  side lag by up to the whole limit. The proofs then remove the bound.
* Requests: three rounds of about seven blocks against a limit of 2 keep the
  code's order of sizes (a round has thousands of blocks, a search twenty), so
  that a round has a middle no search reaches. The histories have the rotation at
  the first or the second block after an election's time, an election one or two
  seconds late, and one late by more than a search; the chain has gaps in its
  block times around both boundaries. Times asked for include both boundaries,
  times within rounds, and one above 2^32 (`Uint32Range` is 32 here). Skews
  of -1, 0 and 2 seconds put the host's clock on both sides. ValidationRounds and
  PerBlockRewards keep the three histories that differ most.
* RewardSplit: all roundings of the code are with divisors of at most four small
  numbers; a share above 10000 reaches the cap, deposits of 0 the division.
* PoolData: two requests are enough for any order of two check-then-store pairs, of
  addresses and of types; a block lists one election or two; the accounts are
  read before the deployment, before they decode and after, and the two
  blocks a nominator pool is read at differ in its nominators. Requests are
  interchangeable and the properties checked with this symmetry are invariants.
* Loaders: with one cache entry every miss evicts what is there, in flight or
  answered, which 1000 entries do rarely; two callers are enough for a shared
  flight, for two flights of one key, for a late deletion and for a batch opened
  by another's request. A config read has a nested look-up of a key the other
  caller may ask for too, and block 1 may be asked for before it exists. The
  proofs then remove the bounds.
* LiteClient: two servers, one with the block, or none; the counter's range is a
  multiple of every list length, as 2^64 nearly is (the code's `int` conversion
  of the counter turns negative only after 2^63 calls, which is out of scope).
* ServiceClient: the clock goes past the second refresh.

Deadlock is checked for PoolData, Loaders, LiteClient and ServiceClient. The other
modules follow one call, which really ends: those configurations say
`CHECK_DEADLOCK FALSE`.

**Fairness.** ElectionBoundary: weak fairness of the search's own steps (a
goroutine whose call returned goes on; every call returns since retries are
bounded), none of `NewBlock`: the chain may stop. LiteClient: weak fairness of
each session's steps; none of `Flap` or `Begin`. ServiceClient: strong fairness
of acquiring the read or write lock, since Go's `RWMutex` lets neither readers nor
writers starve, and of the refresh's steps, since a source that is up again and
again answers in the end. `http.Get` (client.go:90) has no timeout, so nothing
makes a stalled source answer: `EveryRequestServed` is conditional on a source
that is not stalled for ever, and without that condition it is false. Loaders:
weak fairness of the timers that close a batch and of every goroutine that can
run, in which a retry loop ends; none of `NewBlock`, `Begin`, `Cancel` and
`Renew`. The request modules, RewardSplit and PoolData have no liveness property.

## 4. What is proved

`ElectionBoundary_proofs` proves, for every chain, tip, set of election ids and
limit: `TypeCorrect`, `FoundIsBoundaryThm`, `FoundIsNearThm`,
`NearestWhenReliableThm`, `NotFoundIsTrueThm` and `Refinement`. All rest on
`Inductive`: none of the properties is inductive alone, since they speak of the
end of the search and the steps before it must have kept:

* `Window`: every block from `bwd` to `fwd` has the election of the start block,
  so the two blocks at an end of the window differ where the ids do;
* `Reach`: after `i` rounds each end is at most `i` steps away, exactly `i` if
  that direction missed nothing (or stands at block 0), which gives both the range
  and, for "not found", that the whole range was read;
* `AtAnEnd`: a boundary that was found is at one end of the window.

`NearestWhenReliable` follows since any edge with a smaller rank would lie
inside the window. `Refinement` shows that each step is one of
BoundaryPromise's or leaves its variables alone; finding uses the invariant in
the next state.

Two more theorems link the search to its surroundings. `OutcomeNearThm`: for every
time, a search whose start is a block that time may resolve to (`SpecNear`) ends in
an edge of `Found(t)`, or, when no look-up failed, with `NothingNear(t)`: just what
RoundRewards and ValidationRounds take for its outcome. The handlers judge it at the
moment of the answer, but the search started earlier, so that it rests on blocks a time
resolves to staying such blocks as the chain grows (`BlocksAtGrow`).
`StepsRunOutThm` is the safety half of `Terminates`: every step of the search lowers
`StepsLeft`, at most 2 * `maxBoundarySearch` + 1, and new blocks leave it alone.

`PoolData_proofs` proves, of the addresses, for any number of requests, validators
and blocks and any history, `TypeCorrect`, `ServesItsElectionsThm` and
`StakeIsTheRoundsThm`. The strengthening is `CacheIsOfOneRead`: the two cache
fields are always from one read of one block, because `Store` writes both under
the lock. For the stakes, a key gets what its last election that parses froze, since
the merge goes through the elections in ascending order (`MergeGivesTheLast`): not
an election before the round's own, if that one parses and has the key, and as it
was at the block the cache was filled from, which lists the same elections.

It proves that PoolData implements PastElections (`ImplementsPastElections`:
`fetchPoolData` leaves the addresses alone), so that `PoolServesItsElections` and
`PoolStakesAreTheRounds` follow from these, and about the types
`PoolTypeCorrect` and `AgreesWithItsBlockThm`. `AgreesWithItsBlock` speaks of one
request and its block, the cache was filled by others at theirs; the invariant
`PoolIInv` remembers for what is kept that some block held it and that it was fit
to be kept (`KeptWasTrue`), and for every answer where it came from (`Sourced`).
That a pool is settled then carries it over to the request's block; a nominator
pool, which is not settled, is never kept.

`Loaders_proofs` proves `LoadersTypeCorrect`, `ErrorsAreNotKeptThm` and
`Refinement` (the loaders implement DirectReads), for any number of callers,
requests, keys and cache entries and any chain. They rest on `Invariance`:

* `Fits`: every thunk a cache, a caller or a nested look-up holds for a key is
  either in a flight of that key which is under way, or resolved to an answer of
  that key or an error. Neither half is inductive alone: a flight's result
  becomes a thunk's, and a thunk's identity is the load that started it, which
  may not start another while it waits;
* `CallerInv`, `FlightInv`, `WindowInv`: who holds a thunk is asking, whoever
  started a flight waits for it, a collecting batch contains its opener, so that
  a load is never reused, nor a batch joined that has run;
* the chain only grows, so that an answer stays one (`AnswersGrow`): a time is
  answered only once a block reached it, hence the two blocks beside it are the
  same later. This is why a look-up by time kept for ever is never stale.

A read that returns is then a reply DirectReads may give at that moment.

`TimedChain_proofs` has what the request proofs need of the chain: rounds are
intervals since ids rise with the blocks (`RoundIsInterval`), and a search near a
round's begin or end has exactly that round's boundary in reach (`StartFound`,
`EndFound`): the rotation is at most two blocks off (`RotationAssumption`), and
rounds are longer than a search reaches (`LongRoundsAssumption`), so that no other
boundary is near. Hence, from a start near it, such a search never comes back
empty-handed (`StartIsFound`), except at the end of a round not yet over.

`RoundRewards_proofs` proves `RequestTypeCorrect`, `AnswerIsWholeThm`,
`AnswerIsOneRoundThm`, `NeighboursAreAdjacentThm` and `RefusedForAReasonThm` for
any such chain and any search limit. The answer is computed in the last step from
what five reads left behind; the invariant `Progress` says of each what it has to
do with the others: since and until are those of the anchor's round (`Anchored`),
the first search found where that round begins (`StartOK`), the second where it
ends, past the first (`EndOK`). Blocks that come meanwhile add edges and change
none. Of a request by election id `Named` adds that the anchor was looked up at that
election's time (`IdsAreLookedUp`), so that the anchor's round is that election's or
ends where that election's begins (`NextStartsThere`).

`ValidationRounds_proofs` proves `RoundsTypeCorrect`, `BlocksHoldTheRoundThm`,
`PrevIsAdjacentThm` and `RefusedOnlyAtTheStartThm`. Here the start block is looked
up and not searched for, so that `StartOK` says less: it is within two blocks of
the round's first, or in the chain's first round. `EndOK` puts the end block at the
last of the round if the search's answer lies there, and `PrevOK` has the previous
election from an edge that only the round's first block has (`FirstOfRound`).

`Client_proofs` proves of LiteClient `ClientTypeCorrect`, `NeverAskedTwiceThm` and
`ArchiveReachedThm` for any number of servers, sessions and attempts. The
invariant's `Good` says of a session that the server it asks was on the list it
chose from, and, where it sees the exclude list, that every server that lacked the
block is excluded and its list has nothing excluded. That `healthy[k]` exists for every `k` below the length is
the pigeonhole principle (`NthIsThere`). `Tried` adds: while connections are
steady, a session that sees the exclude list has found every connected server lacking
the block, or as many as it made attempts, and one whose counter is its own has asked
just the servers at its last places (`Asked`). The counter's range is a multiple of
the list's length, so these are consecutive also where the counter wraps; as many as
the list has cover all of it (`AllAsked`), and a count that comes back to a server has
come by all the others (`AskedAgain`). A steady session that finds its server not
connected had an empty list, so that no connected server was left to it. `SessionsRunOutThm` is the safety half of `Ends`: a
session has at most three steps for each attempt, each of its own steps leaves it
fewer, and neither connections nor other sessions add any.

Of ServiceClient it proves `ServiceTypeCorrect`, `AlwaysAUsableClientThm` and
`RefreshFetchesAnewThm`. Beside the lock's exclusion (`LockInv`) and the usable
clients (`UsableInv`) they need `AgeInv`: the configuration kept is older than the
client, or was fetched a TTL or more after it for a client that then could not be
made. Hence a refresh never finds one that is fresh but of its old client.

`Validators_proofs` is about what `/api/validators` answers. Of RewardSplit and
RoundCheck it proves `SplitTypeCorrect`, `RewardsFitThePoolThm`,
`NominatorsGetTheRestThm`, `RanksFollowRewardsThm`, `StakesWithinLockedThm` and
`RoundChecksOutThm`, for any finite sets of validators and nominators and any amounts.

* Sums. The fold behind `SumFunctionOnSet` chooses a table over all subsets; that there
  is one (`TableExists`) and that any two agree (`TablesAgree`) is shown by looking at a
  smallest subset where it fails (`SmallestSubset`), which gives the sum's equation
  (`SumNonempty`). The same argument gives `SharesAddUp`: shares `r[x]` that are each
  within one unit below `a[x] * w / t` have a sum which is, up to one unit each,
  `w / t` of the sum of the `a[x]`, and `SharesOfTheWhole`: where that sum is `t`
  itself, the shares miss `w` by less than one each. It is used three times: for the
  validators' rewards, the nominators' rewards and the nominators' stakes.
* The split. `SplitInv` says where what is written comes from (`Written`): a filled
  entry has its validator's reward, a shared one was computed from the whole stake, and
  this was the stake and the credit if the elector answered. Sources and ranks stay as
  they were when the goroutines started, and no two rows have one place and none is
  left over (`RowsHavePlaces`), so that no order of theirs makes a difference.
* `RanksFollowRewardsThm` needs that `MulDiv` is monotone (`MulDivMonotone`),
  `StakesWithinLockedThm` that the deposits of a pool are no more than its stake and
  credit (`DepositsAssumption`), which is also all that is left of the bound where the
  credit could not be read, `NominatorsGetTheRestThm` that some deposit is not zero,
  which a pool that was split has (it did not panic).

Of PerBlockRewards it proves `BlockTypeCorrect`, `RewardIsTheBlocksThm`,
`PrevIsPreviousThm` and the action property `FailsForAReasonThm`. Its invariant
`BlockInv` keeps of the reads that there is a block before (`BlockRead`) and of the start
block that it is at most two blocks before the round's first, whatever block has come
since (`StartRead`). The walk stops at a boundary. That it is the round's own is because
the round before is longer than the walk and those two blocks (`WalkEndsAtTheRound`,
with `RoundsOutlastTheWalk`), and a walk from the round's first block does not fail
(`WalkSucceeds`).

Assumptions used: `MaxSeqno` and `MaxBlock` are naturals, the search limit and the
cache capacity positive naturals, chains functions from seqnos to ids; block times
are increasing naturals (`UtimeAssumption`), `Uint32Range` is a positive natural;
validators rotate near the announced
times (`UntilAssumption`, `RotationAssumption`), rounds are longer than a search
and the first has begun (`LongRoundsAssumption`, `FirstRoundAssumption`); a config
key comes with its block's
(`KeysAssumption`); every caller has a request (`RequestsAssumption`), which is
not the absence of one; any set of elections has a last (`LastElectionAssumption`);
pools hold what a pool can hold (`PoolsAssumption`, `DepositsAssumption`), there are
finitely many validators and nominators (`ValidatorsAssumption`) and totals are naturals
(`RewardPoolsAssumption`); a walk makes at least one step (`MaxWalkAssumption`) and is
shorter than a round (`RoundsOutlastTheWalk`); contents differ from their absence (`ContentsAssumption`), accounts are functions
of the block (`AccountsAssumption`); a TTL is positive and the source's failures
are not configurations. All are evaluated by TLC on the instances.

Only model-checked: liveness (`Terminates`, `Ends`, `EveryRequestServed`,
`EveryReadReturns`), which the prover does not reach. Of the first two the
safety half is proved, the bound on the steps; what only TLC checks there is that
fairness makes the steps happen.

## 5. What is assumed of the outside

* A look-up by time answers only for times the chain has reached, with the block
  before or after that time. The code relies on no more, since the search
  corrects for either side.
* Validators rotate at the first or second block past an election's time and
  never before the old set's end; election ids grow; rounds, also what there is of
  the first, are much longer than searches and than the walk of 1000 blocks, which
  starts at the round's first block or up to two before it
  (`RotationAssumption`, `LongRoundsAssumption`, `FirstRoundAssumption`,
  `RoundsOutlastTheWalk`).
* The elector lists an election before its validators take over, and credits
  bonuses to the election in force.
* A server that is not connected, and only such a one, answers "no connections
  available"; a connected one may also fail in any passing way.
* A fine changes a frozen stake without changing the elections listed; a key may
  be elected again while an older election is still listed.
* A pool's code is set once and a single nominator's roles never change, as in the
  contracts the code knows by their hashes (`Settled`): `poolTypeCache` keeps both
  for the life of the process. Nothing is assumed of a nominator pool's contents.
* A pool stakes what its nominators have deposited, and the elector has locked it or
  holds it as credit (`DepositsAssumption`). What of it is whose is not assumed, nor
  that the share in the pool's contract is at most 10000.
* dataloader keeps a thunk in its cache from the load on, hands a batch's results
  out together and by position, and runs a batch in the context of the load that
  opened it; it deletes the key of a `SkipCacheError` once for each caller.

## 6. Disagreements with the documentation

Shown by a run each:

* `NominatorsCanBeWeighed`: README.md:242-243 gives each nominator a share of the
  nominators' total; shared.go:280 divides by it also when it is 0 (all deposits
  pending), in a goroutine nothing recovers.
* `ExcludesTheRightServer`: retry.go:19-20 says the client sets `LastUsed` before
  each request; the loaders pass a context without it (loaders.go:129-132), so
  `LastUsed` stays 0 and server 0 is excluded whoever answered.
* `CancelledWithItsRequest`: loaders.go:81 and 283 call the dataloaders
  per-request; they are shared by all requests, and a batch reads in the context of
  the one whose load opened it (loaders.go:118-132). When that request is
  cancelled, the others' reads in the batch fail with "context canceled".

Met while modelling; the models behave as the code does here, and the properties
above are stated to hold in spite of it:

* `unixtime` of `/api/validation-rounds` is ignored (rounds.go:316-342 takes the
  latest block); README.md:66 says it selects the anchor.
* The loaders are those of the first client for ever (loaders.go:92, 96), not
  "backed by the given client". AlwaysAUsableClient covers that client too.
* roundcheck cannot check a per-block answer: it reads `per_block_reward`
  (cmd/roundcheck/main.go:28), which the service writes as `reward`.
  RoundChecksOut is about rounds.
* The sum roundcheck prints is short of the total by rounding; it compares the two
  exactly and reports the difference without saying that it is expected.
* An `election_id` is truncated to 32 bits and used as a time (rounds.go:49);
  README.md:98 calls it the election id of the round. Of an id that fits
  AnswerIsOneRound says that the round answered is that one or, where the look-up
  lands on the block before the rotation, the one before. A larger id names the round
  of the time it is cut to.
* `next_election_id` of `/api/validation-rounds` is the end time of the round
  (rounds.go:508-511, with a TODO); openapi.yaml:361 promises the next round's
  id. They differ when an election is late.
* `reward_per_block` is 0, not an error, when either read of the bonuses fails
  (blocks.go:119-126, shared.go:68-71); README.md:216. RewardIsTheBlocks says so:
  one block's fees or 0, never what the round has earned so far.
* A credit that cannot be read is taken as 0 (shared.go:241), and nominators'
  effective stakes become their deposits; README.md:245. They may then exceed what is
  locked: StakesWithinLocked still bounds them by stake and credit.
* A key elected again gets the later stake (pool.go:408-414), and a fine is not
  seen while the list of elections stays (pool.go:378); README.md:224.
  StakeIsTheRounds says what is left: never an older election's stake, and one the
  elector held under the same list.
* An election whose members do not parse is left out with a warning, and the rest is
  cached under all the ids (pool.go:394-398, 418-419), so that it is not tried again
  until the list changes. Its validators are given what an older listed election froze,
  or no pool; README.md:224. StakeIsTheRounds is about rounds that parse.
* Retries do not always switch servers, as retry.go:46-47 says: the counter is
  shared. "no connections available" is permanent (retry.go:27-32) although
  another server may do; ArchiveReached says that this takes a connection that
  drops during the call. "block not found" is retried 30 times (retry.go:42, 84)
  against retry.go:48.
* A config without liteservers is cached for the whole TTL (client.go:65), so
  the reload README.md:40 promises waits for another week.

## 7. What is not modelled

Decoding (TL-B, VM stacks, JSON), formatting, floating-point weights (roundcheck's
sum of them too), tracing, OpenAPI and Swagger pages, the wiring in `main.go`: no
control of their own (that an election's members or a pool's data may not decode is
modelled, in PastElections and PoolData). `cmd/bonuses` makes two reads one after the other and prints
them: no state and nothing concurrent. The elector balance and the block's time:
nothing depends on them. The fan-out over further validation rounds
(rounds.go:415-485): unreachable. What the uint32 wrap of `ext.Seqno - 2`
(rounds.go:145) asks for: a seqno far beyond the chain, which a caller of Loaders
asks for like any block that does not exist; the result is dropped.

## 8. Plan

Done: the search with its abstract specification; the three requests; the split and
roundcheck; the elections cache and the pool types; the loaders with their abstract
specification; the liteserver client; the refresh. Every safety and action property
that is checked is proved too.

Left:

1. RoundRewards composed with PoolData: elections, bonuses and accounts are read at
   the first block of the next round, validators and pool addresses at the last of
   this one.
