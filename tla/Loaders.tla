-------------------------------- MODULE Loaders --------------------------------
(* The loaders of src/service/loaders.go, which every request in the process
   shares: three dataloaders, each with an LRU cache of its own.

   A load that finds its key in the cache is given the thunk it holds, answered
   or not.  Otherwise it starts a flight: its thunk is cached at once and its
   key joins the batch the loader is collecting.  When the collecting time is
   over the batch runs, each key in a goroutine of its own, and when the last
   of them is done all thunks of the batch have their results.  A batch
   runs in the context of the request whose load opened it.  Each caller of
   a thunk whose result is an error deletes the key from the cache.

   How loads are collected into batches and thunks are kept is the work of
   graph-gophers/dataloader, which is not code of this repository.          *)
EXTENDS DirectReads, FiniteSets

CONSTANTS Requests,   \* what the callers run for
          RequestOf,  \* the request of each caller
          Capacity    \* entries of each LRU cache (1000)

ASSUME RequestsAssumption == RequestOf \in [Callers -> Requests]
ASSUME CapacityAssumption == Capacity \in Nat \ {0}

VARIABLES gone,     \* requests whose context is cancelled
          cache,    \* the three LRU caches: the thunk held for each key
          window,   \* the batch each loader is collecting
          thunk,    \* what each load waits for
          flight    \* the loads that have a place in a batch

loaderVars == <<gone, cache, window, thunk, flight>>
vars == <<chain, tip, call, loaderVars>>

\* A load is made by a caller, or for its config read: a flight of the config
\* loader looks its block up with the seqno loader.  A flight is known by the
\* load that started it, a batch by the flight that opened it.
Own(c) == <<c, "own">>
Inner(c) == <<c, "inner">>
Loads == Callers \X {"own", "inner"}
NoLoad == <<>>

BlockOf(k) == Key("blockBySeqno", k.arg)
KeyOf(w) == IF w[2] = "own" THEN call[w[1]].key ELSE BlockOf(call[w[1]].key)

\* Both are errors; the second is that of a cancelled context.
Cancelled == -2
Errors == {Failed, Cancelled}

InFlight(w) == [flight |-> w, result |-> NoResult]
Resolved(x) == [flight |-> NoLoad, result |-> x]
NoThunk == Resolved(NoResult)

Landed == [step |-> "none", batch |-> NoLoad, ctx |-> "none", result |-> NoResult]

Init == /\ ReadInit
        /\ gone = {}
        /\ cache = [k \in Keys |-> NoThunk]
        /\ window = [l \in Loaders |-> NoLoad]
        /\ thunk = [w \in Loads |-> NoThunk]
        /\ flight = [w \in Loads |-> Landed]

-------------------------------------------------------------------------------
(* Load *)

Hit(w, k) == /\ cache[k] # NoThunk
             /\ thunk' = [thunk EXCEPT ![w] = cache[k]]
             /\ UNCHANGED <<cache, window>>

\* Adding to a full LRU cache drops an entry of it, a thunk in flight included.
\* (The least recently used one; which it is makes no difference here.)
Dropped(k) == LET held == {j \in Keys : j.loader = k.loader /\ cache[j] # NoThunk}
              IN IF Cardinality(held) < Capacity THEN {{}} ELSE {{j} : j \in held}

Batch(w, k) == IF window[k.loader] = NoLoad THEN w ELSE window[k.loader]

Miss(w, k) == /\ cache[k] = NoThunk
              /\ thunk' = [thunk EXCEPT ![w] = InFlight(w)]
              /\ \E out \in Dropped(k) :
                    cache' = [j \in Keys |-> IF j = k THEN InFlight(w)
                                             ELSE IF j \in out THEN NoThunk ELSE cache[j]]
              /\ window' = [window EXCEPT ![k.loader] = Batch(w, k)]

\* (Mutant of Departing: the batch's context is taken for there already.)
DepartingInBatch(w, k, ctx) ==
    [step   |-> IF k.loader = "configParams" THEN "look up" ELSE "fetch",
     batch  |-> Batch(w, k),
     ctx    |-> flight[Batch(w, k)].ctx,
     result |-> NoResult]

\* A flight for k; ctx is the context of the load, and the batch's if it opens one.
Departing(w, k, ctx) ==
    [step   |-> IF k.loader = "configParams" THEN "look up" ELSE "fetch",
     batch  |-> Batch(w, k),
     ctx    |-> IF Batch(w, k) = w THEN ctx ELSE flight[Batch(w, k)].ctx,
     result |-> NoResult]

\* A caller reads.  It goes on doing so when its request is gone.
Begin(c, k) ==
    /\ Ask(c, k)
    /\ \/ Hit(Own(c), k) /\ UNCHANGED flight
       \/ /\ Miss(Own(c), k)
          /\ flight' = [flight EXCEPT ![Own(c)] = Departing(Own(c), k, RequestOf[c])]
    /\ UNCHANGED gone

\* (Mutant of Kept: the error is not marked with NewSkipCacheError.)
KeptAlways(k, result) == cache

\* NewSkipCacheError: whoever is given an error takes the key out of the cache,
\* whatever the cache holds for it by then.
Kept(k, result) == IF result \in Errors THEN [cache EXCEPT ![k] = NoThunk] ELSE cache

Return(c) == LET result == thunk[Own(c)].result
             IN /\ call[c].pc = "asked" /\ thunk[Own(c)].flight = NoLoad
                /\ call' = [call EXCEPT ![c].pc = "answered", ![c].result = result]
                /\ cache' = Kept(call[c].key, result)
                /\ thunk' = [thunk EXCEPT ![Own(c)] = NoThunk]
                /\ UNCHANGED <<chainVars, gone, window, flight>>

-------------------------------------------------------------------------------
(* Batches *)

\* The loader stops collecting, after 16 ms.
CloseWindow(l) == /\ window[l] # NoLoad
                  /\ window' = [window EXCEPT ![l] = NoLoad]
                  /\ UNCHANGED <<chainVars, call, gone, cache, thunk, flight>>

Runs(w) == /\ flight[w].step # "none"
           /\ \A l \in Loaders : window[l] # flight[w].batch

\* utimeBatch, seqnoBatch and the second half of configBatch: the retry loop.
Fetch(w) == /\ Runs(w) /\ flight[w].step = "fetch"
            /\ flight[w].ctx \notin gone
            /\ \E a \in Answers(KeyOf(w)) :
                  flight' = [flight EXCEPT ![w].step = "ready", ![w].result = a]
            /\ UNCHANGED <<chainVars, call, gone, cache, window, thunk>>

\* Every attempt failed: for lack of the block, in passing, or since the batch's
\* request is gone.
FetchFails(w) ==
    /\ Runs(w) /\ flight[w].step = "fetch"
    /\ flight' = [flight EXCEPT ![w].step = "ready",
                     ![w].result = IF flight[w].ctx \in gone THEN Cancelled ELSE Failed]
    /\ UNCHANGED <<chainVars, call, gone, cache, window, thunk>>

\* configBatch looks its block up, with the seqno loader and in its own context.
LookUp(c) ==
    LET k == BlockOf(call[c].key)
    IN /\ Runs(Own(c)) /\ flight[Own(c)].step = "look up"
       /\ \/ /\ Hit(Inner(c), k)
             /\ flight' = [flight EXCEPT ![Own(c)].step = "nested"]
          \/ /\ Miss(Inner(c), k)
             /\ flight' = [flight EXCEPT
                              ![Own(c)].step = "nested",
                              ![Inner(c)] = Departing(Inner(c), k, flight[Own(c)].ctx)]
       /\ UNCHANGED <<chainVars, call, gone>>

\* (Mutant of LookedUp: the look-up is tried again until it succeeds.)
LookedUpAtLast(c) ==
    LET result == thunk[Inner(c)].result
    IN /\ flight[Own(c)].step = "nested" /\ thunk[Inner(c)].flight = NoLoad
       /\ flight' = [flight EXCEPT
                        ![Own(c)].step = IF result \in Errors THEN "look up" ELSE "fetch"]
       /\ cache' = Kept(BlockOf(call[c].key), result)
       /\ thunk' = [thunk EXCEPT ![Inner(c)] = NoThunk]
       /\ UNCHANGED <<chainVars, call, gone, window>>

\* ... and goes on with it, or passes its error on.
LookedUp(c) ==
    LET result == thunk[Inner(c)].result
    IN /\ flight[Own(c)].step = "nested" /\ thunk[Inner(c)].flight = NoLoad
       /\ flight' = [flight EXCEPT
                        ![Own(c)].step = IF result \in Errors THEN "ready" ELSE "fetch",
                        ![Own(c)].result = IF result \in Errors THEN result ELSE NoResult]
       /\ cache' = Kept(BlockOf(call[c].key), result)
       /\ thunk' = [thunk EXCEPT ![Inner(c)] = NoThunk]
       /\ UNCHANGED <<chainVars, call, gone, window>>

Members(b) == {w \in Loads : flight[w].step # "none" /\ flight[w].batch = b}

\* (Mutant of Settled: the results in the order of another list of keys.)
SettledByFirst(t, b) == IF t.flight \in Members(b) THEN Resolved(flight[b].result) ELSE t

\* A thunk of the batch now has the result of its own key.
Settled(t, b) == IF t.flight \in Members(b) THEN Resolved(flight[t.flight].result) ELSE t

\* wg.Wait() returns and the batch's results are handed out, all at once.
Land(b) == /\ Members(b) # {}
           /\ \A w \in Members(b) : Runs(w) /\ flight[w].step = "ready"
           /\ cache' = [k \in Keys |-> Settled(cache[k], b)]
           /\ thunk' = [w \in Loads |-> Settled(thunk[w], b)]
           /\ flight' = [w \in Loads |-> IF w \in Members(b) THEN Landed ELSE flight[w]]
           /\ UNCHANGED <<chainVars, call, gone, window>>

-------------------------------------------------------------------------------
(* Requests *)

\* The client disconnects, or the handler has returned while goroutines it left
\* behind (the warm-up look-ups of findElectionBoundary) go on.
Cancel(r) == /\ r \notin gone
             /\ gone' = gone \cup {r}
             /\ UNCHANGED <<chainVars, call, cache, window, thunk, flight>>

\* All of them are done; another request comes in its place.
Renew(r) == /\ r \in gone
            /\ Leave({c \in Callers : RequestOf[c] = r})
            /\ gone' = gone \ {r}
            /\ UNCHANGED <<cache, window, thunk, flight>>

NewBlock == Produce /\ UNCHANGED loaderVars

Work(w) == Fetch(w) \/ FetchFails(w) \/ Land(w)

Next == \/ NewBlock
        \/ \E c \in Callers : \/ \E k \in Keys : Begin(c, k)
                              \/ Return(c) \/ LookUp(c) \/ LookedUp(c)
        \/ \E l \in Loaders : CloseWindow(l)
        \/ \E w \in Loads : Work(w)
        \/ \E r \in Requests : Cancel(r) \/ Renew(r)

\* Timers fire and goroutines that can run do run; a retry loop ends.
Fairness == /\ \A c \in Callers : WF_vars(Return(c) \/ LookUp(c) \/ LookedUp(c))
            /\ \A l \in Loaders : WF_vars(CloseWindow(l))
            /\ \A w \in Loads : WF_vars(Work(w))

Spec == Init /\ [][Next]_vars /\ Fairness

-------------------------------------------------------------------------------
(* Correctness *)

Values == Nat \cup {NoResult} \cup Errors
Thunks == [flight : Loads \cup {NoLoad}, result : Values]
Calls == [pc : {"idle", "asked", "answered"}, key : Keys \cup {NoKey}, result : Values]
Flights == {Landed} \cup [step : {"look up", "nested", "fetch", "ready"},
                          batch : Loads, ctx : Requests, result : Values]

TypeOK == /\ chain \in Chains /\ tip \in 0 .. MaxSeqno
          /\ call \in [Callers -> Calls]
          /\ gone \subseteq Requests
          /\ cache \in [Keys -> Thunks]
          /\ window \in [Loaders -> Loads \cup {NoLoad}]
          /\ thunk \in [Loads -> Thunks]
          /\ flight \in [Loads -> Flights]

\* No error stays in a cache: whenever one is there, a load that was given it has
\* yet to take it out.  So a block asked for too early is found later, whatever
\* evictions, joined flights and late deletions came in between.
ErrorsAreNotKept ==
    \A k \in Keys : cache[k].result \in Errors =>
        \E w \in Loads : KeyOf(w) = k /\ thunk[w] = cache[k]

\* Every read comes back: config flights wait for seqno flights, never the other
\* way round, and a batch for its slowest key.
EveryReadReturns == \A c \in Callers : call[c].pc = "asked" ~> call[c].pc = "answered"

\* A read through the loaders gives what a direct one may give at that moment:
\* nothing cached, shared or late is ever stale or of another key.
reads == [c \in Callers |->
             [call[c] EXCEPT !.result = IF @ = Cancelled THEN Failed ELSE @]]
Direct == INSTANCE DirectReads WITH call <- reads
ImplementsDirectReads == Direct!ReadSpec

\* loaders.go:81: "loaders holds per-request dataloaders", so a request's reads
\* are cancelled with that request only.
CancelledWithItsRequest ==
    \A c \in Callers : call[c].result = Cancelled => RequestOf[c] \in gone
=============================================================================
