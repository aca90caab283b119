---------------------------- MODULE Loaders_proofs ----------------------------
(* The loaders are as good as direct reads: for any number of callers, requests,
   keys and cache entries, and whatever is evicted, shared, cancelled or late.

   The argument is about thunks.  A thunk in flight, held by a waiting load or by
   a cache, belongs to a flight of the same key that is still under way and whose
   own load waits for it; an answered one has what the chain holds for the key,
   or an error.  What the chain holds for a key it holds for ever.          *)
EXTENDS Loaders, TLAPS

-------------------------------------------------------------------------------
(* Names *)

LEMMA LoadsAre ==
    \A w \in Loads : \E c \in Callers : w = Own(c) \/ w = Inner(c)
  BY DEF Loads, Own, Inner

LEMMA NamesDiffer ==
    \A c, d \in Callers : /\ Own(c) \in Loads /\ Inner(c) \in Loads
                          /\ Own(c) # Inner(d)
                          /\ (c # d => Own(c) # Own(d) /\ Inner(c) # Inner(d))
                          /\ Own(c) # NoLoad /\ Inner(c) # NoLoad
  BY DEF Loads, Own, Inner, NoLoad

LEMMA NoLoadIsNoLoad == NoLoad \notin Loads
  BY DEF Loads, NoLoad

LEMMA KeysOf ==
    \A c \in Callers : KeyOf(Own(c)) = call[c].key /\ KeyOf(Inner(c)) = BlockOf(call[c].key)
  BY DEF KeyOf, Own, Inner

\* A configuration's block may be asked for.
LEMMA BlockIsAKey ==
    ASSUME NEW k \in Keys, k.loader = "configParams"
    PROVE  BlockOf(k) \in Keys /\ BlockOf(k).loader = "blockBySeqno"
  BY KeysAssumption DEF BlockOf, Key

LEMMA NoKeyIsNoKey == NoKey \notin Keys
  BY KeysAssumption DEF NoKey, Key, Loaders

-------------------------------------------------------------------------------
(* Answers *)

ChainOK == chain \in Chains /\ tip \in 0 .. MaxSeqno

\* Once the chain has reached a time, the blocks next to it stay the same.
LEMMA BlocksAtGrow ==
    ASSUME ChainOK, Grow, NEW t \in Nat
    PROVE  BlocksAt(t) \subseteq BlocksAt(t)'
<1>1. tip \in 0 .. MaxSeqno /\ tip' = tip + 1 /\ tip' \in 0 .. MaxSeqno
  BY MaxSeqnoAssumption DEF ChainOK, Grow
<1>2. ASSUME NEW b \in AtOrAfter(t) PROVE b \in AtOrAfter(t)'
  BY <1>1, <1>2 DEF AtOrAfter
<1>3. ASSUME NEW a \in AtOrAfter(t), NEW b \in AtOrBefore(t) PROVE b \in AtOrBefore(t)'
  <2>1. a \in 0 .. tip /\ Utime[a] >= t /\ b \in 0 .. tip /\ Utime[b] <= t
        /\ (b < tip => Utime[b + 1] > t)
    BY <1>3 DEF AtOrAfter, AtOrBefore
  <2>2. Utime[tip + 1] \in Nat /\ Utime[a] \in Nat /\ Utime[a] < Utime[tip + 1]
    BY <1>1, <2>1, UtimeAssumption, MaxSeqnoAssumption
  <2>3. Utime[b + 1] > t
    <3>1. CASE b < tip
      BY <2>1, <3>1
    <3>2. CASE b = tip
      BY <2>1, <2>2, <3>2
    <3> QED
      BY <1>1, <2>1, <3>1, <3>2
  <2> QED
    BY <1>1, <2>1, <2>3 DEF AtOrBefore
<1> QED
  BY <1>2, <1>3 DEF BlocksAt

LEMMA AnswersGrow ==
    ASSUME ChainOK, Grow \/ UNCHANGED chainVars, NEW k \in Keys
    PROVE  Answers(k) \subseteq Answers(k)'
<1>1. CASE UNCHANGED chainVars
  BY <1>1 DEF chainVars, Answers, BlocksAt, AtOrAfter, AtOrBefore, Known
<1>2. CASE Grow
  <2>1. k.arg \in Nat
    BY KeysAssumption
  <2>2. BlocksAt(k.arg) \subseteq BlocksAt(k.arg)'
    BY <1>2, <2>1, BlocksAtGrow
  <2>3. chain' = chain /\ \A b \in 0 .. tip : b \in 0 .. tip'
    BY <1>2, MaxSeqnoAssumption DEF Grow, ChainOK
  <2> QED
    BY <2>2, <2>3 DEF Answers, Known
<1> QED
  BY <1>1, <1>2

LEMMA AnswersAreValues ==
    ASSUME ChainOK, NEW k \in Keys
    PROVE  Answers(k) \subseteq Nat
<1>1. BlocksAt(k.arg) \subseteq Nat
  BY DEF BlocksAt, AtOrAfter, AtOrBefore, ChainOK
<1>2. chain \in [0 .. MaxSeqno -> ElectionIDs] /\ ElectionIDs \subseteq Nat
  BY ChainsAssumption, ElectionIDsAssumption DEF ChainOK
<1>3. \A b \in 0 .. tip : b \in Nat /\ b \in 0 .. MaxSeqno
  BY MaxSeqnoAssumption DEF ChainOK
<1>4. \A b \in 0 .. tip : b \in Nat /\ chain[b] \in Nat
  BY <1>2, <1>3
<1> QED
  BY <1>1, <1>4 DEF Answers, Known

-------------------------------------------------------------------------------
(* The invariant *)

Active(w) == flight[w].step # "none"

\* Thunk t is one a load of key k may hold.
Fits(t, k) ==
    \/ t.flight \in Loads /\ t.result = NoResult /\ Active(t.flight) /\ KeyOf(t.flight) = k
    \/ t.flight = NoLoad /\ t.result \in Answers(k) \cup Errors

\* A caller holds a thunk while it reads, and its configuration's flight another
\* while it waits for the block.
CallerInv(c) ==
    /\ call[c].pc = "asked" => call[c].key \in Keys /\ Fits(thunk[Own(c)], call[c].key)
    /\ call[c].pc # "asked" => thunk[Own(c)] = NoThunk
    /\ flight[Own(c)].step \in {"look up", "nested"} => call[c].key.loader = "configParams"
    /\ flight[Own(c)].step = "nested" => Fits(thunk[Inner(c)], BlockOf(call[c].key))
    /\ flight[Own(c)].step # "nested" => thunk[Inner(c)] = NoThunk
    /\ flight[Inner(c)].step \notin {"look up", "nested"}

\* Whoever started a flight waits for it, and it comes back with an answer.
FlightInv(w) ==
    Active(w) => /\ thunk[w] = InFlight(w)
                 /\ flight[w].step = "ready" => flight[w].result \in Answers(KeyOf(w)) \cup Errors

CacheInv(k) == cache[k] # NoThunk => Fits(cache[k], k)

\* The batch being collected is there, and its opener in it.
WindowInv(l) == window[l] # NoLoad => Active(window[l]) /\ flight[window[l]].batch = window[l]

Inv == /\ TypeOK
       /\ \A c \in Callers : CallerInv(c)
       /\ \A w \in Loads : FlightInv(w)
       /\ \A k \in Keys : CacheInv(k)
       /\ \A l \in Loaders : WindowInv(l)
       /\ ErrorsAreNotKept

LEMMA InvTypes ==
    ASSUME Inv
    PROVE  /\ ChainOK
           /\ DOMAIN call = Callers /\ DOMAIN cache = Keys
           /\ DOMAIN thunk = Loads /\ DOMAIN flight = Loads /\ DOMAIN window = Loaders
  BY DEF Inv, TypeOK, ChainOK

\* A load that is under way has a caller that asked, with a key that may be asked
\* for.
LEMMA ActiveAsked ==
    ASSUME Inv, NEW c \in Callers
    PROVE  /\ Active(Own(c)) => call[c].pc = "asked" /\ call[c].key \in Keys
           /\ Active(Inner(c)) => flight[Own(c)].step = "nested"
           /\ flight[Own(c)].step = "nested" => Active(Own(c))
           /\ call[c].pc # "asked" => ~Active(Own(c)) /\ ~Active(Inner(c))
<1>1. InFlight(Own(c)) # NoThunk /\ InFlight(Inner(c)) # NoThunk
  BY NamesDiffer DEF InFlight, NoThunk, Resolved
<1>2. Own(c) \in Loads /\ Inner(c) \in Loads
  BY NamesDiffer
<1>3. Active(Own(c)) => call[c].pc = "asked"
  BY <1>1, <1>2 DEF Inv, CallerInv, FlightInv
<1>4. Active(Inner(c)) => flight[Own(c)].step = "nested"
  BY <1>1, <1>2 DEF Inv, CallerInv, FlightInv
<1>5. flight[Own(c)].step = "nested" => Active(Own(c))
  BY DEF Active
<1> QED
  BY <1>3, <1>4, <1>5 DEF Inv, CallerInv

\* A thunk that fits goes on doing so as long as its flight does.
FlightsStay == \A w \in Loads : Active(w) => Active(w)' /\ KeyOf(w)' = KeyOf(w)

LEMMA FitsStays ==
    ASSUME ChainOK, Grow \/ UNCHANGED chainVars, FlightsStay,
           NEW k \in Keys, NEW t, Fits(t, k)
    PROVE  Fits(t, k)'
  BY AnswersGrow DEF Fits, FlightsStay, Active

\* Who waits for a key with a thunk that is not empty asked for it.
LEMMA HoldersAsked ==
    ASSUME Inv, NEW c \in Callers
    PROVE  /\ thunk[Own(c)] # NoThunk => call[c].pc = "asked" /\ call[c].key \in Keys
           /\ thunk[Inner(c)] # NoThunk => flight[Own(c)].step = "nested" /\ call[c].pc = "asked"
                                           /\ call[c].key \in Keys
                                           /\ call[c].key.loader = "configParams"
  BY ActiveAsked DEF Inv, CallerInv

LEMMA InitEstablishes == Init => Inv
<1> SUFFICES ASSUME Init PROVE Inv
  OBVIOUS
<1>1. ChainOK
  BY DEF Init, ReadInit, ChainInit, ChainOK
<1>2. NoThunk \in Thunks /\ Landed \in Flights /\ NoCall \in Calls
  BY DEF NoThunk, Resolved, Thunks, Values, Errors, NoResult, Landed, Flights, NoCall, Calls
<1>3. TypeOK
  BY <1>1, <1>2 DEF Init, ReadInit, TypeOK, ChainOK
<1>4. NoThunk.result \notin Errors /\ Landed.step = "none" /\ NoCall.pc = "idle"
  BY DEF NoThunk, Resolved, NoResult, Errors, Failed, Cancelled, Landed, NoCall
<1>5. \A c \in Callers : CallerInv(c)
  BY <1>4, NamesDiffer DEF Init, ReadInit, CallerInv
<1>6. \A w \in Loads : FlightInv(w)
  BY <1>4 DEF Init, FlightInv, Active
<1>7. (\A k \in Keys : CacheInv(k)) /\ (\A l \in Loaders : WindowInv(l)) /\ ErrorsAreNotKept
  BY <1>4 DEF Init, CacheInv, WindowInv, ErrorsAreNotKept
<1> QED
  BY <1>3, <1>5, <1>6, <1>7 DEF Inv

-------------------------------------------------------------------------------
(* Steps that leave flights and thunks alone *)

\* The key of a load stays the same while it is under way or holds a thunk.
LEMMA KeysStay ==
    ASSUME Inv, \A c \in Callers : call'[c].key = call[c].key \/ call[c].pc # "asked"
    PROVE  \A w \in Loads : Active(w) \/ thunk[w] # NoThunk => KeyOf(w)' = KeyOf(w)
<1> SUFFICES ASSUME NEW w \in Loads, Active(w) \/ thunk[w] # NoThunk
             PROVE  KeyOf(w)' = KeyOf(w)
  OBVIOUS
<1>1. PICK c \in Callers : w = Own(c) \/ w = Inner(c)
  BY LoadsAre
<1>2. call[c].pc = "asked"
  BY <1>1, ActiveAsked, HoldersAsked
<1>3. call'[c].key = call[c].key
  BY <1>2
<1> QED
  BY <1>1, <1>3 DEF KeyOf, Own, Inner, BlockOf

\* A load under way has a key that may be asked for.
LEMMA ActiveKeys ==
    ASSUME Inv, NEW w \in Loads, Active(w)
    PROVE  KeyOf(w) \in Keys
<1>1. PICK c \in Callers : w = Own(c) \/ w = Inner(c)
  BY LoadsAre
<1>2. CASE w = Own(c)
  BY <1>2, ActiveAsked, KeysOf
<1>3. CASE w = Inner(c)
  <2>1. flight[Own(c)].step = "nested" /\ call[c].key \in Keys
    BY <1>3, ActiveAsked
  <2>2. call[c].key.loader = "configParams"
    BY <2>1 DEF Inv, CallerInv
  <2> QED
    BY <1>3, <2>1, <2>2, BlockIsAKey, KeysOf
<1> QED
  BY <1>1, <1>2, <1>3

\* What a caller holds goes on fitting while call, thunks and steps stay.
LEMMA CallerStays ==
    ASSUME Inv, NEW c \in Callers, CallerInv(c), FlightsStay,
           Grow \/ UNCHANGED chainVars,
           call'[c] = call[c], thunk'[Own(c)] = thunk[Own(c)],
           thunk'[Inner(c)] = thunk[Inner(c)],
           flight'[Own(c)].step = flight[Own(c)].step,
           flight'[Inner(c)].step \notin {"look up", "nested"}
    PROVE  CallerInv(c)'
<1>1. ChainOK
  BY InvTypes
<1>2. call[c].pc = "asked" => Fits(thunk[Own(c)], call[c].key)'
  BY <1>1, FitsStays DEF CallerInv
<1>3. flight[Own(c)].step = "nested" => Fits(thunk[Inner(c)], BlockOf(call[c].key))'
  <2> SUFFICES ASSUME flight[Own(c)].step = "nested"
               PROVE  Fits(thunk[Inner(c)], BlockOf(call[c].key))'
    OBVIOUS
  <2>1. call[c].key \in Keys /\ call[c].key.loader = "configParams"
    BY ActiveAsked DEF CallerInv
  <2>2. BlockOf(call[c].key) \in Keys /\ Fits(thunk[Inner(c)], BlockOf(call[c].key))
    BY <2>1, BlockIsAKey DEF CallerInv
  <2> QED
    BY <1>1, <2>2, FitsStays DEF BlockOf
<1> QED
  BY <1>2, <1>3 DEF CallerInv, Fits, BlockOf

LEMMA QuietKeeps ==
    ASSUME Inv, TypeOK', cache' = cache, thunk' = thunk, flight' = flight,
           Grow \/ UNCHANGED chainVars,
           \A c \in Callers : \/ call'[c] = call[c]
                              \/ call[c].pc # "asked" /\ call'[c].pc # "asked",
           \A l \in Loaders : WindowInv(l)'
    PROVE  Inv'
<1>1. \A w \in Loads : Active(w) \/ thunk[w] # NoThunk => KeyOf(w)' = KeyOf(w)
  BY KeysStay
<1>2. FlightsStay
  BY <1>1 DEF FlightsStay, Active
<1>3. ChainOK
  BY InvTypes
<1>4. ASSUME NEW c \in Callers PROVE CallerInv(c)'
  <2>1. CASE call'[c] = call[c]
    BY <1>2, <2>1, CallerStays DEF Inv, CallerInv
  <2>2. CASE call[c].pc # "asked" /\ call'[c].pc # "asked"
    <3>1. ~Active(Own(c)) /\ ~Active(Inner(c))
      BY <2>2, ActiveAsked
    <3> QED
      BY <2>2, <3>1 DEF Inv, CallerInv, Active
  <2> QED
    BY <2>1, <2>2
<1>5. ASSUME NEW w \in Loads PROVE FlightInv(w)'
  <2> SUFFICES ASSUME Active(w) PROVE FlightInv(w)'
    BY DEF FlightInv, Active
  <2>1. KeyOf(w) \in Keys /\ KeyOf(w)' = KeyOf(w)
    BY <1>1, ActiveKeys
  <2>2. Answers(KeyOf(w)) \subseteq Answers(KeyOf(w))'
    BY <1>3, <2>1, AnswersGrow
  <2> QED
    BY <2>1, <2>2 DEF Inv, FlightInv, Active, InFlight
<1>6. ASSUME NEW k \in Keys PROVE CacheInv(k)'
  BY <1>2, <1>3, FitsStays DEF Inv, CacheInv
<1>7. ErrorsAreNotKept'
  <2>1. NoThunk.result \notin Errors
    BY DEF NoThunk, Resolved, NoResult, Errors, Failed, Cancelled
  <2> QED
    BY <1>1, <2>1 DEF Inv, ErrorsAreNotKept
<1> QED
  BY <1>4, <1>5, <1>6, <1>7 DEF Inv

LEMMA NewBlockKeeps == ASSUME Inv, NewBlock PROVE Inv'
<1>1. Grow /\ call' = call /\ cache' = cache /\ thunk' = thunk /\ flight' = flight
      /\ window' = window /\ gone' = gone
  BY DEF NewBlock, Produce, loaderVars
<1>2. TypeOK'
  BY <1>1, MaxSeqnoAssumption DEF Grow, Inv, TypeOK
<1> QED
  BY <1>1, <1>2, QuietKeeps DEF Inv, WindowInv, Active

LEMMA CloseWindowKeeps ==
    ASSUME Inv, NEW l \in Loaders, CloseWindow(l) PROVE Inv'
<1>1. UNCHANGED <<chainVars, call, gone, cache, thunk, flight>>
      /\ window' = [window EXCEPT ![l] = NoLoad]
  BY DEF CloseWindow
<1>2. TypeOK'
  BY <1>1 DEF Inv, TypeOK, chainVars
<1>3. \A m \in Loaders : WindowInv(m)'
  BY <1>1 DEF Inv, TypeOK, WindowInv, Active
<1> QED
  BY <1>1, <1>2, <1>3, QuietKeeps

LEMMA CancelKeeps ==
    ASSUME Inv, NEW r \in Requests, Cancel(r) PROVE Inv'
<1>1. UNCHANGED <<chainVars, call, cache, window, thunk, flight>> /\ gone' = gone \cup {r}
  BY DEF Cancel
<1>2. TypeOK'
  BY <1>1 DEF Inv, TypeOK, chainVars
<1> QED
  BY <1>1, <1>2, QuietKeeps DEF Inv, WindowInv, Active

LEMMA RenewKeeps ==
    ASSUME Inv, NEW r \in Requests, Renew(r) PROVE Inv'
<1> DEFINE left == {c \in Callers : RequestOf[c] = r}
<1>1. UNCHANGED <<chainVars, cache, window, thunk, flight>> /\ gone' = gone \ {r}
      /\ call' = [c \in Callers |-> IF c \in left THEN NoCall ELSE call[c]]
      /\ \A c \in left : call[c].pc # "asked"
  BY DEF Renew, Leave
<1>2. NoCall \in Calls /\ NoCall.pc # "asked"
  BY DEF NoCall, Calls, Values
<1>3. TypeOK'
  BY <1>1, <1>2 DEF Inv, TypeOK, chainVars
<1> QED
  BY <1>1, <1>2, <1>3, QuietKeeps DEF Inv, WindowInv, Active

-------------------------------------------------------------------------------
(* Loads *)

\* A load w that misses: what it does to the cache, the window and its flight.
LEMMA MissTypes ==
    ASSUME Inv, NEW w \in Loads, NEW k \in Keys, NEW ctx \in Requests, Miss(w, k)
    PROVE  /\ cache' \in [Keys -> Thunks] /\ thunk' \in [Loads -> Thunks]
           /\ window' \in [Loaders -> Loads \cup {NoLoad}]
           /\ Departing(w, k, ctx) \in Flights
           /\ Departing(w, k, ctx).step \in {"look up", "fetch"}
           /\ Departing(w, k, ctx).step = "look up" => k.loader = "configParams"
           /\ Departing(w, k, ctx).batch = Batch(w, k)
           /\ thunk' = [thunk EXCEPT ![w] = InFlight(w)]
           /\ cache'[k] = InFlight(w)
           /\ \A j \in Keys : j # k => cache'[j] \in {NoThunk, cache[j]}
<1>1. InFlight(w) \in Thunks /\ NoThunk \in Thunks
  BY DEF InFlight, NoThunk, Resolved, Thunks, Values
<1>2. PICK out \in Dropped(k) :
         cache' = [j \in Keys |-> IF j = k THEN InFlight(w)
                                  ELSE IF j \in out THEN NoThunk ELSE cache[j]]
  BY DEF Miss
<1>3. k.loader \in Loaders
  BY KeysAssumption
<1>4. Batch(w, k) \in Loads
  BY <1>3 DEF Batch, Inv, TypeOK
<1>5. Batch(w, k) # w => flight[Batch(w, k)].ctx \in Requests
  <2> SUFFICES ASSUME Batch(w, k) # w PROVE flight[Batch(w, k)].ctx \in Requests
    OBVIOUS
  <2>1. Active(Batch(w, k))
    BY <1>3 DEF Batch, Inv, WindowInv
  <2>2. flight[Batch(w, k)] \in Flights
    BY <1>4 DEF Inv, TypeOK
  <2>3. flight[Batch(w, k)] # Landed
    BY <2>1 DEF Active, Landed
  <2> QED
    BY <2>2, <2>3 DEF Flights
<1>6. Departing(w, k, ctx) \in Flights
  BY <1>4, <1>5 DEF Departing, Flights, Values
<1>7. window' \in [Loaders -> Loads \cup {NoLoad}]
  BY <1>4 DEF Miss, Inv, TypeOK
<1> QED
  BY <1>1, <1>2, <1>6, <1>7 DEF Miss, Inv, TypeOK, Departing

\* ... and what still holds after it, if the other flights stay as they are.
LEMMA MissKeeps ==
    ASSUME Inv, NEW w \in Loads, NEW k \in Keys, NEW ctx \in Requests, Miss(w, k),
           UNCHANGED chainVars, ~Active(w), thunk[w] = NoThunk, KeyOf(w)' = k,
           flight'[w] = Departing(w, k, ctx),
           \A u \in Loads : u # w => /\ flight'[u].batch = flight[u].batch
                                     /\ Active(u)' <=> Active(u)
                                     /\ Active(u) \/ thunk[u] # NoThunk => KeyOf(u)' = KeyOf(u)
    PROVE  /\ FlightsStay /\ FlightInv(w)' /\ Fits(InFlight(w), k)'
           /\ \A j \in Keys : CacheInv(j)'
           /\ \A l \in Loaders : WindowInv(l)'
           /\ ErrorsAreNotKept'
<1>0. /\ thunk' = [thunk EXCEPT ![w] = InFlight(w)]
      /\ cache'[k] = InFlight(w)
      /\ \A j \in Keys : j # k => cache'[j] \in {NoThunk, cache[j]}
      /\ flight'[w].step \in {"look up", "fetch"} /\ flight'[w].batch = Batch(w, k)
  <2>1. /\ Departing(w, k, ctx).step \in {"look up", "fetch"}
        /\ Departing(w, k, ctx).batch = Batch(w, k)
        /\ thunk' = [thunk EXCEPT ![w] = InFlight(w)]
        /\ cache'[k] = InFlight(w)
        /\ \A j \in Keys : j # k => cache'[j] \in {NoThunk, cache[j]}
    BY MissTypes, Zenon
  <2> QED
    BY <2>1
<1>1. FlightsStay
  BY DEF FlightsStay
<1>2. Active(w)' /\ flight'[w].step # "ready" /\ thunk'[w] = InFlight(w) /\ w # NoLoad
  BY <1>0, NoLoadIsNoLoad DEF Active, Inv, TypeOK
<1>3. FlightInv(w)'
  BY <1>2 DEF FlightInv, InFlight, Active
<1>4. Fits(InFlight(w), k)'
  BY <1>2 DEF Fits, InFlight
<1>5. ASSUME NEW j \in Keys PROVE CacheInv(j)'
  <2>1. CASE j = k
    BY <1>0, <1>4, <2>1 DEF CacheInv
  <2>2. CASE j # k
    <3>1. cache'[j] \in {NoThunk, cache[j]}
      BY <1>0, <2>2
    <3>2. CASE cache'[j] = NoThunk
      BY <3>2 DEF CacheInv
    <3>3. CASE cache'[j] = cache[j] /\ cache[j] # NoThunk
      <4>1. PICK t : t = cache[j] /\ Fits(t, j)
        BY <3>3 DEF Inv, CacheInv
      <4>2. Fits(t, j)'
        BY <1>1, <4>1, InvTypes, FitsStays
      <4> QED
        BY <3>3, <4>1, <4>2 DEF CacheInv
    <3> QED
      BY <3>1, <3>2, <3>3
  <2> QED
    BY <2>1, <2>2
<1>6. ASSUME NEW l \in Loaders PROVE WindowInv(l)'
  <2>1. CASE l = k.loader /\ window[l] = NoLoad
    <3>1. window'[l] = w /\ Batch(w, k) = w
      BY <2>1 DEF Miss, Batch, Inv, TypeOK
    <3> QED
      BY <1>0, <1>2, <3>1 DEF WindowInv
  <2>2. CASE ~(l = k.loader /\ window[l] = NoLoad)
    <3>1. window'[l] = window[l]
      BY <2>2 DEF Miss, Batch, Inv, TypeOK
    <3>2. window[l] # NoLoad => window[l] \in Loads /\ window[l] # w
      BY DEF Inv, TypeOK, WindowInv
    <3> QED
      BY <3>1, <3>2 DEF Inv, WindowInv
  <2> QED
    BY <2>1, <2>2
<1>7. ErrorsAreNotKept'
  <2> SUFFICES ASSUME NEW j \in Keys, cache'[j].result \in Errors
               PROVE  \E u \in Loads : KeyOf(u)' = j /\ thunk'[u] = cache'[j]
    BY DEF ErrorsAreNotKept
  <2>1. NoThunk.result \notin Errors /\ InFlight(w).result \notin Errors
    BY DEF NoThunk, Resolved, InFlight, NoResult, Errors, Failed, Cancelled
  <2>2. j # k /\ cache'[j] = cache[j]
    BY <1>0, <2>1
  <2>3. PICK u \in Loads : KeyOf(u) = j /\ thunk[u] = cache[j]
    BY <2>2 DEF Inv, ErrorsAreNotKept
  <2>4. u # w /\ thunk[u] # NoThunk
    BY <2>1, <2>2, <2>3
  <2> QED
    BY <1>0, <2>2, <2>3, <2>4 DEF Inv, TypeOK
<1> QED
  BY <1>1, <1>3, <1>4, <1>5, <1>6, <1>7

LEMMA HitKeeps ==
    ASSUME Inv, NEW w \in Loads, NEW k \in Keys, Hit(w, k), UNCHANGED chainVars,
           ~Active(w), thunk[w] = NoThunk, KeyOf(w)' = k,
           \A u \in Loads : /\ flight'[u].batch = flight[u].batch
                            /\ Active(u)' <=> Active(u)
                            /\ u # w /\ (Active(u) \/ thunk[u] # NoThunk) => KeyOf(u)' = KeyOf(u)
    PROVE  /\ FlightsStay /\ Fits(thunk[w], k)'
           /\ thunk' \in [Loads -> Thunks]
           /\ \A j \in Keys : CacheInv(j)'
           /\ \A l \in Loaders : WindowInv(l)'
           /\ ErrorsAreNotKept'
<1>1. FlightsStay
  BY DEF FlightsStay
<1>2. ChainOK /\ cache' = cache /\ window' = window /\ thunk' = [thunk EXCEPT ![w] = cache[k]]
  BY InvTypes DEF Hit
<1>3. thunk' \in [Loads -> Thunks] /\ thunk'[w] = cache[k]
  BY <1>2 DEF Inv, TypeOK
<1>4. ASSUME NEW j \in Keys, cache[j] # NoThunk PROVE Fits(cache[j], j)'
  BY <1>1, <1>2, <1>4, FitsStays DEF Inv, CacheInv
<1>5. Fits(thunk[w], k)'
  <2>1. cache[k] # NoThunk
    BY DEF Hit
  <2>2. Fits(cache[k], k)'
    BY <1>4, <2>1
  <2> QED
    BY <1>2, <1>3, <2>2 DEF Fits
<1>6. \A j \in Keys : CacheInv(j)'
  BY <1>2, <1>4 DEF CacheInv
<1>7. \A l \in Loaders : WindowInv(l)'
  BY <1>2 DEF Inv, TypeOK, WindowInv
<1>8. ErrorsAreNotKept'
  <2> SUFFICES ASSUME NEW j \in Keys, cache[j].result \in Errors
               PROVE  \E u \in Loads : KeyOf(u)' = j /\ thunk'[u] = cache[j]
    BY <1>2 DEF ErrorsAreNotKept
  <2>1. PICK u \in Loads : KeyOf(u) = j /\ thunk[u] = cache[j]
    BY DEF Inv, ErrorsAreNotKept
  <2>2. thunk[u] # NoThunk
    BY <2>1 DEF NoThunk, Resolved, NoResult, Errors, Failed, Cancelled
  <2> QED
    BY <1>2, <2>1, <2>2 DEF Inv, TypeOK
<1> QED
  BY <1>1, <1>3, <1>5, <1>6, <1>7, <1>8

\* A load that has its result gives its thunk up, and an error leaves the cache.
LEMMA GivesUpKeeps ==
    ASSUME Inv, NEW w \in Loads, NEW k \in Keys, KeyOf(w) = k, UNCHANGED chainVars,
           thunk' = [thunk EXCEPT ![w] = NoThunk], cache' = Kept(k, thunk[w].result),
           window' = window,
           \A u \in Loads : /\ flight'[u].batch = flight[u].batch
                            /\ Active(u)' <=> Active(u)
                            /\ Active(u) \/ thunk[u] # NoThunk => KeyOf(u)' = KeyOf(u)
    PROVE  /\ FlightsStay
           /\ thunk' \in [Loads -> Thunks] /\ cache' \in [Keys -> Thunks]
           /\ \A j \in Keys : CacheInv(j)'
           /\ \A l \in Loaders : WindowInv(l)'
           /\ ErrorsAreNotKept'
<1>1. FlightsStay
  BY DEF FlightsStay
<1>2. NoThunk \in Thunks /\ NoThunk.result \notin Errors
  BY DEF NoThunk, Resolved, NoResult, Thunks, Values, Errors, Failed, Cancelled
<1>3. thunk' \in [Loads -> Thunks] /\ cache' \in [Keys -> Thunks]
  BY <1>2 DEF Inv, TypeOK, Kept
<1>4. \A j \in Keys : /\ cache'[j] = cache[j] \/ cache'[j] = NoThunk
                      /\ j = k /\ thunk[w].result \in Errors => cache'[j] = NoThunk
  BY DEF Inv, TypeOK, Kept
<1>5. ASSUME NEW j \in Keys PROVE CacheInv(j)'
  <2>1. CASE cache'[j] = NoThunk
    BY <2>1 DEF CacheInv
  <2>2. CASE cache'[j] = cache[j] /\ cache[j] # NoThunk
    <3>1. PICK t : t = cache[j] /\ Fits(t, j)
      BY <2>2 DEF Inv, CacheInv
    <3>2. Fits(t, j)'
      BY <1>1, <3>1, InvTypes, FitsStays
    <3> QED
      BY <2>2, <3>1, <3>2 DEF CacheInv
  <2> QED
    BY <1>4, <2>1, <2>2
<1>6. \A l \in Loaders : WindowInv(l)'
  BY DEF Inv, TypeOK, WindowInv
<1>7. ErrorsAreNotKept'
  <2> SUFFICES ASSUME NEW j \in Keys, cache'[j].result \in Errors
               PROVE  \E u \in Loads : KeyOf(u)' = j /\ thunk'[u] = cache'[j]
    BY DEF ErrorsAreNotKept
  <2>1. cache'[j] = cache[j] /\ cache'[j] # NoThunk
    BY <1>2, <1>4
  <2>2. PICK u \in Loads : KeyOf(u) = j /\ thunk[u] = cache[j]
    BY <2>1 DEF Inv, ErrorsAreNotKept
  <2>3. u # w
    BY <1>4, <2>1, <2>2
  <2> QED
    BY <2>1, <2>2, <2>3 DEF Inv, TypeOK
<1> QED
  BY <1>1, <1>3, <1>5, <1>6, <1>7

\* A flight that nothing happens to is as before.
LEMMA FlightStays ==
    ASSUME Inv, NEW u \in Loads, UNCHANGED chainVars,
           flight'[u] = flight[u], thunk'[u] = thunk[u], Active(u) => KeyOf(u)' = KeyOf(u)
    PROVE  FlightInv(u)'
<1> SUFFICES ASSUME Active(u) PROVE FlightInv(u)'
  BY DEF FlightInv, Active
<1>1. KeyOf(u) \in Keys /\ KeyOf(u)' = KeyOf(u)
  BY ActiveKeys
<1>2. Answers(KeyOf(u)) \subseteq Answers(KeyOf(u))'
  BY <1>1, InvTypes, AnswersGrow
<1> QED
  BY <1>1, <1>2 DEF Inv, FlightInv, Active, InFlight

LEMMA BeginKeeps ==
    ASSUME Inv, NEW c \in Callers, NEW k \in Keys, Begin(c, k) PROVE Inv'
<1> DEFINE w == Own(c)
           asked == [pc |-> "asked", key |-> k, result |-> NoResult]
<1>1. /\ call[c].pc # "asked" /\ UNCHANGED chainVars /\ gone' = gone
      /\ call' = [call EXCEPT ![c] = asked]
  BY DEF Begin, Ask
<1>2. ~Active(w) /\ ~Active(Inner(c)) /\ thunk[w] = NoThunk /\ thunk[Inner(c)] = NoThunk
  BY <1>1, ActiveAsked, HoldersAsked
<1>3. w \in Loads /\ Inner(c) \in Loads /\ w # Inner(c)
  BY NamesDiffer
<1>4. call'[c] = asked /\ KeyOf(w)' = k /\ RequestOf[c] \in Requests
  BY <1>1, RequestsAssumption DEF Inv, TypeOK, KeyOf, Own
<1>5. \A u \in Loads : Active(u) \/ thunk[u] # NoThunk => KeyOf(u)' = KeyOf(u)
  <2>1. \A d \in Callers : call'[d].key = call[d].key \/ call[d].pc # "asked"
    BY <1>1 DEF Inv, TypeOK
  <2> QED
    BY <2>1, KeysStay
<1>6. chain' \in Chains /\ tip' \in 0 .. MaxSeqno /\ gone' \subseteq Requests
      /\ call' \in [Callers -> Calls]
  <2>1. asked \in Calls
    BY DEF Calls, Values
  <2> QED
    BY <1>1, <2>1 DEF Inv, TypeOK, chainVars
<1>7. CASE Hit(w, k) /\ flight' = flight
  <2>1. /\ FlightsStay /\ Fits(thunk[w], k)' /\ thunk' \in [Loads -> Thunks]
        /\ \A j \in Keys : CacheInv(j)'
        /\ \A l \in Loaders : WindowInv(l)'
        /\ ErrorsAreNotKept'
    <3>1. \A u \in Loads : /\ flight'[u].batch = flight[u].batch
                           /\ Active(u)' <=> Active(u)
      BY <1>7 DEF Active
    <3> QED
      BY <1>1, <1>2, <1>3, <1>4, <1>5, <1>7, <3>1, HitKeeps, Zenon
  <2>2. \A u \in Loads : u # w => thunk'[u] = thunk[u]
    BY <1>7 DEF Hit, Inv, TypeOK
  <2>3. TypeOK'
    BY <1>6, <1>7, <2>1 DEF Hit, Inv, TypeOK
  <2>4. ASSUME NEW d \in Callers PROVE CallerInv(d)'
    <3>1. CASE d = c
      <4>1. /\ call'[c].pc = "asked" /\ call'[c].key = k
            /\ thunk'[Inner(c)] = NoThunk
            /\ flight'[w].step = "none" /\ flight'[Inner(c)].step = "none"
        BY <1>2, <1>3, <1>4, <1>7, <2>2 DEF Active
      <4>2. Fits(thunk[w], call[c].key)'
        BY <2>1, <4>1 DEF Fits
      <4> QED
        BY <3>1, <4>1, <4>2 DEF CallerInv
    <3>2. CASE d # c
      <4>1. /\ call'[d] = call[d] /\ thunk'[Own(d)] = thunk[Own(d)]
            /\ thunk'[Inner(d)] = thunk[Inner(d)]
        BY <1>1, <2>2, <3>2, NamesDiffer DEF Inv, TypeOK
      <4> QED
        BY <1>1, <1>7, <2>1, <4>1, CallerStays DEF Inv, CallerInv
    <3> QED
      BY <3>1, <3>2
  <2>5. ASSUME NEW u \in Loads PROVE FlightInv(u)'
    <3>1. CASE u = w
      BY <1>2, <1>7, <3>1 DEF FlightInv, Active
    <3>2. CASE u # w
      BY <1>1, <1>5, <1>7, <2>2, <3>2, FlightStays
    <3> QED
      BY <3>1, <3>2
  <2> QED
    BY <2>1, <2>3, <2>4, <2>5 DEF Inv
<1>8. CASE Miss(w, k) /\ flight' = [flight EXCEPT ![w] = Departing(w, k, RequestOf[c])]
  <2>1. /\ cache' \in [Keys -> Thunks] /\ thunk' \in [Loads -> Thunks]
        /\ window' \in [Loaders -> Loads \cup {NoLoad}]
        /\ Departing(w, k, RequestOf[c]) \in Flights
        /\ Departing(w, k, RequestOf[c]).step \in {"look up", "fetch"}
        /\ Departing(w, k, RequestOf[c]).step = "look up" => k.loader = "configParams"
        /\ thunk' = [thunk EXCEPT ![w] = InFlight(w)]
    BY <1>3, <1>4, <1>8, MissTypes, Zenon
  <2>2. flight'[w] = Departing(w, k, RequestOf[c])
        /\ \A u \in Loads : u # w => flight'[u] = flight[u] /\ thunk'[u] = thunk[u]
    BY <1>3, <1>8, <2>1 DEF Inv, TypeOK
  <2>3. /\ FlightsStay /\ FlightInv(w)' /\ Fits(InFlight(w), k)'
        /\ \A j \in Keys : CacheInv(j)'
        /\ \A l \in Loaders : WindowInv(l)'
        /\ ErrorsAreNotKept'
    <3>1. \A u \in Loads : u # w => /\ flight'[u].batch = flight[u].batch
                                    /\ Active(u)' <=> Active(u)
                                    /\ Active(u) \/ thunk[u] # NoThunk => KeyOf(u)' = KeyOf(u)
      BY <1>5, <2>2 DEF Active
    <3> QED
      BY <1>1, <1>2, <1>3, <1>4, <1>8, <2>2, <3>1, MissKeeps, Zenon
  <2>4. TypeOK'
    BY <1>6, <1>8, <2>1 DEF Inv, TypeOK
  <2>5. ASSUME NEW d \in Callers PROVE CallerInv(d)'
    <3>1. CASE d = c
      <4>1. thunk'[w] = InFlight(w) /\ thunk'[Inner(c)] = NoThunk
            /\ flight'[Inner(c)].step = "none"
        BY <1>2, <1>3, <2>1, <2>2 DEF Inv, TypeOK, Active
      <4>2. call'[c].pc = "asked" /\ call'[c].key = k
        BY <1>4
      <4>3. Fits(thunk[w], call[c].key)'
        BY <2>3, <4>1, <4>2 DEF Fits, InFlight
      <4>4. /\ flight'[w].step \in {"look up", "fetch"}
            /\ flight'[w].step = "look up" => k.loader = "configParams"
        BY <2>1, <2>2
      <4> QED
        BY <3>1, <4>1, <4>2, <4>3, <4>4 DEF CallerInv
    <3>2. CASE d # c
      <4>1. Own(d) # w /\ Inner(d) # w /\ Own(d) \in Loads /\ Inner(d) \in Loads
        BY <3>2, NamesDiffer
      <4>2. call'[d] = call[d]
        BY <1>1, <3>2 DEF Inv, TypeOK
      <4>3. CallerInv(d) /\ flight'[Inner(d)].step \notin {"look up", "nested"}
        BY <2>2, <4>1 DEF Inv, CallerInv
      <4> QED
        BY <1>1, <2>2, <2>3, <4>1, <4>2, <4>3, CallerStays
    <3> QED
      BY <3>1, <3>2
  <2>6. ASSUME NEW u \in Loads PROVE FlightInv(u)'
    BY <1>1, <1>5, <2>2, <2>3, FlightStays
  <2> QED
    BY <2>3, <2>4, <2>5, <2>6 DEF Inv
<1> QED
  BY <1>7, <1>8 DEF Begin

\* A load whose thunk is answered has no flight of its own.
LEMMA AnsweredIsDone ==
    ASSUME Inv, NEW w \in Loads, thunk[w].flight = NoLoad
    PROVE  ~Active(w)
<1>1. Active(w) => thunk[w] = InFlight(w)
  BY DEF Inv, FlightInv
<1>2. InFlight(w).flight = w /\ w # NoLoad
  BY NoLoadIsNoLoad DEF InFlight
<1> QED
  BY <1>1, <1>2

LEMMA ReturnKeeps ==
    ASSUME Inv, NEW c \in Callers, Return(c) PROVE Inv'
<1> DEFINE w == Own(c)
           result == thunk[w].result
<1>1. /\ call[c].pc = "asked" /\ thunk[w].flight = NoLoad
      /\ call' = [call EXCEPT ![c].pc = "answered", ![c].result = result]
      /\ cache' = Kept(call[c].key, result) /\ thunk' = [thunk EXCEPT ![w] = NoThunk]
      /\ UNCHANGED chainVars /\ gone' = gone /\ window' = window /\ flight' = flight
  BY DEF Return
<1>2. w \in Loads /\ Inner(c) \in Loads /\ w # Inner(c)
  BY NamesDiffer
<1>3. ~Active(w) /\ ~Active(Inner(c)) /\ thunk[Inner(c)] = NoThunk
  BY <1>1, <1>2, AnsweredIsDone, ActiveAsked, HoldersAsked
<1>4. call'[c].pc = "answered" /\ call'[c].key = call[c].key
      /\ \A d \in Callers : d # c => call'[d] = call[d]
  BY <1>1 DEF Inv, TypeOK, Calls
<1>5. \A u \in Loads : Active(u) \/ thunk[u] # NoThunk => KeyOf(u)' = KeyOf(u)
  BY <1>4, KeysStay
<1>6. call[c].key \in Keys /\ KeyOf(w) = call[c].key
  BY <1>1, KeysOf DEF Inv, CallerInv
<1>7. /\ FlightsStay
      /\ thunk' \in [Loads -> Thunks] /\ cache' \in [Keys -> Thunks]
      /\ \A j \in Keys : CacheInv(j)'
      /\ \A l \in Loaders : WindowInv(l)'
      /\ ErrorsAreNotKept'
  <2>1. \A u \in Loads : flight'[u].batch = flight[u].batch /\ (Active(u)' <=> Active(u))
    BY <1>1 DEF Active
  <2> QED
    BY <1>1, <1>2, <1>5, <1>6, <2>1, GivesUpKeeps, Zenon
<1>8. TypeOK'
  <2>1. thunk[w] \in Thunks
    BY <1>2 DEF Inv, TypeOK
  <2>2. result \in Values
    BY <2>1 DEF Thunks
  <2>3. call' \in [Callers -> Calls]
    BY <1>1, <2>2 DEF Inv, TypeOK, Calls
  <2> QED
    BY <1>1, <1>7, <2>3 DEF Inv, TypeOK, chainVars
<1>9. \A u \in Loads : u # w => thunk'[u] = thunk[u]
  BY <1>1 DEF Inv, TypeOK
<1>10. ASSUME NEW d \in Callers PROVE CallerInv(d)'
  <2>1. CASE d = c
    <3>1. thunk'[w] = NoThunk /\ thunk'[Inner(c)] = NoThunk
      BY <1>1, <1>2, <1>3, <1>9 DEF Inv, TypeOK
    <3> QED
      BY <1>1, <1>3, <1>4, <2>1, <3>1 DEF CallerInv, Active
  <2>2. CASE d # c
    <3>1. /\ thunk'[Own(d)] = thunk[Own(d)] /\ thunk'[Inner(d)] = thunk[Inner(d)]
          /\ CallerInv(d)
      BY <1>9, <2>2, NamesDiffer DEF Inv
    <3> QED
      BY <1>1, <1>4, <1>7, <2>2, <3>1, CallerStays DEF CallerInv
  <2> QED
    BY <2>1, <2>2
<1>11. ASSUME NEW u \in Loads PROVE FlightInv(u)'
  <2>1. CASE u = w
    BY <1>1, <1>3, <2>1 DEF FlightInv, Active
  <2>2. CASE u # w
    BY <1>1, <1>5, <1>9, <2>2, FlightStays
  <2> QED
    BY <2>1, <2>2
<1> QED
  BY <1>7, <1>8, <1>10, <1>11 DEF Inv

-------------------------------------------------------------------------------
(* Batches *)

LEMMA FetchedKeeps ==
    ASSUME Inv, NEW w \in Loads, flight[w].step = "fetch",
           NEW x \in Answers(KeyOf(w)) \cup Errors,
           flight' = [flight EXCEPT ![w].step = "ready", ![w].result = x],
           UNCHANGED <<chainVars, call, gone, cache, window, thunk>>
    PROVE  Inv'
<1>1. KeyOf(w) \in Keys /\ Active(w)
  BY ActiveKeys DEF Active
<1>2. x \in Values
  BY <1>1, InvTypes, AnswersAreValues DEF Values
<1>3. flight[w] \in Flights /\ flight[w] # Landed
  BY <1>1 DEF Inv, TypeOK, Active, Landed
<1>4. /\ flight'[w].step = "ready" /\ flight'[w].result = x
      /\ flight'[w].batch = flight[w].batch /\ flight'[w] \in Flights
      /\ \A u \in Loads : u # w => flight'[u] = flight[u]
  BY <1>2, <1>3 DEF Inv, TypeOK, Flights
<1>5. TypeOK'
  BY <1>4 DEF Inv, TypeOK, chainVars
<1>6. \A u \in Loads : KeyOf(u)' = KeyOf(u) /\ (Active(u)' <=> Active(u))
  BY <1>1, <1>4 DEF KeyOf, BlockOf, Active
<1>7. FlightsStay
  BY <1>6 DEF FlightsStay
<1>8. ASSUME NEW c \in Callers PROVE CallerInv(c)'
  <2>1. CASE w = Own(c)
    <3>1. Own(c) \in Loads /\ Inner(c) \in Loads /\ Inner(c) # w
      BY <2>1, NamesDiffer
    <3>2. flight'[Inner(c)] = flight[Inner(c)] /\ CallerInv(c)
      BY <1>4, <3>1 DEF Inv
    <3>3. call[c].pc = "asked" => Fits(thunk[Own(c)], call[c].key)'
      BY <1>7, <3>2, InvTypes, FitsStays DEF CallerInv
    <3> QED
      BY <1>4, <2>1, <3>2, <3>3 DEF CallerInv
  <2>2. CASE w # Own(c)
    <3>1. Own(c) \in Loads /\ Inner(c) \in Loads
      BY NamesDiffer
    <3>2. flight'[Own(c)] = flight[Own(c)] /\ CallerInv(c)
          /\ flight'[Inner(c)].step \notin {"look up", "nested"}
      BY <1>4, <2>2, <3>1 DEF Inv, CallerInv
    <3> QED
      BY <1>7, <3>1, <3>2, CallerStays
  <2> QED
    BY <2>1, <2>2
<1>9. ASSUME NEW u \in Loads PROVE FlightInv(u)'
  <2>1. CASE u = w
    <3>1. Answers(KeyOf(w)) \subseteq Answers(KeyOf(w))'
      BY <1>6, <1>1, InvTypes, AnswersGrow
    <3>2. thunk'[w] = InFlight(w)
      BY <1>1 DEF Inv, FlightInv
    <3> QED
      BY <1>4, <2>1, <3>1, <3>2 DEF FlightInv, InFlight
  <2>2. CASE u # w
    BY <1>4, <1>6, <2>2, FlightStays
  <2> QED
    BY <2>1, <2>2
<1>10. ASSUME NEW k \in Keys PROVE CacheInv(k)'
  BY <1>7, InvTypes, FitsStays DEF Inv, CacheInv
<1>11. ASSUME NEW l \in Loaders PROVE WindowInv(l)'
  <2>1. window[l] # NoLoad => window[l] \in Loads
    BY DEF Inv, TypeOK
  <2> QED
    BY <1>4, <1>6, <2>1 DEF Inv, WindowInv
<1>12. ErrorsAreNotKept'
  BY <1>6 DEF Inv, ErrorsAreNotKept
<1> QED
  BY <1>5, <1>8, <1>9, <1>10, <1>11, <1>12 DEF Inv

LEMMA FetchKeeps ==
    ASSUME Inv, NEW w \in Loads, Fetch(w) \/ FetchFails(w) PROVE Inv'
<1>1. PICK x \in Answers(KeyOf(w)) \cup Errors :
         flight' = [flight EXCEPT ![w].step = "ready", ![w].result = x]
  BY DEF Fetch, FetchFails, Errors
<1>2. flight[w].step = "fetch" /\ UNCHANGED <<chainVars, call, gone, cache, window, thunk>>
  BY DEF Fetch, FetchFails
<1> QED
  BY <1>1, <1>2, FetchedKeeps

LEMMA LookUpKeeps ==
    ASSUME Inv, NEW c \in Callers, LookUp(c) PROVE Inv'
<1> DEFINE w == Inner(c)
           k == BlockOf(call[c].key)
           ctx == flight[Own(c)].ctx
<1>1. /\ flight[Own(c)].step = "look up" /\ Active(Own(c))
      /\ UNCHANGED chainVars /\ call' = call /\ gone' = gone
  BY DEF LookUp, Active
<1>2. Own(c) \in Loads /\ w \in Loads /\ Own(c) # w
  BY NamesDiffer
<1>3. /\ call[c].pc = "asked" /\ call[c].key \in Keys /\ call[c].key.loader = "configParams"
      /\ ~Active(w) /\ thunk[w] = NoThunk
  BY <1>1, ActiveAsked DEF Inv, CallerInv
<1>4. k \in Keys /\ k.loader = "blockBySeqno" /\ KeyOf(w) = k
  BY <1>3, BlockIsAKey, KeysOf
<1>5. \A u \in Loads : KeyOf(u)' = KeyOf(u)
  BY <1>1 DEF KeyOf, BlockOf
<1>6. flight[Own(c)] \in Flights /\ flight[Own(c)] # Landed
  <2>1. flight[Own(c)] \in Flights
    BY <1>2 DEF Inv, TypeOK
  <2>2. Landed.step = "none"
    BY DEF Landed
  <2> QED
    BY <1>1, <2>1, <2>2
<1>7. ctx \in Requests
  BY <1>6 DEF Flights
<1>8. k' = k /\ KeyOf(w)' = k
  BY <1>1, <1>2, <1>4, <1>5
\* What is left of both cases: the caller's two loads and the flight of w.
<1>9. ASSUME /\ FlightsStay /\ Fits(thunk[w], k)' /\ TypeOK'
             /\ \A j \in Keys : CacheInv(j)'
             /\ \A l \in Loaders : WindowInv(l)'
             /\ ErrorsAreNotKept',
             FlightInv(w)',
             flight'[Own(c)].step = "nested", flight'[w].step \notin {"look up", "nested"},
             \A u \in Loads : u # w => thunk'[u] = thunk[u],
             \A u \in Loads : u \notin {w, Own(c)} => flight'[u] = flight[u]
      PROVE  Inv'
  <2>1. ASSUME NEW d \in Callers PROVE CallerInv(d)'
    <3>1. CASE d = c
      <4>1. thunk'[Own(c)] = thunk[Own(c)] /\ Fits(thunk[Own(c)], call[c].key)
        BY <1>2, <1>3, <1>9 DEF Inv, CallerInv
      <4>2. PICK t : t = thunk[Own(c)] /\ Fits(t, call[c].key)
        BY <4>1
      <4>3. Fits(t, call[c].key)'
        BY <1>1, <1>3, <1>9, <4>2, InvTypes, FitsStays
      <4>4. Fits(thunk[Own(c)], call[c].key)'
        BY <4>1, <4>2, <4>3
      <4> QED
        BY <1>1, <1>3, <1>9, <3>1, <4>4 DEF CallerInv
    <3>2. CASE d # c
      <4>1. /\ Own(d) \in Loads \ {w, Own(c)} /\ Inner(d) \in Loads \ {w, Own(c)}
        BY <3>2, NamesDiffer
      <4>2. CallerInv(d) /\ flight'[Inner(d)].step \notin {"look up", "nested"}
        BY <1>9, <4>1 DEF Inv, CallerInv
      <4> QED
        BY <1>1, <1>9, <4>1, <4>2, CallerStays
    <3> QED
      BY <3>1, <3>2
  <2>2. ASSUME NEW u \in Loads PROVE FlightInv(u)'
    <3>1. CASE u = Own(c)
      <4>1. thunk'[u] = InFlight(u)
        BY <1>1, <1>2, <1>9, <3>1 DEF Inv, FlightInv
      <4> QED
        BY <1>9, <3>1, <4>1 DEF FlightInv, InFlight
    <3>2. CASE u \notin {w, Own(c)}
      BY <1>1, <1>5, <1>9, <3>2, FlightStays
    <3> QED
      BY <1>9, <3>1, <3>2
  <2> QED
    BY <1>9, <2>1, <2>2 DEF Inv
<1>10. CASE Hit(w, k) /\ flight' = [flight EXCEPT ![Own(c)].step = "nested"]
  <2>1. /\ flight'[Own(c)].step = "nested" /\ flight'[Own(c)].batch = flight[Own(c)].batch
        /\ flight'[Own(c)] \in Flights
        /\ \A u \in Loads : u # Own(c) => flight'[u] = flight[u]
    BY <1>2, <1>6, <1>10 DEF Inv, TypeOK, Flights
  <2>2. \A u \in Loads : flight'[u].batch = flight[u].batch /\ (Active(u)' <=> Active(u))
    BY <1>1, <2>1 DEF Active
  <2>3. /\ FlightsStay /\ Fits(thunk[w], k)'
        /\ thunk' \in [Loads -> Thunks]
        /\ \A j \in Keys : CacheInv(j)'
        /\ \A l \in Loaders : WindowInv(l)'
        /\ ErrorsAreNotKept'
    <3>1. Fits(thunk[w], BlockOf(call[c].key))' <=> Fits(thunk[w], k)'
      OBVIOUS
    <3> QED
      BY <1>1, <1>2, <1>3, <1>4, <1>5, <1>10, <2>2, HitKeeps, Zenon
  <2>4. TypeOK'
    <3>1. flight' \in [Loads -> Flights]
      BY <1>10, <2>1 DEF Inv, TypeOK
    <3> QED
      BY <1>1, <1>10, <2>3, <3>1 DEF Hit, Inv, TypeOK, chainVars
  <2>5. FlightInv(w)' /\ flight'[w].step \notin {"look up", "nested"}
    BY <1>2, <1>3, <2>1 DEF FlightInv, Active
  <2>6. \A u \in Loads : u # w => thunk'[u] = thunk[u]
    BY <1>10 DEF Hit, Inv, TypeOK
  <2> QED
    BY <1>9, <2>1, <2>3, <2>4, <2>5, <2>6
<1>11. CASE /\ Miss(w, k)
            /\ flight' = [flight EXCEPT ![Own(c)].step = "nested", ![w] = Departing(w, k, ctx)]
  <2>1. /\ cache' \in [Keys -> Thunks] /\ thunk' \in [Loads -> Thunks]
        /\ window' \in [Loaders -> Loads \cup {NoLoad}]
        /\ Departing(w, k, ctx) \in Flights
        /\ Departing(w, k, ctx).step \in {"look up", "fetch"}
        /\ Departing(w, k, ctx).step = "look up" => k.loader = "configParams"
        /\ thunk' = [thunk EXCEPT ![w] = InFlight(w)]
    BY <1>2, <1>4, <1>7, <1>11, MissTypes, Zenon
  <2>2. flight \in [Loads -> Flights]
    BY DEF Inv, TypeOK
  <2>3. /\ flight'[w] = Departing(w, k, ctx)
        /\ flight'[Own(c)].step = "nested" /\ flight'[Own(c)].batch = flight[Own(c)].batch
        /\ flight'[Own(c)] \in Flights
        /\ \A u \in Loads : u \notin {w, Own(c)} => flight'[u] = flight[u]
    BY <1>2, <1>6, <1>11, <2>2 DEF Flights
  <2>4. \A u \in Loads : u # w => /\ flight'[u].batch = flight[u].batch
                                  /\ Active(u)' <=> Active(u)
    BY <1>1, <2>3 DEF Active
  <2>5. /\ FlightsStay /\ FlightInv(w)' /\ Fits(InFlight(w), k)'
        /\ \A j \in Keys : CacheInv(j)'
        /\ \A l \in Loaders : WindowInv(l)'
        /\ ErrorsAreNotKept'
    BY <1>1, <1>2, <1>3, <1>4, <1>5, <1>7, <1>8, <1>11, <2>3, <2>4, MissKeeps, Zenon
  <2>6. TypeOK'
    <3>1. flight' \in [Loads -> Flights]
      BY <1>11, <2>1, <2>2, <2>3
    <3> QED
      BY <1>1, <2>1, <3>1 DEF Inv, TypeOK, chainVars
  <2>7. \A u \in Loads : thunk'[u] = IF u = w THEN InFlight(w) ELSE thunk[u]
    BY <2>1 DEF Inv, TypeOK
  <2>8. Fits(thunk[w], k)'
    BY <1>2, <2>5, <2>7 DEF Fits, InFlight
  <2>9. flight'[w].step \notin {"look up", "nested"}
    BY <1>4, <2>1, <2>3
  <2> QED
    BY <1>9, <2>3, <2>5, <2>6, <2>7, <2>8, <2>9
<1> QED
  BY <1>10, <1>11 DEF LookUp

LEMMA LookedUpKeeps ==
    ASSUME Inv, NEW c \in Callers, LookedUp(c) PROVE Inv'
<1> DEFINE w == Inner(c)
           k == BlockOf(call[c].key)
           result == thunk[w].result
<1>1. /\ flight[Own(c)].step = "nested" /\ Active(Own(c)) /\ thunk[w].flight = NoLoad
      /\ flight' = [flight EXCEPT
                       ![Own(c)].step = IF result \in Errors THEN "ready" ELSE "fetch",
                       ![Own(c)].result = IF result \in Errors THEN result ELSE NoResult]
      /\ cache' = Kept(k, result) /\ thunk' = [thunk EXCEPT ![w] = NoThunk]
      /\ UNCHANGED chainVars /\ call' = call /\ gone' = gone /\ window' = window
  BY DEF LookedUp, Active
<1>2. Own(c) \in Loads /\ w \in Loads /\ Own(c) # w
  BY NamesDiffer
<1>3. /\ call[c].pc = "asked" /\ call[c].key \in Keys /\ call[c].key.loader = "configParams"
      /\ ~Active(w)
  BY <1>1, <1>2, ActiveAsked, AnsweredIsDone DEF Inv, CallerInv
<1>4. k \in Keys /\ KeyOf(w) = k
  BY <1>3, BlockIsAKey, KeysOf
<1>5. \A u \in Loads : KeyOf(u)' = KeyOf(u)
  BY <1>1 DEF KeyOf, BlockOf
<1>6. flight[Own(c)] \in Flights /\ flight[Own(c)] # Landed /\ result \in Values
  <2>1. flight[Own(c)] \in Flights /\ thunk[w] \in Thunks
    BY <1>2 DEF Inv, TypeOK
  <2>2. Landed.step = "none"
    BY DEF Landed
  <2> QED
    BY <1>1, <2>1, <2>2 DEF Thunks
<1>7. /\ flight'[Own(c)].step \in {"ready", "fetch"}
      /\ flight'[Own(c)].step = "ready" => flight'[Own(c)].result \in Errors
      /\ flight'[Own(c)].batch = flight[Own(c)].batch /\ flight'[Own(c)] \in Flights
      /\ \A u \in Loads : u # Own(c) => flight'[u] = flight[u]
  <2>1. flight \in [Loads -> Flights] /\ NoResult \in Values
    BY DEF Inv, TypeOK, Values
  <2> QED
    BY <1>1, <1>2, <1>6, <2>1 DEF Flights
<1>8. \A u \in Loads : flight'[u].batch = flight[u].batch /\ (Active(u)' <=> Active(u))
  BY <1>1, <1>7 DEF Active
<1>9. /\ FlightsStay
      /\ thunk' \in [Loads -> Thunks] /\ cache' \in [Keys -> Thunks]
      /\ \A j \in Keys : CacheInv(j)'
      /\ \A l \in Loaders : WindowInv(l)'
      /\ ErrorsAreNotKept'
  BY <1>1, <1>2, <1>4, <1>5, <1>8, GivesUpKeeps, Zenon
<1>10. TypeOK'
  <2>1. flight' \in [Loads -> Flights]
    BY <1>1, <1>7 DEF Inv, TypeOK
  <2> QED
    BY <1>1, <1>9, <2>1 DEF Inv, TypeOK, chainVars
<1>11. \A u \in Loads : thunk'[u] = IF u = w THEN NoThunk ELSE thunk[u]
  BY <1>1 DEF Inv, TypeOK
<1>12. ASSUME NEW d \in Callers PROVE CallerInv(d)'
  <2>1. CASE d = c
    <3>1. thunk'[Own(c)] = thunk[Own(c)] /\ Fits(thunk[Own(c)], call[c].key)
      BY <1>2, <1>3, <1>11 DEF Inv, CallerInv
    <3>2. PICK t : t = thunk[Own(c)] /\ Fits(t, call[c].key)
      BY <3>1
    <3>3. Fits(t, call[c].key)'
      BY <1>1, <1>3, <1>9, <3>2, InvTypes, FitsStays
    <3>4. Fits(thunk[Own(c)], call[c].key)'
      BY <3>1, <3>2, <3>3
    <3>5. flight'[w].step \notin {"look up", "nested"} /\ thunk'[w] = NoThunk
      BY <1>2, <1>7, <1>11 DEF Inv, CallerInv
    <3> QED
      BY <1>1, <1>3, <1>7, <2>1, <3>4, <3>5 DEF CallerInv
  <2>2. CASE d # c
    <3>1. /\ Own(d) \in Loads \ {w, Own(c)} /\ Inner(d) \in Loads \ {w, Own(c)}
      BY <2>2, NamesDiffer
    <3>2. CallerInv(d) /\ flight'[Inner(d)].step \notin {"look up", "nested"}
      BY <1>7, <3>1 DEF Inv, CallerInv
    <3> QED
      BY <1>1, <1>7, <1>9, <1>11, <3>1, <3>2, CallerStays
  <2> QED
    BY <2>1, <2>2
<1>13. ASSUME NEW u \in Loads PROVE FlightInv(u)'
  <2>1. CASE u = Own(c)
    <3>1. thunk'[u] = InFlight(u)
      BY <1>1, <1>2, <1>11, <2>1 DEF Inv, FlightInv
    <3> QED
      BY <1>7, <2>1, <3>1 DEF FlightInv, InFlight
  <2>2. CASE u = w
    BY <1>3, <1>8, <2>2 DEF FlightInv
  <2>3. CASE u \notin {w, Own(c)}
    BY <1>1, <1>5, <1>7, <1>11, <2>3, FlightStays
  <2> QED
    BY <2>1, <2>2, <2>3
<1> QED
  BY <1>9, <1>10, <1>12, <1>13 DEF Inv

\* What a landing batch makes of a thunk fits where the thunk did.
LEMMA LandedFits ==
    ASSUME Inv, NEW b, Land(b), NEW k \in Keys, NEW t, Fits(t, k),
           NEW s, s = Settled(t, b)
    PROVE  Fits(s, k)'
<1>1. /\ UNCHANGED chainVars /\ call' = call
      /\ flight' = [u \in Loads |-> IF u \in Members(b) THEN Landed ELSE flight[u]]
  BY DEF Land
<1>2. Answers(k) \subseteq Answers(k)'
  BY <1>1, InvTypes, AnswersGrow
<1>3. CASE t.flight \in Members(b)
  <2>1. /\ t.flight \in Loads /\ Active(t.flight) /\ KeyOf(t.flight) = k
        /\ flight[t.flight].step = "ready"
    BY <1>3, NoLoadIsNoLoad DEF Fits, Members, Land
  <2>2. flight[t.flight].result \in Answers(k) \cup Errors
    BY <2>1 DEF Inv, FlightInv
  <2>3. s.flight = NoLoad /\ s.result = flight[t.flight].result
    BY <1>3 DEF Settled, Resolved
  <2> QED
    BY <1>2, <2>2, <2>3 DEF Fits
<1>4. CASE t.flight \notin Members(b)
  <2>1. s = t
    BY <1>4 DEF Settled
  <2>2. CASE t.flight \in Loads /\ t.result = NoResult /\ Active(t.flight) /\ KeyOf(t.flight) = k
    <3>1. flight'[t.flight] = flight[t.flight]
      BY <1>1, <1>4, <2>2
    <3>2. KeyOf(t.flight)' = KeyOf(t.flight)
      BY <1>1 DEF KeyOf, BlockOf
    <3> QED
      BY <2>1, <2>2, <3>1, <3>2 DEF Fits, Active
  <2>3. CASE t.flight = NoLoad /\ t.result \in Answers(k) \cup Errors
    BY <1>2, <2>1, <2>3 DEF Fits
  <2> QED
    BY <2>2, <2>3 DEF Fits
<1> QED
  BY <1>3, <1>4

LEMMA LandKeeps ==
    ASSUME Inv, NEW b \in Loads, Land(b) PROVE Inv'
<1>1. /\ UNCHANGED chainVars /\ call' = call /\ gone' = gone /\ window' = window
      /\ cache' = [k \in Keys |-> Settled(cache[k], b)]
      /\ thunk' = [w \in Loads |-> Settled(thunk[w], b)]
      /\ flight' = [u \in Loads |-> IF u \in Members(b) THEN Landed ELSE flight[u]]
  BY DEF Land
<1>2. \A u \in Members(b) : /\ u \in Loads /\ flight[u].step = "ready" /\ flight[u].batch = b
                           /\ \A l \in Loaders : window[l] # b
  BY DEF Land, Runs, Members
<1>3. \A u \in Loads : KeyOf(u)' = KeyOf(u)
  BY <1>1 DEF KeyOf, BlockOf
<1>4. Settled(NoThunk, b) = NoThunk /\ Landed.step = "none"
      /\ \A u \in Loads : u \notin Members(b) => Settled(InFlight(u), b) = InFlight(u)
  BY <1>2, NoLoadIsNoLoad DEF Settled, NoThunk, Resolved, InFlight, Landed
<1>5. TypeOK'
  <2>1. ASSUME NEW t \in Thunks PROVE Settled(t, b) \in Thunks
    <3>1. CASE t.flight \in Members(b)
      <4>1. flight[t.flight] \in Flights
        BY <1>2, <3>1 DEF Inv, TypeOK
      <4>2. Landed.result \in Values
        BY DEF Landed, Values
      <4>3. flight[t.flight].result \in Values
        BY <4>1, <4>2 DEF Flights
      <4> QED
        BY <3>1, <4>3 DEF Settled, Resolved, Thunks
    <3> QED
      BY <3>1 DEF Settled
  <2>2. Landed \in Flights
    BY DEF Flights
  <2> QED
    BY <1>1, <2>1, <2>2 DEF Inv, TypeOK, chainVars
<1>6. ASSUME NEW c \in Callers PROVE CallerInv(c)'
  <2>1. Own(c) \in Loads /\ Inner(c) \in Loads /\ CallerInv(c)
    BY NamesDiffer DEF Inv
  <2>2. /\ thunk'[Own(c)] = Settled(thunk[Own(c)], b)
        /\ thunk'[Inner(c)] = Settled(thunk[Inner(c)], b)
        /\ \A x \in {"look up", "nested"} :
              /\ flight'[Own(c)].step = x <=> flight[Own(c)].step = x
              /\ flight'[Inner(c)].step = x <=> flight[Inner(c)].step = x
    BY <1>1, <1>2, <1>4, <2>1
  <2>3. call[c].pc = "asked" => Fits(thunk[Own(c)], call[c].key)'
    <3> SUFFICES ASSUME call[c].pc = "asked" PROVE Fits(thunk[Own(c)], call[c].key)'
      OBVIOUS
    <3>1. PICK k \in Keys : k = call[c].key /\ Fits(thunk[Own(c)], k)
      BY <2>1 DEF CallerInv
    <3>2. PICK t, s : t = thunk[Own(c)] /\ s = Settled(t, b) /\ Fits(t, k)
      BY <3>1
    <3>3. Fits(s, k)'
      BY <3>2, LandedFits
    <3> QED
      BY <1>1, <2>2, <3>1, <3>2, <3>3
  <2>4. flight[Own(c)].step = "nested" => Fits(thunk[Inner(c)], BlockOf(call[c].key))'
    <3> SUFFICES ASSUME flight[Own(c)].step = "nested"
                 PROVE  Fits(thunk[Inner(c)], BlockOf(call[c].key))'
      OBVIOUS
    <3>1. BlockOf(call[c].key) \in Keys
      BY <2>1, ActiveAsked, BlockIsAKey DEF CallerInv
    <3>2. PICK k \in Keys : k = BlockOf(call[c].key) /\ Fits(thunk[Inner(c)], k)
      BY <2>1, <3>1 DEF CallerInv
    <3>3. PICK t, s : t = thunk[Inner(c)] /\ s = Settled(t, b) /\ Fits(t, k)
      BY <3>2
    <3>4. Fits(s, k)'
      BY <3>3, LandedFits
    <3>5. BlockOf(call[c].key)' = k
      BY <1>1, <3>2 DEF BlockOf
    <3> QED
      BY <2>2, <3>3, <3>4, <3>5
  <2> QED
    BY <1>1, <1>4, <2>1, <2>2, <2>3, <2>4 DEF CallerInv
<1>7. ASSUME NEW u \in Loads PROVE FlightInv(u)'
  <2>1. CASE u \in Members(b)
    BY <1>1, <1>4, <2>1 DEF FlightInv, Active
  <2>2. CASE u \notin Members(b) /\ Active(u)
    <3>1. flight'[u] = flight[u] /\ thunk'[u] = thunk[u]
      BY <1>1, <1>4, <2>2 DEF Inv, FlightInv
    <3> QED
      BY <1>1, <1>3, <3>1, FlightStays
  <2>3. CASE u \notin Members(b) /\ ~Active(u)
    BY <1>1, <2>3 DEF FlightInv, Active
  <2> QED
    BY <2>1, <2>2, <2>3
<1>8. ASSUME NEW k \in Keys PROVE CacheInv(k)'
  <2>1. cache'[k] = Settled(cache[k], b)
    BY <1>1
  <2>2. CASE cache[k] = NoThunk
    BY <1>4, <2>1, <2>2 DEF CacheInv
  <2>3. CASE cache[k] # NoThunk
    <3>1. PICK t, s : t = cache[k] /\ s = Settled(t, b) /\ Fits(t, k)
      BY <2>3 DEF Inv, CacheInv
    <3>2. Fits(s, k)'
      BY <3>1, LandedFits
    <3> QED
      BY <2>1, <3>1, <3>2 DEF CacheInv
  <2> QED
    BY <2>2, <2>3
<1>9. ASSUME NEW l \in Loaders PROVE WindowInv(l)'
  <2>1. window[l] # NoLoad => window[l] \in Loads /\ window[l] \notin Members(b)
    BY <1>2 DEF Inv, TypeOK, WindowInv
  <2> QED
    BY <1>1, <2>1 DEF Inv, WindowInv, Active
<1>10. ErrorsAreNotKept'
  <2> SUFFICES ASSUME NEW k \in Keys, cache'[k].result \in Errors
               PROVE  \E u \in Loads : KeyOf(u)' = k /\ thunk'[u] = cache'[k]
    BY DEF ErrorsAreNotKept
  \* Whoever holds what the cache holds is given what the cache is given.
  <2>1. SUFFICES \E u \in Loads : KeyOf(u) = k /\ thunk[u] = cache[k]
    BY <1>1, <1>3
  <2>2. CASE cache[k].flight \in Members(b)
    <3> DEFINE f == cache[k].flight
    <3>1. f \in Loads /\ f # NoLoad /\ Active(f)
      BY <1>2, <2>2, NoLoadIsNoLoad DEF Active
    <3>2. cache[k] # NoThunk
      BY <3>1 DEF NoThunk, Resolved
    <3>3. cache[k].result = NoResult /\ KeyOf(f) = k
      BY <3>1, <3>2 DEF Inv, CacheInv, Fits
    <3>4. cache[k] = InFlight(f)
      BY <3>3 DEF Inv, TypeOK, Thunks, InFlight
    <3>5. thunk[f] = InFlight(f)
      BY <3>1 DEF Inv, FlightInv
    <3> QED
      BY <3>1, <3>3, <3>4, <3>5
  <2>3. CASE cache[k].flight \notin Members(b)
    <3>1. cache'[k] = cache[k]
      BY <1>1, <2>3 DEF Settled
    <3> QED
      BY <3>1 DEF Inv, ErrorsAreNotKept
  <2> QED
    BY <2>2, <2>3
<1> QED
  BY <1>5, <1>6, <1>7, <1>8, <1>9, <1>10 DEF Inv

-------------------------------------------------------------------------------
(* The theorems *)

LEMMA NextPreserves == ASSUME Inv, [Next]_vars PROVE Inv'
<1>1. ASSUME NewBlock PROVE Inv'
  BY <1>1, NewBlockKeeps
<1>2. ASSUME NEW c \in Callers, NEW k \in Keys, Begin(c, k) PROVE Inv'
  BY <1>2, BeginKeeps
<1>3. ASSUME NEW c \in Callers, Return(c) \/ LookUp(c) \/ LookedUp(c) PROVE Inv'
  BY <1>3, ReturnKeeps, LookUpKeeps, LookedUpKeeps
<1>4. ASSUME NEW l \in Loaders, CloseWindow(l) PROVE Inv'
  BY <1>4, CloseWindowKeeps
<1>5. ASSUME NEW w \in Loads, Work(w) PROVE Inv'
  BY <1>5, FetchKeeps, LandKeeps DEF Work
<1>6. ASSUME NEW r \in Requests, Cancel(r) \/ Renew(r) PROVE Inv'
  BY <1>6, CancelKeeps, RenewKeeps
<1>7. CASE UNCHANGED vars
  <2>1. UNCHANGED <<chainVars, call, gone, cache, window, thunk, flight>>
    BY <1>7 DEF vars, loaderVars, chainVars
  <2>2. TypeOK'
    BY <2>1 DEF Inv, TypeOK, chainVars
  <2> QED
    BY <2>1, <2>2, QuietKeeps DEF Inv, WindowInv, Active
<1> QED
  BY <1>1, <1>2, <1>3, <1>4, <1>5, <1>6, <1>7 DEF Next

\* The invariant above holds in every state.
THEOREM Invariance == Spec => []Inv
<1>1. Inv /\ [Next]_vars => Inv'
  BY NextPreserves
<1> QED
  BY InitEstablishes, <1>1, PTL DEF Spec

\* Calls, thunks, batches and flights are what they should be.
THEOREM LoadersTypeCorrect == Spec => []TypeOK
<1>1. Inv => TypeOK
  BY DEF Inv
<1> QED
  BY Invariance, <1>1, PTL

\* An error in a cache of loaders.go is there only until the loads that were given
\* it have deleted it.
THEOREM ErrorsAreNotKeptThm == Spec => []ErrorsAreNotKept
<1>1. Inv => ErrorsAreNotKept
  BY DEF Inv
<1> QED
  BY Invariance, <1>1, PTL

-------------------------------------------------------------------------------
(* Refinement *)

LEMMA SameAnswers == \A k \in Keys : Direct!Answers(k) = Answers(k)
  BY DEF Direct!Answers, Answers, Direct!BlocksAt, BlocksAt, Direct!AtOrAfter, AtOrAfter,
         Direct!AtOrBefore, AtOrBefore, Direct!Known, Known

LEMMA InitRefines == Init => Direct!ReadInit
<1> SUFFICES ASSUME Init PROVE Direct!ReadInit
  OBVIOUS
<1>1. Direct!ChainInit
  BY DEF Init, ReadInit, ChainInit, Direct!ChainInit
<1>2. [NoCall EXCEPT !.result = IF @ = Cancelled THEN Failed ELSE @] = Direct!NoCall
  BY DEF NoCall, Direct!NoCall, NoKey, Direct!NoKey, Key, Direct!Key, NoResult,
         Direct!NoResult, Cancelled
<1>3. reads = [c \in Callers |-> Direct!NoCall]
  BY <1>2 DEF Init, ReadInit, reads
<1> QED
  BY <1>1, <1>3 DEF Direct!ReadInit

\* What a direct reader sees of a call.
LEMMA ReadsAre ==
    Inv => \A c \in Callers :
        /\ reads[c] = [pc |-> call[c].pc, key |-> call[c].key,
                      result |-> IF call[c].result = Cancelled THEN Failed ELSE call[c].result]
        /\ reads[c].pc = call[c].pc /\ reads[c].key = call[c].key
<1> SUFFICES ASSUME Inv, NEW c \in Callers
             PROVE  reads[c] = [pc |-> call[c].pc, key |-> call[c].key,
                                result |-> IF call[c].result = Cancelled
                                           THEN Failed ELSE call[c].result]
  OBVIOUS
<1>1. call[c] \in Calls
  BY DEF Inv, TypeOK
<1> QED
  BY <1>1 DEF reads, Calls

LEMMA BeginAsks ==
    ASSUME Inv, Inv', NEW c \in Callers, NEW k \in Keys, Begin(c, k)
    PROVE  Direct!Ask(c, k)
<1> DEFINE asked == [pc |-> "asked", key |-> k, result |-> NoResult]
<1>1. call[c].pc # "asked" /\ UNCHANGED chainVars /\ call' = [call EXCEPT ![c] = asked]
  BY DEF Begin, Ask
<1>2. reads[c].pc # "asked"
  BY <1>1, ReadsAre
<1>3. call'[c] = asked /\ \A d \in Callers : d # c => call'[d] = call[d]
  BY <1>1 DEF Inv, TypeOK
<1>4. [asked EXCEPT !.result = IF @ = Cancelled THEN Failed ELSE @] = asked
  BY DEF NoResult, Cancelled
<1>5. reads' = [reads EXCEPT ![c] = asked]
  BY <1>3, <1>4 DEF reads
<1> QED
  BY <1>1, <1>2, <1>5 DEF Direct!Ask, Direct!NoResult, NoResult, chainVars, Direct!chainVars

LEMMA ReturnReplies ==
    ASSUME Inv, Inv', NEW c \in Callers, Return(c)
    PROVE  Direct!Reply(c)
<1> DEFINE result == thunk[Own(c)].result
           seen == IF result = Cancelled THEN Failed ELSE result
<1>1. /\ call[c].pc = "asked" /\ thunk[Own(c)].flight = NoLoad /\ UNCHANGED chainVars
      /\ call' = [call EXCEPT ![c].pc = "answered", ![c].result = result]
  BY DEF Return
<1>2. call[c].key \in Keys /\ result \in Answers(call[c].key) \cup Errors
  BY <1>1, NoLoadIsNoLoad DEF Inv, CallerInv, Fits
<1>3. reads[c].pc = "asked" /\ reads[c].key = call[c].key
  BY <1>1, ReadsAre
<1>4. seen \in Direct!Answers(reads[c].key) \cup {Direct!Failed}
  BY <1>2, <1>3, SameAnswers DEF Errors, Failed, Direct!Failed
<1>5. call[c] \in Calls /\ call \in [Callers -> Calls]
  BY DEF Inv, TypeOK
<1>6. /\ call'[c] = [pc |-> "answered", key |-> call[c].key, result |-> result]
      /\ \A d \in Callers : d # c => call'[d] = call[d]
  BY <1>1, <1>5 DEF Calls
<1>7. reads' = [reads EXCEPT ![c].pc = "answered", ![c].result = seen]
  <2>1. reads'[c] = [pc |-> "answered", key |-> call[c].key, result |-> seen]
    BY <1>6 DEF reads
  <2>2. \A d \in Callers : d # c => reads'[d] = reads[d]
    BY <1>6 DEF reads
  <2>3. DOMAIN reads = Callers /\ DOMAIN reads' = Callers
        /\ reads = [d \in Callers |-> reads[d]] /\ reads' = [d \in Callers |-> reads'[d]]
    BY DEF reads
  <2>4. [reads[c] EXCEPT !.pc = "answered", !.result = seen]
          = [pc |-> "answered", key |-> call[c].key, result |-> seen]
    <3>1. reads[c] \in Calls
      BY <1>5 DEF reads, Calls, Values, Errors
    <3>2. reads[c].key = call[c].key /\ seen \in Values
      BY <1>2, ReadsAre, InvTypes, AnswersAreValues DEF Values, Errors
    <3> DEFINE replied == [reads[c] EXCEPT !.pc = "answered", !.result = seen]
    <3>3. /\ replied \in Calls /\ replied.pc = "answered" /\ replied.key = call[c].key
          /\ replied.result = seen
      BY <3>1, <3>2 DEF Calls
    <3> HIDE DEF replied, seen
    <3>4. replied = [pc |-> "answered", key |-> call[c].key, result |-> seen]
      BY <3>3 DEF Calls
    <3> QED
      BY <3>4 DEF replied
  <2> QED
    BY <2>1, <2>2, <2>3, <2>4
<1> QED
  BY <1>1, <1>3, <1>4, <1>7 DEF Direct!Reply, chainVars, Direct!chainVars

LEMMA RenewLeaves ==
    ASSUME Inv, Inv', NEW r \in Requests, Renew(r)
    PROVE  \E left \in SUBSET Callers : Direct!Leave(left)
<1> DEFINE left == {c \in Callers : RequestOf[c] = r}
<1>1. /\ \A c \in left : call[c].pc # "asked"
      /\ call' = [c \in Callers |-> IF c \in left THEN NoCall ELSE call[c]]
      /\ UNCHANGED chainVars
  BY DEF Renew, Leave
<1>2. \A c \in left : reads[c].pc # "asked"
  BY <1>1, ReadsAre
<1>3. [NoCall EXCEPT !.result = IF @ = Cancelled THEN Failed ELSE @] = Direct!NoCall
  BY DEF NoCall, Direct!NoCall, NoKey, Direct!NoKey, Key, Direct!Key, NoResult,
         Direct!NoResult, Cancelled
<1>4. reads' = [c \in Callers |-> IF c \in left THEN Direct!NoCall ELSE reads[c]]
  BY <1>1, <1>3 DEF reads
<1>5. left \in SUBSET Callers /\ Direct!Leave(left)
  BY <1>1, <1>2, <1>4 DEF Direct!Leave, chainVars, Direct!chainVars
<1> QED
  BY <1>5

LEMMA NextRefines ==
    ASSUME Inv, Inv', [Next]_vars
    PROVE  [Direct!ReadNext]_Direct!readVars
<1>1. ASSUME NewBlock PROVE Direct!ReadNext
  <2>1. Grow /\ call' = call
    BY <1>1 DEF NewBlock, Produce
  <2>2. Direct!Grow /\ reads' = reads
    BY <2>1 DEF Grow, Direct!Grow, reads
  <2> QED
    BY <2>2 DEF Direct!ReadNext, Direct!Produce
<1>2. ASSUME NEW c \in Callers, NEW k \in Keys, Begin(c, k) PROVE Direct!ReadNext
  BY <1>2, BeginAsks DEF Direct!ReadNext
<1>3. ASSUME NEW c \in Callers, Return(c) PROVE Direct!ReadNext
  BY <1>3, ReturnReplies DEF Direct!ReadNext
<1>4. ASSUME NEW r \in Requests, Renew(r) PROVE Direct!ReadNext
  BY <1>4, RenewLeaves DEF Direct!ReadNext
<1>5. ASSUME UNCHANGED chainVars, call' = call PROVE UNCHANGED Direct!readVars
  BY <1>5 DEF reads, Direct!readVars, chainVars
<1>6. ASSUME NEW c \in Callers, LookUp(c) \/ LookedUp(c) PROVE UNCHANGED Direct!readVars
  BY <1>5, <1>6 DEF LookUp, LookedUp
<1>7. ASSUME NEW l \in Loaders, CloseWindow(l) PROVE UNCHANGED Direct!readVars
  BY <1>5, <1>7 DEF CloseWindow
<1>8. ASSUME NEW w \in Loads, Work(w) PROVE UNCHANGED Direct!readVars
  BY <1>5, <1>8 DEF Work, Fetch, FetchFails, Land
<1>9. ASSUME NEW r \in Requests, Cancel(r) PROVE UNCHANGED Direct!readVars
  BY <1>5, <1>9 DEF Cancel
<1>10. CASE UNCHANGED vars
  BY <1>5, <1>10 DEF vars, chainVars
<1> QED
  BY <1>1, <1>2, <1>3, <1>4, <1>6, <1>7, <1>8, <1>9, <1>10 DEF Next

\* Reading through the loaders of loaders.go is as good as asking the liteservers
\* each time: every step of theirs is one of a direct read, or none.
THEOREM Refinement == Spec => ImplementsDirectReads
<1>1. Inv /\ Inv' /\ [Next]_vars => [Direct!ReadNext]_Direct!readVars
  BY NextRefines
<1> QED
  BY Invariance, InitRefines, <1>1, PTL DEF Spec, ImplementsDirectReads, Direct!ReadSpec
=============================================================================
