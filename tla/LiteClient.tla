------------------------------ MODULE LiteClient ------------------------------
(* How one call reaches a liteserver: RoundRobinClient (src/service/
   roundrobin.go) under the retry loop (src/service/retry.go).

   A session is one call of retry or retryWithExclude.  Three kinds occur:
     "lookup"    the loaders' LookupBlock (loaders.go:129-137, 161-169): on the
                 base client; the RetryExclude sits in innerCtx, but the
                 request is made with the outer ctx and never sees it;
     "pinned"    the loaders' GetConfigParams (loaders.go:211-216): on a client
                 fresh from WithBlock, which has a counter of its own; retry's
                 RetryExclude is on a context nobody else holds;
     "fallback"  the look-ups without loaders (loaders.go:295-303, 321-329): on
                 the base client, the request does see the RetryExclude.
   The retries on one pinned client that several goroutines share (rounds.go:260-289,
   blocks.go:61) are as the "lookup" sessions of a client whose counter is the
   pinned one's: the counter moves under them and the exclusion is not seen.

   Liteservers are not code of this repository: a connected one answers, says
   it does not have the block, or fails in some passing way; one that is not
   connected makes the call fail with "no connections available".            *)
EXTENDS Integers, FiniteSets

CONSTANTS N,              \* liteservers: entries of the client
          Sessions,       \* retry sessions that may run at once
          Kinds,          \* the kinds of session in play
          Holdings,       \* what the servers may hold of the block asked for
          RetryAttempts,  \* retry.go: retryAttempts (30)
          MaxFlaps,       \* connections lost or regained in a behaviour (bound)
          CounterRange    \* the counter's range, a multiple of every 1..N (2^64)

Servers == 0 .. N - 1
AllKinds == {"lookup", "pinned", "fallback"}

ASSUME ServersAssumption == N \in Nat \ {0}
ASSUME KindsAssumption == Kinds \subseteq AllKinds
ASSUME HoldingsAssumption == Holdings \subseteq [Servers -> {"state", "gcd", "noblock"}]
ASSUME RetryAttemptsAssumption == RetryAttempts \in Nat \ {0}
ASSUME MaxFlapsAssumption == MaxFlaps \in Nat
ASSUME CounterAssumption == /\ CounterRange \in Nat \ {0}
                            /\ \A k \in 1 .. N : CounterRange % k = 0

VARIABLES up,           \* servers with a working connection
          holds,        \* what each server has of the block: fixed
          flaps,        \* connection changes so far
          counter,      \* the base client's round-robin counter
          sess          \* the sessions

netVars == <<up, holds, flaps>>
vars == <<netVars, counter, sess>>

None == -1

\* A session that has done nothing yet.  own: the counter of its pinned client;
\* excluded, lastUsed: its RetryExclude; healthy: the list nextClient built;
\* asked: the server chosen; attempt: attempts that failed.  History: lacking,
\* the servers that said they lack the block; steady, no connection changed
\* and no attempt failed in passing.
Fresh == [kind |-> "lookup", pc |-> "idle", own |-> 0, excluded |-> {}, lastUsed |-> 0,
          healthy |-> {}, asked |-> None, attempt |-> 0, lacking |-> {},
          steady |-> TRUE, outcome |-> "none"]

Init == /\ up \in SUBSET Servers
        /\ holds \in Holdings
        /\ flaps = 0
        /\ counter \in 0 .. CounterRange - 1
        /\ sess = [s \in Sessions |-> Fresh]

-------------------------------------------------------------------------------
\* A connection drops, or comes back.
Flap(srv) == /\ flaps < MaxFlaps
             /\ up' = IF srv \in up THEN up \ {srv} ELSE up \cup {srv}
             /\ flaps' = flaps + 1
             /\ sess' = [s \in Sessions |-> [sess[s] EXCEPT !.steady = FALSE]]
             /\ UNCHANGED <<holds, counter>>

\* A call starts.  WithBlock copies the base client's counter.
Begin(s) == /\ sess[s].pc \in {"idle", "done"}
            /\ \E k \in Kinds :
                  sess' = [sess EXCEPT ![s] =
                      [Fresh EXCEPT !.kind = k, !.pc = "scan",
                                    !.own = IF k = "pinned" THEN counter ELSE 0]]
            /\ UNCHANGED <<netVars, counter>>

\* Whether the context of the session's requests carries its RetryExclude.
Sees(k) == k = "fallback"

\* (Mutant of Healthy: servers without a connection stay on the list.)
HealthyUnchecked(s) ==
    IF Sees(sess[s].kind) THEN Servers \ sess[s].excluded ELSE Servers

\* nextClient, first half: the connected servers that are not excluded.
Healthy(s) == IF Sees(sess[s].kind) THEN up \ sess[s].excluded ELSE up

Scan(s) == /\ sess[s].pc = "scan"
           /\ sess' = [sess EXCEPT ![s].pc = "pick", ![s].healthy = Healthy(s)]
           /\ UNCHANGED <<netVars, counter>>

Bump(c) == (c + 1) % CounterRange

\* The k-th smallest member, counting from 0: healthy[k] in the code.
Nth(S, k) == CHOOSE x \in S : Cardinality({y \in S : y < x}) = k

\* Round-robin over the healthy servers, or over all when there is none.
Choice(list, c) == IF list = {} THEN c % N ELSE Nth(list, c % Cardinality(list))

\* clientForRequest tells the session which server it gave it.
LastUsed(s, srv) == IF Sees(sess[s].kind) THEN srv ELSE sess[s].lastUsed

\* (Mutant of OwnCounter: the closure pins anew on every attempt.)
OwnCopiedAgain(s, c) == sess[s].own

\* A pinned client lives as long as its session and keeps its own count.
OwnCounter(s, c) == IF sess[s].kind = "pinned" THEN c ELSE sess[s].own

\* nextClient, second half: the client's own counter, or the base client's.
Pick(s) ==
    /\ sess[s].pc = "pick"
    /\ LET pinned == sess[s].kind = "pinned"
           c == Bump(IF pinned THEN sess[s].own ELSE counter)
           srv == Choice(sess[s].healthy, c)
       IN /\ sess' = [sess EXCEPT ![s].pc = "reply", ![s].asked = srv,
                                  ![s].lastUsed = LastUsed(s, srv),
                                  ![s].own = OwnCounter(s, c)]
          /\ counter' = IF pinned THEN counter ELSE c
    /\ UNCHANGED netVars

\* The call returns; what it knew is gone.
Ended(s, how) == [Fresh EXCEPT !.kind = sess[s].kind, !.pc = "done", !.outcome = how,
                               !.steady = sess[s].steady]

\* (Mutants of Again: one attempt too many; attempts not counted.)
AgainOnceMore(s, rest) ==
    IF sess[s].attempt < RetryAttempts
    THEN [rest EXCEPT !.attempt = @ + 1, !.pc = "scan"]
    ELSE [Ended(s, "exhausted") EXCEPT !.steady = rest.steady]
AgainForEver(s, rest) == [rest EXCEPT !.pc = "scan"]

\* The loop's next round, or its end after the last attempt.
Again(s, rest) ==
    IF sess[s].attempt + 1 < RetryAttempts
    THEN [rest EXCEPT !.attempt = @ + 1, !.pc = "scan"]
    ELSE [Ended(s, "exhausted") EXCEPT !.steady = rest.steady]

Succeeds(s) == /\ sess[s].pc = "reply"
               /\ sess[s].asked \in up /\ holds[sess[s].asked] = "state"
               /\ sess' = [sess EXCEPT ![s] = Ended(s, "ok")]
               /\ UNCHANGED <<netVars, counter>>

\* isPermanentError: the loop ends at once.
NoConnection(s) == /\ sess[s].pc = "reply"
                   /\ sess[s].asked \notin up
                   /\ sess' = [sess EXCEPT ![s] = Ended(s, "permanent")]
                   /\ UNCHANGED <<netVars, counter>>

\* isStateGCError: "state already gc'd" or "ltdb: block not found".
IsStateGCError(answer) == answer \in {"gcd", "noblock"}

\* The server LastUsed names goes to Excluded.
LacksBlock(s) ==
    /\ sess[s].pc = "reply"
    /\ sess[s].asked \in up /\ IsStateGCError(holds[sess[s].asked])
    /\ sess' = [sess EXCEPT ![s] =
          Again(s, [sess[s] EXCEPT !.excluded = @ \cup {sess[s].lastUsed},
                                   !.lacking = @ \cup {sess[s].asked}])]
    /\ UNCHANGED <<netVars, counter>>

\* Any other error is tried again and excludes nobody.
OtherError(s) == /\ sess[s].pc = "reply"
                 /\ sess[s].asked \in up
                 /\ sess' = [sess EXCEPT ![s] =
                       Again(s, [sess[s] EXCEPT !.steady = FALSE])]
                 /\ UNCHANGED <<netVars, counter>>

Reply(s) == Succeeds(s) \/ NoConnection(s) \/ LacksBlock(s) \/ OtherError(s)

Step(s) == Scan(s) \/ Pick(s) \/ Reply(s)

Next == \/ \E srv \in Servers : Flap(srv)
        \/ \E s \in Sessions : Begin(s) \/ Step(s)

\* A request is answered or times out, and a goroutine that can run does run.
Spec == Init /\ [][Next]_vars /\ \A s \in Sessions : WF_vars(Step(s))

-------------------------------------------------------------------------------
(* Correctness *)

TypeOK == /\ up \subseteq Servers /\ holds \in Holdings /\ flaps \in 0 .. MaxFlaps
          /\ counter \in 0 .. CounterRange - 1
          /\ sess \in [Sessions ->
                [kind : AllKinds, pc : {"idle", "scan", "pick", "reply", "done"},
                 own : 0 .. CounterRange - 1, excluded : SUBSET Servers,
                 lastUsed : Servers, healthy : SUBSET Servers,
                 asked : Servers \cup {None}, attempt : 0 .. RetryAttempts - 1,
                 lacking : SUBSET Servers, steady : BOOLEAN,
                 outcome : {"none", "ok", "permanent", "exhausted"}]]

\* A session asks a server that told it that it lacks the block only when no other
\* connected server was left to ask: always where its requests see the exclusion;
\* by the count of a pinned client, as long as connections are steady.
NeverAskedTwice ==
    \A s \in Sessions :
        sess[s].pc = "reply" /\ sess[s].asked \in sess[s].lacking =>
            /\ Sees(sess[s].kind) => sess[s].healthy = {}
            /\ sess[s].kind = "pinned" /\ sess[s].steady =>
                  sess[s].healthy \subseteq sess[s].lacking

\* With steady connections no session gives up while a connected server has the
\* block, whatever the sessions beside it do to the shared counter: none takes a
\* failure for permanent, and one that has the exclusion or a counter of its own
\* does not run out of attempts.
ArchiveReached ==
    \A s \in Sessions :
        /\ sess[s].steady
        /\ \/ sess[s].outcome = "permanent"
           \/ /\ sess[s].outcome = "exhausted" /\ RetryAttempts >= N
              /\ sess[s].kind \in {"fallback", "pinned"}
        => \A srv \in up : holds[srv] # "state"

\* Every session ends: no answer keeps the loop going for ever.
Ends == \A s \in Sessions : sess[s].pc = "scan" ~> sess[s].pc = "done"

\* retry.go:17-20: the retry loop knows which server to exclude: Excluded only
\* ever names servers that said they lack the block.
ExcludesTheRightServer == \A s \in Sessions : sess[s].excluded \subseteq sess[s].lacking
=============================================================================
