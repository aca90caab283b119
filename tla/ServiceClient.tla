----------------------------- MODULE ServiceClient -----------------------------
(* Which client serves a request: Service.currentClient (src/service/
   service.go), the configuration cache under it (src/service/client.go), the
   client it builds (NewRoundRobinClient) and the loaders the request then
   works through (WithLoaders, src/service/loaders.go).

   Two caches age by the same TTL: the client (clientInitAt) and the
   configuration (fetchedAt).  The refresh runs under the service's write
   lock, so requests queue behind it.  Where the configuration comes from --
   a file or a server -- is not code of this repository: it serves a usable
   configuration, one that yields no liteserver, or nothing, or it stalls: it
   takes the request and does not answer.  http.Get has no timeout, so a fetch
   then goes on until the source comes back.                                 *)
EXTENDS Integers

CONSTANTS Requests,      \* concurrent requests
          Configs,       \* usable configurations
          TTL,           \* client.go: cacheTTL (7 days)
          MaxTime,       \* end of the clock (bounds the model)
          Empty, Down, Stalled   \* the source: no usable liteserver; out of
                                 \* reach; not answering

ASSUME TTLAssumption == TTL \in Nat \ {0} /\ MaxTime \in Nat
ASSUME SourceAssumption == /\ {Empty, Down, Stalled} \cap Configs = {}
                           /\ Empty # Down /\ Stalled \notin {Empty, Down}

VARIABLES clock,
          source,              \* what the configuration source serves now
          conf, fetchedAt,     \* globalConfigCache
          client, clientInitAt,\* Service.client and its age
          writer,              \* the request holding Service.mu for writing
          loaders,             \* the client globalLoaders is bound to
          pc,                  \* where each request stands
          mine                 \* the client each request was given

configVars == <<conf, fetchedAt>>
clientVars == <<client, clientInitAt>>
serviceVars == <<clock, source, configVars, clientVars, writer, loaders, pc, mine>>

NoOne == "none"
ASSUME RequestsAssumption == NoOne \notin Requests

\* A client is known by the configuration it was built from and by when.
Client(c, at) == [config |-> c, builtAt |-> at]
NoClient == Client(Empty, -1)

\* main: the first client is up before the service is.
ServiceInit == /\ clock = 0
               /\ source \in Configs
               /\ conf = source /\ fetchedAt = 0
               /\ client = Client(source, 0) /\ clientInitAt = 0
               /\ writer = NoOne
               /\ loaders = NoClient
               /\ pc = [r \in Requests |-> "idle"]
               /\ mine = [r \in Requests |-> NoClient]

-------------------------------------------------------------------------------
Tick == /\ clock < MaxTime
        /\ clock' = clock + 1
        /\ UNCHANGED <<source, configVars, clientVars, writer, loaders, pc, mine>>

Sources == Configs \cup {Empty, Down, Stalled}

Republish == /\ source' \in Sources \ {source}
             /\ UNCHANGED <<clock, configVars, clientVars, writer, loaders, pc, mine>>

Expired(since) == clock - since >= TTL

Goto(r, place) == pc' = [pc EXCEPT ![r] = place]

Arrive(r) == /\ pc[r] = "idle"
             /\ Goto(r, "read")
             /\ UNCHANGED <<clock, source, configVars, clientVars, writer, loaders, mine>>

\* Under the read lock: the client, and whether it is due for a refresh.
ReadClient(r) == /\ pc[r] = "read" /\ writer = NoOne
                 /\ IF Expired(clientInitAt)
                       THEN Goto(r, "lock") /\ mine' = mine
                       ELSE Goto(r, "got") /\ mine' = [mine EXCEPT ![r] = client]
                 /\ UNCHANGED <<clock, source, configVars, clientVars, writer, loaders>>

Lock(r) == /\ pc[r] = "lock" /\ writer = NoOne
           /\ writer' = r
           /\ Goto(r, "recheck")
           /\ UNCHANGED <<clock, source, configVars, clientVars, loaders, mine>>

\* return s.client, and the deferred unlock.
Return(r, c) == /\ mine' = [mine EXCEPT ![r] = c]
                /\ writer' = NoOne
                /\ Goto(r, "got")

StillExpired(r) == /\ pc[r] = "recheck" /\ Expired(clientInitAt)
                   /\ Goto(r, "config")
                   /\ UNCHANGED <<clock, source, configVars, clientVars, writer, loaders, mine>>

RefreshedMeanwhile(r) == /\ pc[r] = "recheck" /\ ~Expired(clientInitAt)
                         /\ Return(r, client)
                         /\ UNCHANGED <<clock, source, configVars, clientVars, loaders>>

\* (Mutant of CachedConfig: a cached configuration never gets old.)
CachedForEver(r) == /\ pc[r] = "config"
                    /\ Goto(r, "connect")
                    /\ UNCHANGED <<clock, source, configVars, clientVars, writer, loaders, mine>>

\* getCachedConfig, with a configuration young enough ...
CachedConfig(r) == /\ pc[r] = "config" /\ ~Expired(fetchedAt)
                   /\ Goto(r, "connect")
                   /\ UNCHANGED <<clock, source, configVars, clientVars, writer, loaders, mine>>

\* (Mutant of FetchConfig: the error of a failed fetch is not looked at.)
FetchUnchecked(r) == /\ pc[r] = "config" /\ Expired(fetchedAt)
                     /\ conf' = source /\ fetchedAt' = clock
                     /\ Goto(r, "connect")
                     /\ UNCHANGED <<clock, source, clientVars, writer, loaders, mine>>

\* ... or fetched again ...
FetchConfig(r) == /\ pc[r] = "config" /\ Expired(fetchedAt)
                  /\ source \notin {Down, Stalled}
                  /\ conf' = source /\ fetchedAt' = clock
                  /\ Goto(r, "connect")
                  /\ UNCHANGED <<clock, source, clientVars, writer, loaders, mine>>

\* (Mutant of FetchFails: it returns without unlocking.)
FetchFailsLocked(r) == /\ pc[r] = "config" /\ Expired(fetchedAt)
                       /\ source = Down
                       /\ mine' = [mine EXCEPT ![r] = client]
                       /\ Goto(r, "got")
                       /\ UNCHANGED <<clock, source, configVars, clientVars, writer, loaders>>

\* ... or not to be had: the cache stays as it was and so does the client.
FetchFails(r) == /\ pc[r] = "config" /\ Expired(fetchedAt)
                 /\ source = Down
                 /\ Return(r, client)
                 /\ UNCHANGED <<clock, source, configVars, clientVars, loaders>>

\* (Mutant of Connect: a client without a single liteserver will do.)
ConnectToNone(r) == /\ pc[r] = "connect"
                    /\ client' = Client(conf, clock) /\ clientInitAt' = clock
                    /\ Return(r, client')
                    /\ UNCHANGED <<clock, source, configVars, loaders>>

\* NewRoundRobinClient: one connection per liteserver, at least one.
Connect(r) == /\ pc[r] = "connect" /\ conf # Empty
              /\ client' = Client(conf, clock) /\ clientInitAt' = clock
              /\ Return(r, client')
              /\ UNCHANGED <<clock, source, configVars, loaders>>

ConnectFails(r) == /\ pc[r] = "connect" /\ conf = Empty
                   /\ Return(r, client)
                   /\ UNCHANGED <<clock, source, configVars, clientVars, loaders>>

\* WithLoaders: the process's loaders, made by the first request to come by.
Bind(r) == IF loaders = NoClient THEN mine[r] ELSE loaders

WithLoaders(r) == /\ pc[r] = "got"
                  /\ loaders' = Bind(r)
                  /\ Goto(r, "serving")
                  /\ UNCHANGED <<clock, source, configVars, clientVars, writer, mine>>

Finish(r) == /\ pc[r] = "serving"
             /\ Goto(r, "idle")
             /\ mine' = [mine EXCEPT ![r] = NoClient]
             /\ UNCHANGED <<clock, source, configVars, clientVars, writer, loaders>>

Refresh(r) == \/ StillExpired(r) \/ RefreshedMeanwhile(r)
              \/ CachedConfig(r) \/ FetchConfig(r) \/ FetchFails(r)
              \/ Connect(r) \/ ConnectFails(r)

ServiceNext == \/ Tick
               \/ Republish
               \/ \E r \in Requests : \/ Arrive(r) \/ ReadClient(r) \/ Lock(r) \/ Refresh(r)
                                      \/ WithLoaders(r) \/ Finish(r)

\* Go's RWMutex lets nobody starve: a lock asked for again and again while it
\* is free is granted, and a fetch ends if its source keeps answering (strong
\* fairness).  Everything else a request does, it does.
Fairness == \A r \in Requests : /\ SF_serviceVars(ReadClient(r)) /\ SF_serviceVars(Lock(r))
                                /\ SF_serviceVars(Refresh(r)) /\ WF_serviceVars(WithLoaders(r))

ServiceSpec == ServiceInit /\ [][ServiceNext]_serviceVars /\ Fairness

-------------------------------------------------------------------------------
(* Correctness *)

Clients == [config : Configs \cup {Empty}, builtAt : -1 .. MaxTime]

ServiceTypeOK == /\ clock \in 0 .. MaxTime
                 /\ source \in Sources
                 /\ conf \in Configs \cup {Empty} /\ fetchedAt \in 0 .. clock
                 /\ client \in Clients /\ clientInitAt \in 0 .. clock
                 /\ writer \in Requests \cup {NoOne}
                 /\ loaders \in Clients
                 /\ pc \in [Requests -> {"idle", "read", "lock", "recheck", "config",
                                         "connect", "got", "serving"}]
                 /\ mine \in [Requests -> Clients]

\* Whatever the source serves and however requests race, a request is given a
\* client that has liteservers, and so have the loaders it works through, whose
\* client no refresh replaces: a failed refresh costs nobody the old one.
AlwaysAUsableClient ==
    \A r \in Requests :
        /\ pc[r] \in {"got", "serving"} => mine[r].config \in Configs
        /\ pc[r] = "serving" => loaders.config \in Configs

\* A new client is built only from a configuration fetched after the old client
\* had expired, never from the one the old client came from: the two TTLs do not
\* add up, and requests that find the client expired together replace it once,
\* not in turn.
RefreshFetchesAnew == [][client' # client => fetchedAt - clientInitAt >= TTL]_serviceVars

\* Every request gets past currentClient, even in a queue for the write lock,
\* unless the source stalls for good: that would stop them all, for nobody reads
\* the client while one of them is fetching.
EveryRequestServed ==
    []<>(source # Stalled) => \A r \in Requests : pc[r] = "read" ~> pc[r] = "serving"
=============================================================================
