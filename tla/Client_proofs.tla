------------------------------ MODULE Client_proofs ------------------------------
(* The client of the liteservers, from both ends.  Which server a session is given:
   always one there is, and one it has not excluded as long as another is connected,
   in the end the one that has the block, and how many steps that takes.  Which client
   requests are given: never a useless one, by a refresh in which the ages of the client
   and of the configuration keep apart.                                        *)
EXTENDS LiteClient, ServiceClient, FiniteSetTheorems, TLAPS

-------------------------------------------------------------------------------
(* nextClient *)

LEMMA ServersAreFinite == IsFiniteSet(Servers) /\ Cardinality(Servers) = N
  BY ServersAssumption, FS_Interval DEF Servers

\* How many servers of a list come before one of them.
LEMMA Before ==
    ASSUME NEW S \in SUBSET Servers, NEW x \in S
    PROVE  LET B == {y \in S : y < x}
           IN IsFiniteSet(B) /\ Cardinality(B) \in 0 .. Cardinality(S) - 1
<1> DEFINE B == {y \in S : y < x}
<1>1. IsFiniteSet(S)
  BY ServersAreFinite, FS_Subset
<1>2. IsFiniteSet(S \ {x}) /\ Cardinality(S \ {x}) = Cardinality(S) - 1
  BY <1>1, FS_RemoveElement
<1>3. B \in SUBSET (S \ {x})
  BY ServersAssumption DEF Servers
<1>4. IsFiniteSet(B) /\ Cardinality(B) <= Cardinality(S \ {x})
  BY <1>2, <1>3, FS_Subset
<1>5. Cardinality(B) \in Nat /\ Cardinality(S) \in Nat
  BY <1>1, <1>4, FS_CardinalityType
<1> QED
  BY <1>2, <1>4, <1>5

\* Of two servers on a list, more come before the later one.
LEMMA LaterHasMoreBefore ==
    ASSUME NEW S \in SUBSET Servers, NEW x \in S, NEW z \in S, x < z
    PROVE  Cardinality({y \in S : y < x}) < Cardinality({y \in S : y < z})
<1> DEFINE B == {y \in S : y < x}
           C == {y \in S : y < z}
<1>1. IsFiniteSet(B) /\ IsFiniteSet(C)
  BY Before
<1>2. x \notin B /\ B \cup {x} \in SUBSET C
  <2>1. \A y \in S : y \in Int
    BY ServersAssumption DEF Servers
  <2>2. x \notin B /\ x \in C
    BY <2>1
  <2>3. ASSUME NEW y \in B PROVE y \in C
    BY <2>1, <2>3
  <2> QED
    BY <2>2, <2>3
<1>3. Cardinality(B \cup {x}) = Cardinality(B) + 1
  BY <1>1, <1>2, FS_AddElement
<1>4. Cardinality(B \cup {x}) <= Cardinality(C)
  BY <1>1, <1>2, FS_Subset
<1>5. Cardinality(B) \in Nat /\ Cardinality(C) \in Nat
  BY <1>1, FS_CardinalityType
<1> HIDE DEF B, C
<1>6. Cardinality(B) < Cardinality(C)
  BY <1>3, <1>4, <1>5
<1> QED
  BY <1>6 DEF B, C

\* A server's place on a list, counting from 0.
Place(S, x) == Cardinality({y \in S : y < x})

LEMMA PlaceIs ==
    ASSUME NEW S \in SUBSET Servers, NEW x \in S
    PROVE  /\ Place(S, x) \in 0 .. Cardinality(S) - 1
           /\ Cardinality(S) \in Nat \ {0} /\ Cardinality(S) <= N
           /\ Place(S, x) \in Nat
<1>1. Cardinality(S) \in Nat /\ Cardinality(S) <= N
  BY ServersAreFinite, FS_Subset, FS_CardinalityType
<1>2. Place(S, x) \in 0 .. Cardinality(S) - 1
  BY Before DEF Place
<1> QED
  BY <1>1, <1>2

\* No two servers have the same.
LEMMA OnePlace ==
    ASSUME NEW S \in SUBSET Servers, NEW x \in S, NEW z \in S, Place(S, x) = Place(S, z)
    PROVE  x = z
<1>1. /\ x < z => Place(S, x) < Place(S, z)
      /\ z < x => Place(S, z) < Place(S, x)
  BY LaterHasMoreBefore DEF Place
<1>2. Place(S, x) \in Nat /\ Place(S, z) \in Nat
  BY PlaceIs
<1>3. x \in Int /\ z \in Int
  BY ServersAssumption DEF Servers
<1> QED
  BY <1>1, <1>2, <1>3

\* healthy[k] is there for every k below the list's length: otherwise its servers
\* would have one place too few.
LEMMA NthIsThere ==
    ASSUME NEW S \in SUBSET Servers, NEW k \in 0 .. Cardinality(S) - 1
    PROVE  Nth(S, k) \in S /\ Place(S, Nth(S, k)) = k
<1>1. IsFiniteSet(S) /\ Cardinality(S) \in Nat
  BY ServersAreFinite, FS_Subset, FS_CardinalityType
<1>2. \E x \in S : Place(S, x) = k
  <2> SUFFICES ASSUME \A x \in S : Place(S, x) # k PROVE FALSE
    OBVIOUS
  <2> DEFINE Range0 == 0 .. Cardinality(S) - 1
             T == Range0 \ {k}
             f == [x \in S |-> Place(S, x)]
  <2>1. IsFiniteSet(Range0) /\ Cardinality(Range0) = Cardinality(S)
    <3>1. 0 \in Int /\ Cardinality(S) - 1 \in Int /\ 0 <= Cardinality(S) - 1
      BY <1>1
    <3> QED
      BY <1>1, <3>1, FS_Interval
  <2>2. IsFiniteSet(T) /\ Cardinality(T) = Cardinality(S) - 1
    <3>1. k \in Range0
      OBVIOUS
    <3> HIDE DEF Range0
    <3> QED
      BY <2>1, <3>1, FS_RemoveElement
  <2>3. f \in [S -> T]
    BY PlaceIs
  <2>4. Cardinality(T) < Cardinality(S)
    BY <1>1, <2>2
  <2> HIDE DEF T, f
  <2>5. PICK x \in S, z \in S : x # z /\ f[x] = f[z]
    BY <1>1, <2>2, <2>3, <2>4, FS_PigeonHole
  <2> QED
    BY <2>5, OnePlace DEF f
<1> QED
  BY <1>2 DEF Nth, Place

LEMMA RemainderIsLess == \A c \in Nat, m \in Nat \ {0} : c % m \in 0 .. m - 1
  OBVIOUS

\* Whatever the counter, a server is chosen, and a healthy one if there is any.
LEMMA ChoiceIsHealthy ==
    ASSUME NEW list \in SUBSET Servers, NEW c \in Nat
    PROVE  /\ Choice(list, c) \in Servers
           /\ list # {} => Choice(list, c) \in list
<1>1. CASE list = {}
  BY <1>1, RemainderIsLess, ServersAssumption DEF Choice, Servers
<1>2. CASE list # {}
  <2>1. Cardinality(list) \in Nat \ {0}
    BY <1>2, ServersAreFinite, FS_Subset, FS_CardinalityType, FS_EmptySet
  <2>2. c % Cardinality(list) \in 0 .. Cardinality(list) - 1
    BY <2>1, RemainderIsLess
  <2> QED
    BY <1>2, <2>2, NthIsThere DEF Choice
<1> QED
  BY <1>1, <1>2

LEMMA BumpIsACount ==
    ASSUME NEW c \in 0 .. CounterRange - 1
    PROVE  Bump(c) \in 0 .. CounterRange - 1 /\ Bump(c) \in Nat
<1>1. c + 1 \in Nat /\ CounterRange \in Nat \ {0}
  BY CounterAssumption
<1> QED
  BY <1>1, RemainderIsLess DEF Bump

-------------------------------------------------------------------------------
(* The invariant *)

SessionType == [kind : AllKinds, pc : {"idle", "scan", "pick", "reply", "done"},
                own : 0 .. CounterRange - 1, excluded : SUBSET Servers,
                lastUsed : Servers, healthy : SUBSET Servers,
                asked : Servers \cup {None}, attempt : 0 .. RetryAttempts - 1,
                lacking : SUBSET Servers, steady : BOOLEAN,
                outcome : {"none", "ok", "permanent", "exhausted"}]

\* The server asked is on the list, if the list has any.  A session whose requests
\* see the exclusion has excluded every server that lacks the block, its list has
\* none of them, and the server asked is the one it will exclude.
Good(x) ==
    /\ (x.pc \in {"pick", "reply"} /\ Sees(x.kind)) => x.healthy \cap x.excluded = {}
    /\ x.pc = "reply" => /\ x.asked \in Servers
                         /\ x.healthy # {} => x.asked \in x.healthy
                         /\ Sees(x.kind) => x.asked = x.lastUsed
    /\ Sees(x.kind) => x.lacking \subseteq x.excluded

Inv == TypeOK /\ \A s \in Sessions : Good(sess[s])

LEMMA TypeIs ==
    TypeOK <=> /\ up \subseteq Servers /\ holds \in Holdings /\ flaps \in 0 .. MaxFlaps
               /\ counter \in 0 .. CounterRange - 1
               /\ sess \in [Sessions -> SessionType]
  BY DEF TypeOK, SessionType

LEMMA FreshIsGood == Fresh \in SessionType /\ Good(Fresh)
<1>1. 0 \in Servers /\ 0 \in 0 .. CounterRange - 1 /\ 0 \in 0 .. RetryAttempts - 1
  BY ServersAssumption, CounterAssumption, RetryAttemptsAssumption DEF Servers
<1> QED
  BY <1>1 DEF Fresh, SessionType, Good, AllKinds, Sees

\* A step of one session keeps the invariant if it keeps its own part.
LEMMA OneKeeps ==
    ASSUME Inv, NEW s \in Sessions, NEW x \in SessionType, Good(x),
           sess' = [sess EXCEPT ![s] = x], UNCHANGED netVars,
           counter' \in 0 .. CounterRange - 1
    PROVE  Inv'
<1>1. sess' \in [Sessions -> SessionType]
  BY TypeIs DEF Inv
<1>2. TypeOK'
  BY <1>1, TypeIs DEF Inv, netVars, TypeOK, SessionType
<1>3. \A t \in Sessions : Good(sess'[t])
  BY TypeIs DEF Inv
<1> QED
  BY <1>2, <1>3 DEF Inv, Good

LEMMA InitEstablishes == Init => Inv
<1> SUFFICES ASSUME Init PROVE Inv
  OBVIOUS
<1>1. sess \in [Sessions -> SessionType] /\ \A s \in Sessions : Good(sess[s])
  BY FreshIsGood DEF Init
<1>2. up \subseteq Servers /\ flaps \in 0 .. MaxFlaps /\ holds \in Holdings
      /\ counter \in 0 .. CounterRange - 1
  BY MaxFlapsAssumption DEF Init
<1> QED
  BY <1>1, <1>2, TypeIs DEF Inv

-------------------------------------------------------------------------------
(* The steps *)

LEMMA FlapKeeps == ASSUME Inv, NEW srv \in Servers, Flap(srv) PROVE Inv'
<1>1. /\ sess' = [s \in Sessions |-> [sess[s] EXCEPT !.steady = FALSE]]
      /\ sess \in [Sessions -> SessionType]
      /\ flaps' \in 0 .. MaxFlaps /\ up' \subseteq Servers /\ holds' = holds
      /\ counter' = counter
  BY TypeIs, MaxFlapsAssumption DEF Flap, Inv
<1>2. ASSUME NEW s \in Sessions PROVE sess'[s] \in SessionType /\ Good(sess'[s])
  <2>1. sess[s] \in SessionType /\ Good(sess[s]) /\ sess'[s] = [sess[s] EXCEPT !.steady = FALSE]
    BY <1>1 DEF Inv
  <2> QED
    BY <2>1 DEF SessionType, Good
<1>3. sess' \in [Sessions -> SessionType]
  BY <1>1, <1>2
<1>4. TypeOK'
  BY <1>1, <1>3, TypeIs DEF Inv, TypeOK, SessionType
<1> QED
  BY <1>2, <1>4 DEF Inv, Good

LEMMA BeginKeeps == ASSUME Inv, NEW s \in Sessions, Begin(s) PROVE Inv'
<1>1. PICK k \in Kinds :
        sess' = [sess EXCEPT ![s] = [Fresh EXCEPT !.kind = k, !.pc = "scan",
                                                  !.own = IF k = "pinned" THEN counter ELSE 0]]
  BY DEF Begin
<1> DEFINE x == [Fresh EXCEPT !.kind = k, !.pc = "scan",
                              !.own = IF k = "pinned" THEN counter ELSE 0]
<1>2. x \in SessionType /\ Good(x)
  <2>1. /\ k \in AllKinds /\ counter \in 0 .. CounterRange - 1 /\ 0 \in 0 .. CounterRange - 1
    BY KindsAssumption, CounterAssumption DEF Inv, TypeOK
  <2> QED
    BY <2>1, FreshIsGood DEF SessionType, Good, Fresh
<1>3. UNCHANGED netVars /\ counter' \in 0 .. CounterRange - 1
  BY DEF Begin, Inv, TypeOK
<1> HIDE DEF x
<1> QED
  BY <1>1, <1>2, <1>3, OneKeeps DEF x

LEMMA ScanKeeps == ASSUME Inv, NEW s \in Sessions, Scan(s) PROVE Inv'
<1> DEFINE x == [sess[s] EXCEPT !.pc = "pick", !.healthy = Healthy(s)]
<1>1. sess[s] \in SessionType /\ Good(sess[s]) /\ sess \in [Sessions -> SessionType]
  BY TypeIs DEF Inv
<1>2. sess' = [sess EXCEPT ![s] = x]
  BY <1>1 DEF Scan
<1>3. Healthy(s) \in SUBSET Servers
      /\ (Sees(sess[s].kind) => Healthy(s) \cap sess[s].excluded = {})
  BY DEF Healthy, Inv, TypeOK
<1>4. x \in SessionType /\ Good(x)
  BY <1>1, <1>3 DEF SessionType, Good
<1>5. UNCHANGED netVars /\ counter' \in 0 .. CounterRange - 1
  BY DEF Scan, Inv, TypeOK
<1> HIDE DEF x
<1> QED
  BY <1>2, <1>4, <1>5, OneKeeps

LEMMA PickKeeps == ASSUME Inv, NEW s \in Sessions, Pick(s) PROVE Inv'
<1> DEFINE pinned == sess[s].kind = "pinned"
           c == Bump(IF pinned THEN sess[s].own ELSE counter)
           srv == Choice(sess[s].healthy, c)
           x == [sess[s] EXCEPT !.pc = "reply", !.asked = srv, !.lastUsed = LastUsed(s, srv),
                                !.own = OwnCounter(s, c)]
<1>1. /\ sess[s] \in SessionType /\ Good(sess[s]) /\ sess \in [Sessions -> SessionType]
      /\ counter \in 0 .. CounterRange - 1 /\ sess[s].pc = "pick"
  BY TypeIs DEF Inv, Pick
<1>2. c \in 0 .. CounterRange - 1 /\ c \in Nat
  <2>1. (IF pinned THEN sess[s].own ELSE counter) \in 0 .. CounterRange - 1
    BY <1>1 DEF SessionType
  <2> QED
    BY <2>1, BumpIsACount
<1>3. sess' = [sess EXCEPT ![s] = x] /\ counter' \in 0 .. CounterRange - 1
  BY <1>1, <1>2 DEF Pick
<1> HIDE DEF c
<1>4. srv \in Servers /\ (sess[s].healthy # {} => srv \in sess[s].healthy)
  BY <1>1, <1>2, ChoiceIsHealthy DEF SessionType
<1> HIDE DEF srv
<1>5. LastUsed(s, srv) \in Servers /\ (Sees(sess[s].kind) => LastUsed(s, srv) = srv)
      /\ OwnCounter(s, c) \in 0 .. CounterRange - 1
  BY <1>1, <1>2, <1>4 DEF LastUsed, OwnCounter, SessionType
<1>6. x \in SessionType /\ Good(x)
  BY <1>1, <1>4, <1>5 DEF SessionType, Good
<1>7. UNCHANGED netVars
  BY DEF Pick
<1> HIDE DEF x
<1> QED
  BY <1>3, <1>6, <1>7, OneKeeps

LEMMA EndedIsGood ==
    ASSUME Inv, NEW s \in Sessions, NEW how \in {"ok", "permanent", "exhausted"}
    PROVE  Ended(s, how) \in SessionType /\ Good(Ended(s, how))
<1>1. sess[s] \in SessionType
  BY TypeIs DEF Inv
<1> QED
  BY <1>1, FreshIsGood DEF Ended, Fresh, SessionType, Good

\* The loop goes on from a record that is good but for its step, or ends.
LEMMA AgainIsGood ==
    ASSUME Inv, NEW s \in Sessions, NEW rest \in SessionType,
           Sees(rest.kind) => rest.lacking \subseteq rest.excluded,
           rest.attempt = sess[s].attempt
    PROVE  Again(s, rest) \in SessionType /\ Good(Again(s, rest))
<1>1. CASE sess[s].attempt + 1 < RetryAttempts
  <2>1. rest.attempt + 1 \in 0 .. RetryAttempts - 1
    BY <1>1, RetryAttemptsAssumption DEF SessionType
  <2>2. [rest EXCEPT !.attempt = @ + 1, !.pc = "scan"] \in SessionType
    BY <2>1 DEF SessionType
  <2> QED
    BY <1>1, <2>2 DEF Again, SessionType, Good
<1>2. CASE ~(sess[s].attempt + 1 < RetryAttempts)
  <2> DEFINE x == Ended(s, "exhausted")
  <2>1. x \in SessionType /\ Good(x)
    BY EndedIsGood
  <2>2. Again(s, rest) = [x EXCEPT !.steady = rest.steady] /\ rest.steady \in BOOLEAN
    BY <1>2 DEF Again, SessionType
  <2> HIDE DEF x
  <2> QED
    BY <2>1, <2>2 DEF SessionType, Good
<1> QED
  BY <1>1, <1>2

LEMMA ReplyKeeps == ASSUME Inv, NEW s \in Sessions, Reply(s) PROVE Inv'
<1>1. /\ sess[s] \in SessionType /\ Good(sess[s]) /\ sess[s].pc = "reply"
      /\ UNCHANGED netVars /\ counter' \in 0 .. CounterRange - 1
  BY TypeIs DEF Inv, Reply, Succeeds, NoConnection, LacksBlock, OtherError, TypeOK
<1>2. CASE Succeeds(s)
  <2>1. sess' = [sess EXCEPT ![s] = Ended(s, "ok")]
    BY <1>2 DEF Succeeds
  <2>2. Ended(s, "ok") \in SessionType /\ Good(Ended(s, "ok"))
    BY EndedIsGood
  <2> QED
    BY <1>1, <2>1, <2>2, OneKeeps
<1>3. CASE NoConnection(s)
  <2>1. sess' = [sess EXCEPT ![s] = Ended(s, "permanent")]
    BY <1>3 DEF NoConnection
  <2>2. Ended(s, "permanent") \in SessionType /\ Good(Ended(s, "permanent"))
    BY EndedIsGood
  <2> QED
    BY <1>1, <2>1, <2>2, OneKeeps
<1>4. CASE LacksBlock(s)
  <2> DEFINE rest == [sess[s] EXCEPT !.excluded = @ \cup {sess[s].lastUsed},
                                     !.lacking = @ \cup {sess[s].asked}]
  <2>1. rest \in SessionType /\ rest.attempt = sess[s].attempt
        /\ (Sees(rest.kind) => rest.lacking \subseteq rest.excluded)
    BY <1>1 DEF SessionType, Good
  <2>2. sess' = [sess EXCEPT ![s] = Again(s, rest)]
    BY <1>4 DEF LacksBlock
  <2> HIDE DEF rest
  <2>3. Again(s, rest) \in SessionType /\ Good(Again(s, rest))
    BY <2>1, AgainIsGood
  <2> QED
    BY <1>1, <2>2, <2>3, OneKeeps
<1>5. CASE OtherError(s)
  <2> DEFINE rest == [sess[s] EXCEPT !.steady = FALSE]
  <2>1. rest \in SessionType /\ rest.attempt = sess[s].attempt
        /\ (Sees(rest.kind) => rest.lacking \subseteq rest.excluded)
    BY <1>1 DEF SessionType, Good
  <2>2. sess' = [sess EXCEPT ![s] = Again(s, rest)]
    BY <1>5 DEF OtherError
  <2> HIDE DEF rest
  <2>3. Again(s, rest) \in SessionType /\ Good(Again(s, rest))
    BY <2>1, AgainIsGood
  <2> QED
    BY <1>1, <2>2, <2>3, OneKeeps
<1> QED
  BY <1>2, <1>3, <1>4, <1>5 DEF Reply

LEMMA NextPreserves == ASSUME Inv, [Next]_vars PROVE Inv'
<1>1. ASSUME NEW srv \in Servers, Flap(srv) PROVE Inv'
  BY <1>1, FlapKeeps
<1>2. ASSUME NEW s \in Sessions, Begin(s) \/ Step(s) PROVE Inv'
  BY <1>2, BeginKeeps, ScanKeeps, PickKeeps, ReplyKeeps DEF Step
<1>3. CASE UNCHANGED vars
  BY <1>3 DEF vars, netVars, Inv, TypeOK
<1> QED
  BY <1>1, <1>2, <1>3 DEF Next

-------------------------------------------------------------------------------
(* The theorems *)

\* The inductive invariant holds: of lists, exclusions and servers asked.
THEOREM Invariance == Spec => []Inv
  BY InitEstablishes, NextPreserves, PTL DEF Spec

\* Every session asks a server there is, whatever the counters and the list, and
\* counts no more attempts than the loop has.
THEOREM ClientTypeCorrect == Spec => []TypeOK
<1>1. Inv => TypeOK
  BY DEF Inv
<1> QED
  BY <1>1, Invariance, PTL

-------------------------------------------------------------------------------
(* Counters and remainders *)

LEMMA QuotientOf ==
    ASSUME NEW a \in Nat, NEW m \in Nat \ {0}
    PROVE  a % m \in 0 .. m - 1 /\ \E q \in Int : a = m * q + (a % m)
<1>1. a % m \in 0 .. m - 1
  OBVIOUS
<1>2. a \div m \in Int /\ a = m * (a \div m) + (a % m)
  BY SMTT(30)
<1>3. \E q \in Int : a = m * q + (a % m)
  <2> WITNESS a \div m \in Int
  <2> QED
    BY <1>2
<1> QED
  BY <1>1, <1>3, Zenon

\* A number has one remainder.
LEMMA RemainderIs ==
    ASSUME NEW m \in Nat \ {0}, NEW a \in Nat, NEW q \in Int, NEW r \in 0 .. m - 1,
           a = m * q + r
    PROVE  a % m = r
<1> DEFINE t == a % m
<1>1. PICK p \in Int : t \in 0 .. m - 1 /\ a = m * p + t
  BY QuotientOf
<1> HIDE DEF t
<1>2. m * (q - p) = t - r
  BY <1>1
<1>3. CASE q = p
  BY <1>1, <1>2, <1>3 DEF t
<1>4. CASE q > p
  <2>1. m * (q - p) >= m
    BY <1>4
  <2> QED
    BY <1>1, <1>2, <2>1
<1>5. CASE q < p
  <2>1. m * (p - q) >= m
    BY <1>5
  <2>2. m * (p - q) = r - t
    BY <1>1
  <2> QED
    BY <1>1, <2>1, <2>2
<1> QED
  BY <1>3, <1>4, <1>5

LEMMA NextRemainder ==
    ASSUME NEW m \in Nat \ {0}, NEW a \in Nat
    PROVE  (a + 1) % m = IF a % m = m - 1 THEN 0 ELSE (a % m) + 1
<1> DEFINE r == a % m
<1>1. PICK q \in Int : r \in 0 .. m - 1 /\ a = m * q + r
  BY QuotientOf
<1> HIDE DEF r
<1>2. CASE r = m - 1
  <2>1. a + 1 = m * (q + 1) + 0
    BY <1>1, <1>2
  <2>2. (a + 1) % m = 0
    BY <1>1, <2>1, RemainderIs
  <2> QED
    BY <1>2, <2>2 DEF r
<1>3. CASE r # m - 1
  <2>1. a + 1 = m * q + (r + 1) /\ r + 1 \in 0 .. m - 1
    BY <1>1, <1>3
  <2>2. (a + 1) % m = r + 1
    BY <1>1, <2>1, RemainderIs
  <2> QED
    BY <1>3, <2>2 DEF r
<1> QED
  BY <1>2, <1>3

\* Two numbers whose successors have one remainder have one themselves.
LEMMA OneBefore ==
    ASSUME NEW m \in Nat \ {0}, NEW a \in Nat, NEW b \in Nat, (a + 1) % m = (b + 1) % m
    PROVE  a % m = b % m
<1>1. /\ (a + 1) % m = IF a % m = m - 1 THEN 0 ELSE (a % m) + 1
      /\ (b + 1) % m = IF b % m = m - 1 THEN 0 ELSE (b % m) + 1
  BY NextRemainder
<1>2. a % m \in 0 .. m - 1 /\ b % m \in 0 .. m - 1
  BY RemainderIsLess
<1> QED
  BY <1>1, <1>2

LEMMA OneAfter ==
    ASSUME NEW m \in Nat \ {0}, NEW a \in Nat, NEW b \in Nat, a % m = b % m
    PROVE  (a + 1) % m = (b + 1) % m
<1>1. /\ (a + 1) % m = IF a % m = m - 1 THEN 0 ELSE (a % m) + 1
      /\ (b + 1) % m = IF b % m = m - 1 THEN 0 ELSE (b % m) + 1
  BY NextRemainder
<1> QED
  BY <1>1

LEMMA SmallRemainder ==
    ASSUME NEW m \in Nat \ {0}, NEW r \in 0 .. m - 1
    PROVE  r % m = r /\ (r + m) % m = r
<1>1. r = m * 0 + r /\ r + m = m * 1 + r
  OBVIOUS
<1> QED
  BY <1>1, RemainderIs

\* The counter's wrap-around is not noticed: its range is a multiple of the length.
LEMMA BumpRemainder ==
    ASSUME NEW c \in 0 .. CounterRange - 1, NEW m \in 1 .. N
    PROVE  Bump(c) % m = (c + 1) % m
<1>1. /\ CounterRange \in Nat \ {0} /\ CounterRange % m = 0 /\ m \in Nat \ {0}
      /\ 0 \in 0 .. CounterRange - 1 /\ 0 \in 0 .. m - 1
  <2>1. CounterRange \in Nat \ {0} /\ CounterRange % m = 0
    BY CounterAssumption
  <2>2. m \in Nat \ {0}
    BY ServersAssumption
  <2> QED
    BY <2>1, <2>2
<1>2. CASE c + 1 = CounterRange
  <2>1. 0 + CounterRange = c + 1
    BY <1>1, <1>2
  <2>2. Bump(c) = 0
    BY <1>1, <2>1, SmallRemainder DEF Bump
  <2> QED
    BY <1>1, <1>2, <2>2, SmallRemainder
<1>3. CASE c + 1 # CounterRange
  <2>1. c + 1 \in 0 .. CounterRange - 1
    BY <1>1, <1>3
  <2> QED
    BY <1>1, <2>1, SmallRemainder DEF Bump
<1> QED
  BY <1>2, <1>3

\* The servers on list S that a count of its own has come by in its last n steps, if
\* it now stands at c.
Asked(S, c, n) ==
    {y \in S : \E j \in 0 .. n - 1 : (Place(S, y) + j) % Cardinality(S) = c % Cardinality(S)}

LEMMA NextAsked ==
    ASSUME NEW S \in SUBSET Servers, NEW c \in 0 .. CounterRange - 1, NEW n \in Nat
    PROVE  Asked(S, Bump(c), n + 1) \subseteq Asked(S, c, n) \cup {Choice(S, Bump(c))}
<1> SUFFICES ASSUME NEW y \in Asked(S, Bump(c), n + 1), y # Choice(S, Bump(c))
             PROVE  y \in Asked(S, c, n)
  OBVIOUS
<1> DEFINE m == Cardinality(S)
           P == Place(S, y)
<1>1. PICK j \in 0 .. n : (P + j) % m = Bump(c) % m
  BY DEF Asked
<1>2. /\ y \in S /\ m \in 1 .. N /\ m \in Nat \ {0} /\ P \in 0 .. m - 1 /\ P \in Nat
      /\ c \in Nat /\ Bump(c) \in Nat /\ S # {}
  <2>1. y \in S
    BY DEF Asked
  <2>2. /\ P \in 0 .. m - 1 /\ m \in Nat \ {0} /\ m <= N /\ P \in Nat
    BY <2>1, PlaceIs
  <2>3. c \in Nat /\ Bump(c) \in Nat
    BY BumpIsACount, CounterAssumption
  <2> QED
    BY <2>1, <2>2, <2>3, ServersAssumption
<1>3. j # 0
  <2> SUFFICES ASSUME j = 0 PROVE FALSE
    OBVIOUS
  <2>1. P + j = P /\ P % m = P
    BY <1>2, SmallRemainder
  <2>2. Bump(c) % m = P
    BY <1>1, <2>1
  <2>3. Choice(S, Bump(c)) = Nth(S, P)
    BY <1>2, <2>2 DEF Choice
  <2>4. Nth(S, P) \in S /\ Place(S, Nth(S, P)) = P
    BY <1>2, NthIsThere
  <2> QED
    BY <1>2, <2>3, <2>4, OnePlace
<1> DEFINE i == j - 1
<1>4. i \in 0 .. n - 1 /\ P + j = (P + i) + 1 /\ P + i \in Nat
  BY <1>2, <1>3
<1>5. ((P + i) + 1) % m = (c + 1) % m
  BY <1>1, <1>2, <1>4, BumpRemainder
<1>6. (P + i) % m = c % m
  BY <1>2, <1>4, <1>5, OneBefore
<1> QED
  BY <1>2, <1>4, <1>6 DEF Asked

\* Nothing that the count has come by is forgotten with its next step.
LEMMA StillAsked ==
    ASSUME NEW S \in SUBSET Servers, NEW c \in 0 .. CounterRange - 1, NEW n \in Nat, S # {}
    PROVE  Asked(S, c, n) \cup {Choice(S, Bump(c))} \subseteq Asked(S, Bump(c), n + 1)
<1> DEFINE m == Cardinality(S)
           z == Choice(S, Bump(c))
<1>1. m \in Nat \ {0} /\ m \in 1 .. N /\ c \in Nat /\ Bump(c) \in Nat
  BY PlaceIs, BumpIsACount, CounterAssumption, ServersAssumption
<1>2. z \in Asked(S, Bump(c), n + 1)
  <2> DEFINE k == Bump(c) % m
  <2>1. k \in 0 .. m - 1
    BY <1>1, RemainderIsLess
  <2>2. z = Nth(S, k)
    BY DEF Choice
  <2>3. z \in S /\ Place(S, z) = k
    BY <2>1, <2>2, NthIsThere
  <2>4. (Place(S, z) + 0) % m = k
    BY <1>1, <2>1, <2>3, SmallRemainder
  <2>5. 0 \in 0 .. (n + 1) - 1
    OBVIOUS
  <2> HIDE DEF z
  <2> QED
    BY <2>3, <2>4, <2>5 DEF Asked
<1>3. ASSUME NEW y \in Asked(S, c, n) PROVE y \in Asked(S, Bump(c), n + 1)
  <2> DEFINE P == Place(S, y)
  <2>1. PICK j \in 0 .. n - 1 : (P + j) % m = c % m
    BY DEF Asked
  <2>2. y \in S /\ P \in Nat
    <3>1. y \in S
      BY DEF Asked
    <3> QED
      BY <3>1, PlaceIs
  <2>3. ((P + j) + 1) % m = (c + 1) % m
    BY <1>1, <2>1, <2>2, OneAfter
  <2>4. (P + (j + 1)) % m = Bump(c) % m
    <3>1. P + (j + 1) = (P + j) + 1
      BY <2>2
    <3> QED
      BY <1>1, <2>3, <3>1, BumpRemainder
  <2>5. j + 1 \in 0 .. (n + 1) - 1
    OBVIOUS
  <2> HIDE DEF P, m
  <2> QED
    BY <2>2, <2>4, <2>5 DEF Asked, P, m
<1> QED
  BY <1>2, <1>3

\* As many steps as a list has servers come by each of them.
LEMMA AllAsked ==
    ASSUME NEW S \in SUBSET Servers, NEW c \in Nat, NEW n \in Nat, n >= Cardinality(S)
    PROVE  S \subseteq Asked(S, c, n)
<1> SUFFICES ASSUME NEW y \in S PROVE y \in Asked(S, c, n)
  OBVIOUS
<1> DEFINE m == Cardinality(S)
           P == Place(S, y)
           r == c % m
<1>1. m \in Nat \ {0} /\ P \in 0 .. m - 1 /\ P \in Nat /\ n >= m
  BY PlaceIs
<1>2. r \in 0 .. m - 1
  BY <1>1, RemainderIsLess
<1> HIDE DEF m, P, r
<1>3. \E j \in 0 .. n - 1 : (P + j) % m = r
  <2>1. CASE P <= r
    <3>1. r - P \in 0 .. n - 1 /\ P + (r - P) = r
      BY <1>1, <1>2, <2>1
    <3>2. (P + (r - P)) % m = r
      BY <1>1, <1>2, <3>1, SmallRemainder
    <3> QED
      BY <3>1, <3>2
  <2>2. CASE r < P
    <3>1. r + m - P \in 0 .. n - 1 /\ P + (r + m - P) = r + m
      BY <1>1, <1>2, <2>2
    <3>2. (P + (r + m - P)) % m = r
      BY <1>1, <1>2, <3>1, SmallRemainder
    <3> QED
      BY <3>1, <3>2
  <2> QED
    BY <1>1, <1>2, <2>1, <2>2
<1> QED
  BY <1>3 DEF Asked, m, P, r

\* A count that comes back to a server has come by all of the list.
LEMMA AskedAgain ==
    ASSUME NEW S \in SUBSET Servers, NEW c \in 0 .. CounterRange - 1, NEW n \in Nat, S # {},
           Choice(S, Bump(c)) \in Asked(S, c, n)
    PROVE  S \subseteq Asked(S, c, n)
<1> DEFINE m == Cardinality(S)
           z == Choice(S, Bump(c))
           P == Place(S, z)
<1>1. m \in Nat \ {0} /\ m \in 1 .. N /\ c \in Nat /\ Bump(c) \in Nat
  BY PlaceIs, BumpIsACount, CounterAssumption, ServersAssumption
<1>2. P \in 0 .. m - 1 /\ P = Bump(c) % m
  <2>1. Bump(c) % m \in 0 .. m - 1
    BY <1>1, RemainderIsLess
  <2>2. z = Nth(S, Bump(c) % m)
    BY DEF Choice
  <2> QED
    BY <2>1, <2>2, NthIsThere
<1>3. PICK j \in 0 .. n - 1 : (P + j) % m = c % m
  BY DEF Asked
<1> HIDE DEF P, m, z
<1>4. (P + (j + 1)) % m = P
  <2>1. ((P + j) + 1) % m = (c + 1) % m
    BY <1>1, <1>2, <1>3, OneAfter
  <2>2. P + (j + 1) = (P + j) + 1
    BY <1>1, <1>2
  <2> QED
    BY <1>1, <1>2, <2>1, <2>2, BumpRemainder
<1>5. j + 1 >= m
  <2> SUFFICES ASSUME j + 1 < m PROVE FALSE
    BY <1>1
  <2>1. CASE P + (j + 1) < m
    <3>1. P + (j + 1) \in 0 .. m - 1
      BY <1>1, <1>2, <2>1
    <3>2. (P + (j + 1)) % m = P + (j + 1)
      BY <1>1, <3>1, SmallRemainder
    <3> QED
      BY <1>1, <1>2, <1>4, <3>2
  <2>2. CASE ~(P + (j + 1) < m)
    <3> DEFINE r == P + (j + 1) - m
    <3>1. r \in 0 .. m - 1 /\ r + m = P + (j + 1) /\ r # P
      BY <1>1, <1>2, <2>2
    <3> HIDE DEF r
    <3>2. (r + m) % m = r
      BY <1>1, <3>1, SmallRemainder
    <3> QED
      BY <1>4, <3>1, <3>2
  <2> QED
    BY <2>1, <2>2
<1>6. n >= Cardinality(S)
  BY <1>1, <1>5 DEF m
<1> QED
  BY <1>1, <1>6, AllAsked

-------------------------------------------------------------------------------
(* Whom a session has asked *)

Active(x) == x.pc \in {"scan", "pick", "reply"}

\* What a session knows of the servers, while connections are steady: those it has
\* excluded lack the block; it has asked as many as it has made attempts, or all
\* connected ones; with a counter of its own, just those its count has come by, and
\* one of them again only when there is no other.
Knows(x) ==
    /\ \A y \in x.lacking : holds[y] # "state"
    /\ Sees(x.kind) => x.excluded \subseteq x.lacking
    /\ Active(x) => x.outcome = "none"

Tried(x) ==
    /\ Knows(x)
    /\ x.steady /\ x.pc \in {"pick", "reply"} =>
          x.healthy = IF Sees(x.kind) THEN up \ x.excluded ELSE up
    /\ x.steady /\ Active(x) /\ Sees(x.kind) =>
          up \subseteq x.lacking \/ Cardinality(x.lacking) >= x.attempt
    /\ x.steady /\ x.pc \in {"scan", "pick"} /\ x.kind = "pinned" =>
          Asked(up, x.own, x.attempt) = x.lacking
    /\ x.steady /\ x.pc = "reply" /\ x.kind = "pinned" =>
          /\ up # {} => Asked(up, x.own, x.attempt + 1) = x.lacking \cup {x.asked}
          /\ up # {} /\ x.asked \in x.lacking => up \subseteq x.lacking
    /\ x.steady /\ x.outcome = "permanent" => \A srv \in up : holds[srv] # "state"
    /\ x.steady /\ x.outcome = "exhausted" /\ x.kind \in {"fallback", "pinned"} =>
          (RetryAttempts >= N => \A srv \in up : holds[srv] # "state")

AllTried == \A s \in Sessions : Tried(sess[s])

LEMMA OneTries ==
    ASSUME Inv, AllTried, NEW s \in Sessions, NEW x \in SessionType, Tried(x),
           sess' = [sess EXCEPT ![s] = x], UNCHANGED netVars
    PROVE  AllTried'
<1>1. ASSUME NEW t \in Sessions PROVE Tried(sess[t])'
  <2>1. Tried(sess'[t])
    BY TypeIs DEF Inv, AllTried
  <2>2. up' = up /\ holds' = holds
    BY DEF netVars
  <2> QED
    BY <2>1, <2>2 DEF Tried, Knows, Asked, Active
<1> QED
  BY <1>1 DEF AllTried

\* The loop goes on, or ends having asked all that are connected.
LEMMA AgainTries ==
    ASSUME Inv, NEW s \in Sessions, NEW rest \in SessionType,
           rest.kind = sess[s].kind, rest.attempt = sess[s].attempt,
           rest.outcome = "none", Knows(rest),
           rest.steady /\ Sees(rest.kind) =>
              up \subseteq rest.lacking \/ Cardinality(rest.lacking) >= rest.attempt + 1,
           rest.steady /\ rest.kind = "pinned" =>
              Asked(up, rest.own, rest.attempt + 1) = rest.lacking
    PROVE  Tried(Again(s, rest))
<1>1. CASE sess[s].attempt + 1 < RetryAttempts
  <2> DEFINE x == [rest EXCEPT !.attempt = @ + 1, !.pc = "scan"]
  <2>1. /\ x.kind = rest.kind /\ x.attempt = rest.attempt + 1 /\ x.pc = "scan"
        /\ x.lacking = rest.lacking /\ x.excluded = rest.excluded /\ x.own = rest.own
        /\ x.steady = rest.steady /\ x.outcome = "none"
    BY DEF SessionType
  <2>2. Again(s, rest) = x
    BY <1>1 DEF Again
  <2> HIDE DEF x
  <2> QED
    BY <2>1, <2>2 DEF Tried, Knows, Active
<1>2. CASE ~ (sess[s].attempt + 1 < RetryAttempts)
  <2> DEFINE x == [Ended(s, "exhausted") EXCEPT !.steady = rest.steady]
  <2>1. Again(s, rest) = x
    BY <1>2 DEF Again
  <2>2. /\ x.kind = rest.kind /\ x.pc = "done" /\ x.lacking = {} /\ x.excluded = {}
        /\ x.steady = rest.steady /\ x.outcome = "exhausted"
    BY DEF Ended, Fresh
  <2>3. ASSUME rest.steady, rest.kind \in {"fallback", "pinned"}, RetryAttempts >= N,
               NEW srv \in up
        PROVE  holds[srv] # "state"
    <3>1. /\ up \in SUBSET Servers /\ rest.lacking \in SUBSET Servers
          /\ rest.attempt + 1 \in Nat /\ rest.attempt + 1 >= N
          /\ rest.own \in Nat
      BY <1>2, <2>3, RetryAttemptsAssumption, ServersAssumption, CounterAssumption
         DEF SessionType, Inv, TypeOK
    <3>2. srv \in rest.lacking
      <4>1. CASE rest.kind = "pinned"
        <5>1. Cardinality(up) <= N /\ Cardinality(up) \in Nat
          BY <3>1, ServersAreFinite, FS_Subset, FS_CardinalityType
        <5>2. rest.attempt + 1 >= Cardinality(up)
          BY <3>1, <5>1, ServersAssumption
        <5> QED
          BY <2>3, <3>1, <4>1, <5>2, AllAsked
      <4>2. CASE rest.kind = "fallback" /\ ~ (up \subseteq rest.lacking)
        <5>1. Cardinality(rest.lacking) >= rest.attempt + 1
          BY <2>3, <4>2 DEF Sees
        <5>2. IsFiniteSet(rest.lacking) /\ Cardinality(rest.lacking) <= N
              /\ Cardinality(rest.lacking) \in Nat
          BY <3>1, ServersAreFinite, FS_Subset, FS_CardinalityType
        <5>3. Cardinality(rest.lacking) = Cardinality(Servers)
          BY <3>1, <5>1, <5>2, ServersAreFinite, ServersAssumption
        <5>4. rest.lacking = Servers
          BY <3>1, <5>3, ServersAreFinite, FS_Subset
        <5> QED
          BY <3>1, <5>4
      <4> QED
        BY <2>3, <4>1, <4>2
    <3> QED
      BY <3>2 DEF Knows
  <2> HIDE DEF x
  <2> QED
    BY <2>1, <2>2, <2>3 DEF Tried, Knows, Active
<1> QED
  BY <1>1, <1>2

LEMMA FlapTries == ASSUME Inv, AllTried, NEW srv \in Servers, Flap(srv) PROVE AllTried'
<1>1. ASSUME NEW s \in Sessions PROVE Tried(sess[s])'
  <2>1. /\ sess'[s] = [sess[s] EXCEPT !.steady = FALSE] /\ holds' = holds
        /\ sess[s] \in SessionType /\ Knows(sess[s])
    BY TypeIs DEF Flap, Inv, AllTried, Tried
  <2>2. /\ ~ sess'[s].steady /\ sess'[s].lacking = sess[s].lacking
        /\ sess'[s].kind = sess[s].kind /\ sess'[s].excluded = sess[s].excluded
        /\ sess'[s].pc = sess[s].pc /\ sess'[s].outcome = sess[s].outcome
    BY <2>1 DEF SessionType
  <2> QED
    BY <2>1, <2>2 DEF Tried, Knows, Active
<1> QED
  BY <1>1 DEF AllTried

LEMMA BeginTries == ASSUME Inv, AllTried, NEW s \in Sessions, Begin(s) PROVE AllTried'
<1>1. PICK k \in Kinds :
        sess' = [sess EXCEPT ![s] = [Fresh EXCEPT !.kind = k, !.pc = "scan",
                                                  !.own = IF k = "pinned" THEN counter ELSE 0]]
  BY DEF Begin
<1> DEFINE x == [Fresh EXCEPT !.kind = k, !.pc = "scan",
                              !.own = IF k = "pinned" THEN counter ELSE 0]
<1>2. /\ x.pc = "scan" /\ x.lacking = {} /\ x.excluded = {} /\ x.attempt = 0
      /\ x.outcome = "none"
  BY DEF Fresh
<1>3. x \in SessionType
  <2>1. /\ k \in AllKinds /\ counter \in 0 .. CounterRange - 1 /\ 0 \in 0 .. CounterRange - 1
    BY KindsAssumption, CounterAssumption DEF Inv, TypeOK
  <2> QED
    BY <2>1, FreshIsGood DEF SessionType, Fresh
<1> HIDE DEF x
<1>4. Asked(up, x.own, x.attempt) = {}
  BY <1>2 DEF Asked
<1>5. Cardinality(x.lacking) >= x.attempt
  BY <1>2, FS_EmptySet
<1>6. Tried(x)
  BY <1>2, <1>4, <1>5 DEF Tried, Knows, Active
<1> QED
  BY <1>1, <1>3, <1>6, OneTries DEF x, Begin

LEMMA ScanTries == ASSUME Inv, AllTried, NEW s \in Sessions, Scan(s) PROVE AllTried'
<1> DEFINE x == [sess[s] EXCEPT !.pc = "pick", !.healthy = Healthy(s)]
<1>1. /\ sess[s] \in SessionType /\ Tried(sess[s]) /\ sess \in [Sessions -> SessionType]
      /\ sess[s].pc = "scan" /\ up \subseteq Servers
  BY TypeIs DEF Inv, AllTried, Scan
<1>2. sess' = [sess EXCEPT ![s] = x]
  BY <1>1 DEF Scan
<1>3. /\ x.pc = "pick" /\ x.healthy = Healthy(s) /\ x.lacking = sess[s].lacking
      /\ x.kind = sess[s].kind /\ x.excluded = sess[s].excluded /\ x.own = sess[s].own
      /\ x.attempt = sess[s].attempt /\ x.steady = sess[s].steady
      /\ x.outcome = sess[s].outcome /\ x \in SessionType
  BY <1>1 DEF SessionType, Healthy
<1> HIDE DEF x
<1>4. Tried(x)
  BY <1>1, <1>3 DEF Tried, Knows, Active, Healthy
<1> QED
  BY <1>2, <1>3, <1>4, OneTries DEF Scan

LEMMA PickTries == ASSUME Inv, AllTried, NEW s \in Sessions, Pick(s) PROVE AllTried'
<1> DEFINE pinned == sess[s].kind = "pinned"
           c == Bump(IF pinned THEN sess[s].own ELSE counter)
           srv == Choice(sess[s].healthy, c)
           x == [sess[s] EXCEPT !.pc = "reply", !.asked = srv, !.lastUsed = LastUsed(s, srv),
                                !.own = OwnCounter(s, c)]
<1>1. /\ sess[s] \in SessionType /\ Tried(sess[s]) /\ sess \in [Sessions -> SessionType]
      /\ counter \in 0 .. CounterRange - 1 /\ sess[s].pc = "pick" /\ up \subseteq Servers
  BY TypeIs DEF Inv, AllTried, Pick
<1>2. c \in 0 .. CounterRange - 1 /\ c \in Nat
  <2>1. (IF pinned THEN sess[s].own ELSE counter) \in 0 .. CounterRange - 1
    BY <1>1 DEF SessionType
  <2> QED
    BY <2>1, BumpIsACount
<1>3. sess' = [sess EXCEPT ![s] = x]
  BY <1>1 DEF Pick
<1>4. srv \in Servers
  BY <1>1, <1>2, ChoiceIsHealthy DEF SessionType
<1>5. LastUsed(s, srv) \in Servers /\ OwnCounter(s, c) \in 0 .. CounterRange - 1
  BY <1>1, <1>2, <1>4 DEF LastUsed, OwnCounter, SessionType
<1>6. ASSUME sess[s].steady, pinned
      PROVE  /\ up # {} => Asked(up, c, sess[s].attempt + 1) = sess[s].lacking \cup {srv}
             /\ up # {} /\ srv \in sess[s].lacking => up \subseteq sess[s].lacking
  <2>1. /\ sess[s].healthy = up /\ Asked(up, sess[s].own, sess[s].attempt) = sess[s].lacking
    BY <1>1, <1>6 DEF Tried, Sees
  <2>2. /\ sess[s].own \in 0 .. CounterRange - 1 /\ sess[s].attempt \in Nat
        /\ c = Bump(sess[s].own)
    BY <1>1, <1>6, RetryAttemptsAssumption DEF SessionType
  <2> DEFINE own == sess[s].own
             n == sess[s].attempt
             known == sess[s].lacking
  <2> HIDE DEF c, srv
  <2>3. SUFFICES ASSUME up # {}
                 PROVE  /\ Asked(up, c, n + 1) = known \cup {srv}
                        /\ srv \in known => up \subseteq known
    OBVIOUS
  <2>4. srv = Choice(up, Bump(own)) /\ c = Bump(own)
    BY <2>1, <2>2 DEF srv
  <2>5. up \in SUBSET Servers /\ own \in 0 .. CounterRange - 1 /\ n \in Nat
        /\ Asked(up, own, n) = known
    BY <1>1, <2>1, <2>2
  <2> HIDE DEF own, n, known
  <2>6. Asked(up, c, n + 1) \subseteq known \cup {srv}
    BY <2>4, <2>5, NextAsked
  <2>7. known \cup {srv} \subseteq Asked(up, c, n + 1)
    BY <2>3, <2>4, <2>5, StillAsked
  <2>8. srv \in known => up \subseteq known
    BY <2>3, <2>4, <2>5, AskedAgain
  <2> QED
    BY <2>6, <2>7, <2>8
<1> HIDE DEF c, srv
<1>7. /\ x.pc = "reply" /\ x.healthy = sess[s].healthy /\ x.lacking = sess[s].lacking
      /\ x.kind = sess[s].kind /\ x.excluded = sess[s].excluded /\ x.asked = srv
      /\ x.attempt = sess[s].attempt /\ x.steady = sess[s].steady
      /\ x.outcome = sess[s].outcome /\ x \in SessionType /\ x.own = OwnCounter(s, c)
  BY <1>1, <1>4, <1>5 DEF SessionType
<1> HIDE DEF x
<1>8. pinned => x.own = c
  BY <1>7 DEF OwnCounter
<1>9. Tried(x)
  BY <1>1, <1>6, <1>7, <1>8 DEF Tried, Knows, Active
<1> QED
  BY <1>3, <1>7, <1>9, OneTries DEF Pick

LEMMA LacksBlockTries ==
    ASSUME Inv, AllTried, NEW s \in Sessions, LacksBlock(s) PROVE AllTried'
<1> DEFINE old == sess[s]
           rest == [sess[s] EXCEPT !.excluded = @ \cup {sess[s].lastUsed},
                                   !.lacking = @ \cup {sess[s].asked}]
<1>1. /\ old \in SessionType /\ Good(old) /\ Tried(old) /\ old.pc = "reply"
      /\ holds[old.asked] # "state" /\ old.asked \in Servers /\ up \subseteq Servers
      /\ old.asked \in up
      /\ sess' = [sess EXCEPT ![s] = Again(s, rest)]
  BY TypeIs DEF Inv, AllTried, LacksBlock, IsStateGCError, Good
<1>2. /\ rest \in SessionType /\ rest.attempt = old.attempt /\ rest.kind = old.kind
      /\ rest.lacking = old.lacking \cup {old.asked} /\ rest.own = old.own
      /\ rest.excluded = old.excluded \cup {old.lastUsed}
      /\ rest.steady = old.steady /\ rest.outcome = "none" /\ rest.pc = "reply"
  BY <1>1 DEF SessionType, Tried, Knows, Active
<1> HIDE DEF rest
<1>3. Knows(rest)
  BY <1>1, <1>2 DEF Tried, Knows, Good
<1>4. ASSUME rest.steady, Sees(rest.kind)
      PROVE  up \subseteq rest.lacking \/ Cardinality(rest.lacking) >= rest.attempt + 1
  <2>1. /\ old.healthy = up \ old.excluded /\ old.excluded = old.lacking
        /\ old.healthy # {} => old.asked \in old.healthy
        /\ up \subseteq old.lacking \/ Cardinality(old.lacking) >= old.attempt
    BY <1>1, <1>2, <1>4 DEF Tried, Knows, Good, Active
  <2>2. CASE up \subseteq old.lacking
    BY <1>2, <2>2
  <2>3. CASE ~ (up \subseteq old.lacking)
    <3>1. old.asked \notin old.lacking /\ Cardinality(old.lacking) >= old.attempt
      BY <2>1, <2>3
    <3>2. IsFiniteSet(old.lacking) /\ Cardinality(old.lacking) \in Nat
      BY <1>1, ServersAreFinite, FS_Subset, FS_CardinalityType DEF SessionType
    <3>3. Cardinality(rest.lacking) = Cardinality(old.lacking) + 1
      BY <1>2, <3>1, <3>2, FS_AddElement
    <3>4. old.attempt \in Nat
      BY <1>1, RetryAttemptsAssumption DEF SessionType
    <3> QED
      BY <1>2, <3>1, <3>2, <3>3, <3>4
  <2> QED
    BY <2>2, <2>3
<1>5. ASSUME rest.steady, rest.kind = "pinned"
      PROVE  Asked(up, rest.own, rest.attempt + 1) = rest.lacking
  BY <1>1, <1>2, <1>5 DEF Tried
<1>6. Tried(Again(s, rest))
  BY <1>2, <1>3, <1>4, <1>5, AgainTries
<1>7. Again(s, rest) \in SessionType
  <2>1. Sees(rest.kind) => rest.lacking \subseteq rest.excluded
    BY <1>1, <1>2 DEF Good
  <2> QED
    BY <1>2, <2>1, AgainIsGood
<1> QED
  BY <1>1, <1>6, <1>7, OneTries DEF LacksBlock

LEMMA ReplyTries == ASSUME Inv, AllTried, NEW s \in Sessions, Reply(s) PROVE AllTried'
<1>1. sess[s] \in SessionType /\ Good(sess[s]) /\ Tried(sess[s]) /\ sess[s].pc = "reply"
  BY TypeIs DEF Inv, AllTried, Reply, Succeeds, NoConnection, LacksBlock, OtherError
<1>2. ASSUME NEW how \in {"ok", "permanent"},
             how = "permanent" /\ sess[s].steady => \A srv \in up : holds[srv] # "state"
      PROVE  Tried(Ended(s, how))
  <2> DEFINE x == Ended(s, how)
  <2>1. /\ x.pc = "done" /\ x.lacking = {} /\ x.excluded = {} /\ x.outcome = how
        /\ x.steady = sess[s].steady
    BY DEF Ended, Fresh
  <2> HIDE DEF x
  <2>2. Tried(x)
    BY <1>2, <2>1 DEF Tried, Knows, Active
  <2> QED
    BY <2>2 DEF x
<1>3. CASE Succeeds(s)
  BY <1>2, <1>3, EndedIsGood, OneTries DEF Succeeds
<1>4. CASE NoConnection(s)
  <2>1. ASSUME sess[s].steady, NEW srv \in up PROVE holds[srv] # "state"
    <3>1. sess[s].healthy = {}
      BY <1>1, <1>4, <2>1 DEF NoConnection, Good, Tried
    <3> QED
      BY <1>1, <2>1, <3>1 DEF Tried, Knows
  <2> QED
    BY <1>2, <1>4, <2>1, EndedIsGood, OneTries DEF NoConnection
<1>5. CASE OtherError(s)
  <2> DEFINE rest == [sess[s] EXCEPT !.steady = FALSE]
  <2>1. /\ rest \in SessionType /\ rest.attempt = sess[s].attempt
        /\ rest.kind = sess[s].kind /\ rest.lacking = sess[s].lacking
        /\ rest.excluded = sess[s].excluded /\ ~ rest.steady /\ rest.outcome = "none"
    BY <1>1 DEF SessionType, Tried, Knows, Active
  <2>2. sess' = [sess EXCEPT ![s] = Again(s, rest)]
    BY <1>5 DEF OtherError
  <2> HIDE DEF rest
  <2>3. Knows(rest) /\ (Sees(rest.kind) => rest.lacking \subseteq rest.excluded)
    BY <1>1, <2>1 DEF Tried, Knows, Good
  <2>4. Tried(Again(s, rest)) /\ Again(s, rest) \in SessionType
    BY <2>1, <2>3, AgainTries, AgainIsGood
  <2> QED
    BY <1>5, <2>2, <2>4, OneTries DEF OtherError
<1> QED
  BY <1>3, <1>4, <1>5, LacksBlockTries DEF Reply

LEMMA NextTries == ASSUME Inv, AllTried, [Next]_vars PROVE AllTried'
<1>1. ASSUME NEW srv \in Servers, Flap(srv) PROVE AllTried'
  BY <1>1, FlapTries
<1>2. ASSUME NEW s \in Sessions, Begin(s) \/ Step(s) PROVE AllTried'
  BY <1>2, BeginTries, ScanTries, PickTries, ReplyTries DEF Step
<1>3. CASE UNCHANGED vars
  BY <1>3 DEF vars, netVars, AllTried, Tried, Knows
<1> QED
  BY <1>1, <1>2, <1>3 DEF Next

LEMMA InitTries == Init => AllTried
<1> SUFFICES ASSUME Init, NEW s \in Sessions PROVE Tried(sess[s])
  BY DEF AllTried
<1>1. sess[s] = Fresh
  BY DEF Init
<1>2. Fresh.pc = "idle" /\ Fresh.lacking = {} /\ Fresh.excluded = {} /\ Fresh.outcome = "none"
  BY DEF Fresh
<1> QED
  BY <1>1, <1>2 DEF Tried, Knows, Active

\* What sessions know and whom they have asked, of every reachable state.
LEMMA TriedInvariance == Spec => [](Inv /\ AllTried)
<1>1. Init => Inv /\ AllTried
  BY InitEstablishes, InitTries
<1>2. Inv /\ AllTried /\ [Next]_vars => (Inv /\ AllTried)'
  BY NextPreserves, NextTries
<1> QED
  BY <1>1, <1>2, PTL DEF Spec

\* For any number of servers and sessions: where the request sees the exclusion it
\* works, whatever the connections do, and the count of a pinned client goes round
\* all connected servers before it comes back to one.
THEOREM NeverAskedTwiceThm == Spec => []NeverAskedTwice
<1>1. Inv /\ AllTried => NeverAskedTwice
  <2> SUFFICES ASSUME Inv, AllTried, NEW s \in Sessions, sess[s].pc = "reply",
                      sess[s].asked \in sess[s].lacking
               PROVE  /\ Sees(sess[s].kind) => sess[s].healthy = {}
                      /\ sess[s].kind = "pinned" /\ sess[s].steady =>
                            sess[s].healthy \subseteq sess[s].lacking
    BY DEF NeverAskedTwice
  <2>1. Good(sess[s]) /\ Tried(sess[s])
    BY DEF Inv, AllTried
  <2> QED
    BY <2>1 DEF Good, Tried, Sees
<1> QED
  BY <1>1, TriedInvariance, PTL

\* For any number of servers: with steady connections no session takes a failure for
\* permanent while a server that has the block is connected, and with as many attempts
\* as servers a pinned client's own counter or the exclusion brings a session to it.
THEOREM ArchiveReachedThm == Spec => []ArchiveReached
<1>1. AllTried => ArchiveReached
  BY DEF AllTried, Tried, ArchiveReached
<1> QED
  BY <1>1, TriedInvariance, PTL

-------------------------------------------------------------------------------
(* The end of a session *)

Running(x) == x.pc \notin {"idle", "done"}

\* How many steps a session can still make: three for every attempt.
StepsLeft(x) == CASE x.pc = "scan"  -> 3 * (RetryAttempts - x.attempt)
                  [] x.pc = "pick"  -> 3 * (RetryAttempts - x.attempt) - 1
                  [] x.pc = "reply" -> 3 * (RetryAttempts - x.attempt) - 2
                  [] OTHER          -> 0

LEMMA StepsLeftAre ==
    ASSUME NEW x \in SessionType
    PROVE  /\ StepsLeft(x) \in 0 .. 3 * RetryAttempts
           /\ x.attempt \in 0 .. RetryAttempts - 1
           /\ Running(x) => StepsLeft(x) > 0
<1>1. /\ x.pc \in {"idle", "scan", "pick", "reply", "done"}
      /\ x.attempt \in 0 .. RetryAttempts - 1 /\ RetryAttempts \in Nat
  BY RetryAttemptsAssumption DEF SessionType
<1> QED
  BY <1>1 DEF StepsLeft, Running

\* Every step of a session brings its end nearer.
LEMMA StepTakesOne ==
    ASSUME Inv, NEW s \in Sessions, Step(s)
    PROVE  StepsLeft(sess'[s]) < StepsLeft(sess[s])
<1>1. /\ sess[s] \in SessionType /\ sess \in [Sessions -> SessionType]
      /\ sess[s].attempt \in 0 .. RetryAttempts - 1 /\ RetryAttempts \in Nat
  BY TypeIs, StepsLeftAre, RetryAttemptsAssumption DEF Inv
<1>2. CASE Scan(s)
  <2>1. sess[s].pc = "scan" /\ sess'[s].pc = "pick" /\ sess'[s].attempt = sess[s].attempt
    BY <1>1, <1>2 DEF Scan, SessionType
  <2> QED
    BY <1>1, <2>1 DEF StepsLeft
<1>3. CASE Pick(s)
  <2>1. sess[s].pc = "pick" /\ sess'[s].pc = "reply" /\ sess'[s].attempt = sess[s].attempt
    BY <1>1, <1>3 DEF Pick, SessionType
  <2> QED
    BY <1>1, <2>1 DEF StepsLeft
<1>4. CASE Succeeds(s) \/ NoConnection(s)
  <2>1. sess[s].pc = "reply" /\ sess'[s].pc = "done"
    BY <1>1, <1>4 DEF Succeeds, NoConnection, Ended, Fresh
  <2> QED
    BY <1>1, <2>1 DEF StepsLeft
<1>5. CASE LacksBlock(s) \/ OtherError(s)
  <2>1. PICK rest \in SessionType : /\ sess' = [sess EXCEPT ![s] = Again(s, rest)]
                                    /\ rest.attempt = sess[s].attempt
    <3>1. CASE LacksBlock(s)
      <4> DEFINE rest == [sess[s] EXCEPT !.excluded = @ \cup {sess[s].lastUsed},
                                         !.lacking = @ \cup {sess[s].asked}]
      <4>1. sess[s].asked \in Servers
        BY <3>1, <1>1 DEF LacksBlock, Inv, Good
      <4>2. rest \in SessionType /\ rest.attempt = sess[s].attempt
        BY <1>1, <4>1 DEF SessionType
      <4> QED
        BY <3>1, <4>2 DEF LacksBlock
    <3>2. CASE OtherError(s)
      <4> DEFINE rest == [sess[s] EXCEPT !.steady = FALSE]
      <4>1. rest \in SessionType /\ rest.attempt = sess[s].attempt
        BY <1>1 DEF SessionType
      <4>2. sess' = [sess EXCEPT ![s] = Again(s, rest)]
        BY <3>2, Zenon DEF OtherError
      <4> HIDE DEF rest
      <4> QED
        BY <4>1, <4>2
    <3> QED
      BY <1>5, <3>1, <3>2, Zenon
  <2>2. sess[s].pc = "reply" /\ sess'[s] = Again(s, rest)
    BY <1>1, <1>5, <2>1 DEF LacksBlock, OtherError
  <2>3. CASE sess[s].attempt + 1 < RetryAttempts
    <3>0. sess'[s] = [rest EXCEPT !.attempt = @ + 1, !.pc = "scan"]
      BY <2>1, <2>2, <2>3, Zenon DEF Again
    <3>1. sess'[s].pc = "scan" /\ sess'[s].attempt = sess[s].attempt + 1
      BY <2>1, <3>0 DEF SessionType
    <3> QED
      BY <1>1, <2>2, <2>3, <3>1 DEF StepsLeft
  <2>4. CASE ~(sess[s].attempt + 1 < RetryAttempts)
    <3>1. sess'[s].pc = "done"
      BY <2>2, <2>4 DEF Again, Ended, Fresh
    <3> QED
      BY <1>1, <2>2, <3>1 DEF StepsLeft
  <2> QED
    BY <2>3, <2>4
<1> QED
  BY <1>2, <1>3, <1>4, <1>5 DEF Step, Reply

\* No step of another session, nor a connection, puts the end off.
LEMMA OthersTakeNone ==
    ASSUME Inv, Next, NEW s \in Sessions, Running(sess[s]), ~Step(s)
    PROVE  StepsLeft(sess'[s]) = StepsLeft(sess[s])
<1>1. sess[s] \in SessionType /\ sess \in [Sessions -> SessionType]
  BY TypeIs DEF Inv
<1>2. CASE \E srv \in Servers : Flap(srv)
  <2>1. sess'[s] = [sess[s] EXCEPT !.steady = FALSE]
    BY <1>2 DEF Flap
  <2>2. sess'[s].pc = sess[s].pc /\ sess'[s].attempt = sess[s].attempt
    BY <1>1, <2>1 DEF SessionType
  <2> QED
    BY <2>2 DEF StepsLeft
<1>3. ASSUME NEW t \in Sessions, Begin(t) \/ Step(t) PROVE StepsLeft(sess'[s]) = StepsLeft(sess[s])
  <2>1. t # s
    BY <1>3 DEF Begin, Running
  <2>2. CASE Begin(t)
    BY <1>1, <2>1, <2>2 DEF Begin
  <2>3. CASE Scan(t)
    BY <1>1, <2>1, <2>3 DEF Scan
  <2>4. CASE Pick(t)
    BY <1>1, <2>1, <2>4 DEF Pick
  <2>5. CASE Reply(t)
    BY <1>1, <2>1, <2>5 DEF Reply, Succeeds, NoConnection, LacksBlock, OtherError
  <2> QED
    BY <1>3, <2>2, <2>3, <2>4, <2>5 DEF Step
<1> QED
  BY <1>2, <1>3 DEF Next

\* The safety half of Ends: whatever the answers, the connections and the other
\* sessions do, a session that runs has at most three steps for each of its
\* retryAttempts left, each of its steps leaves fewer, and nobody else adds any.
SessionsRunOut ==
    /\ [](\A s \in Sessions : StepsLeft(sess[s]) \in 0 .. 3 * RetryAttempts)
    /\ [][\A s \in Sessions : Running(sess[s]) =>
             IF Step(s) THEN StepsLeft(sess'[s]) < StepsLeft(sess[s])
             ELSE StepsLeft(sess'[s]) = StepsLeft(sess[s])]_vars

THEOREM SessionsRunOutThm == Spec => SessionsRunOut
<1>1. Inv => \A s \in Sessions : StepsLeft(sess[s]) \in 0 .. 3 * RetryAttempts
  BY StepsLeftAre, TypeIs DEF Inv
<1>2. Inv /\ [Next]_vars =>
        [\A s \in Sessions : Running(sess[s]) =>
             IF Step(s) THEN StepsLeft(sess'[s]) < StepsLeft(sess[s])
             ELSE StepsLeft(sess'[s]) = StepsLeft(sess[s])]_vars
  BY StepTakesOne, OthersTakeNone
<1> QED
  BY <1>1, <1>2, Invariance, PTL DEF Spec, SessionsRunOut

-------------------------------------------------------------------------------
(* The invariant *)

Steps == {"idle", "read", "lock", "recheck", "config", "connect", "got", "serving"}
Refreshing == {"recheck", "config", "connect"}

\* The client in use has liteservers, and so have those given out and the one the
\* loaders were made with, once they are made.
UsableInv ==
    /\ client.config \in Configs
    /\ loaders = NoClient \/ loaders.config \in Configs
    /\ \A r \in Requests : /\ pc[r] \in {"got", "serving"} => mine[r].config \in Configs
                           /\ pc[r] = "serving" => loaders # NoClient

\* Who refreshes holds the lock, so there is one of them at most.
LockInv == \A r \in Requests : pc[r] \in Refreshing => writer = r

\* The configuration is older than the client, as after a refresh, or it was
\* fetched for one that then failed, and after the client had expired.
AgeInv == fetchedAt <= clientInitAt \/ fetchedAt - clientInitAt >= TTL

\* What the refresh has found out stays so until it is over.
RefreshInv ==
    \A r \in Requests : /\ pc[r] = "config" => Expired(clientInitAt)
                        /\ pc[r] = "connect" => fetchedAt - clientInitAt >= TTL

ServiceInv == ServiceTypeOK /\ UsableInv /\ LockInv /\ AgeInv /\ RefreshInv

LEMMA NoClientIsAClient == /\ NoClient \in Clients
                           /\ NoClient.config \notin Configs
  BY SourceAssumption, TTLAssumption DEF NoClient, Client, Clients

LEMMA BuiltIsAClient ==
    ASSUME NEW c \in Configs \cup {Empty}, NEW t \in 0 .. MaxTime
    PROVE  Client(c, t) \in Clients /\ Client(c, t).config = c
  BY TTLAssumption DEF Client, Clients

\* What has expired stays expired.
LEMMA Later ==
    \A now, later, since, ttl \in Int :
        later >= now /\ now - since >= ttl => later - since >= ttl
  OBVIOUS

-------------------------------------------------------------------------------
LEMMA ServiceInitEstablishes == ServiceInit => ServiceInv
<1> SUFFICES ASSUME ServiceInit PROVE ServiceInv
  OBVIOUS
<1>1. source \in Configs /\ 0 \in 0 .. MaxTime
  BY TTLAssumption DEF ServiceInit
<1>2. ServiceTypeOK
  BY <1>1, NoClientIsAClient, BuiltIsAClient, TTLAssumption DEF ServiceInit, ServiceTypeOK, Sources
<1>3. UsableInv
  BY <1>1, BuiltIsAClient DEF ServiceInit, UsableInv
<1>4. LockInv /\ AgeInv /\ RefreshInv
  BY TTLAssumption DEF ServiceInit, LockInv, AgeInv, RefreshInv, Refreshing
<1> QED
  BY <1>2, <1>3, <1>4 DEF ServiceInv

\* The clock and the source move on.
LEMMA OutsideKeeps == ASSUME ServiceInv, Tick \/ Republish PROVE ServiceInv'
<1>1. /\ UNCHANGED <<conf, fetchedAt, client, clientInitAt, writer, loaders, pc, mine>>
      /\ clock' \in 0 .. MaxTime /\ clock' >= clock /\ source' \in Sources
      /\ clock \in 0 .. MaxTime /\ fetchedAt \in 0 .. clock /\ clientInitAt \in 0 .. clock
  BY TTLAssumption DEF Tick, Republish, configVars, clientVars, ServiceInv, ServiceTypeOK
<1>2. ServiceTypeOK'
  BY <1>1, TTLAssumption DEF ServiceInv, ServiceTypeOK
<1>3. UsableInv' /\ LockInv' /\ AgeInv'
  BY <1>1 DEF ServiceInv, UsableInv, LockInv, AgeInv
<1>4. RefreshInv'
  <2>1. clock \in Int /\ clock' \in Int /\ clientInitAt \in Int /\ TTL \in Int
    BY <1>1, TTLAssumption
  <2>2. clock' >= clock /\ clientInitAt' = clientInitAt /\ pc' = pc /\ fetchedAt' = fetchedAt
    BY <1>1
  <2>3. clock - clientInitAt >= TTL => clock' - clientInitAt >= TTL
    BY <2>1, <2>2, Later
  <2> QED
    BY <2>2, <2>3 DEF ServiceInv, RefreshInv, Expired
<1> QED
  BY <1>2, <1>3, <1>4 DEF ServiceInv

\* A request moves, without the lock and without a refresh.
LEMMA RequestKeeps ==
    ASSUME ServiceInv, NEW r \in Requests,
           Arrive(r) \/ ReadClient(r) \/ WithLoaders(r) \/ Finish(r)
    PROVE  ServiceInv'
<1>1. /\ UNCHANGED <<clock, source, conf, fetchedAt, client, clientInitAt, writer>>
      /\ pc' \in [Requests -> Steps] /\ pc'[r] \notin Refreshing
      /\ \A q \in Requests \ {r} : pc'[q] = pc[q] /\ mine'[q] = mine[q]
      /\ mine' \in [Requests -> Clients] /\ loaders' \in Clients
  BY NoClientIsAClient
  DEF Arrive, ReadClient, WithLoaders, Finish, Goto, Bind, configVars, clientVars, ServiceInv,
      ServiceTypeOK, Steps, Refreshing
<1>2. ServiceTypeOK'
  BY <1>1 DEF ServiceInv, ServiceTypeOK, Steps
<1>3. UsableInv'
  <2>1. client'.config \in Configs
    BY <1>1 DEF ServiceInv, UsableInv
  <2>2. CASE WithLoaders(r)
    <3>1. mine[r].config \in Configs /\ mine[r] # NoClient /\ mine' = mine
      BY <2>2, NoClientIsAClient DEF WithLoaders, ServiceInv, UsableInv
    <3>2. loaders' # NoClient /\ loaders'.config \in Configs
      BY <2>2, <3>1 DEF WithLoaders, Bind, ServiceInv, UsableInv
    <3> QED
      BY <1>1, <2>1, <3>1, <3>2 DEF ServiceInv, UsableInv
  <2>3. CASE Arrive(r) \/ ReadClient(r) \/ Finish(r)
    <3>1. loaders' = loaders /\ pc'[r] # "serving"
      BY <2>3 DEF Arrive, ReadClient, Finish, Goto, ServiceInv, ServiceTypeOK
    <3>2. pc'[r] = "got" => mine'[r].config \in Configs
      BY <2>3 DEF Arrive, ReadClient, Finish, Goto, ServiceInv, ServiceTypeOK, UsableInv
    <3> QED
      BY <1>1, <2>1, <3>1, <3>2 DEF ServiceInv, UsableInv
  <2> QED
    BY <2>2, <2>3
<1>4. LockInv' /\ AgeInv'
  BY <1>1 DEF ServiceInv, LockInv, AgeInv
<1>5. RefreshInv'
  BY <1>1 DEF ServiceInv, RefreshInv, Expired, Refreshing
<1> QED
  BY <1>2, <1>3, <1>4, <1>5 DEF ServiceInv

LEMMA LockKeeps == ASSUME ServiceInv, NEW r \in Requests, Lock(r) PROVE ServiceInv'
<1>1. /\ UNCHANGED <<clock, source, conf, fetchedAt, client, clientInitAt, loaders, mine>>
      /\ writer = NoOne /\ writer' = r
      /\ pc' = [pc EXCEPT ![r] = "recheck"] /\ pc \in [Requests -> Steps]
  BY DEF Lock, Goto, configVars, clientVars, ServiceInv, ServiceTypeOK, Steps
<1>2. \A q \in Requests : pc[q] \notin Refreshing
  BY <1>1, RequestsAssumption DEF ServiceInv, LockInv
<1>3. ServiceTypeOK'
  BY <1>1 DEF ServiceInv, ServiceTypeOK, Steps
<1>4. UsableInv' /\ LockInv' /\ AgeInv'
  BY <1>1, <1>2 DEF ServiceInv, UsableInv, LockInv, AgeInv, Refreshing
<1>5. RefreshInv'
  BY <1>1, <1>2 DEF ServiceInv, RefreshInv, Expired, Refreshing
<1> QED
  BY <1>3, <1>4, <1>5 DEF ServiceInv

\* Under the lock the others are not refreshing.
LEMMA AloneInRefresh ==
    ASSUME ServiceInv, NEW r \in Requests, pc[r] \in Refreshing
    PROVE  \A q \in Requests \ {r} : pc[q] \notin Refreshing
  BY DEF ServiceInv, LockInv

LEMMA ConfigKeeps ==
    ASSUME ServiceInv, NEW r \in Requests, StillExpired(r) \/ CachedConfig(r) \/ FetchConfig(r)
    PROVE  ServiceInv'
<1> DEFINE next == IF StillExpired(r) THEN "config" ELSE "connect"
<1>1. /\ UNCHANGED <<clock, source, client, clientInitAt, writer, loaders, mine>>
      /\ pc[r] \in Refreshing
      /\ pc' \in [Requests -> Steps] /\ pc'[r] = next
      /\ \A q \in Requests \ {r} : pc'[q] = pc[q]
      /\ conf' \in Configs \cup {Empty} /\ fetchedAt' \in 0 .. clock
  BY TTLAssumption DEF StillExpired, CachedConfig, FetchConfig, Goto, configVars, clientVars,
      ServiceInv, ServiceTypeOK, Steps, Refreshing, Sources
<1>2. clock \in Int /\ fetchedAt \in Int /\ clientInitAt \in Int /\ clientInitAt <= clock
      /\ fetchedAt <= clock /\ TTL \in Int
  BY TTLAssumption DEF ServiceInv, ServiceTypeOK
<1>3. ServiceTypeOK'
  BY <1>1 DEF ServiceInv, ServiceTypeOK, Steps
<1>4. UsableInv' /\ LockInv'
  BY <1>1 DEF ServiceInv, UsableInv, LockInv, Refreshing
<1>5. CASE StillExpired(r)
  <2>1. fetchedAt' = fetchedAt /\ Expired(clientInitAt)
    BY <1>5 DEF StillExpired, configVars
  <2> QED
    BY <1>1, <1>3, <1>4, <1>5, <2>1, AloneInRefresh
    DEF ServiceInv, AgeInv, RefreshInv, Expired, Refreshing
<1>6. CASE CachedConfig(r) \/ FetchConfig(r)
  <2>1. Expired(clientInitAt) /\ pc[r] = "config"
    BY <1>6 DEF CachedConfig, FetchConfig, ServiceInv, RefreshInv
  <2>2. fetchedAt' - clientInitAt >= TTL
    BY <1>2, <1>6, <2>1 DEF CachedConfig, FetchConfig, Expired, ServiceInv, AgeInv, configVars
  <2>3. pc'[r] = "connect"
    BY <1>6 DEF CachedConfig, FetchConfig, Goto, ServiceInv, ServiceTypeOK
  <2> QED
    BY <1>1, <1>3, <1>4, <2>1, <2>2, <2>3, AloneInRefresh
    DEF ServiceInv, AgeInv, RefreshInv, Expired, Refreshing
<1> QED
  BY <1>5, <1>6

\* The refresh is over, with a new client or with the old one.
LEMMA ReturnKeeps ==
    ASSUME ServiceInv, NEW r \in Requests,
           RefreshedMeanwhile(r) \/ FetchFails(r) \/ Connect(r) \/ ConnectFails(r)
    PROVE  ServiceInv'
<1>1. /\ UNCHANGED <<clock, source, conf, fetchedAt, loaders>>
      /\ pc[r] \in Refreshing
      /\ pc' = [pc EXCEPT ![r] = "got"] /\ pc \in [Requests -> Steps]
      /\ mine' = [mine EXCEPT ![r] = client'] /\ mine \in [Requests -> Clients]
      /\ writer' = NoOne
  BY DEF RefreshedMeanwhile, FetchFails, Connect, ConnectFails, Return, Goto, configVars,
      clientVars, ServiceInv, ServiceTypeOK, Steps, Refreshing
<1>2. /\ clock \in 0 .. MaxTime /\ fetchedAt \in 0 .. clock /\ TTL \in Nat
      /\ clientInitAt \in 0 .. clock
  BY TTLAssumption DEF ServiceInv, ServiceTypeOK
<1>3. /\ client' \in Clients /\ client'.config \in Configs /\ clientInitAt' \in 0 .. clock
      /\ clientInitAt' = clientInitAt \/ clientInitAt' = clock
  <2>1. CASE Connect(r)
    <3>1. conf \in Configs /\ client' = Client(conf, clock) /\ clientInitAt' = clock
      BY <2>1 DEF Connect, ServiceInv, ServiceTypeOK
    <3> QED
      BY <1>2, <3>1, BuiltIsAClient
  <2>2. CASE RefreshedMeanwhile(r) \/ FetchFails(r) \/ ConnectFails(r)
    BY <1>2, <2>2 DEF RefreshedMeanwhile, FetchFails, ConnectFails, clientVars, ServiceInv, ServiceTypeOK,
       UsableInv
  <2> QED
    BY <2>1, <2>2
<1>4. \A q \in Requests : pc'[q] \notin Refreshing
  BY <1>1, AloneInRefresh DEF Refreshing
<1>5. ServiceTypeOK'
  BY <1>1, <1>3 DEF ServiceInv, ServiceTypeOK, Steps
<1>6. UsableInv'
  BY <1>1, <1>3 DEF ServiceInv, UsableInv
<1>7. LockInv' /\ RefreshInv'
  BY <1>4 DEF LockInv, RefreshInv, Refreshing
<1>8. AgeInv'
  <2>1. fetchedAt <= clock /\ fetchedAt' = fetchedAt
    BY <1>1, <1>2
  <2> QED
    BY <1>3, <2>1 DEF ServiceInv, AgeInv
<1> QED
  BY <1>5, <1>6, <1>7, <1>8 DEF ServiceInv

LEMMA ServiceNextPreserves == ASSUME ServiceInv, [ServiceNext]_serviceVars PROVE ServiceInv'
<1>1. CASE Tick \/ Republish
  BY <1>1, OutsideKeeps
<1>2. ASSUME NEW r \in Requests,
             Arrive(r) \/ ReadClient(r) \/ WithLoaders(r) \/ Finish(r)
      PROVE  ServiceInv'
  BY <1>2, RequestKeeps
<1>3. ASSUME NEW r \in Requests, Lock(r) PROVE ServiceInv'
  BY <1>3, LockKeeps
<1>4. ASSUME NEW r \in Requests, Refresh(r) PROVE ServiceInv'
  BY <1>4, ConfigKeeps, ReturnKeeps DEF Refresh
<1>5. CASE UNCHANGED serviceVars
  BY <1>5 DEF serviceVars, configVars, clientVars, ServiceInv, ServiceTypeOK, UsableInv, LockInv, AgeInv,
     RefreshInv, Expired
<1> QED
  BY <1>1, <1>2, <1>3, <1>4, <1>5 DEF ServiceNext

-------------------------------------------------------------------------------
(* The theorems *)

\* The inductive invariant holds: of lock, ages and clients together.
THEOREM ServiceInvariance == ServiceSpec => []ServiceInv
  BY ServiceInitEstablishes, ServiceNextPreserves, PTL DEF ServiceSpec

\* Client, configuration, lock and loaders are what they should be, and nothing is
\* dated later than now.
THEOREM ServiceTypeCorrect == ServiceSpec => []ServiceTypeOK
<1>1. ServiceInv => ServiceTypeOK
  BY DEF ServiceInv
<1> QED
  BY <1>1, ServiceInvariance, PTL

\* For any number of requests, any TTL and any source: a request and the loaders it
\* works through have a client with liteservers, whatever refreshes failed.
THEOREM AlwaysAUsableClientThm == ServiceSpec => []AlwaysAUsableClient
<1>1. ServiceInv => AlwaysAUsableClient
  BY DEF ServiceInv, UsableInv, AlwaysAUsableClient
<1> QED
  BY <1>1, ServiceInvariance, PTL

\* currentClient builds a client only after its predecessor's TTL, from a
\* configuration fetched after that: the ages of the two caches never add up, and
\* requests in a queue do not refresh in turn.
THEOREM RefreshFetchesAnewThm == ServiceSpec => RefreshFetchesAnew
<1> DEFINE Anew == client' # client => fetchedAt - clientInitAt >= TTL
<1>1. ASSUME ServiceInv, [ServiceNext]_serviceVars PROVE Anew
  <2>1. ASSUME NEW r \in Requests, Connect(r) PROVE Anew
    BY <1>1, <2>1 DEF Connect, ServiceInv, RefreshInv
  <2>2. ASSUME NEW r \in Requests, Refresh(r), ~Connect(r) PROVE client' = client
    BY <2>2 DEF Refresh, StillExpired, RefreshedMeanwhile, CachedConfig, FetchConfig,
       FetchFails, ConnectFails, clientVars
  <2>3. ASSUME NEW r \in Requests,
               Arrive(r) \/ ReadClient(r) \/ Lock(r) \/ WithLoaders(r) \/ Finish(r)
        PROVE  client' = client
    BY <2>3 DEF Arrive, ReadClient, Lock, WithLoaders, Finish, clientVars
  <2>4. ASSUME Tick \/ Republish \/ UNCHANGED serviceVars PROVE client' = client
    BY <2>4 DEF Tick, Republish, serviceVars, clientVars
  <2> QED
    BY <1>1, <2>1, <2>2, <2>3, <2>4 DEF ServiceNext
<1>2. ServiceInv /\ [ServiceNext]_serviceVars => [Anew]_serviceVars
  BY <1>1
<1> QED
  BY <1>2, ServiceInvariance, PTL DEF ServiceSpec, RefreshFetchesAnew
=============================================================================
