------------------------------ MODULE RouteProofs ------------------------------
(* Of the ways out of the bridge, for any number of clients, Workers, proxies and  *)
(* domains and every configuration: the ladder of routes leaves out none and asks  *)
(* none twice, and the walk over host names tries every record that it should,     *)
(* and none more.                                                                  *)
EXTENDS Routing, CfDial, SequenceTheorems, FiniteSetTheorems, TLAPS

----------------------------------------------------------------------------
(* The ladder: what select_upstream strings together.                         *)

\* The routes of a configuration, by tier; "direct" is always among them.
Workers == {Worker(i) : i \in 0..setup.workers - 1}
Proxies == {Proxy(i) : i \in 1..setup.proxies}
CfRoute == IF setup.cf /\ ~setup.test THEN {Step("cf")} ELSE {}
DirectRoute == {Step("direct")}
Routes == Workers \cup Proxies \cup CfRoute \cup DirectRoute

\* Steps of a ladder that are not routes: a spare connection, and where the walk turns or ends.
Spares == {Step("spare"), Step("pool")}
PoolMarks == Spares \cup {Step("look"), Step("tcp"), Step("nowhere")}

\* A stretch of the ladder that has each of the routes R once, and spares.
Rungs(s, R) ==
  /\ s \in Seq(R \cup Spares)
  /\ R \subseteq Range(s)
  /\ \A i, j \in 1..Len(s) : s[i] = s[j] /\ s[i] \in R => i = j

\* A pair is two sequences of one put together.
LEMMA PairIsConcat ==
  ASSUME NEW a, NEW b  PROVE  <<a>> \o <<b>> = <<a, b>>
<1> DEFINE S == {a, b}
<1>1. <<a>> \in Seq(S) /\ <<b>> \in Seq(S) /\ <<a, b>> \in Seq(S)
  OBVIOUS
<1>2. Len(<<a>>) = 1 /\ Len(<<b>>) = 1 /\ Len(<<a, b>>) = 2 /\ <<a>>[1] = a /\ <<b>>[1] = b
      /\ <<a, b>>[1] = a /\ <<a, b>>[2] = b
  OBVIOUS
<1> DEFINE s == <<a>>
           t == <<b>>
           u == <<a, b>>
<1>3. s \in Seq(S) /\ t \in Seq(S) /\ u \in Seq(S) /\ Len(s) = 1 /\ Len(t) = 1 /\ Len(u) = 2
      /\ s[1] = a /\ t[1] = b /\ u[1] = a /\ u[2] = b
  BY <1>1, <1>2
<1> HIDE DEF S, s, t, u
<1>4. s \o t \in Seq(S) /\ Len(s \o t) = Len(s) + Len(t)
      /\ \A i \in 1..Len(s) + Len(t) : (s \o t)[i] = IF i <= Len(s) THEN s[i] ELSE t[i - Len(s)]
  BY <1>3, ConcatProperties
<1>5. Len(s \o t) = Len(u) /\ \A i \in 1..Len(s \o t) : (s \o t)[i] = u[i]
  BY <1>3, <1>4
<1>6. s \o t = u
  BY <1>3, <1>4, <1>5, SeqEqual
<1> QED BY <1>6 DEF s, t, u

\* Two stretches with no route in common make a stretch.
LEMMA RungsJoin ==
  ASSUME NEW R, NEW Q, NEW s, NEW t, Rungs(s, R), Rungs(t, Q),
         R \cap Q = {}, (R \cup Q) \cap Spares = {}
  PROVE  Rungs(s \o t, R \cup Q)
<1> DEFINE S == R \cup Q \cup Spares
<1>1. s \in Seq(S) /\ t \in Seq(S)
  <2>1. R \cup Spares \subseteq S /\ Q \cup Spares \subseteq S
    OBVIOUS
  <2> QED  BY <2>1, SeqMonotonic DEF Rungs
<1>2. /\ s \o t \in Seq(S) /\ Len(s \o t) = Len(s) + Len(t)
      /\ \A i \in 1 .. Len(s) + Len(t) : (s \o t)[i] =
                     IF i <= Len(s) THEN s[i] ELSE t[i - Len(s)]
  BY <1>1, ConcatProperties
<1>3. Range(s \o t) = Range(s) \cup Range(t)
  BY <1>1, RangeConcatenation
<1>4. /\ \A i \in 1..Len(s) : s[i] \in R \cup Spares
      /\ \A i \in 1..Len(t) : t[i] \in Q \cup Spares
      /\ Len(s) \in Nat /\ Len(t) \in Nat
  BY DEF Rungs
<1>5. ASSUME NEW i \in 1..Len(s \o t), NEW j \in 1..Len(s \o t),
             (s \o t)[i] = (s \o t)[j], (s \o t)[i] \in R \cup Q
      PROVE  i = j
  <2> HIDE DEF S
  <2>1. CASE i <= Len(s) /\ j <= Len(s)
    BY <1>2, <1>4, <1>5, <2>1 DEF Rungs
  <2>2. CASE i > Len(s) /\ j > Len(s)
    BY <1>2, <1>4, <1>5, <2>2 DEF Rungs
  <2>3. CASE i <= Len(s) /\ j > Len(s)
    BY <1>2, <1>4, <1>5, <2>3
  <2>4. CASE i > Len(s) /\ j <= Len(s)
    BY <1>2, <1>4, <1>5, <2>4
  <2> QED  BY <1>2, <1>4, <2>1, <2>2, <2>3, <2>4
<1> QED  BY <1>2, <1>3, <1>5 DEF Rungs

\* One turn of the modulus, for an offset below the length.
LEMMA Turned ==
  ASSUME NEW n \in Nat, n > 0, NEW a \in 0..2 * n
  PROVE  a % n = IF a < n THEN a ELSE IF a < 2 * n THEN a - n ELSE 0
OBVIOUS

\* Workers have names of their own.
LEMMA WorkerNames ==
  \A a, b : Worker(a) = Worker(b) => a = b
<1> SUFFICES ASSUME NEW a, NEW b, Worker(a) = Worker(b)  PROVE a = b
  OBVIOUS
<1>1. Worker(a).of = a /\ Worker(b).of = b
  BY DEF Worker
<1> QED BY <1>1

\* The tier of the Workers, begun at any of them, has each once.
LEMMA WorkerRungs ==
  ASSUME setup \in SetupType, NEW f \in 0..setup.workers
  PROVE  Rungs(WorkerTier(f), Workers)
<1> DEFINE n == setup.workers
           at(i) == (f + i) % n
           all == [i \in 1..n |-> Worker(at(i))]
<1>0. n \in Nat /\ setup.test \in BOOLEAN /\ f \in 0..n
  BY DEF SetupType
<1>1. CASE n = 0
  <2>1. WorkerTier(f) = <<>> /\ Workers = {}
    BY <1>1 DEF WorkerTier, Workers
  <2> QED BY <2>1 DEF Rungs
<1>2. CASE n # 0
  <2>1. ASSUME NEW i \in 1..n
        PROVE  at(i) = IF f + i < n THEN f + i ELSE IF f + i < 2 * n THEN f + i - n ELSE 0
    <3>1. n > 0 /\ f + i \in 0..2 * n
      BY <1>0, <1>2
    <3> QED BY <1>0, <3>1, Turned
  <2>a. DOMAIN all = 1..n /\ Len(all) = n /\ \A i \in 1..n : all[i] = Worker(at(i))
    BY <1>0
  <2>w. WorkerTier(f) = IF setup.test THEN all ELSE <<Step("spare")>> \o all
    <3>1. WorkerTier(f) = IF setup.test THEN <<>> \o all ELSE <<Step("spare")>> \o all
      BY <1>2 DEF WorkerTier
    <3> DEFINE S == {Worker(at(i)) : i \in 1..n}
    <3>2. all \in Seq(S)
      <4>1. \A i \in 1..n : Worker(at(i)) \in S
        OBVIOUS
      <4> HIDE DEF S, at
      <4> QED BY <1>0, <4>1
    <3> HIDE DEF S, all
    <3>3. <<>> \o all = all
      BY <3>2, ConcatEmptySeq
    <3> QED  BY <3>1, <3>3
  <2> HIDE DEF at
  <2>2. \A i \in 1..n : at(i) \in 0..n-1
    BY <2>1, <1>0
  <2>3. all \in Seq(Workers)
    <3>1. \A i \in 1..n : Worker(at(i)) \in Workers
      BY <2>2 DEF Workers
    <3> QED BY <3>1, <1>0
  <2> HIDE DEF all
  <2>4. ASSUME NEW i \in 1..n, NEW j \in 1..n, all[i] = all[j]
        PROVE  i = j
    <3>1. at(i) = at(j)
      BY <2>4, <2>a, WorkerNames
    <3> QED BY <3>1, <2>1, <1>0
  <2>5. ASSUME NEW k \in 0..n-1
        PROVE  Worker(k) \in Range(all)
    <3>1. PICK i \in 1..n : at(i) = k
      <4>1. CASE k > f
        <5>1. k - f \in 1..n /\ at(k - f) = k
          BY <2>1, <1>0, <4>1
        <5> QED BY <5>1
      <4>0. CASE k = 0 /\ f = n
        <5>1. at(n) = 0
          BY <2>1, <1>0, <1>2, <4>0
        <5> QED BY <5>1, <1>0, <1>2, <4>0
      <4>2. CASE k <= f /\ ~(k = 0 /\ f = n)
        <5>1. k - f + n \in 1..n
          BY <1>0, <4>2
        <5>2. at(k - f + n) = k
          BY <2>1, <5>1, <1>0, <4>2
        <5> QED BY <5>1, <5>2
      <4> QED  BY <4>0, <4>1, <4>2, <1>0
    <3>2. all[i] = Worker(k)
      BY <3>1, <2>a
    <3> QED BY <2>a, <3>2 DEF Range
  <2>6. Rungs(all, Workers)
    <3>1. all \in Seq(Workers \cup Spares)
      BY <2>3, SeqMonotonic
    <3>2. Workers \subseteq Range(all)
      BY <2>5 DEF Workers
    <3> QED BY <3>1, <3>2, <2>a, <2>4 DEF Rungs
  <2>7. CASE setup.test
    BY <2>6, <2>7, <2>w
  <2>8. CASE ~setup.test
    <3>1. Rungs(<<Step("spare")>>, {})
      BY DEF Rungs, Spares
    <3>2. Workers \cap Spares = {}
      BY DEF Workers, Spares, Worker, Step
    <3>3. {} \cup Workers = Workers
      OBVIOUS
    <3>4. Rungs(<<Step("spare")>> \o all, {} \cup Workers)
      BY <3>1, <3>2, <2>6, RungsJoin
    <3> QED
      BY <3>3, <3>4, <2>8, <2>w
  <2> QED  BY <2>7, <2>8
<1> QED BY <1>1, <1>2

\* No step, a spare alone and a route alone are stretches.
LEMMA OneRung ==
  /\ Rungs(<<>>, {})
  /\ \A m \in Spares : Rungs(<<m>>, {})
  /\ \A r : r \notin Spares => Rungs(<<r>>, {r})
<1>1. Rungs(<<>>, {})
  BY DEF Rungs
<1>2. ASSUME NEW m \in Spares PROVE Rungs(<<m>>, {})
  <2>1. <<m>> \in Seq(Spares)
    OBVIOUS
  <2> QED BY <2>1 DEF Rungs
<1>3. ASSUME NEW r PROVE Rungs(<<r>>, {r})
  <2>1. <<r>> \in Seq({r} \cup Spares)
    OBVIOUS
  <2>2. r \in Range(<<r>>)
    BY DEF Range
  <2> QED BY <2>1, <2>2 DEF Rungs
<1> QED BY <1>1, <1>2, <1>3

\* The names of the tiers never collide.
LEMMA TiersApart ==
  /\ Routes \cap PoolMarks = {}
  /\ Workers \cap (CfRoute \cup Proxies \cup DirectRoute) = {}
  /\ CfRoute \cap (Proxies \cup DirectRoute) = {}
  /\ Proxies \cap DirectRoute = {}
  /\ Front \notin Routes
<1>1. /\ \A r \in Workers : r.tier = "worker"
      /\ \A r \in Proxies : r.tier = "proxy"
      /\ \A r \in CfRoute : r.tier = "cf"
      /\ \A r \in DirectRoute : r.tier = "direct"
      /\ \A r \in PoolMarks : r.tier \in {"spare", "pool", "look", "tcp", "nowhere"}
      /\ Front.tier = "front"
  BY DEF Workers, Proxies, CfRoute, DirectRoute, PoolMarks, Spares, Worker, Proxy, Step, Front
<1> QED  BY <1>1 DEF Routes

\* The spares are not what ends a ladder.
LEMMA SpareMarks ==
  Spares \subseteq PoolMarks /\ Step("look") \notin Spares /\ Step("tcp") \notin Spares
BY DEF Spares, PoolMarks, Step

\* The tier of the Cloudflare proxy is a stretch.
LEMMA CfTierRungs ==
  ASSUME setup \in SetupType  PROVE  Rungs(CfTier, CfRoute)
<1>1. CASE setup.test \/ ~setup.cf
  BY <1>1, OneRung DEF CfTier, CfRoute
<1>2. CASE ~(setup.test \/ ~setup.cf)
  <2>1. Rungs(<<Step("spare")>>, {}) /\ Rungs(<<Step("cf")>>, {Step("cf")})
    BY OneRung DEF Spares, Step
  <2>2. Step("cf") \notin Spares
    BY DEF Spares, Step
  <2>3. Rungs(<<Step("spare")>> \o <<Step("cf")>>, {} \cup {Step("cf")})
    BY <2>1, <2>2, RungsJoin
  <2>4. <<Step("spare")>> \o <<Step("cf")>> = <<Step("spare"), Step("cf")>>
    BY PairIsConcat
  <2>5. {} \cup {Step("cf")} = {Step("cf")}
    OBVIOUS
  <2> QED  BY <1>2, <2>3, <2>4, <2>5 DEF CfTier, CfRoute
<1> QED  BY <1>1, <1>2

\* The tier of the outbound proxies is a stretch.
LEMMA ProxyTierRungs ==
  ASSUME setup \in SetupType  PROVE  Rungs(ProxyTier, Proxies)
<1> DEFINE n == setup.proxies
<1>1. n \in Nat
  BY DEF SetupType
<1>2. \A a, b : Proxy(a) = Proxy(b) => a = b
  <2> SUFFICES ASSUME NEW a, NEW b, Proxy(a) = Proxy(b)  PROVE a = b
    OBVIOUS
  <2>1. Proxy(a).of = a /\ Proxy(b).of = b
    BY DEF Proxy
  <2> QED BY <2>1
<1>3. DOMAIN ProxyTier = 1..n /\ Len(ProxyTier) = n /\ \A i \in 1..n : ProxyTier[i] = Proxy(i)
  BY <1>1 DEF ProxyTier
<1>4. \A i \in 1..n : Proxy(i) \in Proxies
  BY DEF Proxies
<1>5. ProxyTier \in Seq(Proxies \cup Spares)
  BY <1>1, <1>4 DEF ProxyTier
<1>6. Proxies \subseteq Range(ProxyTier)
  BY <1>3 DEF Proxies, Range
<1> QED  BY <1>2, <1>3, <1>5, <1>6 DEF Rungs

\* What is asked before the look at the address.
Early == IF setup.priority THEN Workers \cup CfRoute ELSE {}

\* So is what select_upstream strings together of the three tiers.
LEMMA ChainRungs ==
  ASSUME setup \in SetupType, NEW f \in 0..setup.workers
  PROVE  /\ Rungs(CfTiers(f), Workers \cup CfRoute)
         /\ Rungs(Chain(f, FALSE), Workers \cup CfRoute \cup Proxies)
         /\ Rungs(Chain(f, TRUE), Proxies)
<1>0. (Workers \cup CfRoute \cup Proxies) \cap Spares = {}
  BY TiersApart, SpareMarks DEF Routes
<1>1. Rungs(CfTiers(f), Workers \cup CfRoute)
  BY <1>0, WorkerRungs, CfTierRungs, RungsJoin, TiersApart DEF CfTiers
<1>2. Rungs(Chain(f, FALSE), Workers \cup CfRoute \cup Proxies)
  <2>1. Rungs(CfTiers(f) \o ProxyTier, Workers \cup CfRoute \cup Proxies)
    BY <1>0, <1>1, ProxyTierRungs, RungsJoin, TiersApart
  <2> QED BY <2>1 DEF Chain
<1>3. Rungs(Chain(f, TRUE), Proxies)
  <2>1. Rungs(<<>> \o ProxyTier, {} \cup Proxies)
    BY <1>0, OneRung, ProxyTierRungs, RungsJoin
  <2>2. {} \cup Proxies = Proxies
    OBVIOUS
  <2>3. Chain(f, TRUE) = <<>> \o ProxyTier
    BY DEF Chain
  <2> QED BY <2>1, <2>2, <2>3
<1> QED BY <1>1, <1>2, <1>3

\* A whole ladder: the routes R, each once, and a last resort.
Ladder(s, R, m) ==
  /\ s \in Seq(Routes \cup PoolMarks)
  /\ s # <<>>
  /\ Range(s) \cap Routes = R
  /\ \A i, j \in 1..Len(s) : s[i] = s[j] /\ s[i] \in Routes => i = j
  /\ s[Len(s)] = m
  /\ \A i \in 1..Len(s) : s[i] \in PoolMarks \ Spares => i = Len(s)

\* A stretch and a last resort make a ladder.
LEMMA LadderOf ==
  ASSUME NEW R \in SUBSET Routes, NEW s, Rungs(s, R), NEW m \in PoolMarks \ Spares
  PROVE  Ladder(s \o <<m>>, R, m)
<1> DEFINE S == Routes \cup PoolMarks
           t == s \o <<m>>
<1>1. s \in Seq(S) /\ <<m>> \in Seq(S)
  <2>1. R \cup Spares \subseteq S
    BY SpareMarks
  <2> QED BY <2>1, SeqMonotonic DEF Rungs
<1>2. t \in Seq(S) /\ Len(t) = Len(s) + 1
      /\ \A i \in 1 .. Len(s) + 1 : t[i] = IF i <= Len(s) THEN s[i] ELSE m
  BY <1>1, ConcatProperties
<1>3. Range(t) = Range(s) \cup {m}
  <2>1. Range(<<m>>) = {m}
    BY DEF Range
  <2> HIDE DEF S
  <2>2. Range(s \o <<m>>) = Range(s) \cup Range(<<m>>)
    BY <1>1, RangeConcatenation
  <2> QED BY <2>1, <2>2
<1>4. Len(s) \in Nat /\ \A i \in 1..Len(s) : s[i] \in R \cup Spares
  BY DEF Rungs
<1>5. Range(s) \subseteq R \cup Spares
  BY RangeOfSeq DEF Rungs
<1>6. R \cap PoolMarks = {} /\ Spares \subseteq PoolMarks /\ Routes \cap PoolMarks = {}
  BY TiersApart, SpareMarks
<1> HIDE DEF t, S
<1>7. Range(t) \cap Routes = R
  BY <1>3, <1>5, <1>6 DEF Rungs
<1>8. \A i, j \in 1..Len(t) : t[i] = t[j] /\ t[i] \in Routes => i = j
  BY <1>2, <1>4, <1>6 DEF Rungs
<1>9. \A i \in 1..Len(t) : t[i] \in PoolMarks \ Spares => i = Len(t)
  BY <1>2, <1>4, <1>6
<1>10. t # <<>> /\ t[Len(t)] = m
  BY <1>2, <1>4
<1> QED BY <1>2, <1>7, <1>8, <1>9, <1>10 DEF Ladder, t, S

\* The ladders of select_upstream.
LEMMA PlanLadder ==
  ASSUME setup \in SetupType, NEW f \in 0..setup.workers
  PROVE  \/ Ladder(Plan(f), Configured, Step("tcp"))
         \/ setup.target /\ ~setup.test /\ Ladder(Plan(f), Early, Step("look"))
         \/ Plan(f) = <<Step("nowhere")>>
<1>0. /\ setup.test \in BOOLEAN /\ setup.target \in BOOLEAN /\ setup.fallback \in BOOLEAN
      /\ setup.priority \in BOOLEAN
  BY DEF SetupType
<1>1. Step("tcp") \in PoolMarks \ Spares /\ Step("look") \in PoolMarks \ Spares
  BY DEF PoolMarks, Spares, Step
<1>2. Step("direct") \notin Spares
  BY DEF Spares, Step
<1>3. Routes \cap Spares = {}
  BY TiersApart, SpareMarks
<1>4. CASE setup.test /\ setup.target
  <2> DEFINE s == <<Step("direct")>> \o WorkerTier(f)
             R == {Step("direct")} \cup Workers
  <2>1. Rungs(s, R)
    BY OneRung, <1>2, <1>3, WorkerRungs, RungsJoin, TiersApart DEF Routes, DirectRoute
  <2>2. R \subseteq Routes /\ R = Configured
    BY <1>4 DEF Routes, DirectRoute, Configured, Workers
  <2>3. Plan(f) = s \o <<Step("tcp")>>
    BY <1>4 DEF Plan
  <2> HIDE DEF s, R
  <2> QED BY <1>1, <2>1, <2>2, <2>3, LadderOf
<1>5. CASE ~setup.test /\ setup.target
  <2> DEFINE s == IF setup.priority THEN CfTiers(f) ELSE <<>>
  <2>1. Rungs(s, Early)
    BY OneRung, ChainRungs DEF Early
  <2>2. Early \subseteq Routes
    BY DEF Early, Routes
  <2>3. Plan(f) = s \o <<Step("look")>>
    BY <1>5 DEF Plan
  <2> HIDE DEF s
  <2> QED BY <1>1, <1>5, <2>1, <2>2, <2>3, LadderOf
<1>6. CASE ~setup.test /\ ~setup.target /\ setup.fallback
  <2> DEFINE s == Chain(f, FALSE)
             R == Workers \cup CfRoute \cup Proxies
  <2>1. Rungs(s, R)
    BY ChainRungs
  <2>2. R \subseteq Routes /\ R = Configured
    BY <1>6 DEF Routes, Configured, Workers, CfRoute, Proxies
  <2>3. Plan(f) = s \o <<Step("tcp")>>
    BY <1>6 DEF Plan
  <2> HIDE DEF s, R
  <2> QED BY <1>1, <2>1, <2>2, <2>3, LadderOf
<1>7. CASE ~setup.target /\ (setup.test \/ ~setup.fallback)
  BY <1>7 DEF Plan
<1> QED  BY <1>0, <1>4, <1>5, <1>6, <1>7

\* After the look at the address, the ladder has what was not walked before.
LEMMA AfterLookLadder ==
  ASSUME setup \in SetupType, NEW f \in 0..setup.workers, NEW cold,
         setup.target, ~setup.test
  PROVE  Ladder(AfterLook(f, cold), Configured \ Early, Step("tcp"))
<1> DEFINE ch == Chain(f, setup.priority)
           R == IF setup.priority THEN Proxies ELSE Workers \cup CfRoute \cup Proxies
           d == <<Step("direct")>>
           p == <<Step("pool")>>
           S == Routes \cup PoolMarks
<1>0. setup.priority \in BOOLEAN
  BY DEF SetupType
<1>1. Step("tcp") \in PoolMarks \ Spares /\ Step("direct") \notin Spares /\ Step("pool") \in Spares
  BY DEF PoolMarks, Spares, Step
<1>2. Rungs(ch, R)
  BY <1>0, ChainRungs
<1>3. R \cap {Step("direct")} = {} /\ R \subseteq Routes /\ (R \cup {Step("direct")}) \cap Spares = {}
  BY <1>1, TiersApart, SpareMarks DEF Routes, DirectRoute
<1>4. R \cup {Step("direct")} = Configured \ Early
  BY <1>0, TiersApart DEF Configured, Early, Workers, Proxies, CfRoute, DirectRoute
<1>a. Configured \ Early \in SUBSET Routes
  BY <1>3, <1>4 DEF Routes, DirectRoute
<1>5. Rungs(p, {}) /\ Rungs(d, {Step("direct")})
  BY <1>1, OneRung
<1> HIDE DEF ch, R, d, p
<1>6. Rungs(p \o ch, R)
  <2>1. Rungs(p \o ch, {} \cup R)
    BY <1>2, <1>3, <1>5, RungsJoin
  <2> QED BY <2>1
<1>7. CASE cold /\ HasFallback
  <2>1. Rungs((p \o ch) \o d, R \cup {Step("direct")})
    BY <1>3, <1>5, <1>6, RungsJoin
  <2>2. AfterLook(f, cold) = ((p \o ch) \o d) \o <<Step("tcp")>>
    <3>1. p \o ch \in Seq(S) /\ d \in Seq(S) /\ <<Step("tcp")>> \in Seq(S)
      <4>1. R \cup Spares \subseteq S /\ {Step("direct")} \cup Spares \subseteq S /\ Step("tcp") \in S
        BY <1>1, <1>3, SpareMarks DEF Routes, DirectRoute
      <4> HIDE DEF S
      <4> QED BY <1>5, <1>6, <4>1, SeqMonotonic DEF Rungs
    <3> HIDE DEF S
    <3>2. ((p \o ch) \o d) \o <<Step("tcp")>> = (p \o ch) \o (d \o <<Step("tcp")>>)
      BY <3>1, ConcatAssociative
    <3>3. d \o <<Step("tcp")>> = <<Step("direct"), Step("tcp")>>
      BY PairIsConcat DEF d
    <3>4. AfterLook(f, cold) = (p \o ch) \o <<Step("direct"), Step("tcp")>>
      BY <1>7 DEF AfterLook, p, ch
    <3> QED BY <3>2, <3>3, <3>4
  <2> QED BY <1>1, <1>4, <1>a, <2>1, <2>2, LadderOf
<1>8. CASE ~(cold /\ HasFallback)
  <2>0. Rungs(p \o d, {Step("direct")})
    <3>1. Rungs(p \o d, {} \cup {Step("direct")})
      BY <1>3, <1>5, RungsJoin
    <3> QED BY <3>1
  <2>1. Rungs((p \o d) \o ch, {Step("direct")} \cup R)
    BY <1>2, <1>3, <2>0, RungsJoin
  <2>2. AfterLook(f, cold) = ((p \o d) \o ch) \o <<Step("tcp")>>
    <3>1. p \o d = <<Step("pool"), Step("direct")>>
      BY PairIsConcat DEF p, d
    <3>2. AfterLook(f, cold) = (<<Step("pool"), Step("direct")>> \o ch) \o <<Step("tcp")>>
      BY <1>8 DEF AfterLook, ch
    <3> QED BY <3>1, <3>2
  <2>3. {Step("direct")} \cup R = Configured \ Early
    BY <1>4
  <2> QED BY <1>1, <1>a, <2>1, <2>2, <2>3, LadderOf
<1> QED BY <1>7, <1>8

----------------------------------------------------------------------------
(* A walk down the ladder.                                                    *)

\* The fields of a walk.
Fields == {"todo", "asked", "skipped", "dial", "probing", "fronted", "silent", "route"}

\* Their types; the spare address is dialled only if there is one.
WalkTyped(w) ==
  /\ DOMAIN w = Fields
  /\ w.todo \in Seq(Routes \cup PoolMarks)
  /\ w.asked \in Seq(Routes \cup {Front})
  /\ w.skipped \subseteq Routes
  /\ w.dial \in {"no", "plain", "front"}
  /\ w.fronted \/ w.dial = "front" => setup.front

\* What is left of the ladder has each route once, and its last resort at the end.
TodoShape(w) ==
  /\ \A i, j \in 1..Len(w.todo) : w.todo[i] = w.todo[j] /\ w.todo[i] \in Routes => i = j
  /\ \A i \in 1..Len(w.todo) : w.todo[i] \in PoolMarks \ Spares => i = Len(w.todo)

\* What has been asked is no longer to do, but for the route being dialled.
AskedShape(w) ==
  /\ \A i, j \in 1..Len(w.asked) : w.asked[i] = w.asked[j] => i = j
  /\ \A i \in 1..Len(w.todo) : w.todo[i] \in AskedIn(w) => i = 1 /\ w.dial # "no"
  /\ w.dial # "no" => w.todo # <<>> /\ Head(w.todo) \in Routes \cap AskedIn(w)
  /\ Front \in AskedIn(w) => /\ Step("direct") \in AskedIn(w)
                             /\ w.dial = "plain" => Head(w.todo) # Step("direct")

\* No configured route is lost: it has been asked or skipped, is to do, or comes
\* after the look at the address.
Covers(w) ==
  /\ Step("look") \in Range(w.todo) =>
       /\ setup.target /\ ~setup.test
       /\ AskedIn(w) \cup (Range(w.todo) \cap Routes) \subseteq Early
       /\ Early \subseteq AskedIn(w) \cup w.skipped \cup Range(w.todo)
  /\ Step("tcp") \in Range(w.todo) =>
       Configured \subseteq AskedIn(w) \cup w.skipped \cup Range(w.todo)
  /\ w.route = "tcp" => Configured \subseteq AskedIn(w) \cup w.skipped

\* What holds of every walk.
WalkInv(w) == WalkTyped(w) /\ TodoShape(w) /\ AskedShape(w) /\ Covers(w)

\* The three last resorts differ.
LEMMA Resorts ==
  /\ Step("look") \in PoolMarks \ Spares /\ Step("tcp") \in PoolMarks \ Spares
  /\ Step("nowhere") \in PoolMarks \ Spares
  /\ Step("look") # Step("tcp") /\ Step("nowhere") # Step("tcp") /\ Step("nowhere") # Step("look")
BY DEF PoolMarks, Spares, Step

\* What the configuration asks for is among the routes.
LEMMA ConfiguredRoutes ==
  Configured \subseteq Routes /\ Early \subseteq Routes /\ Step("direct") \notin Early
  /\ Step("direct") \in Routes
<1>1. Configured \subseteq Routes
  BY DEF Configured, Routes, Workers, Proxies, CfRoute, DirectRoute
<1>2. Early \subseteq Routes
  BY DEF Early, Routes
<1> QED  BY <1>1, <1>2, TiersApart DEF Early, Routes, DirectRoute

\* Of a sequence without its head.
LEMMA TailFacts ==
  ASSUME NEW S, NEW s \in Seq(S), s # <<>>
  PROVE  /\ Tail(s) \in Seq(S) /\ Len(Tail(s)) = Len(s) - 1 /\ Len(s) \in Nat /\ Len(s) > 0
         /\ \A i \in 1..Len(Tail(s)) : Tail(s)[i] = s[i + 1]
         /\ Head(s) = s[1] /\ Head(s) \in S
         /\ Range(s) = {Head(s)} \cup Range(Tail(s))
<1>1. /\ Tail(s) \in Seq(S) /\ Len(Tail(s)) = Len(s) - 1 /\ Len(s) \in Nat /\ Len(s) > 0
      /\ \A i \in 1..Len(Tail(s)) : Tail(s)[i] = s[i + 1]
      /\ Head(s) = s[1] /\ Head(s) \in S
  BY HeadTailProperties, EmptySeq, LenProperties
<1>2. Range(s) = {s[i] : i \in 1..Len(s)} /\ Range(Tail(s)) = {Tail(s)[i] : i \in 1..Len(Tail(s))}
  BY <1>1, RangeEquality
<1>3. ASSUME NEW i \in 1..Len(s)  PROVE s[i] \in {Head(s)} \cup Range(Tail(s))
  <2>1. CASE i = 1
    BY <1>1, <2>1
  <2>2. CASE i # 1
    <3>1. i - 1 \in 1..Len(Tail(s)) /\ Tail(s)[i - 1] = s[i]
      BY <1>1, <2>2
    <3> QED BY <3>1, <1>2
  <2> QED BY <2>1, <2>2
<1>4. ASSUME NEW i \in 1..Len(Tail(s))  PROVE Tail(s)[i] \in Range(s)
  <2>1. i + 1 \in 1..Len(s) /\ Tail(s)[i] = s[i + 1]
    BY <1>1
  <2> QED BY <2>1, <1>2
<1>5. Head(s) \in Range(s)
  BY <1>1, <1>2
<1>6. Range(s) \subseteq {Head(s)} \cup Range(Tail(s))
  BY <1>2, <1>3
<1>7. Range(Tail(s)) \subseteq Range(s)
  BY <1>2, <1>4
<1> QED BY <1>1, <1>5, <1>6, <1>7

\* Of a sequence with one more.
LEMMA AppendFacts ==
  ASSUME NEW S, NEW s \in Seq(S), NEW e \in S
  PROVE  /\ Append(s, e) \in Seq(S) /\ Len(Append(s, e)) = Len(s) + 1 /\ Len(s) \in Nat
         /\ \A i \in 1..Len(s) : Append(s, e)[i] = s[i]
         /\ Append(s, e)[Len(s) + 1] = e
         /\ Range(Append(s, e)) = Range(s) \cup {e}
<1>1. /\ Append(s, e) \in Seq(S) /\ Len(Append(s, e)) = Len(s) + 1 /\ Len(s) \in Nat
      /\ \A i \in 1..Len(s) : Append(s, e)[i] = s[i]
      /\ Append(s, e)[Len(s) + 1] = e
  BY AppendProperties, LenProperties
<1>2. Append(s, e) = s \o <<e>> /\ <<e>> \in Seq(S)
  BY AppendIsConcat
<1>3. Range(<<e>>) = {e}
  BY DEF Range
<1>4. Range(s \o <<e>>) = Range(s) \cup Range(<<e>>)
  BY <1>2, RangeConcatenation
<1> QED BY <1>1, <1>2, <1>3, <1>4

\* What has been asked, as the range of a sequence.
LEMMA AskedRange ==  \A w : AskedIn(w) = Range(w.asked)
BY DEF AskedIn, Range

\* Going on from a step that is no route, or one asked or skipped, keeps the invariant.
LEMMA OnwardKeeps ==
  ASSUME NEW w, WalkInv(w), w.todo # <<>>,
         Head(w.todo) \in Routes => Head(w.todo) \in AskedIn(w) \cup w.skipped
  PROVE  WalkInv(Onward(w))
<1> DEFINE v == Onward(w)
           s == w.todo
<1>1. /\ DOMAIN v = Fields /\ v.todo = Tail(s) /\ v.dial = "no" /\ v.asked = w.asked
      /\ v.skipped = w.skipped /\ v.fronted = w.fronted /\ v.route = w.route
      /\ v.silent = w.silent /\ v.probing = w.probing
  BY DEF Onward, WalkInv, WalkTyped, Fields
<1>2. AskedIn(v) = AskedIn(w)
  BY <1>1, AskedRange
<1> HIDE DEF v
<1>3. /\ Tail(s) \in Seq(Routes \cup PoolMarks) /\ Len(Tail(s)) = Len(s) - 1 /\ Len(s) \in Nat /\ Len(s) > 0
      /\ \A i \in 1..Len(Tail(s)) : Tail(s)[i] = s[i + 1]
      /\ Range(s) = {Head(s)} \cup Range(Tail(s))
  BY TailFacts DEF WalkInv, WalkTyped
<1>4. WalkTyped(v)
  BY <1>1, <1>3 DEF WalkInv, WalkTyped
<1>5. TodoShape(v)
  BY <1>1, <1>3 DEF WalkInv, TodoShape
<1>6. AskedShape(v)
  BY <1>1, <1>2, <1>3 DEF WalkInv, AskedShape
<1>7. Covers(v)
  BY <1>1, <1>2, <1>3, ConfiguredRoutes DEF WalkInv, Covers
<1> QED  BY <1>4, <1>5, <1>6, <1>7 DEF WalkInv, v

\* So does passing a route over.
LEMMA SkipKeeps ==
  ASSUME NEW w, WalkInv(w), NEW r \in Routes
  PROVE  LET v == [w EXCEPT !.skipped = @ \cup {r}]
         IN  WalkInv(v) /\ v.todo = w.todo /\ r \in v.skipped
<1> DEFINE v == [w EXCEPT !.skipped = @ \cup {r}]
<1>1. /\ DOMAIN v = Fields /\ v.todo = w.todo /\ v.dial = w.dial /\ v.asked = w.asked
      /\ v.skipped = w.skipped \cup {r} /\ v.fronted = w.fronted /\ v.route = w.route
  BY DEF WalkInv, WalkTyped, Fields
<1>2. AskedIn(v) = AskedIn(w)
  BY <1>1, AskedRange
<1> HIDE DEF v
<1>4. WalkTyped(v)
  BY <1>1 DEF WalkInv, WalkTyped
<1>5. TodoShape(v)
  BY <1>1 DEF WalkInv, TodoShape
<1>6. AskedShape(v)
  BY <1>1, <1>2 DEF WalkInv, AskedShape
<1>7. Covers(v)
  BY <1>1, <1>2 DEF WalkInv, Covers
<1>8. WalkInv(v) /\ v.todo = w.todo /\ r \in v.skipped
  BY <1>1, <1>4, <1>5, <1>6, <1>7 DEF WalkInv
<1> QED  BY <1>8 DEF v

\* The last resort is the end of the ladder.
LEMMA LastIsAll ==
  ASSUME NEW w, WalkInv(w), w.todo # <<>>, Head(w.todo) \in PoolMarks \ Spares
  PROVE  Range(w.todo) = {Head(w.todo)}
<1> DEFINE s == w.todo
<1>1. s \in Seq(Routes \cup PoolMarks) /\ s # <<>>
  BY DEF WalkInv, WalkTyped
<1>2. /\ Len(s) \in Nat /\ Len(s) > 0 /\ Head(s) = s[1]
      /\ Range(s) = {Head(s)} \cup Range(Tail(s)) /\ Len(Tail(s)) = Len(s) - 1
      /\ Tail(s) \in Seq(Routes \cup PoolMarks)
  BY <1>1, TailFacts
<1>3. Len(s) = 1
  <2>1. s[1] \in PoolMarks \ Spares /\ 1 \in 1..Len(s)
    BY <1>2
  <2>2. \A i \in 1..Len(s) : s[i] \in PoolMarks \ Spares => i = Len(s)
    BY DEF WalkInv, TodoShape
  <2> HIDE DEF s
  <2> QED BY <2>1, <2>2
<1>4. Range(Tail(s)) = {}
  <2>1. Range(Tail(s)) = {Tail(s)[i] : i \in 1..Len(Tail(s))}
    BY <1>2, RangeEquality
  <2>2. Len(Tail(s)) = 0 /\ 1..0 = {}
    BY <1>2, <1>3
  <2> QED BY <2>1, <2>2
<1> QED BY <1>2, <1>4

\* A walk that ends without being left to TCP, or at the end of its ladder.
LEMMA ByKeeps ==
  ASSUME NEW w, WalkInv(w), NEW r,
         r = "tcp" => w.todo # <<>> /\ Head(w.todo) = Step("tcp")
  PROVE  WalkInv(By(w, r))
<1> DEFINE v == By(w, r)
<1>1. /\ DOMAIN v = Fields /\ v.todo = <<>> /\ v.dial = "no" /\ v.asked = w.asked
      /\ v.skipped = w.skipped /\ v.fronted = w.fronted /\ v.route = r
  BY DEF By, WalkInv, WalkTyped, Fields
<1>2. AskedIn(v) = AskedIn(w)
  BY <1>1, AskedRange
<1>3. Range(<<>>) = {} /\ Len(<<>>) = 0
  BY DEF Range
<1> HIDE DEF v
<1>4. WalkTyped(v)
  BY <1>1 DEF WalkInv, WalkTyped
<1>5. TodoShape(v)
  BY <1>1, <1>3 DEF TodoShape
<1>6. AskedShape(v)
  BY <1>1, <1>2, <1>3 DEF WalkInv, AskedShape
<1>7. Covers(v)
  <2>1. ASSUME r = "tcp"  PROVE Configured \subseteq AskedIn(w) \cup w.skipped
    <3>1. Range(w.todo) = {Step("tcp")}
      BY <2>1, Resorts, LastIsAll
    <3>2. Range(w.todo) \cap Routes = {} /\ Step("tcp") \in Range(w.todo)
      BY <3>1, Resorts, TiersApart
    <3> QED BY <3>2, ConfiguredRoutes DEF WalkInv, Covers
  <2> QED  BY <1>1, <1>2, <1>3, <2>1 DEF Covers
<1> QED  BY <1>4, <1>5, <1>6, <1>7 DEF WalkInv, v

\* A route is asked.
LEMMA AskKeeps ==
  ASSUME NEW w, WalkInv(w), w.todo # <<>>, w.dial = "no", Head(w.todo) \in Routes,
         NEW v, DOMAIN v = Fields, v.todo = w.todo, v.skipped = w.skipped, v.route = w.route,
         v.asked = Append(w.asked, Head(w.todo)), v.dial = "plain", v.fronted => setup.front
  PROVE  WalkInv(v)
<1> DEFINE s == w.todo
           h == Head(w.todo)
           a == w.asked
<1>1. /\ a \in Seq(Routes \cup {Front}) /\ h \in Routes \cup {Front}
      /\ s \in Seq(Routes \cup PoolMarks) /\ s # <<>>
  BY DEF WalkInv, WalkTyped
<1>2. /\ Append(a, h) \in Seq(Routes \cup {Front}) /\ Len(Append(a, h)) = Len(a) + 1 /\ Len(a) \in Nat
      /\ \A i \in 1..Len(a) : Append(a, h)[i] = a[i]
      /\ Append(a, h)[Len(a) + 1] = h
      /\ Range(Append(a, h)) = Range(a) \cup {h}
  BY <1>1, AppendFacts
<1>3. Len(s) \in Nat /\ Len(s) > 0 /\ h = s[1] /\ Range(s) = {h} \cup Range(Tail(s))
  BY <1>1, TailFacts
<1>4. AskedIn(v) = AskedIn(w) \cup {h} /\ AskedIn(w) = {a[i] : i \in 1..Len(a)}
  BY <1>1, <1>2, AskedRange, RangeEquality
<1>5. h \notin AskedIn(w)
  BY <1>3 DEF WalkInv, AskedShape
<1>6. h # Front
  BY TiersApart
<1> HIDE DEF s, h, a
<1>7. WalkTyped(v)
  BY <1>2 DEF WalkInv, WalkTyped, a, h
<1>8. TodoShape(v)
  BY DEF WalkInv, TodoShape
<1>9. AskedShape(v)
  <2>1. \A i, j \in 1..Len(v.asked) : v.asked[i] = v.asked[j] => i = j
    <3>1. \A i, j \in 1..Len(a) : a[i] = a[j] => i = j
      BY DEF WalkInv, AskedShape, a
    <3>2. \A i \in 1..Len(a) : a[i] # h
      BY <1>4, <1>5
    <3>3. v.asked = Append(a, h)
      BY DEF a, h
    <3> DEFINE b == Append(a, h)
    <3>4. /\ Len(b) = Len(a) + 1 /\ \A i \in 1..Len(a) : b[i] = a[i]
          /\ b[Len(a) + 1] = h
      BY <1>2
    <3> HIDE DEF b
    <3>5. \A i, j \in 1..Len(b) : b[i] = b[j] => i = j
      <4> SUFFICES ASSUME NEW i \in 1..Len(b), NEW j \in 1..Len(b), b[i] = b[j]  PROVE i = j
        OBVIOUS
      <4>1. i \in 1..Len(a) \/ i = Len(a) + 1
        BY <1>2, <3>4
      <4>2. j \in 1..Len(a) \/ j = Len(a) + 1
        BY <1>2, <3>4
      <4> QED  BY <3>1, <3>2, <3>4, <4>1, <4>2
    <3> QED BY <3>3, <3>5 DEF b
  <2>2. \A i \in 1..Len(v.todo) : v.todo[i] \in AskedIn(v) => i = 1 /\ v.dial # "no"
    BY <1>3, <1>4 DEF WalkInv, AskedShape, TodoShape, h, s
  <2>3. v.todo # <<>> /\ Head(v.todo) \in Routes \cap AskedIn(v)
    BY <1>4 DEF h
  <2>4. Front \in AskedIn(v) => Step("direct") \in AskedIn(w) /\ h # Step("direct")
    BY <1>4, <1>5, <1>6 DEF WalkInv, AskedShape
  <2> QED BY <1>4, <2>1, <2>2, <2>3, <2>4 DEF AskedShape, h
<1>10. Covers(v)
  BY <1>3, <1>4 DEF WalkInv, Covers, h, s
<1> QED  BY <1>7, <1>8, <1>9, <1>10 DEF WalkInv

\* The fronted second dial of the direct route.
LEMMA FrontKeeps ==
  ASSUME NEW w, WalkInv(w), w.dial = "plain", Head(w.todo) = Step("direct"), setup.front,
         NEW v, DOMAIN v = Fields, v.todo = w.todo, v.skipped = w.skipped, v.route = w.route,
         v.asked = Append(w.asked, Front), v.dial = "front"
  PROVE  WalkInv(v)
<1> DEFINE s == w.todo
           a == w.asked
<1>1. /\ a \in Seq(Routes \cup {Front}) /\ Front \in Routes \cup {Front}
      /\ s \in Seq(Routes \cup PoolMarks) /\ s # <<>> /\ Step("direct") \in AskedIn(w) \cap Routes
  BY DEF WalkInv, WalkTyped, AskedShape
<1>2. /\ Append(a, Front) \in Seq(Routes \cup {Front}) /\ Len(Append(a, Front)) = Len(a) + 1
      /\ Len(a) \in Nat
      /\ \A i \in 1..Len(a) : Append(a, Front)[i] = a[i]
      /\ Append(a, Front)[Len(a) + 1] = Front
      /\ Range(Append(a, Front)) = Range(a) \cup {Front}
  BY <1>1, AppendFacts
<1>3. Len(s) \in Nat /\ Len(s) > 0 /\ Head(s) = s[1] /\ Range(s) = {Head(s)} \cup Range(Tail(s))
  BY <1>1, TailFacts
<1>4. AskedIn(v) = AskedIn(w) \cup {Front} /\ AskedIn(w) = {a[i] : i \in 1..Len(a)}
  BY <1>1, <1>2, AskedRange, RangeEquality
<1>5. Front \notin AskedIn(w)
  BY DEF WalkInv, AskedShape
<1>6. \A i \in 1..Len(s) : s[i] # Front
  <2>1. Front \notin Routes \cup PoolMarks
    BY TiersApart DEF PoolMarks, Spares, Step, Front
  <2> QED BY <1>1, <2>1, ElementOfSeq
<1> HIDE DEF s, a
<1>7. WalkTyped(v)
  BY <1>2 DEF WalkInv, WalkTyped, a
<1>8. TodoShape(v)
  BY DEF WalkInv, TodoShape
<1>9. AskedShape(v)
  <2>1. \A i, j \in 1..Len(v.asked) : v.asked[i] = v.asked[j] => i = j
    <3>1. \A i, j \in 1..Len(a) : a[i] = a[j] => i = j
      BY DEF WalkInv, AskedShape, a
    <3>2. \A i \in 1..Len(a) : a[i] # Front
      BY <1>4, <1>5
    <3>3. v.asked = Append(a, Front)
      BY DEF a
    <3> QED BY <1>2, <3>1, <3>2, <3>3
  <2>2. \A i \in 1..Len(v.todo) : v.todo[i] \in AskedIn(v) => i = 1 /\ v.dial # "no"
    BY <1>4, <1>6 DEF WalkInv, AskedShape, s
  <2> QED BY <1>1, <1>4, <2>1, <2>2 DEF AskedShape, WalkInv, s
<1>10. Covers(v)
  <2>1. Step("look") \notin Range(w.todo)
    BY <1>1, ConfiguredRoutes DEF WalkInv, Covers
  <2> QED  BY <1>4, <2>1 DEF WalkInv, Covers
<1> QED  BY <1>7, <1>8, <1>9, <1>10 DEF WalkInv

\* A ladder that is entered, after what has been asked before it.
LEMMA LadderKeeps ==
  ASSUME NEW w, WalkInv(w), w.dial = "no",
         NEW v, DOMAIN v = Fields, v.skipped = w.skipped, v.route = w.route, v.asked = w.asked,
         v.dial = w.dial, v.fronted = w.fronted,
         NEW R \in SUBSET Routes, NEW m, Ladder(v.todo, R, m),
         R \cap AskedIn(w) = {},
         m = Step("look") => /\ setup.target /\ ~setup.test /\ R = Early /\ AskedIn(w) = {},
         m = Step("tcp") => Configured \subseteq R \cup AskedIn(w) \cup w.skipped,
         m \in {Step("look"), Step("tcp")}
  PROVE  WalkInv(v)
<1>1. AskedIn(v) = AskedIn(w)
  BY AskedRange
<1> DEFINE t == v.todo
<1>2. t \in Seq(Routes \cup PoolMarks) /\ Range(t) = {t[i] : i \in 1..Len(t)}
  BY RangeEquality DEF Ladder
<1>3. \A x \in PoolMarks \ Spares : x \in Range(t) => x = m
  <2> SUFFICES ASSUME NEW i \in 1..Len(t), t[i] \in PoolMarks \ Spares  PROVE t[i] = m
    BY <1>2
  <2> QED  BY DEF Ladder
<1>4. WalkTyped(v)
  BY <1>2 DEF WalkInv, WalkTyped
<1>5. TodoShape(v)
  BY DEF Ladder, TodoShape
<1>6. AskedShape(v)
  <2>1. \A i \in 1..Len(t) : t[i] \notin AskedIn(w)
    <3> SUFFICES ASSUME NEW i \in 1..Len(t), t[i] \in AskedIn(w)  PROVE FALSE
      OBVIOUS
    <3>1. AskedIn(w) \subseteq Routes \cup {Front}
      BY AskedRange, RangeOfSeq DEF WalkInv, WalkTyped
    <3>2. t[i] \in Routes \cup PoolMarks /\ Front \notin PoolMarks
      BY <1>2 DEF PoolMarks, Spares, Step, Front
    <3>3. t[i] \in Routes
      BY <3>1, <3>2
    <3>4. t[i] \in R
      BY <1>2, <3>3 DEF Ladder
    <3> QED BY <3>4
  <2> QED BY <1>1, <2>1 DEF WalkInv, AskedShape
<1>7. Covers(v)
  <2>1. Range(t) \cap Routes = R
    BY DEF Ladder
  <2>2. CASE m = Step("look")
    BY <1>1, <1>3, <2>1, <2>2, Resorts DEF Covers, WalkInv
  <2>3. CASE m = Step("tcp")
    BY <1>1, <1>3, <2>1, <2>3, Resorts DEF Covers, WalkInv
  <2> QED  BY <2>2, <2>3
<1> QED  BY <1>4, <1>5, <1>6, <1>7 DEF WalkInv

\* The walks, the routes they share the cooling of, and the configuration they keep.
RouteInv ==
  /\ setup \in Setups
  /\ cooling \subseteq {Front} \cup Shared
  /\ sticky \in BOOLEAN /\ (sticky => setup.front)
  /\ DOMAIN walk = Router
  /\ \A c \in Router : WalkInv(walk[c])

\* A walk that has not begun.
LEMMA RestingHolds == WalkInv(Resting)
<1> DEFINE w == Resting
<1>1. /\ DOMAIN w = Fields /\ w.todo = <<>> /\ w.asked = <<>> /\ w.skipped = {} /\ w.dial = "no"
      /\ w.fronted = FALSE /\ w.route = "none"
  BY DEF Resting, Fields
<1>2. AskedIn(w) = {} /\ Range(<<>>) = {} /\ Len(<<>>) = 0
  BY <1>1, AskedRange DEF Range
<1> HIDE DEF w
<1>3. WalkInv(w)
  BY <1>1, <1>2 DEF WalkInv, WalkTyped, TodoShape, AskedShape, Covers
<1> QED BY <1>3 DEF w

\* The invariant of a walk depends on the configuration alone.
LEMMA Frozen ==
  ASSUME UNCHANGED setup, NEW w  PROVE WalkInv(w)' <=> WalkInv(w)
BY DEF WalkInv, WalkTyped, TodoShape, AskedShape, Covers, Routes, Workers, Proxies, CfRoute,
       DirectRoute, Early, Configured, PoolMarks, Spares, Worker, Proxy, Step, Front, AskedIn, Range, Fields

\* One walk moves to v, the others stay.
LEMMA WalkMoves ==
  ASSUME RouteInv, NEW c \in Router, NEW v, WalkInv(v), walk' = [walk EXCEPT ![c] = v],
         UNCHANGED setup,
         cooling' \subseteq {Front} \cup Shared, sticky' \in BOOLEAN, sticky' => setup.front
  PROVE  RouteInv'
<1>1. ASSUME NEW d \in Router  PROVE WalkInv(walk[d])'
  <2>1. PICK x : x = walk'[d]
    OBVIOUS
  <2>2. WalkInv(x)
    BY <2>1 DEF RouteInv
  <2>3. WalkInv(x)'
    BY <2>2, Frozen
  <2> QED  BY <2>1, <2>3
<1>2. Shared' = Shared
  BY DEF Shared, Worker, Proxy, Front, Ws, Ip, Step
<1> QED BY <1>1, <1>2 DEF RouteInv, Front, Step

\* Where a walk stands.
LEMMA HeadHere ==
  ASSUME RouteInv, NEW c \in Router, Walking(c)
  PROVE  /\ walk[c].todo # <<>> /\ Here(c) = Head(walk[c].todo)
         /\ Here(c) \in Routes \cup PoolMarks
         /\ Here(c) \in Range(walk[c].todo)
         /\ walk[c].todo \in Seq(Routes \cup PoolMarks)
<1>1. walk[c].todo # <<>> /\ Here(c) = Head(walk[c].todo) /\ walk[c].todo \in Seq(Routes \cup PoolMarks)
  BY DEF Walking, Here, RouteInv, WalkInv, WalkTyped
<1> QED BY <1>1, TailFacts

\* Which tiers are routes.
LEMMA TierOf ==
  ASSUME NEW r \in Routes \cup PoolMarks
  PROVE  /\ r.tier \in {"worker", "proxy", "cf", "direct"} <=> r \in Routes
         /\ r.tier \in {"spare", "pool", "look", "tcp", "nowhere"} <=> r \in PoolMarks
         /\ r.tier = "worker" <=> r \in Workers
         /\ r.tier = "proxy" <=> r \in Proxies
         /\ r.tier = "direct" <=> r = Step("direct")
         /\ r.tier = "tcp" <=> r = Step("tcp")
         /\ r.tier = "look" <=> r = Step("look")
BY DEF Workers, Proxies, CfRoute, DirectRoute, Routes, PoolMarks, Spares, Worker, Proxy, Step

\* All but the direct route have a cooldown.
LEMMA SharedHas == Workers \cup Proxies \cup {Ws, Ip} \subseteq Shared /\ (setup.front => Front \in Shared)
BY DEF Workers, Proxies, Shared

\* A walk that begins has every configured route before it.
LEMMA BeginsKeeps ==
  ASSUME RouteInv, NEW c \in Router, WalkBegins(c)  PROVE RouteInv'
<1>1. PICK f \in 0..setup.workers : walk' = [walk EXCEPT ![c] = [Resting EXCEPT !.todo = Plan(f)]]
  BY DEF WalkBegins
<1>2. PICK v : v = [Resting EXCEPT !.todo = Plan(f)]
  OBVIOUS
<1>3. PICK w : w = Resting
  OBVIOUS
<1>4. WalkInv(w)
  BY <1>3, RestingHolds
<1>5. /\ DOMAIN w = Fields /\ w.skipped = {} /\ w.asked = <<>> /\ w.dial = "no" /\ w.route = "none"
      /\ DOMAIN v = Fields /\ v.skipped = {} /\ v.asked = <<>> /\ v.dial = "no" /\ v.route = "none"
      /\ v.fronted = w.fronted /\ v.fronted = FALSE /\ v.todo = Plan(f)
  BY <1>2, <1>3 DEF Resting, Fields
<1>6. AskedIn(w) = {} /\ AskedIn(v) = {}
  BY <1>5 DEF AskedIn
<1>7. setup \in SetupType
  BY RoutingAssumption DEF RouteInv
<1>8. WalkInv(v)
  <2>1. CASE Ladder(Plan(f), Configured, Step("tcp"))
    <3> DEFINE R == Configured
               m == Step("tcp")
    <3>1. R \in SUBSET Routes /\ R \cap AskedIn(w) = {}
      BY <1>6, ConfiguredRoutes
    <3>2. Ladder(v.todo, R, m)
      BY <1>5, <2>1
    <3>3. m # Step("look") /\ R \subseteq R \cup AskedIn(w) \cup w.skipped
      BY Resorts
    <3> HIDE DEF R, m
    <3>4. m = Step("tcp") /\ Configured = R
      BY DEF R, m
    <3> QED BY <1>4, <1>5, <3>1, <3>2, <3>3, <3>4, LadderKeeps
  <2>2. CASE setup.target /\ ~setup.test /\ Ladder(Plan(f), Early, Step("look"))
    <3> DEFINE R == Early
               m == Step("look")
    <3>1. R \in SUBSET Routes /\ R \cap AskedIn(w) = {}
      BY <1>6, ConfiguredRoutes
    <3>2. Ladder(v.todo, R, m)
      BY <1>5, <2>2
    <3>3. m # Step("tcp") /\ m = Step("look") /\ R = Early
      BY Resorts
    <3> HIDE DEF R, m
    <3> QED BY <1>4, <1>5, <1>6, <2>2, <3>1, <3>2, <3>3, LadderKeeps
  <2>3. CASE Plan(f) = <<Step("nowhere")>>
    <3>1. v.todo = <<Step("nowhere")>> /\ <<Step("nowhere")>> \in Seq(Routes \cup PoolMarks)
          /\ Len(<<Step("nowhere")>>) = 1 /\ <<Step("nowhere")>>[1] = Step("nowhere")
          /\ Range(<<Step("nowhere")>>) = {Step("nowhere")}
      BY <1>5, <2>3, Resorts DEF Range
    <3>2. Len(v.asked) = 0
      BY <1>5
    <3> QED BY <1>5, <1>6, <3>1, <3>2, Resorts, TiersApart
            DEF WalkInv, WalkTyped, TodoShape, AskedShape, Covers
  <2> QED BY <1>1, <1>7, <2>1, <2>2, <2>3, PlanLadder
<1> QED BY <1>1, <1>2, <1>8, WalkMoves DEF WalkBegins, RouteInv

\* After the look at the address come the routes not yet asked.
LEMMA LooksKeeps ==
  ASSUME RouteInv, NEW c \in Router, Looks(c)  PROVE RouteInv'
<1>1. PICK f \in 0..setup.workers : walk' = [walk EXCEPT ![c].todo = AfterLook(f, Ip \in cooling)]
  BY DEF Looks
<1>2. PICK w : w = walk[c]
  OBVIOUS
<1>3. PICK v : v = [w EXCEPT !.todo = AfterLook(f, Ip \in cooling)]
  OBVIOUS
<1>4. WalkInv(w) /\ walk' = [walk EXCEPT ![c] = v]
  BY <1>1, <1>2, <1>3 DEF RouteInv
<1>5. Step("look") \in Range(w.todo) /\ Head(w.todo) = Step("look") /\ w.todo # <<>>
  BY <1>2, HeadHere, TierOf DEF Looks, AtTier, Here
<1>6. setup.target /\ ~setup.test /\ AskedIn(w) \subseteq Early
      /\ Early \subseteq AskedIn(w) \cup w.skipped \cup Range(w.todo)
  BY <1>4, <1>5 DEF WalkInv, Covers
<1>7. w.dial = "no"
  <2>1. Head(w.todo) \notin Routes
    BY <1>5, Resorts, TiersApart
  <2> QED BY <1>4, <2>1 DEF WalkInv, AskedShape
<1>8. Range(w.todo) = {Step("look")}
  BY <1>4, <1>5, LastIsAll, Resorts
<1>9. Step("look") \notin Routes
  BY Resorts, TiersApart
<1>10. /\ DOMAIN v = Fields /\ v.skipped = w.skipped /\ v.route = w.route /\ v.asked = w.asked
       /\ v.dial = w.dial /\ v.fronted = w.fronted /\ v.todo = AfterLook(f, Ip \in cooling)
  BY <1>3, <1>4 DEF WalkInv, WalkTyped, Fields
<1>11. WalkInv(v)
  <2> DEFINE R == Configured \ Early
             m == Step("tcp")
  <2>1. R \in SUBSET Routes /\ R \cap AskedIn(w) = {}
    BY <1>6, ConfiguredRoutes
  <2>2. Ladder(v.todo, R, m)
    BY <1>6, <1>10, AfterLookLadder, RoutingAssumption DEF RouteInv
  <2>3. Configured \subseteq R \cup AskedIn(w) \cup w.skipped
    BY <1>6, <1>8, <1>9, ConfiguredRoutes
  <2> HIDE DEF R
  <2> QED BY <1>4, <1>7, <1>10, <2>1, <2>2, <2>3, LadderKeeps, Resorts
<1> QED BY <1>4, <1>11, WalkMoves DEF Looks, RouteInv

\* A spare connection taken, or none there.
LEMMA SparesKeep ==
  ASSUME RouteInv, NEW c \in Router, TriesSpare(c)  PROVE RouteInv'
<1>1. PICK w : w = walk[c]
  OBVIOUS
<1>2. WalkInv(w)
  BY <1>1 DEF RouteInv
<1>3. Head(w.todo) \notin Routes /\ w.todo # <<>>
  BY <1>1, HeadHere, TierOf DEF TriesSpare, AtTier, Here
<1>4. WalkInv(Onward(w))
  BY <1>2, <1>3, OnwardKeeps
<1>5. WalkInv(By(w, "spare"))
  BY <1>2, ByKeeps
<1>6. CASE walk' = [walk EXCEPT ![c] = Onward(@)]
  <2>1. PICK v : v = Onward(w)
    OBVIOUS
  <2>2. WalkInv(v) /\ walk' = [walk EXCEPT ![c] = v]
    BY <1>1, <1>4, <1>6, <2>1 DEF RouteInv
  <2> QED BY <2>2, WalkMoves DEF TriesSpare, RouteInv
<1>7. CASE walk' = [walk EXCEPT ![c] = By(@, "spare")]
  <2>1. PICK v : v = By(w, "spare")
    OBVIOUS
  <2>2. WalkInv(v) /\ walk' = [walk EXCEPT ![c] = v]
    BY <1>1, <1>5, <1>7, <2>1 DEF RouteInv
  <2> QED BY <2>2, WalkMoves DEF TriesSpare, RouteInv
<1> QED BY <1>6, <1>7 DEF TriesSpare

\* A route that cools down is passed over.
LEMMA SkipsKeep ==
  ASSUME RouteInv, NEW c \in Router, Skips(c)  PROVE RouteInv'
<1>1. PICK w : w = walk[c]
  OBVIOUS
<1>2. WalkInv(w)
  BY <1>1 DEF RouteInv
<1>3. PICK h : h = Here(c)
  OBVIOUS
<1>4. Head(w.todo) = h /\ w.todo # <<>> /\ h \in Routes
  BY <1>1, <1>3, HeadHere, TierOf DEF Skips, HasCooldown, AtTier, Here
<1>5. PICK u : u = Over(w, h)
  OBVIOUS
<1>6. WalkInv(u) /\ u.todo = w.todo /\ h \in u.skipped
  BY <1>2, <1>4, <1>5, SkipKeeps DEF Over
<1>7. PICK v : v = Onward(u)
  OBVIOUS
<1>8. WalkInv(v)
  BY <1>4, <1>6, <1>7, OnwardKeeps
<1>9. walk' = [walk EXCEPT ![c] = v]
  BY <1>1, <1>3, <1>5, <1>7, Zenon DEF Skips
<1> QED BY <1>8, <1>9, WalkMoves DEF Skips, RouteInv

\* A route is asked for the first time: it has not been asked before.
LEMMA AsksKeep ==
  ASSUME RouteInv, NEW c \in Router, Asks(c)  PROVE RouteInv'
<1>1. PICK w : w = walk[c]
  OBVIOUS
<1>2. WalkInv(w)
  BY <1>1 DEF RouteInv
<1>3. PICK h : h = Here(c)
  OBVIOUS
<1>4. Head(w.todo) = h /\ w.todo # <<>> /\ h \in Routes /\ w.dial = "no"
  BY <1>1, <1>3, HeadHere, TierOf DEF Asks, HasCooldown, AtTier, Here, Dialling
<1>5. PICK v : v = [Dials(w, h, "plain") EXCEPT !.probing = Ws \in cooling,
                                                !.fronted = sticky /\ setup.front]
  OBVIOUS
<1>6. /\ DOMAIN v = Fields /\ v.todo = w.todo /\ v.skipped = w.skipped /\ v.route = w.route
      /\ v.asked = Append(w.asked, h) /\ v.dial = "plain" /\ v.fronted = (sticky /\ setup.front)
  BY <1>2, <1>5 DEF WalkInv, WalkTyped, Fields, Dials
<1>7. WalkInv(v)
  BY <1>2, <1>4, <1>6, AskKeeps
<1>8. walk' = [walk EXCEPT ![c] = v]
  BY <1>1, <1>3, <1>5, Zenon DEF Asks
<1> QED BY <1>7, <1>8, WalkMoves DEF Asks, RouteInv

\* A route that is being dialled has been asked.
LEMMA DialledWasAsked ==
  ASSUME NEW w, WalkInv(w), w.dial # "no"
  PROVE  WalkInv(Onward(w)) /\ \A r : r # "tcp" => WalkInv(By(w, r))
<1>1. w.todo # <<>> /\ Head(w.todo) \in AskedIn(w)
  BY DEF WalkInv, AskedShape
<1> QED BY <1>1, OnwardKeeps, ByKeeps

\* After a dial the walk goes on, or is over by the route.
LEMMA DialEnds ==
  ASSUME RouteInv, NEW c \in Router, Dialling(c), NEW r, r # "tcp",
         walk' = [walk EXCEPT ![c] = Onward(@)] \/ walk' = [walk EXCEPT ![c] = By(@, r)],
         UNCHANGED setup,
         cooling' \subseteq {Front} \cup Shared, sticky' \in BOOLEAN, sticky' => setup.front
  PROVE  RouteInv'
<1>1. PICK w : w = walk[c]
  OBVIOUS
<1>2. WalkInv(w) /\ w.dial # "no"
  BY <1>1 DEF RouteInv, Dialling
<1>3. CASE walk' = [walk EXCEPT ![c] = Onward(@)]
  <2>1. PICK v : v = Onward(w)
    OBVIOUS
  <2>2. WalkInv(v) /\ walk' = [walk EXCEPT ![c] = v]
    BY <1>1, <1>2, <1>3, <2>1, DialledWasAsked DEF RouteInv
  <2> QED BY <2>2, WalkMoves
<1>4. CASE walk' = [walk EXCEPT ![c] = By(@, r)]
  <2>1. PICK v : v = By(w, r)
    OBVIOUS
  <2>2. WalkInv(v) /\ walk' = [walk EXCEPT ![c] = v]
    BY <1>1, <1>2, <1>4, <2>1, DialledWasAsked DEF RouteInv
  <2> QED BY <2>2, WalkMoves
<1> QED BY <1>3, <1>4

\* A dial of a shared route ends.
LEMMA AnswersKeep ==
  ASSUME RouteInv, NEW c \in Router, Answers(c)  PROVE RouteInv'
<1>1. PICK r : r = Here(c).tier
  OBVIOUS
<1>2. Here(c) \in Routes
  BY HeadHere DEF Answers, Dialling, RouteInv, WalkInv, AskedShape
<1>3. r # "tcp" /\ (HasCooldown(c) => Here(c) \in Shared)
  BY <1>1, <1>2, TierOf, SharedHas DEF HasCooldown, AtTier, Here
<1>4. cooling' \subseteq {Front} \cup Shared
  BY <1>3 DEF Answers, RouteInv
<1>5. walk' = [walk EXCEPT ![c] = Onward(@)] \/ walk' = [walk EXCEPT ![c] = By(@, r)]
  BY <1>1 DEF Answers
<1> QED BY <1>3, <1>4, <1>5, DialEnds DEF Answers, RouteInv

\* The direct route answers.
LEMMA ConnectsKeep ==
  ASSUME RouteInv, NEW c \in Router, DirectConnects(c)  PROVE RouteInv'
<1>1. Dialling(c) /\ walk' = [walk EXCEPT ![c] = By(@, "direct")]
  BY DEF DirectConnects, FrontingWorks, AtTier, Dialling
<1>2. cooling' \subseteq {Front} \cup Shared
  BY DEF DirectConnects, FrontingWorks, RouteInv
<1>3. walk[c].fronted => setup.front
  BY DEF RouteInv, WalkInv, WalkTyped
<1>4. sticky' = sticky \/ (sticky' = TRUE /\ walk[c].fronted)
  BY DEF DirectConnects, FrontingWorks
<1>5. sticky' \in BOOLEAN /\ (sticky' => setup.front)
  <2>1. sticky \in BOOLEAN /\ (sticky => setup.front)
    BY DEF RouteInv
  <2>2. CASE sticky' = sticky
    BY <2>1, <2>2, Zenon
  <2>3. CASE sticky' = TRUE /\ walk[c].fronted
    BY <1>3, <2>3, Zenon
  <2> QED  BY <1>4, <2>2, <2>3
<1>6. UNCHANGED setup
  BY DEF DirectConnects
<1> QED BY <1>1, <1>2, <1>5, <1>6, DialEnds

\* Only routes cool down.
LEMMA CoolingStays ==
  ASSUME RouteInv, NEW w, NEW silent
  PROVE  CoolsDown(w, silent) \subseteq {Front} \cup Shared
BY SharedHas DEF CoolsDown, RouteInv

\* The direct route fails, and the spare address is dialled if it may be.
LEMMA FailsKeep ==
  ASSUME RouteInv, NEW c \in Router, DirectFails(c)  PROVE RouteInv'
<1>1. PICK w : w = walk[c]
  OBVIOUS
<1>2. WalkInv(w) /\ w.dial = "plain" /\ Head(w.todo) = Step("direct") /\ Dialling(c)
  BY <1>1, HeadHere, TierOf DEF DirectFails, AtTier, Here, RouteInv, Dialling
<1>3. CASE /\ setup.front /\ UNCHANGED <<cooling, sticky>>
           /\ \E silent \in BOOLEAN :
                walk' = [walk EXCEPT ![c] = [Dials(@, Front, "front") EXCEPT !.silent = silent]]
  <2>1. PICK silent \in BOOLEAN :
          walk' = [walk EXCEPT ![c] = [Dials(@, Front, "front") EXCEPT !.silent = silent]]
    BY <1>3
  <2>2. PICK v : v = [Dials(w, Front, "front") EXCEPT !.silent = silent]
    OBVIOUS
  <2>3. /\ DOMAIN v = Fields /\ v.todo = w.todo /\ v.skipped = w.skipped /\ v.route = w.route
        /\ v.asked = Append(w.asked, Front) /\ v.dial = "front"
    BY <1>2, <2>2 DEF WalkInv, WalkTyped, Fields, Dials
  <2>4. WalkInv(v)
    BY <1>2, <1>3, <2>3, FrontKeeps
  <2>5. walk' = [walk EXCEPT ![c] = v]
    BY <1>1, <2>1, <2>2, Zenon
  <2> QED BY <1>3, <2>4, <2>5, WalkMoves DEF DirectFails, RouteInv
<1>4. CASE /\ walk' = [walk EXCEPT ![c] = Onward(@)]
           /\ \E silent \in BOOLEAN :
                cooling' = CoolsDown(w, silent) \cup (IF w.fronted THEN {Front} ELSE {})
           /\ sticky' = (sticky /\ ~w.fronted)
  <2>1. cooling' \subseteq {Front} \cup Shared
    BY <1>4, CoolingStays
  <2>2. sticky' \in BOOLEAN /\ (sticky' => setup.front)
    BY <1>4 DEF RouteInv
  <2> QED BY <1>2, <1>4, <2>1, <2>2, DialEnds DEF DirectFails
<1> QED BY <1>1, <1>3, <1>4 DEF DirectFails

\* The spare address answers, or does not.
LEMMA FrontAnswersKeep ==
  ASSUME RouteInv, NEW c \in Router, FrontAnswers(c)  PROVE RouteInv'
<1>1. Dialling(c) /\ setup.front
  BY DEF FrontAnswers, AtTier, Dialling, RouteInv, WalkInv, WalkTyped
<1>2. \/ walk' = [walk EXCEPT ![c] = Onward(@)]
      \/ walk' = [walk EXCEPT ![c] = By(@, "direct")]
  BY DEF FrontAnswers, FrontingWorks
<1>3. cooling' \subseteq {Front} \cup Shared
  BY CoolingStays DEF FrontAnswers, FrontingWorks, RouteInv
<1>4. sticky' \in BOOLEAN
  BY DEF FrontAnswers, FrontingWorks, RouteInv
<1> QED BY <1>1, <1>2, <1>3, <1>4, DialEnds DEF FrontAnswers

\* The walk ends in the plain connection, or nowhere.
LEMMA EndsKeep ==
  ASSUME RouteInv, NEW c \in Router, Ends(c)  PROVE RouteInv'
<1>1. PICK w : w = walk[c]
  OBVIOUS
<1>2. WalkInv(w)
  BY <1>1 DEF RouteInv
<1>3. PICK r : r = Here(c).tier
  OBVIOUS
<1>4. r = "tcp" => w.todo # <<>> /\ Head(w.todo) = Step("tcp")
  BY <1>1, <1>3, HeadHere, TierOf DEF Ends, AtTier, Here
<1>5. PICK v : v = By(w, r)
  OBVIOUS
<1>6. WalkInv(v)
  BY <1>2, <1>4, <1>5, ByKeeps
<1>7. walk' = [walk EXCEPT ![c] = v]
  BY <1>1, <1>3, <1>5 DEF Ends, RouteInv
<1> QED BY <1>6, <1>7, WalkMoves DEF Ends, RouteInv

\* What other clients do to the cooldowns touches no walk.
LEMMA ElsewhereKeeps ==
  ASSUME RouteInv, Elsewhere  PROVE RouteInv'
<1>1. ASSUME NEW d \in Router  PROVE WalkInv(walk[d])'
  <2>1. PICK x : x = walk[d]
    OBVIOUS
  <2>2. WalkInv(x) /\ x = walk'[d]
    BY <2>1 DEF RouteInv, Elsewhere
  <2>3. WalkInv(x)'
    BY <2>2, Frozen DEF Elsewhere
  <2> QED  BY <2>2, <2>3
<1>2. Shared' = Shared /\ Front' = Front
  BY DEF Elsewhere, Shared, Worker, Proxy, Front, Ws, Ip, Step
<1>3. cooling' \subseteq {Front} \cup Shared
  BY DEF Elsewhere, RouteInv
<1>4. sticky' = sticky \/ (sticky' = ~sticky /\ setup.front)
  BY DEF Elsewhere
<1>5. sticky' \in BOOLEAN /\ (sticky' => setup.front)
  <2>1. sticky \in BOOLEAN /\ (sticky => setup.front)
    BY DEF RouteInv
  <2>2. CASE sticky' = sticky
    BY <2>1, <2>2, Zenon
  <2>3. CASE sticky' = ~sticky /\ setup.front
    <3>1. sticky' \in BOOLEAN
      BY <2>3
    <3> QED  BY <2>3, <3>1, Zenon
  <2> QED  BY <1>4, <2>2, <2>3
<1> QED BY <1>1, <1>2, <1>3, <1>5 DEF RouteInv, Elsewhere

\* The invariant holds at first and is kept by every step.
LEMMA RouteInvInductive ==
  /\ RoutingInit => RouteInv
  /\ RouteInv /\ [RoutingNext]_routeVars => RouteInv'
<1>1. RoutingInit => RouteInv
  BY RestingHolds DEF RoutingInit, RouteInv
<1>2. ASSUME RouteInv, UNCHANGED routeVars  PROVE RouteInv'
  <2>1. ASSUME NEW d \in Router  PROVE WalkInv(walk[d])'
    <3>1. PICK x : x = walk[d]
      OBVIOUS
    <3>2. WalkInv(x) /\ x = walk'[d]
      BY <1>2, <3>1 DEF RouteInv, routeVars
    <3>3. WalkInv(x)'
      BY <1>2, <3>2, Frozen DEF routeVars
    <3> QED  BY <3>2, <3>3
  <2>2. Shared' = Shared /\ Front' = Front
    BY <1>2 DEF routeVars, Shared, Worker, Proxy, Front, Ws, Ip, Step
  <2> QED BY <1>2, <2>1, <2>2 DEF RouteInv, routeVars
<1>3. ASSUME RouteInv, NEW c \in Router, WalkStep(c)  PROVE RouteInv'
  BY <1>3, BeginsKeeps, LooksKeeps, SparesKeep, SkipsKeep, AsksKeep, AnswersKeep, ConnectsKeep,
     FailsKeep, FrontAnswersKeep, EndsKeep DEF WalkStep
<1> QED BY <1>1, <1>2, <1>3, ElsewhereKeeps DEF RoutingNext

\* It has the types and both properties of the ladder.
LEMMA RouteInvImplies == RouteInv => RoutingTypeOK /\ LadderComplete /\ AskedOnce
<1> SUFFICES ASSUME RouteInv  PROVE RoutingTypeOK /\ LadderComplete /\ AskedOnce
  OBVIOUS
<1>1. RoutingTypeOK
  BY DEF RouteInv, RoutingTypeOK, WalkInv, WalkTyped
<1>2. LadderComplete
  BY DEF RouteInv, LadderComplete, WalkInv, Covers
<1>3. AskedOnce
  <2>1. \A c \in Router : DOMAIN walk[c].asked = 1..Len(walk[c].asked)
    BY LenProperties DEF RouteInv, WalkInv, WalkTyped
  <2> QED BY <2>1 DEF RouteInv, AskedOnce, WalkInv, AskedShape
<1> QED BY <1>1, <1>2, <1>3

\* Cooldowns are of routes that there are, and the sticky window is only open with
\* a fronting configured, whatever the clients and the failures (RoutingTypeOK).
THEOREM RoutingTyped == RoutingSpec => []RoutingTypeOK
BY RouteInvInductive, RouteInvImplies, PTL DEF RoutingSpec

\* For every configuration, order of answers and cooldown: raw TCP comes only after
\* every configured route has been asked or stepped over (LadderComplete).
THEOREM LadderHolds == RoutingSpec => []LadderComplete
BY RouteInvInductive, RouteInvImplies, PTL DEF RoutingSpec

\* For every configuration: no route is dialled twice in one walk (AskedOnce).
THEOREM AskedOnceHolds == RoutingSpec => []AskedOnce
BY RouteInvInductive, RouteInvImplies, PTL DEF RoutingSpec

----------------------------------------------------------------------------
(* The walk over host names: its turns.                                       *)

\* The turns that are neither doubles nor beyond the list, and their domains.
Fresh == {t \in 0..Turns - 1 : IsFresh(t)}
DomainOf(t) == DomainAt(IndexOf(t))

\* What dial_fronting_ws is given.
Given ==
  /\ list \in Seq(Domain) /\ Len(list) <= MaxDomains
  /\ media \in BOOLEAN
  /\ first \in IF Direct THEN {0} ELSE 0..Len(list) - 1

\* A set of naturals that is not empty has a least one.
LEMMA LeastOf ==
  ASSUME NEW T \in SUBSET Nat, T # {}
  PROVE  \E x \in T : \A y \in T : x <= y
<1> DEFINE R == OpToRel(<, Nat)
<1>1. IsWellFoundedOn(R, Nat)
  BY NatLessThanWellFounded
<1>2. \A x, y \in Nat : <<x, y>> \in R <=> x < y
  BY DEF OpToRel
<1> HIDE DEF R
<1>3. PICK x \in T : \A y \in T : ~(<<y, x>> \in R)
  BY <1>1, WFMin
<1>4. ASSUME NEW y \in T  PROVE x <= y
  <2>1. x \in Nat /\ y \in Nat /\ ~(<<y, x>> \in R)
    BY <1>3
  <2>2. ~(y < x)
    BY <1>2, <2>1
  <2> QED  BY <2>1, <2>2
<1> QED  BY <1>4

\* The turns are bounded: two names for each domain.
LEMMA TurnsNat ==
  ASSUME Given
  PROVE  /\ Turns \in Nat /\ Turns <= 2 * MaxDomains + 2 /\ Len(list) \in Nat
         /\ ~Direct => Len(list) > 0 /\ Turns = 2 * Len(list)
         /\ Direct => Turns = 2
BY CfDialAssumption, EmptySeq, LenProperties DEF Given, Turns, Direct

\* A natural is twice its half and a rest.
LEMMA Halves ==
  ASSUME NEW t \in Nat
  PROVE  /\ t \div 2 \in Nat /\ t % 2 \in {0, 1}
         /\ \E q \in Nat, r \in {0, 1} : q = t \div 2 /\ r = t % 2 /\ t = 2 * q + r
         /\ (2 * t) \div 2 = t /\ (2 * t) % 2 = 0
         /\ (2 * t + 1) \div 2 = t /\ (2 * t + 1) % 2 = 1
<1>1. t \div 2 \in Nat
  OBVIOUS
<1>2. t % 2 \in {0, 1}
  OBVIOUS
<1>3. \E q \in Nat, r \in {0, 1} : q = t \div 2 /\ r = t % 2 /\ t = 2 * q + r
  <2>1. PICK q \in Nat : q = t \div 2
    BY <1>1
  <2>2. PICK r \in Nat : r = t % 2
    BY <1>2
  <2>3. t = 2 * q + r
    BY <2>1, <2>2
  <2> QED  BY <1>2, <2>1, <2>2, <2>3
<1>4. (2 * t) \div 2 = t
  OBVIOUS
<1>5. (2 * t) % 2 = 0
  OBVIOUS
<1>6. (2 * t + 1) \div 2 = t
  OBVIOUS
<1>7. (2 * t + 1) % 2 = 1
  OBVIOUS
<1> QED  BY <1>1, <1>2, <1>3, <1>4, <1>5, <1>6, <1>7

\* A turn is about a domain of the list, or about the direct address.
LEMMA IndexType ==
  ASSUME Given, NEW t \in 0..Turns - 1
  PROVE  /\ IndexOf(t) \in 0..MaxDomains
         /\ ~Direct => IndexOf(t) \in 1..Len(list) /\ DomainOf(t) = list[IndexOf(t)]
         /\ Direct => IndexOf(t) = 0 /\ DomainOf(t) = Telegram
<1>1. CASE Direct
  BY <1>1, CfDialAssumption DEF IndexOf, DomainOf, DomainAt
<1>2. CASE ~Direct
  <2> DEFINE a == first + t \div 2
             n == Len(list)
  <2>1. n \in Nat /\ n > 0 /\ a \in Nat /\ n <= MaxDomains
    BY <1>2, TurnsNat, Halves DEF Given
  <2>2. a % n \in 0..n - 1
    BY <2>1
  <2>3. IndexOf(t) = (a % n) + 1
    BY <1>2 DEF IndexOf
  <2> HIDE DEF a
  <2>4. IndexOf(t) \in 1..n
    BY <2>1, <2>2, <2>3
  <2> QED  BY <1>2, <2>1, <2>4, CfDialAssumption DEF DomainOf, DomainAt
<1> QED  BY <1>1, <1>2

\* The turns of a pair are for one index.
LEMMA PairIndex ==
  ASSUME NEW t \in Nat, NEW s \in Nat, t \div 2 = s \div 2
  PROVE  IndexOf(t) = IndexOf(s) /\ DomainOf(t) = DomainOf(s) /\ (IsFresh(t) <=> IsFresh(s))
BY DEF IndexOf, DomainOf, IsFresh

\* The two turns of a domain have one name each.
LEMMA NamesOfPair ==
  ASSUME Given, NEW t \in Nat, NEW s \in Nat
  PROVE  /\ NameOf(t) \in Names
         /\ NameOf(t) = NameOf(s) <=> t % 2 = s % 2
<1>1. t % 2 \in {0, 1} /\ s % 2 \in {0, 1}
  BY Halves
<1>2. media = TRUE \/ media = FALSE
  BY DEF Given
<1> QED  BY <1>1, <1>2 DEF NameOf, Names

\* A domain has fresh turns at one place of the list only, one for each name.
LEMMA SamePair ==
  ASSUME NEW t \in Fresh, NEW s \in Fresh, Given, DomainOf(t) = DomainOf(s)
  PROVE  t \div 2 = s \div 2
<1>1. t \in Nat /\ s \in Nat
  BY TurnsNat DEF Fresh
<1>2. ASSUME NEW x \in Fresh, NEW y \in Fresh, x \div 2 < y \div 2, x \in Nat, y \in Nat
      PROVE  DomainOf(x) # DomainOf(y)
  <2> DEFINE p == x \div 2
  <2>1. p \in 0..y \div 2 - 1
    BY <1>2, Halves
  <2>2. DomainAt(IndexOf(2 * p)) # DomainAt(IndexOf(y))
    BY <2>1 DEF Fresh, IsFresh
  <2>3. 2 * p \in Nat /\ (2 * p) \div 2 = p
    BY <1>2, Halves
  <2>4. DomainOf(2 * p) = DomainOf(x)
    BY <1>2, <2>3, PairIndex
  <2> QED  BY <2>2, <2>4 DEF DomainOf
<1>3. t \div 2 \in Nat /\ s \div 2 \in Nat
  BY <1>1, Halves
<1>4. ~(t \div 2 < s \div 2) /\ ~(s \div 2 < t \div 2)
  BY <1>1, <1>2
<1> QED  BY <1>3, <1>4

\* Turns that are fresh differ in domain or in name.
LEMMA SameTurn ==
  ASSUME NEW t \in Fresh, NEW s \in Fresh, Given, DomainOf(t) = DomainOf(s), NameOf(t) = NameOf(s)
  PROVE  t = s
<1>1. t \in Nat /\ s \in Nat
  BY TurnsNat DEF Fresh
<1>2. t \div 2 = s \div 2 /\ t % 2 = s % 2
  BY <1>1, SamePair, NamesOfPair
<1>3. PICK q \in Nat, r \in {0, 1} : q = t \div 2 /\ r = t % 2 /\ t = 2 * q + r
  BY <1>1, Halves
<1>4. PICK p \in Nat, u \in {0, 1} : p = s \div 2 /\ u = s % 2 /\ s = 2 * p + u
  BY <1>1, Halves
<1>5. p = q /\ r = u
  BY <1>2, <1>3, <1>4
<1> QED  BY <1>3, <1>4, <1>5

\* A fresh turn for a domain of an index is at that index.
LEMMA SameIndex ==
  ASSUME NEW t \in Fresh, NEW s \in Fresh, Given
  PROVE  IndexOf(t) = IndexOf(s) <=> DomainOf(t) = DomainOf(s)
<1>1. t \in Nat /\ s \in Nat
  BY TurnsNat DEF Fresh
<1> QED  BY <1>1, SamePair, PairIndex DEF DomainOf

\* The next turn is the first that is due.
LEMMA NextTurnIs ==
  ASSUME Given, next \in Nat, Due # {}
  PROVE  /\ NextTurn \in Fresh /\ next <= NextTurn /\ NextTurn \in Nat /\ NextTurn <= Turns - 1
         /\ \A t \in Fresh : t < NextTurn + 1 <=> t < next \/ t = NextTurn
<1>1. Due \subseteq Nat /\ Due = {t \in Fresh : next <= t}
  BY TurnsNat DEF Due, Fresh
<1>2. \E turn \in Due : \A other \in Due : turn <= other
  BY <1>1, LeastOf
<1>3. NextTurn \in Due /\ \A other \in Due : NextTurn <= other
  BY <1>2 DEF NextTurn
<1> HIDE DEF NextTurn
<1>4. NextTurn \in Nat /\ NextTurn \in Fresh /\ next <= NextTurn
  BY <1>1, <1>3
<1>5. \A t \in Fresh : t \in Nat
  BY TurnsNat DEF Fresh
<1>6. ASSUME NEW t \in Fresh  PROVE t < NextTurn + 1 <=> t < next \/ t = NextTurn
  <2>1. t \in Nat /\ (t >= next => NextTurn <= t)
    BY <1>1, <1>3, <1>5
  <2> QED  BY <1>4, <2>1
<1>7. NextTurn <= Turns - 1
  BY <1>4, TurnsNat DEF Fresh
<1> QED  BY <1>4, <1>6, <1>7

\* Every configured domain comes up, at its first place of the rotation.
LEMMA ComesUp ==
  ASSUME Given, NEW i \in IF Direct THEN {0} ELSE DOMAIN list
  PROVE  \E t \in Fresh : /\ t + 1 \in Fresh /\ t % 2 = 0 /\ (t + 1) % 2 = 1
                          /\ DomainOf(t) = DomainAt(i) /\ DomainOf(t + 1) = DomainAt(i)
<1> DEFINE n == Turns \div 2
           T == {k \in 0..n - 1 : DomainOf(2 * k) = DomainAt(i)}
<1>0. n \in Nat /\ Turns = 2 * n /\ n > 0
  BY TurnsNat
<1>1. T # {}
  <2>1. CASE Direct
    <3>1. n = 1 /\ DomainOf(2 * 0) = DomainAt(i)
      BY <2>1, TurnsNat DEF DomainOf, DomainAt, IndexOf
    <3> QED  BY <3>1
  <2>2. CASE ~Direct
    <3>1. n = Len(list) /\ i \in 1..n /\ first \in 0..n - 1
      BY <2>2, TurnsNat, LenProperties DEF Given
    <3> HIDE DEF n
    <3>2. PICK k \in 0..n - 1 : first + k = i - 1 \/ first + k = i - 1 + n
      <4>1. CASE i - 1 >= first
        <5>1. i - 1 - first \in 0..n - 1 /\ first + (i - 1 - first) = i - 1
          BY <1>0, <3>1, <4>1
        <5> QED  BY <5>1
      <4>2. CASE i - 1 < first
        <5>1. i - 1 - first + n \in 0..n - 1 /\ first + (i - 1 - first + n) = i - 1 + n
          BY <1>0, <3>1, <4>2
        <5> QED  BY <5>1
      <4> QED  BY <4>1, <4>2, <1>0, <3>1
    <3>3. (first + k) % n = i - 1
      <4> DEFINE a == first + k
      <4>1. a \in 0..2 * n - 1 /\ (a = i - 1 \/ a = i - 1 + n)
        BY <1>0, <3>1, <3>2
      <4> HIDE DEF a
      <4>2. a % n = IF a < n THEN a ELSE a - n
        BY <1>0, <4>1
      <4>3. a % n = i - 1
        BY <1>0, <3>1, <4>1, <4>2
      <4> QED  BY <4>3 DEF a
    <3>4. (2 * k) \div 2 = k
      BY Halves
    <3>5. IndexOf(2 * k) = i
      BY <2>2, <3>1, <3>3, <3>4 DEF IndexOf
    <3> QED  BY <3>5 DEF DomainOf
  <2> QED  BY <2>1, <2>2
<1> HIDE DEF n
<1>2. T \in SUBSET Nat
  BY <1>0
<1>3. PICK k \in T : \A y \in T : k <= y
  BY <1>1, <1>2, LeastOf
<1>4. k \in Nat /\ k <= n - 1 /\ DomainOf(2 * k) = DomainAt(i)
  BY <1>0, <1>3
<1>5. (2 * k) \div 2 = k /\ (2 * k + 1) \div 2 = k /\ (2 * k) % 2 = 0 /\ (2 * k + 1) % 2 = 1
  BY <1>4, Halves
<1>6. \A prior \in 0..k - 1 : DomainOf(2 * prior) # DomainAt(i)
  <2> SUFFICES ASSUME NEW prior \in 0..k - 1, DomainOf(2 * prior) = DomainAt(i)  PROVE FALSE
    OBVIOUS
  <2>1. prior \in T /\ prior < k /\ prior \in Nat
    BY <1>0, <1>4
  <2>2. k <= prior
    BY <1>3, <2>1
  <2> QED  BY <1>4, <2>1, <2>2
<1>7. IsFresh(2 * k)
  BY <1>4, <1>5, <1>6 DEF IsFresh, DomainOf
<1>8. IsFresh(2 * k + 1) /\ DomainOf(2 * k + 1) = DomainAt(i)
  BY <1>4, <1>5, <1>7, PairIndex
<1>9. 2 * k \in Fresh /\ 2 * k + 1 \in Fresh
  <2>1. 2 * k \in 0..Turns - 1 /\ 2 * k + 1 \in 0..Turns - 1
    BY <1>0, <1>4
  <2> QED  BY <2>1, <1>7, <1>8 DEF Fresh
<1> QED  BY <1>4, <1>5, <1>8, <1>9

----------------------------------------------------------------------------
(* The walk over host names: its tries.                                       *)

\* What a try leaves behind.
TryRecords == [domain : Domain \cup {Telegram}, name : Names, answer : AnswersOfHost]

\* A time-out of the base name.
TimedOut(d) == \E j \in TriesOf(d, "base") : tries[j].answer \in TimeoutAnswers

\* The second try of the base name that is no longer owed.
Again(t) == NameOf(t) = "base" /\ Deserves(DomainOf(t)) /\ forced # IndexOf(t)

\* The turns gone by have been tried, the others have not.
Counts ==
  \A t \in Fresh : Cardinality(TriesOf(DomainOf(t), NameOf(t))) =
                     (IF t < next THEN 1 ELSE 0) + (IF Again(t) THEN 1 ELSE 0)

\* A time-out is remembered.
SlowKept == \A t \in Fresh : <<IndexOf(t), "base">> \in slow <=> TimedOut(DomainOf(t))

\* A second try is owed exactly if the dash name asked for it last.
ForcedTrue ==
  forced # -1 => /\ ~Direct
                 /\ \E t \in Fresh : /\ NameOf(t) = "dash" /\ t < next
                                     /\ forced = IndexOf(t) /\ Deserves(DomainOf(t))

\* A try that counts towards "all redirects".
AsRedirect(i) ==
  \/ tries[i].answer = "redirect"
  \/ tries[i].name = "dash" /\ tries[i].answer = "absent" /\ Deserves(tries[i].domain)

\* The flag is what the tries say.
RedirectsTrue == redirects <=> \A i \in DOMAIN tries : AsRedirect(i)

\* The types of the walk over names.
DialTyped ==
  /\ Given
  /\ next \in 0..Turns /\ forced \in -1..MaxDomains
  /\ slow \subseteq (0..MaxDomains) \X Names
  /\ redirects \in BOOLEAN /\ dialled \in {"walking", "connected", "gave up"}
  /\ tries \in Seq(TryRecords)

\* What holds of every such walk; the counts only until it connects.
DialInv ==
  /\ DialTyped
  /\ dialled # "connected" => Counts /\ SlowKept /\ ForcedTrue /\ RedirectsTrue

\* The turns depend on what is given alone.
LEMMA FrozenDial ==
  ASSUME UNCHANGED <<list, media, first>>
  PROVE  /\ Given' <=> Given
         /\ Turns' = Turns /\ (Direct' <=> Direct) /\ Fresh' = Fresh
BY DEF Given, Turns, Direct, Fresh, IsFresh, DomainAt, IndexOf

\* So does each of them.
LEMMA FrozenTurn ==
  ASSUME UNCHANGED <<list, media, first>>, NEW t
  PROVE  IndexOf(t)' = IndexOf(t) /\ NameOf(t)' = NameOf(t) /\ DomainOf(t)' = DomainOf(t)
BY DEF IndexOf, NameOf, DomainOf, DomainAt, Direct

\* One try more, as a sequence.
LEMMA TriesGrow ==
  ASSUME tries \in Seq(TryRecords), NEW r \in TryRecords, tries' = Append(tries, r)
  PROVE  /\ tries' \in Seq(TryRecords)
         /\ Len(tries) + 1 \notin DOMAIN tries /\ Len(tries) \in Nat
         /\ DOMAIN tries = 1..Len(tries)
         /\ DOMAIN tries' = (DOMAIN tries) \cup {Len(tries) + 1}
         /\ tries'[Len(tries) + 1] = r
         /\ \A i \in DOMAIN tries : tries'[i] = tries[i]
<1>1. DOMAIN tries = 1..Len(tries) /\ Len(tries) \in Nat
  BY LenProperties
<1>2. /\ tries' \in Seq(TryRecords) /\ Len(tries') = Len(tries) + 1
      /\ \A i \in 1..Len(tries) : tries'[i] = tries[i]
      /\ tries'[Len(tries) + 1] = r
  BY AppendProperties
<1>3. DOMAIN tries' = 1..Len(tries')
  BY <1>2, LenProperties
<1> QED  BY <1>1, <1>2, <1>3

\* One try more, counted by domain and name.
LEMMA TriesOfGrow ==
  ASSUME tries \in Seq(TryRecords), NEW r \in TryRecords, tries' = Append(tries, r),
         NEW d, NEW m
  PROVE  /\ TriesOf(d, m)' = TriesOf(d, m) \cup
              (IF r.domain = d /\ r.name = m THEN {Len(tries) + 1} ELSE {})
         /\ Cardinality(TriesOf(d, m)') = Cardinality(TriesOf(d, m))
              + (IF r.domain = d /\ r.name = m THEN 1 ELSE 0)
         /\ Cardinality(TriesOf(d, m)) \in Nat
<1> DEFINE n == Len(tries) + 1
           S == TriesOf(d, m)
<1>1. /\ n \notin DOMAIN tries /\ DOMAIN tries = 1..Len(tries) /\ Len(tries) \in Nat
      /\ DOMAIN tries' = (DOMAIN tries) \cup {n} /\ tries'[n] = r
      /\ \A i \in DOMAIN tries : tries'[i] = tries[i]
  BY TriesGrow
<1>2. S' = S \cup (IF r.domain = d /\ r.name = m THEN {n} ELSE {})
  BY <1>1 DEF TriesOf
<1>3. IsFiniteSet(S) /\ n \notin S
  <2>1. S \subseteq 1..Len(tries)
    BY <1>1 DEF TriesOf
  <2>2. IsFiniteSet(1..Len(tries))
    BY <1>1, FS_Interval
  <2> QED  BY <1>1, <2>1, <2>2, FS_Subset
<1>4. Cardinality(S) \in Nat
  BY <1>3, FS_CardinalityType
<1> HIDE DEF S, n
<1>5. Cardinality(S') = Cardinality(S) + (IF r.domain = d /\ r.name = m THEN 1 ELSE 0)
  <2>1. CASE r.domain = d /\ r.name = m
    <3>1. S' = S \cup {n}
      BY <1>2, <2>1
    <3>2. Cardinality(S \cup {n}) = Cardinality(S) + 1
      BY <1>3, FS_AddElement
    <3> QED  BY <2>1, <3>1, <3>2
  <2>2. CASE ~(r.domain = d /\ r.name = m)
    <3>1. S' = S
      BY <1>2, <2>2
    <3> QED  BY <1>4, <2>2, <3>1
  <2> QED  BY <2>1, <2>2
<1> QED  BY <1>2, <1>4, <1>5 DEF S, n

\* One try more, as a time-out.
LEMMA TimedOutGrow ==
  ASSUME tries \in Seq(TryRecords), NEW r \in TryRecords, tries' = Append(tries, r), NEW d
  PROVE  TimedOut(d)' <=> \/ TimedOut(d)
                          \/ r.domain = d /\ r.name = "base" /\ r.answer \in TimeoutAnswers
<1>1. /\ Len(tries) + 1 \notin DOMAIN tries /\ tries'[Len(tries) + 1] = r
      /\ \A i \in DOMAIN tries : tries'[i] = tries[i]
  BY TriesGrow
<1>2. TriesOf(d, "base")' = TriesOf(d, "base") \cup
              (IF r.domain = d /\ r.name = "base" THEN {Len(tries) + 1} ELSE {})
  BY TriesOfGrow
<1>3. TriesOf(d, "base") \subseteq DOMAIN tries
  BY DEF TriesOf
<1> QED  BY <1>1, <1>2, <1>3 DEF TimedOut, TimeoutAnswers

\* One try more, as a claim to a second one.
LEMMA DeservesGrow ==
  ASSUME tries \in Seq(TryRecords), NEW r \in TryRecords, tries' = Append(tries, r), NEW d,
         UNCHANGED list
  PROVE  Deserves(d)' <=> \/ Deserves(d)
                          \/ /\ ~Direct /\ r.domain = d /\ r.name = "dash" /\ r.answer = "absent"
                             /\ ~TimedOut(d)
<1> DEFINE n == Len(tries) + 1
           B == TriesOf(d, "base")
           D == TriesOf(d, "dash")
<1>1. /\ n \notin DOMAIN tries /\ tries'[n] = r /\ DOMAIN tries = 1..Len(tries) /\ Len(tries) \in Nat
      /\ \A i \in DOMAIN tries : tries'[i] = tries[i]
  BY TriesGrow
<1>2. /\ B' = B \cup (IF r.domain = d /\ r.name = "base" THEN {n} ELSE {})
      /\ D' = D \cup (IF r.domain = d /\ r.name = "dash" THEN {n} ELSE {})
  BY TriesOfGrow
<1>3. B \subseteq DOMAIN tries /\ D \subseteq DOMAIN tries
  BY DEF TriesOf
<1>4. Direct' <=> Direct
  BY DEF Direct
<1>5. Deserves(d) <=> ~Direct /\ \E i \in D : tries[i].answer = "absent" /\ \A j \in B : j < i => tries[j].answer \notin TimeoutAnswers
  BY DEF Deserves
<1>6. Deserves(d)' <=> ~Direct' /\ \E i \in D' : tries'[i].answer = "absent" /\ \A j \in B' : j < i => tries'[j].answer \notin TimeoutAnswers
  BY DEF Deserves
<1>7. TimedOut(d) <=> \E j \in B : tries[j].answer \in TimeoutAnswers
  BY DEF TimedOut
<1> DEFINE Good(i) == tries[i].answer = "absent" /\ \A j \in B : j < i => tries[j].answer \notin TimeoutAnswers
           Good2(i) == tries'[i].answer = "absent" /\ \A j \in B' : j < i => tries'[j].answer \notin TimeoutAnswers
<1>8. ASSUME NEW i \in D  PROVE Good2(i) <=> Good(i)
  <2>1. i \in DOMAIN tries /\ i \in Nat /\ i < n
    BY <1>1, <1>3
  <2>2. \A j \in B' : j < i => j \in B
    BY <1>2, <2>1, <1>1
  <2>3. \A j \in B : tries'[j] = tries[j] /\ j \in B'
    BY <1>1, <1>2, <1>3
  <2> QED  BY <1>1, <2>1, <2>2, <2>3
<1>9. n \in D' => (Good2(n) <=> r.answer = "absent" /\ ~TimedOut(d))
  <2> SUFFICES ASSUME n \in D'  PROVE Good2(n) <=> r.answer = "absent" /\ ~TimedOut(d)
    OBVIOUS
  <2>1. B' = B
    BY <1>1, <1>2, <1>3
  <2>2. \A j \in B : tries'[j] = tries[j] /\ j < n
    BY <1>1, <1>3
  <2> QED  BY <1>1, <1>7, <2>1, <2>2
<1>10. n \in D' <=> r.domain = d /\ r.name = "dash"
  BY <1>1, <1>2, <1>3
<1>11. Deserves(d) <=> ~Direct /\ \E i \in D : Good(i)
  BY <1>5
<1>12. Deserves(d)' <=> ~Direct /\ \E i \in D' : Good2(i)
  BY <1>4, <1>6
<1> HIDE DEF n, B, D, Good, Good2
<1>13. (\E i \in D' : Good2(i)) <=> (\E i \in D : Good(i)) \/ (n \in D' /\ Good2(n))
  BY <1>2, <1>8
<1> QED  BY <1>9, <1>10, <1>11, <1>12, <1>13

\* The counts after a try that does not change what was owed but for turn t0.
LEMMA TurnTry ==
  ASSUME DialTyped, Counts, SlowKept, ForcedTrue, RedirectsTrue, forced = -1, Due # {},
         NEW r \in TryRecords, NEW t0, t0 = NextTurn, tries' = Append(tries, r),
         r.domain = DomainOf(t0), r.name = NameOf(t0), NEW retry \in BOOLEAN,
         retry <=> ~Direct /\ r.answer = "absent" /\ r.name = "dash" /\ <<IndexOf(t0), "base">> \notin slow,
         next' = NextTurn + 1, forced' = (IF retry THEN IndexOf(t0) ELSE -1),
         slow' = (IF r.answer \in TimeoutAnswers THEN slow \cup {<<IndexOf(t0), NameOf(t0)>>} ELSE slow),
         redirects' = (redirects /\ (r.answer = "redirect" \/ retry)),
         UNCHANGED <<list, media, first>>
  PROVE  Counts' /\ SlowKept' /\ ForcedTrue' /\ RedirectsTrue'
<1>g. Given
  BY DEF DialTyped
<1>0. next \in Nat /\ Turns \in Nat /\ tries \in Seq(TryRecords)
  <2>1. Turns \in Nat
    BY <1>g, TurnsNat
  <2>2. next \in 0..Turns /\ tries \in Seq(TryRecords)
    BY DEF DialTyped
  <2> QED  BY <2>1, <2>2
<1>1. /\ t0 \in Fresh /\ next <= t0 /\ t0 \in Nat
      /\ \A t \in Fresh : t < t0 + 1 <=> t < next \/ t = t0
  BY <1>g, <1>0, NextTurnIs
<1>2. DomainOf(t0) = r.domain /\ IndexOf(t0) \in 0..MaxDomains
  BY <1>1, <1>g, IndexType DEF Fresh
<1>3. /\ \A t \in Fresh : t \in Nat
      /\ \A t \in Fresh : DomainOf(t) = DomainOf(t0) <=> IndexOf(t) = IndexOf(t0)
      /\ \A t \in Fresh : DomainOf(t) = DomainOf(t0) /\ NameOf(t) = NameOf(t0) <=> t = t0
  BY <1>g, <1>0, <1>1, SameTurn, SameIndex DEF Fresh
<1>f. Fresh' = Fresh
  BY FrozenDial
<1>d. r.name = "dash" => ~Deserves(DomainOf(t0))
  <2> SUFFICES ASSUME r.name = "dash"  PROVE ~Deserves(DomainOf(t0))
    OBVIOUS
  <2>1. Cardinality(TriesOf(DomainOf(t0), "dash")) = 0
    <3>1. NameOf(t0) = "dash" /\ ~(t0 < next)
      BY <1>0, <1>1
    <3>2. ~Again(t0)
      BY <3>1 DEF Again
    <3>3. Cardinality(TriesOf(DomainOf(t0), NameOf(t0))) =
                     (IF t0 < next THEN 1 ELSE 0) + (IF Again(t0) THEN 1 ELSE 0)
      BY <1>1 DEF Counts
    <3> QED  BY <3>1, <3>2, <3>3
  <2>2. IsFiniteSet(TriesOf(DomainOf(t0), "dash"))
    <3>1. DOMAIN tries = 1..Len(tries) /\ Len(tries) \in Nat
      BY <1>0, LenProperties
    <3>2. IsFiniteSet(DOMAIN tries)
      BY <3>1, FS_Interval
    <3> QED  BY <3>2, FS_Subset DEF TriesOf
  <2>3. TriesOf(DomainOf(t0), "dash") = {}
    BY <2>1, <2>2, FS_EmptySet
  <2> QED  BY <2>3 DEF Deserves
<1>s. <<IndexOf(t0), "base">> \in slow <=> TimedOut(DomainOf(t0))
  BY <1>1 DEF SlowKept
\* What becomes of each domain.
<1>4. ASSUME NEW d
      PROVE  /\ Deserves(d)' <=> Deserves(d) \/ (retry /\ d = r.domain)
             /\ TimedOut(d)' <=> TimedOut(d) \/ (d = r.domain /\ r.name = "base" /\ r.answer \in TimeoutAnswers)
  BY <1>0, <1>2, <1>s, DeservesGrow, TimedOutGrow
<1>5. ASSUME NEW t \in Fresh
      PROVE  /\ Cardinality(TriesOf(DomainOf(t), NameOf(t)))'
                  = (IF t < next THEN 1 ELSE 0) + (IF Again(t) THEN 1 ELSE 0) + (IF t = t0 THEN 1 ELSE 0)
             /\ Again(t)' <=> Again(t)
             /\ (t < next)' <=> t < next \/ t = t0
  <2>1. IndexOf(t)' = IndexOf(t) /\ NameOf(t)' = NameOf(t) /\ DomainOf(t)' = DomainOf(t)
    BY FrozenTurn
  <2>2. PICK d : d = DomainOf(t)
    OBVIOUS
  <2>3. PICK m : m = NameOf(t)
    OBVIOUS
  <2>4. Cardinality(TriesOf(d, m)') = Cardinality(TriesOf(d, m)) + (IF r.domain = d /\ r.name = m THEN 1 ELSE 0)
    BY <1>0, TriesOfGrow
  <2>5. r.domain = d /\ r.name = m <=> t = t0
    BY <1>2, <1>3, <2>2, <2>3
  <2>6. Cardinality(TriesOf(d, m)) = (IF t < next THEN 1 ELSE 0) + (IF Again(t) THEN 1 ELSE 0)
    BY <2>2, <2>3 DEF Counts
  <2>7. d = DomainOf(t)' /\ m = NameOf(t)'
    BY <2>1, <2>2, <2>3
  <2>8. Cardinality(TriesOf(DomainOf(t), NameOf(t)))'
                  = (IF t < next THEN 1 ELSE 0) + (IF Again(t) THEN 1 ELSE 0) + (IF t = t0 THEN 1 ELSE 0)
    BY <2>4, <2>5, <2>6, <2>7
  <2>9. Again(t) <=> m = "base" /\ Deserves(d)
    <3>1. IndexOf(t) # -1
      BY <1>g, IndexType, CfDialAssumption DEF Fresh
    <3> QED  BY <2>2, <2>3, <3>1 DEF Again
  <2>10. Again(t)' <=> m = "base" /\ Deserves(d)' /\ forced' # IndexOf(t)
    BY <2>1, <2>7 DEF Again
  <2>11. Deserves(d)' <=> Deserves(d) \/ (retry /\ d = r.domain)
    BY <1>4
  <2>12. Again(t)' <=> Again(t)
    <3>1. IndexOf(t) # -1
      BY <1>g, IndexType, CfDialAssumption DEF Fresh
    <3>2. d = r.domain <=> IndexOf(t) = IndexOf(t0)
      BY <1>2, <1>3, <2>2
    <3>3. CASE retry
      <4>1. ~Deserves(r.domain)
        BY <1>d, <3>3, <1>2
      <4> QED  BY <2>9, <2>10, <2>11, <3>2, <3>3, <4>1
    <3>4. CASE ~retry
      BY <2>9, <2>10, <2>11, <3>1, <3>4
    <3> QED  BY <3>3, <3>4
  <2>13. (t < next)' <=> t < next \/ t = t0
    BY <1>1
  <2> QED  BY <2>8, <2>12, <2>13
<1>6. Counts'
  <2>1. ASSUME NEW t \in Fresh
        PROVE  Cardinality(TriesOf(DomainOf(t), NameOf(t)))' = (IF (t < next)' THEN 1 ELSE 0) + (IF Again(t)' THEN 1 ELSE 0)
    BY <1>0, <1>1, <1>3, <1>5
  <2> QED  BY <1>f, <2>1 DEF Counts
<1>7. SlowKept'
  <2>1. ASSUME NEW t \in Fresh
        PROVE  <<IndexOf(t)', "base">> \in slow' <=> TimedOut(DomainOf(t))'
    <3>1. IndexOf(t)' = IndexOf(t) /\ DomainOf(t)' = DomainOf(t)
      BY FrozenTurn
    <3>2. PICK d : d = DomainOf(t)
      OBVIOUS
    <3>3. TimedOut(d)' <=> TimedOut(d) \/ (d = r.domain /\ r.name = "base" /\ r.answer \in TimeoutAnswers)
      BY <1>4
    <3>4. <<IndexOf(t), "base">> \in slow <=> TimedOut(d)
      BY <3>2 DEF SlowKept
    <3>5. d = r.domain <=> IndexOf(t) = IndexOf(t0)
      BY <1>2, <1>3, <3>2
    <3>6. <<IndexOf(t), "base">> \in slow' <=>
            <<IndexOf(t), "base">> \in slow \/ (IndexOf(t) = IndexOf(t0) /\ r.name = "base" /\ r.answer \in TimeoutAnswers)
      OBVIOUS
    <3>7. d = DomainOf(t)'
      BY <3>1, <3>2
    <3> QED  BY <3>1, <3>3, <3>4, <3>5, <3>6, <3>7
  <2> QED  BY <1>f, <2>1 DEF SlowKept
<1>8. ForcedTrue'
  <2>1. CASE ~retry
    BY <2>1 DEF ForcedTrue
  <2>2. CASE retry
    <3>1. IndexOf(t0)' = IndexOf(t0) /\ NameOf(t0)' = NameOf(t0) /\ DomainOf(t0)' = DomainOf(t0)
      BY FrozenTurn
    <3>2. Deserves(r.domain)'
      BY <1>4, <2>2
    <3>3. Deserves(DomainOf(t0))'
      BY <1>2, <3>1, <3>2
    <3>4. NameOf(t0)' = "dash" /\ t0 < next' /\ forced' = IndexOf(t0)' /\ ~Direct'
      BY <1>1, <2>2, <3>1, FrozenDial
    <3> QED  BY <1>1, <1>f, <3>3, <3>4 DEF ForcedTrue
  <2> QED  BY <2>1, <2>2
<1>9. RedirectsTrue'
  <2>0. PICK n : n = Len(tries) + 1
    OBVIOUS
  <2>1. /\ DOMAIN tries' = (DOMAIN tries) \cup {n} /\ tries'[n] = r
        /\ \A i \in DOMAIN tries : tries'[i] = tries[i]
    BY <1>0, <2>0, TriesGrow
  <2>2. ASSUME NEW i \in DOMAIN tries  PROVE AsRedirect(i)' <=> AsRedirect(i)
    <3>1. PICK d : d = tries[i].domain
      OBVIOUS
    <3>2. tries'[i] = tries[i] /\ d = tries[i].domain'
      BY <2>1, <3>1
    <3>3. Deserves(d)' <=> Deserves(d) \/ (retry /\ d = r.domain)
      BY <1>4
    <3>4. CASE retry /\ d = r.domain /\ tries[i].name = "dash"
      <4>1. i \in TriesOf(r.domain, "dash")
        BY <3>1, <3>4 DEF TriesOf
      <4>2. Cardinality(TriesOf(DomainOf(t0), "dash")) = 0
        BY <1>0, <1>1, <3>4 DEF Counts, Again
      <4>3. IsFiniteSet(TriesOf(DomainOf(t0), "dash"))
        <5>1. DOMAIN tries = 1..Len(tries) /\ Len(tries) \in Nat
          BY <1>0, LenProperties
        <5>2. IsFiniteSet(DOMAIN tries)
          BY <5>1, FS_Interval
        <5> QED  BY <5>2, FS_Subset DEF TriesOf
      <4> QED  BY <1>2, <4>1, <4>2, <4>3, FS_EmptySet
    <3>5. CASE ~(retry /\ d = r.domain /\ tries[i].name = "dash")
      <4>1. Deserves(tries[i].domain)' <=> Deserves(d)'
        BY <3>2
      <4> QED  BY <3>1, <3>2, <3>3, <3>5, <4>1 DEF AsRedirect
    <3> QED  BY <3>4, <3>5
  <2>3. AsRedirect(n)' <=> r.answer = "redirect" \/ retry
    <3>1. Deserves(r.domain)' <=> Deserves(r.domain) \/ retry
      BY <1>4
    <3>2. Deserves(tries[n].domain)' <=> Deserves(r.domain)'
      BY <2>1
    <3>3. r.name = "dash" => ~Deserves(r.domain)
      BY <1>2, <1>d
    <3>4. retry => r.name = "dash" /\ r.answer = "absent"
      OBVIOUS
    <3> QED  BY <2>1, <3>1, <3>2, <3>3, <3>4 DEF AsRedirect
  <2> QED  BY <2>1, <2>2, <2>3 DEF RedirectsTrue
<1> QED  BY <1>6, <1>7, <1>8, <1>9

\* The forced try of a base name settles what was owed for it.
LEMMA ForcedTry ==
  ASSUME DialTyped, Counts, SlowKept, ForcedTrue, RedirectsTrue, forced # -1,
         NEW r \in TryRecords, tries' = Append(tries, r),
         r.domain = DomainAt(forced), r.name = "base", forced' = -1, UNCHANGED next,
         slow' = (IF r.answer \in TimeoutAnswers THEN slow \cup {<<forced, "base">>} ELSE slow),
         redirects' = (redirects /\ r.answer = "redirect"),
         UNCHANGED <<list, media, first>>
  PROVE  Counts' /\ SlowKept' /\ ForcedTrue' /\ RedirectsTrue'
<1>g. Given /\ tries \in Seq(TryRecords)
  BY DEF DialTyped
<1>0. Turns \in Nat
  BY <1>g, TurnsNat
<1>1. PICK t0 \in Fresh : NameOf(t0) = "dash" /\ forced = IndexOf(t0) /\ Deserves(DomainOf(t0))
  BY DEF ForcedTrue
<1>2. DomainOf(t0) = r.domain
  BY <1>1 DEF DomainOf
<1>3. \A t \in Fresh : DomainOf(t) = r.domain <=> IndexOf(t) = forced
  BY <1>g, <1>1, <1>2, SameIndex
<1>f. Fresh' = Fresh
  BY FrozenDial
<1>4. ASSUME NEW d
      PROVE  /\ Deserves(d)' <=> Deserves(d)
             /\ TimedOut(d)' <=> TimedOut(d) \/ (d = r.domain /\ r.answer \in TimeoutAnswers)
  BY <1>g, DeservesGrow, TimedOutGrow
<1>5. Counts'
  <2>1. ASSUME NEW t \in Fresh
        PROVE  Cardinality(TriesOf(DomainOf(t), NameOf(t)))' = (IF (t < next)' THEN 1 ELSE 0) + (IF Again(t)' THEN 1 ELSE 0)
    <3>1. IndexOf(t)' = IndexOf(t) /\ NameOf(t)' = NameOf(t) /\ DomainOf(t)' = DomainOf(t)
      BY FrozenTurn
    <3>2. PICK d : d = DomainOf(t)
      OBVIOUS
    <3>3. PICK m : m = NameOf(t)
      OBVIOUS
    <3>4. Cardinality(TriesOf(d, m)') = Cardinality(TriesOf(d, m)) + (IF r.domain = d /\ r.name = m THEN 1 ELSE 0)
      BY <1>g, TriesOfGrow
    <3>5. d = DomainOf(t)' /\ m = NameOf(t)'
      BY <3>1, <3>2, <3>3
    <3>6. Cardinality(TriesOf(d, m)) = (IF t < next THEN 1 ELSE 0) + (IF Again(t) THEN 1 ELSE 0)
      BY <3>2, <3>3 DEF Counts
    <3>7. Again(t) <=> m = "base" /\ Deserves(d) /\ d # r.domain
      BY <1>3, <3>2, <3>3 DEF Again
    <3>8. Again(t)' <=> m = "base" /\ Deserves(d)
      <4>1. Again(t)' <=> m = "base" /\ Deserves(d)' /\ forced' # IndexOf(t)
        BY <3>1, <3>5 DEF Again
      <4>2. IndexOf(t) # -1
        BY <1>g, IndexType, CfDialAssumption DEF Fresh
      <4> QED  BY <4>1, <4>2, <1>4
    <3>9. d = r.domain => Deserves(d)
      BY <1>1, <1>2
    <3>10. Cardinality(TriesOf(d, m)') = (IF t < next THEN 1 ELSE 0) + (IF Again(t)' THEN 1 ELSE 0)
      BY <3>4, <3>6, <3>7, <3>8, <3>9
    <3>11. Cardinality(TriesOf(DomainOf(t), NameOf(t)))' = Cardinality(TriesOf(d, m)')
      BY <3>5
    <3> QED  BY <3>10, <3>11
  <2> QED  BY <1>f, <2>1 DEF Counts
<1>6. SlowKept'
  <2>1. ASSUME NEW t \in Fresh
        PROVE  <<IndexOf(t)', "base">> \in slow' <=> TimedOut(DomainOf(t))'
    <3>1. IndexOf(t)' = IndexOf(t) /\ DomainOf(t)' = DomainOf(t)
      BY FrozenTurn
    <3>2. PICK d : d = DomainOf(t)
      OBVIOUS
    <3>3. TimedOut(d)' <=> TimedOut(d) \/ (d = r.domain /\ r.answer \in TimeoutAnswers)
      BY <1>4
    <3>4. <<IndexOf(t), "base">> \in slow <=> TimedOut(d)
      BY <3>2 DEF SlowKept
    <3>5. d = r.domain <=> IndexOf(t) = forced
      BY <1>3, <3>2
    <3>6. <<IndexOf(t), "base">> \in slow' <=>
            <<IndexOf(t), "base">> \in slow \/ (IndexOf(t) = forced /\ r.answer \in TimeoutAnswers)
      OBVIOUS
    <3>7. d = DomainOf(t)'
      BY <3>1, <3>2
    <3> QED  BY <3>1, <3>3, <3>4, <3>5, <3>6, <3>7
  <2> QED  BY <1>f, <2>1 DEF SlowKept
<1>7. ForcedTrue'
  BY DEF ForcedTrue
<1>8. RedirectsTrue'
  <2>0. PICK n : n = Len(tries) + 1
    OBVIOUS
  <2>1. /\ DOMAIN tries' = (DOMAIN tries) \cup {n} /\ tries'[n] = r
        /\ \A i \in DOMAIN tries : tries'[i] = tries[i]
    BY <1>g, <2>0, TriesGrow
  <2>2. ASSUME NEW i \in DOMAIN tries  PROVE AsRedirect(i)' <=> AsRedirect(i)
    <3>1. PICK d : d = tries[i].domain
      OBVIOUS
    <3>2. tries'[i] = tries[i] /\ d = tries[i].domain'
      BY <2>1, <3>1
    <3>3. Deserves(tries[i].domain)' <=> Deserves(d)
      BY <1>4, <3>2
    <3> QED  BY <3>1, <3>2, <3>3 DEF AsRedirect
  <2>3. AsRedirect(n)' <=> r.answer = "redirect"
    BY <2>1 DEF AsRedirect
  <2> QED  BY <2>1, <2>2, <2>3 DEF RedirectsTrue
<1> QED  BY <1>5, <1>6, <1>7, <1>8

\* Before the first try.
LEMMA DialStarts == DialInit => DialInv
<1> SUFFICES ASSUME DialInit  PROVE DialInv
  OBVIOUS
<1>1. PICK n \in 0..MaxDomains : list \in [1..n -> Domain]
  BY DEF DialInit
<1>2. list \in Seq(Domain) /\ Len(list) = n /\ n \in Nat /\ n <= MaxDomains
  BY <1>1, CfDialAssumption
<1>3. Given
  BY <1>2 DEF DialInit, Given
<1>4. Turns \in Nat
  BY <1>3, TurnsNat
<1>5. DialTyped
  BY <1>3, <1>4, CfDialAssumption DEF DialInit, DialTyped
<1>6. \A d, m : TriesOf(d, m) = {}
  BY DEF DialInit, TriesOf
<1>7. \A d : ~Deserves(d) /\ ~TimedOut(d)
  BY <1>6 DEF Deserves, TimedOut
<1>8. Counts
  <2>1. \A t \in Fresh : ~(t < next) /\ ~Again(t)
    BY <1>4, <1>7 DEF DialInit, Fresh, Again
  <2> QED  BY <1>6, <2>1, FS_EmptySet DEF Counts
<1>9. SlowKept /\ ForcedTrue /\ RedirectsTrue
  BY <1>7 DEF DialInit, SlowKept, ForcedTrue, RedirectsTrue
<1> QED  BY <1>5, <1>8, <1>9 DEF DialInv

\* Which index a try is for.
LEMMA ChosenType ==
  ASSUME DialInv, dialled = "walking", HasNext
  PROVE  /\ Chosen[1] \in 0..MaxDomains /\ Chosen[2] \in Names
         /\ DomainAt(Chosen[1]) \in Domain \cup {Telegram}
         /\ forced # -1 => Chosen = <<forced, "base">>
         /\ forced = -1 => /\ Chosen = <<IndexOf(NextTurn), NameOf(NextTurn)>>
                           /\ Due # {} /\ NextTurn \in Fresh /\ NextTurn + 1 \in 0..Turns
<1>0. Given /\ Turns \in Nat /\ next \in Nat /\ forced \in -1..MaxDomains
  <2>1. Given /\ next \in 0..Turns /\ forced \in -1..MaxDomains
    BY DEF DialInv, DialTyped
  <2> QED  BY <2>1, TurnsNat
<1>1. CASE forced # -1
  <2>1. PICK t \in Fresh : forced = IndexOf(t)
    BY <1>1 DEF DialInv, ForcedTrue
  <2>2. ~Direct => list[IndexOf(t)] \in Domain
    <3>1. ~Direct => IndexOf(t) \in 1..Len(list)
      BY <1>0, IndexType DEF Fresh
    <3> QED  BY <1>0, <3>1, ElementOfSeq DEF Given
  <2>3. forced \in 0..MaxDomains
    BY <1>0, <1>1
  <2> QED  BY <1>1, <2>1, <2>2, <2>3 DEF Chosen, Names, DomainAt
<1>2. CASE forced = -1
  <2>1. Due # {}
    BY <1>2 DEF HasNext
  <2>2. NextTurn \in Fresh /\ NextTurn \in Nat /\ NextTurn <= Turns - 1
    BY <1>0, <2>1, NextTurnIs
  <2>3. NextTurn \in 0..Turns - 1 /\ NextTurn + 1 \in 0..Turns
    BY <1>0, <2>2
  <2>4. IndexOf(NextTurn) \in 0..MaxDomains /\ (~Direct => IndexOf(NextTurn) \in 1..Len(list))
    BY <1>0, <2>3, IndexType
  <2>5. DomainAt(IndexOf(NextTurn)) \in Domain \cup {Telegram}
    BY <1>0, <2>4, ElementOfSeq DEF Given, DomainAt
  <2>6. NameOf(NextTurn) \in Names
    BY <1>0, <2>2, NamesOfPair
  <2> QED  BY <1>2, <2>1, <2>2, <2>3, <2>4, <2>5, <2>6 DEF Chosen
<1> QED  BY <1>1, <1>2

\* A try keeps the invariant.
LEMMA TryKeeps ==
  ASSUME DialInv, NEW answer \in AnswersOfHost, DialTries(answer)
  PROVE  DialInv'
<1>0. dialled = "walking" /\ HasNext /\ UNCHANGED <<list, media, first>>
  BY DEF DialTries
<1>1. PICK i : i = Chosen[1]
  OBVIOUS
<1>2. PICK name : name = Chosen[2]
  OBVIOUS
<1>3. PICK retry \in BOOLEAN : retry <=> /\ ~Direct /\ answer = "absent" /\ name = "dash"
                                         /\ <<i, "base">> \notin slow
  OBVIOUS
<1>4. PICK r : r = [domain |-> DomainAt(i), name |-> name, answer |-> answer]
  OBVIOUS
<1>5. /\ tries' = Append(tries, r)
      /\ next' = IF forced # -1 THEN next ELSE NextTurn + 1
      /\ forced' = IF retry THEN i ELSE -1
      /\ slow' = IF answer \in TimeoutAnswers THEN slow \cup {<<i, name>>} ELSE slow
      /\ redirects' = (redirects /\ (answer = "redirect" \/ retry))
      /\ dialled' = IF answer = "connected" THEN "connected" ELSE "walking"
  BY <1>1, <1>2, <1>3, <1>4 DEF DialTries
<1>6. /\ i \in 0..MaxDomains /\ name \in Names /\ DomainAt(i) \in Domain \cup {Telegram}
      /\ forced # -1 => i = forced /\ name = "base"
      /\ forced = -1 => /\ i = IndexOf(NextTurn) /\ name = NameOf(NextTurn)
                        /\ Due # {} /\ NextTurn \in Fresh /\ NextTurn + 1 \in 0..Turns
  BY <1>0, <1>1, <1>2, ChosenType
<1>7. r \in TryRecords /\ r.domain = DomainAt(i) /\ r.name = name /\ r.answer = answer
  BY <1>4, <1>6 DEF TryRecords
<1>8. DialTyped'
  <2>1. Given' /\ Turns' = Turns
    BY <1>0, FrozenDial DEF DialInv, DialTyped
  <2>2. tries' \in Seq(TryRecords)
    BY <1>5, <1>7, TriesGrow DEF DialInv, DialTyped
  <2>3. next' \in 0..Turns /\ forced' \in -1..MaxDomains
    <3>1. next \in 0..Turns
      BY DEF DialInv, DialTyped
    <3>2. forced' \in -1..MaxDomains
      BY <1>3, <1>5, <1>6, CfDialAssumption
    <3>3. next' = next \/ (forced = -1 /\ next' = NextTurn + 1)
      BY <1>5
    <3> QED  BY <1>6, <3>1, <3>2, <3>3
  <2>4. slow' \subseteq (0..MaxDomains) \X Names
    <3>1. slow \subseteq (0..MaxDomains) \X Names
      BY DEF DialInv, DialTyped
    <3>2. <<i, name>> \in (0..MaxDomains) \X Names
      BY <1>6
    <3>3. slow' \subseteq slow \cup {<<i, name>>}
      BY <1>5
    <3> QED  BY <3>1, <3>2, <3>3
  <2>5. redirects' \in BOOLEAN /\ dialled' \in {"walking", "connected", "gave up"}
    BY <1>5
  <2> QED  BY <2>1, <2>2, <2>3, <2>4, <2>5 DEF DialTyped
<1>9. DialTyped /\ Counts /\ SlowKept /\ ForcedTrue /\ RedirectsTrue
  BY <1>0 DEF DialInv
<1>10. CASE forced # -1
  <2>1. ~retry
    BY <1>3, <1>6, <1>10
  <2>2. /\ forced' = -1 /\ UNCHANGED next /\ r.domain = DomainAt(forced) /\ r.name = "base"
        /\ slow' = (IF r.answer \in TimeoutAnswers THEN slow \cup {<<forced, "base">>} ELSE slow)
        /\ redirects' = (redirects /\ r.answer = "redirect")
    BY <1>5, <1>6, <1>7, <1>10, <2>1
  <2>3. Counts' /\ SlowKept' /\ ForcedTrue' /\ RedirectsTrue'
    BY <1>0, <1>5, <1>7, <1>9, <1>10, <2>2, ForcedTry
  <2> QED  BY <1>8, <2>3 DEF DialInv
<1>11. CASE forced = -1
  <2>1. PICK t0 : t0 = NextTurn
    OBVIOUS
  <2>2. /\ r.domain = DomainOf(t0) /\ r.name = NameOf(t0) /\ i = IndexOf(t0)
        /\ next' = NextTurn + 1
    BY <1>5, <1>6, <1>7, <1>11, <2>1 DEF DomainOf
  <2>3. retry <=> ~Direct /\ r.answer = "absent" /\ r.name = "dash" /\ <<IndexOf(t0), "base">> \notin slow
    BY <1>3, <1>7, <2>2
  <2>4. /\ forced' = (IF retry THEN IndexOf(t0) ELSE -1)
        /\ slow' = (IF r.answer \in TimeoutAnswers THEN slow \cup {<<IndexOf(t0), NameOf(t0)>>} ELSE slow)
        /\ redirects' = (redirects /\ (r.answer = "redirect" \/ retry))
    BY <1>5, <1>7, <2>2
  <2>5. Counts' /\ SlowKept' /\ ForcedTrue' /\ RedirectsTrue'
    BY <1>0, <1>5, <1>6, <1>7, <1>9, <1>11, <2>1, <2>2, <2>3, <2>4, TurnTry
  <2> QED  BY <1>8, <2>5 DEF DialInv
<1> QED  BY <1>10, <1>11

\* Ending the walk keeps it.
LEMMA RestKeeps ==
  ASSUME DialInv, UNCHANGED <<list, media, first, next, forced, slow, redirects, tries>>,
         dialled' \in {"walking", "connected", "gave up"},
         dialled' # "connected" => dialled # "connected"
  PROVE  DialInv'
<1>1. Fresh' = Fresh /\ (Given' <=> Given) /\ Turns' = Turns /\ (Direct' <=> Direct)
  BY FrozenDial
<1>2. \A d, m : TriesOf(d, m)' = TriesOf(d, m)
  BY DEF TriesOf
<1>3. ASSUME NEW d  PROVE (Deserves(d)' <=> Deserves(d)) /\ (TimedOut(d)' <=> TimedOut(d))
  BY <1>1, <1>2 DEF Deserves, TimedOut
<1>4. DialTyped'
  BY <1>1 DEF DialInv, DialTyped
<1>5. ASSUME NEW t \in Fresh
      PROVE  /\ IndexOf(t)' = IndexOf(t) /\ NameOf(t)' = NameOf(t) /\ DomainOf(t)' = DomainOf(t)
             /\ Deserves(DomainOf(t))' <=> Deserves(DomainOf(t))
             /\ TimedOut(DomainOf(t))' <=> TimedOut(DomainOf(t))
             /\ TriesOf(DomainOf(t), NameOf(t))' = TriesOf(DomainOf(t), NameOf(t))
  <2>1. IndexOf(t)' = IndexOf(t) /\ NameOf(t)' = NameOf(t) /\ DomainOf(t)' = DomainOf(t)
    BY FrozenTurn
  <2>2. PICK d : d = DomainOf(t)
    OBVIOUS
  <2>3. PICK m : m = NameOf(t)
    OBVIOUS
  <2>4. d = DomainOf(t)' /\ m = NameOf(t)'
    BY <2>1, <2>2, <2>3
  <2> QED  BY <1>2, <1>3, <2>1, <2>2, <2>3, <2>4
<1>6. ASSUME Counts /\ SlowKept /\ ForcedTrue /\ RedirectsTrue
      PROVE  Counts' /\ SlowKept' /\ ForcedTrue' /\ RedirectsTrue'
  <2>1. Counts'
    BY <1>1, <1>5, <1>6 DEF Counts, Again
  <2>2. SlowKept'
    BY <1>1, <1>5, <1>6 DEF SlowKept
  <2>3. ForcedTrue'
    BY <1>1, <1>5, <1>6 DEF ForcedTrue
  <2>4. RedirectsTrue'
    <3>1. ASSUME NEW i \in DOMAIN tries  PROVE AsRedirect(i)' <=> AsRedirect(i)
      <4>1. PICK d : d = tries[i].domain
        OBVIOUS
      <4> QED  BY <1>3, <4>1 DEF AsRedirect
    <3> QED  BY <1>6, <3>1 DEF RedirectsTrue
  <2> QED  BY <2>1, <2>2, <2>3, <2>4
<1> QED  BY <1>4, <1>6 DEF DialInv

\* The invariant holds at first and is kept by every step.
LEMMA DialInvInductive ==
  /\ DialInit => DialInv
  /\ DialInv /\ [DialNext]_dialVars => DialInv'
<1>1. ASSUME DialInv, UNCHANGED dialVars  PROVE DialInv'
  BY <1>1, RestKeeps DEF dialVars, DialInv, DialTyped
<1>2. ASSUME DialInv, DialGivesUp  PROVE DialInv'
  BY <1>2, RestKeeps DEF DialGivesUp
<1> QED  BY <1>1, <1>2, DialStarts, TryKeeps DEF DialNext

\* A walk has given up only with nothing left to try.
Exhausted == dialled = "gave up" => ~HasNext

\* Once no turn is due, every fresh turn has been taken.
LEMMA AllTaken ==
  ASSUME Given, next \in 0..Turns, Due = {}, NEW t \in Fresh
  PROVE  t < next /\ t \in Nat
<1>1. t \in 0..Turns - 1 /\ IsFresh(t) /\ Turns \in Nat
  BY TurnsNat DEF Fresh
<1>2. t \notin next..Turns - 1
  BY <1>1 DEF Due
<1> QED  BY <1>1, <1>2

\* What the counts say at the end of a walk.
LEMMA CountAtEnd ==
  ASSUME Given, next \in 0..Turns, Due = {}, forced = -1, Counts, NEW t \in Fresh
  PROVE  Cardinality(TriesOf(DomainOf(t), NameOf(t))) =
           IF NameOf(t) = "base" /\ Deserves(DomainOf(t)) THEN 2 ELSE 1
<1>1. t < next
  BY AllTaken
<1>2. IndexOf(t) \in 0..MaxDomains
  BY IndexType DEF Fresh
<1>3. IndexOf(t) # -1
  BY <1>2, CfDialAssumption
<1>4. Again(t) <=> NameOf(t) = "base" /\ Deserves(DomainOf(t))
  BY <1>3 DEF Again
<1>5. Cardinality(TriesOf(DomainOf(t), NameOf(t))) =
                     (IF t < next THEN 1 ELSE 0) + (IF Again(t) THEN 1 ELSE 0)
  BY DEF Counts
<1> QED  BY <1>1, <1>4, <1>5

\* Each configured domain has a fresh turn for each of its names.
LEMMA BothNames ==
  ASSUME Given, NEW i \in IF Direct THEN {0} ELSE DOMAIN list, NEW name \in Names
  PROVE  \E t \in Fresh : DomainOf(t) = DomainAt(i) /\ NameOf(t) = name
<1>1. PICK t \in Fresh : /\ t + 1 \in Fresh /\ t % 2 = 0 /\ (t + 1) % 2 = 1
                         /\ DomainOf(t) = DomainAt(i) /\ DomainOf(t + 1) = DomainAt(i)
  BY ComesUp
<1>2. t \in Nat /\ t + 1 \in Nat
  BY TurnsNat DEF Fresh
<1>3. t % 2 # (t + 1) % 2
  BY <1>1, <1>2
<1>4. NameOf(t) # NameOf(t + 1) /\ NameOf(t) \in Names /\ NameOf(t + 1) \in Names
  BY <1>2, <1>3, NamesOfPair
<1>5. NameOf(t) = name \/ NameOf(t + 1) = name
  BY <1>4 DEF Names
<1> QED  BY <1>1, <1>5

\* With nothing left to try, every record was tried as often as it should.
LEMMA DialCompletes == DialInv /\ Exhausted => DialComplete
<1> SUFFICES ASSUME DialInv, Exhausted, dialled = "gave up"  PROVE DialComplete
  BY DEF DialComplete
<1>0. Given /\ forced = -1 /\ Due = {} /\ Counts /\ RedirectsTrue /\ next \in 0..Turns
  BY DEF Exhausted, HasNext, DialInv, DialTyped
<1>1. ASSUME NEW i \in IF Direct THEN {0} ELSE DOMAIN list
      PROVE  /\ Cardinality(TriesOf(DomainAt(i), "dash")) = 1
             /\ Cardinality(TriesOf(DomainAt(i), "base")) = IF Deserves(DomainAt(i)) THEN 2 ELSE 1
  <2>1. PICK t \in Fresh : DomainOf(t) = DomainAt(i) /\ NameOf(t) = "dash"
    BY <1>0, BothNames DEF Names
  <2>2. PICK s \in Fresh : DomainOf(s) = DomainAt(i) /\ NameOf(s) = "base"
    BY <1>0, BothNames DEF Names
  <2>3. Cardinality(TriesOf(DomainOf(t), NameOf(t))) =
           IF NameOf(t) = "base" /\ Deserves(DomainOf(t)) THEN 2 ELSE 1
    BY <1>0, CountAtEnd
  <2>4. Cardinality(TriesOf(DomainOf(s), NameOf(s))) =
           IF NameOf(s) = "base" /\ Deserves(DomainOf(s)) THEN 2 ELSE 1
    BY <1>0, CountAtEnd
  <2>5. "dash" # "base"
    OBVIOUS
  <2> QED  BY <2>1, <2>2, <2>3, <2>4, <2>5, Zenon
<1>2. \A d \in {DomainAt(i) : i \in IF Direct THEN {0} ELSE DOMAIN list} :
         /\ Cardinality(TriesOf(d, "dash")) = 1
         /\ Cardinality(TriesOf(d, "base")) = IF Deserves(d) THEN 2 ELSE 1
  BY <1>1
<1> QED  BY <1>0, <1>2 DEF DialComplete, RedirectsTrue, AsRedirect

\* The walk gives up only with nothing left to try.
LEMMA ExhaustedInductive ==
  /\ DialInit => Exhausted
  /\ Exhausted /\ [DialNext]_dialVars => Exhausted'
<1>1. DialInit => Exhausted
  BY DEF DialInit, Exhausted
<1>2. ASSUME UNCHANGED <<list, media, first, next, forced>>  PROVE HasNext' <=> HasNext
  BY <1>2 DEF HasNext, Due, IsFresh, IndexOf, DomainAt, Turns, Direct
<1>3. Exhausted /\ UNCHANGED dialVars => Exhausted'
  BY <1>2 DEF Exhausted, dialVars
<1>4. DialGivesUp => Exhausted'
  BY <1>2 DEF DialGivesUp, Exhausted
<1>5. \A answer \in AnswersOfHost : DialTries(answer) => Exhausted'
  BY DEF DialTries, Exhausted
<1> QED  BY <1>1, <1>3, <1>4, <1>5 DEF DialNext

\* The invariant has the types.
LEMMA DialTypes == DialInv => DialTypeOK
<1> SUFFICES ASSUME DialInv  PROVE DialTypeOK
  OBVIOUS
<1>1. Given /\ next \in 0..Turns
  BY DEF DialInv, DialTyped
<1>2. next \in 0..2 * MaxDomains + 2
  BY <1>1, TurnsNat, CfDialAssumption
<1> QED  BY <1>2 DEF DialInv, DialTyped, DialTypeOK

\* The state of a walk over host names keeps its type (DialTypeOK).
THEOREM DialTypeCorrect == DialSpec => []DialTypeOK
BY DialInvInductive, DialTypes, PTL DEF DialSpec

\* For every list of domains, repetitions included, and every answer: a walk that
\* gives up has tried what it should (DialComplete).
THEOREM DialHolds == DialSpec => []DialComplete
BY DialInvInductive, DialCompletes, ExhaustedInductive, PTL DEF DialSpec
=============================================================================
