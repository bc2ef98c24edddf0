-------------------------------- MODULE Routing --------------------------------
(* The way of a client down the fallback ladder (proxy.rs select_upstream and    *)
(* the methods of Route): spares of the pools, the direct WebSocket with its      *)
(* fronting, Cloudflare Workers and proxies, upstream MTProto proxies, and raw    *)
(* TCP at the end.  Cooldowns are process-wide: each is read when its route comes *)
(* up and written when its answer does, while other clients do the same.          *)
EXTENDS Naturals, Sequences

CONSTANTS Router,   \* clients being routed, all to one (dc, is_media)
          Setups    \* configurations: see SetupType

VARIABLES
  setup,     \* the configuration of the bridge
  cooling,   \* routes inside their cooldown
  sticky,    \* the fronting fallback is in its sticky window
  walk       \* the walk of each client

routeVars == <<setup, cooling, sticky, walk>>

\* Routes.  Those of a tier are named by their place in the configuration.
Worker(i) == [tier |-> "worker", of |-> i]
Proxy(i)  == [tier |-> "proxy", of |-> i]
Step(tier) == [tier |-> tier, of |-> 0]

Ws    == Step("ws")       \* WS_FAIL of this (dc, is_media)
Ip    == Step("ip")       \* IP_FAIL of its target address
Front == Step("front")    \* FRONTING_FAIL

\* What select_upstream is given, and what of the configuration it looks at.
SetupType ==
  [test : BOOLEAN,        \* a test datacentre
   target : BOOLEAN,      \* a --dc-ip for this DC
   fallback : BOOLEAN,    \* a built-in address for it
   priority : BOOLEAN,    \* --cf-priority
   workers : Nat, cf : BOOLEAN, proxies : Nat, front : BOOLEAN]

ASSUME RoutingAssumption == Setups \subseteq SetupType

HasFallback == setup.workers > 0 \/ setup.cf \/ setup.proxies > 0

\* cf_worker: a spare unless testing, then every Worker from where the rotation
\* (--cf-balance) stands.
WorkerTier(first) ==
  IF setup.workers = 0 THEN <<>>
  ELSE (IF setup.test THEN <<>> ELSE <<Step("spare")>>)
       \o [i \in 1..setup.workers |-> Worker((first + i) % setup.workers)]

\* cf_proxy: a spare, then all the domains in one dial.
CfTier == IF setup.test \/ ~setup.cf THEN <<>> ELSE <<Step("spare"), Step("cf")>>

CfTiers(first) == WorkerTier(first) \o CfTier

ProxyTier == [i \in 1..setup.proxies |-> Proxy(i)]

\* Mutant: the Cloudflare tiers are walked again after --cf-priority.
ChainRepeated(first, skipCf) == CfTiers(first) \o ProxyTier

\* fallback_chain.
Chain(first, skipCf) == (IF skipCf THEN <<>> ELSE CfTiers(first)) \o ProxyTier

\* select_upstream, up to where it looks at the address's cooldown.
Plan(first) ==
  IF setup.test
  THEN IF setup.target THEN <<Step("direct")>> \o WorkerTier(first) \o <<Step("tcp")>>
                       ELSE <<Step("nowhere")>>
  ELSE IF setup.target
  THEN (IF setup.priority THEN CfTiers(first) ELSE <<>>) \o <<Step("look")>>
  ELSE IF setup.fallback THEN Chain(first, FALSE) \o <<Step("tcp")>>
                         ELSE <<Step("nowhere")>>

\* Mutant: a cooling address is not asked again at the end.
AfterLookSkipping(first, cold) ==
  IF cold /\ HasFallback
  THEN <<Step("pool")>> \o Chain(first, setup.priority) \o <<Step("tcp")>>
  ELSE <<Step("pool"), Step("direct")>> \o Chain(first, setup.priority) \o <<Step("tcp")>>

\* From there: an address in its cooldown is stepped over if there is anything
\* else, and asked again at the end.
AfterLook(first, cold) ==
  IF cold /\ HasFallback
  THEN <<Step("pool")>> \o Chain(first, setup.priority) \o <<Step("direct"), Step("tcp")>>
  ELSE <<Step("pool"), Step("direct")>> \o Chain(first, setup.priority) \o <<Step("tcp")>>

Resting == [todo |-> <<>>, asked |-> <<>>, skipped |-> {}, dial |-> "no",
            probing |-> FALSE, fronted |-> FALSE, silent |-> FALSE, route |-> "none"]

Walking(c) == walk[c].todo # <<>>
AtTier(c, tier) == Walking(c) /\ Head(walk[c].todo).tier = tier
Here(c) == Head(walk[c].todo)

WalkBegins(c) ==
  /\ ~Walking(c)
  /\ \E first \in 0..setup.workers : walk' = [walk EXCEPT ![c] = [Resting EXCEPT !.todo = Plan(first)]]
  /\ UNCHANGED <<setup, cooling, sticky>>

Looks(c) ==
  /\ AtTier(c, "look")
  /\ \E first \in 0..setup.workers :
       walk' = [walk EXCEPT ![c].todo = AfterLook(first, Ip \in cooling)]
  /\ UNCHANGED <<setup, cooling, sticky>>

\* The walk goes on, or is over by route r; a route is stepped over, or dialled.
Onward(w) == [w EXCEPT !.todo = Tail(@), !.dial = "no"]
By(w, r)  == [w EXCEPT !.todo = <<>>, !.dial = "no", !.route = r]
Over(w, r) == [w EXCEPT !.skipped = @ \cup {r}]
Dials(w, r, how) == [w EXCEPT !.asked = Append(@, r), !.dial = how]

\* The direct pool or the spares of Cloudflare have one, or have none.
TriesSpare(c) ==
  /\ AtTier(c, "pool") \/ AtTier(c, "spare")
  /\ walk' \in {[walk EXCEPT ![c] = Onward(@)], [walk EXCEPT ![c] = By(@, "spare")]}
  /\ UNCHANGED <<setup, cooling, sticky>>

HasCooldown(c) == AtTier(c, "worker") \/ AtTier(c, "proxy")
Dialling(c) == Walking(c) /\ walk[c].dial # "no"

Skips(c) ==
  /\ HasCooldown(c) /\ ~Dialling(c) /\ Here(c) \in cooling
  /\ walk' = [walk EXCEPT ![c] = Onward(Over(@, Here(c)))]
  /\ UNCHANGED <<setup, cooling, sticky>>

Asks(c) ==
  /\ ~Dialling(c)
  /\ \/ HasCooldown(c) /\ Here(c) \notin cooling
     \/ AtTier(c, "cf") \/ AtTier(c, "direct")
  /\ walk' = [walk EXCEPT ![c] =
       [Dials(@, Here(c), "plain") EXCEPT !.probing = Ws \in cooling,
                                          !.fronted = sticky /\ setup.front]]
  /\ UNCHANGED <<setup, cooling, sticky>>

\* A tier other than the direct one answers: success clears the cooldown of its
\* route, failure arms it; the Cloudflare domains have none.
Answers(c) ==
  /\ Dialling(c) /\ ~AtTier(c, "direct")
  /\ \/ /\ walk' = [walk EXCEPT ![c] = By(@, Here(c).tier)]
        /\ cooling' = cooling \ {Here(c)}
     \/ /\ walk' = [walk EXCEPT ![c] = Onward(@)]
        /\ cooling' = IF HasCooldown(c) THEN cooling \cup {Here(c)} ELSE cooling
  /\ UNCHANGED <<setup, sticky>>

FrontingWorks(c) ==
  /\ walk' = [walk EXCEPT ![c] = By(@, "direct")]
  /\ cooling' = cooling \ {Front}
  /\ sticky' = TRUE

\* direct_ws, plain or in the sticky window of the fronting.
DirectConnects(c) ==
  /\ AtTier(c, "direct") /\ walk[c].dial = "plain"
  /\ \/ walk[c].fronted /\ FrontingWorks(c)
     \/ /\ ~walk[c].fronted
        /\ walk' = [walk EXCEPT ![c] = By(@, "direct")]
        /\ cooling' = cooling \ {Ws, Ip}
        /\ UNCHANGED sticky
  /\ UNCHANGED setup

\* cool_down_ws, and cool_down_ip after a full-length connect that nobody answered.
CoolsDown(w, silent) == cooling \cup {Ws} \cup (IF silent /\ ~w.probing THEN {Ip} ELSE {})

\* The attempt fails: some handshake stalled, some connect stayed unanswered, both
\* or neither.  A stalled handshake is tried once more with a fronted name.
DirectFails(c) ==
  /\ AtTier(c, "direct") /\ walk[c].dial = "plain"
  /\ \E stalled, silent \in BOOLEAN :
       LET w == walk[c]
           retries == ~w.fronted /\ stalled /\ setup.front /\ Front \notin cooling
       IN  IF retries
           THEN /\ walk' = [walk EXCEPT ![c] = [Dials(@, Front, "front") EXCEPT !.silent = silent]]
                /\ UNCHANGED <<cooling, sticky>>
           ELSE /\ walk' = [walk EXCEPT ![c] = Onward(@)]
                /\ cooling' = CoolsDown(w, silent) \cup (IF w.fronted THEN {Front} ELSE {})
                /\ sticky' = (sticky /\ ~w.fronted)
  /\ UNCHANGED setup

\* reactive_fronting.
FrontAnswers(c) ==
  /\ AtTier(c, "direct") /\ walk[c].dial = "front"
  /\ \/ FrontingWorks(c)
     \/ /\ walk' = [walk EXCEPT ![c] = Onward(@)]
        /\ cooling' = CoolsDown(walk[c], walk[c].silent) \cup {Front}
        /\ UNCHANGED sticky
  /\ UNCHANGED setup

\* tcp_fallback and tcp_last_resort; or no route at all.
Ends(c) ==
  /\ AtTier(c, "tcp") \/ AtTier(c, "nowhere")
  /\ walk' = [walk EXCEPT ![c] = By(@, Here(c).tier)]
  /\ UNCHANGED <<setup, cooling, sticky>>

\* What other clients, of this datacentre or another, do to the cooldowns, and time.
Shared == {Ws, Ip} \cup {Worker(i) : i \in 0..setup.workers - 1}
                   \cup {Proxy(i) : i \in 1..setup.proxies}
                   \cup (IF setup.front THEN {Front} ELSE {})

Elsewhere ==
  /\ \/ \E r \in Shared : cooling' = cooling \cup {r} /\ UNCHANGED sticky
     \/ \E r \in cooling : cooling' = cooling \ {r} /\ UNCHANGED sticky
     \/ setup.front /\ sticky' = ~sticky /\ UNCHANGED cooling
  /\ UNCHANGED <<setup, walk>>

RoutingInit ==
  /\ setup \in Setups
  /\ cooling = {} /\ sticky = FALSE
  /\ walk = [c \in Router |-> Resting]

WalkStep(c) ==
  WalkBegins(c) \/ Looks(c) \/ TriesSpare(c) \/ Skips(c) \/ Asks(c) \/ Answers(c)
  \/ DirectConnects(c) \/ DirectFails(c) \/ FrontAnswers(c) \/ Ends(c)

RoutingNext == Elsewhere \/ \E c \in Router : WalkStep(c)

RoutingSpec == RoutingInit /\ [][RoutingNext]_routeVars

----------------------------------------------------------------------------

RoutingTypeOK ==
  /\ setup \in Setups
  /\ cooling \subseteq {Front} \cup Shared
  /\ sticky \in BOOLEAN /\ (sticky => setup.front)
  /\ \A c \in Router : walk[c].dial \in {"no", "plain", "front"}

AskedIn(w) == {w.asked[i] : i \in DOMAIN w.asked}

Configured ==
  {Worker(i) : i \in 0..setup.workers - 1}
  \cup (IF setup.test THEN {}
        ELSE {Proxy(i) : i \in 1..setup.proxies} \cup (IF setup.cf THEN {Step("cf")} ELSE {}))
  \cup (IF setup.target THEN {Step("direct")} ELSE {})

\* A client is left to raw TCP only after every configured route has been asked in
\* this walk or stepped over for its cooldown, and the address itself has been
\* asked whatever its cooldown (select_upstream: "self-healing").
LadderComplete ==
  \A c \in Router : walk[c].route = "tcp" =>
    Configured \ AskedIn(walk[c]) \subseteq walk[c].skipped

\* No route is dialled twice for one client, by whichever of its ways the ladder
\* is walked (cf_priority, ip_cooling, the last re-probe).
AskedOnce ==
  \A c \in Router : LET asked == walk[c].asked
                    IN  \A i, j \in DOMAIN asked : asked[i] = asked[j] => i = j
=============================================================================
