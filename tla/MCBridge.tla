------------------------------- MODULE MCBridge -------------------------------
(* The parts of the Telegram bridge, for TLC.  A behaviour belongs to one part,  *)
(* chosen at its start, in which the others rest, so that their states add up     *)
(* and do not multiply.                                                           *)
EXTENDS BridgeServer, Routing, CfPool, CfDial, Splitter

VARIABLE scope

bridgeVars == <<serverVars, routeVars, cfVars, dialVars, splitVars, scope>>

\* Configurations: with a target, each tier alone and together with others, before
\* and after the direct route; no target; a test datacentre.
Usual == [test |-> FALSE, target |-> TRUE, fallback |-> TRUE, priority |-> FALSE,
          workers |-> 0, cf |-> FALSE, proxies |-> 0, front |-> TRUE]
MCSetups ==
  {Usual}
  \cup {[Usual EXCEPT !.priority = p, !.workers = w, !.cf = w # 2,
                      !.proxies = IF w = 2 THEN 0 ELSE 1, !.front = w # 2] :
         p \in BOOLEAN, w \in 0..2}
  \cup {[Usual EXCEPT !.target = FALSE, !.fallback = f, !.workers = 1, !.cf = TRUE,
                      !.proxies = 1, !.front = FALSE] : f \in BOOLEAN}
  \cup {[Usual EXCEPT !.test = TRUE, !.target = t, !.fallback = t, !.workers = 1,
                      !.cf = TRUE, !.proxies = 1] : t \in BOOLEAN}

BridgeInit ==
  /\ scope \in {"server", "routing", "cfpool", "dial", "split"}
  /\ BridgeServerInit /\ RoutingInit /\ CfInit /\ DialInit /\ SplitInit
  /\ scope # "routing" => setup = Usual
  /\ scope # "dial" => list = <<>> /\ ~media
  /\ scope # "split" => proto = "abridged" /\ packets = <<>>

Part(s) == scope = s /\ UNCHANGED scope

BridgeNext ==
  \/ Part("server") /\ BridgeServerNext /\ UNCHANGED <<routeVars, cfVars, dialVars, splitVars>>
  \/ Part("routing") /\ RoutingNext /\ UNCHANGED <<serverVars, cfVars, dialVars, splitVars>>
  \/ Part("cfpool") /\ CfNext /\ UNCHANGED <<serverVars, routeVars, dialVars, splitVars>>
  \/ Part("dial") /\ DialNext /\ UNCHANGED <<serverVars, routeVars, cfVars, splitVars>>
  \/ Part("split") /\ SplitNext /\ UNCHANGED <<serverVars, routeVars, cfVars, dialVars>>

BridgeSpec == BridgeInit /\ [][BridgeNext]_bridgeVars /\ BridgeFairness

\* The parts are well-typed, no bucket of the Cloudflare pool holds more spares
\* than CF_POOL_MAX, and the splitter keeps nothing half done between two reads.
BridgeTypeOK ==
  /\ BridgeServerTypeOK /\ RoutingTypeOK
  /\ CfTypeOK /\ CfBounded
  /\ DialTypeOK /\ SplitTypeOK
=============================================================================
