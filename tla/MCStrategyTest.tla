--------------------------- MODULE MCStrategyTest ---------------------------
(* StrategyTest for TLC, with the initial states bounded: the service is       *)
(* installed exactly if it runs when the program is looked at first.           *)
EXTENDS StrategyTest

MCInit == Init /\ (installed <=> "svc" \in engines)

MCSpec == MCInit /\ [][Next]_vars
MCFairSpec == MCSpec /\ Fairness
=============================================================================
