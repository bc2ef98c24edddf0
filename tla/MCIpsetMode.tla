----------------------------- MODULE MCIpsetMode -----------------------------
(* A change of the ipset mode while a test runs, for TLC: no crash, no failing   *)
(* write, nobody edits the subnets.                                             *)
EXTENDS IpsetList

VARIABLES
  deferred,   \* set_settings has put a change off to the end of the test
  caughtUp    \* and the test's thread has synced the list before it ended

modeVars == <<lockVars, listVars, deferred, caughtUp>>

ModeInit ==
  /\ ListsInit /\ live = Synced(mode, service, subnets)
  /\ deferred = FALSE /\ caughtUp = FALSE

PutOff == ApplyMode /\ Testing /\ deferred' = TRUE /\ UNCHANGED caughtUp

CatchUp ==
  /\ TestEnds /\ live' = Synced(mode, service, subnets)
  /\ caughtUp' = deferred
  /\ UNCHANGED deferred

Others ==
  /\ \/ TestBegins \/ TestHeals \/ TestBacksUp \/ TestEmpties \/ TestRuns \/ TestRestores
     \/ ListsStart \/ HealAtStart
     \/ \E m \in Modes : ~caughtUp /\ SetMode(m)
  /\ UNCHANGED <<deferred, caughtUp>>

ModeSpec == ModeInit /\ [][PutOff \/ CatchUp \/ Others]_modeVars

\* A change of mode that was put off is in the list once the test that held it
\* up is over (lib.rs test_strategies, set_settings).
DeferredModeApplied ==
  caughtUp /\ tpc = "idle" => live = Synced(mode, service, subnets)
=============================================================================
