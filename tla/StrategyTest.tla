---------------------------- MODULE StrategyTest ----------------------------
(* A strategy test of the desktop program against its other operations:       *)
(* lib.rs test_strategies and its polling thread, cancel_test, start_or_switch *)
(* and stop_running, the watcher, and the runner process of tester.rs, which   *)
(* talks to the program through files only (test-stop.flag, test-runner.pid,  *)
(* test-out.json).  Two packet filters at once do not work, so everything is   *)
(* about who may have an engine process running.                              *)
(*                                                                            *)
(* Taken as given: the program is elevated, so killing a runner succeeds       *)
(* (stop_all_own may still fail or leave engines behind); a spawned runner gets to its first lines     *)
(* before the user can have another test asked for, and progresses within the  *)
(* idle limit while it lives; no command takes as long from its first check to *)
(* the lock as a test's preparation or the user's next click; the interface    *)
(* offers "stop" while `running` was last emitted, and its three-second dialog *)
(* delays a new test past a cancel; the thread gets from the head of its loop  *)
(* to set_test (one small file) before a cancel has killed the runner.         *)
EXTENDS Naturals, FiniteSets

CONSTANTS
  Run,      \* test runs; each has one runner process
  Steps,    \* strategies in a plan
  None

ASSUME StrategyTestAssumption ==
  /\ Steps \in Nat \ {0}
  /\ None \notin Run \cup {"test", "user", "app", "svc"}
  /\ Run \cap {"app", "svc"} = {}

\* The polling thread with the command it comes from, cancel_test, and one
\* start or stop asked for by the user.
Actor == {"test", "cancel", "user"}

VARIABLES
  ops,       \* who holds OPS, or None
  running,   \* testing.running, as last emitted
  epoch,     \* test_epoch has moved on since this run loaded it
  asked,     \* a test_strategies call is past its first check
  flag,      \* test-stop.flag exists
  runPid,    \* the runner test-runner.pid names
  out,       \* test-out.json: "none", "some" (in progress), "done"
  saved,     \* tests.json holds what the finished run measured
  runner,    \* each runner process
  stepsLeft, \* strategies the runner has not begun
  engines,   \* engine processes alive: "app", "svc" or a runner's
  withstood, \* history: those of them that outlived the stop before a start
  runtime,   \* state.runtime is Some
  installed, \* the service is installed
  pc,        \* where each actor is
  victim,    \* the pid stop_test_runner read
  current,   \* the run of the polling thread
  finished,  \* the thread has seen this run's progress done
  stopped,   \* `stopped` of the thread
  had,       \* what the test stopped and owes back: "app", "svc" or None
  scanned,   \* had_engines of the watcher
  sweeping   \* a maintenance_sweep thread the watcher spawned

files  == <<flag, runPid, out, saved>>
procs  == <<runner, stepsLeft, engines, withstood>>
app    == <<runtime, installed>>
locals == <<victim, current, finished, stopped, had>>
watch  == <<scanned, sweeping>>
vars == <<ops, running, epoch, asked, files, procs, app, pc, locals, watch>>

RunnerState == {"none", "starting", "check", "spawn", "measure", "exiting", "gone"}
Living(r)   == runner[r] \in {"check", "spawn", "measure", "exiting"}

\* runner_alive: a set flag counts as dead, and so does a runner that has not
\* written its pid yet.
RunnerAlive == ~flag /\ runPid # None /\ Living(runPid)

MarkersPresent == flag \/ runPid # None

Init ==
  /\ ops = None /\ running = FALSE /\ epoch = FALSE /\ asked = FALSE
  /\ flag = FALSE /\ runPid = None /\ out = "none" /\ saved = FALSE
  /\ runner = [r \in Run |-> "none"]
  /\ stepsLeft = [r \in Run |-> Steps]
  /\ installed \in BOOLEAN
  /\ runtime \in BOOLEAN
  /\ engines \in {{}, {"app"}, {"svc"}}
  /\ runtime <=> "app" \in engines
  /\ withstood = {}
  /\ "svc" \in engines => installed
  /\ pc = [a \in Actor |-> "idle"]
  /\ victim = [a \in Actor |-> None]
  /\ current = None /\ finished = FALSE /\ stopped = FALSE /\ had = None
  /\ scanned = (engines # {}) /\ sweeping = FALSE

\* A start or stop between its check for a test and its attempt at OPS.
Locking == pc["user"] \in {"start", "stop"}

\* A runner whose test is over has not got to its first lines.
SlowRunner == pc["test"] = "idle" /\ \E r \in Run : runner[r] = "starting"

\* The thread between the head of its loop and set_test.
MidPass == pc["test"] \in {"read", "show", "show.done"}

Goto(a, here, there) == pc[a] = here /\ pc' = [pc EXCEPT ![a] = there]

\* What still runs of the engines a start went on beside.
Outlives == withstood' = withstood \cap engines'

\* A new engine process.
EngineStarts(e) == engines' = engines \cup {e} /\ withstood' = withstood \ {e}

-----------------------------------------------------------------------------
\* stop_test_runner: write the flag and read the pid, ...
StopFlag(a, here, there) ==
  /\ Goto(a, here, there)
  /\ flag' = TRUE
  /\ victim' = [victim EXCEPT ![a] = runPid]
  /\ UNCHANGED <<ops, running, epoch, asked, runPid, out, saved, procs, app,
                 current, finished, stopped, had, watch>>

\* ... kill the process with its tree, then remove the markers.  Without a pid
\* the runner is taken to be starting: the flag stays for it to read.
StopKill(a, here, there) ==
  /\ Goto(a, here, there)
  /\ LET v == victim[a]
     IN  IF v = None
         THEN UNCHANGED <<flag, runPid, procs>>
         ELSE /\ flag' = FALSE
              /\ runPid' = None
              /\ IF Living(v)
                 THEN /\ runner' = [runner EXCEPT ![v] = "gone"]
                      /\ engines' = engines \ {v}
                      /\ Outlives
                      /\ UNCHANGED stepsLeft
                 ELSE UNCHANGED procs
  /\ victim' = [victim EXCEPT ![a] = None]
  /\ UNCHANGED <<ops, running, epoch, asked, out, saved, app, current,
                 finished, stopped, had, watch>>

\* stop_all_own answers as do_stop does, which looks at what `state` knows: an
\* error leaves the program's process alive and on record, or the service has not
\* stopped; otherwise that process is gone.  What then still runs, its service
\* and the engines of others, is ended as well as it can be: failures of
\* stop_service, stop_pids and the sweep are logged and the wait for the
\* processes to die is bounded, whatever the answer.
StopAllOwn(result) ==
  /\ engines' \in SUBSET engines
  /\ \/ /\ result = "ok"
        /\ runtime => "app" \notin engines'
        /\ runtime' = FALSE
     \/ /\ result = "refused"
        /\ IF runtime THEN "app" \in engines ELSE installed
        /\ UNCHANGED runtime

\* do_start, by steps: stop everything (an error ends it), spawn, and after the
\* wait record the process if it is still there.  Whether an engine outlived the
\* stop is not looked at.
StartStop(a, here, there, fail) ==
  /\ pc[a] = here
  /\ \E result \in {"ok", "refused"} :
       /\ StopAllOwn(result)
       /\ pc' = [pc EXCEPT ![a] = IF result = "ok" THEN there ELSE fail]
       /\ IF result = "ok" THEN withstood' = engines' ELSE Outlives
  /\ UNCHANGED <<ops, running, epoch, asked, files, runner, stepsLeft,
                 installed, locals, watch>>

StartSpawn(a, here, there, fail) ==
  /\ pc[a] = here
  /\ \/ /\ EngineStarts("app")
        /\ pc' = [pc EXCEPT ![a] = there]
     \/ /\ pc' = [pc EXCEPT ![a] = fail]      \* no exe, or spawn failed
        /\ UNCHANGED <<engines, withstood>>
  /\ UNCHANGED <<ops, running, epoch, asked, files, runner, stepsLeft, app,
                 locals, watch>>

StartRecord(a, here, there) ==
  /\ Goto(a, here, there)
  /\ runtime' = (runtime \/ "app" \in engines)
  /\ UNCHANGED <<ops, running, epoch, asked, files, procs, installed, locals,
                 watch>>

DoStart(a, first, second, third, end) ==
  \/ StartStop(a, first, second, end)
  \/ StartSpawn(a, second, third, end)
  \/ StartRecord(a, third, end)

-----------------------------------------------------------------------------
\* test_strategies, under the `testing` lock: a run that says it is running but
\* has no living runner is a phantom, its markers and its state are dropped.
Request ==
  /\ ~asked
  /\ pc["cancel"] = "idle"
  /\ ~SlowRunner
  /\ ~(running /\ RunnerAlive)
  /\ asked' = TRUE
  /\ running' = FALSE
  /\ IF running THEN flag' = FALSE /\ runPid' = None
                ELSE UNCHANGED <<flag, runPid>>
  /\ UNCHANGED <<ops, epoch, out, saved, procs, app, pc, locals, watch>>

RequestRefused ==
  /\ asked
  /\ ops # None
  /\ asked' = FALSE
  /\ UNCHANGED <<ops, running, epoch, files, procs, app, pc, locals, watch>>

\* The lock is taken; leftovers of an earlier run are stopped first.
RequestAccepted ==
  /\ asked /\ ~SlowRunner
  /\ ops = None
  /\ asked' = FALSE
  /\ ops' = "test"
  /\ pc' = [pc EXCEPT !["test"] = IF MarkersPresent THEN "old.flag" ELSE "plan"]
  /\ UNCHANGED <<running, epoch, files, procs, app, locals, watch>>

\* Every return of the thread or of the command drops the OPS guard and its
\* locals; `had` stays to be asked about.
Leave ==
  /\ ops' = None
  /\ finished' = FALSE /\ stopped' = FALSE
  /\ pc' = [pc EXCEPT !["test"] = "idle"]

\* Nothing to test or no curl, before leftovers are looked at; no engine or
\* nothing new to measure, after: the command ends before anything is stopped.
TestRejected ==
  /\ pc["test"] \in {"old.flag", "plan"}
  /\ Leave
  /\ UNCHANGED <<running, epoch, asked, files, procs, app, victim, current, had,
                 watch>>

\* write_plan removes all files of the previous run.
WritePlan ==
  /\ Goto("test", "plan", "halt")
  /\ \E r \in Run : runner[r] = "none" /\ current' = r
  /\ flag' = FALSE /\ runPid' = None /\ out' = "none"
  /\ saved' = FALSE
  /\ UNCHANGED <<ops, running, epoch, asked, procs, app, victim, finished, stopped,
                 had, watch>>

\* Remember what runs and stop it; the result of stop_all_own is not looked at,
\* but a surviving engine ends the test.  Then load the epoch and publish.
Halt ==
  /\ pc["test"] = "halt"
  /\ ~Locking
  /\ \E result \in {"ok", "refused"} : StopAllOwn(result)
  /\ Outlives
  /\ IF engines' # {}
     THEN Leave /\ UNCHANGED <<running, epoch, had>>
     ELSE /\ had' = IF runtime THEN "app"
                    ELSE IF "svc" \in engines THEN "svc" ELSE None
          /\ epoch' = FALSE
          /\ running' = TRUE
          /\ pc' = [pc EXCEPT !["test"] = "launch"]
          /\ UNCHANGED <<ops, finished, stopped>>
  /\ UNCHANGED <<asked, files, runner, stepsLeft, installed, victim, current,
                 watch>>

Launch ==
  /\ pc["test"] = "launch"
  /\ \/ /\ runner' = [runner EXCEPT ![current] = "starting"]
        /\ pc' = [pc EXCEPT !["test"] = "poll"]
        /\ UNCHANGED <<ops, running, finished, stopped>>
     \/ /\ running' = FALSE
        /\ Leave
        /\ UNCHANGED runner
  /\ UNCHANGED <<epoch, asked, files, stepsLeft, engines, withstood, app, victim,
                 current, had, watch>>

-----------------------------------------------------------------------------
\* Mutant: the thread does not look at the epoch.
EpochIgnored(here, there) ==
  /\ Goto("test", here, there)
  /\ UNCHANGED <<ops, running, epoch, asked, files, procs, app, locals, watch>>

\* The polling loop.  At its head, and once more behind it, a thread whose epoch
\* is over returns and leaves everything to cancel_test.
EpochCheck(here, there) ==
  /\ pc["test"] = here
  /\ IF epoch THEN Leave
              ELSE /\ pc' = [pc EXCEPT !["test"] = there]
                   /\ UNCHANGED <<ops, finished, stopped>>
  /\ UNCHANGED <<running, epoch, asked, files, procs, app, victim, current, had,
                 watch>>

\* A flag ends the loop.  So does a timeout, which is looked at only while there
\* is no readable progress file; a living runner writes it in time.
PollRead ==
  /\ pc["test"] = "read"
  /\ \/ flag /\ pc' = [pc EXCEPT !["test"] = "over"]
     \/ ~flag /\ out # "none" /\ pc' = [pc EXCEPT !["test"] =
                                     IF out = "done" THEN "show.done" ELSE "show"]
     \/ ~flag /\ out = "none" /\ pc' = [pc EXCEPT !["test"] = "poll"]
     \/ /\ ~flag /\ out = "none" /\ runner[current] = "gone"
        /\ pc' = [pc EXCEPT !["test"] = "over"]
  /\ UNCHANGED <<ops, running, epoch, asked, files, procs, app, locals, watch>>

\* set_test with what was read.
PollShow ==
  /\ \/ Goto("test", "show", "poll") /\ running' = TRUE /\ UNCHANGED finished
     \/ Goto("test", "show.done", "over") /\ running' = FALSE /\ finished' = TRUE
  /\ UNCHANGED <<ops, epoch, asked, files, procs, app, victim, current, stopped,
                 had, watch>>

\* Behind the loop: note the flag, remove the progress file ...
Collect ==
  /\ Goto("test", "collect", "markers")
  /\ stopped' = flag
  /\ out' = "none"
  /\ UNCHANGED <<ops, running, epoch, asked, flag, runPid, saved, procs, app,
                 victim, current, finished, had, watch>>

\* ... and stop a runner that lives, or clear the markers.
ClearMarkers ==
  /\ pc["test"] = "markers"
  /\ IF RunnerAlive
     THEN pc' = [pc EXCEPT !["test"] = "orphan.flag"] /\ UNCHANGED <<flag, runPid>>
     ELSE /\ flag' = FALSE /\ runPid' = None
          /\ pc' = [pc EXCEPT !["test"] = "restore"]
  /\ UNCHANGED <<ops, running, epoch, asked, out, saved, procs, app, locals, watch>>

\* The stopped engine comes back: the program's through do_start, else the
\* service's.  Errors are only reported.
Restore ==
  /\ pc["test"] = "restore"
  /\ had' = None
  /\ pc' = [pc EXCEPT !["test"] = IF had = "app" THEN "again" ELSE "finish"]
  /\ \/ had = "svc" /\ EngineStarts("svc")
     \/ UNCHANGED <<engines, withstood>>
  /\ UNCHANGED <<ops, running, epoch, asked, files, runner, stepsLeft, app,
                 victim, current, finished, stopped, watch>>

\* A stopped test saves nothing here: cancel_test did.
Finish ==
  /\ pc["test"] = "finish"
  /\ saved' = (saved \/ (finished /\ ~stopped))
  /\ running' = FALSE
  /\ Leave
  /\ UNCHANGED <<epoch, asked, flag, runPid, out, procs, app, victim, current, had,
                 watch>>

TestThread ==
  \/ TestRejected
  \/ StopFlag("test", "old.flag", "old.kill") \/ StopKill("test", "old.kill", "plan")
  \/ WritePlan \/ Halt \/ Launch
  \/ EpochCheck("poll", "read") \/ PollRead \/ PollShow
  \/ EpochCheck("over", "collect") \/ Collect \/ ClearMarkers
  \/ StopFlag("test", "orphan.flag", "orphan.kill")
  \/ StopKill("test", "orphan.kill", "restore")
  \/ Restore \/ DoStart("test", "again", "again.spawn", "again.record", "finish")
  \/ Finish

-----------------------------------------------------------------------------
\* cancel_test takes no lock: move the epoch on, save what is measured, stop the
\* runner, and tell the interface that the test is over.
CancelAsked ==
  /\ running /\ ~asked /\ ~Locking
  /\ Goto("cancel", "idle", "epoch")
  /\ UNCHANGED <<ops, running, epoch, asked, files, procs, app, locals, watch>>

CancelEpoch ==
  /\ Goto("cancel", "epoch", "salvage")
  /\ epoch' = TRUE
  /\ UNCHANGED <<ops, running, asked, files, procs, app, locals, watch>>

\* Mutant: a cancel throws away what was measured.
SalvageNothing ==
  /\ Goto("cancel", "salvage", "flag")
  /\ UNCHANGED <<ops, running, epoch, asked, files, procs, app, locals, watch>>

Salvage ==
  /\ Goto("cancel", "salvage", "flag")
  /\ saved' = (saved \/ out = "done")
  /\ UNCHANGED <<ops, running, epoch, asked, flag, runPid, out, procs, app,
                 locals, watch>>

CancelShown ==
  /\ Goto("cancel", "shown", "idle")
  /\ ~MidPass
  /\ running' = FALSE
  /\ UNCHANGED <<ops, epoch, asked, files, procs, app, locals, watch>>

Cancel ==
  \/ CancelAsked \/ CancelEpoch \/ Salvage
  \/ StopFlag("cancel", "flag", "kill") \/ StopKill("cancel", "kill", "shown")
  \/ CancelShown

-----------------------------------------------------------------------------
\* start_or_switch and stop_running look for a test first and take OPS after.
UserAsked(op) ==
  /\ ~running /\ ~RunnerAlive
  /\ Goto("user", "idle", op)
  /\ UNCHANGED <<ops, running, epoch, asked, files, procs, app, locals, watch>>

\* Mutant: the lock is not asked for.
UserBarges ==
  /\ pc["user"] \in {"start", "stop"}
  /\ ops' = "user"
  /\ pc' = [pc EXCEPT !["user"] =
       IF @ = "stop" THEN "halt" ELSE IF installed THEN "switch" ELSE "start.stop"]
  /\ UNCHANGED <<running, epoch, asked, files, procs, app, locals, watch>>

UserLocked ==
  /\ pc["user"] \in {"start", "stop"}
  /\ IF ops = None
     THEN /\ ops' = "user"
          /\ pc' = [pc EXCEPT !["user"] =
               IF @ = "stop" THEN "halt" ELSE IF installed THEN "switch" ELSE "start.stop"]
     ELSE pc' = [pc EXCEPT !["user"] = "idle"] /\ UNCHANGED ops
  /\ UNCHANGED <<running, epoch, asked, files, procs, app, locals, watch>>

UserHalts ==
  /\ pc["user"] = "halt"
  /\ \E result \in {"ok", "refused"} :
       /\ StopAllOwn(result)
       /\ pc' = [pc EXCEPT !["user"] = IF result = "ok" THEN "sweep" ELSE "free"]
  /\ Outlives
  /\ UNCHANGED <<ops, running, epoch, asked, files, runner, stepsLeft,
                 installed, locals, watch>>

\* With the service installed a start switches the service instead.
ServiceSwitch ==
  \/ StartStop("user", "switch", "install", "free")
  \/ /\ pc["user"] = "install"
     /\ \/ EngineStarts("svc") /\ runtime' = FALSE
        \/ UNCHANGED <<engines, withstood, runtime>>      \* install_service failed
     /\ pc' = [pc EXCEPT !["user"] = "free"]
     /\ UNCHANGED <<ops, running, epoch, asked, files, runner, stepsLeft,
                    installed, locals, watch>>

\* maintenance_sweep ends engine processes as well as it can, unless the service
\* owns one.
Swept ==
  /\ engines' \in IF "svc" \in engines THEN {engines} ELSE SUBSET engines
  /\ Outlives

UserSweeps ==
  /\ Goto("user", "sweep", "free")
  /\ Swept
  /\ UNCHANGED <<ops, running, epoch, asked, files, runner, stepsLeft, app,
                 locals, watch>>

UserFrees ==
  /\ Goto("user", "free", "idle")
  /\ ops' = None
  /\ UNCHANGED <<running, epoch, asked, files, procs, app, locals, watch>>

UserStep ==
  \/ UserLocked \/ UserHalts \/ UserSweeps \/ ServiceSwitch \/ UserFrees
  \/ DoStart("user", "start.stop", "start.spawn", "start.record", "free")

-----------------------------------------------------------------------------
\* The watcher: forget a process that is gone; on the way from "some engine" to
\* "none" spawn a sweep; pause for an anticheat with OPS held.
WatchRuntime ==
  /\ runtime /\ "app" \notin engines
  /\ runtime' = FALSE
  /\ UNCHANGED <<ops, running, epoch, asked, files, procs, installed, pc,
                 locals, watch>>

WatchScan ==
  /\ scanned # (engines # {})
  /\ scanned' = (engines # {})
  /\ sweeping' = (sweeping \/ engines = {})
  /\ UNCHANGED <<ops, running, epoch, asked, files, procs, app, pc, locals>>

WatchSweep ==
  /\ sweeping
  /\ sweeping' = FALSE
  /\ Swept
  /\ UNCHANGED <<ops, running, epoch, asked, files, runner, stepsLeft, app, pc,
                 locals, scanned>>

AnticheatPause ==
  /\ ops = None /\ runtime
  /\ runtime' = FALSE
  /\ engines' = engines \ {"app"}
  /\ Outlives
  /\ UNCHANGED <<ops, running, epoch, asked, files, runner, stepsLeft,
                 installed, pc, locals, watch>>

Watcher == WatchRuntime \/ WatchScan \/ WatchSweep \/ AnticheatPause

-----------------------------------------------------------------------------
\* run_test_runner: write the pid and the first progress, then strategy by
\* strategy look at the flag, spawn the engine, measure, and write progress.
RunnerMoves(r, here, there) ==
  /\ runner[r] = here
  /\ runner' = [runner EXCEPT ![r] = there]
  /\ UNCHANGED <<ops, running, epoch, asked, saved, app, pc, locals, watch>>

RunnerStart(r) ==
  /\ RunnerMoves(r, "starting", "check")
  /\ runPid' = r /\ out' = "some"
  /\ UNCHANGED <<flag, stepsLeft, engines, withstood>>

\* Mutant: the runner does not look at the flag.
RunnerBlind(r) ==
  /\ \/ RunnerMoves(r, "check", "exiting") /\ stepsLeft[r] = 0 /\ out' = "done"
     \/ RunnerMoves(r, "check", "spawn") /\ stepsLeft[r] > 0 /\ UNCHANGED out
  /\ UNCHANGED <<flag, runPid, stepsLeft, engines, withstood>>

\* Mutant: the runner does not count its strategies.
RunnerEndless(r) ==
  /\ \/ RunnerMoves(r, "check", "exiting") /\ flag /\ out' = "done"
     \/ RunnerMoves(r, "check", "spawn") /\ ~flag /\ UNCHANGED out
  /\ UNCHANGED <<flag, runPid, stepsLeft, engines, withstood>>

\* The last progress says done, whether the plan is finished or was stopped.
RunnerCheck(r) ==
  /\ \/ /\ flag \/ stepsLeft[r] = 0
        /\ RunnerMoves(r, "check", "exiting")
        /\ out' = "done"
     \/ /\ ~flag /\ stepsLeft[r] > 0
        /\ RunnerMoves(r, "check", "spawn")
        /\ UNCHANGED out
  /\ UNCHANGED <<flag, runPid, stepsLeft, engines, withstood>>

RunnerSpawn(r) ==
  /\ RunnerMoves(r, "spawn", "measure")
  /\ EngineStarts(r)
  /\ stepsLeft' = [stepsLeft EXCEPT ![r] = @ - 1]
  /\ UNCHANGED <<flag, runPid, out>>

\* A strategy measured again because it scored almost nothing is one measurement
\* here.  Progress that holds every result counts as done for the thread.
RunnerMeasured(r) ==
  /\ RunnerMoves(r, "measure", "check")
  /\ engines' = engines \ {r}
  /\ out' = IF stepsLeft[r] = 0 THEN "done" ELSE "some"
  /\ Outlives
  /\ UNCHANGED <<flag, runPid, stepsLeft>>

RunnerExits(r) ==
  /\ RunnerMoves(r, "exiting", "gone")
  /\ UNCHANGED <<flag, runPid, out, stepsLeft, engines, withstood>>

\* The process is ended from outside or fails; its engine may stay behind.
RunnerDies(r) ==
  /\ Living(r)
  /\ RunnerMoves(r, runner[r], "gone")
  /\ engines' \in {engines, engines \ {r}}
  /\ Outlives
  /\ UNCHANGED <<flag, runPid, out, stepsLeft>>

RunnerStep(r) ==
  \/ RunnerStart(r) \/ RunnerCheck(r) \/ RunnerSpawn(r) \/ RunnerMeasured(r)
  \/ RunnerExits(r)

Next ==
  \/ Request \/ RequestRefused \/ RequestAccepted
  \/ TestThread \/ Cancel \/ Watcher \/ UserStep
  \/ \E op \in {"start", "stop"} : UserAsked(op)
  \/ \E r \in Run : RunnerStep(r) \/ RunnerDies(r)

Spec == Init /\ [][Next]_vars

\* Threads and processes that are running go on; nobody has to ask for anything,
\* and no runner has to die.
Fairness ==
  /\ WF_vars(TestThread)
  /\ WF_vars(Cancel /\ pc["cancel"] # "idle")
  /\ WF_vars(UserStep)
  /\ \A r \in Run : WF_vars(RunnerStep(r))

FairSpec == Spec /\ Fairness
-----------------------------------------------------------------------------
TestPc == {"idle", "old.flag", "old.kill", "plan", "halt", "launch", "poll", "read",
           "show", "show.done", "over", "collect", "markers", "orphan.flag",
           "orphan.kill", "restore", "again", "again.spawn", "again.record", "finish"}

CancelPc == {"idle", "epoch", "salvage", "flag", "kill", "shown"}

UserPc == {"idle", "start", "stop", "halt", "switch", "install", "sweep", "free",
           "start.stop", "start.spawn", "start.record"}

\* Every variable ranges over what the program, the files and the processes hold.
TypeOK ==
  /\ ops \in {None, "test", "user"}
  /\ {running, epoch, asked, flag, saved, runtime, installed, finished, stopped,
      scanned, sweeping} \subseteq BOOLEAN
  /\ runPid \in Run \cup {None} /\ current \in Run \cup {None}
  /\ out \in {"none", "some", "done"}
  /\ runner \in [Run -> RunnerState]
  /\ stepsLeft \in [Run -> 0..Steps]
  /\ engines \subseteq Run \cup {"app", "svc"}
  /\ withstood \subseteq engines
  /\ DOMAIN pc = Actor
  /\ pc["test"] \in TestPc /\ pc["cancel"] \in CancelPc /\ pc["user"] \in UserPc
  /\ victim \in [Actor -> Run \cup {None}]
  /\ had \in {"app", "svc", None}

\* Besides engines that the stop before the last start could not end, at most one
\* is running: a start, the return from a test and the runner exclude each other
\* although a cancelled runner, a phantom and a user's check before the lock all
\* cross them (lib.rs:1517, lib.rs:1258).
OneUnlessWithstood == Cardinality(engines \ withstood) <= 1

\* A runner starts an engine only on behalf of a test that still waits for it:
\* once the test and its cancel are over, nothing it left behind measures on and
\* disturbs the strategy the user starts next (stop_test_runner, lib.rs:1379).
NoOrphanMeasures ==
  [][\A r \in Run : r \in engines' \ engines
       => r = current /\ (pc["test"] # "idle" \/ pc["cancel"] # "idle")]_vars

\* A start or stop by the user never ends the engine a living runner of an
\* uncancelled test measures with (stop_running, lib.rs:1054).
UserSparesTest ==
  [][pc["user"]' # pc["user"]
       => \A r \in Run \cap (engines \ engines') : ~Living(r) \/ epoch]_vars

\* What a test measured to its end gets into the cache, even if a cancel comes
\* while the thread is collecting it: either the thread does not see the cancel's
\* flag, or the cancel read the progress before it set the flag (lib.rs:2333).
CompletedSaved == (out = "done" /\ ~epoch) ~> saved

\* A cancelled test gives the lock back: no cancel leaves the program busy.
CancelFrees == pc["cancel"] = "epoch" ~> ops # "test"

\* A stop ends everything that belongs to the engine, "without that a second winws
\* ... conflicts with the first" (lib.rs:920-922, lib.rs:942), so that a start finds
\* none: two engines never run at once.
OneEngine == Cardinality(engines) <= 1

\* The thread's own time limits end every test: "a hung runner ... the timeout
\* never fired, the test hung until a restart" is what they are there to prevent
\* (lib.rs:1858).
TestEnds == running ~> ~running

\* A cancelled test whose runner was launched gives back the engine it stopped,
\* as a test that ends by itself does: "or the user is left without protection"
\* (lib.rs:1986).
CancelReturnsEngine ==
  (epoch /\ pc["test"] = "idle" /\ pc["cancel"] = "idle" /\ runner[current] # "none")
    => had = None

\* While a test holds the lock nobody but the test, its cancel and its runner
\* ends the engine it measures with (lib.rs:1515).
TestUndisturbed ==
  [][\A r \in Run \cap (engines \ engines') :
       (Living(r) /\ ops = "test" /\ ~epoch) => runner'[r] # runner[r]]_vars
=============================================================================
