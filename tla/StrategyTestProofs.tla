-------------------------- MODULE StrategyTestProofs --------------------------
(* That a strategy test, its cancel, the user's start and stop, the watcher and  *)
(* the runners never have two engines running but for those that a stop could not *)
(* end, for any number of tests and any plan.                                     *)
EXTENDS StrategyTest, FiniteSetTheorems, TLAPS

\* Where the thread is: nothing stopped yet, waiting for the runner, behind the loop.
Early   == {"old.flag", "old.kill", "plan"}
Polling == {"poll", "read", "show", "show.done", "over"}
Late    == {"collect", "markers", "orphan.flag", "orphan.kill", "restore", "again",
            "again.spawn", "again.record", "finish"}

\* What a runner can still do: nothing, nothing but leave, or spawn an engine.
Cold(r)   == runner[r] \in {"none", "exiting", "gone"}
Spent(r)  == Cold(r) \/ (runner[r] = "check" /\ stepsLeft[r] = 0)
Ended(r)  == Spent(r) /\ runner[r] # "none"
Risky(r)  == \/ runner[r] \in {"spawn", "measure"}
             \/ runner[r] \in {"starting", "check"} /\ stepsLeft[r] > 0 /\ ~flag

\* The lock is the thread's or the user's.
Locked ==
  /\ pc["test"] # "idle" <=> ops = "test"
  /\ pc["user"] \notin {"idle", "start", "stop"} <=> ops = "user"

\* Only the runner of the last plan can do anything.
OneRunner ==
  /\ \A r \in Run : r # current \/ pc["test"] = "plan" => Cold(r)
  /\ pc["test"] \in {"halt", "launch"} => current \in Run /\ runner[current] = "none"
  /\ pc["test"] \in Polling => current \in Run /\ runner[current] # "none"
  /\ pc["test"] \in Late => current \in Run /\ Ended(current)
  /\ \A r \in Run : runner[r] = "spawn" => stepsLeft[r] > 0

\* A pid on file or read from it is the last runner's, which has got to its first lines.
Pids ==
  /\ runPid \in {None, current}
  /\ \A r \in Run : runner[r] \in {"none", "starting"} => runPid # r
  /\ \A a \in Actor : victim[a] # None =>
       /\ victim[a] = current /\ runner[current] \notin {"none", "starting"}
       /\ pc[a] \in {"old.kill", "orphan.kill", "kill"}

\* What the progress file says of the runner.
Progress ==
  /\ \A r \in Run : out = "done" /\ r = current => Ended(r)
  /\ \A r \in Run : out = "none" => runner[r] = "starting" \/ Spent(r)
  /\ pc["test"] \in {"halt", "launch"} => out = "none"
  /\ pc["test"] \in Polling /\ out = "none" => runner[current] = "starting"
  /\ pc["test"] = "show.done" => out = "done"
  /\ pc["test"] = "over" => epoch \/ out = "done"

\* Whose an engine is.
Owned ==
  /\ \A x, y \in engines \ withstood : x = y
  /\ \A r \in Run \cap engines : runner[r] \in {"measure", "gone"} /\ (r = current => out = "some")
  /\ pc["test"] \in {"launch", "collect", "markers", "orphan.flag", "orphan.kill",
                     "restore", "again", "again.spawn"} => engines = {}
  /\ pc["test"] \in Polling => engines \subseteq {current}
  /\ pc["user"] \in {"start.spawn", "install"} => engines \subseteq withstood
  /\ \A r \in Run : Risky(r) => engines \subseteq {r}

\* How far a cancel is, and what it has to do with the thread.
Cancelling ==
  /\ flag /\ pc["test"] \in {"launch"} \cup Polling => epoch
  /\ pc["test"] = "halt" => ~flag
  /\ pc["cancel"] # "idle" => ~asked /\ pc["test"] \notin Early \cup {"halt"}
  /\ pc["cancel"] = "epoch" => ~epoch
  /\ pc["cancel"] \in {"salvage", "flag", "kill", "shown"} => epoch
  /\ epoch /\ pc["cancel"] = "idle" => ~running /\ ~MidPass
  /\ running /\ pc["cancel"] = "idle" => pc["test"] \in {"launch"} \cup Polling \cup Late

\* The user is not at it while a cancel has a runner to end.
UserWaits ==
  pc["cancel"] # "idle" /\ (pc["user"] # "idle" \/ ~running) =>
    pc["test"] # "launch" /\ \A r \in Run : Spent(r)

\* The flag stays until the runner has read it.
Told(r) ==
  /\ flag /\ runner[r] \in {"starting", "check"} /\ (runner[r] = "check" => runPid = r)
  /\ pc["cancel"] \in {"kill", "shown", "idle"} /\ victim["cancel"] = None

\* A runner nobody waits for is killed by the cancel or reads the flag.
Doomed(r) ==
  \/ pc["cancel"] \in {"salvage", "flag"} /\ (runner[r] # "starting" => runPid = r)
  \/ pc["cancel"] = "kill" /\ victim["cancel"] = r
  \/ Told(r)

Forsaken ==
  \A r \in Run : ~Cold(r) =>
    /\ pc["test"] = "idle" \/ (epoch /\ pc["test"] \in Polling) => Doomed(r)
    /\ pc["test"] \in Polling /\ ~epoch /\ runner[r] # "starting" => runPid = r
    /\ pc["test"] = "old.flag" => Told(r) /\ runner[r] = "check"
    /\ pc["test"] = "old.kill" => victim["test"] = r /\ Told(r) /\ runner[r] = "check"
    /\ pc["test"] \in Late =>
         \/ pc["test"] \in {"collect", "markers", "orphan.flag"} /\ ~flag /\ runPid = r
         \/ pc["test"] = "orphan.kill" /\ victim["test"] = r
         \/ pc["cancel"] = "kill" /\ victim["cancel"] = r

LaunchTold ==
  pc["test"] = "launch" => ~epoch \/ flag \/ pc["cancel"] \in {"salvage", "flag"}

IInv ==
  /\ TypeOK /\ Locked /\ OneRunner /\ Pids /\ Progress /\ Owned /\ Cancelling
  /\ UserWaits /\ Forsaken /\ LaunchTold

LEMMA Booleans == \A x : x = FALSE \/ x = TRUE => x \in BOOLEAN
OBVIOUS

\* The words of the invariant and the parts of the actions.
USE DEF Early, Polling, Late, Cold, Spent, Ended, Risky, Told, Doomed, MidPass, TestPc,
        CancelPc, UserPc, Actor, RunnerState, files, procs, app, locals, watch, Goto, Leave,
        Living, Outlives, EngineStarts, StopAllOwn, Swept, RunnerMoves

-----------------------------------------------------------------------------
(* The command and its thread.                                              *)

LEMMA RequestKeeps ==
  ASSUME IInv, Request
  PROVE  IInv'
<1> USE DEF IInv, Request, RunnerAlive
<1>1. TypeOK'
  BY Booleans DEF TypeOK
<1>2. Locked' /\ OneRunner' /\ Progress' /\ Cancelling' /\ UserWaits'
  BY DEF Locked, OneRunner, Progress, Cancelling, UserWaits
<1>3. Pids'
  BY StrategyTestAssumption DEF Pids
<1>4. Owned'
  BY DEF OneRunner, Owned, Cancelling
<1>5. Forsaken'
  BY StrategyTestAssumption DEF TypeOK, OneRunner, Pids, Cancelling, Forsaken
<1>6. LaunchTold'
  BY DEF Cancelling, LaunchTold
<1> QED
  BY <1>1, <1>2, <1>3, <1>4, <1>5, <1>6

LEMMA RequestRefusedKeeps ==
  ASSUME IInv, RequestRefused
  PROVE  IInv'
<1> USE DEF IInv, RequestRefused
<1>1. TypeOK'
  BY Booleans DEF TypeOK
<1>2. /\ Locked' /\ OneRunner' /\ Pids' /\ Progress' /\ Owned'
      /\ Cancelling' /\ UserWaits' /\ Forsaken' /\ LaunchTold'
  BY DEF Locked, OneRunner, Pids, Progress, Owned, Cancelling, UserWaits, Forsaken,
         LaunchTold
<1> QED
  BY <1>1, <1>2

LEMMA RequestAcceptedKeeps ==
  ASSUME IInv, RequestAccepted
  PROVE  IInv'
<1> USE DEF IInv, RequestAccepted, SlowRunner, MarkersPresent
<1>1. TypeOK'
  BY Booleans DEF TypeOK
<1>2. Progress' /\ Owned' /\ UserWaits' /\ LaunchTold'
  BY DEF Progress, Owned, UserWaits, LaunchTold
<1>3. Locked' /\ Pids' /\ Cancelling'
  BY StrategyTestAssumption DEF TypeOK, Locked, Pids, Cancelling
<1>4. OneRunner'
  BY StrategyTestAssumption DEF Locked, OneRunner, Cancelling, Forsaken
<1>5. Forsaken'
  BY StrategyTestAssumption DEF Locked, Cancelling, Forsaken
<1> QED
  BY <1>1, <1>2, <1>3, <1>4, <1>5

LEMMA TestRejectedKeeps ==
  ASSUME IInv, TestRejected
  PROVE  IInv'
<1> USE DEF IInv, TestRejected
<1>1. TypeOK'
  BY Booleans DEF TypeOK
<1>2. OneRunner' /\ Pids' /\ Progress' /\ Owned' /\ Cancelling' /\ UserWaits' /\ LaunchTold'
  BY DEF OneRunner, Pids, Progress, Owned, Cancelling, UserWaits, LaunchTold
<1>3. Locked'
  BY StrategyTestAssumption DEF TypeOK, Locked
<1>4. Forsaken'
  BY DEF OneRunner, Forsaken
<1> QED
  BY <1>1, <1>2, <1>3, <1>4

LEMMA OldFlagKeeps ==
  ASSUME IInv, StopFlag("test", "old.flag", "old.kill")
  PROVE  IInv'
<1> USE DEF IInv, StopFlag
<1>1. TypeOK'
  BY Booleans DEF TypeOK
<1>2. /\ Locked' /\ OneRunner' /\ Progress' /\ Owned' /\ Cancelling'
      /\ UserWaits' /\ LaunchTold'
  BY DEF Locked, OneRunner, Progress, Owned, Cancelling, UserWaits, LaunchTold
<1>3. Pids' /\ Forsaken'
  BY DEF TypeOK, Pids, Forsaken
<1> QED
  BY <1>1, <1>2, <1>3

LEMMA OldKillKeeps ==
  ASSUME IInv, StopKill("test", "old.kill", "plan")
  PROVE  IInv'
<1> USE DEF IInv, StopKill
<1>1. TypeOK'
  BY Booleans DEF TypeOK
<1>2. Locked' /\ Cancelling' /\ LaunchTold'
  BY DEF Locked, Cancelling, LaunchTold
<1>3. Pids' /\ Progress' /\ UserWaits' /\ Forsaken'
  BY StrategyTestAssumption DEF TypeOK, Pids, Progress, UserWaits, Forsaken
<1>4. OneRunner'
  BY StrategyTestAssumption DEF TypeOK, OneRunner, Forsaken
<1>5. Owned'
  BY DEF TypeOK, OneRunner, Pids, Owned
<1> QED
  BY <1>1, <1>2, <1>3, <1>4, <1>5

LEMMA WritePlanKeeps ==
  ASSUME IInv, WritePlan
  PROVE  IInv'
<1> USE DEF IInv, WritePlan
<1>1. TypeOK'
  BY Booleans DEF TypeOK
<1>2. Locked' /\ OneRunner' /\ Cancelling' /\ UserWaits' /\ Forsaken' /\ LaunchTold'
  BY DEF Locked, OneRunner, Cancelling, UserWaits, Forsaken, LaunchTold
<1>3. Pids'
  BY StrategyTestAssumption DEF TypeOK, Pids, Cancelling
<1>4. Progress'
  BY DEF OneRunner, Progress
<1>5. Owned'
  BY DEF OneRunner, Owned
<1> QED
  BY <1>1, <1>2, <1>3, <1>4, <1>5

LEMMA HaltKeeps ==
  ASSUME IInv, Halt
  PROVE  IInv'
<1> USE DEF IInv, Halt
<1>1. TypeOK'
  BY Booleans DEF TypeOK
<1>2. /\ Locked' /\ OneRunner' /\ Pids' /\ Progress' /\ Owned'
      /\ Cancelling' /\ UserWaits' /\ LaunchTold'
  BY StrategyTestAssumption DEF TypeOK, Locked, OneRunner, Pids, Progress, Owned,
                                Cancelling, UserWaits, LaunchTold
<1>3. Forsaken'
  BY DEF OneRunner, Forsaken
<1> QED
  BY <1>1, <1>2, <1>3

LEMMA LaunchKeeps ==
  ASSUME IInv, Launch
  PROVE  IInv'
<1> USE DEF IInv, Launch
<1>1. TypeOK'
  BY Booleans DEF TypeOK
<1>2. Owned'
  BY DEF Owned
<1>3. Locked' /\ OneRunner' /\ Cancelling' /\ LaunchTold'
  BY StrategyTestAssumption DEF TypeOK, Locked, OneRunner, Cancelling, LaunchTold
<1>4. Pids'
  BY StrategyTestAssumption DEF OneRunner, Pids
<1>5. Progress'
  BY DEF TypeOK, OneRunner, Progress
<1>6. UserWaits'
  BY DEF TypeOK, OneRunner, UserWaits
<1>7. Forsaken'
  BY DEF TypeOK, OneRunner, Pids, Cancelling, Forsaken, LaunchTold
<1> QED
  BY <1>1, <1>2, <1>3, <1>4, <1>5, <1>6, <1>7

LEMMA PollHeadKeeps ==
  ASSUME IInv, EpochCheck("poll", "read")
  PROVE  IInv'
<1> USE DEF IInv, EpochCheck
<1>1. TypeOK'
  BY Booleans DEF TypeOK
<1>2. /\ Locked' /\ OneRunner' /\ Pids' /\ Progress' /\ Owned'
      /\ Cancelling' /\ UserWaits' /\ Forsaken' /\ LaunchTold'
  BY StrategyTestAssumption DEF TypeOK, Locked, OneRunner, Pids, Progress, Owned,
                                Cancelling, UserWaits, Forsaken, LaunchTold
<1> QED
  BY <1>1, <1>2

LEMMA PollReadKeeps ==
  ASSUME IInv, PollRead
  PROVE  IInv'
<1> USE DEF IInv, PollRead
<1>1. TypeOK'
  BY Booleans DEF TypeOK
<1>2. /\ Locked' /\ OneRunner' /\ Pids' /\ Owned' /\ Cancelling'
      /\ UserWaits' /\ Forsaken' /\ LaunchTold'
  BY DEF TypeOK, Locked, OneRunner, Pids, Owned, Cancelling, UserWaits, Forsaken, LaunchTold
<1>3. Progress'
  BY DEF TypeOK, Progress, Cancelling
<1> QED
  BY <1>1, <1>2, <1>3

LEMMA PollShowKeeps ==
  ASSUME IInv, PollShow
  PROVE  IInv'
<1> USE DEF IInv, PollShow
<1>1. TypeOK'
  BY Booleans DEF TypeOK
<1>2. /\ Locked' /\ OneRunner' /\ Pids' /\ Progress' /\ Owned'
      /\ Cancelling' /\ Forsaken' /\ LaunchTold'
  BY DEF TypeOK, Locked, OneRunner, Pids, Progress, Owned, Cancelling, Forsaken, LaunchTold
<1>3. UserWaits'
  BY DEF TypeOK, OneRunner, Progress, UserWaits
<1> QED
  BY <1>1, <1>2, <1>3

LEMMA OverCheckKeeps ==
  ASSUME IInv, EpochCheck("over", "collect")
  PROVE  IInv'
<1> USE DEF IInv, EpochCheck
<1>1. TypeOK'
  BY Booleans DEF TypeOK
<1>2. Locked' /\ Pids' /\ Progress' /\ Cancelling' /\ UserWaits' /\ LaunchTold'
  BY StrategyTestAssumption DEF TypeOK, Locked, Pids, Progress, Cancelling, UserWaits,
                                LaunchTold
<1>3. OneRunner'
  BY DEF TypeOK, OneRunner, Progress
<1>4. Owned'
  BY StrategyTestAssumption DEF TypeOK, Progress, Owned
<1>5. Forsaken'
  BY DEF TypeOK, OneRunner, Progress, Cancelling, Forsaken
<1> QED
  BY <1>1, <1>2, <1>3, <1>4, <1>5

LEMMA CollectKeeps ==
  ASSUME IInv, Collect
  PROVE  IInv'
<1> USE DEF IInv, Collect
<1>1. TypeOK'
  BY Booleans DEF TypeOK
<1>2. /\ Locked' /\ OneRunner' /\ Pids' /\ Owned' /\ Cancelling'
      /\ UserWaits' /\ Forsaken' /\ LaunchTold'
  BY DEF Locked, OneRunner, Pids, Owned, Cancelling, UserWaits, Forsaken, LaunchTold
<1>3. Progress'
  BY DEF OneRunner, Progress
<1> QED
  BY <1>1, <1>2, <1>3

LEMMA ClearMarkersKeeps ==
  ASSUME IInv, ClearMarkers
  PROVE  IInv'
<1> USE DEF IInv, ClearMarkers, RunnerAlive
<1>1. TypeOK'
  BY Booleans DEF TypeOK
<1>2. Owned'
  BY DEF Owned
<1>3. /\ Locked' /\ OneRunner' /\ Pids' /\ Progress' /\ Cancelling'
      /\ UserWaits' /\ LaunchTold'
  BY StrategyTestAssumption DEF TypeOK, Locked, OneRunner, Pids, Progress, Cancelling,
                                UserWaits, LaunchTold
<1>4. Forsaken'
  BY StrategyTestAssumption DEF TypeOK, Pids, Forsaken
<1> QED
  BY <1>1, <1>2, <1>3, <1>4

LEMMA OrphanFlagKeeps ==
  ASSUME IInv, StopFlag("test", "orphan.flag", "orphan.kill")
  PROVE  IInv'
<1> USE DEF IInv, StopFlag
<1>1. TypeOK'
  BY Booleans DEF TypeOK
<1>2. /\ Locked' /\ OneRunner' /\ Progress' /\ Owned' /\ Cancelling'
      /\ UserWaits' /\ LaunchTold'
  BY DEF Locked, OneRunner, Progress, Owned, Cancelling, UserWaits, LaunchTold
<1>3. Pids' /\ Forsaken'
  BY DEF TypeOK, Pids, Forsaken
<1> QED
  BY <1>1, <1>2, <1>3

LEMMA OrphanKillKeeps ==
  ASSUME IInv, StopKill("test", "orphan.kill", "restore")
  PROVE  IInv'
<1> USE DEF IInv, StopKill
<1>1. TypeOK'
  BY Booleans DEF TypeOK
<1>2. Locked' /\ Owned' /\ Cancelling' /\ LaunchTold'
  BY DEF Locked, Owned, Cancelling, LaunchTold
<1>3. OneRunner' /\ Pids' /\ Progress' /\ UserWaits'
  BY StrategyTestAssumption DEF TypeOK, OneRunner, Pids, Progress, UserWaits
<1>4. Forsaken'
  BY StrategyTestAssumption DEF TypeOK, Pids, Forsaken
<1> QED
  BY <1>1, <1>2, <1>3, <1>4

LEMMA RestoreKeeps ==
  ASSUME IInv, Restore
  PROVE  IInv'
<1> USE DEF IInv, Restore
<1>1. TypeOK'
  BY Booleans DEF TypeOK
<1>2. /\ Locked' /\ OneRunner' /\ Pids' /\ Progress' /\ Cancelling'
      /\ UserWaits' /\ Forsaken' /\ LaunchTold'
  BY DEF Locked, OneRunner, Pids, Progress, Cancelling, UserWaits, Forsaken, LaunchTold
<1>3. Owned'
  BY StrategyTestAssumption DEF TypeOK, Locked, OneRunner, Owned
<1> QED
  BY <1>1, <1>2, <1>3

LEMMA ReturnStopsKeeps ==
  ASSUME IInv, StartStop("test", "again", "again.spawn", "finish")
  PROVE  IInv'
<1> USE DEF IInv, StartStop
<1>1. TypeOK'
  BY Booleans DEF TypeOK
<1>2. /\ Locked' /\ OneRunner' /\ Pids' /\ Progress' /\ Owned'
      /\ Cancelling' /\ UserWaits' /\ Forsaken' /\ LaunchTold'
  BY DEF Locked, OneRunner, Pids, Progress, Owned, Cancelling, UserWaits, Forsaken,
         LaunchTold
<1> QED
  BY <1>1, <1>2

LEMMA ReturnSpawnsKeeps ==
  ASSUME IInv, StartSpawn("test", "again.spawn", "again.record", "finish")
  PROVE  IInv'
<1> USE DEF IInv, StartSpawn
<1>1. TypeOK'
  BY Booleans DEF TypeOK
<1>2. /\ Locked' /\ OneRunner' /\ Pids' /\ Progress' /\ Cancelling'
      /\ UserWaits' /\ Forsaken' /\ LaunchTold'
  BY DEF TypeOK, Locked, OneRunner, Pids, Progress, Cancelling, UserWaits, Forsaken,
         LaunchTold
<1>3. Owned'
  BY StrategyTestAssumption DEF TypeOK, Locked, OneRunner, Owned
<1> QED
  BY <1>1, <1>2, <1>3

LEMMA ReturnRecordsKeeps ==
  ASSUME IInv, StartRecord("test", "again.record", "finish")
  PROVE  IInv'
<1> USE DEF IInv, StartRecord
<1>1. TypeOK'
  BY Booleans DEF TypeOK
<1>2. /\ Locked' /\ OneRunner' /\ Pids' /\ Progress' /\ Owned'
      /\ Cancelling' /\ UserWaits' /\ Forsaken' /\ LaunchTold'
  BY DEF Locked, OneRunner, Pids, Progress, Owned, Cancelling, UserWaits, Forsaken,
         LaunchTold
<1> QED
  BY <1>1, <1>2

LEMMA FinishKeeps ==
  ASSUME IInv, Finish
  PROVE  IInv'
<1> USE DEF IInv, Finish
<1>1. TypeOK'
  BY Booleans DEF TypeOK
<1>2. OneRunner' /\ Pids' /\ Progress' /\ Owned' /\ Cancelling' /\ Forsaken' /\ LaunchTold'
  BY DEF OneRunner, Pids, Progress, Owned, Cancelling, Forsaken, LaunchTold
<1>3. Locked'
  BY StrategyTestAssumption DEF TypeOK, Locked
<1>4. UserWaits'
  BY DEF OneRunner, UserWaits
<1> QED
  BY <1>1, <1>2, <1>3, <1>4

-----------------------------------------------------------------------------
(* The cancel.                                                              *)

LEMMA CancelAskedKeeps ==
  ASSUME IInv, CancelAsked
  PROVE  IInv'
<1> USE DEF IInv, CancelAsked, Locking
<1>1. TypeOK'
  BY Booleans DEF TypeOK
<1>2. Locked' /\ OneRunner' /\ Pids' /\ Progress' /\ Owned' /\ Cancelling' /\ LaunchTold'
  BY DEF Locked, OneRunner, Pids, Progress, Owned, Cancelling, LaunchTold
<1>3. UserWaits'
  BY DEF Locked, Cancelling, UserWaits
<1>4. Forsaken'
  BY DEF Cancelling, Forsaken
<1> QED
  BY <1>1, <1>2, <1>3, <1>4

LEMMA CancelEpochKeeps ==
  ASSUME IInv, CancelEpoch
  PROVE  IInv'
<1> USE DEF IInv, CancelEpoch
<1>1. TypeOK'
  BY Booleans DEF TypeOK
<1>2. Locked' /\ OneRunner' /\ Pids' /\ Progress' /\ Owned' /\ UserWaits'
  BY DEF Locked, OneRunner, Pids, Progress, Owned, UserWaits
<1>3. Cancelling' /\ Forsaken' /\ LaunchTold'
  BY DEF TypeOK, Cancelling, Forsaken, LaunchTold
<1> QED
  BY <1>1, <1>2, <1>3

LEMMA SalvageKeeps ==
  ASSUME IInv, Salvage
  PROVE  IInv'
<1> USE DEF IInv, Salvage
<1>1. TypeOK'
  BY Booleans DEF TypeOK
<1>2. /\ Locked' /\ OneRunner' /\ Pids' /\ Progress' /\ Owned'
      /\ Cancelling' /\ UserWaits' /\ Forsaken' /\ LaunchTold'
  BY DEF Locked, OneRunner, Pids, Progress, Owned, Cancelling, UserWaits, Forsaken,
         LaunchTold
<1> QED
  BY <1>1, <1>2

LEMMA CancelFlagKeeps ==
  ASSUME IInv, StopFlag("cancel", "flag", "kill")
  PROVE  IInv'
<1> USE DEF IInv, StopFlag
<1>1. TypeOK'
  BY Booleans DEF TypeOK
<1>2. /\ Locked' /\ OneRunner' /\ Progress' /\ Owned' /\ Cancelling'
      /\ UserWaits' /\ LaunchTold'
  BY DEF Locked, OneRunner, Progress, Owned, Cancelling, UserWaits, LaunchTold
<1>3. Pids'
  BY DEF TypeOK, Pids
<1>4. Forsaken'
  BY DEF TypeOK, OneRunner, Pids, Forsaken
<1> QED
  BY <1>1, <1>2, <1>3, <1>4

LEMMA CancelKillKeeps ==
  ASSUME IInv, StopKill("cancel", "kill", "shown")
  PROVE  IInv'
<1> USE DEF IInv, StopKill
<1>1. TypeOK'
  BY Booleans DEF TypeOK
<1>2. Locked' /\ Cancelling'
  BY DEF Locked, Cancelling
<1>3. OneRunner' /\ Pids' /\ UserWaits'
  BY StrategyTestAssumption DEF TypeOK, OneRunner, Pids, UserWaits
<1>4. Progress'
  BY DEF TypeOK, Pids, Progress
<1>5. Owned'
  BY DEF TypeOK, OneRunner, Pids, Owned
<1>6. Forsaken'
  BY StrategyTestAssumption DEF TypeOK, Pids, Forsaken
<1>7. LaunchTold'
  BY StrategyTestAssumption DEF TypeOK, OneRunner, Pids, LaunchTold
<1> QED
  BY <1>1, <1>2, <1>3, <1>4, <1>5, <1>6, <1>7

LEMMA CancelShownKeeps ==
  ASSUME IInv, CancelShown
  PROVE  IInv'
<1> USE DEF IInv, CancelShown
<1>1. TypeOK'
  BY Booleans DEF TypeOK
<1>2. /\ Locked' /\ OneRunner' /\ Pids' /\ Progress' /\ Owned'
      /\ Cancelling' /\ Forsaken' /\ LaunchTold'
  BY DEF Locked, OneRunner, Pids, Progress, Owned, Cancelling, Forsaken, LaunchTold
<1>3. UserWaits'
  BY DEF TypeOK, UserWaits
<1> QED
  BY <1>1, <1>2, <1>3

-----------------------------------------------------------------------------
(* The user.                                                                *)

LEMMA UserAskedKeeps ==
  ASSUME IInv, (\E op \in {"start", "stop"} : UserAsked(op))
  PROVE  IInv'
<1> USE DEF IInv, UserAsked
<1>1. TypeOK'
  BY Booleans DEF TypeOK
<1>2. /\ Locked' /\ OneRunner' /\ Pids' /\ Progress' /\ Owned'
      /\ Cancelling' /\ UserWaits' /\ Forsaken' /\ LaunchTold'
  BY DEF Locked, OneRunner, Pids, Progress, Owned, Cancelling, UserWaits, Forsaken,
         LaunchTold
<1> QED
  BY <1>1, <1>2

LEMMA UserLockedKeeps ==
  ASSUME IInv, UserLocked
  PROVE  IInv'
<1> USE DEF IInv, UserLocked
<1>1. TypeOK'
  BY Booleans DEF TypeOK
<1>2. /\ Locked' /\ OneRunner' /\ Pids' /\ Progress' /\ Owned'
      /\ Cancelling' /\ UserWaits' /\ Forsaken' /\ LaunchTold'
  BY StrategyTestAssumption DEF TypeOK, Locked, OneRunner, Pids, Progress, Owned,
                                Cancelling, UserWaits, Forsaken, LaunchTold
<1> QED
  BY <1>1, <1>2

LEMMA UserHaltsKeeps ==
  ASSUME IInv, UserHalts
  PROVE  IInv'
<1> USE DEF IInv, UserHalts
<1>1. TypeOK'
  BY Booleans DEF TypeOK
<1>2. /\ Locked' /\ OneRunner' /\ Pids' /\ Progress' /\ Owned'
      /\ Cancelling' /\ UserWaits' /\ Forsaken' /\ LaunchTold'
  BY DEF Locked, OneRunner, Pids, Progress, Owned, Cancelling, UserWaits, Forsaken,
         LaunchTold
<1> QED
  BY <1>1, <1>2

LEMMA ServiceSwitchKeeps ==
  ASSUME IInv, ServiceSwitch
  PROVE  IInv'
<1> USE DEF IInv, ServiceSwitch, StartStop
<1>1. TypeOK'
  BY Booleans DEF TypeOK
<1>2. /\ Locked' /\ OneRunner' /\ Pids' /\ Progress' /\ Cancelling'
      /\ UserWaits' /\ Forsaken' /\ LaunchTold'
  BY DEF TypeOK, Locked, OneRunner, Pids, Progress, Cancelling, UserWaits, Forsaken,
         LaunchTold
<1>3. Owned'
  BY StrategyTestAssumption DEF TypeOK, Locked, Owned, UserWaits, Forsaken
<1> QED
  BY <1>1, <1>2, <1>3

LEMMA UserSweepsKeeps ==
  ASSUME IInv, UserSweeps
  PROVE  IInv'
<1> USE DEF IInv, UserSweeps
<1>1. TypeOK'
  BY Booleans DEF TypeOK
<1>2. /\ Locked' /\ OneRunner' /\ Pids' /\ Progress' /\ Owned'
      /\ Cancelling' /\ UserWaits' /\ Forsaken' /\ LaunchTold'
  BY DEF Locked, OneRunner, Pids, Progress, Owned, Cancelling, UserWaits, Forsaken,
         LaunchTold
<1> QED
  BY <1>1, <1>2

LEMMA UserFreesKeeps ==
  ASSUME IInv, UserFrees
  PROVE  IInv'
<1> USE DEF IInv, UserFrees
<1>1. TypeOK'
  BY Booleans DEF TypeOK
<1>2. /\ OneRunner' /\ Pids' /\ Progress' /\ Owned' /\ Cancelling'
      /\ UserWaits' /\ Forsaken' /\ LaunchTold'
  BY DEF OneRunner, Pids, Progress, Owned, Cancelling, UserWaits, Forsaken, LaunchTold
<1>3. Locked'
  BY StrategyTestAssumption DEF TypeOK, Locked
<1> QED
  BY <1>1, <1>2, <1>3

LEMMA UserStopsKeeps ==
  ASSUME IInv, StartStop("user", "start.stop", "start.spawn", "free")
  PROVE  IInv'
<1> USE DEF IInv, StartStop
<1>1. TypeOK'
  BY Booleans DEF TypeOK
<1>2. /\ Locked' /\ OneRunner' /\ Pids' /\ Progress' /\ Owned'
      /\ Cancelling' /\ UserWaits' /\ Forsaken' /\ LaunchTold'
  BY DEF Locked, OneRunner, Pids, Progress, Owned, Cancelling, UserWaits, Forsaken,
         LaunchTold
<1> QED
  BY <1>1, <1>2

LEMMA UserSpawnsKeeps ==
  ASSUME IInv, StartSpawn("user", "start.spawn", "start.record", "free")
  PROVE  IInv'
<1> USE DEF IInv, StartSpawn
<1>1. TypeOK'
  BY Booleans DEF TypeOK
<1>2. /\ Locked' /\ OneRunner' /\ Pids' /\ Progress' /\ Cancelling'
      /\ UserWaits' /\ Forsaken' /\ LaunchTold'
  BY DEF TypeOK, Locked, OneRunner, Pids, Progress, Cancelling, UserWaits, Forsaken,
         LaunchTold
<1>3. Owned'
  BY StrategyTestAssumption DEF TypeOK, Locked, Owned, UserWaits, Forsaken
<1> QED
  BY <1>1, <1>2, <1>3

LEMMA UserRecordsKeeps ==
  ASSUME IInv, StartRecord("user", "start.record", "free")
  PROVE  IInv'
<1> USE DEF IInv, StartRecord
<1>1. TypeOK'
  BY Booleans DEF TypeOK
<1>2. /\ Locked' /\ OneRunner' /\ Pids' /\ Progress' /\ Owned'
      /\ Cancelling' /\ UserWaits' /\ Forsaken' /\ LaunchTold'
  BY DEF Locked, OneRunner, Pids, Progress, Owned, Cancelling, UserWaits, Forsaken,
         LaunchTold
<1> QED
  BY <1>1, <1>2

-----------------------------------------------------------------------------
(* The watcher.                                                             *)

LEMMA WatchRuntimeKeeps ==
  ASSUME IInv, WatchRuntime
  PROVE  IInv'
<1> USE DEF IInv, WatchRuntime
<1>1. TypeOK'
  BY Booleans DEF TypeOK
<1>2. /\ Locked' /\ OneRunner' /\ Pids' /\ Progress' /\ Owned'
      /\ Cancelling' /\ UserWaits' /\ Forsaken' /\ LaunchTold'
  BY DEF Locked, OneRunner, Pids, Progress, Owned, Cancelling, UserWaits, Forsaken,
         LaunchTold
<1> QED
  BY <1>1, <1>2

LEMMA WatchScanKeeps ==
  ASSUME IInv, WatchScan
  PROVE  IInv'
<1> USE DEF IInv, WatchScan
<1>1. TypeOK'
  BY Booleans DEF TypeOK
<1>2. /\ Locked' /\ OneRunner' /\ Pids' /\ Progress' /\ Owned'
      /\ Cancelling' /\ UserWaits' /\ Forsaken' /\ LaunchTold'
  BY DEF Locked, OneRunner, Pids, Progress, Owned, Cancelling, UserWaits, Forsaken,
         LaunchTold
<1> QED
  BY <1>1, <1>2

LEMMA WatchSweepKeeps ==
  ASSUME IInv, WatchSweep
  PROVE  IInv'
<1> USE DEF IInv, WatchSweep
<1>1. TypeOK'
  BY Booleans DEF TypeOK
<1>2. /\ Locked' /\ OneRunner' /\ Pids' /\ Progress' /\ Owned'
      /\ Cancelling' /\ UserWaits' /\ Forsaken' /\ LaunchTold'
  BY DEF Locked, OneRunner, Pids, Progress, Owned, Cancelling, UserWaits, Forsaken,
         LaunchTold
<1> QED
  BY <1>1, <1>2

LEMMA AnticheatPauseKeeps ==
  ASSUME IInv, AnticheatPause
  PROVE  IInv'
<1> USE DEF IInv, AnticheatPause
<1>1. TypeOK'
  BY Booleans DEF TypeOK
<1>2. /\ Locked' /\ OneRunner' /\ Pids' /\ Progress' /\ Owned'
      /\ Cancelling' /\ UserWaits' /\ Forsaken' /\ LaunchTold'
  BY DEF Locked, OneRunner, Pids, Progress, Owned, Cancelling, UserWaits, Forsaken,
         LaunchTold
<1> QED
  BY <1>1, <1>2

-----------------------------------------------------------------------------
(* The runners.                                                             *)

LEMMA RunnerStartKeeps ==
  ASSUME IInv, NEW r \in Run, RunnerStart(r)
  PROVE  IInv'
<1> USE DEF IInv, RunnerStart
<1>1. TypeOK'
  BY Booleans DEF TypeOK
<1>2. Locked' /\ OneRunner' /\ Owned' /\ Cancelling' /\ UserWaits' /\ LaunchTold'
  BY DEF Locked, OneRunner, Owned, Cancelling, UserWaits, LaunchTold
<1>3. Pids'
  BY DEF TypeOK, OneRunner, Pids
<1>4. Progress'
  BY DEF OneRunner, Progress
<1>5. Forsaken'
  BY DEF OneRunner, Forsaken
<1> QED
  BY <1>1, <1>2, <1>3, <1>4, <1>5

LEMMA RunnerCheckKeeps ==
  ASSUME IInv, NEW r \in Run, RunnerCheck(r)
  PROVE  IInv'
<1> USE DEF IInv, RunnerCheck
<1>1. TypeOK'
  BY Booleans DEF TypeOK
<1>2. Locked' /\ Cancelling' /\ LaunchTold'
  BY DEF Locked, Cancelling, LaunchTold
<1>3. OneRunner' /\ Pids' /\ UserWaits' /\ Forsaken'
  BY DEF TypeOK, OneRunner, Pids, UserWaits, Forsaken
<1>4. Progress'
  BY DEF TypeOK, OneRunner, Progress
<1>5. Owned'
  BY DEF TypeOK, OneRunner, Owned
<1> QED
  BY <1>1, <1>2, <1>3, <1>4, <1>5

LEMMA RunnerSpawnKeeps ==
  ASSUME IInv, NEW r \in Run, RunnerSpawn(r)
  PROVE  IInv'
<1> USE DEF IInv, RunnerSpawn
<1>1. TypeOK'
  BY Booleans DEF TypeOK, OneRunner
<1>2. Locked' /\ Pids' /\ Progress' /\ Cancelling' /\ UserWaits' /\ Forsaken' /\ LaunchTold'
  BY DEF Locked, Pids, Progress, Cancelling, UserWaits, Forsaken, LaunchTold
<1>3. OneRunner'
  BY DEF TypeOK, OneRunner
<1>4. Owned'
  BY DEF TypeOK, Locked, OneRunner, Progress, Owned, UserWaits, Forsaken
<1> QED
  BY <1>1, <1>2, <1>3, <1>4

LEMMA RunnerMeasuredKeeps ==
  ASSUME IInv, NEW r \in Run, RunnerMeasured(r)
  PROVE  IInv'
<1> USE DEF IInv, RunnerMeasured
<1>1. TypeOK'
  BY Booleans DEF TypeOK
<1>2. /\ Locked' /\ OneRunner' /\ Pids' /\ Owned' /\ Cancelling'
      /\ UserWaits' /\ Forsaken' /\ LaunchTold'
  BY DEF Locked, OneRunner, Pids, Owned, Cancelling, UserWaits, Forsaken, LaunchTold
<1>3. Progress'
  BY DEF TypeOK, OneRunner, Progress
<1> QED
  BY <1>1, <1>2, <1>3

LEMMA RunnerExitsKeeps ==
  ASSUME IInv, NEW r \in Run, RunnerExits(r)
  PROVE  IInv'
<1> USE DEF IInv, RunnerExits
<1>1. TypeOK'
  BY Booleans DEF TypeOK
<1>2. /\ Locked' /\ OneRunner' /\ Pids' /\ Progress' /\ Owned'
      /\ Cancelling' /\ UserWaits' /\ Forsaken' /\ LaunchTold'
  BY DEF Locked, OneRunner, Pids, Progress, Owned, Cancelling, UserWaits, Forsaken,
         LaunchTold
<1> QED
  BY <1>1, <1>2

LEMMA RunnerDiesKeeps ==
  ASSUME IInv, NEW r \in Run, RunnerDies(r)
  PROVE  IInv'
<1> USE DEF IInv, RunnerDies
<1>1. TypeOK'
  BY Booleans DEF TypeOK
<1>2. /\ Locked' /\ OneRunner' /\ Pids' /\ Progress' /\ Owned'
      /\ Cancelling' /\ UserWaits' /\ Forsaken' /\ LaunchTold'
  BY DEF Locked, OneRunner, Pids, Progress, Owned, Cancelling, UserWaits, Forsaken,
         LaunchTold
<1> QED
  BY <1>1, <1>2

-----------------------------------------------------------------------------

LEMMA IInvInit == Init => IInv
<1> SUFFICES ASSUME Init PROVE IInv
  OBVIOUS
<1> USE DEF Init
<1>1. TypeOK
  BY Booleans, StrategyTestAssumption DEF TypeOK
<1>2. Locked /\ OneRunner /\ Progress /\ Cancelling /\ UserWaits /\ Forsaken /\ LaunchTold
  BY StrategyTestAssumption
     DEF Locked, OneRunner, Progress, Cancelling, UserWaits, Forsaken, LaunchTold
<1>3. Pids /\ Owned
  BY StrategyTestAssumption DEF Pids, Owned
<1> QED
  BY <1>1, <1>2, <1>3 DEF IInv

LEMMA IInvInductive == IInv /\ [Next]_vars => IInv'
<1> SUFFICES ASSUME IInv, [Next]_vars PROVE IInv'
  OBVIOUS
<1>1. CASE Request \/ RequestRefused \/ RequestAccepted
  BY <1>1, RequestKeeps, RequestRefusedKeeps, RequestAcceptedKeeps
<1>2. CASE TestThread
  BY <1>2, TestRejectedKeeps, OldFlagKeeps, OldKillKeeps, WritePlanKeeps, HaltKeeps,
     LaunchKeeps, PollHeadKeeps, PollReadKeeps, PollShowKeeps, OverCheckKeeps, CollectKeeps,
     ClearMarkersKeeps, OrphanFlagKeeps, OrphanKillKeeps, RestoreKeeps, ReturnStopsKeeps,
     ReturnSpawnsKeeps, ReturnRecordsKeeps, FinishKeeps
     DEF TestThread, DoStart
<1>3. CASE Cancel
  BY <1>3, CancelAskedKeeps, CancelEpochKeeps, SalvageKeeps, CancelFlagKeeps,
     CancelKillKeeps, CancelShownKeeps
     DEF Cancel
<1>4. CASE UserStep \/ \E op \in {"start", "stop"} : UserAsked(op)
  BY <1>4, UserAskedKeeps, UserLockedKeeps, UserHaltsKeeps, ServiceSwitchKeeps,
     UserSweepsKeeps, UserFreesKeeps, UserStopsKeeps, UserSpawnsKeeps, UserRecordsKeeps
     DEF UserStep, DoStart
<1>5. CASE Watcher
  BY <1>5, WatchRuntimeKeeps, WatchScanKeeps, WatchSweepKeeps, AnticheatPauseKeeps
     DEF Watcher
<1>6. ASSUME NEW r \in Run, RunnerStep(r) \/ RunnerDies(r) PROVE IInv'
  BY <1>6, RunnerStartKeeps, RunnerCheckKeeps, RunnerSpawnKeeps, RunnerMeasuredKeeps,
     RunnerExitsKeeps, RunnerDiesKeeps
     DEF RunnerStep
<1>7. CASE UNCHANGED vars
  <2> USE <1>7 DEF vars, IInv
  <2>1. TypeOK' /\ Locked' /\ OneRunner' /\ Pids' /\ Progress'
    BY DEF TypeOK, Locked, OneRunner, Pids, Progress
  <2>2. Owned' /\ Cancelling' /\ UserWaits' /\ Forsaken' /\ LaunchTold'
    BY DEF Owned, Cancelling, UserWaits, Forsaken, LaunchTold
  <2> QED
    BY <2>1, <2>2
<1> QED
  BY <1>1, <1>2, <1>3, <1>4, <1>5, <1>6, <1>7 DEF Next

LEMMA IInvAlways == Spec => []IInv
BY IInvInit, IInvInductive, PTL DEF Spec

\* Every variable of the test, its files, its processes and its callers keeps its
\* type, for any number of runs and strategies (lib.rs test_strategies, cancel_test).
THEOREM StrategyTypeCorrect == Spec => []TypeOK
<1>1. IInv => TypeOK
  BY DEF IInv
<1> QED
  BY <1>1, IInvAlways, PTL

\* Besides what the stop before the last start could not end, two engines never run
\* at once, whatever a test, its cancel, the user, the watcher and the runners do in
\* whatever order (lib.rs:1517, lib.rs:1258).
THEOREM OneEngineHolds == Spec => []OneUnlessWithstood
<1>1. IInv => OneUnlessWithstood
  <2> DEFINE Others == engines \ withstood
  <2> SUFFICES ASSUME \A x, y \in Others : x = y PROVE OneUnlessWithstood
    BY DEF IInv, Owned
  <2>1. CASE Others = {}
    BY <2>1, FS_EmptySet DEF OneUnlessWithstood
  <2>2. CASE Others # {}
    <3>1. PICK x \in Others : TRUE
      BY <2>2
    <3>2. Others = {x}
      BY <3>1
    <3> QED
      BY <3>2, FS_Singleton DEF OneUnlessWithstood
  <2> QED
    BY <2>1, <2>2
<1> QED
  BY <1>1, IInvAlways, PTL

LEMMA OnlyRunnersMeasure ==
  ASSUME Next
  PROVE  \/ engines' \cap Run \subseteq engines
         \/ \E r \in Run : RunnerSpawn(r) /\ engines' = engines \cup {r}
<1> USE StrategyTestAssumption
<1>1. CASE Request \/ RequestRefused \/ RequestAccepted
  BY <1>1 DEF Request, RequestRefused, RequestAccepted
<1>2. CASE TestThread
  BY <1>2 DEF TestThread, TestRejected, StopFlag, StopKill, WritePlan, Halt, Launch, EpochCheck,
     PollRead, PollShow, Collect, ClearMarkers, Restore, DoStart, StartStop, StartSpawn,
     StartRecord, Finish
<1>3. CASE Cancel
  BY <1>3 DEF Cancel, CancelAsked, CancelEpoch, Salvage, StopFlag, StopKill, CancelShown
<1>4. CASE UserStep \/ \E op \in {"start", "stop"} : UserAsked(op)
  BY <1>4 DEF UserStep, UserAsked, UserLocked, UserHalts, UserSweeps, ServiceSwitch, UserFrees,
     DoStart, StartStop, StartSpawn, StartRecord
<1>5. CASE Watcher
  BY <1>5 DEF Watcher, WatchRuntime, WatchScan, WatchSweep, AnticheatPause
<1>6. ASSUME NEW r \in Run, RunnerStep(r) \/ RunnerDies(r)
      PROVE  engines' \cap Run \subseteq engines \/ (RunnerSpawn(r) /\ engines' = engines \cup {r})
  BY <1>6 DEF RunnerStep, RunnerDies, RunnerStart, RunnerCheck, RunnerSpawn, RunnerMeasured,
     RunnerExits
<1> QED
  BY <1>1, <1>2, <1>3, <1>4, <1>5, <1>6 DEF Next

\* A runner starts an engine only for the last test planned, and only while that
\* test or its cancel is under way (stop_test_runner, lib.rs:1379).
THEOREM NoOrphanHolds == Spec => NoOrphanMeasures
<1> DEFINE Mine == \A r \in Run : r \in engines' \ engines
                     => r = current /\ (pc["test"] # "idle" \/ pc["cancel"] # "idle")
<1>1. ASSUME IInv, Next PROVE Mine
  <2> SUFFICES ASSUME NEW r \in Run, r \in engines' \ engines
               PROVE  r = current /\ (pc["test"] # "idle" \/ pc["cancel"] # "idle")
    OBVIOUS
  <2>1. RunnerSpawn(r)
    BY <1>1, OnlyRunnersMeasure
  <2>2. runner[r] = "spawn"
    BY <2>1 DEF RunnerSpawn
  <2> QED
    BY <1>1, <2>2 DEF IInv, OneRunner, Forsaken
<1>2. IInv /\ [Next]_vars => [Mine]_vars
  BY <1>1
<1> QED
  BY <1>2, IInvAlways, PTL DEF Spec, NoOrphanMeasures

\* A start or stop by the user never ends the engine of a living runner, unless
\* its test was cancelled (stop_running, lib.rs:1054).
THEOREM UserSparesHolds == Spec => UserSparesTest
<1> DEFINE Spares == pc["user"]' # pc["user"]
                       => \A r \in Run \cap (engines \ engines') : ~Living(r) \/ epoch
<1>1. ASSUME IInv, Next PROVE Spares
  <2> SUFFICES ASSUME NEW r \in Run, r \in engines \ engines', pc["user"]' # pc["user"], Living(r)
               PROVE  epoch
    OBVIOUS
  <2>1. runner[r] = "measure"
    BY <1>1 DEF IInv, Owned
  <2>2. pc["test"] = "idle"
    <3>1. CASE UserStep \/ \E op \in {"start", "stop"} : UserAsked(op)
      BY <1>1, <3>1 DEF IInv, Locked, UserStep, UserAsked, UserLocked, UserHalts, UserSweeps,
         ServiceSwitch, UserFrees, DoStart, StartStop, StartSpawn, StartRecord, TypeOK
    <3>2. CASE TestThread
      BY <1>1, <3>2
      DEF IInv, TypeOK, TestThread, TestRejected, StopFlag, StopKill, WritePlan, Halt, Launch,
         EpochCheck, PollRead, PollShow, Collect, ClearMarkers, Restore, DoStart, StartStop,
         StartSpawn, StartRecord, Finish
    <3>3. CASE Cancel
      BY <1>1, <3>3
      DEF IInv, TypeOK, Cancel, CancelAsked, CancelEpoch, Salvage, StopFlag, StopKill, CancelShown
    <3>4. CASE Request \/ RequestRefused \/ RequestAccepted \/ Watcher
      BY <3>4 DEF Request, RequestRefused, RequestAccepted, Watcher, WatchRuntime, WatchScan,
         WatchSweep, AnticheatPause
    <3>5. CASE \E s \in Run : RunnerStep(s) \/ RunnerDies(s)
      BY <3>5 DEF RunnerStep, RunnerDies, RunnerStart, RunnerCheck, RunnerSpawn,
         RunnerMeasured, RunnerExits
    <3> QED
      BY <1>1, <3>1, <3>2, <3>3, <3>4, <3>5 DEF Next
  <2> QED
    BY <1>1, <2>1, <2>2 DEF IInv, Forsaken, Cancelling
<1>2. IInv /\ [Next]_vars => [Spares]_vars
  BY <1>1
<1> QED
  BY <1>2, IInvAlways, PTL DEF Spec, UserSparesTest
=============================================================================
