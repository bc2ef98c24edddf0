---------------------------- MODULE ServiceSwitch ----------------------------
(* The Windows service and the boot task, and what the program believes of them *)
(* (lib.rs install_service, remove_service, start_or_switch, net_reset,          *)
(* sync_service_state, sync_boot_task and the watcher; service.rs, netreset.rs,  *)
(* runner.rs).  The system is asked by other processes, outside the lock of the  *)
(* state, so an answer can be older than what is written over.                   *)
EXTENDS AppLock

CONSTANTS Profiles, NoProfile

ASSUME ServiceAssumption == NoProfile \notin Profiles

VARIABLES
  sys,       \* the service control manager: state and zgui-strategy
  card,      \* service_running and service_strategy of state.json
  autostart, \* settings.autostart_profile
  boot,      \* settings.boot_app
  task,      \* the scheduled task exists
  cmd,       \* the operation under OPS: which, for which profile, how far
  watch,     \* the watcher's copy of the card and the system's answer
  starting,  \* boot_app as the start-up thread took it along, or "done"
  unsettled  \* the task was left by a failed command, a dead one or that thread

svcVars == <<sys, card, autostart, boot, task, cmd, watch, starting, unsettled>>

State(s, p) == [state |-> s, strat |-> p]
Absent == State("absent", NoProfile)
Idle   == [op |-> "none", profile |-> NoProfile, at |-> "end"]

\* Commands that start with OPS: install, switch to a profile, remove, reset.
Begins(op, p) ==
  /\ TakesOps("service")
  /\ cmd' = [op |-> op, profile |-> p, at |-> "clear"]
  /\ UNCHANGED <<sys, card, autostart, boot, task, watch, starting, unsettled>>

InstallBegins(p) == Begins("install", p)
SwitchBegins(p)  == sys # Absent /\ Begins("switch", p)
RemoveBegins     == Begins("remove", NoProfile)
ResetBegins      == Begins("reset", NoProfile)

Goes(at) == cmd' = [cmd EXCEPT !.at = at] /\ UNCHANGED lockVars

\* Mutant: an operation that ends keeps its guard.
EndsHolding == cmd' = Idle /\ UNCHANGED lockVars

Ends == cmd' = Idle /\ DropOps("service")
At(ops_, at) == up /\ cmd.op \in ops_ /\ cmd.at = at

Stopped(s) == IF s.state = "running" THEN [s EXCEPT !.state = "stopped"] ELSE s

\* stop_all_own: install goes on if it fails, a switch does not.
StopsAll ==
  /\ At({"install", "switch"}, "clear")
  /\ \/ sys' = Stopped(sys) /\ Goes("delete")
     \/ UNCHANGED sys /\ IF cmd.op = "install" THEN Goes("delete") ELSE Ends
  /\ UNCHANGED <<card, autostart, boot, task, watch, starting, unsettled>>

\* The script: stop and delete, then New-Service and Start-Service.  It can fail
\* after each, and the service can come up and end at once.
DeletesOld ==
  /\ At({"install", "switch"}, "delete")
  /\ \/ sys' = Absent /\ Goes("create")
     \/ sys' \in {sys, Stopped(sys)} /\ Ends
  /\ UNCHANGED <<card, autostart, boot, task, watch, starting, unsettled>>

CreatesNew ==
  /\ At({"install", "switch"}, "create")
  /\ \/ sys' = State("running", NoProfile) /\ Goes("name")
     \/ sys' \in {Absent, State("stopped", NoProfile)} /\ Ends
  /\ UNCHANGED <<card, autostart, boot, task, watch, starting, unsettled>>

\* reg add of the strategy, whose failure is only told; then the state.
NamesStrategy ==
  /\ At({"install", "switch"}, "name")
  /\ sys' \in {sys, [sys EXCEPT !.strat = IF sys = Absent THEN NoProfile ELSE cmd.profile]}
  /\ Goes("store")
  /\ UNCHANGED <<card, autostart, boot, task, watch, starting, unsettled>>

\* Mutant: a switch turns the setting on and leaves the task.
InstallOrSwitchStores ==
  /\ At({"install", "switch"}, "store")
  /\ card' = State("running", cmd.profile)
  /\ autostart' = cmd.profile /\ boot' = TRUE
  /\ IF cmd.op = "install" THEN Goes("task") ELSE Ends
  /\ UNCHANGED <<sys, task, watch, starting, unsettled>>

InstallStores ==
  /\ At({"install", "switch"}, "store")
  /\ card' = State("running", cmd.profile)
  /\ \/ /\ cmd.op = "install"
        /\ autostart' = cmd.profile /\ boot' = TRUE
        /\ Goes("task")
     \/ cmd.op = "switch" /\ Ends /\ UNCHANGED <<autostart, boot>>
  /\ UNCHANGED <<sys, task, watch, starting, unsettled>>

\* apply_boot_task and remove_boot_task look at the result; a failure is logged.
Task(wanted) ==
  \/ task' = wanted /\ unsettled' = FALSE
  \/ UNCHANGED task /\ unsettled' = TRUE

SetsTask ==
  /\ \/ At({"install"}, "task") /\ Task(TRUE)
     \/ At({"remove"}, "task") /\ Task(FALSE)
  /\ Ends
  /\ UNCHANGED <<sys, card, autostart, boot, watch, starting>>

RemovesService ==
  /\ At({"remove"}, "clear")
  /\ \/ sys' = Absent /\ Goes("store")
     \/ sys' \in {sys, Stopped(sys)} /\ Ends
  /\ UNCHANGED <<card, autostart, boot, task, watch, starting, unsettled>>

RemoveStores ==
  /\ At({"remove"}, "store")
  /\ card' = Absent /\ autostart' = NoProfile /\ boot' = FALSE
  /\ Goes("task")
  /\ UNCHANGED <<sys, task, watch, starting, unsettled>>

\* sync_service_state, on the state with its lock held.
SyncCard ==
  /\ card' = sys
  /\ autostart' = IF card # sys /\ sys = Absent THEN NoProfile ELSE autostart

\* net_reset: its script reports a step that failed, and succeeds.
ResetRuns ==
  /\ At({"reset"}, "clear")
  /\ sys' \in {sys, Stopped(sys), Absent}
  /\ Goes("sync") \/ Ends
  /\ UNCHANGED <<card, autostart, boot, task, watch, starting, unsettled>>

ResetSyncs ==
  /\ At({"reset"}, "sync")
  /\ SyncCard /\ Ends
  /\ UNCHANGED <<sys, boot, task, watch, starting, unsettled>>

----------------------------------------------------------------------------
(* The watcher: the card under the lock, the system without it, the card again. *)

Asleep == [at |-> "sleep", card |-> Absent, found |-> Absent]

WatchReads ==
  /\ up /\ watch.at = "sleep"
  /\ watch' = [at |-> "ask", card |-> card, found |-> Absent]
  /\ UNCHANGED <<lockVars, sys, card, autostart, boot, task, cmd, starting, unsettled>>

\* Mutant: the system is asked only while the card says the service runs.
WatchAsksIfRunning ==
  /\ up /\ watch.at = "ask"
  /\ watch' = [watch EXCEPT !.at = "write",
                !.found = IF watch.card.state = "running" THEN sys ELSE watch.card]
  /\ UNCHANGED <<lockVars, sys, card, autostart, boot, task, cmd, starting, unsettled>>

WatchAsks ==
  /\ up /\ watch.at = "ask"
  /\ watch' = [watch EXCEPT !.at = "write", !.found = sys]
  /\ UNCHANGED <<lockVars, sys, card, autostart, boot, task, cmd, starting, unsettled>>

WatchWrites ==
  /\ up /\ watch.at = "write"
  /\ card' = IF watch.card # watch.found THEN watch.found ELSE card
  /\ watch' = Asleep
  /\ UNCHANGED <<lockVars, sys, autostart, boot, task, cmd, starting, unsettled>>

----------------------------------------------------------------------------
(* The process and the world.                                                 *)

On(b) == IF b THEN "on" ELSE "off"

ServiceStarts ==
  /\ LockStarts
  /\ SyncCard
  /\ starting' = On(boot)
  /\ UNCHANGED <<sys, boot, task, cmd, watch, unsettled>>

\* sync_boot_task, with the setting as it was when the program started.
SyncsTask ==
  /\ up /\ starting # "done"
  /\ \/ task' = (starting = "on") /\ unsettled' = (starting # On(boot))
     \/ UNCHANGED task /\ unsettled' = TRUE
  /\ starting' = "done"
  /\ UNCHANGED <<lockVars, sys, card, autostart, boot, cmd, watch>>

ServiceDies ==
  /\ LockDies
  /\ cmd' = Idle /\ watch' = Asleep /\ starting' = "done"
  /\ unsettled' = (unsettled \/ cmd.at = "task")
  /\ UNCHANGED <<sys, card, autostart, boot, task>>

\* The service ends by itself or is started by hand.
SystemChanges ==
  /\ sys # Absent
  /\ sys' = [sys EXCEPT !.state = IF @ = "running" THEN "stopped" ELSE "running"]
  /\ UNCHANGED <<lockVars, card, autostart, boot, task, cmd, watch, starting, unsettled>>

ServiceInit ==
  /\ sys \in {Absent} \cup {State("running", p) : p \in Profiles}
  /\ card \in {Absent, sys}
  /\ autostart = sys.strat
  /\ boot = (sys # Absent) /\ task = boot
  /\ cmd = Idle /\ watch = Asleep /\ starting = "done" /\ unsettled = FALSE

ServiceBegins == (\E p \in Profiles : InstallBegins(p) \/ SwitchBegins(p))
                 \/ RemoveBegins \/ ResetBegins

ServiceWorks ==
  StopsAll \/ DeletesOld \/ CreatesNew \/ NamesStrategy \/ InstallStores \/ SetsTask
  \/ RemovesService \/ RemoveStores \/ ResetRuns \/ ResetSyncs

Watches == WatchReads \/ WatchAsks \/ WatchWrites

ServiceNext == ServiceBegins \/ ServiceWorks \/ Watches \/ ServiceStarts \/ SyncsTask
               \/ ServiceDies \/ SystemChanges

ServiceSpec == LockInit /\ ServiceInit /\ [][ServiceNext]_<<lockVars, svcVars>>

ServiceFairness ==
  /\ WF_<<lockVars, svcVars>>(ServiceWorks)
  /\ WF_<<lockVars, svcVars>>(Watches)

----------------------------------------------------------------------------

ServiceTypeOK ==
  /\ LET S == {Absent} \cup [state : {"stopped", "running"}, strat : Profiles \cup {NoProfile}]
     IN  sys \in S /\ card \in S /\ watch.card \in S /\ watch.found \in S
  /\ autostart \in Profiles \cup {NoProfile}
  /\ {boot, task, unsettled} \subseteq BOOLEAN /\ starting \in {"on", "off", "done"}
  /\ ops = "service" <=> cmd # Idle

\* The task that starts the program with Windows exists exactly if the setting
\* says so, unless schtasks failed, a command died on its way, or the thread of
\* the start acted on an older setting (install_service, remove_service,
\* sync_boot_task): net_reset and a failed installation change neither.
BootTaskFollows == up /\ cmd = Idle /\ starting = "done" /\ ~unsettled => task = boot

\* Once nobody changes the service any more, the program comes to show it as it
\* is, whatever the watcher has written from an old answer.
CardConverges == <>[](up => card = sys)
=============================================================================
