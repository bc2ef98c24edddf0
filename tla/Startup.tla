------------------------------- MODULE Startup -------------------------------
(* Processes of the program that start beside each other, and state.json, which  *)
(* all of them load and save (lib.rs run, close_other_instances and the exit;    *)
(* config.rs AppState::load, save, atomic_write; runner.rs relaunch_as_admin;    *)
(* service.rs pid_is_zgui, zgui_pids).  A process can die at every step, its own *)
(* save half done, and its pid be given to a later launch.                       *)
CONSTANTS
  Process,   \* the processes there can be, by pid
  Admin,     \* those that run elevated
  Values,    \* contents of the settings
  Default,   \* Settings::default()
  Missing,   \* there is no file
  Bad,       \* it does not parse
  Half,      \* a save has not finished it
  Nobody

ASSUME StartupAssumption ==
  /\ Admin \subseteq Process /\ Nobody \notin Process
  /\ Default \in Values
  /\ {Missing, Bad, Half} \cap Values = {}
  /\ Missing # Bad /\ Half \notin {Missing, Bad}

VARIABLES
  pc,       \* each process: see Stages
  mem,      \* the settings it holds
  unread,   \* its load could not read the file
  victims,  \* the copies close_other_instances has listed and not yet ended
  spared,   \* history: those it did not list, or could not end
  writing,  \* its save: "no", "made" (temporary file made), "written"
  tmp,      \* its temporary file
  file,     \* state.json
  lock      \* the pid in zgui.lock

others == <<victims, spared>>
startVars == <<pc, mem, unread, others, writing, tmp, file, lock>>

Stages == {"off", "load", "sync", "elevate", "look", "list", "kill", "own", "settle", "run"}
Alive(p) == pc[p] # "off"

\* Past close_other_instances: the copy that goes on.
Owns(p) == pc[p] \in {"own", "settle", "run"}

Step(p, from, to) == pc[p] = from /\ writing[p] = "no" /\ pc' = [pc EXCEPT ![p] = to]

\* Mutant: one name for the temporary files of all processes.
MadeShared(p) ==
  /\ writing' = [writing EXCEPT ![p] = "made"]
  /\ tmp' = [q \in Process |-> Half]

\* atomic_write makes a temporary file under a name of the process's own, and
\* renames it over state.json when it is whole and synced.
Made(p) ==
  /\ writing' = [writing EXCEPT ![p] = "made"]
  /\ tmp' = [tmp EXCEPT ![p] = Half]

\* A process that has ended, its pid free for another, counts no more.
Forgets(p) == spared' = [q \in Process |-> IF q = p THEN {} ELSE spared[q] \ {p}]

Launch(p) ==
  /\ pc[p] = "off"
  /\ pc' = [pc EXCEPT ![p] = "load"]
  /\ UNCHANGED <<mem, unread, others, writing, tmp, file, lock>>

\* AppState::load: no file, one that does not parse and one that cannot be read
\* give the defaults; in the first two cases the migration saves them at once.
Load(p) ==
  /\ pc[p] = "load" /\ pc' = [pc EXCEPT ![p] = "sync"]
  /\ \/ /\ file \in Values
        /\ mem' = [mem EXCEPT ![p] = file] /\ unread' = [unread EXCEPT ![p] = FALSE]
        /\ UNCHANGED <<writing, tmp>>
     \/ /\ file \notin Values
        /\ mem' = [mem EXCEPT ![p] = Default] /\ unread' = [unread EXCEPT ![p] = FALSE]
        /\ Made(p)
     \/ /\ file # Missing
        /\ mem' = [mem EXCEPT ![p] = Default] /\ unread' = [unread EXCEPT ![p] = TRUE]
        /\ UNCHANGED <<writing, tmp>>
  /\ UNCHANGED <<others, file, lock>>

\* save, of a change of the service found by sync_service_state, of always_admin
\* before the relaunch, and of what the running program decides for itself.
SaveBegins(p) ==
  /\ pc[p] \in {"sync", "elevate", "run"} /\ writing[p] = "no"
  /\ Made(p)
  /\ UNCHANGED <<pc, mem, unread, others, file, lock>>

SaveWrites(p) ==
  /\ Alive(p) /\ writing[p] = "made"
  /\ writing' = [writing EXCEPT ![p] = "written"]
  /\ tmp' = [tmp EXCEPT ![p] = mem[p]]
  /\ UNCHANGED <<pc, mem, unread, others, file, lock>>

SaveRenames(p) ==
  /\ Alive(p) /\ writing[p] = "written"
  /\ writing' = [writing EXCEPT ![p] = "no"]
  /\ file' = tmp[p]
  /\ tmp' = [tmp EXCEPT ![p] = Missing]
  /\ UNCHANGED <<pc, mem, unread, others, lock>>

\* Both attempts fail: the temporary file is removed, SAVE_FAILED is raised.
SaveFails(p) ==
  /\ Alive(p) /\ writing[p] # "no"
  /\ writing' = [writing EXCEPT ![p] = "no"]
  /\ tmp' = [tmp EXCEPT ![p] = Missing]
  /\ UNCHANGED <<pc, mem, unread, others, file, lock>>

\* sync_service_state saves if the service has changed; then a process without
\* rights saves, has an elevated one started or is refused, and ends.
CardSynced(p) ==
  /\ Step(p, "sync", IF p \in Admin THEN "look" ELSE "elevate")
  /\ UNCHANGED <<mem, unread, others, writing, tmp, file, lock>>

Relaunches(p) ==
  /\ pc[p] = "elevate" /\ writing[p] = "no"
  /\ \/ \E a \in Admin : pc[a] = "off" /\ pc' = [pc EXCEPT ![p] = "off", ![a] = "load"]
     \/ pc' = [pc EXCEPT ![p] = "off"]
  /\ Forgets(p)
  /\ UNCHANGED <<mem, unread, victims, writing, tmp, file, lock>>

\* The lock file: a copy that lives gets the word and this one ends.  A tasklist
\* that fails shows no copy (list_processes).
LooksAtLock(p) ==
  /\ \/ Step(p, "look", "list") /\ UNCHANGED spared
     \/ lock \notin {p, Nobody} /\ Alive(lock) /\ Step(p, "look", "off") /\ Forgets(p)
  /\ UNCHANGED <<mem, unread, victims, writing, tmp, file, lock>>

\* Mutant: only copies that are already running are ended.
ListsRunning(p) ==
  /\ Step(p, "list", "kill")
  /\ victims' = [victims EXCEPT ![p] = {q \in Process \ {p} : Owns(q)}]
  /\ UNCHANGED spared
  /\ UNCHANGED <<mem, unread, writing, tmp, file, lock>>

\* zgui_pids: every other copy, or none when tasklist fails.
ListsOthers(p) ==
  /\ Step(p, "list", "kill")
  /\ LET there == {q \in Process \ {p} : Alive(q)}
     IN  \/ victims' = [victims EXCEPT ![p] = there] /\ UNCHANGED spared
         \/ victims' = [victims EXCEPT ![p] = {}] /\ spared' = [spared EXCEPT ![p] = there]
  /\ UNCHANGED <<mem, unread, writing, tmp, file, lock>>

\* A process that dies leaves its temporary file and its lock file.
Ending(q) ==
  /\ pc' = [pc EXCEPT ![q] = "off"] /\ Forgets(q)
  /\ writing' = [writing EXCEPT ![q] = "no"]

\* taskkill /F, whose result nobody looks at.
KillsOther(p, q) ==
  /\ pc[p] = "kill" /\ q \in victims[p]
  /\ victims' = [victims EXCEPT ![p] = @ \ {q}]
  /\ \/ Ending(q)
     \/ Alive(q) /\ spared' = [spared EXCEPT ![p] = @ \cup {q}] /\ UNCHANGED <<pc, writing>>
  /\ UNCHANGED <<mem, unread, tmp, file, lock>>

ClaimsLock(p) ==
  /\ victims[p] = {} /\ Step(p, "kill", "own")
  /\ UNCHANGED <<mem, unread, others, writing, tmp, file, lock>>

\* fs::write, its result not looked at.
WritesLock(p) ==
  /\ Step(p, "own", "settle")
  /\ lock' \in {p, lock}
  /\ UNCHANGED <<mem, unread, others, writing, tmp, file>>

\* Engines, presets and profiles are brought in, then the state is saved.
Settles(p) ==
  /\ Step(p, "settle", "run")
  /\ Made(p)
  /\ UNCHANGED <<mem, unread, others, file, lock>>

ChangesSetting(p) ==
  /\ pc[p] = "run" /\ writing[p] = "no"
  /\ mem' \in {[mem EXCEPT ![p] = v] : v \in Values \ {Default}}
  /\ Made(p)
  /\ UNCHANGED <<pc, unread, others, file, lock>>

\* Exit: the lock file goes only if it is this process's.
Quits(p) ==
  /\ Step(p, "run", "off") /\ Forgets(p)
  /\ lock' = IF lock = p THEN Nobody ELSE lock
  /\ UNCHANGED <<mem, unread, victims, writing, tmp, file>>

Dies(p) ==
  /\ Alive(p)
  /\ Ending(p)
  /\ UNCHANGED <<mem, unread, victims, tmp, file, lock>>

StartupInit ==
  /\ pc = [p \in Process |-> "off"]
  /\ mem = [p \in Process |-> Default] /\ unread = [p \in Process |-> FALSE]
  /\ victims = [p \in Process |-> {}] /\ spared = [p \in Process |-> {}]
  /\ writing = [p \in Process |-> "no"] /\ tmp = [p \in Process |-> Missing]
  /\ file \in Values \cup {Missing, Bad}
  /\ lock \in Process \cup {Nobody}

StartupStep(p) ==
  \/ Launch(p) \/ Load(p) \/ CardSynced(p) \/ Relaunches(p) \/ LooksAtLock(p)
  \/ ListsOthers(p) \/ ClaimsLock(p) \/ WritesLock(p) \/ Settles(p)
  \/ (\E q \in Process : KillsOther(p, q))
  \/ SaveBegins(p) \/ SaveWrites(p) \/ SaveRenames(p) \/ SaveFails(p)
  \/ ChangesSetting(p) \/ Quits(p) \/ Dies(p)

StartupNext == \E p \in Process : StartupStep(p)

StartupSpec == StartupInit /\ [][StartupNext]_startVars

----------------------------------------------------------------------------

StartupTypeOK ==
  /\ pc \in [Process -> Stages]
  /\ mem \in [Process -> Values]
  /\ unread \in [Process -> BOOLEAN]
  /\ victims \in [Process -> SUBSET Process] /\ spared \in [Process -> SUBSET Process]
  /\ writing \in [Process -> {"no", "made", "written"}]
  /\ tmp \in [Process -> Values \cup {Half, Missing}]
  /\ file \in Values \cup {Missing, Bad, Half}
  /\ lock \in Process \cup {Nobody}

\* However launches interleave, two copies never both go on past
\* close_other_instances, unless one could not list or not end the other: the later
\* one to list the processes sees the other.
OneInstance ==
  \A p, q \in Process : Owns(p) /\ Owns(q) => p = q \/ p \in spared[q] \/ q \in spared[p]

\* state.json never holds half a save: not of a process that died in the middle,
\* nor of one whose elevated successor saves at the same time (atomic_write).
FileWhole == file # Half

\* What a process could not read it does not overwrite (AppState::load).
UnreadStateKept ==
  [][\A p \in Process :
       unread[p] /\ writing[p] = "written" /\ writing'[p] = "no" => file' = file]_startVars
=============================================================================
