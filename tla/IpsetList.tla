------------------------------ MODULE IpsetList ------------------------------
(* lists/ipset-all.txt of the engine and its .test-backup, through everything   *)
(* that writes them: the guard of a strategy test (tester.rs activate_ipset_any *)
(* and Drop), its healing at start, sync_ipset after a change of mode, at start *)
(* and at the end of a test (updater.rs, lib.rs), with crashes between and in   *)
(* the middle of writes that are not atomic.                                    *)
EXTENDS AppLock, Naturals

CONSTANTS
  Versions,   \* versions of the list the author publishes
  Shipped,    \* the one in the engine's archive (.backup), or NoFile
  NoFile,
  MayFail     \* writes and copies can fail

ASSUME ListAssumption ==
  /\ NoFile \notin Versions
  /\ Shipped \in Versions \cup {NoFile}
  /\ MayFail \in BOOLEAN

VARIABLES
  mode,      \* settings.ipset_mode
  live,      \* lists/ipset-all.txt
  backup,    \* its .test-backup
  service,   \* catalog/flowseal/.service/ipset-service.txt
  subnets,   \* ipset-all-user.txt names subnets
  tpc,       \* the test: "idle", "heal", "read", "empty", "prepare", "run", "restore"
  armed,     \* IpsetAnyGuard.restored is not empty
  saving,    \* set_settings has saved a new mode and not yet looked at the test
  healing,   \* the start-up thread has not come to heal_ipset_after_crash
  base,      \* what sync_ipset or an update last put into the list
  late,      \* it did so while the list was a test's
  torn       \* a copy into the list was cut short

listVars == <<mode, live, backup, service, subnets, tpc, armed, saving, healing,
              base, late, torn>>

Modes == {"loaded", "none", "any"}

\* Contents, as far as they are told apart.
Empty    == [kind |-> "empty"]
Stub     == [kind |-> "stub"]                        \* IPSET_PLACEHOLDER
Own      == [kind |-> "own"]                         \* put there by nobody here
Torn     == [kind |-> "torn"]
Loaded(v, u) == [kind |-> "list", of |-> v, user |-> u]

Contents == {Empty, Stub, Own, Torn}
            \cup {Loaded(v, u) : v \in Versions, u \in BOOLEAN}
IsFile(c) == c # NoFile
Blank(c)  == c \in {NoFile, Empty}

\* sync_ipset: what the mode asks for, NoFile for "leave it".  In "loaded" without any source the file
\* is left alone; the user's subnets are appended in "loaded" only.
Source(srv) == IF IsFile(srv) THEN srv ELSE Shipped
Synced(m, srv, sub) ==
  CASE m = "any"    -> Empty
    [] m = "none"   -> Stub
    [] m = "loaded" -> IF IsFile(Source(srv)) THEN Loaded(Source(srv), sub) ELSE NoFile

\* The list belongs to a test, or is about to be given back or healed.
Lent == tpc # "idle" \/ IsFile(backup) \/ healing

\* sync_ipset writes the file at once (atomic_write) or logs that it could not.
Sync(m) ==
  LET wanted == Synced(m, service, subnets)
  IN  \/ /\ IsFile(wanted)
         /\ live' = wanted /\ base' = wanted
         /\ late' = (Lent /\ (late \/ base # wanted))
      \/ /\ MayFail \/ ~IsFile(wanted)
         /\ UNCHANGED <<live, base, late>>

----------------------------------------------------------------------------
(* The test: lib.rs test_strategies and its thread.                           *)

TestBegins ==
  /\ tpc = "idle" /\ TakesOps("test")
  /\ tpc' = "heal"
  /\ UNCHANGED <<mode, live, backup, service, subnets, armed, saving, healing, base, late, torn>>

\* A copy over the list that does not get to its end; the backup stays.
CutShort ==
  /\ \/ live' \in {live, Empty} /\ UNCHANGED torn
     \/ live' = Torn /\ torn' = TRUE
  /\ UNCHANGED backup

\* The backup is copied over the list and removed, whether that succeeds or not.
CopiesBack ==
  \/ live' = backup /\ backup' = NoFile /\ UNCHANGED torn
  \/ MayFail /\ live' = backup /\ UNCHANGED <<backup, torn>>
  \/ MayFail /\ CutShort

\* heal_ipset_file: only an empty or missing list is restored.
Heal ==
  IF IsFile(backup) /\ Blank(live) THEN CopiesBack ELSE UNCHANGED <<live, backup, torn>>

TestHeals ==
  /\ up /\ tpc = "heal"
  /\ Heal
  /\ tpc' = "read"
  /\ UNCHANGED <<lockVars, mode, service, subnets, armed, saving, healing, base, late>>

\* Mutant: the list is emptied although it could not be copied.
TestBacksUpOrNot ==
  /\ up /\ tpc = "read"
  /\ \/ Blank(live) /\ tpc' = "prepare" /\ UNCHANGED backup
     \/ ~Blank(live) /\ tpc' = "empty" /\ backup' \in {live} \cup (IF MayFail THEN {backup} ELSE {})
  /\ UNCHANGED <<lockVars, mode, live, service, subnets, armed, saving, healing, base, late, torn>>

\* An empty list is left alone; any other is copied into the backup first.
TestBacksUp ==
  /\ up /\ tpc = "read"
  /\ \/ Blank(live) /\ tpc' = "prepare" /\ UNCHANGED backup
     \/ ~Blank(live) /\ tpc' = "empty" /\ backup' = live
     \/ ~Blank(live) /\ MayFail /\ tpc' = "prepare" /\ backup' \in {backup, Torn}
  /\ UNCHANGED <<lockVars, mode, live, service, subnets, armed, saving, healing, base, late, torn>>

TestEmpties ==
  /\ up /\ tpc = "empty"
  /\ \/ live' = Empty /\ armed' = TRUE
     \/ MayFail /\ UNCHANGED <<live, armed>>
  /\ tpc' = "prepare"
  /\ UNCHANGED <<lockVars, mode, backup, service, subnets, saving, healing, base, late, torn>>

\* stop_all_own, seconds long; then testing.running.  A filter still running
\* ends the test here.
TestRuns ==
  /\ up /\ tpc = "prepare"
  /\ tpc' \in {"run", "restore"}
  /\ UNCHANGED <<lockVars, mode, live, backup, service, subnets, armed, saving, healing, base, late, torn>>

\* The thread ends: cancelled without a sync, otherwise with one, and the guard
\* is dropped after it.
TestEnds ==
  /\ up /\ tpc = "run"
  /\ tpc' = "restore"
  /\ Sync(mode) \/ UNCHANGED <<live, base, late>>
  /\ UNCHANGED <<lockVars, mode, backup, service, subnets, armed, saving, healing, torn>>

\* Mutant: the backup is removed even if it could not be copied.
TestDropsBackup ==
  /\ tpc = "restore" /\ DropOps("test")
  /\ \/ armed /\ IsFile(backup) /\ live' \in {backup} \cup (IF MayFail THEN {live} ELSE {}) /\ backup' = NoFile
     \/ ~(armed /\ IsFile(backup)) /\ UNCHANGED <<live, backup>>
  /\ tpc' = "idle" /\ armed' = FALSE
  /\ UNCHANGED <<mode, service, subnets, saving, healing, base, late, torn>>

\* Drop of the guard; a copy that fails three times keeps the backup.
TestRestores ==
  /\ tpc = "restore" /\ DropOps("test")
  /\ IF armed /\ IsFile(backup) THEN CopiesBack ELSE UNCHANGED <<live, backup, torn>>
  /\ tpc' = "idle" /\ armed' = FALSE
  /\ UNCHANGED <<mode, service, subnets, saving, healing, base, late>>

----------------------------------------------------------------------------
(* Settings, files and the process.                                           *)

\* set_settings: the mode is stored and the state released, then the test is
\* looked at.
SetMode(m) ==
  /\ up /\ ~saving /\ m # mode
  /\ mode' = m /\ saving' = TRUE
  /\ UNCHANGED <<lockVars, live, backup, service, subnets, tpc, armed, healing, base, late, torn>>

Testing == tpc = "run"

ApplyMode ==
  /\ up /\ saving /\ saving' = FALSE
  /\ \/ Testing /\ UNCHANGED <<live, base, late>>
     \/ ~Testing /\ Sync(mode)
  /\ UNCHANGED <<lockVars, mode, backup, service, subnets, tpc, armed, healing, torn>>

\* The user edits ipset-all-user.txt; it counts from the next sync on.
EditSubnets ==
  /\ subnets' = ~subnets
  /\ UNCHANGED <<lockVars, mode, live, backup, service, tpc, armed, saving, healing, base, late, torn>>

\* The start: provision_engines syncs, and a thread heals some seconds later.
ListsStart ==
  /\ LockStarts
  /\ healing' = TRUE
  /\ Sync(mode)
  /\ UNCHANGED <<mode, backup, service, subnets, tpc, armed, saving, torn>>

HealAtStart ==
  /\ up /\ healing
  /\ healing' = FALSE
  /\ Heal
  /\ UNCHANGED <<lockVars, mode, service, subnets, tpc, armed, saving, base, late>>

\* A crash, or a quit, anywhere.  A copy or a plain write under way can be done,
\* not begun, or cut short; removing the backup can be left out.
Copying ==
  /\ IsFile(backup)
  /\ \/ tpc = "restore" /\ armed
     \/ (tpc = "heal" \/ healing) /\ Blank(live)

ListsDie ==
  /\ LockDies
  /\ \/ UNCHANGED <<live, backup, torn>>
     \/ Copying /\ CutShort
     \/ Copying /\ live' = backup /\ UNCHANGED <<backup, torn>>
     \/ tpc = "read" /\ ~Blank(live) /\ backup' \in {live, Torn} /\ UNCHANGED <<live, torn>>
  /\ tpc' = "idle" /\ armed' = FALSE /\ saving' = FALSE /\ healing' = FALSE
  /\ UNCHANGED <<mode, service, subnets, base, late>>

----------------------------------------------------------------------------

ListsInit ==
  /\ LockInit
  /\ mode \in Modes
  /\ service \in Versions \cup {NoFile}
  /\ subnets \in BOOLEAN
  /\ live \in {Own, Synced(mode, service, subnets)} \ {NoFile}
  /\ backup = NoFile
  /\ tpc = "idle" /\ armed = FALSE /\ saving = FALSE /\ healing = FALSE
  /\ base = live /\ late = FALSE /\ torn = FALSE

TestSteps == TestBegins \/ TestHeals \/ TestBacksUp \/ TestEmpties \/ TestRuns
             \/ TestEnds \/ TestRestores

SettingsSteps == (\E m \in Modes : SetMode(m)) \/ ApplyMode \/ EditSubnets

ListsNext == TestSteps \/ SettingsSteps \/ ListsStart \/ HealAtStart \/ ListsDie

ListsSpec == ListsInit /\ [][ListsNext]_<<lockVars, listVars>>

----------------------------------------------------------------------------

ListsTypeOK ==
  /\ LockTypeOK
  /\ mode \in Modes
  /\ live \in Contents
  /\ backup \in Contents \cup {NoFile}
  /\ service \in Versions \cup {NoFile}
  /\ tpc \in {"idle", "heal", "read", "empty", "prepare", "run", "restore"}
  /\ base \in Contents
  /\ {subnets, armed, saving, healing, late, torn} \subseteq BOOLEAN

\* Whatever a test, a failed write or a crash does, the content the list is owed
\* is in the list or in its backup.  What was put into the list while a test had
\* it is not owed, and a copy that was cut short is beyond repair
\* (activate_ipset_any, heal_ipset_file, Drop).
ListKept ==
  late \/ torn \/ base \in {live, backup}

\* With nothing under way and no backup left behind, the list holds what
\* sync_ipset or an update last put there: tests, crashes and the healing after
\* them leave no trace.
ListRestored ==
  up /\ ~Lent /\ ~saving /\ ~late /\ ~torn => live = base
=============================================================================
