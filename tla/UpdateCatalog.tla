---------------------------- MODULE UpdateCatalog ----------------------------
(* The author's files and the catalogue that describes them (updater.rs; lib.rs *)
(* check_updates, apply_updates, the watcher's automatic check, set_root,       *)
(* provision_engines, ensure_presets): a check classifies every file against    *)
(* the published archive, an apply backs up and replaces the chosen ones, each  *)
(* able to fail by itself, and both write the same cached rows.                 *)
EXTENDS IpsetList, Sequences

CONSTANT Mine     \* a file edited by hand

ASSUME CatalogAssumption ==
  Versions \subseteq Nat \ {0} /\ 1 \in Versions /\ Mine \notin Versions \cup {NoFile}

VARIABLES
  remote,    \* the version the author publishes now
  disk,      \* the strategies (raw/*.bat) and the other lists (lists/*.txt)
  rows,      \* updater.entries: what the catalogue says of each file
  strays,    \* files changed since behind the back of the catalogue
  bats,      \* the strategies among the profiles
  presets,   \* the built-in presets among the profiles
  stamp,     \* catalog/presets.version
  filed,     \* rows and presets as state.json has them
  check,     \* the check each asker has under way
  click,     \* an apply asked for that has not got as far as op_running
  apply      \* an apply under way

catVars == <<remote, disk, rows, strays, bats, presets, stamp, filed, check, click, apply>>

\* The order of the archive (collect_entries).
Order == <<"ipset", "svc", "bat", "list">>
Files == {Order[i] : i \in 1..4}
BuiltinPresets == 1

Row(status, v) == [status |-> status, of |-> v]
NoRow == Row("unknown", NoFile)
Quiet == [who |-> "nobody"]

\* The user and the watcher ask for checks.  A check carries how far it is, the
\* mode it took along, whether no operation was shown when it looked, the files
\* changed since it read them, and its rows.
Askers == {"hand", "watcher"}
Check(at, m, unseen, missed, new) ==
  [at |-> at, mode |-> m, unseen |-> unseen, missed |-> missed, rows |-> new]
AtRest == Check("rest", "none", TRUE, {}, <<>>)

\* save() writes the whole state; whether it could is only logged.
Saves ==
  \/ filed' = [rows |-> rows', presets |-> presets']
  \/ MayFail /\ UNCHANGED filed

\* The bytes of each file and of its counterpart in version v of the archive.
Local(f) == CASE f = "ipset" -> live [] f = "svc" -> service [] OTHER -> disk[f]
Bytes(f, v) == IF f = "ipset" THEN Loaded(v, FALSE) ELSE v

\* classify_entry: outside "loaded" ipset-all.txt is the user's.
Classify(f, v, m) ==
  Row(IF f = "ipset" /\ m # "loaded" THEN "skip-user"
      ELSE IF Local(f) = NoFile THEN "new"
      ELSE IF Local(f) = Bytes(f, v) THEN "ok" ELSE "modified", v)

----------------------------------------------------------------------------
(* A check: by hand under OPS, or by the watcher under BusyGuard.              *)

\* Mutant: the watcher looks only at its own flag.
CheckLooksAtBusy(who) ==
  /\ up /\ check[who].at = "rest" /\ ~busy
  /\ check' = [check EXCEPT ![who] = Check("looked", mode, ~shown, {}, <<>>)]
  /\ UNCHANGED <<lockVars, listVars, remote, disk, rows, strays, bats, presets, stamp,
                 filed, click, apply>>

\* is_busy; the watcher looks at op_running as well, and takes the settings along.
CheckLooks(who) ==
  /\ up /\ check[who].at = "rest" /\ ~busy
  /\ who = "watcher" => ~shown
  /\ check' = [check EXCEPT ![who] = Check("looked", mode, ~shown, {}, <<>>)]
  /\ UNCHANGED <<lockVars, listVars, remote, disk, rows, strays, bats, presets, stamp,
                 filed, click, apply>>

\* The lock of its own, whatever has come since the look; the watcher saves the
\* time of its next try.
CheckTakes(who) ==
  /\ check[who].at = "looked"
  /\ UNCHANGED <<listVars, remote, disk, rows, strays, bats, presets, stamp, click, apply>>
  /\ \/ /\ who = "hand" /\ TryOps("check") /\ UNCHANGED filed
        /\ check' = [check EXCEPT ![who] = Check("taken", @.mode, @.unseen, {}, <<>>)]
     \/ /\ who = "watcher" /\ TryBusy /\ Saves
        /\ check' = [check EXCEPT ![who] = Check("compare", @.mode, @.unseen, {}, <<>>)]

\* "Another operation is under way."
CheckRefused ==
  /\ up /\ check["hand"].at = "looked" /\ ops # Free
  /\ check' = [check EXCEPT !["hand"] = AtRest]
  /\ UNCHANGED <<lockVars, listVars, remote, disk, rows, strays, bats, presets, stamp,
                 filed, click, apply>>

\* op_running, and the settings the thread takes along.
CheckShows ==
  /\ check["hand"].at = "taken" /\ ShowsOp("check")
  /\ check' = [check EXCEPT !["hand"] = Check("compare", mode, @.unseen, {}, <<>>)]
  /\ UNCHANGED <<listVars, remote, disk, rows, strays, bats, presets, stamp, filed, click, apply>>

\* check_all: the archive comes, and every file is read and compared.  (The row of
\* the preset set, which describes no file, is left out.)
CheckCompares(who) ==
  /\ up /\ check[who].at = "compare"
  /\ check' = [check EXCEPT ![who] =
       Check("store", @.mode, @.unseen, {}, [f \in Files |-> Classify(f, remote, check[who].mode)])]
  /\ UNCHANGED <<lockVars, listVars, remote, disk, rows, strays, bats, presets, stamp,
                 filed, click, apply>>

CheckDone(who) == IF who = "hand" THEN DropOps("check") ELSE DropBusy

\* The rows are replaced as a whole, and saved.
CheckStores(who) ==
  /\ check[who].at = "store" /\ CheckDone(who)
  /\ rows' = check[who].rows
  /\ strays' = check[who].missed
  /\ check' = [check EXCEPT ![who] = AtRest]
  /\ UNCHANGED <<listVars, remote, disk, bats, presets, stamp, click, apply>>
  /\ Saves

\* No network: what was cached stays.
CheckFails(who) ==
  /\ check[who].at = "compare" /\ CheckDone(who)
  /\ check' = [check EXCEPT ![who] = AtRest]
  /\ UNCHANGED <<listVars, remote, disk, rows, strays, bats, presets, stamp, filed, click, apply>>

\* A file is changed after these askers' checks have read it.
MissedBy(askers, f) ==
  [w \in Askers |->
     IF w \in askers /\ check[w].at = "store"
       THEN Check("store", check[w].mode, check[w].unseen, check[w].missed \cup {f}, check[w].rows)
       ELSE check[w]]

----------------------------------------------------------------------------
(* An apply: of the chosen rows, or of every new and modified one.             *)

NoClick == [at |-> "none"]

\* is_busy.
ApplyLooks(ids) ==
  /\ up /\ click = NoClick /\ apply = Quiet /\ ~busy
  /\ click' = [at |-> "looked", ids |-> ids, unseen |-> ~busy]
  /\ UNCHANGED <<lockVars, listVars, remote, disk, rows, strays, bats, presets, stamp,
                 filed, check, apply>>

\* OPS; if it is taken, "another operation is under way".
ApplyTakes ==
  /\ click.at = "looked"
  /\ \/ TryOps("apply") /\ click' = [click EXCEPT !.at = "taken"]
     \/ up /\ ops # Free /\ click' = NoClick /\ UNCHANGED lockVars
  /\ UNCHANGED <<listVars, remote, disk, rows, strays, bats, presets, stamp, filed, check, apply>>

\* op_running, and the settings the thread takes along.
ApplyBegins ==
  /\ click.at = "taken" /\ ShowsOp("apply")
  /\ click' = NoClick
  /\ apply' = [who |-> "user", ids |-> click.ids, mode |-> mode, at |-> "fetch", next |-> 1,
               v |-> NoFile, set |-> NoFile, lists |-> FALSE, kept |-> {},
               unseen |-> click.unseen, rows |-> [f \in Files |-> NoRow]]
  /\ UNCHANGED <<listVars, remote, disk, rows, strays, bats, presets, stamp, filed, check>>

\* The preset set first, outside the lock of the state; then the archive.
\* Neither failure keeps the other from being used.
ApplyFetches ==
  /\ up /\ apply # Quiet /\ apply.at = "fetch"
  /\ \E set, v \in {NoFile, remote} :
       /\ apply.ids # {} /\ "presets" \notin apply.ids => set = NoFile
       /\ apply.ids = {"presets"} => v = NoFile
       /\ apply' = [apply EXCEPT
            !.v = v, !.set = set, !.at = IF v = NoFile THEN "store" ELSE "files"]
  /\ UNCHANGED <<lockVars, listVars, remote, disk, rows, strays, bats, presets, stamp,
                 filed, click, check>>

AtFile(f) == up /\ apply # Quiet /\ apply.at = "files" /\ apply.next <= 4 /\ Order[apply.next] = f

\* The row of the file is settled and the loop goes on.
Settle(f, row) ==
  [apply EXCEPT !.rows[f] = row, !.next = @ + 1, !.at = "files"]

Chosen(f) ==
  LET row == Classify(f, apply.v, apply.mode)
  IN  IF apply.ids = {} THEN row.status \in {"new", "modified"}
      ELSE f \in apply.ids /\ row.status # "skip-user"

ApplySkips(f) ==
  /\ AtFile(f) /\ ~Chosen(f)
  /\ apply' = Settle(f, Classify(f, apply.v, apply.mode))
  /\ UNCHANGED <<lockVars, listVars, remote, disk, rows, strays, bats, presets, stamp,
                 filed, click, check>>

\* Mutant: a failed copy does not keep the file from being replaced.
ApplyTriesBackup(f) ==
  /\ AtFile(f) /\ Chosen(f)
  /\ \/ apply' = [apply EXCEPT !.at = "write",
                   !.kept = IF Local(f) = NoFile THEN {} ELSE {<<f, Local(f)>>}]
     \/ /\ MayFail /\ Local(f) # NoFile
        /\ apply' = [apply EXCEPT !.at = "write"]
  /\ UNCHANGED <<lockVars, listVars, remote, disk, rows, strays, bats, presets, stamp,
                 filed, click, check>>

\* An existing file is copied into .backups/<ts>; if that fails it is not touched.
ApplyBacksUp(f) ==
  /\ AtFile(f) /\ Chosen(f)
  /\ \/ apply' = [apply EXCEPT !.at = "write",
                   !.kept = IF Local(f) = NoFile THEN {} ELSE {<<f, Local(f)>>}]
     \/ /\ MayFail /\ Local(f) # NoFile
        /\ apply' = Settle(f, Row("err", apply.v))
  /\ UNCHANGED <<lockVars, listVars, remote, disk, rows, strays, bats, presets, stamp,
                 filed, click, check>>

\* atomic_write of the new bytes.  A check that has read the file misses it: the
\* flags each of the two looked at were raised after the other's look.
ApplyWrites ==
  /\ up /\ apply # Quiet /\ apply.at = "write"
  /\ LET f == Order[apply.next]
         new == Bytes(f, apply.v)
     IN  \/ /\ apply' = [Settle(f, Row("ok", apply.v)) EXCEPT !.lists = @ \/ f = "list"]
            /\ disk' = IF f \in DOMAIN disk THEN [disk EXCEPT ![f] = new] ELSE disk
            /\ service' = IF f = "svc" THEN new ELSE service
            /\ IF f = "ipset"
                 THEN live' = new /\ base' = new /\ late' = (Lent /\ (late \/ base # new))
                 ELSE UNCHANGED <<live, base, late>>
            /\ check' = MissedBy({w \in Askers : apply.unseen /\ check[w].unseen}, f)
         \/ /\ MayFail
            /\ apply' = Settle(f, Row("err", apply.v))
            /\ UNCHANGED <<disk, service, live, base, late, check>>
  /\ UNCHANGED <<lockVars, mode, backup, subnets, tpc, armed, saving, healing, torn,
                 remote, rows, strays, bats, presets, stamp, filed, click>>

\* sync_ipset with the settings of the beginning, when another list was replaced.
ApplySyncs ==
  /\ up /\ apply # Quiet /\ apply.at = "files" /\ apply.next = 5
  /\ apply' = [apply EXCEPT !.at = "store"]
  /\ IF apply.lists THEN Sync(apply.mode) ELSE UNCHANGED <<live, base, late>>
  /\ UNCHANGED <<lockVars, mode, backup, service, subnets, tpc, armed, saving, healing, torn,
                 remote, disk, rows, strays, bats, presets, stamp,
                 filed, click, check>>

\* The stamp of the set, whose failure is dropped (save_preset_stamp).
Stamps(set) ==
  \/ set # NoFile /\ stamp' = set
  \/ (set = NoFile \/ MayFail) /\ UNCHANGED stamp

\* Mutant: one file that failed keeps the strategies from being read again.
ApplyStoresIfAll ==
  /\ apply # Quiet /\ apply.at = "store" /\ DropOps("apply")
  /\ presets' = IF apply.set # NoFile THEN apply.set ELSE presets
  /\ Stamps(apply.set)
  /\ LET new == apply.rows
         told == {f \in Files : new[f] # NoRow}
     IN  /\ rows' = [f \in Files |-> IF f \in told THEN new[f] ELSE rows[f]]
         /\ strays' = strays \ told
         /\ bats' = IF new["bat"].status = "ok" /\ \A f \in Files : new[f].status # "err"
                      THEN disk["bat"] ELSE bats
  /\ Saves
  /\ apply' = Quiet
  /\ UNCHANGED <<listVars, remote, disk, click, check>>

\* Under the lock of the state: presets, rows one by one, strategies, save.
ApplyStores ==
  /\ apply # Quiet /\ apply.at = "store" /\ DropOps("apply")
  /\ presets' = IF apply.set # NoFile THEN apply.set ELSE presets
  /\ Stamps(apply.set)
  /\ LET new == apply.rows
         told == {f \in Files : new[f] # NoRow}
     IN  /\ rows' = [f \in Files |-> IF f \in told THEN new[f] ELSE rows[f]]
         /\ strays' = strays \ told
         /\ bats' = IF new["bat"].status = "ok" THEN disk["bat"] ELSE bats
  /\ Saves
  /\ apply' = Quiet
  /\ UNCHANGED <<listVars, remote, disk, click, check>>

----------------------------------------------------------------------------
(* The author, the user's editor, the process.                                *)

Publishes ==
  /\ remote' \in {v \in Versions : v > remote}
  /\ UNCHANGED <<lockVars, listVars, disk, rows, strays, bats, presets, stamp, filed,
                 check, click, apply>>

\* Not in the seconds in which an apply replaces files.
EditsList ==
  /\ apply # Quiet => apply.at = "fetch"
  /\ disk' = [disk EXCEPT !["list"] = Mine]
  /\ strays' = strays \cup {"list"}
  /\ check' = MissedBy(Askers, "list")
  /\ UNCHANGED <<lockVars, listVars, remote, rows, bats, presets, stamp, filed, click, apply>>

\* set_settings saves the state between the two halves.
SetsMode(m) ==
  /\ SetMode(m)
  /\ UNCHANGED <<remote, disk, rows, strays, bats, presets, stamp, check, click, apply>>
  /\ Saves

\* A start reads state.json, the strategies from disk (provision_engines), and
\* brings the presets to the built-in table unless a newer set was applied
\* (ensure_presets); then it saves.
CatalogStarts ==
  /\ ListsStart
  /\ bats' = IF disk["bat"] # NoFile THEN disk["bat"] ELSE bats
  /\ rows' = filed.rows
  /\ presets' = IF stamp # NoFile /\ stamp > BuiltinPresets THEN filed.presets ELSE BuiltinPresets
  /\ Saves
  /\ UNCHANGED <<remote, disk, strays, stamp, check, click, apply>>

\* What is not filed is gone.  apply_presets writes the stamp before the state is
\* saved: an apply that dies between the two leaves a stamp without its set.
CatalogDies ==
  /\ ListsDie
  /\ check' = [w \in Askers |-> AtRest] /\ click' = NoClick /\ apply' = Quiet
  /\ \/ UNCHANGED stamp
     \/ apply # Quiet /\ apply.at = "store" /\ apply.set # NoFile /\ stamp' = apply.set
  /\ strays' = strays \cup {f \in Files : apply # Quiet \/ filed.rows[f] # rows[f]}
  /\ UNCHANGED <<remote, disk, rows, bats, presets, filed>>

CatalogInit ==
  /\ remote = 1
  /\ disk = [f \in {"bat", "list"} |-> NoFile]
  /\ strays = {}
  /\ rows = [f \in Files |-> NoRow]
  /\ bats = NoFile /\ presets = BuiltinPresets /\ stamp = NoFile
  /\ filed = [rows |-> rows, presets |-> presets]
  /\ check = [w \in Askers |-> AtRest] /\ click = NoClick /\ apply = Quiet

Wishes == {{}, {"presets"}} \cup {{f} : f \in Files}

CheckSteps == \/ \E who \in Askers : \/ CheckLooks(who) \/ CheckTakes(who) \/ CheckCompares(who)
                                     \/ CheckStores(who) \/ CheckFails(who)
              \/ CheckRefused \/ CheckShows
ApplySteps == \/ \E ids \in Wishes : ApplyLooks(ids)
              \/ ApplyTakes \/ ApplyBegins \/ ApplyFetches
              \/ \E f \in Files : ApplySkips(f) \/ ApplyBacksUp(f)
              \/ ApplyWrites \/ ApplySyncs \/ ApplyStores

CatalogSteps == CheckSteps \/ ApplySteps \/ Publishes \/ EditsList
                \/ \E m \in Modes : SetsMode(m)

\* The list's tests and settings go on beside the catalogue.
CatalogNext ==
  \/ CatalogSteps \/ CatalogStarts \/ CatalogDies
  \/ (TestSteps \/ ApplyMode \/ EditSubnets \/ HealAtStart) /\ UNCHANGED catVars

CatalogSpec == ListsInit /\ CatalogInit /\ [][CatalogNext]_<<lockVars, listVars, catVars>>

----------------------------------------------------------------------------

CatalogTypeOK ==
  /\ remote \in Versions
  /\ \A f \in DOMAIN disk : disk[f] \in Versions \cup {NoFile, Mine}
  /\ bats \in Versions \cup {NoFile} /\ presets \in Versions
  /\ stamp \in Versions \cup {NoFile} /\ strays \subseteq Files
  /\ ops = "apply" <=> click.at = "taken" \/ apply # Quiet
  /\ ops = "check" <=> check["hand"].at \in {"taken", "compare", "store"}
  /\ busy <=> check["watcher"].at \in {"compare", "store"}

\* A row says of its file what is so.
Describes(row, f) ==
  /\ row.status = "ok" => Local(f) = row.of
  /\ row.status = "modified" => Local(f) \notin {row.of, NoFile}
  /\ row.status = "new" => Local(f) = NoFile

\* Between applies the rows describe the files.  Excepted are files changed by hand,
\* by an apply that did not live to tell or to save it, or under a check of the
\* watcher when it and the apply both looked before either had shown itself;
\* nothing else may let a check store what it read before an apply (the guards of
\* check_updates, apply_updates and the watcher).
CatalogTrue ==
  apply = Quiet =>
    \A f \in {"bat", "list", "svc"} : f \notin strays => Describes(rows[f], f)

\* The strategies among the profiles are those on disk whenever no apply is
\* replacing them, whichever of its files failed (apply_updates,
\* reload_bats_from_disk, provision_engines).
StrategiesFresh == up /\ apply = Quiet => bats = disk["bat"]

\* No apply replaces a file of the catalogue whose content is not in its .backups
\* (apply_entries, backup).  ipset-all.txt has a second writer, see
\* ListOverwriteKept.
OverwriteKept ==
  [][\A f \in {"bat", "list", "svc"} :
       ApplyWrites /\ Local(f)' # Local(f) /\ Local(f) # NoFile
         => <<f, Local(f)>> \in apply.kept]_<<catVars, listVars>>

----------------------------------------------------------------------------
(* What comments of the source say, and the code does not do: TLC refutes each.  *)

\* "The automatic check in the background holds only BusyGuard: beside it nothing
\* is applied" (lib.rs:2788, apply_updates).
NoApplyBesideCheck == ~(busy /\ apply # Quiet)

\* "The version of the last preset set applied" (updater.rs:511): a stamp newer
\* than the built-in table, for which ensure_presets leaves the profiles alone,
\* means that set is what they hold.
PresetsFollowStamp ==
  up /\ stamp # NoFile /\ stamp > BuiltinPresets => presets = stamp

\* "Before an existing file is overwritten a copy is made in .backups"
\* (updater.rs:318, apply_updates), said of ipset-all.txt too.
ListOverwriteKept ==
  [][ApplyWrites /\ live' # live => <<"ipset", live>> \in apply.kept]_<<catVars, listVars>>

\* "After the lists are updated ipset-all.txt is brought to the user's mode"
\* (updater.rs:390), with no change of the mode half done.
AppliedInMode ==
  [][ApplySyncs /\ live' # live /\ ~saving => live' = Synced(mode, service, subnets)]_<<catVars, listVars>>
=============================================================================
