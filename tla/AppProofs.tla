------------------------------ MODULE AppProofs ------------------------------
(* Of the catalogue and of the service, for any versions and profiles: that the   *)
(* catalogue and the strategies are those on disk, that an update overwrites no   *)
(* file of its own without a copy, that the boot task follows its setting, and     *)
(* the types of all the parts that share the lock.                                *)
EXTENDS MCApp, StorageProofs, TLAPS

\* FALSE and TRUE are the truth values.
LEMMA Truths == \A x : x = FALSE \/ x = TRUE => x \in BOOLEAN
OBVIOUS

----------------------------------------------------------------------------
(* The service and the task.                                                   *)

\* What the service can be and what can be asked for.
ServiceStates == {Absent} \cup [state : {"stopped", "running"}, strat : Profiles \cup {NoProfile}]
Commands == [op : {"none", "install", "switch", "remove", "reset"},
             profile : Profiles \cup {NoProfile},
             at : {"clear", "delete", "create", "name", "store", "sync", "task", "end"}]

\* The types, and that OPS is a command's exactly while it runs.
ServiceTyped ==
  /\ sys \in ServiceStates /\ card \in ServiceStates
  /\ watch \in [at : {"sleep", "ask", "write"}, card : ServiceStates, found : ServiceStates]
  /\ autostart \in Profiles \cup {NoProfile}
  /\ boot \in BOOLEAN /\ task \in BOOLEAN /\ unsettled \in BOOLEAN
  /\ starting \in {"on", "off", "done"}
  /\ cmd \in Commands
  /\ ops = "service" <=> cmd # Idle
  /\ cmd # Idle <=> cmd.op # "none"

\* A command that has still to set the task has stored the setting it sets it to.
Stored ==
  cmd.at = "task" => (cmd.op = "install" /\ boot) \/ (cmd.op = "remove" /\ ~boot)

\* The task follows whenever nobody is on the way to it.
TaskFollows ==
  up /\ starting = "done" /\ ~unsettled /\ cmd.at # "task" => task = boot

\* The invariant of the service.
ServiceInv == ServiceTyped /\ Stored /\ TaskFollows

\* It holds before the program has run,
LEMMA ServiceInvInit == LockInit /\ ServiceInit => ServiceInv
<1> SUFFICES ASSUME LockInit, ServiceInit PROVE ServiceInv
  OBVIOUS
<1>1. Absent \in ServiceStates /\ sys \in ServiceStates
  BY DEF ServiceInit, ServiceStates, State, Absent
<1>2. autostart \in Profiles \cup {NoProfile}
  BY DEF ServiceInit, State, Absent
<1>3. boot \in BOOLEAN /\ task \in BOOLEAN /\ unsettled \in BOOLEAN
  BY Truths DEF ServiceInit
<1> QED
  BY <1>1, <1>2, <1>3, Truths
  DEF ServiceInit, LockInit, ServiceInv, ServiceTyped, Stored, TaskFollows, Idle, Asleep,
      Commands, Free

\* A command goes on to its next phase, or ends with its lock.
LEMMA GoesOn ==
  ASSUME ServiceTyped, cmd # Idle,
         NEW at \in {"clear", "delete", "create", "name", "store", "sync", "task"}, Goes(at)
  PROVE  /\ cmd' \in Commands /\ cmd' # Idle /\ cmd'.op = cmd.op /\ cmd'.at = at
         /\ ops' = ops /\ up' = up
BY DEF ServiceTyped, Goes, Commands, Idle, lockVars

\* A command that ends leaves nothing under way.
LEMMA EndsIdle ==
  ASSUME Ends
  PROVE  /\ cmd' \in Commands /\ cmd' = Idle /\ cmd'.op = "none" /\ cmd'.at = "end"
         /\ ops' # "service" /\ up' = up
BY DEF Ends, DropOps, Free, Commands, Idle

\* and every step keeps it.
LEMMA ServiceInvInductive ==
  ServiceInv /\ [ServiceNext]_<<lockVars, svcVars>> => ServiceInv'
<1> SUFFICES ASSUME ServiceInv, [ServiceNext]_<<lockVars, svcVars>> PROVE ServiceInv'
  OBVIOUS
<1> USE DEF ServiceInv, ServiceTyped, Stored, TaskFollows, lockVars, Idle, Commands, At
<1>s. /\ Absent \in ServiceStates /\ Stopped(sys) \in ServiceStates
      /\ \A s \in {"stopped", "running"}, p \in Profiles \cup {NoProfile} :
           State(s, p) \in ServiceStates
  BY DEF ServiceStates, State, Absent, Stopped
<1>0. CASE UNCHANGED <<lockVars, svcVars>>
  BY <1>0 DEF svcVars
<1>1. ASSUME NEW op \in {"install", "switch", "remove", "reset"},
             NEW p \in Profiles \cup {NoProfile}, Begins(op, p)
      PROVE  ServiceInv'
  BY <1>1 DEF Begins, TakesOps, Free
<1>2. CASE StopsAll
  <2>1. cmd # Idle
    BY <1>2 DEF StopsAll
  <2>2. CASE Goes("delete")
    BY <1>2, <2>1, <2>2, GoesOn, <1>s DEF StopsAll
  <2>3. CASE Ends
    BY <1>2, <2>3, EndsIdle, <1>s DEF StopsAll
  <2> QED
    BY <1>2, <2>2, <2>3 DEF StopsAll
<1>3. CASE DeletesOld
  <2>1. cmd # Idle
    BY <1>3 DEF DeletesOld
  <2>2. CASE Goes("create")
    BY <1>3, <2>1, <2>2, GoesOn, EndsIdle, <1>s DEF DeletesOld
  <2>3. CASE Ends
    BY <1>3, <2>3, EndsIdle, <1>s DEF DeletesOld
  <2> QED
    BY <1>3, <2>2, <2>3 DEF DeletesOld
<1>4. CASE CreatesNew
  <2>0. sys' \in ServiceStates
    BY <1>4, <1>s DEF CreatesNew
  <2>1. cmd # Idle
    BY <1>4 DEF CreatesNew
  <2>2. CASE Goes("name")
    BY <1>4, <2>0, <2>1, <2>2, GoesOn DEF CreatesNew
  <2>3. CASE Ends
    BY <1>4, <2>0, <2>3, EndsIdle DEF CreatesNew
  <2> QED
    BY <1>4, <2>2, <2>3 DEF CreatesNew
<1>5. CASE NamesStrategy
  <2>1. sys' \in ServiceStates
    BY <1>5 DEF NamesStrategy, ServiceStates, Absent, State
  <2> QED
    BY <1>5, <2>1 DEF NamesStrategy, Goes
<1>6. CASE InstallStores
  <2>1. cmd # Idle
    BY <1>6 DEF InstallStores
  <2>2. CASE Goes("task")
    BY <1>6, <2>1, <2>2, GoesOn, <1>s, Truths DEF InstallStores
  <2>3. CASE Ends
    BY <1>6, <2>3, EndsIdle, <1>s, Truths DEF InstallStores
  <2> QED
    BY <1>6, <2>2, <2>3 DEF InstallStores
<1>7. CASE SetsTask
  BY <1>7, Truths DEF SetsTask, Task, Ends, DropOps, Free
<1>8. CASE RemovesService
  <2>1. cmd # Idle
    BY <1>8 DEF RemovesService
  <2>2. CASE Goes("store")
    BY <1>8, <2>1, <2>2, GoesOn, <1>s DEF RemovesService
  <2>3. CASE Ends
    BY <1>8, <2>3, EndsIdle, <1>s DEF RemovesService
  <2> QED
    BY <1>8, <2>2, <2>3 DEF RemovesService
<1>9. CASE RemoveStores
  BY <1>9, <1>s, Truths DEF RemoveStores, Goes
<1>10. CASE ResetRuns
  <2>1. cmd # Idle
    BY <1>10 DEF ResetRuns
  <2>2. CASE Goes("sync")
    BY <1>10, <2>1, <2>2, GoesOn, <1>s DEF ResetRuns
  <2>3. CASE Ends
    BY <1>10, <2>3, EndsIdle, <1>s DEF ResetRuns
  <2> QED
    BY <1>10, <2>2, <2>3 DEF ResetRuns
<1>11. CASE ResetSyncs
  BY <1>11 DEF ResetSyncs, SyncCard, Ends, DropOps, Free
<1>12. CASE WatchReads
  BY <1>12, <1>s DEF WatchReads
<1>13. CASE WatchAsks
  <2> DEFINE w == [watch EXCEPT !.at = "write"]
  <2>1. w \in [at : {"sleep", "ask", "write"}, card : ServiceStates, found : ServiceStates]
    OBVIOUS
  <2>2. watch' = [w EXCEPT !.found = sys]
    BY <1>13 DEF WatchAsks
  <2> HIDE DEF w
  <2>3. watch' \in [at : {"sleep", "ask", "write"}, card : ServiceStates, found : ServiceStates]
    BY <2>1, <2>2
  <2> QED
    BY <1>13, <2>3 DEF WatchAsks
<1>14. CASE WatchWrites
  BY <1>14, <1>s DEF WatchWrites, Asleep
<1>15. CASE ServiceStarts
  BY <1>15 DEF ServiceStarts, SyncCard, LockStarts, On
<1>16. CASE SyncsTask
  BY <1>16, Truths DEF SyncsTask, On
<1>17. CASE ServiceDies
  BY <1>17, <1>s DEF ServiceDies, LockDies, Asleep, Free
<1>18. CASE SystemChanges
  <2>1. sys' \in ServiceStates
    BY <1>18 DEF SystemChanges, ServiceStates
  <2> QED
    BY <1>18, <2>1 DEF SystemChanges
<1> QED
  BY <1>0, <1>1, <1>2, <1>3, <1>4, <1>5, <1>6, <1>7, <1>8, <1>9, <1>10, <1>11, <1>12,
     <1>13, <1>14, <1>15, <1>16, <1>17, <1>18
  DEF ServiceNext, ServiceBegins, InstallBegins, SwitchBegins, RemoveBegins, ResetBegins,
      ServiceWorks, Watches

\* So it holds always.
LEMMA ServiceInvAlways == ServiceSpec => []ServiceInv
BY ServiceInvInit, ServiceInvInductive, PTL DEF ServiceSpec

\* The task that starts the program with Windows exists exactly if the setting says
\* so, in every state in which nobody is on the way to it and schtasks has not
\* failed, for any number of profiles (install_service, sync_boot_task).
THEOREM BootTaskHolds == ServiceSpec => []BootTaskFollows
<1>1. ServiceInv => BootTaskFollows
  BY DEF ServiceInv, TaskFollows, BootTaskFollows, Idle
<1> QED
  BY <1>1, ServiceInvAlways, PTL

----------------------------------------------------------------------------
(* The catalogue.                                                              *)

\* Rows, and the files whose rows are said to describe them.
RowSet == [status : {"unknown", "new", "modified", "ok", "skip-user", "err"},
           of : Versions \cup {NoFile}]
Compared == {"bat", "list", "svc"}

\* What the checks under way carry; the watcher has seen nothing when it looked.
CheckShape ==
  /\ DOMAIN check = Askers
  /\ \A w \in Askers :
       /\ check[w].missed \subseteq Files
       /\ check[w].at = "store" => check[w].rows \in [Files -> RowSet]
  /\ check["watcher"].unseen /\ check["watcher"].at # "taken"

\* What an apply asked for carries,
ClickShape ==
  click # NoClick =>
    /\ DOMAIN click = {"at", "ids", "unseen"} /\ click.at \in {"looked", "taken"}
    /\ click.unseen

\* and what it carries under way, and how far it is.
ApplyFields == {"who", "ids", "mode", "at", "next", "v", "set", "lists", "kept", "unseen", "rows"}
ApplyShape ==
  apply # Quiet =>
    /\ DOMAIN apply = ApplyFields
    /\ apply.who = "user" /\ apply.at \in {"fetch", "files", "write", "store"}
    /\ apply.next \in 1..5 /\ (apply.at = "write" => apply.next \in 1..4)
    /\ {apply.v, apply.set} \subseteq Versions \cup {NoFile}
    /\ apply.at \in {"files", "write"} => apply.v \in Versions
    /\ apply.rows \in [Files -> RowSet] /\ apply.unseen

\* The types of the rest.
CatalogTyped ==
  /\ remote \in Versions
  /\ disk \in [{"bat", "list"} -> Versions \cup {NoFile, Mine}]
  /\ disk["bat"] \in Versions \cup {NoFile}
  /\ rows \in [Files -> RowSet]
  /\ filed.rows \in [Files -> RowSet] /\ filed.presets \in Versions
  /\ bats \in Versions \cup {NoFile} /\ presets \in Versions
  /\ stamp \in Versions \cup {NoFile} /\ strays \subseteq Files
  /\ service \in Versions \cup {NoFile}

\* An apply and a check by hand exclude each other by OPS; an apply and a check of
\* the watcher do not.
Exclusive ==
  /\ ops = "apply" <=> click.at = "taken" \/ apply # Quiet
  /\ ops = "check" <=> check["hand"].at \in {"taken", "compare", "store"}
  /\ busy <=> check["watcher"].at \in {"compare", "store"}
  /\ busy \in BOOLEAN
  /\ apply = Quiet \/ click = NoClick

\* The rows of a check but for the files it missed, the rows an apply has settled
\* and the catalogue's rows of the files it has not come to describe the disk.
RowsTrue ==
  \A f \in Compared :
    /\ \A w \in Askers :
         check[w].at = "store" /\ f \notin check[w].missed => Describes(check[w].rows[f], f)
    /\ apply # Quiet => Describes(apply.rows[f], f)
    /\ (apply # Quiet => apply.rows[f] = NoRow) /\ f \notin strays => Describes(rows[f], f)

\* What a process that is not there did not save is astray.
Filed == ~up => \A f \in Files : f \notin strays => filed.rows[f] = rows[f]

\* An apply has no row yet of the files ahead of it.
Ahead ==
  apply # Quiet /\ apply.at # "store" =>
    /\ apply.at = "fetch" => apply.next = 1
    /\ \A i \in apply.next..4 : apply.rows[Order[i]] = NoRow

\* Until an apply has settled the strategies they are among the profiles.
BatsFresh ==
  /\ up /\ (apply # Quiet => apply.rows["bat"].status # "ok") => bats = disk["bat"]
  /\ disk["bat"] = NoFile => bats = NoFile

\* The invariant of the catalogue.
CatalogInv ==
  CatalogTyped /\ CheckShape /\ ClickShape /\ ApplyShape /\ Exclusive /\ RowsTrue
  /\ Filed /\ Ahead /\ BatsFresh

\* The files and their order.
LEMMA RowNames ==
  /\ Files = {"ipset", "svc", "bat", "list"} /\ Compared \subseteq Files
  /\ \A i \in 1..4 : Order[i] \in Files
  /\ \A i, j \in 1..4 : Order[i] = Order[j] => i = j
  /\ \A f \in Compared : \E i \in 1..4 : Order[i] = f
<1>1. Order[1] = "ipset" /\ Order[2] = "svc" /\ Order[3] = "bat" /\ Order[4] = "list"
  BY DEF Order
<1>2. \A i : i \in 1..4 <=> i = 1 \/ i = 2 \/ i = 3 \/ i = 4
  OBVIOUS
<1>3. Files = {"ipset", "svc", "bat", "list"}
  BY <1>1, <1>2 DEF Files
<1>4. \A i, j \in 1..4 : Order[i] = Order[j] => i = j
  BY <1>1, <1>2
<1>5. \A f \in Compared : \E i \in 1..4 : Order[i] = f
  BY <1>1, <1>2 DEF Compared
<1> QED
  BY <1>3, <1>4, <1>5 DEF Compared, Files

\* A row that says nothing.
LEMMA NoRowIs == NoRow \in RowSet /\ NoRow.status = "unknown"
BY DEF NoRow, Row, RowSet

\* What an asker has under way that rests or carries no rows yet.
LEMMA ChecksAre ==
  \A at, m, unseen, missed, new :
    LET c == Check(at, m, unseen, missed, new)
    IN  c.at = at /\ c.mode = m /\ c.unseen = unseen /\ c.missed = missed /\ c.rows = new
BY DEF Check

\* The invariant holds before the program has run.
LEMMA CatalogInvInit == ListsInit /\ CatalogInit => CatalogInv
<1> SUFFICES ASSUME ListsInit, CatalogInit PROVE CatalogInv
  OBVIOUS
<1>1. CatalogTyped
  BY NoRowIs, RowNames, CatalogAssumption, ListAssumption
  DEF CatalogInit, ListsInit, CatalogTyped, BuiltinPresets
<1>2. DOMAIN check = Askers /\ \A w \in Askers : check[w] = AtRest
  BY DEF CatalogInit
<1>3. AtRest.at = "rest" /\ AtRest.missed = {} /\ AtRest.unseen
  BY DEF AtRest, Check
<1>4. CheckShape
  BY <1>2, <1>3 DEF CheckShape, Askers
<1>5. ClickShape /\ ApplyShape /\ Ahead
  BY DEF CatalogInit, ClickShape, ApplyShape, Ahead
<1>6. Exclusive
  BY <1>2, <1>3, Truths DEF CatalogInit, ListsInit, LockInit, Exclusive, Free, Askers, NoClick
<1>7. RowsTrue
  BY <1>2, <1>3, NoRowIs, RowNames DEF CatalogInit, RowsTrue, Describes
<1>8. BatsFresh /\ Filed
  BY DEF CatalogInit, ListsInit, LockInit, BatsFresh, Filed
<1> QED
  BY <1>1, <1>4, <1>5, <1>6, <1>7, <1>8 DEF CatalogInv

\* A file's row is settled and the apply goes on to the next.
LEMMA RowSettled ==
  ASSUME ApplyShape, apply # Quiet, NEW f \in Files, NEW row \in RowSet, NEW s, s = Settle(f, row)
  PROVE  /\ DOMAIN s = DOMAIN apply /\ s.who = "user" /\ s.at = "files"
         /\ s.next = apply.next + 1 /\ s.v = apply.v /\ s.set = apply.set
         /\ s.mode = apply.mode /\ s.ids = apply.ids /\ s.kept = apply.kept
         /\ s.unseen = apply.unseen
         /\ s.rows \in [Files -> RowSet] /\ s.rows[f] = row
         /\ \A g \in Files : g # f => s.rows[g] = apply.rows[g]
<1> USE DEF ApplyFields
<1> DEFINE s1 == [apply EXCEPT !.rows[f] = row]
           s2 == [s1 EXCEPT !.next = @ + 1]
<1>1. /\ DOMAIN s1 = DOMAIN apply /\ s1.rows = [apply.rows EXCEPT ![f] = row]
      /\ \A j \in DOMAIN apply : j # "rows" => s1[j] = apply[j]
  BY DEF ApplyShape
<1>2. s = [s2 EXCEPT !.at = "files"]
  BY DEF Settle
<1> HIDE DEF s1
<1>3. /\ DOMAIN s2 = DOMAIN apply /\ s2.next = s1.next + 1
      /\ \A j \in DOMAIN apply : j # "next" => s2[j] = s1[j]
  BY <1>1 DEF ApplyShape
<1> HIDE DEF s2
<1>4. /\ DOMAIN s = DOMAIN apply /\ s.at = "files"
      /\ \A j \in DOMAIN apply : j # "at" => s[j] = s2[j]
  BY <1>2, <1>3 DEF ApplyShape
<1> QED
  BY <1>1, <1>3, <1>4 DEF ApplyShape

\* What classify_entry says of a file that it compares.
LEMMA ClassifyTrue ==
  ASSUME NEW f \in Files, NEW v \in Versions, NEW m
  PROVE  Classify(f, v, m) \in RowSet /\ (f \in Compared => Describes(Classify(f, v, m), f))
BY RowNames DEF Classify, Row, RowSet, Describes, Bytes, Compared

\* What is saved has the types of what there is.
LEMMA SavesTyped ==
  ASSUME Saves, rows' \in [Files -> RowSet], presets' \in Versions,
         filed.rows \in [Files -> RowSet], filed.presets \in Versions
  PROVE  filed'.rows \in [Files -> RowSet] /\ filed'.presets \in Versions
BY DEF Saves

\* Steps that leave the catalogue alone, or only save it, leave its invariant alone.
LEMMA ListsKeep ==
  ASSUME CatalogInv, UNCHANGED catVars \/ (up /\ Saves),
         UNCHANGED <<remote, disk, rows, strays, bats, presets, stamp, check, click, apply>>,
         UNCHANGED service, up' = up,
         busy' = busy, busy \in BOOLEAN,
         ops' = ops \/ {ops, ops'} \cap {"apply", "check"} = {}
  PROVE  CatalogInv'
<1> USE DEF CatalogInv
<1>1. filed'.rows \in [Files -> RowSet] /\ filed'.presets \in Versions
  BY SavesTyped DEF CatalogTyped, catVars
<1>2. CatalogTyped'
  BY <1>1 DEF CatalogTyped
<1>3. CheckShape' /\ ClickShape' /\ ApplyShape' /\ Ahead' /\ BatsFresh'
  BY DEF CheckShape, ClickShape, ApplyShape, Ahead, BatsFresh
<1>4. Exclusive' /\ Filed'
  BY DEF Exclusive, Filed, catVars
<1>5. RowsTrue'
  BY DEF RowsTrue, Describes, Local, Compared
<1> QED
  BY <1>2, <1>3, <1>4, <1>5

\* A step of a check by which nobody's rows change, and nothing but its locks and
\* what is saved.
LEMMA CheckMoves ==
  ASSUME CatalogInv, up, up' = up, NEW who \in Askers, NEW c,
         check' = [check EXCEPT ![who] = c],
         c.missed = {}, c.at # "store",
         who = "watcher" => c.unseen /\ c.at # "taken",
         UNCHANGED <<remote, disk, rows, strays, bats, presets, stamp, click, apply, service>>,
         Saves \/ filed' = filed,
         Exclusive'
  PROVE  CatalogInv'
<1> USE DEF CatalogInv
<1>0. /\ DOMAIN check' = Askers /\ check'[who] = c
      /\ \A w \in Askers : w # who => check'[w] = check[w]
  BY DEF CheckShape
<1>1. filed'.rows \in [Files -> RowSet] /\ filed'.presets \in Versions
  BY SavesTyped DEF CatalogTyped
<1>2. CatalogTyped' /\ ClickShape' /\ ApplyShape' /\ Ahead' /\ BatsFresh'
  BY <1>1 DEF CatalogTyped, ClickShape, ApplyShape, Ahead, BatsFresh
<1>3. CheckShape'
  BY <1>0 DEF CheckShape, Askers
<1>4. Filed'
  BY DEF Filed
<1>5. RowsTrue'
  BY <1>0 DEF RowsTrue, Describes, Local, Compared
<1> QED
  BY <1>2, <1>3, <1>4, <1>5

\* A check looks, the watcher at both flags,
LEMMA CheckLooksKeeps ==
  ASSUME CatalogInv, NEW who \in Askers, CheckLooks(who)
  PROVE  CatalogInv'
<1> DEFINE c == Check("looked", mode, ~shown, {}, <<>>)
<1>1. /\ up /\ up' = up /\ ops' = ops /\ busy' = busy /\ check[who].at = "rest"
      /\ check' = [check EXCEPT ![who] = c]
      /\ UNCHANGED <<remote, disk, rows, strays, bats, presets, stamp, click, apply, service, filed>>
      /\ who = "watcher" => ~shown
  BY DEF CheckLooks, lockVars, listVars
<1>2. c.at = "looked" /\ c.missed = {} /\ (who = "watcher" => c.unseen)
  BY <1>1 DEF Check
<1> HIDE DEF c
<1>3. /\ check'[who] = c /\ \A w \in Askers : w # who => check'[w] = check[w]
  BY <1>1 DEF CatalogInv, CheckShape
<1>4. Exclusive'
  BY <1>1, <1>2, <1>3 DEF CatalogInv, Exclusive, Askers
<1> QED
  BY <1>1, <1>2, <1>4, CheckMoves

\* takes its lock, whatever has come in between,
LEMMA CheckTakesKeeps ==
  ASSUME CatalogInv, NEW who \in Askers, CheckTakes(who)
  PROVE  CatalogInv'
<1>1. /\ check[who].at = "looked" /\ up /\ up' = up
      /\ UNCHANGED <<remote, disk, rows, strays, bats, presets, stamp, click, apply, service>>
      /\ Saves \/ filed' = filed
  BY DEF CheckTakes, TryOps, TryBusy, listVars
<1>2. CASE who = "hand"
  <2> DEFINE c == Check("taken", check[who].mode, check[who].unseen, {}, <<>>)
  <2>1. /\ check' = [check EXCEPT ![who] = c]
        /\ ops = Free /\ ops' = "check" /\ busy' = busy
    BY <1>2 DEF CheckTakes, TryOps
  <2>2. c.at = "taken" /\ c.missed = {}
    BY DEF Check
  <2> HIDE DEF c
  <2>3. /\ check'[who] = c /\ \A w \in Askers : w # who => check'[w] = check[w]
    BY <2>1 DEF CatalogInv, CheckShape
  <2>4. Exclusive'
    BY <1>1, <1>2, <2>1, <2>2, <2>3 DEF CatalogInv, Exclusive, Askers, Free
  <2> QED
    BY <1>1, <1>2, <2>1, <2>2, <2>4, CheckMoves
<1>3. CASE who = "watcher"
  <2> DEFINE c == Check("compare", check[who].mode, check[who].unseen, {}, <<>>)
  <2>1. /\ check' = [check EXCEPT ![who] = c]
        /\ ops' = ops /\ busy' = TRUE
    BY <1>3 DEF CheckTakes, TryBusy
  <2>2. c.at = "compare" /\ c.missed = {} /\ c.unseen
    BY <1>3 DEF Check, CatalogInv, CheckShape
  <2> HIDE DEF c
  <2>3. /\ check'[who] = c /\ \A w \in Askers : w # who => check'[w] = check[w]
    BY <2>1 DEF CatalogInv, CheckShape
  <2>4. Exclusive'
    <3>1. busy' \in BOOLEAN
      BY <2>1, Truths, Zenon
    <3> QED
      BY <1>1, <1>3, <2>1, <2>2, <2>3, <3>1 DEF CatalogInv, Exclusive, Askers
  <2> QED
    BY <1>1, <1>3, <2>1, <2>2, <2>4, CheckMoves
<1> QED
  BY <1>2, <1>3 DEF Askers

\* or is refused; once it has it, it takes the settings along.
LEMMA HandMovesKeeps ==
  ASSUME CatalogInv, CheckRefused \/ CheckShows
  PROVE  CatalogInv'
<1>1. PICK c : /\ check' = [check EXCEPT !["hand"] = c] /\ c.missed = {}
               /\ \/ check["hand"].at = "looked" /\ c.at = "rest"
                  \/ check["hand"].at = "taken" /\ c.at = "compare"
  <2>1. CASE CheckRefused
    <3>1. check' = [check EXCEPT !["hand"] = AtRest] /\ check["hand"].at = "looked"
      BY <2>1 DEF CheckRefused
    <3>2. AtRest.missed = {} /\ AtRest.at = "rest"
      BY DEF AtRest, Check
    <3> QED  BY <3>1, <3>2
  <2>2. CASE CheckShows
    <3> DEFINE c == Check("compare", mode, check["hand"].unseen, {}, <<>>)
    <3>1. check' = [check EXCEPT !["hand"] = c] /\ check["hand"].at = "taken"
      BY <2>2 DEF CheckShows
    <3>2. c.missed = {} /\ c.at = "compare"
      BY DEF Check
    <3> QED  BY <3>1, <3>2
  <2> QED  BY <2>1, <2>2
<1>2. /\ up /\ up' = up /\ ops' = ops /\ busy' = busy
      /\ UNCHANGED <<remote, disk, rows, strays, bats, presets, stamp, click, apply, service, filed>>
  BY DEF CheckRefused, CheckShows, ShowsOp, lockVars, listVars
<1>3. /\ check'["hand"] = c /\ check'["watcher"] = check["watcher"]
  BY <1>1 DEF CatalogInv, CheckShape, Askers
<1>4. Exclusive'
  BY <1>1, <1>2, <1>3 DEF CatalogInv, Exclusive
<1>5. "hand" \in Askers /\ c.at # "store"
  BY <1>1 DEF Askers
<1> QED
  BY <1>1, <1>2, <1>4, <1>5, CheckMoves

\* Its rows are those of the disk,
LEMMA CheckComparesKeeps ==
  ASSUME CatalogInv, NEW who \in Askers, CheckCompares(who)
  PROVE  CatalogInv'
<1> USE DEF CatalogInv
<1> DEFINE new == [f \in Files |-> Classify(f, remote, check[who].mode)]
           c == Check("store", check[who].mode, check[who].unseen, {}, new)
<1>1. /\ up /\ up' = up /\ ops' = ops /\ busy' = busy /\ check[who].at = "compare"
      /\ check' = [check EXCEPT ![who] = c]
      /\ UNCHANGED <<remote, disk, rows, strays, bats, presets, stamp, click, apply, service, live, filed>>
  BY DEF CheckCompares, lockVars, listVars
<1>2. c.at = "store" /\ c.missed = {} /\ c.rows = new /\ (who = "watcher" => c.unseen)
  BY DEF Check, CheckShape
<1>3. new \in [Files -> RowSet] /\ \A f \in Compared : Describes(new[f], f)
  BY RowNames, ClassifyTrue DEF CatalogTyped
<1> HIDE DEF c, new
<1>4. /\ DOMAIN check' = Askers /\ check'[who] = c
      /\ \A w \in Askers : w # who => check'[w] = check[w]
  BY <1>1 DEF CheckShape
<1>5. CatalogTyped' /\ ClickShape' /\ ApplyShape' /\ Ahead' /\ BatsFresh' /\ Filed'
  BY <1>1 DEF CatalogTyped, ClickShape, ApplyShape, Ahead, BatsFresh, Filed
<1>6. CheckShape'
  BY <1>2, <1>3, <1>4 DEF CheckShape, Askers
<1>7. Exclusive'
  BY <1>1, <1>2, <1>4 DEF Exclusive, Askers
<1>8. RowsTrue'
  <2>1. \A r : \A f \in Compared : Describes(r, f)' = Describes(r, f)
    BY <1>1 DEF Describes, Local
  <2> QED
    BY <1>1, <1>2, <1>3, <1>4 DEF RowsTrue, Describes, Local, Compared
<1> QED
  BY <1>5, <1>6, <1>7, <1>8

\* A check that ends gives its lock back and rests.
LEMMA CheckEnds ==
  ASSUME CatalogInv, NEW who \in Askers, CheckDone(who), check[who].at \in {"compare", "store"},
         check' = [check EXCEPT ![who] = AtRest], UNCHANGED <<click, apply>>
  PROVE  /\ up /\ up' = up /\ CheckShape' /\ Exclusive'
         /\ check'[who].at = "rest" /\ \A w \in Askers : w # who => check'[w] = check[w]
<1>1. /\ DOMAIN check' = Askers /\ check'[who] = AtRest
      /\ \A w \in Askers : w # who => check'[w] = check[w]
  BY DEF CatalogInv, CheckShape
<1>2. AtRest.at = "rest" /\ AtRest.missed = {} /\ AtRest.unseen
  BY DEF AtRest, Check
<1>3. CheckShape'
  BY <1>1, <1>2 DEF CatalogInv, CheckShape, Askers
<1>4. up /\ up' = up
  BY DEF CheckDone, DropOps, DropBusy
<1>5. CASE who = "hand"
  <2>1. ops = "check" /\ ops' = Free /\ busy' = busy
    BY <1>5 DEF CheckDone, DropOps
  <2>2. Exclusive'
    BY <1>1, <1>2, <1>5, <2>1 DEF CatalogInv, Exclusive, Askers, Free
  <2> QED
    BY <1>1, <1>2, <1>3, <1>4, <2>2
<1>6. CASE who = "watcher"
  <2>1. ops' = ops /\ busy' = FALSE
    BY <1>6 DEF CheckDone, DropBusy
  <2>2. busy' \in BOOLEAN
    BY <2>1, Truths, Zenon
  <2>3. Exclusive'
    BY <1>1, <1>2, <1>6, <2>1, <2>2 DEF CatalogInv, Exclusive, Askers
  <2> QED
    BY <1>1, <1>2, <1>3, <1>4, <2>3
<1> QED
  BY <1>5, <1>6 DEF Askers

\* and still are when they are stored, but for the files it missed.
LEMMA CheckStoresKeeps ==
  ASSUME CatalogInv, NEW who \in Askers, CheckStores(who)
  PROVE  CatalogInv'
<1> USE DEF CatalogInv
<1>1. /\ check[who].at = "store" /\ CheckDone(who) /\ check' = [check EXCEPT ![who] = AtRest]
      /\ UNCHANGED <<remote, disk, bats, presets, stamp, click, apply, service>> /\ Saves
      /\ rows' = check[who].rows /\ strays' = check[who].missed
  BY DEF CheckStores, listVars
<1>2. /\ up /\ up' = up /\ CheckShape' /\ Exclusive' /\ check'[who].at = "rest"
      /\ \A w \in Askers : w # who => check'[w] = check[w]
  BY <1>1, CheckEnds
<1>3. rows' \in [Files -> RowSet] /\ strays' \subseteq Files
  BY <1>1 DEF CheckShape
<1>4. filed'.rows \in [Files -> RowSet] /\ filed'.presets \in Versions
  BY <1>1, <1>3, SavesTyped DEF CatalogTyped
<1>5. CatalogTyped' /\ ClickShape' /\ ApplyShape' /\ Ahead' /\ BatsFresh' /\ Filed'
  BY <1>1, <1>2, <1>3, <1>4 DEF CatalogTyped, ClickShape, ApplyShape, Ahead, BatsFresh, Filed
<1>6. RowsTrue'
  BY <1>1, <1>2 DEF RowsTrue, Describes, Local, Compared
<1> QED
  BY <1>2, <1>5, <1>6

\* Without a network the old rows stay.
LEMMA CheckFailsKeeps ==
  ASSUME CatalogInv, NEW who \in Askers, CheckFails(who)
  PROVE  CatalogInv'
<1> USE DEF CatalogInv
<1>1. /\ check[who].at = "compare" /\ CheckDone(who) /\ check' = [check EXCEPT ![who] = AtRest]
      /\ UNCHANGED <<remote, disk, rows, strays, bats, presets, stamp, click, apply, service, filed>>
  BY DEF CheckFails, listVars
<1>2. /\ up /\ up' = up /\ CheckShape' /\ Exclusive' /\ check'[who].at = "rest"
      /\ \A w \in Askers : w # who => check'[w] = check[w]
  BY <1>1, CheckEnds
<1>3. CatalogTyped' /\ ClickShape' /\ ApplyShape' /\ Ahead' /\ BatsFresh' /\ Filed'
  BY <1>1, <1>2 DEF CatalogTyped, ClickShape, ApplyShape, Ahead, BatsFresh, Filed
<1>4. RowsTrue'
  BY <1>1, <1>2 DEF RowsTrue, Describes, Local, Compared
<1> QED
  BY <1>2, <1>3, <1>4

\* A file that is changed is one more that these checks have missed.
LEMMA MissedIs ==
  ASSUME CheckShape, NEW askers, NEW f \in Files, check' = MissedBy(askers, f)
  PROVE  /\ DOMAIN check' = Askers
         /\ \A w \in Askers :
              /\ check'[w].at = check[w].at /\ check'[w].unseen = check[w].unseen
              /\ check'[w].rows = check[w].rows
              /\ check[w].missed \subseteq check'[w].missed /\ check'[w].missed \subseteq Files
              /\ w \in askers /\ check[w].at = "store" => f \in check'[w].missed
BY DEF MissedBy, CheckShape, Check

\* The user asks for an apply, which looks at the watcher's flag,
LEMMA ApplyLooksKeeps ==
  ASSUME CatalogInv, NEW ids, ApplyLooks(ids)
  PROVE  CatalogInv'
<1> USE DEF CatalogInv
<1>1. /\ UNCHANGED <<up, ops, busy, remote, disk, rows, strays, bats, presets, stamp, filed, check,
                     apply, service, live>>
      /\ click = NoClick /\ apply = Quiet /\ ~busy
      /\ click' = [at |-> "looked", ids |-> ids, unseen |-> ~busy]
  BY DEF ApplyLooks, lockVars, listVars
<1>2. DOMAIN click' = {"at", "ids", "unseen"} /\ click'.at = "looked" /\ click'.unseen
  BY <1>1
<1>3. CatalogTyped' /\ CheckShape' /\ ApplyShape' /\ Ahead' /\ BatsFresh' /\ Filed'
  BY <1>1 DEF CatalogTyped, CheckShape, ApplyShape, Ahead, BatsFresh, Filed
<1>4. ClickShape'
  BY <1>2 DEF ClickShape
<1>5. Exclusive'
  BY <1>1, <1>2 DEF Exclusive, NoClick
<1>6. RowsTrue'
  BY <1>1 DEF RowsTrue, Describes, Local, Compared
<1> QED
  BY <1>3, <1>4, <1>5, <1>6

\* takes OPS or is refused,
LEMMA ApplyTakesKeeps ==
  ASSUME CatalogInv, ApplyTakes
  PROVE  CatalogInv'
<1> USE DEF CatalogInv
<1>1. /\ UNCHANGED <<up, busy, remote, disk, rows, strays, bats, presets, stamp, filed, check,
                     apply, service, live>>
      /\ click.at = "looked"
      /\ \/ ops = Free /\ ops' = "apply" /\ click' = [click EXCEPT !.at = "taken"]
         \/ ops' = ops /\ click' = NoClick
  BY DEF ApplyTakes, TryOps, lockVars, listVars
<1>2. click # NoClick /\ apply = Quiet
  BY <1>1 DEF NoClick, Exclusive
<1>3. CatalogTyped' /\ CheckShape' /\ ApplyShape' /\ Ahead' /\ BatsFresh' /\ Filed'
  BY <1>1 DEF CatalogTyped, CheckShape, ApplyShape, Ahead, BatsFresh, Filed
<1>4. \/ /\ ops = Free /\ ops' = "apply" /\ DOMAIN click' = {"at", "ids", "unseen"}
         /\ click'.at = "taken" /\ click'.unseen
      \/ ops' = ops /\ click' = NoClick
  BY <1>1, <1>2 DEF ClickShape
<1>5. ClickShape'
  BY <1>4 DEF ClickShape
<1>6. Exclusive'
  BY <1>1, <1>2, <1>4 DEF Exclusive, NoClick, Free
<1>7. RowsTrue'
  BY <1>1 DEF RowsTrue, Describes, Local, Compared
<1> QED
  BY <1>3, <1>5, <1>6, <1>7

\* and begins with every file ahead of it.
LEMMA ApplyBeginsKeeps ==
  ASSUME CatalogInv, ApplyBegins
  PROVE  CatalogInv'
<1> USE DEF CatalogInv
<1>1. /\ UNCHANGED <<up, ops, busy, remote, disk, rows, strays, bats, presets, stamp, filed, check,
                     service, live>>
      /\ click.at = "taken" /\ click' = NoClick /\ up
  BY DEF ApplyBegins, ShowsOp, listVars
<1>2. /\ DOMAIN apply' = ApplyFields
      /\ apply'.who = "user" /\ apply'.at = "fetch" /\ apply'.next = 1
      /\ apply'.v = NoFile /\ apply'.set = NoFile /\ apply'.rows = [f \in Files |-> NoRow]
      /\ apply'.unseen = click.unseen
  BY DEF ApplyBegins, ApplyFields
<1>3. click # NoClick /\ apply = Quiet /\ click.unseen
  BY <1>1 DEF NoClick, Exclusive, ClickShape
<1>4. apply' # Quiet /\ \A f \in Files : apply'.rows[f] = NoRow
  BY <1>2 DEF Quiet
<1>5. ApplyShape'
  BY <1>2, <1>3, NoRowIs DEF ApplyShape
<1>6. CatalogTyped' /\ CheckShape' /\ ClickShape' /\ Filed'
  BY <1>1 DEF CatalogTyped, CheckShape, ClickShape, Filed
<1>7. Exclusive'
  BY <1>1, <1>3, <1>4 DEF Exclusive, NoClick
<1>8. RowsTrue'
  BY <1>1, <1>3, <1>4, NoRowIs, RowNames DEF RowsTrue, Describes, Local, Compared
<1>9. BatsFresh'
  BY <1>1, <1>3, <1>4, NoRowIs, RowNames DEF BatsFresh
<1>10. Ahead'
  BY <1>2, <1>4, RowNames DEF Ahead
<1> QED
  BY <1>5, <1>6, <1>7, <1>8, <1>9, <1>10

\* A step of the apply that settles no row.
LEMMA ApplyMoves ==
  ASSUME CatalogInv, apply # Quiet, DOMAIN apply' = DOMAIN apply,
         /\ apply'.who = apply.who /\ apply'.next = apply.next
         /\ {apply'.v, apply'.set} \subseteq Versions \cup {NoFile}
         /\ apply'.rows = apply.rows /\ apply'.unseen = apply.unseen,
         apply'.at = "store" \/ (apply'.at \in {"files", "write"} /\ apply'.v \in Versions),
         apply'.at = "write" => apply.next \in 1..4,
         apply.at # "store",
         UNCHANGED <<up, ops, busy, service, remote, disk, rows, strays, bats, presets, stamp,
                     filed, check, click>>
  PROVE  CatalogInv'
<1> USE DEF CatalogInv
<1>0. apply' # Quiet
  BY DEF ApplyShape, Quiet
<1>1. CatalogTyped' /\ CheckShape' /\ ClickShape' /\ Filed' /\ ApplyShape'
  BY DEF CatalogTyped, CheckShape, ClickShape, Filed, ApplyShape
<1>2. Exclusive' /\ BatsFresh'
  BY <1>0 DEF Exclusive, BatsFresh
<1>3. RowsTrue'
  BY <1>0 DEF RowsTrue, Describes, Local, Compared
<1>4. Ahead'
  BY <1>0 DEF Ahead
<1> QED
  BY <1>1, <1>2, <1>3, <1>4

\* It fetches.
LEMMA ApplyFetchesKeeps ==
  ASSUME CatalogInv, ApplyFetches
  PROVE  CatalogInv'
<1>1. /\ apply # Quiet /\ apply.at = "fetch"
      /\ UNCHANGED <<up, ops, busy, service, remote, disk, rows, strays, bats, presets, stamp,
                     filed, check, click>>
  BY DEF ApplyFetches, lockVars, listVars
<1>2. PICK set \in {NoFile, remote}, v \in {NoFile, remote} :
        apply' = [apply EXCEPT !.v = v, !.set = set, !.at = IF v = NoFile THEN "store" ELSE "files"]
  BY DEF ApplyFetches
<1> DEFINE at == IF v = NoFile THEN "store" ELSE "files"
           a1 == [apply EXCEPT !.v = v]
           a2 == [a1 EXCEPT !.set = set]
<1>3. at \in {"store", "files"} /\ (at = "files" => v \in Versions)
      /\ {v, set} \subseteq Versions \cup {NoFile}
  BY DEF CatalogInv, CatalogTyped
<1>4. apply' = [a2 EXCEPT !.at = at] /\ DOMAIN apply = ApplyFields
  BY <1>1, <1>2 DEF CatalogInv, ApplyShape
<1> HIDE DEF at
<1> USE DEF ApplyFields
<1>5. DOMAIN a1 = DOMAIN apply /\ a1.v = v /\ \A j \in DOMAIN apply : j # "v" => a1[j] = apply[j]
  BY <1>4
<1> HIDE DEF a1
<1>6. DOMAIN a2 = DOMAIN apply /\ a2.set = set /\ \A j \in DOMAIN apply : j # "set" => a2[j] = a1[j]
  BY <1>4, <1>5
<1> HIDE DEF a2
<1>7. DOMAIN apply' = DOMAIN apply /\ apply'.at = at /\ \A j \in DOMAIN apply : j # "at" => apply'[j] = a2[j]
  BY <1>4, <1>6
<1>8. /\ apply'.who = apply.who /\ apply'.next = apply.next /\ apply'.v = v /\ apply'.set = set
      /\ apply'.rows = apply.rows /\ apply'.unseen = apply.unseen /\ apply'.at = at
  BY <1>4, <1>5, <1>6, <1>7
<1> HIDE DEF ApplyFields
<1> QED
  BY <1>1, <1>3, <1>7, <1>8, ApplyMoves

\* A row is settled, and describes the file; a check that has read the file before
\* it changed has missed it.
LEMMA SettleKeeps ==
  ASSUME CatalogInv, NEW f \in Files, NEW row \in RowSet, f = Order[apply.next],
         apply # Quiet, apply.at \in {"files", "write"}, apply.next \in 1..4,
         /\ apply'.who = "user" /\ apply'.at = "files" /\ apply'.next = apply.next + 1
         /\ apply'.v = apply.v /\ apply'.set = apply.set /\ apply'.unseen = apply.unseen
         /\ DOMAIN apply' = DOMAIN apply
         /\ apply'.rows \in [Files -> RowSet] /\ apply'.rows[f] = row
         /\ \A g \in Files : g # f => apply'.rows[g] = apply.rows[g],
         \A g \in Compared : g # f => Local(g)' = Local(g),
         f \in Compared => Describes(row, f)',
         /\ DOMAIN check' = Askers
         /\ \A w \in Askers :
              /\ check'[w].at = check[w].at /\ check'[w].unseen = check[w].unseen
              /\ check'[w].rows = check[w].rows
              /\ check[w].missed \subseteq check'[w].missed /\ check'[w].missed \subseteq Files
         /\ Local(f)' = Local(f) \/ (check["watcher"].at = "store" => f \in check'["watcher"].missed),
         disk' \in [{"bat", "list"} -> Versions \cup {NoFile, Mine}],
         disk'["bat"] \in Versions \cup {NoFile},
         disk'["bat"] = disk["bat"] \/ (f = "bat" /\ row.status = "ok" /\ disk'["bat"] # NoFile),
         service' \in Versions \cup {NoFile},
         UNCHANGED <<up, ops, busy, remote, rows, strays, bats, presets, stamp, filed, click>>,
         row # NoRow
  PROVE  CatalogInv'
<1> USE DEF CatalogInv
<1>0. apply' # Quiet
  BY DEF Quiet
<1>1. CatalogTyped' /\ CheckShape' /\ ClickShape' /\ Filed'
  BY DEF CatalogTyped, CheckShape, ClickShape, Filed, Askers
<1>2. ApplyShape'
  BY DEF ApplyShape
<1>3. Exclusive'
  BY <1>0 DEF Exclusive, Askers
<1>4. RowsTrue'
  <2> SUFFICES ASSUME NEW g \in Compared
               PROVE  /\ \A w \in Askers : check'[w].at = "store" /\ g \notin check'[w].missed
                                             => Describes(check[w].rows[g], g)'
                      /\ Describes(apply.rows[g], g)'
                      /\ apply'.rows[g] = NoRow /\ g \notin strays => Describes(rows[g], g)'
    BY <1>0 DEF RowsTrue
  <2>1. g \in Files /\ check["hand"].at # "store"
    BY RowNames DEF Exclusive
  <2>2. CASE g = f
    <3>1. Describes(apply.rows[g], g)' /\ apply'.rows[g] # NoRow
      BY <2>2
    <3>2. ASSUME NEW w \in Askers, check'[w].at = "store", g \notin check'[w].missed
          PROVE  Describes(check[w].rows[g], g)'
      <4>1. w = "watcher" /\ check[w].at = "store" /\ Local(f)' = Local(f) /\ g \notin check[w].missed
        BY <2>1, <2>2, <3>2 DEF Askers
      <4>2. Describes(check[w].rows[g], g) /\ check'[w].rows[g] = check[w].rows[g]
        BY <4>1, <3>2 DEF RowsTrue
      <4> QED  BY <2>2, <4>1, <4>2 DEF Describes
    <3> QED  BY <3>1, <3>2
  <2>3. CASE g # f
    <3>1. Local(g)' = Local(g) /\ apply'.rows[g] = apply.rows[g]
      BY <2>1, <2>3
    <3>2. ASSUME NEW w \in Askers, check'[w].at = "store", g \notin check'[w].missed
          PROVE  Describes(check[w].rows[g], g)'
      <4>1. check[w].at = "store" /\ g \notin check[w].missed /\ check'[w].rows[g] = check[w].rows[g]
        BY <3>2
      <4>2. Describes(check[w].rows[g], g)
        BY <4>1 DEF RowsTrue
      <4> QED  BY <3>1, <4>1, <4>2 DEF Describes
    <3>3. Describes(apply.rows[g], g)'
      BY <3>1 DEF RowsTrue, Describes
    <3>4. apply'.rows[g] = NoRow /\ g \notin strays => Describes(rows[g], g)'
      BY <3>1 DEF RowsTrue, Describes
    <3> QED  BY <3>2, <3>3, <3>4
  <2> QED
    BY <2>2, <2>3
<1>5. apply.rows[f] = NoRow
  BY DEF Ahead
<1>6. BatsFresh'
  BY <1>0, <1>5, NoRowIs, RowNames DEF BatsFresh
<1>7. Ahead'
  <2> SUFFICES ASSUME NEW i \in apply'.next..4
               PROVE  apply'.rows[Order[i]] = NoRow
    BY DEF Ahead
  <2>1. i \in 1..4 /\ i # apply.next /\ i \in apply.next..4
    BY DEF ApplyShape
  <2> QED
    BY <2>1, RowNames DEF Ahead
<1> QED
  BY <1>1, <1>2, <1>3, <1>4, <1>6, <1>7

\* A file that is not touched keeps its checks, too.
LEMMA CheckStays ==
  ASSUME CheckShape, check' = check
  PROVE  /\ DOMAIN check' = Askers
         /\ \A w \in Askers :
              /\ check'[w].at = check[w].at /\ check'[w].unseen = check[w].unseen
              /\ check'[w].rows = check[w].rows
              /\ check[w].missed \subseteq check'[w].missed /\ check'[w].missed \subseteq Files
BY DEF CheckShape

\* A file it does not replace gets the row it is compared to.
LEMMA ApplySkipsKeeps ==
  ASSUME CatalogInv, NEW f \in Files, ApplySkips(f)
  PROVE  CatalogInv'
<1>1. /\ apply # Quiet /\ apply.at = "files" /\ apply.next \in 1..4 /\ f = Order[apply.next]
      /\ apply.v \in Versions
  BY DEF ApplySkips, AtFile, CatalogInv, ApplyShape
<1>2. PICK row \in RowSet : row = Classify(f, apply.v, apply.mode)
  BY <1>1, ClassifyTrue
<1>3. apply' = Settle(f, row) /\ (f \in Compared => Describes(row, f)) /\ row # NoRow
  <2>1. row.status # "unknown"
    BY <1>2, RowNames DEF Classify, Row
  <2> QED
    BY <1>1, <1>2, <2>1, ClassifyTrue, NoRowIs DEF ApplySkips
<1>4. /\ UNCHANGED <<up, ops, busy, remote, rows, strays, bats, presets, stamp, filed, click, check>>
      /\ UNCHANGED <<disk, service, live>>
  BY DEF ApplySkips, listVars, lockVars
<1>5. /\ \A g \in Compared : Local(g)' = Local(g)
      /\ Local(f)' = Local(f)
      /\ f \in Compared => Describes(row, f)'
  BY <1>3, <1>4 DEF Local, Describes
<1>6. /\ DOMAIN apply' = DOMAIN apply /\ apply'.who = "user" /\ apply'.at = "files"
      /\ apply'.next = apply.next + 1 /\ apply'.v = apply.v /\ apply'.set = apply.set
      /\ apply'.unseen = apply.unseen
      /\ apply'.rows \in [Files -> RowSet] /\ apply'.rows[f] = row
      /\ \A g \in Files : g # f => apply'.rows[g] = apply.rows[g]
  BY <1>1, <1>2, <1>3, RowSettled DEF CatalogInv
<1>7. /\ disk' \in [{"bat", "list"} -> Versions \cup {NoFile, Mine}] /\ disk'["bat"] = disk["bat"]
      /\ disk'["bat"] \in Versions \cup {NoFile} /\ service' \in Versions \cup {NoFile}
  BY <1>4 DEF CatalogInv, CatalogTyped
<1>8. CheckShape
  BY DEF CatalogInv
<1> QED
  BY <1>1, <1>3, <1>4, <1>5, <1>6, <1>7, <1>8, CheckStays, SettleKeeps

\* A file it cannot copy gets an error.
LEMMA ApplyBacksUpKeeps ==
  ASSUME CatalogInv, NEW f \in Files, ApplyBacksUp(f)
  PROVE  CatalogInv'
<1>1. /\ apply # Quiet /\ apply.at = "files" /\ apply.next \in 1..4 /\ f = Order[apply.next]
      /\ apply.v \in Versions
  BY DEF ApplyBacksUp, AtFile, CatalogInv, ApplyShape
<1>2. /\ UNCHANGED <<up, ops, busy, remote, rows, strays, bats, presets, stamp, filed, click, check>>
      /\ UNCHANGED <<disk, service, live>>
  BY DEF ApplyBacksUp, listVars, lockVars
<1>3. CASE apply' = Settle(f, Row("err", apply.v))
  <2>0. PICK row \in RowSet : row = Row("err", apply.v)
    BY <1>1 DEF Row, RowSet
  <2>1. row.status = "err" /\ row # NoRow
    BY <2>0, NoRowIs DEF Row
  <2>2. /\ DOMAIN apply' = DOMAIN apply /\ apply'.who = "user" /\ apply'.at = "files"
        /\ apply'.next = apply.next + 1 /\ apply'.v = apply.v /\ apply'.set = apply.set
        /\ apply'.unseen = apply.unseen
        /\ apply'.rows \in [Files -> RowSet] /\ apply'.rows[f] = row
        /\ \A g \in Files : g # f => apply'.rows[g] = apply.rows[g]
    BY <1>1, <1>3, <2>0, RowSettled DEF CatalogInv
  <2>3. /\ \A g \in Compared : Local(g)' = Local(g)
        /\ Local(f)' = Local(f)
        /\ f \in Compared => Describes(row, f)'
    BY <1>2, <2>1 DEF Local, Describes
  <2>4. /\ disk' \in [{"bat", "list"} -> Versions \cup {NoFile, Mine}] /\ disk'["bat"] = disk["bat"]
        /\ disk'["bat"] \in Versions \cup {NoFile} /\ service' \in Versions \cup {NoFile}
    BY <1>2 DEF CatalogInv, CatalogTyped
  <2>5. CheckShape
    BY DEF CatalogInv
  <2> QED
    BY <1>1, <1>2, <2>1, <2>2, <2>3, <2>4, <2>5, CheckStays, SettleKeeps
<1>4. CASE apply' # Settle(f, Row("err", apply.v))
  <2> DEFINE kept == IF Local(f) = NoFile THEN {} ELSE {<<f, Local(f)>>}
             a1 == [apply EXCEPT !.at = "write"]
  <2>1. apply' = [a1 EXCEPT !.kept = kept] /\ DOMAIN apply = ApplyFields
    BY <1>1, <1>4 DEF ApplyBacksUp, CatalogInv, ApplyShape
  <2> HIDE DEF kept
  <2> USE DEF ApplyFields
  <2>2. DOMAIN a1 = DOMAIN apply /\ a1.at = "write" /\ \A j \in DOMAIN apply : j # "at" => a1[j] = apply[j]
    BY <2>1
  <2> HIDE DEF a1
  <2>3. DOMAIN apply' = DOMAIN apply /\ \A j \in DOMAIN apply : j # "kept" => apply'[j] = a1[j]
    BY <2>1, <2>2
  <2>4. /\ apply'.who = apply.who /\ apply'.next = apply.next /\ apply'.v = apply.v
        /\ apply'.set = apply.set /\ apply'.rows = apply.rows /\ apply'.at = "write"
        /\ apply'.unseen = apply.unseen
    BY <2>1, <2>2, <2>3
  <2>5. {apply.v, apply.set} \subseteq Versions \cup {NoFile}
    BY <1>1 DEF CatalogInv, ApplyShape
  <2> HIDE DEF ApplyFields
  <2> QED
    BY <1>1, <1>2, <2>3, <2>4, <2>5, ApplyMoves
<1> QED
  BY <1>3, <1>4

\* A file it replaces gets "ok" and holds that version; the watcher's check, if it
\* has read the file, has missed that.
LEMMA ApplyWritesKeeps ==
  ASSUME CatalogInv, ApplyWrites
  PROVE  CatalogInv'
<1>0. /\ apply # Quiet /\ apply.at = "write" /\ apply.next \in 1..4 /\ apply.v \in Versions
      /\ Order[apply.next] \in Files
  BY RowNames DEF ApplyWrites, CatalogInv, ApplyShape
<1>f. PICK f \in Files : f = Order[apply.next]
  BY <1>0
<1>o. PICK ok \in RowSet : ok = Row("ok", apply.v)
  BY <1>0 DEF Row, RowSet
<1>e. PICK err \in RowSet : err = Row("err", apply.v)
  BY <1>0 DEF Row, RowSet
<1>a. PICK askers : askers = {w \in Askers : apply.unseen /\ check[w].unseen}
  OBVIOUS
<1> DEFINE new == Bytes(f, apply.v)
           s == Settle(f, ok)
<1>1. /\ apply # Quiet /\ apply.at = "write" /\ apply.next \in 1..4 /\ apply.v \in Versions
      /\ f = Order[apply.next]
  BY <1>0, <1>f
<1>2. UNCHANGED <<up, ops, busy, remote, rows, strays, bats, presets, stamp, filed, click>>
  BY DEF ApplyWrites, lockVars
<1>3. \/ /\ apply' = [s EXCEPT !.lists = @ \/ f = "list"]
         /\ disk' = IF f \in DOMAIN disk THEN [disk EXCEPT ![f] = new] ELSE disk
         /\ service' = IF f = "svc" THEN new ELSE service
         /\ check' = MissedBy(askers, f)
      \/ /\ apply' = Settle(f, err)
         /\ UNCHANGED <<disk, service, live, check>>
  BY <1>f, <1>o, <1>e, <1>a DEF ApplyWrites
<1>4. /\ ok \in RowSet /\ ok.status = "ok" /\ ok.of = apply.v /\ ok # NoRow
      /\ err \in RowSet /\ err.status = "err" /\ err # NoRow
  BY <1>o, <1>e, NoRowIs DEF Row
<1>5. f # "ipset" => new = apply.v
  BY DEF Bytes
<1>6. /\ disk \in [{"bat", "list"} -> Versions \cup {NoFile, Mine}]
      /\ disk["bat"] \in Versions \cup {NoFile} /\ service \in Versions \cup {NoFile}
      /\ CheckShape
  BY DEF CatalogInv, CatalogTyped
<1>t. "ipset" \notin Compared
  BY DEF Compared
<1>w. "watcher" \in askers
  BY <1>1, <1>a DEF CatalogInv, CheckShape, ApplyShape, Askers
<1> HIDE DEF new
<1>7. CASE /\ apply' = [s EXCEPT !.lists = @ \/ f = "list"]
           /\ disk' = (IF f \in DOMAIN disk THEN [disk EXCEPT ![f] = new] ELSE disk)
           /\ service' = (IF f = "svc" THEN new ELSE service)
           /\ check' = MissedBy(askers, f)
  <2>1. /\ disk' = IF f \in DOMAIN disk THEN [disk EXCEPT ![f] = new] ELSE disk
        /\ service' = IF f = "svc" THEN new ELSE service
        /\ apply' = [s EXCEPT !.lists = @ \/ f = "list"]
    BY <1>7
  <2>2. /\ DOMAIN s = DOMAIN apply /\ s.who = "user" /\ s.at = "files"
        /\ s.next = apply.next + 1 /\ s.v = apply.v /\ s.set = apply.set
        /\ s.unseen = apply.unseen
        /\ s.rows \in [Files -> RowSet] /\ s.rows[f] = ok
        /\ \A g \in Files : g # f => s.rows[g] = apply.rows[g]
    BY <1>1, <1>4, RowSettled DEF CatalogInv
  <2> HIDE DEF s
  <2>3. DOMAIN apply' = DOMAIN s /\ \A j \in DOMAIN s : j # "lists" => apply'[j] = s[j]
    BY <1>1, <2>1, <2>2 DEF CatalogInv, ApplyShape, ApplyFields
  <2>4. /\ DOMAIN apply' = DOMAIN apply /\ apply'.who = "user" /\ apply'.at = "files"
        /\ apply'.next = apply.next + 1 /\ apply'.v = apply.v /\ apply'.set = apply.set
        /\ apply'.rows = s.rows /\ apply'.unseen = apply.unseen
    BY <1>1, <2>2, <2>3 DEF CatalogInv, ApplyShape, ApplyFields
  <2>5. /\ disk' \in [{"bat", "list"} -> Versions \cup {NoFile, Mine}]
        /\ disk'["bat"] \in Versions \cup {NoFile} /\ service' \in Versions \cup {NoFile}
    BY <1>1, <1>5, <1>6, <2>1, RowNames
  <2>6. disk'["bat"] = disk["bat"] \/ (f = "bat" /\ ok.status = "ok" /\ disk'["bat"] # NoFile)
    BY <1>1, <1>4, <1>5, <1>6, <2>1, ListAssumption
  <2>7. \A g \in Compared : g # f => Local(g)' = Local(g)
    BY <1>6, <2>1 DEF Local, Compared
  <2>8. f \in Compared => Describes(ok, f)'
    <3>1. CASE f = "svc"
      BY <1>4, <1>5, <2>1, <3>1 DEF Describes, Local
    <3>2. CASE f \in {"bat", "list"}
      BY <1>4, <1>5, <1>6, <2>1, <3>2 DEF Describes, Local
    <3> QED
      BY <3>1, <3>2 DEF Compared
  <2>9. check' = MissedBy(askers, f) /\ "watcher" \in Askers
    BY <1>7 DEF Askers
  <2> QED
    BY <1>1, <1>2, <1>4, <1>6, <1>w, <2>2, <2>4, <2>5, <2>6, <2>7, <2>8, <2>9, MissedIs, SettleKeeps
<1>8. CASE apply' = Settle(f, err) /\ UNCHANGED <<disk, service, live, check>>
  <2>1. /\ DOMAIN apply' = DOMAIN apply /\ apply'.who = "user" /\ apply'.at = "files"
        /\ apply'.next = apply.next + 1 /\ apply'.v = apply.v /\ apply'.set = apply.set
        /\ apply'.unseen = apply.unseen
        /\ apply'.rows \in [Files -> RowSet] /\ apply'.rows[f] = err
        /\ \A g \in Files : g # f => apply'.rows[g] = apply.rows[g]
    BY <1>1, <1>4, <1>8, RowSettled DEF CatalogInv
  <2>2. (\A g \in Compared : Local(g)' = Local(g)) /\ Local(f)' = Local(f)
    BY <1>8 DEF Local, Compared
  <2>3. f \in Compared => Describes(err, f)'
    BY <1>4 DEF Describes
  <2> QED
    BY <1>1, <1>2, <1>4, <1>6, <1>8, <2>1, <2>2, <2>3, CheckStays, SettleKeeps
<1> QED
  BY <1>3, <1>7, <1>8

\* The sync at the end touches no file with a row.
LEMMA ApplySyncsKeeps ==
  ASSUME CatalogInv, ApplySyncs
  PROVE  CatalogInv'
<1>0. apply # Quiet /\ apply.at = "files" /\ ApplyShape
  BY DEF ApplySyncs, CatalogInv
<1>1. /\ DOMAIN apply' = DOMAIN apply /\ apply'.at = "store"
      /\ \A j \in DOMAIN apply : j # "at" => apply'[j] = apply[j]
  BY <1>0 DEF ApplySyncs, ApplyShape, ApplyFields
<1>2. /\ apply'.who = apply.who /\ apply'.next = apply.next /\ apply'.v = apply.v
      /\ apply'.set = apply.set /\ apply'.rows = apply.rows /\ apply'.unseen = apply.unseen
      /\ {apply.v, apply.set} \subseteq Versions \cup {NoFile}
  BY <1>0, <1>1 DEF ApplyShape, ApplyFields
<1>3. UNCHANGED <<up, ops, busy, service, remote, disk, rows, strays, bats, presets, stamp,
                  filed, check, click>>
  BY DEF ApplySyncs, lockVars
<1> QED
  BY <1>0, <1>1, <1>2, <1>3, ApplyMoves

\* The rows, strategies and presets of an apply are stored.
LEMMA ApplyStoresKeeps ==
  ASSUME CatalogInv, ApplyStores
  PROVE  CatalogInv'
<1> DEFINE new == apply.rows
           told == {f \in Files : new[f] # NoRow}
<1>1. /\ apply # Quiet /\ apply' = Quiet /\ ops = "apply" /\ ops' = Free
      /\ up /\ UNCHANGED <<up, busy, remote, disk, check, click, service, live>>
      /\ rows' = [f \in Files |-> IF f \in told THEN new[f] ELSE rows[f]]
      /\ strays' = strays \ told
      /\ bats' = IF new["bat"].status = "ok" THEN disk["bat"] ELSE bats
      /\ presets' = IF apply.set # NoFile THEN apply.set ELSE presets
      /\ stamp' \in {stamp, apply.set}
      /\ Saves
  BY DEF ApplyStores, Stamps, DropOps, listVars
<1>2. apply.set \in Versions \cup {NoFile} /\ new \in [Files -> RowSet]
  BY <1>1 DEF CatalogInv, ApplyShape
<1>3. \A f \in Compared : f \in Files /\ Describes(new[f], f)
  BY <1>1, RowNames DEF CatalogInv, RowsTrue
<1>4. click = NoClick
  BY <1>1 DEF CatalogInv, Exclusive
<1> HIDE DEF new
<1>5. rows' \in [Files -> RowSet] /\ presets' \in Versions
  BY <1>1, <1>2 DEF CatalogInv, CatalogTyped
<1>6. filed'.rows \in [Files -> RowSet] /\ filed'.presets \in Versions
  BY <1>1, <1>5, SavesTyped DEF CatalogInv, CatalogTyped
<1>7. CatalogTyped'
  BY <1>1, <1>2, <1>5, <1>6 DEF CatalogInv, CatalogTyped
<1>8. CheckShape' /\ ClickShape' /\ ApplyShape' /\ Ahead' /\ Filed'
  BY <1>1 DEF CatalogInv, CheckShape, ClickShape, ApplyShape, Ahead, Filed
<1>9. Exclusive'
  BY <1>1, <1>4 DEF CatalogInv, Exclusive, Free, NoClick
<1>10. RowsTrue'
  <2> SUFFICES ASSUME NEW f \in Compared
               PROVE  /\ \A w \in Askers : check[w].at = "store" /\ f \notin check[w].missed
                                             => Describes(check[w].rows[f], f)'
                      /\ f \notin strays' => Describes(rows[f], f)'
    BY <1>1 DEF RowsTrue
  <2>1. Local(f)' = Local(f) /\ f \in Files
    BY <1>1, <1>3 DEF Local
  <2>2. CASE f \in told
    BY <1>1, <1>3, <2>1, <2>2 DEF CatalogInv, RowsTrue, Describes
  <2>3. CASE f \notin told
    <3>1. rows'[f] = rows[f] /\ apply.rows[f] = NoRow /\ (f \notin strays' => f \notin strays)
      BY <1>1, <2>1, <2>3 DEF new
    <3> QED  BY <1>1, <2>1, <3>1 DEF CatalogInv, RowsTrue, Describes
  <2> QED
    BY <2>2, <2>3
<1>11. BatsFresh'
  BY <1>1, RowNames DEF CatalogInv, BatsFresh, new
<1> QED
  BY <1>7, <1>8, <1>9, <1>10, <1>11 DEF CatalogInv

\* A file edited by hand is a stray.
LEMMA EditsListKeeps ==
  ASSUME CatalogInv, EditsList
  PROVE  CatalogInv'
<1>1. /\ UNCHANGED <<up, ops, busy, remote, rows, bats, presets, stamp, filed, click, apply, service, live>>
      /\ disk' = [disk EXCEPT !["list"] = Mine] /\ strays' = strays \cup {"list"}
      /\ check' = MissedBy(Askers, "list")
      /\ apply # Quiet => apply.at = "fetch"
  BY DEF EditsList, lockVars, listVars
<1> USE DEF CatalogInv
<1>2. /\ disk' \in [{"bat", "list"} -> Versions \cup {NoFile, Mine}] /\ disk'["bat"] = disk["bat"]
      /\ "list" \in Files
  BY <1>1, RowNames DEF CatalogTyped
<1>3. /\ DOMAIN check' = Askers
      /\ \A w \in Askers :
           /\ check'[w].at = check[w].at /\ check'[w].unseen = check[w].unseen
           /\ check'[w].rows = check[w].rows
           /\ check[w].missed \subseteq check'[w].missed /\ check'[w].missed \subseteq Files
           /\ check[w].at = "store" => "list" \in check'[w].missed
  BY <1>1, <1>2, MissedIs
<1>4. CatalogTyped' /\ ClickShape' /\ ApplyShape' /\ Ahead' /\ Filed' /\ BatsFresh'
  BY <1>1, <1>2 DEF CatalogTyped, ClickShape, ApplyShape, Ahead, Filed, BatsFresh
<1>5. CheckShape'
  BY <1>3 DEF CheckShape, Askers
<1>6. Exclusive'
  BY <1>1, <1>3 DEF Exclusive, Askers
<1>7. RowsTrue'
  <2> SUFFICES ASSUME NEW f \in Compared
      PROVE  /\ \A w \in Askers : check'[w].at = "store" /\ f \notin check'[w].missed
                                    => Describes(check[w].rows[f], f)'
             /\ apply # Quiet => Describes(apply.rows[f], f)'
             /\ (apply # Quiet => apply.rows[f] = NoRow) /\ f \notin strays' => Describes(rows[f], f)'
    BY <1>1 DEF RowsTrue
  <2>1. CASE f = "list"
    <3>1. apply # Quiet => apply.rows[f] = NoRow
      BY <1>1, <2>1, RowNames DEF Ahead
    <3> QED
      BY <1>1, <1>3, <2>1, <3>1, NoRowIs DEF Describes
  <2>2. CASE f # "list"
    <3>1. Local(f)' = Local(f)
      BY <1>1, <2>2 DEF Local, Compared, CatalogTyped
    <3> QED
      BY <1>1, <1>3, <3>1 DEF RowsTrue, Describes
  <2> QED
    BY <2>1, <2>2
<1> QED
  BY <1>4, <1>5, <1>6, <1>7

\* A new version changes nothing here.
LEMMA PublishesKeeps ==
  ASSUME CatalogInv, Publishes
  PROVE  CatalogInv'
<1> USE DEF CatalogInv
<1>1. /\ UNCHANGED <<up, ops, busy, disk, rows, strays, bats, presets, stamp, filed, check, click,
                     apply, service, live>>
      /\ remote' \in Versions
  BY DEF Publishes, lockVars, listVars
<1>2. CatalogTyped' /\ CheckShape' /\ ClickShape' /\ ApplyShape' /\ Ahead' /\ Filed'
  BY <1>1 DEF CatalogTyped, CheckShape, ClickShape, ApplyShape, Ahead, Filed
<1>3. Exclusive' /\ BatsFresh'
  BY <1>1 DEF Exclusive, BatsFresh
<1>4. RowsTrue'
  BY <1>1 DEF RowsTrue, Describes, Local, Compared
<1> QED
  BY <1>2, <1>3, <1>4

\* A change of the mode only saves what there is.
LEMMA SetsModeKeeps ==
  ASSUME CatalogInv, NEW m, SetsMode(m)
  PROVE  CatalogInv'
<1>1. /\ up /\ Saves /\ UNCHANGED <<up, ops, busy, service>>
      /\ UNCHANGED <<remote, disk, rows, strays, bats, presets, stamp, check, click, apply>>
  BY DEF SetsMode, SetMode, lockVars
<1>2. busy \in BOOLEAN
  BY DEF CatalogInv, Exclusive
<1> QED
  BY <1>1, <1>2, ListsKeep

\* A process that is not there holds no lock and has nothing under way.
LEMMA CatalogDiesKeeps ==
  ASSUME CatalogInv, CatalogDies
  PROVE  CatalogInv'
<1>1. /\ up' = FALSE /\ ops' = Free /\ busy' = FALSE
      /\ check' = [w \in Askers |-> AtRest] /\ click' = NoClick /\ apply' = Quiet
      /\ UNCHANGED <<remote, disk, rows, bats, presets, filed, service>>
  BY DEF CatalogDies, ListsDie, LockDies
<1>2. /\ strays' = strays \cup {f \in Files : apply # Quiet \/ filed.rows[f] # rows[f]}
      /\ stamp' = stamp \/ (apply # Quiet /\ apply.set # NoFile /\ stamp' = apply.set)
  BY DEF CatalogDies
<1>3. AtRest.at = "rest" /\ AtRest.missed = {} /\ AtRest.unseen
  BY DEF AtRest, Check
<1>4. DOMAIN check' = Askers /\ \A w \in Askers : check'[w] = AtRest
  BY <1>1
<1>5. CatalogTyped'
  BY <1>1, <1>2, RowNames DEF CatalogInv, CatalogTyped, ApplyShape
<1>6. CheckShape'
  BY <1>3, <1>4 DEF CheckShape, Askers
<1>7. ClickShape' /\ ApplyShape' /\ Ahead' /\ Filed'
  BY <1>1, <1>2 DEF ClickShape, ApplyShape, Ahead, Filed
<1>8. Exclusive'
  BY <1>1, <1>3, <1>4, Truths DEF Exclusive, Free, NoClick, Askers
<1>9. BatsFresh'
  BY <1>1, <1>2 DEF CatalogInv, BatsFresh
<1>10. RowsTrue'
  BY <1>1, <1>2, <1>3, <1>4, RowNames DEF CatalogInv, RowsTrue, Describes, Local, Compared
<1> QED
  BY <1>5, <1>6, <1>7, <1>8, <1>9, <1>10 DEF CatalogInv

\* A process that starts has the rows that were saved.
LEMMA CatalogStartsKeeps ==
  ASSUME CatalogInv, CatalogStarts
  PROVE  CatalogInv'
<1>1. /\ ~up /\ up' /\ UNCHANGED <<ops, busy, remote, disk, strays, stamp, check, click, apply, service>>
      /\ bats' = IF disk["bat"] # NoFile THEN disk["bat"] ELSE bats
      /\ rows' = filed.rows
      /\ presets' = IF stamp # NoFile /\ stamp > BuiltinPresets THEN filed.presets ELSE BuiltinPresets
      /\ Saves
  BY DEF CatalogStarts, ListsStart, LockStarts
<1>2. rows' \in [Files -> RowSet] /\ presets' \in Versions
  BY <1>1, CatalogAssumption DEF CatalogInv, CatalogTyped, BuiltinPresets
<1>3. filed'.rows \in [Files -> RowSet] /\ filed'.presets \in Versions
  BY <1>1, <1>2, SavesTyped DEF CatalogInv, CatalogTyped
<1>4. CatalogTyped'
  BY <1>1, <1>2, <1>3 DEF CatalogInv, CatalogTyped
<1>5. CheckShape' /\ ClickShape' /\ ApplyShape' /\ Ahead' /\ Filed'
  BY <1>1 DEF CatalogInv, CheckShape, ClickShape, ApplyShape, Ahead, Filed
<1>6. Exclusive' /\ BatsFresh'
  BY <1>1 DEF CatalogInv, Exclusive, BatsFresh
<1>7. RowsTrue'
  <2>1. \A f \in Compared : f \in Files /\ Local(f)' = Local(f)
                            /\ (f \notin strays => rows'[f] = rows[f])
    BY <1>1, RowNames DEF CatalogInv, Filed, Local, Compared
  <2> QED
    BY <1>1, <2>1 DEF CatalogInv, RowsTrue, Describes
<1> QED
  BY <1>4, <1>5, <1>6, <1>7 DEF CatalogInv

\* Every step of the catalogue keeps the invariant.
LEMMA CatalogInvInductive ==
  CatalogInv /\ [CatalogNext]_<<lockVars, listVars, catVars>> => CatalogInv'
<1> SUFFICES ASSUME CatalogInv, [CatalogNext]_<<lockVars, listVars, catVars>> PROVE CatalogInv'
  OBVIOUS
<1>b. busy \in BOOLEAN
  BY DEF CatalogInv, Exclusive
<1>0. CASE UNCHANGED <<lockVars, listVars, catVars>>
  <2>1. UNCHANGED <<up, ops, busy, service>>
        /\ UNCHANGED <<remote, disk, rows, strays, bats, presets, stamp, check, click, apply>>
    BY <1>0 DEF lockVars, listVars, catVars
  <2> QED
    BY <1>0, <1>b, <2>1, ListsKeep
<1>1. CASE CheckSteps
  BY <1>1, CheckLooksKeeps, CheckTakesKeeps, HandMovesKeeps, CheckComparesKeeps, CheckStoresKeeps,
     CheckFailsKeeps DEF CheckSteps
<1>2. CASE ApplySteps
  BY <1>2, ApplyLooksKeeps, ApplyTakesKeeps, ApplyBeginsKeeps, ApplyFetchesKeeps, ApplySkipsKeeps,
     ApplyBacksUpKeeps, ApplyWritesKeeps, ApplySyncsKeeps, ApplyStoresKeeps DEF ApplySteps
<1>3. CASE Publishes \/ EditsList \/ CatalogStarts \/ CatalogDies \/ \E m \in Modes : SetsMode(m)
  BY <1>3, PublishesKeeps, EditsListKeeps, CatalogStartsKeeps, CatalogDiesKeeps, SetsModeKeeps
<1>4. CASE (TestSteps \/ ApplyMode \/ EditSubnets \/ HealAtStart) /\ UNCHANGED catVars
  <2>1. UNCHANGED <<remote, disk, rows, strays, bats, presets, stamp, check, click, apply>>
    BY <1>4 DEF catVars
  <2>2. /\ UNCHANGED service /\ up' = up /\ busy' = busy
        /\ ops' = ops \/ {ops, ops'} \cap {"apply", "check"} = {}
    BY <1>4 DEF TestSteps, TestBegins, TestHeals, TestBacksUp, TestEmpties, TestRuns, TestEnds,
         TestRestores, TakesOps, DropOps, lockVars, Free, ApplyMode, EditSubnets, HealAtStart
  <2> QED
    BY <1>4, <1>b, <2>1, <2>2, ListsKeep
<1> QED
  BY <1>0, <1>1, <1>2, <1>3, <1>4 DEF CatalogNext, CatalogSteps

\* So it holds always.
LEMMA CatalogInvAlways == CatalogSpec => []CatalogInv
BY CatalogInvInit, CatalogInvInductive, PTL DEF CatalogSpec

\* Between applies the rows describe the files, for any number of versions and with
\* the list's tests and changes of the mode going on beside the catalogue: an apply
\* and the watcher's check can overlap, each having looked before the other had
\* shown itself, and then it is the files the check missed, and no others, that its
\* rows are wrong about (check_updates, apply_updates, the watcher).
THEOREM CatalogTrueHolds == CatalogSpec => []CatalogTrue
<1>1. CatalogInv => CatalogTrue
  BY DEF CatalogInv, RowsTrue, CatalogTrue, Compared
<1> QED
  BY <1>1, CatalogInvAlways, PTL

\* The strategies among the profiles are those on disk while no apply replaces
\* them, whichever of its files failed (apply_updates, reload_bats_from_disk).
THEOREM StrategiesHold == CatalogSpec => []StrategiesFresh
<1>1. CatalogInv => StrategiesFresh
  BY DEF CatalogInv, BatsFresh, StrategiesFresh
<1> QED
  BY <1>1, CatalogInvAlways, PTL

----------------------------------------------------------------------------
(* What an apply overwrites.                                                   *)

\* An apply keeps the mode of its beginning.
ModeHeld == apply # Quiet => apply.mode \in Modes

\* What an apply is about to write over is in its .backups, but for ipset-all.txt,
\* which others write without a lock.
CopyHeld ==
  apply # Quiet /\ apply.at = "write" =>
    \A f \in Compared : f = Order[apply.next] /\ Local(f) # NoFile => <<f, Local(f)>> \in apply.kept

\* What each step does to an apply under way: it ends, moves on, or has just copied.
LEMMA ApplyPaths ==
  ASSUME CatalogInv, [CatalogNext]_<<lockVars, listVars, catVars>>, apply' # Quiet
  PROVE  \/ apply' = apply
         \/ apply'.at = "fetch" /\ apply'.mode = mode
         \/ apply # Quiet /\ apply'.at \in {"store", "files"} /\ apply'.mode = apply.mode
         \/ \E f \in Files :
              /\ apply # Quiet /\ ApplyBacksUp(f) /\ apply'.at = "write" /\ f = Order[apply'.next]
              /\ apply'.mode = apply.mode
              /\ Local(f) # NoFile => <<f, Local(f)>> \in apply'.kept
<1>a. apply # Quiet => ApplyShape /\ apply.next \in 1..5 /\ DOMAIN apply = ApplyFields
  BY DEF CatalogInv, ApplyShape
<1>1. CASE ApplyBegins
  BY <1>1 DEF ApplyBegins
<1>2. CASE ApplyFetches
  <2>1. apply'.mode = apply.mode
    BY <1>2 DEF ApplyFetches
  <2>2. apply'.at \in {"store", "files"}
    BY <1>2, <1>a DEF ApplyFetches, ApplyFields
  <2> QED BY <1>2, <2>1, <2>2 DEF ApplyFetches
<1>3. ASSUME NEW f \in Files, NEW row \in RowSet, apply # Quiet, apply' = Settle(f, row)
      PROVE  apply'.at = "files" /\ apply'.mode = apply.mode
  BY <1>3, RowSettled DEF CatalogInv
<1>4. ASSUME NEW f \in Files, ApplySkips(f)
      PROVE  apply # Quiet /\ apply'.at = "files" /\ apply'.mode = apply.mode
  <2>1. apply # Quiet /\ apply.v \in Versions /\ apply' = Settle(f, Classify(f, apply.v, apply.mode))
    BY <1>4 DEF ApplySkips, AtFile, CatalogInv, ApplyShape
  <2> QED BY <2>1, <1>3, ClassifyTrue
<1>5. ASSUME NEW f \in Files, ApplyBacksUp(f)
      PROVE  \/ apply # Quiet /\ apply'.at = "files" /\ apply'.mode = apply.mode
             \/ /\ apply # Quiet /\ apply'.at = "write" /\ f = Order[apply'.next]
                /\ apply'.mode = apply.mode
                /\ Local(f) # NoFile => <<f, Local(f)>> \in apply'.kept
  <2>1. apply # Quiet /\ apply.v \in Versions /\ f = Order[apply.next]
    BY <1>5 DEF ApplyBacksUp, AtFile, CatalogInv, ApplyShape
  <2>2. CASE apply' = Settle(f, Row("err", apply.v))
    <3>1. Row("err", apply.v) \in RowSet
      BY <2>1 DEF Row, RowSet
    <3> QED BY <2>1, <2>2, <3>1, <1>3
  <2>3. CASE apply' # Settle(f, Row("err", apply.v))
    <3>1. PICK kept : kept = IF Local(f) = NoFile THEN {} ELSE {<<f, Local(f)>>}
      OBVIOUS
    <3>2. apply' = [apply EXCEPT !.at = "write", !.kept = kept]
      BY <1>5, <2>3, <3>1 DEF ApplyBacksUp
    <3>3. DOMAIN apply = ApplyFields
      BY <2>1, <1>a
    <3>4. /\ apply'.at = "write" /\ apply'.next = apply.next /\ apply'.mode = apply.mode
          /\ apply'.kept = kept
      BY <3>2, <3>3 DEF ApplyFields
    <3> QED BY <2>1, <3>1, <3>4
  <2> QED BY <2>2, <2>3
<1>6. CASE ApplyWrites
  <2>1. apply # Quiet /\ Order[apply.next] \in Files /\ apply.v \in Versions
    BY <1>6, RowNames DEF ApplyWrites, CatalogInv, ApplyShape
  <2>2. PICK f \in Files : f = Order[apply.next]
    BY <2>1
  <2>3. PICK ok \in RowSet, err \in RowSet : ok = Row("ok", apply.v) /\ err = Row("err", apply.v)
    BY <2>1 DEF Row, RowSet
  <2>4. PICK s : s = Settle(f, ok)
    OBVIOUS
  <2>5. apply' = [s EXCEPT !.lists = @ \/ f = "list"] \/ apply' = Settle(f, err)
    BY <1>6, <2>2, <2>3, <2>4 DEF ApplyWrites
  <2>6. DOMAIN s = ApplyFields /\ s.at = "files" /\ s.mode = apply.mode
    BY <1>a, <2>1, <2>4, RowSettled DEF CatalogInv
  <2>8. CASE apply' = [s EXCEPT !.lists = @ \/ f = "list"]
    BY <2>1, <2>6, <2>8 DEF ApplyFields
  <2> QED BY <2>1, <2>2, <2>3, <2>5, <2>8, <1>3
<1>7. CASE ApplySyncs
  BY <1>7, <1>a DEF ApplySyncs, ApplyFields
<1>8. CASE ApplyStores \/ CatalogDies
  BY <1>8 DEF ApplyStores, CatalogDies
<1>9. CASE CheckSteps
  BY <1>9 DEF CheckSteps, CheckLooks, CheckTakes, CheckRefused, CheckShows, CheckCompares,
     CheckStores, CheckFails
<1>10. CASE \/ Publishes \/ EditsList \/ CatalogStarts \/ ApplyTakes
            \/ (\E ids \in Wishes : ApplyLooks(ids)) \/ (\E m \in Modes : SetsMode(m))
  BY <1>10 DEF Publishes, EditsList, CatalogStarts, ApplyTakes, ApplyLooks, SetsMode
<1>11. CASE UNCHANGED catVars \/ UNCHANGED <<lockVars, listVars, catVars>>
  BY <1>11 DEF catVars
<1> QED
  BY <1>1, <1>2, <1>4, <1>5, <1>6, <1>7, <1>8, <1>9, <1>10, <1>11
  DEF CatalogNext, CatalogSteps, ApplySteps

\* The mode is kept by every step of the catalogue and of the list.
LEMMA ModeHeldInductive ==
  ASSUME CatalogInv, ModeHeld, mode \in Modes,
         [CatalogNext]_<<lockVars, listVars, catVars>>
  PROVE  ModeHeld'
<1> SUFFICES ASSUME apply' # Quiet  PROVE apply'.mode \in Modes
  BY DEF ModeHeld
<1> QED
  BY ApplyPaths DEF ModeHeld

\* An apply that writes moves on.
LEMMA WritesMoveOn ==
  ASSUME CatalogInv, ApplyWrites  PROVE apply' # apply
<1>1. apply # Quiet /\ apply.at = "write" /\ Order[apply.next] \in Files /\ apply.v \in Versions
  BY RowNames DEF ApplyWrites, CatalogInv, ApplyShape
<1>2. PICK ok \in RowSet, err \in RowSet : ok = Row("ok", apply.v) /\ err = Row("err", apply.v)
  BY <1>1 DEF Row, RowSet
<1>3. PICK g \in Files : g = Order[apply.next]
  BY <1>1
<1>4. PICK s : s = Settle(g, ok)
  OBVIOUS
<1>5. apply' = [s EXCEPT !.lists = @ \/ g = "list"] \/ apply' = Settle(g, err)
  BY <1>2, <1>3, <1>4 DEF ApplyWrites
<1>6. s.at = "files" /\ Settle(g, err).at = "files" /\ DOMAIN s = DOMAIN apply
  BY <1>1, <1>2, <1>3, <1>4, RowSettled DEF CatalogInv
<1>7. "at" \in DOMAIN apply
  BY <1>1 DEF CatalogInv, ApplyShape, ApplyFields
<1>8. apply'.at = "files"
  BY <1>5, <1>6, <1>7
<1> QED  BY <1>1, <1>8

\* What a compared file has changes only by the writes of an apply and by an editor
\* that keeps off an apply under way.
LEMMA LocalStays ==
  ASSUME CatalogInv, [CatalogNext]_<<lockVars, listVars, catVars>>,
         apply # Quiet, apply.at = "write", apply' = apply, NEW f \in Compared
  PROVE  Local(f)' = Local(f)
<1>1. ~ApplyWrites
  BY WritesMoveOn
<1>2. service' = service /\ disk' = disk
  <2>1. CASE CheckSteps
    BY <2>1 DEF CheckSteps, CheckLooks, CheckTakes, CheckRefused, CheckShows, CheckCompares,
       CheckStores, CheckFails, listVars
  <2>2. CASE ApplySteps
    BY <1>1, <2>2 DEF ApplySteps, ApplyLooks, ApplyTakes, ApplyBegins, ApplyFetches, ApplySkips,
                      ApplyBacksUp, ApplySyncs, ApplyStores, listVars
  <2>3. CASE Publishes \/ EditsList \/ CatalogStarts \/ CatalogDies \/ \E m \in Modes : SetsMode(m)
    BY <2>3 DEF Publishes, EditsList, CatalogStarts, ListsStart, CatalogDies, ListsDie, SetsMode,
                SetMode, listVars
  <2>4. CASE (TestSteps \/ ApplyMode \/ EditSubnets \/ HealAtStart) /\ UNCHANGED catVars
    BY <2>4 DEF TestSteps, TestBegins, TestHeals, TestBacksUp, TestEmpties, TestRuns, TestEnds,
         TestRestores, ApplyMode, EditSubnets, HealAtStart, catVars
  <2>5. CASE UNCHANGED <<lockVars, listVars, catVars>>
    BY <2>5 DEF listVars, catVars
  <2> QED
    BY <2>1, <2>2, <2>3, <2>4, <2>5 DEF CatalogNext, CatalogSteps
<1> QED  BY <1>2 DEF Local, Compared

\* The copy is kept.
LEMMA CopyHeldInductive ==
  ASSUME CatalogInv, CopyHeld, [CatalogNext]_<<lockVars, listVars, catVars>>
  PROVE  CopyHeld'
<1> SUFFICES ASSUME apply' # Quiet, apply'.at = "write", NEW f \in Compared, f = Order[apply'.next],
                    Local(f)' # NoFile
             PROVE  <<f, Local(f)'>> \in apply'.kept
  BY DEF CopyHeld
<1>1. CASE apply' = apply
  BY <1>1, LocalStays DEF CopyHeld
<1>2. ASSUME NEW g \in Files, ApplyBacksUp(g), g = Order[apply'.next],
             Local(g) # NoFile => <<g, Local(g)>> \in apply'.kept
      PROVE  <<f, Local(f)'>> \in apply'.kept
  <2>1. g = f /\ Local(f)' = Local(f)
    BY <1>2 DEF ApplyBacksUp, Local, listVars
  <2> QED  BY <1>2, <2>1
<1> QED
  BY <1>1, <1>2, ApplyPaths

\* What is written over is what the apply has come to.
LEMMA WritesOver ==
  ASSUME CatalogInv, ApplyWrites, NEW f \in Compared, Local(f)' # Local(f)
  PROVE  f = Order[apply.next] /\ apply # Quiet /\ apply.at = "write"
<1>1. disk \in [{"bat", "list"} -> Versions \cup {NoFile, Mine}]
  BY DEF CatalogInv, CatalogTyped
<1>2. PICK g : g = Order[apply.next]
  OBVIOUS
<1>3. PICK new : new = Bytes(g, apply.v)
  OBVIOUS
<1>4. /\ apply # Quiet /\ apply.at = "write"
      /\ \/ /\ disk' = IF g \in DOMAIN disk THEN [disk EXCEPT ![g] = new] ELSE disk
            /\ service' = IF g = "svc" THEN new ELSE service
         \/ UNCHANGED <<disk, service>>
  BY <1>2, <1>3 DEF ApplyWrites
<1>7. CASE f = "svc"
  BY <1>2, <1>4, <1>7 DEF Local
<1>8. CASE f \in {"bat", "list"}
  BY <1>1, <1>2, <1>4, <1>8 DEF Local
<1> QED  BY <1>4, <1>7, <1>8 DEF Compared

\* The list keeps its type beside the catalogue, too.
LEMMA CatalogListsTyped ==
  ASSUME CatalogInv, ModeHeld, ListsTypeOK, [CatalogNext]_<<lockVars, listVars, catVars>>
  PROVE  ListsTypeOK'
<1>1. CASE ListsNext \/ UNCHANGED <<lockVars, listVars>>
  BY <1>1, ListsTypeInductive
<1>2. CASE CheckSteps
  <2>1. UNCHANGED listVars /\ LockTypeOK'
    <3>1. ASSUME NEW op \in Operations, TryOps(op) \/ ShowsOp(op) \/ DropOps(op)  PROVE LockTypeOK'
      BY <3>1, Truths DEF ListsTypeOK, LockTypeOK, TryOps, ShowsOp, DropOps, Operations, Free
    <3>2. ASSUME TryBusy \/ DropBusy \/ UNCHANGED lockVars  PROVE LockTypeOK'
      BY <3>2, Truths DEF ListsTypeOK, LockTypeOK, TryBusy, DropBusy, lockVars
    <3>3. "check" \in Operations
      BY DEF Operations
    <3> QED
      BY <1>2, <3>1, <3>2, <3>3 DEF CheckSteps, CheckLooks, CheckTakes, CheckRefused, CheckShows,
         CheckCompares, CheckStores, CheckFails, CheckDone
  <2> QED  BY <2>1 DEF ListsTypeOK, listVars
<1>3. CASE ApplyTakes \/ ApplyBegins \/ (\E ids \in Wishes : ApplyLooks(ids))
  <2>1. TryOps("apply") \/ ShowsOp("apply") \/ UNCHANGED lockVars
    BY <1>3 DEF ApplyTakes, ApplyBegins, ApplyLooks
  <2>2. LockTypeOK'
    BY <2>1, Truths DEF ListsTypeOK, LockTypeOK, TryOps, ShowsOp, Operations, Free, lockVars
  <2>3. UNCHANGED listVars
    BY <1>3 DEF ApplyTakes, ApplyBegins, ApplyLooks
  <2> QED  BY <2>2, <2>3 DEF ListsTypeOK, listVars
<1>4. CASE ApplyFetches \/ (\E f \in Files : ApplySkips(f) \/ ApplyBacksUp(f))
  <2>1. UNCHANGED <<lockVars, listVars>>
    BY <1>4 DEF ApplyFetches, ApplySkips, ApplyBacksUp
  <2> QED  BY <2>1, ListsTypeInductive
<1>5. CASE ApplyWrites
  <2>1. apply.v \in Versions /\ Order[apply.next] \in Files
    BY <1>5, RowNames DEF ApplyWrites, CatalogInv, ApplyShape
  <2>2. PICK new : new = Bytes(Order[apply.next], apply.v)
    OBVIOUS
  <2>3. Order[apply.next] = "ipset" => new \in Contents
    <3>1. \A u \in BOOLEAN : Loaded(apply.v, u) \in Contents
      BY <2>1 DEF Contents
    <3>2. FALSE \in BOOLEAN
      OBVIOUS
    <3>3. Loaded(apply.v, FALSE) \in Contents
      BY <3>1, <3>2, Zenon
    <3> QED  BY <2>2, <3>3 DEF Bytes
  <2>4. Order[apply.next] # "ipset" => new \in Versions
    BY <2>1, <2>2 DEF Bytes
  <2>5. service' \in Versions \cup {NoFile}
    BY <1>5, <2>2, <2>4 DEF ApplyWrites, ListsTypeOK
  <2>6. live' \in Contents /\ base' \in Contents /\ late' \in BOOLEAN
    BY <1>5, <2>2, <2>3 DEF ApplyWrites, ListsTypeOK, Lent, IsFile
  <2> QED
    BY <1>5, <2>5, <2>6 DEF ApplyWrites, lockVars, ListsTypeOK, LockTypeOK
<1>6. CASE ApplySyncs
  <2>1. CASE UNCHANGED <<live, base, late>>
    BY <1>6, <2>1 DEF ApplySyncs, lockVars, ListsTypeOK, LockTypeOK
  <2>2. CASE Sync(apply.mode)
    <3>1. apply.mode \in Modes
      BY <1>6 DEF ApplySyncs, ModeHeld
    <3>2. live' \in Contents /\ base' \in Contents /\ late' \in BOOLEAN
      BY <2>2, <3>1, SyncType
    <3> QED
      BY <1>6, <3>2 DEF ApplySyncs, lockVars, ListsTypeOK, LockTypeOK
  <2> QED  BY <1>6, <2>1, <2>2 DEF ApplySyncs
<1>7. CASE ApplyStores
  <2>1. DropOps("apply") /\ UNCHANGED listVars
    BY <1>7 DEF ApplyStores
  <2>2. LockTypeOK'
    BY <2>1, Truths DEF ListsTypeOK, LockTypeOK, DropOps, Free
  <2> QED  BY <2>1, <2>2 DEF ListsTypeOK, listVars
<1>8. CASE Publishes \/ EditsList
  <2>1. UNCHANGED <<lockVars, listVars>>
    BY <1>8 DEF Publishes, EditsList
  <2> QED  BY <2>1, ListsTypeInductive
<1>9. CASE CatalogStarts \/ CatalogDies
  BY <1>9, ListsTypeInductive DEF CatalogStarts, CatalogDies, ListsNext
<1>10. CASE \/ (TestSteps \/ ApplyMode \/ EditSubnets \/ HealAtStart) /\ UNCHANGED catVars
            \/ \E m \in Modes : SetsMode(m)
  BY <1>10, ListsTypeInductive DEF ListsNext, SettingsSteps, SetsMode
<1>11. CASE UNCHANGED <<lockVars, listVars, catVars>>
  BY <1>11, ListsTypeInductive
<1> QED
  BY <1>1, <1>2, <1>3, <1>4, <1>5, <1>6, <1>7, <1>8, <1>9, <1>10, <1>11
  DEF CatalogNext, CatalogSteps, ApplySteps

\* The invariant of catalogue and list together.
CatalogAll == CatalogInv /\ ModeHeld /\ ListsTypeOK

\* It holds at first, and every step keeps it.
LEMMA CatalogAllInductive ==
  /\ ListsInit /\ CatalogInit => CatalogAll
  /\ CatalogAll /\ [CatalogNext]_<<lockVars, listVars, catVars>> => CatalogAll'
<1>1. ListsInit /\ CatalogInit => CatalogAll
  BY CatalogInvInit, ListsTypeInit DEF CatalogAll, ModeHeld, CatalogInit
<1>2. CatalogAll /\ [CatalogNext]_<<lockVars, listVars, catVars>> => CatalogAll'
  BY CatalogInvInductive, ModeHeldInductive, CatalogListsTyped DEF CatalogAll, ListsTypeOK
<1> QED  BY <1>1, <1>2

\* No apply replaces the strategies, a list other than ipset-all.txt or the service's
\* list without having copied what it replaces first, whatever goes on beside it and
\* whichever copies and writes fail (apply_entries, backup).
THEOREM OverwriteKeeps == CatalogSpec => OverwriteKept
<1>1. ListsInit /\ CatalogInit => CatalogAll /\ CopyHeld
  BY CatalogAllInductive DEF CopyHeld, CatalogInit
<1>2. CatalogAll /\ CopyHeld /\ [CatalogNext]_<<lockVars, listVars, catVars>>
      => (CatalogAll /\ CopyHeld)'
  BY CopyHeldInductive, CatalogAllInductive DEF CatalogAll
<1>3. CatalogAll /\ CopyHeld =>
        [\A f \in {"bat", "list", "svc"} :
           ApplyWrites /\ Local(f)' # Local(f) /\ Local(f) # NoFile
             => <<f, Local(f)>> \in apply.kept]_<<catVars, listVars>>
  <2> SUFFICES ASSUME CatalogAll, CopyHeld, NEW f \in Compared, ApplyWrites, Local(f)' # Local(f),
                      Local(f) # NoFile
               PROVE  <<f, Local(f)>> \in apply.kept
    BY DEF Compared
  <2>1. f = Order[apply.next] /\ apply # Quiet /\ apply.at = "write"
    BY WritesOver DEF CatalogAll
  <2> QED  BY <2>1 DEF CopyHeld
<1> QED  BY <1>1, <1>2, <1>3, PTL DEF CatalogSpec, OverwriteKept

----------------------------------------------------------------------------
(* The parts together.                                                         *)

\* In its scope a part has its invariant; in another it rests as it began, and its
\* operations do not hold the lock.
AppInv ==
  /\ ListsTypeOK /\ StartupTypeOK /\ scope \in Scopes
  /\ scope = "catalog" => CatalogInv /\ ModeHeld
  /\ scope # "catalog" => CatalogInit /\ ops \notin {"apply", "check"} /\ busy = FALSE
  /\ scope = "service" => ServiceInv
  /\ scope # "service" => ServiceInit /\ ops # "service"

\* A part that rests is well-typed.
LEMMA RestTyped ==
  /\ CatalogInit /\ ops \notin {"apply", "check"} /\ busy = FALSE => CatalogTypeOK
  /\ ServiceInit /\ ops # "service" => ServiceTypeOK
<1>1. ASSUME CatalogInit, ops \notin {"apply", "check"}, busy = FALSE  PROVE CatalogTypeOK
  BY <1>1, CatalogAssumption
  DEF CatalogInit, CatalogTypeOK, BuiltinPresets, NoClick, AtRest, Check, Askers
<1>2. ASSUME ServiceInit, ops # "service"  PROVE ServiceTypeOK
  <2> DEFINE S == {Absent} \cup [state : {"stopped", "running"}, strat : Profiles \cup {NoProfile}]
  <2>1. sys \in S /\ card \in S /\ watch.card \in S /\ watch.found \in S
    BY <1>2 DEF ServiceInit, State, Absent, Asleep
  <2>2. autostart \in Profiles \cup {NoProfile}
    BY <1>2 DEF ServiceInit, State, Absent
  <2>3. boot \in BOOLEAN /\ task \in BOOLEAN /\ unsettled \in BOOLEAN
    BY <1>2, Truths DEF ServiceInit
  <2>4. starting \in {"on", "off", "done"} /\ (ops = "service" <=> cmd # Idle)
    BY <1>2 DEF ServiceInit
  <2> HIDE DEF S
  <2> QED  BY <2>1, <2>2, <2>3, <2>4 DEF ServiceTypeOK, S
<1> QED  BY <1>1, <1>2

\* The invariant has the types.
LEMMA AppInvImplies == AppInv => AppTypeOK
<1>1. ASSUME CatalogInv  PROVE CatalogTypeOK
  <2>1. \A f \in DOMAIN disk : disk[f] \in Versions \cup {NoFile, Mine}
    BY <1>1 DEF CatalogInv, CatalogTyped
  <2>2. /\ ops = "apply" <=> click.at = "taken" \/ apply # Quiet
        /\ ops = "check" <=> check["hand"].at \in {"taken", "compare", "store"}
        /\ busy <=> check["watcher"].at \in {"compare", "store"}
    BY <1>1 DEF CatalogInv, Exclusive
  <2> QED  BY <1>1, <2>1, <2>2 DEF CatalogInv, CatalogTyped, CatalogTypeOK
<1>2. ServiceInv => ServiceTypeOK
  BY DEF ServiceInv, ServiceTyped, ServiceTypeOK, ServiceStates
<1> QED
  BY <1>1, <1>2, RestTyped DEF AppInv, AppTypeOK

\* It holds at first.
LEMMA AppInvInit == MCInit => AppInv
<1> SUFFICES ASSUME MCInit  PROVE AppInv
  OBVIOUS
<1>1. ListsInit /\ CatalogInit /\ ServiceInit /\ StartupInit /\ scope \in Scopes
  BY DEF MCInit
<1>2. LockInit /\ ops = Free /\ busy = FALSE
  BY <1>1 DEF ListsInit, LockInit
<1>3. CatalogInv /\ ModeHeld /\ ListsTypeOK
  BY <1>1, CatalogAllInductive DEF CatalogAll
<1>4. ServiceInv /\ StartupTypeOK
  BY <1>1, <1>2, ServiceInvInit, StartupTypeInit
<1> QED  BY <1>1, <1>2, <1>3, <1>4 DEF AppInv, Free

\* What a step of one part leaves alone stays at rest.
LEMMA CatalogRests ==
  ASSUME CatalogInit, UNCHANGED catVars  PROVE CatalogInit'
BY DEF CatalogInit, catVars

\* So does the service,
LEMMA ServiceRests ==
  ASSUME ServiceInit, UNCHANGED svcVars  PROVE ServiceInit'
BY DEF ServiceInit, svcVars

\* and so do the launches.
LEMMA StartupRests ==
  ASSUME StartupTypeOK, UNCHANGED startVars  PROVE StartupTypeOK'
BY StartupTypeInductive

\* Each part takes the lock for its own operations only, and drops it.
LEMMA ListsLock ==
  ASSUME ListsNext  PROVE ops' \in {ops, "test", Free} /\ busy' \in {busy, FALSE}
BY DEF ListsNext, TestSteps, TestBegins, TestHeals, TestBacksUp, TestEmpties, TestRuns, TestEnds,
       TestRestores, SettingsSteps, SetMode, ApplyMode, EditSubnets, ListsStart, HealAtStart,
       ListsDie, TakesOps, DropOps, LockDies, LockStarts, lockVars

\* The service takes it for its commands,
LEMMA ServiceLock ==
  ASSUME ServiceNext
  PROVE  \/ UNCHANGED lockVars
         \/ up' \in BOOLEAN /\ UNCHANGED <<ops, shown, busy>>
         \/ ops' = "service" /\ shown' = TRUE /\ UNCHANGED <<up, busy>>
         \/ ops' = Free /\ shown' = FALSE /\ up' \in {up, FALSE} /\ busy' \in {busy, FALSE}
<1>1. CASE ServiceBegins
  BY <1>1 DEF ServiceBegins, InstallBegins, SwitchBegins, RemoveBegins, ResetBegins, Begins, TakesOps
<1>2. CASE ServiceWorks
  BY <1>2 DEF ServiceWorks, StopsAll, DeletesOld, CreatesNew, NamesStrategy, InstallStores,
     SetsTask, RemovesService, RemoveStores, ResetRuns, ResetSyncs, Goes, Ends, DropOps, lockVars
<1>3. CASE Watches \/ SyncsTask \/ SystemChanges
  BY <1>3 DEF Watches, WatchReads, WatchAsks, WatchWrites, SyncsTask, SystemChanges, lockVars
<1>4. CASE ServiceStarts
  BY <1>4, Truths DEF ServiceStarts, LockStarts
<1>5. CASE ServiceDies
  BY <1>5 DEF ServiceDies, LockDies
<1> QED  BY <1>1, <1>2, <1>3, <1>4, <1>5 DEF ServiceNext

\* the catalogue for checks and applies, or a test of the list.
LEMMA CatalogLock ==
  ASSUME CatalogNext  PROVE ops' \in {ops, "test", "apply", "check", Free}
<1>1. CASE CheckSteps
  BY <1>1 DEF CheckSteps, CheckLooks, CheckTakes, CheckRefused, CheckShows, CheckCompares,
     CheckStores, CheckFails, CheckDone, lockVars, TryOps, ShowsOp, TryBusy, DropOps, DropBusy
<1>2. CASE ApplySteps
  BY <1>2 DEF ApplySteps, ApplyLooks, ApplyTakes, ApplyBegins, ApplyFetches, ApplySkips,
     ApplyBacksUp, ApplyWrites, ApplySyncs, ApplyStores, lockVars, TryOps, ShowsOp, DropOps
<1>3. CASE Publishes \/ EditsList
  BY <1>3 DEF Publishes, EditsList, lockVars
<1>4. CASE \/ CatalogStarts \/ CatalogDies \/ TestSteps \/ ApplyMode \/ EditSubnets \/ HealAtStart
           \/ \E m \in Modes : SetsMode(m)
  BY <1>4, ListsLock DEF CatalogStarts, CatalogDies, ListsNext, SettingsSteps, SetsMode
<1> QED  BY <1>1, <1>2, <1>3, <1>4 DEF CatalogNext, CatalogSteps

\* The part of the run is a step of the module it is about.
LEMMA CatalogPartIs == CatalogPart => CatalogNext
<1>1. SomeWishes \subseteq Wishes
  BY RowNames DEF SomeWishes, Wishes
<1>2. \A m \in {"loaded", "none"} : m \in Modes
  BY DEF Modes
<1> QED
  BY <1>1, <1>2 DEF CatalogPart, CatalogNext, CatalogSteps, CheckSteps, ApplySteps

\* So is the service's,
LEMMA ServicePartIs == ServicePart => ServiceNext
BY DEF ServicePart, ServiceNext

\* and that of the launches.
LEMMA StartupPartIs == StartupPart => StartupNext
BY DEF StartupPart, StartupNext, StartupStep

\* Every step of the run keeps the invariant.
LEMMA AppInvInductive == AppInv /\ [MCNext]_mcVars => AppInv'
<1> SUFFICES ASSUME AppInv, [MCNext]_mcVars  PROVE AppInv'
  OBVIOUS
<1>0. CASE UNCHANGED mcVars
  <2>1. UNCHANGED <<lockVars, listVars, catVars, svcVars, startVars, scope>>
    BY <1>0 DEF mcVars
  <2>2. UNCHANGED <<ops, busy>>
    BY <2>1 DEF lockVars
  <2>3. ListsTypeOK' /\ StartupTypeOK'
    BY <2>1, ListsTypeInductive, StartupTypeInductive DEF AppInv
  <2>4. scope = "catalog" => (CatalogInv /\ ModeHeld)'
    BY <2>1, CatalogAllInductive DEF AppInv, CatalogAll
  <2>5. scope = "service" => ServiceInv'
    BY <2>1, ServiceInvInductive DEF AppInv
  <2> QED  BY <2>1, <2>2, <2>3, <2>4, <2>5, CatalogRests, ServiceRests DEF AppInv
<1>1. CASE ListsPart
  <2>1. /\ scope = "lists" /\ scope' = scope /\ ListsNext
        /\ UNCHANGED catVars /\ UNCHANGED svcVars /\ UNCHANGED startVars
    BY <1>1 DEF ListsPart, In
  <2>2. ListsTypeOK' /\ StartupTypeOK'
    BY <2>1, ListsTypeInductive, StartupRests DEF AppInv
  <2>3. CatalogInit' /\ ServiceInit'
    BY <2>1, CatalogRests, ServiceRests DEF AppInv
  <2> QED  BY <2>1, <2>2, <2>3, ListsLock DEF AppInv, Free
<1>2. CASE CatalogPart
  <2>1. /\ scope = "catalog" /\ scope' = scope /\ CatalogNext
        /\ UNCHANGED svcVars /\ UNCHANGED startVars
    BY <1>2, CatalogPartIs DEF CatalogPart, In
  <2>2. (CatalogInv /\ ModeHeld /\ ListsTypeOK)'
    BY <2>1, CatalogAllInductive DEF AppInv, CatalogAll
  <2>3. StartupTypeOK' /\ ServiceInit'
    BY <2>1, StartupRests, ServiceRests DEF AppInv
  <2> QED  BY <2>1, <2>2, <2>3, CatalogLock DEF AppInv, Free
<1>3. CASE ServicePart
  <2>1. /\ scope = "service" /\ scope' = scope /\ ServiceNext
        /\ UNCHANGED listVars /\ UNCHANGED catVars /\ UNCHANGED startVars
    BY <1>3, ServicePartIs DEF ServicePart, In
  <2>2. ServiceInv'
    BY <2>1, ServiceInvInductive DEF AppInv
  <2>3. StartupTypeOK' /\ CatalogInit'
    BY <2>1, StartupRests, CatalogRests DEF AppInv
  <2>4. LockTypeOK'
    BY <2>1, ServiceLock, Truths DEF AppInv, ListsTypeOK, LockTypeOK, Operations, Free, lockVars
  <2>5. ListsTypeOK'
    BY <2>1, <2>4 DEF AppInv, ListsTypeOK, listVars
  <2>6. ops' \in {ops, "service", Free} /\ busy' \in {busy, FALSE}
    BY <2>1, ServiceLock DEF lockVars
  <2> QED  BY <2>1, <2>2, <2>3, <2>5, <2>6 DEF AppInv, Free
<1>4. CASE StartupPart
  <2>1. /\ scope = "startup" /\ scope' = scope /\ StartupNext
        /\ UNCHANGED lockVars /\ UNCHANGED listVars /\ UNCHANGED catVars /\ UNCHANGED svcVars
    BY <1>4, StartupPartIs DEF StartupPart, In
  <2>2. StartupTypeOK' /\ CatalogInit' /\ ServiceInit'
    BY <2>1, StartupTypeInductive, CatalogRests, ServiceRests DEF AppInv
  <2>3. ListsTypeOK'
    BY <2>1, ListsTypeInductive DEF AppInv
  <2> QED  BY <2>1, <2>2, <2>3 DEF AppInv, lockVars
<1> QED  BY <1>0, <1>1, <1>2, <1>3, <1>4 DEF MCNext

\* The parts that share the lock are well-typed together: it is held exactly as long
\* as the operation that took it (OpsGuard, BusyGuard).
THEOREM AppTyped == MCSpec => []AppTypeOK
BY AppInvInit, AppInvInductive, AppInvImplies, PTL DEF MCSpec
=============================================================================
