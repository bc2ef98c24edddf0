# TLA+ models of Z-GUI

Z-GUI is a Windows desktop program (Rust and Tauri) that starts and stops traffic engines (`winws` and others), tests
their strategies, keeps them up to date, and carries a Telegram bridge (`crates/tg-ws-proxy-rs`), a local MTProto proxy
that talks to Telegram over WebSockets. This directory models the parts of it where processes, threads, tasks and files
meet, checks the models with TLC and proves theorems about them with TLAPS.

Paths below are relative to `src/src-tauri/`: `app/` is `src/`, `bridge/` is `crates/tg-ws-proxy-rs/src/`.

    tlc -workers 2 -config MCWsPool.cfg WsPool.tla          # a run: see PROJECT.json for module and cfg of each
    tlapm WsPoolProofs.tla                                  # a proof module

## 1. Inventory

| Component | State | Operations | Meets | What is hard | What makes it correct |
|---|---|---|---|---|---|
| **Direct pool** `bridge/pool.rs` | idle connections per (dc, media), `refilling`, `refill_failures`, `refill_after`, each under its own mutex | get, schedule / reserve / run a refill, report success and failure, warmup, maintain | clients (`proxy.rs`), two background tasks, spawned refills | four mutexes, detached tasks, counts used after a long dial, backoff | one refill per bucket; socket budget; no bucket forgotten; a success forgets failures |
| **Cloudflare pool** same file | `cf_idle`, `cf_refilling` | cf_get, cf_prefetch, refill | routing | spare dials with the domain of an old hit | one spare per key; dials names that exist |
| **Routing and clients** `bridge/proxy.rs` | process-wide cooldowns, balance counters, per-client tasks | select upstream, direct, Worker, CF proxy, upstream MTProto, fallback, fronting, two copy halves | pool, runtime, stats | sticky decisions shared by all clients; half-closed bridges | every live upstream is tried; both halves end |
| **Bridge server** `bridge/server.rs`, `limits.rs` | listener, permits, JoinSets | bind, accept, rebind, shutdown | all of the above | failing accepts, shutdown at any point, descriptor budget | shutdown ends everything; permits come back |
| **Runtime and domain list** `bridge/runtime.rs`, `default_domains.rs` | live CF domains, fronting until | replace, refresh every hour | routing | list replaced under running connections | a failed refresh keeps the last good list |
| **Dialling** `bridge/ws_client.rs`, `outbound/` | attempt plan | connect with timeouts and redirects | pool, routing | which attempt's error counts | every candidate once |
| **Framing** `bridge/splitter.rs` | partial packet | push bytes, flush | client tasks | boundaries at arbitrary cuts | same packets however the stream is cut |
| **Crypto, FakeTLS, configuration, probes, counters** | - | - | - | sequential | - |
| **Bridge switch** `app/telegram.rs` | `shutdown`, `listen`, `error`, `epoch`, `done_rx` under one mutex | start (two locks and two waits), stop, status, the server task's end | interface, autostart, server | waits between locks, ends that arrive late | status tells the truth; a stop stops; a start returns |
| **Strategy test** `app/lib.rs`, `app/tester.rs` | `testing`, `test_epoch`, OPS, flag, pid and progress files, results cache | start a test, poll, cancel, runner process | engine start and stop, watcher, runner | two processes, three threads, files as messages, cancel without a lock, runners that die | one engine at a time; no orphan; results kept; engine given back |
| **Engine start/stop** `app/lib.rs`, `app/runner.rs` | `runtime`, processes, driver | do_start, do_stop, stop_all_own, maintenance_sweep | test, watcher, service | processes end by themselves, sweeps without a lock | never two engines |
| **Watcher** `app/lib.rs` | what it saw last | forget a dead engine, sweep, anticheat pause, auto-check | all | acts on what it saw seconds ago | never disturbs an operation |
| **ipset list** `app/tester.rs`, `app/updater.rs` | live file, backup, mode | activate "any", restore, heal, sync | test, settings, startup | crash between copies | the user's list survives |
| **Operation lock** `app/lib.rs` | OPS, indicator, busy flag | try, drop with the guard | every long operation | guards that move into threads | held exactly as long as the operation |
| **Service, boot task** `app/service.rs`, `app/runner.rs` | installed, running, strategy, task | install, remove, switch, reset, refresh of the card | start, test, watcher | partial failure of command sequences, answers older than what they overwrite | state shown comes to be the system's; the task follows its setting |
| **Updates** `app/updater.rs`, `app/lib.rs` | catalogue rows, strategies, presets and their stamp | check, download, apply, reload | OPS, watcher, ipset list | one file of many failing; exit in the middle | nothing overwritten without a copy; the catalogue tells of what is there |
| **Settings and storage** `app/config.rs` | `state.json`, temporary files | load, save, atomic_write | all | crash between the steps, a file that cannot be read | a whole state, old or new |
| **Start of processes** `app/lib.rs`, `app/service.rs` | `zgui.lock`, process list | load, relaunch with rights, look at the lock, end the others | storage | several launches at once, a pid given away again | one copy goes on |
| **DNS, diagnostics, profiles, presets, logging, texts, interface, scripts** | - | system commands, parsing, wording | - | - | - |

The interplay: every command that changes engines takes the process-wide lock OPS (`app/lib.rs:13`), answers
"another operation is running" when it is held, and shows itself through an indicator. A strategy test carries the lock
into a thread and works through a second process that it can only reach by files. The watcher thread acts every few seconds on
what it sees. The bridge is independent of OPS: it lives on the async runtime, with one server task per start.

The hazards are in `PROJECT.json`, each at its line, with the properties that watch it.

## 2. Plan

Everything below exists; what is left is at the end.

1. `WsPool`, `RefillLease`, `WsPoolProofs`: the direct pool, its abstract specification and theorems.
2. `StrategyTest`, `StrategyTestProofs`: test, cancel, start, stop, watcher, runner.
3. `TgBridge`, `TgBridgeProofs`: the bridge's switch and its server tasks.
4. `AppLock`, `IpsetList`: the lock of long operations, and `ipset-all.txt` with its backup.
5. `UpdateCatalog` (extends `IpsetList`), `ServiceSwitch` (extends `AppLock`), `Startup`;
   `MCApp` composes them. `StorageProofs` has the theorems about `IpsetList` and `Startup`, `AppProofs` those about the other two and the composition.
6. `CfPool`, `Routing`, `BridgeServer`, `CfDial`, `Splitter`; `MCBridge` composes them. `RouteProofs` has the theorems about `Routing` and `CfDial`,
   `SplitProofs` those about `Splitter`, `BridgeProofs` those about the other two and the composition.

Left for later: the choice of the first domain (balance) and the hourly refresh of the domain list.

Parameters are CONSTANTS with a named assumption, one action stands for one critical section or one step visible to
others, and modules with theorems reach no RECURSIVE operator.

## 3. Modules

### WsPool (`bridge/pool.rs`)

Every mutex section is one action, so a task that locks two mutexes in turn (`report_success`, `reserve_refill`,
`report_refill_failure`) can be overtaken between them. `live` and `stale` count the connections of a bucket: order inside
a bucket is abstracted, and how many unusable ones a hit drops is a choice. `pc`, `at`, `conns` and `level` are locals of the
tasks; a task of `Task` is one spawned refill. `backoff` keeps the failure count its delay came from, so that "which
failures does this delay belong to" can be asked; time is the action `BackoffOver`. `Spoil` is the peer closing a
connection or its age running out. Clients are in the model as what they do to the pool: take, miss, or report a direct success.

`RefillLease` is what a refill promises: a lease per bucket, taken before its holder exists, returned when it ends, never held
twice. `LeaseSpec` instantiates it with the living tasks of each bucket.

### StrategyTest (`app/lib.rs`, `app/tester.rs`)

Actors: the polling thread with the command it comes from (`pc["test"]`), `cancel_test`, one start or stop by the user,
the watcher, and the runner process of each run. `flag`, `runPid` and `out` are the three files, `engines` the engine processes
alive, by owner. Each read of a file that decides something is an action apart from the write that follows. `had` is what the
test stopped and has to give back. `RunnerDies` is a crash or a kill from outside, at any point, with or without its engine.
A measurement and its repetition are one; all strategies are alike. `do_start` is three actions. `stop_all_own` is one: it answers as `do_stop`
does, which looks only at what `state` knows, and whatever it answers, other engines may be left, because what it could not end is only logged.
`withstood` is history: the engines that outlived the stop before the last start.

Taken as given, because the code rests on it and it is a matter of seconds against milliseconds:

- the program is elevated, so a kill succeeds (`app/lib.rs:1776`);
- a spawned runner reaches its first lines before another test can be asked for and accepted, and while it lives writes
  progress within the idle limit;
- a command is not held between its check for a test and the lock for as long as a test takes to prepare (`Locking`; the other half of the window,
  a test that begins or ends there, is in the model);
- the stop button is offered while the last progress event said running, and its dialog takes three seconds (`main.js:1203`);
- the thread's one file read between the head of its loop and `set_test` is shorter than a cancel's kill.

Without them TLC finds windows of milliseconds; they are in the list of hazards.

### TgBridge (`app/telegram.rs`, `bridge/server.rs`)

A server is its epoch. Its shutdown sender lives only in `Inner.shutdown`, so "told to stop" is `tx # s`, whether the
sender was used or dropped. Two callers: the toggle of the interface, and starts from elsewhere (autostart, the offer dialog);
stops come from the toggle. The server goes through bind, `on_listen`, serving, rebinding after repeated accept errors,
closing (clients shut down while the listener is still held) and its end under the lock. Another program may take the port
whenever it is free. `overlap` is a history variable: have two starts ever been under way together. The time limits of `start`
(5 s for the last server, 20 s for the bind) do not fire in the model.

### AppLock, IpsetList (`app/lib.rs`, `app/tester.rs`, `app/updater.rs`)

`AppLock` holds the process (`up`), OPS (`ops`: who has it), the indicator `shown` (`op_running`) and the busy flag. Taking OPS, raising the
indicator and taking the flag are operators of their own; the looks at them are in the actions of those who look. Only a check and an apply are looked at
between their two steps, by the watcher, so the other operations take OPS and raise the indicator at once (`TakesOps`).

`IpsetList` is the list the engine reads, as contents (empty, the stub of mode
"none", a version with or without the user's subnets, a stranger's, a copy cut short), and its `.test-backup`. The test goes
through heal, read and back up, empty, prepare, run, restore; `set_settings` saves the mode in one step and looks at the test in the
next, as the code releases the lock between them; the start-up thread heals in a step of its own. `ListsDie` can come at any step and
cut a copy short, and a copy that fails half-way in the living process can leave as much (`CutShort`). `base`, `late` and `torn` are history: what
`sync_ipset` or an update last put there, whether it did so while a test had the list, and whether a copy was cut.

`UpdateCatalog` shares the list: an update writes it as one of four files (the two lists, a strategy, another list), in
the order of the archive, each with a backup that can fail and a write that can fail. A check by hand looks at the busy flag, takes OPS, shows
itself, compares and stores, in five actions; one of the watcher looks at both flags, takes its own, compares and stores; an apply looks, takes, begins and works
on. A row is compared, and stored, with whatever has come since the look. `filed` is what `state.json` has of rows and presets: every save can fail, a
stamp too, and a start reads what was filed. `strays` are the files whose rows nobody can vouch for: changed by hand, by an apply that died, told by rows
that were not saved, or missed by a check of the watcher that looked before an apply had shown itself, while that apply had looked before the check had. A change of mode
(`SetsMode`, `ApplyMode`) goes on beside all of it. The catalogue's row of the preset set describes no file and is left out.

### ServiceSwitch (`app/lib.rs`, `app/service.rs`, `app/runner.rs`, `app/netreset.rs`)

`sys` is the service control manager, `card` what `state.json` says of it, `boot` the setting and `task` the scheduled task. The scripts
are taken apart where they can fail: delete, create and start, name the strategy, store, set the task. The watcher copies the card under the
lock, asks the system without it and compares what it heard with its copy, so its write can be older than what it overwrites.

### Startup (`app/lib.rs`, `app/config.rs`)

Processes are pids; a pid is used again by a later launch. `run` up to the loaded settings is one process's stages; a save is three steps
(temporary file made, whole, renamed), and a process can die or be ended between any two. Elevated and other processes save alike. A `tasklist` that fails shows
nobody and a `taskkill` that fails ends nobody; `spared` remembers, of the processes that are alive, who was let go on by whom.

### BridgeServer (`bridge/server.rs`, `bridge/proxy.rs`)

The accept loop (permit, accept, pause, listener dropped, ending) and for each connection the task (handshake, drain of a wrong secret,
route, dial, bridge) with the two directions of its bridge. The upload is a task of its own that the client's task holds by a
handle: an abort of the client detaches it, `join_bridge` aborts it. `gone` is a client that has vanished. A client whose task is connected to an upstream MTProto
proxy is in `upstream`: its handshake there has no time limit, so it ends or does not.

### Routing, CfDial (`bridge/proxy.rs`, `bridge/ws_client.rs`)

A walk is the list of routes still ahead; looking at a cooldown, dialling and recording the answer are separate steps, so other clients arm and
clear the shared cooldowns in between (`Elsewhere` stands for them too: any cooldown may end or be armed at any time). `CfDial` is one dial
of the walk: the names of a datacentre or of Cloudflare domains in rotation, with the base record tried out of turn when a `-1` record does not exist.

### CfPool (`bridge/pool.rs`), Splitter (`bridge/splitter.rs`)

`CfPool` is laid out like `WsPool` and implements the same `RefillLease`. `Splitter` takes the bytes of a stream in reads of any size;
payload bytes are their packet's number, so a payload taken for a header shows. A packet begins with any header that announces its length (`Headers`: long or short form,
with and without the request for an acknowledgement); a stream may end in a header of length zero and what follows it, or in one that announces too much.

## 4. Runs

| Run | What it shows | Bounds and why they are enough |
|---|---|---|
| `pool` | leases, budget, no overfill, guards released, buckets replenished | one bucket (buckets share nothing but the warmup limit), two clients, two task identities (a third could only wait), pool size 2 so that a partial batch exists, failures saturate at 2 |
| `pool_backoff_race` | **violated**: a success can leave a backoff armed | one client, pool size 1 |
| `strategy` | engines exclude each other but those a stop could not end, no orphan measures, complete results are saved, a cancel frees the lock, the user spares a test | two runs (one old, one new runner), one strategy each |
| `strategy_hang` | **violated**: a runner that dies after its first progress is waited for for ever | one run |
| `strategy_cancel` | **violated**: a cancelled test does not give the engine back | one run |
| `strategy_sweep` | **violated**: the watcher's sweep ends a test's engine | one run |
| `bridge` | status tells the truth, quick restart finds the port free, stopped servers end, starts return | two callers, four starts: one server closing, one overtaken, one current and one after |
| `bridge_twice` | **violated**: a start takes a running bridge down | three starts |
| `app` | the list survives tests and crashes, the catalogue and the strategies are those on disk, strategies and lists are not overwritten without a copy, the task follows its setting and the card the service, one copy of the program goes on unless a list or a kill failed, `state.json` is never half a save | two versions; one profile beside none; three pids, two of them elevated. A behaviour belongs to one of four scopes chosen at its start (`lists`, `catalog` with the list in it, `service`, `startup`), so that their states add up. `Budget` bounds what users and launches set off: unbounded for the list; two for the catalogue (a check, an apply, an edit or a change of mode beside another), with crashes and new versions free; three for `service` and `startup`, crashes counted. What follows from it is never bounded. The modes of the catalogue's scope are "loaded" and "none" ("any" differs in content only) |
| `ipset_mode` | **violated**: a mode chosen during a test is written at its end and overwritten by the guard | one version, no failing write |
| `state_unread` | **violated**: a state that could not be read is overwritten with defaults | one process |
| `core` | permits and sockets stay in the budget and come back, a shutdown ends the server, the ladder is walked whole and each route once, each name is dialled once, spares are leases, packets stay whole | three connections for two permits; eleven configurations of the ladder with one client, the others being `Elsewhere`; two buckets, clients and tasks; lists of up to two domains, repetitions included; streams of up to two packets of 4 or 6 bytes (6 is no multiple of the abridged word) and up to two foreign bytes, cut everywhere. One scope per part, as above |

The scopes leave nothing out that the code connects: the parts in different scopes share OPS only, of which each knows free and taken, and
the bridge's parts share no variable.

Deadlock is checked in the runs of `pool`, `strategy` and `bridge` and their violations; `app`, `core`, `ipset_mode` and `state_unread` switch it off, because a program nobody uses, a
walk that has arrived, a stream at its end and a server that has ended rest. `MCStrategyTest` bounds the initial states (the service is installed exactly if
it runs); the combinations left out are reached by the user's first commands.

The findings beside the backoff race, in words: the poller looks at its time limit only while it cannot read progress; a
cancel leaves the engine stopped; a sweep takes no lock; a start checks under one lock and overwrites under the next; the test
syncs the list before it gives it back; a state that was not read is saved over.

Five more sentences of the source are definitions here and no run's, because the runs that pass already take their cases out by name. TLC refutes each
when it is added to the configuration named:

- `OneEngine` (`MCStrategyTest.cfg`): a stop answers "done" with an engine alive (`app/lib.rs:924`), and the start behind it spawns a second;
- `NoApplyBesideCheck` (`MCApp.cfg`): the watcher and an apply each look at the other's flag before either has raised its own (`app/lib.rs:2790`, `3504`);
- `PresetsFollowStamp` (`MCApp.cfg`): the stamp's write can fail, and the save of the state, each without the other (`app/updater.rs:523`, `app/lib.rs:2898`);
- `ListOverwriteKept` (`MCApp.cfg`): a change of mode writes `ipset-all.txt` between an apply's copy and its write (`app/lib.rs:2996`);
- `AppliedInMode` (`MCApp.cfg`): an apply syncs the list in the mode of its beginning (`app/lib.rs:2797`) and undoes the one chosen meanwhile.

### Fairness

`WsPool`: spawned refill tasks run and their dials have a time limit, warmup ends, delays pass, the maintenance interval ticks;
clients owe nothing. `StrategyTest`: threads and processes under way go on; nobody has to ask for anything, no runner has to die, the
watcher owes nothing. `TgBridge`: server tasks and pending calls go on; listeners need not break nor be bound again. `ServiceSwitch`: an operation under way goes on and
the watcher's loop turns; nobody has to start anything. `BridgeServer`: what has a time limit ends (handshake, drain, routing but
for what follows the connect to an upstream MTProto proxy, `bridge/proxy.rs:1756`-`1793`, which owes nothing, the idle download, a write to a
client that is gone), aborted tasks end, pauses end; a send to a remote has no limit and may hang for ever, and nobody has to connect. `Breaks` is strong: the loop leaves its waits again and again, and `select!` picks among the ready
branches at random, so a shutdown that stays ready is not passed over for ever. That a bridge whose client has gone becomes idle is part of
`SlotsReturn`'s premises, and so is that it does not wait for an upstream proxy: a remote that goes on sending to a client that is not there fails at the write, one that only pings does not.

## 5. Theorems

Proved for every value of the constants, from the named assumption of each module.

**WsPoolProofs.** ReservedIffAlive and SocketBudget are not inductive. `IInv` adds `SingleFlight` (each living task's bucket is
reserved, each reserved bucket has a living task, and no two share one) and `Room` (idle connections stay within pool_size
while warmup may still push, within twice that afterwards; and what a refill holds still fits on top). `Room` is what makes the
stale count of a refill harmless: the only unchecked push is warmup's, and its allowance is reserved until it is used.
From `IInv` follow TypeOK, ReservedIffAlive, SocketBudget, RefillNeverOverfills and that `Spec` implements `RefillLease`.

**TgBridgeProofs.** `IInv` adds to TypeOK and RunningIsAlive: `Unborn` (a server exists once its epoch is reached), `Alone`
(without overlap only the last server is alive, at most one start is pending, and it waits for that server unless it
has ended) and `Link` (without overlap the link stored is the last server's, and a serving owner has stored it). From it follow RunningIsAlive,
SettledStatus, OldSparesNew and FastRestart.

**StorageProofs.** OneInstance follows from `Seen` (of two processes past the listing of the others, one still has the other on its list, or has spared it)
and `Emptied` (an owner's list is empty): whoever lists last sees the other. A launch or the use of a pid again starts before the
listing, so it disturbs neither. FileWhole follows from `TmpWhole` (a save that has been written has a whole temporary file of its own);
it holds for any number of processes because the name of that file is the process's.

ListKept (same module) is not inductive: where the content owed is must be known at each phase of a test. `KeptInv` is `Placed` (the
guard is armed only between the emptying and the restore, and a process that is not there has neither test nor healing) and, unless something was put
into the list while it was a test's or a crash has cut a copy short, `Kept`: the list is what is owed, or it is empty and the backup is; a
backup that could be copied over a blank list is what is owed; so is an armed guard's, unless it is gone; and just before the emptying both are.
ListRestored follows with nothing under way.

**StrategyTestProofs.** OneUnlessWithstood says nothing of the runners that could break it a step later. `IInv` follows the lock and the files:
`Locked` (OPS is the thread's or the user's, each from its first step under the lock to its last), `OneRunner` (no runner but the last plan's can do anything; behind the loop that one has
ended or can only be killed or leave), `Pids` (a pid on file or read from it names that runner, once it has got to its first lines), `Progress`
(what the file says of the runner), `Owned` (of the engines that did not withstand a stop there is at most one, whose it may be at each step, and a runner that may still spawn sees none but its own),
`Cancelling` and `UserWaits` (how far a cancel is, and that the user is not at it while a cancel has a runner to end), `LaunchTold`
(a runner launched after a cancel's epoch finds the flag) and `Forsaken`: a runner nobody waits for is doomed, because the cancel is on
its way to kill it or because the flag it is going to read stays. That is why a cancelled runner never spawns beside the user's engine,
although the cancel takes no lock. From it follow TypeOK, OneUnlessWithstood, NoOrphanMeasures and UserSparesTest, for any number of runs and strategies.

**RouteProofs.** LadderComplete speaks of the end of a walk, AskedOnce of what has been asked. `RouteInv` says of each walk what is left of its ladder:
each route at most once and a last resort at the very end (`TodoShape`), nothing asked that is still to do but the route being dialled (`AskedShape`), and
no configured route neither asked, passed over nor ahead (`Covers`; before the look at the address only the early tiers can be gone). That a ladder has
each route once, wherever a tier is begun (`WorkerRungs`, `ChainRungs`), is proved for any number of Workers and proxies. DialComplete needs
`Counts`: a turn gone by has been tried once, one to come not at all, and the base name once more exactly if its dash name was absent without a time-out and the
second try is no longer owed (`forced`); `SlowKept` (a time-out is remembered) and `RedirectsTrue` (the flag is what the tries say). Repetitions of a
domain in the list are turns that are not `Fresh`. `Exhausted` says that a walk gives up only with no turn left.

**SplitProofs.** PacketsWhole speaks of the time between two reads; `SplitInv` says in what packet the splitter then is, and where. `Framed` is a packet that begins
with a header and is as long as that announces (that each of `Headers` is read as the length it was written for is `HeadersRead`, for every length up to the limit
and past it); `Amid` says what header, length and bytes the splitter has in hand at any place of such a packet; `InFrame` that what was sent are the packets before it;
`Conserved` that nothing read is missing, whatever the stream. One byte keeps these (`AmidStep`, `ByteStep`), and so does a read of any number of them. `Taken` and the library's
`FlattenSeq` are recursive functions: the induction over their indices is the library's well-foundedness of the naturals applied to a set (`PassedOn`), so no
theorem with an operator parameter is needed.

**BridgeProofs.** In the server `Counted` (free permits, clients with a task and the loop's own permit add up to max_connections) bounds the
tasks; `Attached` (until the shutdown an upload belongs to a client's task) bounds the sockets by them. After the shutdown uploads
outlive their tasks, so that the sockets stay `Within` the limit is a conjunct of its own: from there on they only close. `Few` bounds the errors in a row.

In the Cloudflare pool `Marks` (a living task has its bucket reserved, and no two share a bucket) is inductive with the types; from it follows
that `CfSpec` implements `RefillLease`, by the same mapping as the direct pool. That no bucket holds more than its budget
(CfBoundedHolds) needs the types alone: unlike the direct pool, the push looks at the bucket under the lock it pushes with.

The parts share no variable, so the conjunction of their invariants (`BridgeInv`) is one of `BridgeSpec`: BridgeTyped, BridgeHolds and BridgeImplementsLease
state of the composition, for every value of the constants, the invariants and the refinement that the run `core` checks.

**AppProofs.** BootTaskFollows needs `Stored` (a command that has still to set the task has stored the setting it will set it to) and
`Follows`, the property also in the middle of commands. The catalogue's properties speak of states without an apply;
`CatalogInv` says what they are in the middle of one. `CheckShape`, `ClickShape` and `ApplyShape` say how far each is; `Exclusive` that a check by
hand and an apply never overlap, by OPS (a check of the watcher and an apply do); `RowsTrue` that the rows a check carries describe the files but those
it has missed, and that the rows an apply has settled, and the catalogue's of the files it has not settled, describe theirs; `Filed` that what a
process that is gone did not save is among the strays; `Ahead` that an apply has no row of the files ahead of it; and `BatsFresh`.
`CatalogSpec` and `ServiceSpec`, which these theorems are about, are the
steps the run `app` takes in its scopes without their budget; `CatalogSpec` also lets the list's tests and settings go on beside the catalogue.

OverwriteKept needs `CopyHeld`: what an apply is about to write over is among its copies, for each file that only an apply writes.

`AppInv` puts the parts of `MCApp` together: each has its invariant in its scope and rests as it began in the others. AppTypeOK follows.

Every invariant and every action property of the runs that pass is the property of a theorem. Only model-checked is liveness (GuardReleased, Replenished, CompletedSaved,
CancelFrees, DisownedEnds, StartAnswered, CardConverges, ServerStops, SlotsReturn): liveness under fairness and `ENABLED` are out of TLAPS's reach here.

## 6. Not modelled

Byte-level work (crypto, FakeTLS, HTTP), argument and profile parsing, wording, rendering, scripts and sequences of operating-system
commands (DNS, diagnostics): no state shared by several actors, or plain I/O. The refresh of the Cloudflare domains is one
download and one swap under one lock. Scoring and reuse of test results are sequential computations.

Taken as given, with the place it is about:

- the indicator goes with the lock (`app/lib.rs:2404` drops them one after the other);
- files are not edited in the seconds in which an apply replaces them (`EditsList`), and a check reads all files in one step;
- the start-up thread sets the task from the setting it took along (`app/lib.rs:3893`): `BootTaskFollows` excepts a task it left;
- between the emptying of the list and `testing.running` (`app/lib.rs:1716`-`1771`) a change of mode or the healing may fill the list: the model
  has the window, and `late` marks it;
- a second launch saves what it has loaded before it looks at the lock (`app/lib.rs:3835`) and may roll back a newer setting of the copy that
  runs;
- a tier in its cooldown when the walk passes it is not asked again in that walk (`bridge/proxy.rs:991` explains why), and the two
  looks of the direct route at its cooldown (`1333`, `1433`) are one;
- a stream that is refused may lose whole packets of the same read (`bridge/proxy.rs:1627`);
- a missing DNS record is a choice: the code tells it by the text of the error (`bridge/ws_client.rs:362`);
- detached refills outlive the server that made them (`bridge/pool.rs:431`) and end with their dial.
