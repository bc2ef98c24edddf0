------------------------------- MODULE WsPool -------------------------------
(* The direct WebSocket pool of the Telegram bridge (pool.rs, WsPool).        *)
(*                                                                            *)
(* A bucket is one (dc, is_media) key.  Its idle connections are counted, not *)
(* listed: `live` ones can still be handed out, `stale` ones are past max_age *)
(* or were closed by the peer and only wait to be discarded.  Every critical  *)
(* section of the code is one action, so whatever the code does between two   *)
(* sections of different mutexes interleaves with the other tasks.            *)
EXTENDS Naturals, FiniteSets

CONSTANTS
  Bucket,       \* the (dc, is_media) keys of dc_redirects
  Client,       \* client connections being routed at the same time
  Maintainer,   \* the task that runs warmup and then run_maintenance
  Task,         \* identities for spawned refill tasks
  PoolSize,     \* pool_size, --pool-size
  WarmupConcurrency,  \* WARMUP_BUCKET_CONCURRENCY
  MaxFailures   \* where failures.saturating_add(1) saturates (u32::MAX)

Scheduler == Client \cup {Maintainer}
Proc      == Scheduler \cup Task

ASSUME WsPoolAssumption ==
  /\ Bucket # {}
  /\ PoolSize \in Nat
  /\ WarmupConcurrency \in Nat \ {0}
  /\ MaxFailures \in Nat \ {0}
  /\ Client \cap Task = {}
  /\ Maintainer \notin Client \cup Task

VARIABLES
  live,          \* idle: usable connections of each bucket
  stale,         \* idle: expired or closed connections still in the bucket
  refilling,     \* buckets with a refill in flight
  failures,      \* refill_failures; 0 is "no entry"
  backoff,       \* refill_after: the failure count f its delay (2^(f-1) s, an
                 \* hour at most) was computed from, 0 once over or absent
  pc,            \* where each task is
  at,            \* the bucket it works on
  conns,         \* connections a refill task is dialling or holds
  level,         \* `failures` local of report_refill_failure
  todo,          \* buckets a maintenance pass still has to schedule
  warm           \* warmup progress of each bucket

poolVars == <<live, stale>>
backoffVars == <<failures, backoff>>
taskVars == <<pc, at, conns, level>>
vars == <<live, stale, refilling, failures, backoff, pc, at, conns, level,
          todo, warm>>

\* Connections sitting in the bucket: what `bucket.len()` returns.
Idle(b) == live[b] + stale[b]

Alive(t) == pc[t] # "free"

SchedulerPC == {"free", "hit.failures", "hit.after", "direct.failures",
                "direct.after", "check", "reserve"}
TaskPC == {"free", "count", "dial", "ok.failures", "ok.after", "push",
           "failed", "arm", "drop"}

Init ==
  /\ live = [b \in Bucket |-> 0]
  /\ stale = [b \in Bucket |-> 0]
  /\ refilling = {}
  /\ failures = [b \in Bucket |-> 0]
  /\ backoff = [b \in Bucket |-> 0]
  /\ pc = [p \in Proc |-> "free"]
  /\ at \in {[p \in Proc |-> b] : b \in Bucket}
  /\ conns = [t \in Task |-> 0]
  /\ level = [t \in Task |-> 0]
  /\ todo = {}
  /\ warm = [b \in Bucket |-> "todo"]

-----------------------------------------------------------------------------
\* report_success: two mutexes, locked one after the other; the caller goes on
\* at `done`.
ForgetFailures(p, here, next) ==
  /\ pc[p] = here
  /\ failures' = [failures EXCEPT ![at[p]] = 0]
  /\ pc' = [pc EXCEPT ![p] = next]
  /\ UNCHANGED <<poolVars, refilling, backoff, at, conns, level, todo, warm>>

ClearBackoff(p, here, done) ==
  /\ pc[p] = here
  /\ backoff' = [backoff EXCEPT ![at[p]] = 0]
  /\ pc' = [pc EXCEPT ![p] = done]
  /\ UNCHANGED <<poolVars, refilling, failures, at, conns, level, todo, warm>>

ReportSuccess(p, first, second, done) ==
  \/ ForgetFailures(p, first, second)
  \/ ClearBackoff(p, second, done)

\* get on a hit: under the idle lock connections are popped from the back, the
\* unusable ones above the first usable one are dropped, and that one is the
\* client's.  How many unusable ones lie above it depends on the bucket's order.
GetHit(c, b) ==
  /\ pc[c] = "free"
  /\ live[b] > 0
  /\ live' = [live EXCEPT ![b] = @ - 1]
  /\ \E dropped \in 0..stale[b] : stale' = [stale EXCEPT ![b] = @ - dropped]
  /\ at' = [at EXCEPT ![c] = b]
  /\ pc' = [pc EXCEPT ![c] = "hit.failures"]
  /\ UNCHANGED <<refilling, backoffVars, conns, level, todo, warm>>

\* get on a miss: everything popped was unusable, the bucket is now empty.
\* Every call in proxy.rs passes allow_refill = true.
GetMiss(c, b) ==
  /\ pc[c] = "free"
  /\ live[b] = 0
  /\ stale' = [stale EXCEPT ![b] = 0]
  /\ at' = [at EXCEPT ![c] = b]
  /\ pc' = [pc EXCEPT ![c] = "check"]
  /\ UNCHANGED <<live, refilling, backoffVars, conns, level, todo, warm>>

\* A connection the router opened itself (direct_ws) reports its success.
DirectConnected(c, b) ==
  /\ pc[c] = "free"
  /\ at' = [at EXCEPT ![c] = b]
  /\ pc' = [pc EXCEPT ![c] = "direct.failures"]
  /\ UNCHANGED <<poolVars, refilling, backoffVars, conns, level, todo, warm>>

\* schedule_refill and the first section of reserve_refill: a bucket whose
\* backoff still runs is left alone, a delay that is over is removed.
ReserveCheck(p) ==
  /\ pc[p] = "check"
  /\ pc' = [pc EXCEPT ![p] = IF PoolSize > 0 /\ backoff[at[p]] = 0
                             THEN "reserve" ELSE "free"]
  /\ UNCHANGED <<poolVars, refilling, backoffVars, at, conns, level, todo, warm>>

\* The second section of reserve_refill, under the other mutex: the insert
\* fails on a bucket that is reserved already.
ReserveRefused(p) ==
  /\ pc[p] = "reserve"
  /\ at[p] \in refilling
  /\ pc' = [pc EXCEPT ![p] = "free"]
  /\ UNCHANGED <<poolVars, refilling, backoffVars, at, conns, level, todo, warm>>

\* Mutant: the reservation does not look whether the bucket has one.
ReserveUnchecked(p, t) ==
  /\ pc[p] = "reserve"
  /\ pc[t] = "free"
  /\ refilling' = refilling \cup {at[p]}
  /\ pc' = [pc EXCEPT ![p] = "free", ![t] = "count"]
  /\ at' = [at EXCEPT ![t] = at[p]]
  /\ UNCHANGED <<poolVars, backoffVars, conns, level, todo, warm>>

\* The insert succeeds and the task is spawned.
ReserveAndSpawn(p, t) ==
  /\ pc[p] = "reserve"
  /\ pc[t] = "free"
  /\ at[p] \notin refilling
  /\ refilling' = refilling \cup {at[p]}
  /\ pc' = [pc EXCEPT ![p] = "free", ![t] = "count"]
  /\ at' = [at EXCEPT ![t] = at[p]]
  /\ UNCHANGED <<poolVars, backoffVars, conns, level, todo, warm>>

-----------------------------------------------------------------------------
\* Mutant: a full bucket ends the task without dropping the guard.
RefillCountLeaks(t) ==
  /\ pc[t] = "count"
  /\ LET current == Idle(at[t])
     IN  IF current >= PoolSize
         THEN pc' = [pc EXCEPT ![t] = "free"] /\ UNCHANGED conns
         ELSE /\ conns' = [conns EXCEPT ![t] = PoolSize - current]
              /\ pc' = [pc EXCEPT ![t] = "dial"]
  /\ UNCHANGED <<poolVars, refilling, backoffVars, at, level, todo, warm>>

\* Mutant: a refill dials a whole bucket, not what is missing.
RefillCountGreedy(t) ==
  /\ pc[t] = "count"
  /\ IF Idle(at[t]) >= PoolSize
     THEN pc' = [pc EXCEPT ![t] = "drop"] /\ UNCHANGED conns
     ELSE /\ conns' = [conns EXCEPT ![t] = PoolSize]
          /\ pc' = [pc EXCEPT ![t] = "dial"]
  /\ UNCHANGED <<poolVars, refilling, backoffVars, at, level, todo, warm>>

\* refill_reserved, by steps.  First, under the idle lock, how many are needed.
RefillCount(t) ==
  /\ pc[t] = "count"
  /\ LET current == Idle(at[t])
     IN  IF current >= PoolSize
         THEN pc' = [pc EXCEPT ![t] = "drop"] /\ UNCHANGED conns
         ELSE /\ conns' = [conns EXCEPT ![t] = PoolSize - current]
              /\ pc' = [pc EXCEPT ![t] = "dial"]
  /\ UNCHANGED <<poolVars, refilling, backoffVars, at, level, todo, warm>>

\* connect_batch stops at the first failed attempt and returns what it opened
\* before it; an empty batch is a failed refill.
RefillDialled(t) ==
  /\ pc[t] = "dial"
  /\ \E opened \in 0..conns[t] :
       /\ conns' = [conns EXCEPT ![t] = opened]
       /\ pc' = [pc EXCEPT ![t] = IF opened = 0 THEN "failed" ELSE "ok.failures"]
  /\ UNCHANGED <<poolVars, refilling, backoffVars, at, level, todo, warm>>

\* Mutant: the room is not looked at again after the dial.
RefillPushAll(t) ==
  /\ pc[t] = "push"
  /\ live' = [live EXCEPT ![at[t]] = @ + conns[t]]
  /\ conns' = [conns EXCEPT ![t] = 0]
  /\ pc' = [pc EXCEPT ![t] = "drop"]
  /\ UNCHANGED <<stale, refilling, backoffVars, at, level, todo, warm>>

\* Push what still fits, under the idle lock; the surplus is closed.
RefillPush(t) ==
  /\ pc[t] = "push"
  /\ LET room  == IF Idle(at[t]) < PoolSize THEN PoolSize - Idle(at[t]) ELSE 0
         added == IF conns[t] < room THEN conns[t] ELSE room
     IN  live' = [live EXCEPT ![at[t]] = @ + added]
  /\ conns' = [conns EXCEPT ![t] = 0]
  /\ pc' = [pc EXCEPT ![t] = "drop"]
  /\ UNCHANGED <<stale, refilling, backoffVars, at, level, todo, warm>>

\* Mutant: the failure count does not saturate.
FailureCountUnbounded(t) ==
  /\ pc[t] = "failed"
  /\ failures' = [failures EXCEPT ![at[t]] = @ + 1]
  /\ level' = [level EXCEPT ![t] = failures[at[t]] + 1]
  /\ pc' = [pc EXCEPT ![t] = "arm"]
  /\ UNCHANGED <<poolVars, refilling, backoff, at, conns, todo, warm>>

\* report_refill_failure, first mutex: count the failure and keep the count.
FailureCount(t) ==
  /\ pc[t] = "failed"
  /\ LET count == IF failures[at[t]] < MaxFailures THEN failures[at[t]] + 1
                                                   ELSE MaxFailures
     IN  /\ failures' = [failures EXCEPT ![at[t]] = count]
         /\ level' = [level EXCEPT ![t] = count]
  /\ pc' = [pc EXCEPT ![t] = "arm"]
  /\ UNCHANGED <<poolVars, refilling, backoff, at, conns, todo, warm>>

\* Second mutex: the bucket must not be refilled before the delay is over.
FailureArm(t) ==
  /\ pc[t] = "arm"
  /\ backoff' = [backoff EXCEPT ![at[t]] = level[t]]
  /\ level' = [level EXCEPT ![t] = 0]
  /\ pc' = [pc EXCEPT ![t] = "drop"]
  /\ UNCHANGED <<poolVars, refilling, failures, at, conns, todo, warm>>

\* RefillGuard::drop, on every way out of refill_reserved.
GuardDrop(t) ==
  /\ pc[t] = "drop"
  /\ refilling' = refilling \ {at[t]}
  /\ pc' = [pc EXCEPT ![t] = "free"]
  /\ UNCHANGED <<poolVars, backoffVars, at, conns, level, todo, warm>>

RefillStep(t) ==
  \/ RefillCount(t)
  \/ RefillDialled(t)
  \/ ReportSuccess(t, "ok.failures", "ok.after", "push")
  \/ RefillPush(t)
  \/ FailureCount(t)
  \/ FailureArm(t)
  \/ GuardDrop(t)

-----------------------------------------------------------------------------
\* warmup opens pool_size connections per bucket, a few buckets at a time, and
\* does not reserve them in `refilling`.
WarmupDial(b) ==
  /\ warm[b] = "todo"
  /\ Cardinality({c \in Bucket : warm[c] = "dial"}) < WarmupConcurrency
  /\ warm' = [warm EXCEPT ![b] = "dial"]
  /\ UNCHANGED <<poolVars, refilling, backoffVars, taskVars, todo>>

\* Every connection of a finished batch is pushed, whatever the bucket holds.
WarmupPush(b) ==
  /\ warm[b] = "dial"
  /\ \E opened \in 0..PoolSize : live' = [live EXCEPT ![b] = @ + opened]
  /\ warm' = [warm EXCEPT ![b] = "done"]
  /\ UNCHANGED <<stale, refilling, backoffVars, taskVars, todo>>

\* Mutant: maintenance counts dead connections as ready ones.
MaintainBlind ==
  /\ pc[Maintainer] = "free"
  /\ todo = {}
  /\ \A b \in Bucket : warm[b] = "done"
  /\ PoolSize > 0
  /\ todo' = {b \in Bucket : Idle(b) < PoolSize}
  /\ UNCHANGED <<poolVars, refilling, backoffVars, taskVars, warm>>

\* maintain, under the idle lock: unusable connections go, and the buckets left
\* below pool_size are noted.  run_maintenance starts after warmup.
MaintainPass ==
  /\ pc[Maintainer] = "free"
  /\ todo = {}
  /\ \A b \in Bucket : warm[b] = "done"
  /\ PoolSize > 0
  /\ stale' = [b \in Bucket |-> 0]
  /\ todo' = {b \in Bucket : live[b] < PoolSize}
  /\ UNCHANGED <<live, refilling, backoffVars, taskVars, warm>>

\* The loop after the unlock schedules the noted buckets one by one.
MaintainNext ==
  /\ pc[Maintainer] = "free"
  /\ \E b \in todo :
       /\ todo' = todo \ {b}
       /\ at' = [at EXCEPT ![Maintainer] = b]
  /\ pc' = [pc EXCEPT ![Maintainer] = "check"]
  /\ UNCHANGED <<poolVars, refilling, backoffVars, conns, level, warm>>

\* The peer closes an idle connection, or it grows past max_age.
Spoil(b) ==
  /\ live[b] > 0
  /\ live' = [live EXCEPT ![b] = @ - 1]
  /\ stale' = [stale EXCEPT ![b] = @ + 1]
  /\ UNCHANGED <<refilling, backoffVars, taskVars, todo, warm>>

\* The delay of a failed bucket passes.
BackoffOver(b) ==
  /\ backoff[b] # 0
  /\ backoff' = [backoff EXCEPT ![b] = 0]
  /\ UNCHANGED <<poolVars, refilling, failures, taskVars, todo, warm>>

ClientStep(c) ==
  \/ \E b \in Bucket : GetHit(c, b) \/ GetMiss(c, b) \/ DirectConnected(c, b)
  \/ ReportSuccess(c, "hit.failures", "hit.after", "check")
  \/ ReportSuccess(c, "direct.failures", "direct.after", "free")

Schedule(p) ==
  \/ ReserveCheck(p)
  \/ ReserveRefused(p)
  \/ \E t \in Task : ReserveAndSpawn(p, t)

Next ==
  \/ \E c \in Client : ClientStep(c)
  \/ \E p \in Scheduler : Schedule(p)
  \/ \E t \in Task : RefillStep(t)
  \/ \E b \in Bucket : WarmupDial(b) \/ WarmupPush(b) \/ Spoil(b) \/ BackoffOver(b)
  \/ MaintainPass
  \/ MaintainNext

Spec == Init /\ [][Next]_vars

\* Spawned tasks run, every dial has a timeout (connect_batch), time passes, and
\* the maintenance interval keeps ticking.  Clients owe nothing.
Fairness ==
  /\ \A t \in Task : WF_vars(RefillStep(t))
  /\ \A b \in Bucket : /\ WF_vars(WarmupDial(b))
                       /\ WF_vars(WarmupPush(b))
                       /\ WF_vars(BackoffOver(b))
  /\ WF_vars(MaintainPass)
  /\ WF_vars(MaintainNext)
  /\ WF_vars(Schedule(Maintainer))

FairSpec == Spec /\ Fairness

-----------------------------------------------------------------------------
\* Every variable ranges over what the code can store.
TypeOK ==
  /\ live \in [Bucket -> Nat]
  /\ stale \in [Bucket -> Nat]
  /\ refilling \in SUBSET Bucket
  /\ failures \in [Bucket -> 0..MaxFailures]
  /\ backoff \in [Bucket -> 0..MaxFailures]
  /\ pc \in [Proc -> SchedulerPC \cup TaskPC]
  /\ \A p \in Scheduler : pc[p] \in SchedulerPC
  /\ \A t \in Task : pc[t] \in TaskPC
  /\ at \in [Proc -> Bucket]
  /\ conns \in [Task -> 0..PoolSize]
  /\ level \in [Task -> 0..MaxFailures]
  /\ todo \in SUBSET Bucket
  /\ warm \in [Bucket -> {"todo", "dial", "done"}]

\* A bucket is marked in `refilling` exactly while a refill task for it lives:
\* the mark outlives none of the ways out of refill_reserved, and no path
\* removes the mark of another task (RefillGuard, pool.rs:146).
ReservedIffAlive == refilling = {at[t] : t \in {u \in Task : Alive(u)}}

\* Sockets warmup holds for a bucket while its batch is being opened.
WarmupSockets(b) == IF warm[b] = "dial" THEN PoolSize ELSE 0

\* The pool never holds more sockets of a bucket than server.rs budgets when it
\* computes max_connections: FDS_PER_POOL_SLOT = 2 per pool slot, the idle
\* connection and one in-flight refill, although warmup, refills, hits and
\* maintenance of the same bucket overlap (limits.rs:44).
SocketBudget ==
  \A b \in Bucket, t \in Task :
    Idle(b) + WarmupSockets(b) + (IF at[t] = b THEN conns[t] ELSE 0)
      <= 2 * PoolSize

\* A refill never takes a bucket above pool_size, even when the bucket filled up
\* while the refill was dialling; only warmup adds without looking (pool.rs:481).
RefillNeverOverfills ==
  [][\A b \in Bucket :
       (live'[b] > live[b] /\ warm'[b] = warm[b]) => Idle(b)' <= PoolSize]_vars

\* Refills of a bucket are leases: the abstract specification with the tasks
\* alive for each bucket as its holders ("prevents a stampede", pool.rs:109).
Lease == INSTANCE RefillLease
           WITH holders <- [b \in Bucket |-> {t \in Task : Alive(t) /\ at[t] = b}]
LeaseSpec == Lease!Spec

\* A reserved bucket is released again, whatever happens to the dial.
GuardReleased == \A b \in Bucket : b \in refilling ~> b \notin refilling

\* A bucket is not forgotten: over and over it is either full of usable
\* connections or being dialled, with no client ever asking for it (maintain,
\* pool.rs:370).
Replenished ==
  \A b \in Bucket :
    []<>(live[b] >= PoolSize \/ \E t \in Task : at[t] = b /\ pc[t] = "dial")

\* While nobody is between the two sections of a report, a running backoff is
\* the one that belongs to the failures counted since the last success: "A
\* successful foreground or pooled connection resets exponential refill backoff
\* for this DC bucket" (pool.rs:412).
Reporting(b) ==
  \E p \in Proc : /\ at[p] = b
                  /\ pc[p] \in {"hit.after", "direct.after", "ok.after", "arm"}

SuccessResetsBackoff ==
  \A b \in Bucket : ~Reporting(b) => backoff[b] <= failures[b]
=============================================================================
