---------------------------- MODULE WsPoolProofs ----------------------------
(* Theorems about the direct pool, for every set of buckets, clients and task *)
(* identities and every pool size.                                            *)
EXTENDS WsPool, TLAPS

Holding == {"dial", "ok.failures", "ok.after", "push"}

\* A bucket is filled by refills up to pool_size; warmup's blind push can add
\* another pool_size once.
Capacity(b) == IF warm[b] = "done" THEN 2 * PoolSize ELSE PoolSize

\* One task per reserved bucket.
SingleFlight ==
  /\ \A t \in Task : Alive(t) => at[t] \in refilling
  /\ \A b \in refilling : \E t \in Task : Alive(t) /\ at[t] = b
  /\ \A t, u \in Task : Alive(t) /\ Alive(u) /\ at[t] = at[u] => t = u

\* What is idle, together with what the bucket's refill is about to add, fits.
Room ==
  /\ \A b \in Bucket : Idle(b) <= Capacity(b)
  /\ \A t \in Task : Idle(at[t]) + conns[t] <= Capacity(at[t])
  /\ \A t \in Task : pc[t] \notin Holding => conns[t] = 0

IInv == TypeOK /\ SingleFlight /\ Room

-----------------------------------------------------------------------------
LEMMA ProcKinds ==
  /\ \A c \in Client : c \in Scheduler /\ c \in Proc /\ c \notin Task
  /\ Maintainer \in Scheduler /\ Maintainer \in Proc /\ Maintainer \notin Task
  /\ \A p \in Scheduler : p \in Proc /\ p \notin Task
  /\ \A t \in Task : t \in Proc /\ t \notin Scheduler
BY WsPoolAssumption DEF Scheduler, Proc

LEMMA InitIInv == Init => IInv
<1> SUFFICES ASSUME Init PROVE IInv
  OBVIOUS
<1>1. TypeOK
  BY WsPoolAssumption DEF Init, TypeOK, SchedulerPC, TaskPC, Proc, Scheduler
<1>2. SingleFlight
  BY ProcKinds DEF Init, SingleFlight, Alive
<1>3. Room
  BY WsPoolAssumption, ProcKinds, <1>1 DEF Init, Room, Capacity, Idle, Holding, TypeOK
<1> QED BY <1>1, <1>2, <1>3 DEF IInv

-----------------------------------------------------------------------------
(* Type correctness, action by action. *)
LEMMA ClientType ==
  ASSUME TypeOK, NEW c \in Client, ClientStep(c)
  PROVE  TypeOK'
<1> USE WsPoolAssumption, ProcKinds DEF TypeOK, poolVars, backoffVars, SchedulerPC
<1>1. ASSUME NEW b \in Bucket, GetHit(c, b) PROVE TypeOK'
  BY <1>1 DEF GetHit
<1>2. ASSUME NEW b \in Bucket, GetMiss(c, b) PROVE TypeOK'
  BY <1>2 DEF GetMiss
<1>3. ASSUME NEW b \in Bucket, DirectConnected(c, b) PROVE TypeOK'
  BY <1>3 DEF DirectConnected
<1>4. ASSUME ReportSuccess(c, "hit.failures", "hit.after", "check") PROVE TypeOK'
  BY <1>4 DEF ReportSuccess, ForgetFailures, ClearBackoff
<1>5. ASSUME ReportSuccess(c, "direct.failures", "direct.after", "free") PROVE TypeOK'
  BY <1>5 DEF ReportSuccess, ForgetFailures, ClearBackoff
<1> QED BY <1>1, <1>2, <1>3, <1>4, <1>5 DEF ClientStep

LEMMA ScheduleType ==
  ASSUME TypeOK, NEW p \in Scheduler, Schedule(p)
  PROVE  TypeOK'
<1> USE WsPoolAssumption, ProcKinds
    DEF TypeOK, poolVars, backoffVars, SchedulerPC, TaskPC
<1>1. CASE ReserveCheck(p)
  BY <1>1 DEF ReserveCheck
<1>2. CASE ReserveRefused(p)
  BY <1>2 DEF ReserveRefused
<1>3. ASSUME NEW t \in Task, ReserveAndSpawn(p, t) PROVE TypeOK'
  BY <1>3 DEF ReserveAndSpawn
<1> QED BY <1>1, <1>2, <1>3 DEF Schedule

LEMMA RefillType ==
  ASSUME TypeOK, NEW t \in Task, RefillStep(t)
  PROVE  TypeOK'
<1> USE WsPoolAssumption, ProcKinds
    DEF TypeOK, poolVars, backoffVars, TaskPC, Idle
<1>1. CASE RefillCount(t)
  BY <1>1 DEF RefillCount
<1>2. CASE RefillDialled(t)
  BY <1>2 DEF RefillDialled
<1>3. CASE ReportSuccess(t, "ok.failures", "ok.after", "push")
  BY <1>3 DEF ReportSuccess, ForgetFailures, ClearBackoff
<1>4. CASE RefillPush(t)
  BY <1>4 DEF RefillPush
<1>5. CASE FailureCount(t)
  BY <1>5 DEF FailureCount
<1>6. CASE FailureArm(t)
  BY <1>6 DEF FailureArm
<1>7. CASE GuardDrop(t)
  BY <1>7 DEF GuardDrop
<1> QED BY <1>1, <1>2, <1>3, <1>4, <1>5, <1>6, <1>7 DEF RefillStep

LEMMA RestType ==
  ASSUME TypeOK,
         \/ \E b \in Bucket : WarmupDial(b) \/ WarmupPush(b) \/ Spoil(b) \/ BackoffOver(b)
         \/ MaintainPass
         \/ MaintainNext
  PROVE  TypeOK'
<1> USE WsPoolAssumption, ProcKinds
    DEF TypeOK, poolVars, backoffVars, taskVars, SchedulerPC
<1>1. ASSUME NEW b \in Bucket, WarmupDial(b) PROVE TypeOK'
  BY <1>1 DEF WarmupDial
<1>2. ASSUME NEW b \in Bucket, WarmupPush(b) PROVE TypeOK'
  BY <1>2 DEF WarmupPush
<1>3. ASSUME NEW b \in Bucket, Spoil(b) PROVE TypeOK'
  BY <1>3 DEF Spoil
<1>4. ASSUME NEW b \in Bucket, BackoffOver(b) PROVE TypeOK'
  BY <1>4 DEF BackoffOver
<1>5. CASE MaintainPass
  BY <1>5 DEF MaintainPass
<1>6. CASE MaintainNext
  BY <1>6 DEF MaintainNext
<1> QED BY <1>1, <1>2, <1>3, <1>4, <1>5, <1>6
LEMMA NextType == TypeOK /\ [Next]_vars => TypeOK'
<1> SUFFICES ASSUME TypeOK, [Next]_vars PROVE TypeOK'
  OBVIOUS
<1>1. CASE UNCHANGED vars
  BY <1>1 DEF vars, TypeOK
<1> QED BY <1>1, ClientType, ScheduleType, RefillType, RestType DEF Next

\* Every reachable state is well typed, whatever the constants.
THEOREM TypeCorrect == Spec => []TypeOK
<1>1. Init => TypeOK
  BY InitIInv DEF IInv
<1> QED BY <1>1, NextType, PTL DEF Spec

-----------------------------------------------------------------------------
(* The lease: refilling marks exactly the buckets with a living task. *)

\* A step that leaves the tasks, their buckets and the marks alone.
LEMMA QuietSingleFlight ==
  ASSUME TypeOK, SingleFlight, refilling' = refilling,
         \A t \in Task : Alive(t)' = Alive(t) /\ at'[t] = at[t]
  PROVE  SingleFlight'
BY DEF SingleFlight, TypeOK

LEMMA ScheduleSingleFlight ==
  ASSUME TypeOK, SingleFlight, NEW p \in Scheduler, Schedule(p)
  PROVE  SingleFlight'
<1> USE ProcKinds
<1>1. CASE ReserveCheck(p) \/ ReserveRefused(p)
  BY <1>1, QuietSingleFlight DEF ReserveCheck, ReserveRefused, TypeOK, Alive
<1>2. ASSUME NEW t \in Task, ReserveAndSpawn(p, t) PROVE SingleFlight'
  <2>1. /\ at[p] \notin refilling
        /\ refilling' = refilling \cup {at[p]}
        /\ ~Alive(t) /\ Alive(t)' /\ at'[t] = at[p]
        /\ \A u \in Task : u # t => Alive(u)' = Alive(u) /\ at'[u] = at[u]
    BY <1>2 DEF ReserveAndSpawn, TypeOK, Alive
  <2> QED BY <2>1 DEF SingleFlight, TypeOK
<1> QED BY <1>1, <1>2 DEF Schedule

LEMMA RefillSingleFlight ==
  ASSUME TypeOK, SingleFlight, NEW t \in Task, RefillStep(t)
  PROVE  SingleFlight'
<1> USE ProcKinds DEF TypeOK, Alive
<1>1. CASE RefillCount(t)
  BY <1>1, QuietSingleFlight DEF RefillCount
<1>2. CASE RefillDialled(t)
  BY <1>2, QuietSingleFlight DEF RefillDialled
<1>3. CASE ReportSuccess(t, "ok.failures", "ok.after", "push")
  BY <1>3, QuietSingleFlight DEF ReportSuccess, ForgetFailures, ClearBackoff
<1>4. CASE RefillPush(t)
  BY <1>4, QuietSingleFlight DEF RefillPush
<1>5. CASE FailureCount(t)
  BY <1>5, QuietSingleFlight DEF FailureCount
<1>6. CASE FailureArm(t)
  BY <1>6, QuietSingleFlight DEF FailureArm
<1>7. CASE GuardDrop(t)
  <2>1. /\ Alive(t) /\ ~Alive(t)' /\ at' = at
        /\ refilling' = refilling \ {at[t]}
        /\ \A u \in Task : u # t => Alive(u)' = Alive(u)
    BY <1>7 DEF GuardDrop
  <2> QED BY <2>1 DEF SingleFlight
<1> QED BY <1>1, <1>2, <1>3, <1>4, <1>5, <1>6, <1>7 DEF RefillStep

LEMMA NextSingleFlight == TypeOK /\ SingleFlight /\ [Next]_vars => SingleFlight'
<1> SUFFICES ASSUME TypeOK, SingleFlight, [Next]_vars PROVE SingleFlight'
  OBVIOUS
<1> USE ProcKinds
<1>1. CASE UNCHANGED vars
  BY <1>1, QuietSingleFlight DEF vars, Alive
<1>2. ASSUME NEW c \in Client, ClientStep(c) PROVE SingleFlight'
  BY <1>2, QuietSingleFlight
  DEF ClientStep, GetHit, GetMiss, DirectConnected, ReportSuccess, ForgetFailures,
      ClearBackoff, TypeOK, Alive
<1>3. ASSUME NEW b \in Bucket,
             WarmupDial(b) \/ WarmupPush(b) \/ Spoil(b) \/ BackoffOver(b)
      PROVE  SingleFlight'
  BY <1>3, QuietSingleFlight
  DEF WarmupDial, WarmupPush, Spoil, BackoffOver, taskVars, Alive
<1>4. CASE MaintainPass \/ MaintainNext
  BY <1>4, QuietSingleFlight DEF MaintainPass, MaintainNext, taskVars, TypeOK, Alive
<1> QED
  BY <1>1, <1>2, <1>3, <1>4, ScheduleSingleFlight, RefillSingleFlight DEF Next

-----------------------------------------------------------------------------
(* The sockets of a bucket. *)

LEMMA ClientRoom ==
  ASSUME TypeOK, Room, NEW c \in Client, ClientStep(c)
  PROVE  Room'
<1> USE WsPoolAssumption, ProcKinds
    DEF TypeOK, Room, Capacity, Idle, Holding, poolVars, backoffVars
<1>1. ASSUME NEW b \in Bucket, GetHit(c, b) PROVE Room'
  <2>1. PICK dropped \in 0..stale[b] : stale' = [stale EXCEPT ![b] = @ - dropped]
    BY <1>1 DEF GetHit
  <2>2. \A d \in Bucket : Idle(d)' \in Nat /\ Idle(d) \in Nat /\ Idle(d)' <= Idle(d)
    BY <1>1, <2>1 DEF GetHit
  <2>3. /\ warm' = warm /\ conns' = conns
        /\ \A t \in Task : pc'[t] = pc[t] /\ at'[t] = at[t] /\ at[t] \in Bucket
    BY <1>1 DEF GetHit
  <2>4. \A d \in Bucket : Capacity(d)' = Capacity(d) /\ Capacity(d) \in Nat
    BY <2>3
  <2>5. \A t \in Task : conns[t] \in Nat
    OBVIOUS
  <2> HIDE DEF TypeOK, Idle, Capacity
  <2> QED BY <2>2, <2>3, <2>4, <2>5
<1>2. ASSUME NEW b \in Bucket, GetMiss(c, b) PROVE Room'
  BY <1>2 DEF GetMiss
<1>3. ASSUME NEW b \in Bucket, DirectConnected(c, b) PROVE Room'
  BY <1>3 DEF DirectConnected
<1>4. ASSUME \/ ReportSuccess(c, "hit.failures", "hit.after", "check")
             \/ ReportSuccess(c, "direct.failures", "direct.after", "free")
      PROVE  Room'
  BY <1>4 DEF ReportSuccess, ForgetFailures, ClearBackoff
<1> QED BY <1>1, <1>2, <1>3, <1>4 DEF ClientStep

LEMMA ScheduleRoom ==
  ASSUME TypeOK, Room, NEW p \in Scheduler, Schedule(p)
  PROVE  Room'
<1> USE WsPoolAssumption, ProcKinds
    DEF TypeOK, Room, Capacity, Idle, Holding, poolVars, backoffVars
<1>1. CASE ReserveCheck(p) \/ ReserveRefused(p)
  BY <1>1 DEF ReserveCheck, ReserveRefused
<1>2. ASSUME NEW t \in Task, ReserveAndSpawn(p, t) PROVE Room'
  BY <1>2 DEF ReserveAndSpawn
<1> QED BY <1>1, <1>2 DEF Schedule

LEMMA RefillRoom ==
  ASSUME TypeOK, SingleFlight, Room, NEW t \in Task, RefillStep(t)
  PROVE  Room'
<1> USE WsPoolAssumption, ProcKinds
    DEF TypeOK, Room, Capacity, Idle, Holding, poolVars, backoffVars
<1>1. CASE RefillCount(t)
  BY <1>1 DEF RefillCount
<1>2. CASE RefillDialled(t)
  BY <1>2 DEF RefillDialled
<1>3. CASE ReportSuccess(t, "ok.failures", "ok.after", "push")
  BY <1>3 DEF ReportSuccess, ForgetFailures, ClearBackoff
<1>4. CASE RefillPush(t)
  <2>1. \A u \in Task : u # t /\ at[u] = at[t] => conns[u] = 0
    BY <1>4 DEF RefillPush, SingleFlight, Alive
  <2>2. PICK added \in 0..conns[t] : live' = [live EXCEPT ![at[t]] = @ + added]
    <3> DEFINE room  == IF Idle(at[t]) < PoolSize THEN PoolSize - Idle(at[t]) ELSE 0
               added == IF conns[t] < room THEN conns[t] ELSE room
    <3>1. live' = [live EXCEPT ![at[t]] = @ + added]
      BY <1>4 DEF RefillPush
    <3>2. room \in Nat /\ conns[t] \in Nat
      OBVIOUS
    <3>3. added \in 0..conns[t]
      BY <3>2
    <3> QED BY <3>1, <3>3
  <2> QED BY <1>4, <2>1, <2>2 DEF RefillPush
<1>5. CASE FailureCount(t)
  BY <1>5 DEF FailureCount
<1>6. CASE FailureArm(t)
  BY <1>6 DEF FailureArm
<1>7. CASE GuardDrop(t)
  BY <1>7 DEF GuardDrop
<1> QED BY <1>1, <1>2, <1>3, <1>4, <1>5, <1>6, <1>7 DEF RefillStep

LEMMA NextRoom == TypeOK /\ SingleFlight /\ Room /\ [Next]_vars => Room'
<1> SUFFICES ASSUME TypeOK, SingleFlight, Room, [Next]_vars PROVE Room'
  OBVIOUS
<1> USE WsPoolAssumption, ProcKinds
    DEF TypeOK, Room, Capacity, Idle, Holding, poolVars, backoffVars, taskVars
<1>1. CASE UNCHANGED vars
  BY <1>1 DEF vars
<1>2. ASSUME NEW b \in Bucket, WarmupDial(b) PROVE Room'
  BY <1>2 DEF WarmupDial
<1>3. ASSUME NEW b \in Bucket, WarmupPush(b) PROVE Room'
  <2>1. PICK opened \in 0..PoolSize : live' = [live EXCEPT ![b] = @ + opened]
    BY <1>3 DEF WarmupPush
  <2> QED BY <1>3, <2>1 DEF WarmupPush
<1>4. ASSUME NEW b \in Bucket, Spoil(b) \/ BackoffOver(b) PROVE Room'
  BY <1>4 DEF Spoil, BackoffOver
<1>5. CASE MaintainPass \/ MaintainNext
  BY <1>5 DEF MaintainPass, MaintainNext
<1> QED BY <1>1, <1>2, <1>3, <1>4, <1>5, ClientRoom, ScheduleRoom, RefillRoom DEF Next

\* IInv is inductive, so it holds in every reachable state.
THEOREM Inductive == Spec => []IInv
<1>1. IInv /\ [Next]_vars => IInv'
  BY NextType, NextSingleFlight, NextRoom DEF IInv
<1> QED BY <1>1, InitIInv, PTL DEF Spec

-----------------------------------------------------------------------------
\* The mark of a bucket and its task come and go together (RefillGuard).
THEOREM Reserved == Spec => []ReservedIffAlive
<1>1. IInv => ReservedIffAlive
  BY DEF IInv, SingleFlight, ReservedIffAlive
<1> QED BY <1>1, Inductive, PTL

\* The descriptors of a bucket stay within what server.rs budgets for it.
THEOREM Budget == Spec => []SocketBudget
<1>1. IInv => SocketBudget
  BY WsPoolAssumption
  DEF IInv, TypeOK, Room, SocketBudget, Capacity, WarmupSockets, Idle
<1> QED BY <1>1, Inductive, PTL

\* A refill never overfills the bucket it fills.
THEOREM NeverOverfills == Spec => RefillNeverOverfills
<1>1. IInv /\ [Next]_vars =>
        [\A b \in Bucket : (live'[b] > live[b] /\ warm'[b] = warm[b])
                              => Idle(b)' <= PoolSize]_vars
  <2> SUFFICES ASSUME IInv, [Next]_vars, NEW b \in Bucket,
                      live'[b] > live[b], warm'[b] = warm[b]
               PROVE  Idle(b)' <= PoolSize
    OBVIOUS
  <2> USE WsPoolAssumption, ProcKinds
      DEF IInv, TypeOK, Idle, poolVars, backoffVars, taskVars
  <2>1. ASSUME NEW t \in Task, RefillPush(t) PROVE Idle(b)' <= PoolSize
    BY <2>1 DEF RefillPush
  <2>2. \A c \in Client : ~ClientStep(c)
    BY DEF ClientStep, GetHit, GetMiss, DirectConnected, ReportSuccess,
           ForgetFailures, ClearBackoff
  <2>3. \A p \in Scheduler : ~Schedule(p)
    BY DEF Schedule, ReserveCheck, ReserveRefused, ReserveAndSpawn
  <2>4. ASSUME NEW t \in Task, RefillStep(t) PROVE RefillPush(t)
    BY <2>4 DEF RefillStep, RefillCount, RefillDialled, ReportSuccess,
                ForgetFailures, ClearBackoff, FailureCount, FailureArm, GuardDrop
  <2>5. \A d \in Bucket :
          ~WarmupDial(d) /\ ~WarmupPush(d) /\ ~Spoil(d) /\ ~BackoffOver(d)
    BY DEF WarmupDial, WarmupPush, Spoil, BackoffOver
  <2>6. ~MaintainPass /\ ~MaintainNext /\ ~UNCHANGED vars
    BY DEF MaintainPass, MaintainNext, vars
  <2> QED BY <2>1, <2>2, <2>3, <2>4, <2>5, <2>6 DEF Next
<1> QED BY <1>1, Inductive, PTL DEF RefillNeverOverfills, Spec

\* The pool implements the lease of RefillLease: no step hands a bucket to a
\* second task, or to another one before the first has ended.
THEOREM ImplementsLease == Spec => LeaseSpec
<1> DEFINE holders == [b \in Bucket |-> {t \in Task : Alive(t) /\ at[t] = b}]
<1> USE ProcKinds
<1>1. Init => Lease!Init
  BY DEF Init, Lease!Init, Alive
<1>2. IInv /\ [Next]_vars => [Lease!Next]_holders
  <2> SUFFICES ASSUME IInv, [Next]_vars PROVE Lease!Next \/ holders' = holders
    OBVIOUS
  <2> USE DEF IInv, TypeOK
  <2>1. ASSUME \A t \in Task : Alive(t)' = Alive(t) /\ at'[t] = at[t]
        PROVE  holders' = holders
    BY <2>1
  <2>2. ASSUME NEW p \in Scheduler, NEW t \in Task, ReserveAndSpawn(p, t),
               NEW b \in Bucket, b = at[p]
        PROVE  Lease!Acquire(b, t)
    <3>1. /\ b \notin refilling
          /\ ~Alive(t) /\ Alive(t)' /\ at'[t] = b
          /\ \A u \in Task : u # t => Alive(u)' = Alive(u) /\ at'[u] = at[u]
      BY <2>2 DEF ReserveAndSpawn, Alive
    <3>2. holders[b] = {}
      BY <3>1 DEF SingleFlight
    <3>3. ASSUME NEW c \in Bucket
          PROVE  {u \in Task : Alive(u)' /\ at'[u] = c}
                   = IF c = b THEN {t} ELSE {u \in Task : Alive(u) /\ at[u] = c}
      BY <3>1, <3>2
    <3>4. holders' = [holders EXCEPT ![b] = {t}]
      BY <3>3
    <3>5. \A c \in Bucket : t \notin holders[c]
      BY <3>1
    <3> QED BY <3>2, <3>4, <3>5 DEF Lease!Acquire
  <2>3. ASSUME NEW t \in Task, GuardDrop(t), NEW b \in Bucket, b = at[t]
        PROVE  Lease!Release(b, t)
    <3>1. /\ Alive(t) /\ ~Alive(t)' /\ at' = at
          /\ \A u \in Task : u # t => Alive(u)' = Alive(u)
      BY <2>3 DEF GuardDrop, Alive
    <3>2. holders[b] = {t}
      BY <2>3, <3>1 DEF SingleFlight
    <3>3. ASSUME NEW c \in Bucket
          PROVE  {u \in Task : Alive(u)' /\ at'[u] = c}
                   = IF c = b THEN {} ELSE {u \in Task : Alive(u) /\ at[u] = c}
      BY <2>3, <3>1, <3>2
    <3>4. holders' = [holders EXCEPT ![b] = {}]
      BY <3>3
    <3> QED BY <3>2, <3>4 DEF Lease!Release
  <2>4. CASE UNCHANGED vars
    BY <2>1, <2>4 DEF vars, Alive
  <2>5. ASSUME NEW c \in Client, ClientStep(c) PROVE holders' = holders
    BY <2>1, <2>5
    DEF ClientStep, GetHit, GetMiss, DirectConnected, ReportSuccess, ForgetFailures,
        ClearBackoff, Alive
  <2>6. ASSUME NEW p \in Scheduler, ReserveCheck(p) \/ ReserveRefused(p)
        PROVE  holders' = holders
    BY <2>1, <2>6 DEF ReserveCheck, ReserveRefused, Alive
  <2>7. ASSUME NEW t \in Task, RefillStep(t), ~GuardDrop(t) PROVE holders' = holders
    BY <2>1, <2>7
    DEF RefillStep, RefillCount, RefillDialled, RefillPush, ReportSuccess,
        ForgetFailures, ClearBackoff, FailureCount, FailureArm, Alive
  <2>8. ASSUME NEW b \in Bucket,
               WarmupDial(b) \/ WarmupPush(b) \/ Spoil(b) \/ BackoffOver(b)
        PROVE  holders' = holders
    BY <2>1, <2>8 DEF WarmupDial, WarmupPush, Spoil, BackoffOver, taskVars, Alive
  <2>9. CASE MaintainPass \/ MaintainNext
    BY <2>1, <2>9 DEF MaintainPass, MaintainNext, taskVars, Alive
  <2>10. \A p \in Proc : at[p] \in Bucket
    OBVIOUS
  <2>11. ASSUME NEW p \in Scheduler, Schedule(p)
         PROVE  Lease!Next \/ holders' = holders
    <3> HIDE DEF holders, TypeOK, IInv
    <3>1. ASSUME NEW t \in Task, ReserveAndSpawn(p, t) PROVE Lease!Next
      <4>1. PICK b \in Bucket : b = at[p]
        BY <2>10, ProcKinds
      <4>2. Lease!Acquire(b, t)
        BY <2>2, <3>1, <4>1
      <4> QED BY <4>2 DEF Lease!Next
    <3> QED BY <2>11, <2>6, <3>1 DEF Schedule
  <2>12. ASSUME NEW t \in Task, RefillStep(t)
         PROVE  Lease!Next \/ holders' = holders
    <3> HIDE DEF holders, TypeOK, IInv
    <3>1. ASSUME GuardDrop(t) PROVE Lease!Next
      <4>1. PICK b \in Bucket : b = at[t]
        BY <2>10, ProcKinds
      <4>2. Lease!Release(b, t)
        BY <2>3, <3>1, <4>1
      <4> QED BY <4>2 DEF Lease!Next
    <3> QED BY <2>12, <2>7, <3>1
  <2> HIDE DEF holders, IInv, TypeOK
  <2> QED
    BY <2>4, <2>5, <2>8, <2>9, <2>11, <2>12 DEF Next
<1> QED BY <1>1, <1>2, Inductive, PTL DEF LeaseSpec, Lease!Spec, Spec
=============================================================================
