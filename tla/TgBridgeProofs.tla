--------------------------- MODULE TgBridgeProofs ---------------------------
(* Theorems about the bridge's switch, for every set of callers and every     *)
(* number of starts.                                                          *)
EXTENDS TgBridge, TLAPS

\* A server exists once its epoch is reached.
Unborn == \A s \in Server : s > epoch => srv[s] = "none"

Past(s) == srv[s] \in {"none", "done"}

\* What a start waits for before it spawns: the last server, unless that one has
\* ended already.
Owed(k) == k = epoch \/ epoch = 0 \/ srv[epoch] = "done"

\* Without overlapping starts one server at most is alive, the last one, and
\* whoever is about to start the next waits for it.
Alone ==
  ~overlap =>
    /\ \A s \in Server : s # epoch => Past(s)
    /\ \A c, d \in Pending : c = d
    /\ \A c \in Caller : pc[c] = "wait" => Owed(waits[c])
    /\ (\A c \in Caller : pc[c] # "wait") => Owed(doneRx)

\* ... and the link shown is its link.
Link ==
  ~overlap =>
    /\ listen # 0 => /\ listen = epoch
                     /\ srv[epoch] \in {"serving", "rebinding", "closing", "returned"}
    /\ (tx # 0 /\ srv[tx] \in {"serving", "rebinding"}) => listen = tx

IInv == TypeOK /\ Unborn /\ RunningIsAlive /\ Alone /\ Link

-----------------------------------------------------------------------------
LEMMA Servers == \A s \in Server : s \in Nat /\ s # 0 /\ s <= MaxStarts
BY TgBridgeAssumption DEF Server

LEMMA InitIInv == Init => IInv
<1> SUFFICES ASSUME Init PROVE IInv
  OBVIOUS
<1>1. TypeOK
  <2> USE TgBridgeAssumption DEF Init
  <2>1. epoch \in 0..MaxStarts /\ listen \in 0..epoch /\ tx \in {0, epoch}
        /\ doneRx \in {0, epoch}
    OBVIOUS
  <2>2. srv \in [Server -> {"none"}] /\ answer \in [Server -> {"none"}]
    OBVIOUS
  <2>3. pc \in [Caller -> {"idle"}] /\ waits \in [Caller -> {0}]
    OBVIOUS
  <2>4. foreign \in BOOLEAN /\ overlap \in BOOLEAN
    OBVIOUS
  <2> QED BY <2>1, <2>2, <2>3, <2>4 DEF TypeOK
<1>2. Unborn /\ RunningIsAlive
  BY DEF Init, Unborn, RunningIsAlive
<1>3. Alone
  BY DEF Init, Alone, Past, Pending, Owed
<1>4. Link
  BY DEF Init, Link
<1> QED BY <1>1, <1>2, <1>3, <1>4 DEF IInv

-----------------------------------------------------------------------------
LEMMA ServerKeepsIInv ==
  ASSUME IInv, NEW s \in Server, ServerStep(s) \/ AcceptBroken(s) \/ Rebound(s)
  PROVE  IInv'
<1> USE TgBridgeAssumption, Servers DEF IInv, TypeOK
<1>1. CASE Bind(s)
  <2> USE <1>1 DEF Bind, ServerMoves, inner, servers, callers
  <2>1. TypeOK'
    BY DEF Unborn
  <2>2. Unborn' /\ RunningIsAlive'
    BY DEF Unborn, RunningIsAlive
  <2>3. Alone'
    BY DEF Alone, Past, Pending, Owed, Unborn
  <2>4. Link'
    BY DEF Link, Alone, Past, Unborn, RunningIsAlive
  <2> QED BY <2>1, <2>2, <2>3, <2>4
<1>2. CASE OnListen(s)
  <2> USE <1>2 DEF OnListen, ServerMoves, inner, servers, callers
  <2>1. TypeOK'
    BY DEF Unborn
  <2>2. Unborn' /\ RunningIsAlive'
    BY DEF Unborn, RunningIsAlive
  <2>3. Alone'
    BY DEF Alone, Past, Pending, Owed, Unborn
  <2>4. Link'
    BY DEF Link, Alone, Past, Unborn, RunningIsAlive
  <2> QED BY <2>1, <2>2, <2>3, <2>4
<1>3. CASE AcceptBroken(s)
  <2> USE <1>3 DEF AcceptBroken, ServerMoves, inner, servers, callers
  <2>1. TypeOK'
    BY DEF Unborn
  <2>2. Unborn' /\ RunningIsAlive'
    BY DEF Unborn, RunningIsAlive
  <2>3. Alone'
    BY DEF Alone, Past, Pending, Owed, Unborn
  <2>4. Link'
    BY DEF Link, Alone, Past, Unborn, RunningIsAlive
  <2> QED BY <2>1, <2>2, <2>3, <2>4
<1>4. CASE Rebound(s)
  <2> USE <1>4 DEF Rebound, ServerMoves, inner, servers, callers
  <2>1. TypeOK'
    BY DEF Unborn
  <2>2. Unborn' /\ RunningIsAlive'
    BY DEF Unborn, RunningIsAlive
  <2>3. Alone'
    BY DEF Alone, Past, Pending, Owed, Unborn
  <2>4. Link'
    BY DEF Link, Alone, Past, Unborn, RunningIsAlive
  <2> QED BY <2>1, <2>2, <2>3, <2>4
<1>5. CASE ShutdownSeen(s)
  <2> USE <1>5 DEF ShutdownSeen, ServerMoves, inner, servers, callers
  <2>0. srv'[s] \in {"closing", "returned"} /\ \A t \in Server : t # s => srv'[t] = srv[t]
    OBVIOUS
  <2>1. TypeOK'
    BY DEF Unborn
  <2>2. Unborn' /\ RunningIsAlive'
    <3>1. Unborn'
      BY <2>0 DEF Unborn
    <3>2. tx' # 0 => tx' \in Server /\ tx' # s
      BY DEF Server
    <3>3. RunningIsAlive'
      BY <2>0, <3>2 DEF RunningIsAlive
    <3> QED BY <3>1, <3>3
  <2>3. Alone'
    BY <2>0 DEF Alone, Past, Pending, Owed, Unborn
  <2>4. Link'
    BY <2>0 DEF Link, Alone, Past, Unborn, RunningIsAlive
  <2> QED BY <2>1, <2>2, <2>3, <2>4
<1>6. CASE Closed(s)
  <2> USE <1>6 DEF Closed, ServerMoves, inner, servers, callers
  <2>1. TypeOK'
    BY DEF Unborn
  <2>2. Unborn' /\ RunningIsAlive'
    BY DEF Unborn, RunningIsAlive
  <2>3. Alone'
    BY DEF Alone, Past, Pending, Owed, Unborn
  <2>4. Link'
    BY DEF Link, Alone, Past, Unborn, RunningIsAlive
  <2> QED BY <2>1, <2>2, <2>3, <2>4
<1>7. CASE Ended(s)
  <2> USE <1>7 DEF Ended, inner, servers, callers
  <2>1. TypeOK'
    BY DEF Unborn
  <2>2. Unborn' /\ RunningIsAlive'
    BY DEF Unborn, RunningIsAlive
  <2>3. Alone'
    BY DEF Alone, Past, Pending, Owed, Unborn
  <2>4. Link'
    BY DEF Link, Alone, Past, Unborn, RunningIsAlive
  <2> QED BY <2>1, <2>2, <2>3, <2>4
<1> QED BY <1>1, <1>2, <1>3, <1>4, <1>5, <1>6, <1>7 DEF ServerStep

LEMMA CallerKeepsIInv ==
  ASSUME IInv, NEW c \in Caller, StartAsked(c) \/ StartStep(c)
  PROVE  IInv'
<1> USE TgBridgeAssumption, Servers DEF IInv, TypeOK
<1>1. CASE StartAsked(c)
  <2> USE <1>1 DEF StartAsked, inner, servers, callers
  <2>0. doneRx \in Server \cup {0}
    BY DEF Server
  <2>a. overlap' \in BOOLEAN
    OBVIOUS
  <2>b. waits' \in [Caller -> Server \cup {0}]
    BY <2>0
  <2>1. TypeOK'
    BY <2>a, <2>b DEF Unborn
  <2>2. Unborn' /\ RunningIsAlive'
    BY DEF Unborn, RunningIsAlive
  <2>3. Alone'
    BY DEF Alone, Past, Pending, Owed, Unborn
  <2>4. Link'
    BY DEF Link, Alone, Past, Unborn, RunningIsAlive
  <2> QED BY <2>1, <2>2, <2>3, <2>4
<1>2. CASE StartRejected(c)
  <2> USE <1>2 DEF StartRejected, Waited, inner, servers, callers
  <2>1. TypeOK'
    BY DEF Unborn
  <2>2. Unborn' /\ RunningIsAlive'
    BY DEF Unborn, RunningIsAlive
  <2>3. Alone'
    BY DEF Alone, Past, Pending, Owed, Unborn
  <2>4. Link'
    BY DEF Link, Alone, Past, Unborn, RunningIsAlive
  <2> QED BY <2>1, <2>2, <2>3, <2>4
<1>3. CASE StartSpawns(c)
  <2> USE <1>3 DEF StartSpawns, Waited, inner, servers, callers
  <2>0. epoch + 1 \in Server /\ epoch' = epoch + 1 /\ srv[epoch + 1] = "none"
    BY DEF Server, Unborn
  <2>a. \A t \in Server : t # epoch + 1 => srv'[t] = srv[t]
    BY <2>0
  <2>b. srv'[epoch + 1] = "spawned"
    BY <2>0
  <2>1. TypeOK'
    BY <2>0 DEF Unborn
  <2>2. Unborn' /\ RunningIsAlive'
    BY <2>0, <2>a, <2>b DEF Unborn, RunningIsAlive
  <2>3. Alone'
    BY <2>0, <2>a, <2>b DEF Alone, Past, Pending, Owed, Unborn
  <2>4. Link'
    BY <2>0, <2>a, <2>b DEF Link, Alone, Past, Unborn, RunningIsAlive
  <2> QED BY <2>1, <2>2, <2>3, <2>4
<1>4. CASE StartReturns(c)
  <2> USE <1>4 DEF StartReturns, inner, servers, callers
  <2>1. TypeOK'
    BY DEF Unborn
  <2>2. Unborn' /\ RunningIsAlive'
    BY DEF Unborn, RunningIsAlive
  <2>3. Alone'
    BY DEF Alone, Past, Pending, Owed, Unborn
  <2>4. Link'
    BY DEF Link, Alone, Past, Unborn, RunningIsAlive
  <2> QED BY <2>1, <2>2, <2>3, <2>4
<1> QED BY <1>1, <1>2, <1>3, <1>4 DEF StartStep

LEMMA RestKeepsIInv ==
  ASSUME IInv, Stop \/ ForeignMoves \/ UNCHANGED vars
  PROVE  IInv'
<1> USE DEF IInv, TypeOK, Unborn, RunningIsAlive, Alone, Past, Pending, Owed, Link,
        inner, servers, callers
<1>1. CASE Stop
  BY <1>1, TgBridgeAssumption DEF Stop
<1>2. CASE ForeignMoves
  BY <1>2 DEF ForeignMoves
<1>3. CASE UNCHANGED vars
  BY <1>3 DEF vars
<1> QED BY <1>1, <1>2, <1>3

LEMMA StepIInv == IInv /\ [Next]_vars => IInv'
<1> SUFFICES ASSUME IInv, [Next]_vars PROVE IInv'
  OBVIOUS
<1>1. ASSUME NEW c \in Caller, StartAsked(c) \/ StartStep(c) PROVE IInv'
  BY <1>1, CallerKeepsIInv
<1>2. ASSUME NEW s \in Server, ServerStep(s) \/ AcceptBroken(s) \/ Rebound(s)
      PROVE IInv'
  BY <1>2, ServerKeepsIInv
<1> QED BY <1>1, <1>2, RestKeepsIInv DEF Next

\* The strengthened invariant holds of every behaviour of the switch.
THEOREM Inductive == Spec => []IInv
BY InitIInv, StepIInv, PTL DEF Spec

\* Every variable keeps its type; the shutdown handle and the done channel are
\* always the last start's (telegram.rs:109).
THEOREM TypeCorrect == Spec => []TypeOK
<1>1. IInv => TypeOK
  BY DEF IInv
<1> QED BY <1>1, Inductive, PTL

\* While status says "running" the task it speaks of has not ended
\* (telegram.rs:140).
THEOREM Alive == Spec => []RunningIsAlive
<1>1. IInv => RunningIsAlive
  BY DEF IInv
<1> QED BY <1>1, Inductive, PTL

\* In a settled state the link shown is the running server's (telegram.rs:129).
THEOREM LinkIsTrue == Spec => []SettledStatus
<1>1. IInv => SettledStatus
  <2> SUFFICES ASSUME IInv, Settled, ~overlap PROVE listen = tx
    BY DEF SettledStatus
  <2> USE TgBridgeAssumption, Servers DEF IInv, TypeOK, Link, Settled, RunningIsAlive
  <2>1. CASE listen = 0
    <3>1. SUFFICES ASSUME tx # 0 PROVE FALSE
      BY <2>1
    <3>2. tx \in Server /\ srv[tx] \in {"serving", "rebinding"}
      BY <3>1 DEF Server
    <3> QED BY <2>1, <3>1, <3>2
  <2>2. CASE listen # 0
    <3>1. listen \in Server /\ srv[listen] \in {"serving", "rebinding"}
      BY <2>2 DEF Server
    <3> QED BY <3>1
  <2> QED BY <2>1, <2>2
<1> QED BY <1>1, Inductive, PTL

-----------------------------------------------------------------------------
\* The end of an old server never takes a newer one's shutdown handle
\* (telegram.rs:139).
THEOREM SparesNew == Spec => OldSparesNew
<1> DEFINE A == (tx # 0 /\ tx' = 0 /\ srv' # srv) => srv'[tx] = "done"
<1>1. IInv /\ [Next]_vars => [A]_vars
  <2> SUFFICES ASSUME IInv, Next, tx # 0, tx' = 0, srv' # srv PROVE srv'[tx] = "done"
    OBVIOUS
  <2> USE TgBridgeAssumption, Servers DEF IInv, TypeOK, inner, servers, callers
  <2>1. ASSUME NEW c \in Caller, StartAsked(c) \/ StartStep(c) PROVE FALSE
    BY <2>1 DEF StartAsked, StartStep, StartRejected, StartSpawns, StartReturns
  <2>2. ASSUME NEW s \in Server,
               Bind(s) \/ OnListen(s) \/ ShutdownSeen(s) \/ Closed(s)
                 \/ AcceptBroken(s) \/ Rebound(s)
        PROVE FALSE
    BY <2>2 DEF Bind, OnListen, ShutdownSeen, Closed, AcceptBroken, Rebound, ServerMoves
  <2>3. ASSUME NEW s \in Server, Ended(s) PROVE srv'[tx] = "done"
    BY <2>3 DEF Ended
  <2>4. ~Stop /\ ~ForeignMoves
    BY DEF Stop, ForeignMoves
  <2> QED BY <2>1, <2>2, <2>3, <2>4 DEF Next, ServerStep
<1> QED BY <1>1, Inductive, PTL DEF Spec, OldSparesNew

\* A start spawns its server only when the last one has given the port back, as
\* long as no two starts were under way together (telegram.rs:67).
THEOREM PortIsFree == Spec => FastRestart
<1> DEFINE A == (epoch' # epoch /\ ~overlap) => \A s \in Server : ~Holds(s)
<1>1. IInv /\ [Next]_vars => [A]_vars
  <2> SUFFICES ASSUME IInv, Next, epoch' # epoch, ~overlap, NEW s \in Server
               PROVE  ~Holds(s)
    OBVIOUS
  <2> USE TgBridgeAssumption, Servers DEF IInv, TypeOK, inner, servers, callers
  <2>1. PICK c \in Caller : StartSpawns(c)
    <3>1. ASSUME NEW c \in Caller, StartAsked(c) \/ StartRejected(c) \/ StartReturns(c)
          PROVE FALSE
      BY <3>1 DEF StartAsked, StartRejected, StartReturns
    <3>2. ASSUME NEW t \in Server, ServerStep(t) \/ AcceptBroken(t) \/ Rebound(t)
          PROVE FALSE
      BY <3>2 DEF ServerStep, Bind, OnListen, ShutdownSeen, Closed, Ended,
                  AcceptBroken, Rebound, ServerMoves
    <3>3. ~Stop /\ ~ForeignMoves
      BY DEF Stop, ForeignMoves
    <3> QED BY <3>1, <3>2, <3>3 DEF Next, StartStep
  <2>2. Owed(waits[c]) /\ (waits[c] # 0 => srv[waits[c]] = "done")
    BY <2>1 DEF StartSpawns, Waited, Alone
  <2>3. Past(s)
    BY <2>2 DEF Alone, Past, Owed, Unborn
  <2> QED BY <2>3 DEF Past, Holds
<1> QED BY <1>1, Inductive, PTL DEF Spec, FastRestart
=============================================================================
