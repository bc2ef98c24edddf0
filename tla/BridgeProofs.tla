------------------------------ MODULE BridgeProofs ------------------------------
(* Of the bridge.  Its server, for any number of connections and any               *)
(* max_connections: no permit is lost or given twice, and no more sockets are open  *)
(* than there are permits.  The Cloudflare pool, for any number of buckets, clients *)
(* and refill tasks and any pool size: no bucket overfills, and its refills are     *)
(* leases of their buckets.  Then all parts of the bridge together.                 *)
EXTENDS MCBridge, RouteProofs, SplitProofs, FiniteSetTheorems, TLAPS

----------------------------------------------------------------------------
(* The server.                                                                *)

Busy      == {c \in Conn : at[c] # "off"}
OpenConns == {c \in Conn : Open(c)}
Held      == IF LoopHolds THEN 1 ELSE 0
Stopping  == srv \in {"ending", "ended"}

\* Every permit is free, with a client or with the loop.
Counted == permits + Cardinality(Busy) + Held = MaxConn

\* Until the shutdown an upload belongs to a client's task.
Attached == ~Stopping => \A c \in Conn : Transferring(c) => at[c] # "off"

Within == Cardinality(OpenConns) <= MaxConn

\* A listener that has failed MaxErrors times is not asked again.
Few == srv \in {"off", "permit", "accept", "pause"} => errors < MaxErrors

IInv == BridgeServerTypeOK /\ Counted /\ Attached /\ Within /\ Few

LEMMA Finite ==
  /\ IsFiniteSet(Busy) /\ Cardinality(Busy) \in Nat
  /\ IsFiniteSet(OpenConns) /\ Cardinality(OpenConns) \in Nat
<1>1. IsFiniteSet(Conn)
  BY BridgeServerAssumption
<1>2. Busy \subseteq Conn /\ OpenConns \subseteq Conn
  BY DEF Busy, OpenConns
<1>3. IsFiniteSet(Busy) /\ IsFiniteSet(OpenConns)
  BY <1>1, <1>2, FS_Subset
<1> QED
  BY <1>3, FS_CardinalityType

LEMMA FewerOpen ==
  ASSUME IInv, OpenConns' \subseteq OpenConns
  PROVE  Within'
<1>1. IsFiniteSet(OpenConns) /\ Cardinality(OpenConns) \in Nat
  BY Finite
<1>2. Cardinality(OpenConns') \in Nat /\ Cardinality(OpenConns') <= Cardinality(OpenConns)
  BY <1>1, FS_Subset, FS_CardinalityType
<1> QED
  BY <1>1, <1>2, BridgeServerAssumption DEF IInv, Within

LEMMA IInvInit == BridgeServerInit => IInv
<1> SUFFICES ASSUME BridgeServerInit PROVE IInv
  OBVIOUS
<1>1. BridgeServerTypeOK /\ Few
  <2>1. permits \in 0..MaxConn /\ errors \in 0..MaxErrors /\ Few
    BY BridgeServerAssumption DEF BridgeServerInit, MaxErrors, Few
  <2>2. /\ at \in [Conn -> ClientStates]
        /\ upload \in [Conn -> {"none", "read", "send", "close", "done"}]
        /\ download \in [Conn -> {"none", "read", "write", "done"}]
        /\ gone \in [Conn -> BOOLEAN] /\ cut \in [Conn -> BOOLEAN]
    BY DEF BridgeServerInit, ClientStates
  <2> QED
    BY <2>1, <2>2 DEF BridgeServerInit, BridgeServerTypeOK, ServerStates
<1>2. Busy = {} /\ OpenConns = {} /\ Held = 0 /\ Attached
  BY DEF BridgeServerInit, Busy, OpenConns, Open, Transferring, Held, LoopHolds, Attached
<1>3. Counted /\ Within
  BY <1>2, FS_EmptySet, BridgeServerAssumption DEF Counted, Within, BridgeServerInit
<1> QED
  BY <1>1, <1>2, <1>3 DEF IInv

\* While every upload has its client, the permits bound the sockets.
LEMMA CountedWithin ==
  ASSUME BridgeServerTypeOK, Counted, Attached, ~Stopping
  PROVE  Within
<1>1. OpenConns = Busy
  BY DEF OpenConns, Busy, Open, Attached
<1>2. Cardinality(Busy) \in Nat
  BY Finite
<1> QED
  BY <1>1, <1>2, BridgeServerAssumption DEF Within, Counted, BridgeServerTypeOK, Held

\* A step of the loop that moves at most its own permit.
LEMMA LoopKeeps ==
  ASSUME IInv, UNCHANGED clientVars, srv' \in ServerStates, stop' \in BOOLEAN,
         errors' \in 0..MaxErrors, permits' \in 0..MaxConn,
         permits' + Held' = permits + Held, Stopping => Stopping', Few'
  PROVE  IInv'
<1>1. BridgeServerTypeOK'
  BY DEF IInv, BridgeServerTypeOK, clientVars
<1>2. Busy' = Busy /\ OpenConns' = OpenConns
  BY DEF Busy, OpenConns, Open, Transferring, clientVars
<1>3. Counted'
  <2>1. PICK n \in Nat : n = Cardinality(Busy)
    BY Finite
  <2>2. PICK p \in Nat : p = permits
    BY DEF IInv, BridgeServerTypeOK
  <2>3. PICK q \in Nat : q = permits'
    OBVIOUS
  <2>4. PICK h \in Nat : h = Held
    BY DEF Held
  <2>5. PICK k \in Nat : k = Held'
    BY DEF Held
  <2>6. p + n + h = MaxConn
    BY <2>1, <2>2, <2>4 DEF IInv, Counted
  <2>7. q + k = p + h
    BY <2>2, <2>3, <2>4, <2>5
  <2>8. q + n + k = MaxConn
    BY <2>6, <2>7
  <2> QED
    BY <1>2, <2>1, <2>3, <2>5, <2>8 DEF Counted
<1>4. Attached'
  BY DEF IInv, Attached, Transferring, clientVars
<1>5. Within'
  BY <1>2 DEF IInv, Within
<1> QED
  BY <1>1, <1>3, <1>4, <1>5 DEF IInv

LEMMA LoopInductive ==
  ASSUME IInv, \/ ServerStarts \/ ShutdownAsked \/ TakesPermit \/ AcceptStarved \/ AcceptFails
               \/ PauseOver \/ Rebinds \/ Breaks \/ ServerEnds
  PROVE  IInv'
<1> USE DEF ServerStates, MaxErrors, Few, Stopping, Held, LoopHolds
<1>0. /\ BridgeServerTypeOK /\ Cardinality(Busy) \in Nat /\ MaxConn \in Nat
      /\ permits + Cardinality(Busy) + Held = MaxConn /\ Few
  BY Finite, BridgeServerAssumption DEF IInv, Counted
<1>1. CASE ServerStarts
  BY <1>0, <1>1, LoopKeeps DEF ServerStarts, BridgeServerTypeOK
<1>2. CASE ShutdownAsked
  BY <1>0, <1>2, LoopKeeps DEF ShutdownAsked, BridgeServerTypeOK
<1>3. CASE TakesPermit
  BY <1>0, <1>3, LoopKeeps DEF TakesPermit, BridgeServerTypeOK
<1>4. CASE AcceptStarved
  BY <1>0, <1>4, LoopKeeps DEF AcceptStarved, BridgeServerTypeOK
<1>5. CASE AcceptFails
  BY <1>0, <1>5, LoopKeeps DEF AcceptFails, BridgeServerTypeOK
<1>6. CASE PauseOver
  BY <1>0, <1>6, LoopKeeps DEF PauseOver, BridgeServerTypeOK
<1>7. CASE Rebinds
  BY <1>0, <1>7, LoopKeeps DEF Rebinds, BridgeServerTypeOK
<1>8. CASE Breaks
  BY <1>0, <1>8, LoopKeeps DEF Breaks, BridgeServerTypeOK
<1>9. CASE ServerEnds
  BY <1>0, <1>9, LoopKeeps DEF ServerEnds, BridgeServerTypeOK
<1> QED
  BY <1>1, <1>2, <1>3, <1>4, <1>5, <1>6, <1>7, <1>8, <1>9

\* The permit of the loop goes to a client whose slot was free of uploads, too.
LEMMA AcceptsInductive ==
  ASSUME IInv, NEW c \in Conn, Accepts(c)
  PROVE  IInv'
<1>1. BridgeServerTypeOK'
  BY DEF IInv, BridgeServerTypeOK, Accepts, ServerStates, ClientStates, MaxErrors
<1>2. c \notin Busy /\ Busy' = Busy \cup {c}
  BY DEF IInv, BridgeServerTypeOK, Accepts, Busy, Open
<1>3. Cardinality(Busy') = Cardinality(Busy) + 1
  BY <1>2, Finite, FS_AddElement
<1>4. Counted'
  <2>1. Cardinality(Busy) \in Nat /\ Held = 1 /\ Held' = 0
    BY Finite DEF Held, LoopHolds, Accepts
  <2> QED
    BY <1>3, <2>1, BridgeServerAssumption DEF IInv, Counted, BridgeServerTypeOK, Accepts
<1>5. Attached'
  BY DEF IInv, BridgeServerTypeOK, Attached, Stopping, Transferring, Accepts
<1>6. ~Stopping' /\ Few'
  BY DEF Stopping, Few, Accepts, MaxErrors
<1>7. Within'
  <2>1. Cardinality(Busy') \in Nat /\ Cardinality(Busy') <= MaxConn
    <3>1. Cardinality(Busy) \in Nat /\ Held' \in Nat
      BY Finite DEF Held
    <3> QED
      BY <1>1, <1>3, <1>4, <3>1, BridgeServerAssumption DEF Counted, BridgeServerTypeOK
  <2>2. OpenConns' = Busy'
    BY <1>5, <1>6 DEF OpenConns, Busy, Open, Attached
  <2> QED
    BY <2>1, <2>2 DEF Within
<1> QED
  BY <1>1, <1>4, <1>5, <1>6, <1>7 DEF IInv

\* The task of a client ends: its permit is free, its sockets are closed unless the
\* server is going down.
LEMMA LeavesInductive ==
  ASSUME IInv, NEW c \in Conn, at[c] # "off", NEW up, Leaves(c, up),
         \/ up = "none" /\ UNCHANGED cut
         \/ up = upload[c] /\ srv = "ending" /\ cut' = [cut EXCEPT ![c] = TRUE]
  PROVE  IInv'
<1>1. Busy' = Busy \ {c} /\ c \in Busy
  BY DEF IInv, BridgeServerTypeOK, Leaves, Busy
<1>2. PICK n \in Nat : n = Cardinality(Busy)
  BY Finite
<1>3. PICK m \in Nat : m = Cardinality(Busy')
  <2>1. IsFiniteSet(Busy')
    BY <1>1, Finite, FS_Subset
  <2> QED
    BY <2>1, FS_CardinalityType
<1>4. m = n - 1
  BY <1>1, <1>2, <1>3, Finite, FS_RemoveElement
<1>5. PICK p \in Nat : p = permits
  BY BridgeServerAssumption DEF IInv, BridgeServerTypeOK
<1>6. PICK h \in Nat : h = Held
  BY DEF Held
<1>7. permits' = p + 1 /\ Held' = h
  BY <1>5, <1>6 DEF Leaves, Held, LoopHolds
<1>8. p + n + h = MaxConn
  BY <1>2, <1>5, <1>6 DEF IInv, Counted
<1>9. Counted'
  <2>1. (p + 1) + m + h = MaxConn
    BY <1>4, <1>8
  <2> QED
    BY <2>1, <1>3, <1>7 DEF Counted
<1>10. BridgeServerTypeOK'
  <2>1. permits' \in 0..MaxConn
    BY <1>3, <1>4, <1>7, <1>8, BridgeServerAssumption
  <2>2. /\ at' \in [Conn -> ClientStates]
        /\ upload' \in [Conn -> {"none", "read", "send", "close", "done"}]
        /\ download' \in [Conn -> {"none", "read", "write", "done"}]
        /\ cut' \in [Conn -> BOOLEAN]
    BY DEF IInv, BridgeServerTypeOK, Leaves, ClientStates
  <2> QED
    BY <2>1, <2>2 DEF IInv, BridgeServerTypeOK, Leaves
<1>11. Attached'
  BY DEF IInv, BridgeServerTypeOK, Attached, Stopping, Transferring, Leaves
<1>12. Within'
  <2>1. OpenConns' \subseteq OpenConns
    BY DEF IInv, BridgeServerTypeOK, OpenConns, Open, Transferring, Leaves
  <2> QED
    BY <2>1, FewerOpen
<1>13. Few'
  BY DEF IInv, Few, Leaves
<1> QED
  BY <1>9, <1>10, <1>11, <1>12, <1>13 DEF IInv

\* A step of a client, its uploads or its downloads that leaves it where it is.
LEMMA QuietKeeps ==
  ASSUME IInv, BridgeServerTypeOK', UNCHANGED <<srv, permits, errors, stop>>,
         Busy' = Busy, OpenConns' \subseteq OpenConns, Attached'
  PROVE  IInv'
<1>1. Counted'
  BY DEF IInv, Counted, Held, LoopHolds
<1>2. Within' /\ Few'
  BY FewerOpen DEF IInv, Few
<1> QED
  BY <1>1, <1>2 DEF IInv

LEMMA GoesKeeps ==
  ASSUME IInv, NEW c \in Conn, NEW from \in ClientStates \ {"off"},
         NEW to \in ClientStates \ {"off"}, Goes(c, from, to)
  PROVE  IInv'
<1>1. BridgeServerTypeOK'
  BY DEF IInv, BridgeServerTypeOK, Goes
<1>2. Busy' = Busy /\ OpenConns' \subseteq OpenConns /\ Attached'
  BY DEF IInv, BridgeServerTypeOK, Goes, Busy, OpenConns, Open, Transferring, Attached, Stopping
<1> QED
  BY <1>1, <1>2, QuietKeeps DEF Goes

LEMMA BridgeBeginsKeeps ==
  ASSUME IInv, NEW c \in Conn, NEW from \in ClientStates \ {"off"},
         NEW half \in {"send", "read"}, BridgeBegins(c, from, half)
  PROVE  IInv'
<1>1. BridgeServerTypeOK'
  BY DEF IInv, BridgeServerTypeOK, ClientStates, BridgeBegins
<1>2. Busy' = Busy /\ OpenConns' \subseteq OpenConns /\ Attached'
  BY DEF IInv, BridgeServerTypeOK, BridgeBegins, Busy, OpenConns, Open, Transferring,
         Attached, Stopping
<1> QED
  BY <1>1, <1>2, QuietKeeps DEF BridgeBegins

LEMMA UploadGoesKeeps ==
  ASSUME IInv, NEW c \in Conn, NEW from \in {"read", "send", "close"},
         NEW to \in {"read", "send", "close", "done"}, UploadGoes(c, from, to)
  PROVE  IInv'
<1>1. BridgeServerTypeOK'
  BY DEF IInv, BridgeServerTypeOK, UploadGoes
<1>2. Busy' = Busy /\ OpenConns' \subseteq OpenConns /\ Attached'
  BY DEF IInv, BridgeServerTypeOK, UploadGoes, Busy, OpenConns, Open, Transferring,
         Attached, Stopping
<1> QED
  BY <1>1, <1>2, QuietKeeps DEF UploadGoes

LEMMA DownloadGoesKeeps ==
  ASSUME IInv, NEW c \in Conn, NEW from, NEW to \in {"read", "write", "done"},
         DownloadGoes(c, from, to)
  PROVE  IInv'
<1>1. BridgeServerTypeOK'
  BY DEF IInv, BridgeServerTypeOK, DownloadGoes
<1>2. Busy' = Busy /\ OpenConns' \subseteq OpenConns /\ Attached'
  BY DEF IInv, DownloadGoes, Busy, OpenConns, Open, Transferring, Attached, Stopping
<1> QED
  BY <1>1, <1>2, QuietKeeps DEF DownloadGoes

LEMMA ClientGoesKeeps ==
  ASSUME IInv, NEW c \in Conn, ClientGoes(c)
  PROVE  IInv'
<1>1. BridgeServerTypeOK'
  BY DEF IInv, BridgeServerTypeOK, ClientGoes
<1>2. Busy' = Busy /\ OpenConns' \subseteq OpenConns /\ Attached'
  BY DEF IInv, ClientGoes, Busy, OpenConns, Open, Transferring, Attached, Stopping
<1> QED
  BY <1>1, <1>2, QuietKeeps DEF ClientGoes

LEMMA ClientStepInductive ==
  ASSUME IInv, NEW c \in Conn, ClientStep(c)
  PROVE  IInv'
<1> USE DEF ClientStates
<1>1. CASE HandshakeRead(c)
  BY <1>1, GoesKeeps DEF HandshakeRead
<1>2. CASE HandshakeOver(c) \/ DrainOver(c)
  BY <1>2, LeavesInductive DEF HandshakeOver, DrainOver
<1>3. CASE Routed(c)
  BY <1>3, BridgeBeginsKeeps, GoesKeeps, LeavesInductive DEF Routed
<1>8. CASE UpstreamDone(c)
  BY <1>8, BridgeBeginsKeeps, GoesKeeps DEF UpstreamDone
<1>4. CASE Dialled(c)
  BY <1>4, BridgeBeginsKeeps, LeavesInductive DEF Dialled
<1>5. CASE UploadStep(c)
  BY <1>5, UploadGoesKeeps DEF UploadStep, UploadReads, UploadOver, UploadSends, UploadCloses
<1>6. CASE DownloadStep(c)
  BY <1>6, DownloadGoesKeeps
     DEF DownloadStep, DownloadReads, DownloadOver, DownloadWrites, DownloadFails
<1>7. CASE JoinsUpload(c) \/ JoinsDownload(c)
  BY <1>7, LeavesInductive DEF JoinsUpload, JoinsDownload
<1> QED
  BY <1>1, <1>2, <1>3, <1>4, <1>5, <1>6, <1>7, <1>8 DEF ClientStep

LEMMA IInvInductive == IInv /\ [BridgeServerNext]_serverVars => IInv'
<1> SUFFICES ASSUME IInv, [BridgeServerNext]_serverVars PROVE IInv'
  OBVIOUS
<1>1. CASE LoopStep \/ ShutdownAsked
  BY <1>1, LoopInductive, AcceptsInductive DEF LoopStep
<1>2. ASSUME NEW c \in Conn, ClientStep(c) PROVE IInv'
  BY <1>2, ClientStepInductive
<1>3. ASSUME NEW c \in Conn, ShutsDown(c) PROVE IInv'
  BY <1>3, LeavesInductive DEF ShutsDown
<1>4. ASSUME NEW c \in Conn, ClientGoes(c) PROVE IInv'
  BY <1>4, ClientGoesKeeps
<1>5. CASE UNCHANGED serverVars
  BY <1>5 DEF serverVars, IInv, BridgeServerTypeOK, Counted, Attached, Within, Few, Busy,
              OpenConns, Open, Transferring, Held, LoopHolds, Stopping
<1> QED
  BY <1>1, <1>2, <1>3, <1>4, <1>5 DEF BridgeServerNext

LEMMA IInvImplies == IInv => BridgeServerTypeOK /\ SlotBudget
BY DEF IInv, Counted, Within, SlotBudget, Busy, OpenConns, Held

LEMMA IInvAlways == BridgeServerSpec => []IInv
BY IInvInit, IInvInductive, PTL DEF BridgeServerSpec

\* Every variable of the server keeps its range: no permit beyond max_connections
\* and never a fourth error in a row (run_with_listen).
THEOREM ServerTyped == BridgeServerSpec => []BridgeServerTypeOK
BY IInvImplies, IInvAlways, PTL

\* For any number of clients and any limit: the permits that are free, with clients
\* and with the loop are max_connections, and no more sockets of clients are open,
\* the uploads a shutdown leaves alone included (run_with_listen, join_bridge).
THEOREM SlotsKept == BridgeServerSpec => []SlotBudget
BY IInvImplies, IInvAlways, PTL

----------------------------------------------------------------------------
(* The Cloudflare pool.                                                       *)

\* Each refill task owns the mark of its bucket, and no two own the same.
Marks ==
  /\ \A t \in CfTask : refill[t].at # "free" => refill[t].key \in reserved
  /\ \A t, u \in CfTask :
       refill[t].at # "free" /\ refill[u].at # "free" /\ refill[t].key = refill[u].key
         => t = u

\* A task is free exactly when it has no bucket.
LEMMA TaskKinds ==
  ASSUME CfTypeOK, NEW t \in CfTask
  PROVE  \/ refill[t].at = "free" /\ refill[t].key = NoKey /\ refill[t] = NoTask
         \/ refill[t].at \in {"count", "dial", "push", "drop"} /\ refill[t].key \in CfKey
BY DEF CfTypeOK, NoTask

\* What the pool may hold is a number.
LEMMA BudgetNat == CfBudget \in Nat
BY CfPoolAssumption DEF CfBudget

----------------------------------------------------------------------------
\* What a client does keeps the types.
LEMMA ClientKeepsType ==
  ASSUME CfTypeOK, NEW c \in CfClient, CfClientStep(c)
  PROVE  CfTypeOK'
<1> USE DEF CfTypeOK, NoTask
<1>1. ASSUME NEW k \in CfKey, CfHit(c, k) PROVE CfTypeOK'
  <2>1. PICK i \in DOMAIN spare[k] : spare' = [spare EXCEPT ![k] = SubSeq(@, 1, i - 1)]
    BY <1>1 DEF CfHit
  <2>2. SubSeq(spare[k], 1, i - 1) \in Seq(BOOLEAN)
    BY <2>1
  <2> QED  BY <1>1, <2>1, <2>2 DEF CfHit
<1>2. ASSUME NEW k \in CfKey, CfMiss(c, k) PROVE CfTypeOK'
  BY <1>2 DEF CfMiss
<1>3. ASSUME NEW k \in CfKey, CfOpened(c, k) PROVE CfTypeOK'
  BY <1>3 DEF CfOpened
<1>4. CASE CfPrefetchSkips(c)
  BY <1>4 DEF CfPrefetchSkips
<1>5. ASSUME NEW t \in CfTask, CfPrefetch(c, t) PROVE CfTypeOK'
  <2>1. wish[c] \in CfKey
    BY <1>5 DEF CfPrefetch
  <2>2. [at |-> "count", key |-> wish[c]]
          \in [at : {"count", "dial", "push", "drop"}, key : CfKey]
    BY <2>1
  <2> QED  BY <1>5, <2>1, <2>2 DEF CfPrefetch
<1> QED  BY <1>1, <1>2, <1>3, <1>4, <1>5 DEF CfClientStep

\* A task that goes from one place to another keeps its bucket.
LEMMA GoesType ==
  ASSUME CfTypeOK, NEW t \in CfTask, NEW from, NEW to, RefillGoes(t, from, to),
         from # "free", to \in {"count", "dial", "push", "drop"}
  PROVE  /\ refill' \in [CfTask -> {NoTask}
                           \cup [at : {"count", "dial", "push", "drop"}, key : CfKey]]
         /\ refill[t].key \in CfKey /\ refill[t].at # "free"
         /\ \A u \in CfTask : /\ refill'[u].key = refill[u].key
                              /\ refill'[u].at = "free" <=> refill[u].at = "free"
<1>1. refill[t].at # "free" /\ refill[t].key \in CfKey
      /\ refill[t] \in [at : {"count", "dial", "push", "drop"}, key : CfKey]
  BY TaskKinds DEF RefillGoes, CfTypeOK, NoTask
<1>2. refill' = [refill EXCEPT ![t] = [refill[t] EXCEPT !.at = to]]
  BY DEF RefillGoes
<1>3. [refill[t] EXCEPT !.at = to] \in [at : {"count", "dial", "push", "drop"}, key : CfKey]
  BY <1>1
<1> QED  BY <1>1, <1>2, <1>3 DEF CfTypeOK, NoTask

\* What a refill task does keeps the types.
LEMMA TaskKeepsType ==
  ASSUME CfTypeOK, NEW t \in CfTask, CfTaskStep(t)
  PROVE  CfTypeOK'
<1>1. CASE CfCount(t)
  <2>1. RefillGoes(t, "count", "drop") \/ RefillGoes(t, "count", "dial")
    BY <1>1 DEF CfCount
  <2> QED  BY <1>1, <2>1, GoesType DEF CfCount, CfTypeOK
<1>2. CASE CfDialled(t)
  <2> QED  BY <1>2, GoesType DEF CfDialled, CfTypeOK
<1>3. CASE CfPush(t)
  <2>1. RefillGoes(t, "push", "drop")
    BY <1>3 DEF CfPush
  <2>2. refill[t].key \in CfKey
    BY <2>1, GoesType
  <2>3. Append(spare[refill[t].key], TRUE) \in Seq(BOOLEAN)
    BY <2>2 DEF CfTypeOK
  <2>4. spare' \in [CfKey -> Seq(BOOLEAN)]
    BY <1>3, <2>2, <2>3 DEF CfPush, CfTypeOK
  <2> QED  BY <1>3, <2>1, <2>4, GoesType DEF CfPush, CfTypeOK
<1>4. CASE CfDrop(t)
  BY <1>4 DEF CfDrop, CfTypeOK
<1> QED  BY <1>1, <1>2, <1>3, <1>4 DEF CfTaskStep

\* The time that spoils a spare keeps the types.
LEMMA AgeKeepsType ==
  ASSUME CfTypeOK, NEW k \in CfKey, CfAges(k)
  PROVE  CfTypeOK'
<1>1. PICK i \in DOMAIN spare[k] : spare' = [spare EXCEPT ![k] = [@ EXCEPT ![i] = FALSE]]
  BY DEF CfAges
<1>2. [spare[k] EXCEPT ![i] = FALSE] \in Seq(BOOLEAN)
  BY <1>1 DEF CfTypeOK
<1> QED  BY <1>1, <1>2 DEF CfAges, CfTypeOK

\* Every step of the pool keeps the types.
LEMMA CfNextType == CfTypeOK /\ [CfNext]_cfVars => CfTypeOK'
<1> SUFFICES ASSUME CfTypeOK, [CfNext]_cfVars PROVE CfTypeOK'
  OBVIOUS
<1>1. CASE UNCHANGED cfVars
  BY <1>1 DEF cfVars, CfTypeOK
<1> QED  BY <1>1, ClientKeepsType, TaskKeepsType, AgeKeepsType DEF CfNext

\* The empty pool has them.
LEMMA CfInitType == CfInit => CfTypeOK
BY DEF CfInit, CfTypeOK, NoTask

\* The pool keeps its types whatever clients, tasks and time do.
THEOREM CfTypeCorrect == CfSpec => []CfTypeOK
<1> QED  BY CfInitType, CfNextType, PTL DEF CfSpec

----------------------------------------------------------------------------
\* The marks are kept by every step.
LEMMA MarksStep ==
  ASSUME CfTypeOK, Marks, [CfNext]_cfVars
  PROVE  Marks'
<1>1. CASE UNCHANGED cfVars
  BY <1>1 DEF cfVars, Marks
<1>2. ASSUME NEW c \in CfClient, NEW t \in CfTask, CfPrefetch(c, t)
      PROVE  Marks'
  <2>1. refill'[t].at = "count" /\ refill'[t].key = wish[c]
        /\ \A u \in CfTask \ {t} : refill'[u] = refill[u]
    BY <1>2 DEF CfPrefetch, CfTypeOK
  <2>2. reserved' = reserved \cup {wish[c]} /\ wish[c] \notin reserved
    BY <1>2 DEF CfPrefetch
  <2> QED  BY <2>1, <2>2 DEF Marks
<1>3. ASSUME NEW c \in CfClient, CfClientStep(c), ~(\E t \in CfTask : CfPrefetch(c, t))
      PROVE  Marks'
  BY <1>3 DEF CfClientStep, CfHit, CfMiss, CfOpened, CfPrefetchSkips, Marks
<1>4. ASSUME NEW t \in CfTask, CfTaskStep(t)
      PROVE  Marks'
  <2>1. CASE CfDrop(t)
    <3>1. refill'[t].at = "free" /\ \A u \in CfTask \ {t} : refill'[u] = refill[u]
      BY <2>1 DEF CfDrop, CfTypeOK, NoTask
    <3>2. reserved' = reserved \ {refill[t].key} /\ refill[t].at # "free"
      BY <2>1 DEF CfDrop
    <3> QED  BY <3>1, <3>2 DEF Marks
  <2>2. CASE CfCount(t) \/ CfDialled(t) \/ CfPush(t)
    <3>1. \/ RefillGoes(t, "count", "drop") \/ RefillGoes(t, "count", "dial")
          \/ RefillGoes(t, "dial", "push") \/ RefillGoes(t, "dial", "drop")
          \/ RefillGoes(t, "push", "drop")
      BY <2>2 DEF CfCount, CfDialled, CfPush
    <3>2. \A u \in CfTask : /\ refill'[u].key = refill[u].key
                            /\ refill'[u].at = "free" <=> refill[u].at = "free"
      BY <3>1, GoesType
    <3>3. reserved' = reserved
      BY <2>2 DEF CfCount, CfDialled, CfPush
    <3> QED  BY <3>2, <3>3 DEF Marks
  <2> QED  BY <1>4, <2>1, <2>2 DEF CfTaskStep
<1>5. ASSUME NEW k \in CfKey, CfAges(k)
      PROVE  Marks'
  BY <1>5 DEF CfAges, Marks
<1> QED  BY <1>1, <1>2, <1>3, <1>4, <1>5 DEF CfNext

\* The marks of cf_refilling and the living tasks answer to one another.
LEMMA CfInitMarks == CfInit => Marks
BY DEF CfInit, Marks, NoTask

LEMMA MarksHold == CfSpec => [](CfTypeOK /\ Marks)
BY CfInitMarks, MarksStep, CfTypeCorrect, PTL DEF CfSpec

----------------------------------------------------------------------------
\* A step of the pool is a step of the lease, or leaves it alone.
LEMMA LeaseStep ==
  ASSUME CfTypeOK, Marks, [CfNext]_cfVars
  PROVE  CfLease!Next \/ UNCHANGED CfHolders
<1> DEFINE Quiet == \A u \in CfTask : refill'[u].key = refill[u].key
<1>q. Quiet => UNCHANGED CfHolders
  BY DEF CfHolders
<1>1. CASE UNCHANGED cfVars
  BY <1>1 DEF cfVars, CfHolders
<1>2. ASSUME NEW c \in CfClient, NEW t \in CfTask, CfPrefetch(c, t)
      PROVE  CfLease!Next
  <2> DEFINE k == wish[c]
  <2>1. k \in CfKey /\ k \notin reserved
    BY <1>2 DEF CfPrefetch, CfTypeOK
  <2>2. refill[t].at = "free" /\ refill[t].key = NoKey
    BY <1>2, TaskKinds DEF CfPrefetch
  <2>3. \A u \in CfTask : refill[u].key # k
    BY <2>1, TaskKinds, CfPoolAssumption DEF Marks
  <2>4. refill'[t].key = k /\ \A u \in CfTask \ {t} : refill'[u] = refill[u]
    BY <1>2 DEF CfPrefetch, CfTypeOK
  <2>5. CfHolders[k] = {} /\ \A b \in CfKey : t \notin CfHolders[b]
    BY <2>1, <2>2, <2>3, CfPoolAssumption DEF CfHolders
  <2>6. CfHolders' = [CfHolders EXCEPT ![k] = {t}]
    <3>1. \A b \in CfKey \ {k} : CfHolders'[b] = CfHolders[b]
      BY <2>2, <2>4, CfPoolAssumption DEF CfHolders
    <3>2. CfHolders'[k] = {t}
      BY <2>1, <2>3, <2>4 DEF CfHolders
    <3> HIDE DEF k
    <3> QED  BY <3>1, <3>2, <2>1 DEF CfHolders
  <2>7. CfLease!Acquire(k, t)
    BY <2>5, <2>6 DEF CfLease!Acquire
  <2> QED  BY <2>1, <2>7 DEF CfLease!Next
<1>3. ASSUME NEW c \in CfClient, CfClientStep(c), ~(\E t \in CfTask : CfPrefetch(c, t))
      PROVE  Quiet
  BY <1>3 DEF CfClientStep, CfHit, CfMiss, CfOpened, CfPrefetchSkips
<1>4. ASSUME NEW t \in CfTask, CfDrop(t)
      PROVE  CfLease!Next
  <2> DEFINE k == refill[t].key
  <2>1. k \in CfKey /\ refill[t].at # "free"
    BY <1>4, TaskKinds DEF CfDrop
  <2>2. \A u \in CfTask \ {t} : refill[u].key # k
    BY <2>1, TaskKinds, CfPoolAssumption DEF Marks
  <2>3. refill'[t].key = NoKey /\ \A u \in CfTask \ {t} : refill'[u] = refill[u]
    BY <1>4 DEF CfDrop, CfTypeOK, NoTask
  <2>4. CfHolders[k] = {t}
    BY <2>1, <2>2 DEF CfHolders
  <2>5. CfHolders' = [CfHolders EXCEPT ![k] = {}]
    <3>1. \A b \in CfKey \ {k} : CfHolders'[b] = CfHolders[b]
      BY <2>3, CfPoolAssumption DEF CfHolders
    <3>2. CfHolders'[k] = {}
      BY <2>1, <2>2, <2>3, CfPoolAssumption DEF CfHolders
    <3> HIDE DEF k
    <3> QED  BY <3>1, <3>2, <2>1 DEF CfHolders
  <2>6. CfLease!Release(k, t)
    BY <2>4, <2>5 DEF CfLease!Release
  <2> QED  BY <2>1, <2>6 DEF CfLease!Next
<1>5. ASSUME NEW t \in CfTask, CfCount(t) \/ CfDialled(t) \/ CfPush(t)
      PROVE  Quiet
  <2>1. \/ RefillGoes(t, "count", "drop") \/ RefillGoes(t, "count", "dial")
        \/ RefillGoes(t, "dial", "push") \/ RefillGoes(t, "dial", "drop")
        \/ RefillGoes(t, "push", "drop")
    BY <1>5 DEF CfCount, CfDialled, CfPush
  <2> QED  BY <2>1, GoesType
<1>6. ASSUME NEW k \in CfKey, CfAges(k)
      PROVE  Quiet
  BY <1>6 DEF CfAges
<1> HIDE DEF Quiet
<1> QED  BY <1>q, <1>1, <1>2, <1>3, <1>4, <1>5, <1>6 DEF CfNext, CfTaskStep

\* No lease is held at first.
LEMMA LeaseInit == CfInit => CfLease!Init
BY CfPoolAssumption DEF CfInit, NoTask, CfHolders, CfLease!Init

\* The Cloudflare pool implements the lease: a bucket never has two refills, and
\* a refill gives its bucket back when it ends (reserve_cf_refill, RefillGuard).
THEOREM CfImplementsLease == CfSpec => CfLeaseSpec
<1>1. CfTypeOK /\ Marks /\ [CfNext]_cfVars => [CfLease!Next]_CfHolders
  BY LeaseStep
<1> QED
  BY <1>1, LeaseInit, MarksHold, PTL DEF CfSpec, CfLeaseSpec, CfLease!Spec

----------------------------------------------------------------------------
\* What a step of the pool does to its buckets.
LEMMA CfNextBounded == CfTypeOK /\ CfBounded /\ [CfNext]_cfVars => CfBounded'
<1> SUFFICES ASSUME CfTypeOK, CfBounded, [CfNext]_cfVars PROVE CfBounded'
  OBVIOUS
<1>s. \A k \in CfKey : spare[k] \in Seq(BOOLEAN) /\ Len(spare[k]) \in Nat
  BY DEF CfTypeOK
<1>d. DOMAIN spare = CfKey
  BY DEF CfTypeOK
<1>1. CASE spare' = spare
  BY <1>1 DEF CfBounded
<1>2. ASSUME NEW c \in CfClient, NEW k \in CfKey, CfHit(c, k)
      PROVE  CfBounded'
  <2>1. PICK i \in DOMAIN spare[k] : spare' = [spare EXCEPT ![k] = SubSeq(@, 1, i - 1)]
    BY <1>2 DEF CfHit
  <2>2. Len(SubSeq(spare[k], 1, i - 1)) <= Len(spare[k])
    BY <1>s
  <2>3. Len(SubSeq(spare[k], 1, i - 1)) <= CfBudget
    BY <2>2, <1>s, BudgetNat DEF CfBounded
  <2> QED  BY <2>1, <2>3, <1>d DEF CfBounded
<1>3. ASSUME NEW c \in CfClient, NEW k \in CfKey, CfMiss(c, k)
      PROVE  CfBounded'
  BY <1>3, <1>d, BudgetNat DEF CfMiss, CfBounded
<1>4. ASSUME NEW t \in CfTask, CfPush(t)
      PROVE  CfBounded'
  <2>1. refill[t].key \in CfKey
    BY <1>4, GoesType DEF CfPush
  <2>2. CASE Len(spare[refill[t].key]) < CfBudget
    <3>1. Len(Append(spare[refill[t].key], TRUE)) = Len(spare[refill[t].key]) + 1
      BY <2>1, <1>s
    <3>2. Len(Append(spare[refill[t].key], TRUE)) <= CfBudget
      BY <3>1, <2>1, <2>2, <1>s, BudgetNat
    <3> QED  BY <1>4, <2>2, <3>2, <1>d DEF CfPush, CfBounded
  <2>3. CASE ~(Len(spare[refill[t].key]) < CfBudget)
    BY <1>4, <2>3 DEF CfPush, CfBounded
  <2> QED  BY <2>2, <2>3
<1>5. ASSUME NEW k \in CfKey, CfAges(k)
      PROVE  CfBounded'
  <2>1. PICK i \in DOMAIN spare[k] : spare' = [spare EXCEPT ![k] = [@ EXCEPT ![i] = FALSE]]
    BY <1>5 DEF CfAges
  <2>2. Len([spare[k] EXCEPT ![i] = FALSE]) = Len(spare[k])
    BY <1>s
  <2> QED  BY <2>1, <2>2, <1>d DEF CfBounded
<1> QED
  BY <1>1, <1>2, <1>3, <1>4, <1>5
  DEF CfNext, CfClientStep, CfTaskStep, CfOpened, CfPrefetchSkips, CfPrefetch,
      CfCount, CfDialled, CfDrop, cfVars

LEMMA CfInitBounded == CfInit => CfBounded
<1>1. Len(<<>>) <= CfBudget
  BY BudgetNat
<1> QED  BY <1>1 DEF CfInit, CfBounded

\* No bucket holds more than CF_POOL_MAX spares: what is opened while others are
\* pushed is counted again under the lock (cf_refill_reserved).
THEOREM CfBoundedHolds == CfSpec => []CfBounded
BY CfInitBounded, CfNextBounded, CfTypeCorrect, PTL DEF CfSpec

----------------------------------------------------------------------------
(* The parts together.                                                        *)

PoolInv == CfTypeOK /\ CfBounded /\ Marks

BridgeInv ==
  /\ IInv /\ RouteInv /\ PoolInv /\ DialInv /\ Exhausted /\ SplitInv

LEMMA BridgeInvInit == BridgeInit => BridgeInv
<1> SUFFICES ASSUME BridgeInit  PROVE BridgeInv
  OBVIOUS
<1>1. IInv
  BY IInvInit DEF BridgeInit
<1>2. RouteInv
  BY RouteInvInductive DEF BridgeInit
<1>3. PoolInv
  BY CfInitType, CfInitBounded, CfInitMarks DEF BridgeInit, PoolInv
<1>4. DialInv /\ Exhausted
  BY DialInvInductive, ExhaustedInductive DEF BridgeInit
<1>5. SplitInv
  BY SplitInvInit DEF BridgeInit
<1> QED  BY <1>1, <1>2, <1>3, <1>4, <1>5 DEF BridgeInv

\* Each part takes a step of its own or rests.
LEMMA PartsStep ==
  ASSUME [BridgeNext]_bridgeVars
  PROVE  /\ [BridgeServerNext]_serverVars /\ [RoutingNext]_routeVars /\ [CfNext]_cfVars
         /\ [DialNext]_dialVars /\ [SplitNext]_splitVars
<1>1. CASE UNCHANGED bridgeVars
  BY <1>1, Zenon DEF bridgeVars
<1>2. CASE Part("server") /\ BridgeServerNext /\ UNCHANGED <<routeVars, cfVars, dialVars, splitVars>>
  BY <1>2, Zenon
<1>3. CASE Part("routing") /\ RoutingNext /\ UNCHANGED <<serverVars, cfVars, dialVars, splitVars>>
  BY <1>3, Zenon
<1>4. CASE Part("cfpool") /\ CfNext /\ UNCHANGED <<serverVars, routeVars, dialVars, splitVars>>
  BY <1>4, Zenon
<1>5. CASE Part("dial") /\ DialNext /\ UNCHANGED <<serverVars, routeVars, cfVars, splitVars>>
  BY <1>5, Zenon
<1>6. CASE Part("split") /\ SplitNext /\ UNCHANGED <<serverVars, routeVars, cfVars, dialVars>>
  BY <1>6, Zenon
<1> QED  BY <1>1, <1>2, <1>3, <1>4, <1>5, <1>6, Zenon DEF BridgeNext

LEMMA BridgeInvInductive == BridgeInv /\ [BridgeNext]_bridgeVars => BridgeInv'
<1> SUFFICES ASSUME BridgeInv, [BridgeNext]_bridgeVars  PROVE BridgeInv'
  OBVIOUS
<1>1. /\ [BridgeServerNext]_serverVars /\ [RoutingNext]_routeVars /\ [CfNext]_cfVars
      /\ [DialNext]_dialVars /\ [SplitNext]_splitVars
  BY PartsStep
<1>2. IInv /\ RouteInv /\ PoolInv /\ DialInv /\ Exhausted /\ SplitInv
  BY DEF BridgeInv
<1>3. IInv'
  BY <1>1, <1>2, IInvInductive
<1>4. RouteInv'
  BY <1>1, <1>2, RouteInvInductive
<1>5. PoolInv'
  BY <1>1, <1>2, CfNextType, CfNextBounded, MarksStep DEF PoolInv
<1>6. DialInv' /\ Exhausted'
  BY <1>1, <1>2, DialInvInductive, ExhaustedInductive
<1>7. SplitInv'
  BY <1>1, <1>2, SplitInvInductive
<1> QED  BY <1>3, <1>4, <1>5, <1>6, <1>7 DEF BridgeInv

LEMMA BridgeInvImplies ==
  BridgeInv => /\ BridgeTypeOK /\ SlotBudget /\ LadderComplete /\ AskedOnce
               /\ DialComplete /\ PacketsWhole
<1> SUFFICES ASSUME BridgeInv
             PROVE  /\ BridgeTypeOK /\ SlotBudget /\ LadderComplete /\ AskedOnce
                    /\ DialComplete /\ PacketsWhole
  OBVIOUS
<1>1. IInv /\ RouteInv /\ PoolInv /\ DialInv /\ Exhausted /\ SplitInv
  BY DEF BridgeInv
<1>2. BridgeServerTypeOK /\ SlotBudget
  BY <1>1, IInvImplies
<1>3. RoutingTypeOK /\ LadderComplete /\ AskedOnce
  BY <1>1, RouteInvImplies
<1>4. CfTypeOK /\ CfBounded
  BY <1>1 DEF PoolInv
<1>5. DialTypeOK /\ DialComplete
  BY <1>1, DialTypes, DialCompletes
<1>6. SplitTypeOK /\ PacketsWhole
  BY <1>1, SplitInvImplies
<1> QED  BY <1>2, <1>3, <1>4, <1>5, <1>6 DEF BridgeTypeOK

\* In every behaviour of the composed bridge each part keeps its types, no bucket of
\* the Cloudflare pool overfills and the splitter ends every read ready for the next.
THEOREM BridgeTyped == BridgeSpec => []BridgeTypeOK
BY BridgeInvInit, BridgeInvInductive, BridgeInvImplies, PTL DEF BridgeSpec

\* And each part has in it what it has alone: the permits account for the sockets, the
\* ladder leaves out no route and asks none twice, the walk over host names tries what
\* it should, and what the splitter sends are the client's packets.
THEOREM BridgeHolds ==
  BridgeSpec => [](SlotBudget /\ LadderComplete /\ AskedOnce /\ DialComplete /\ PacketsWhole)
BY BridgeInvInit, BridgeInvInductive, BridgeInvImplies, PTL DEF BridgeSpec

\* The refills of the Cloudflare pool are leases there too (reserve_cf_refill).
THEOREM BridgeImplementsLease == BridgeSpec => CfLeaseSpec
<1>1. BridgeInv /\ [BridgeNext]_bridgeVars => [CfLease!Next]_CfHolders
  BY PartsStep, LeaseStep DEF BridgeInv, PoolInv
<1>2. BridgeInit => CfLease!Init
  BY LeaseInit DEF BridgeInit
<1> QED
  BY <1>1, <1>2, BridgeInvInit, BridgeInvInductive, PTL DEF BridgeSpec, CfLeaseSpec, CfLease!Spec
=============================================================================
