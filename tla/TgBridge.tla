------------------------------ MODULE TgBridge ------------------------------
(* The switch of the built-in Telegram bridge: telegram.rs TgState and the    *)
(* life of the server task it spawns (server.rs run_with_listen).             *)
(*                                                                            *)
(* A server is named by the epoch of the start that spawned it.  The sender   *)
(* of its shutdown channel lives only in Inner.shutdown, so the server has    *)
(* been told to stop exactly when `tx` does not name it any more, whether the *)
(* sender was used (stop) or dropped (another start).                         *)
(*                                                                            *)
(* Taken as given: a stopped server returns within the five seconds a start   *)
(* waits for it, and a bind answers within twenty, so the two timeouts of     *)
(* start do not fire.                                                         *)
EXTENDS Naturals

CONSTANTS
  Button,     \* the toggle of the interface: one start or stop at a time
  Other,      \* starts that come from elsewhere: autostart, the offer dialog
  MaxStarts   \* bound: servers spawned; later starts are refused

Caller == {Button} \cup Other
Server == 1..MaxStarts

ASSUME TgBridgeAssumption == MaxStarts \in Nat /\ Button \notin Other

VARIABLES
  tx,       \* Inner.shutdown: the server whose sender it is, 0 for None
  listen,   \* Inner.listen: the server that reported it, 0 for None
  error,    \* Inner.error
  epoch,    \* Inner.epoch
  doneRx,   \* Inner.done_rx: the server it belongs to, 0 for None
  srv,      \* where each server task is
  answer,   \* what its listen channel has delivered
  pc,       \* where each caller of start is
  waits,    \* the server it waits for, 0 for none
  foreign,  \* another program listens on the port
  overlap   \* history: two starts have been under way at once

inner   == <<tx, listen, error, epoch, doneRx>>
servers == <<srv, answer>>
callers == <<pc, waits>>
vars == <<inner, servers, callers, foreign, overlap>>

\* The server has the port open: `listener` is dropped when the function
\* returns, and while the accept loop rebinds.
Holds(s) == srv[s] \in {"bound", "serving", "closing"}
PortFree == ~foreign /\ \A s \in Server : ~Holds(s)

Init ==
  /\ tx = 0 /\ listen = 0 /\ error = "none" /\ epoch = 0 /\ doneRx = 0
  /\ srv = [s \in Server |-> "none"]
  /\ answer = [s \in Server |-> "none"]
  /\ pc = [c \in Caller |-> "idle"]
  /\ waits = [c \in Caller |-> 0]
  /\ foreign \in BOOLEAN
  /\ overlap = FALSE

-----------------------------------------------------------------------------
Pending == {c \in Caller : pc[c] # "idle"}

\* start, first lock: with a bridge running it is an error and nothing changes.
\* Else the done channel of the last server is taken, to be waited for.
StartAsked(c) ==
  /\ pc[c] = "idle" /\ tx = 0
  /\ pc' = [pc EXCEPT ![c] = "wait"]
  /\ waits' = [waits EXCEPT ![c] = doneRx]
  /\ doneRx' = 0
  /\ overlap' = (overlap \/ Pending # {})
  /\ UNCHANGED <<tx, listen, error, epoch, servers, foreign>>

\* Mutant: start does not wait for the last server's end.
WaitedNot(c) == pc[c] = "wait"

Waited(c) == pc[c] = "wait" /\ (waits[c] # 0 => srv[waits[c]] = "done")

\* Config::try_from_args refuses the settings; the channel is gone by then.
StartRejected(c) ==
  /\ Waited(c)
  /\ pc' = [pc EXCEPT ![c] = "idle"]
  /\ waits' = [waits EXCEPT ![c] = 0]
  /\ UNCHANGED <<inner, servers, foreign, overlap>>

\* Mutant: the error of an earlier start stays.
StartSpawnsKeepingError(c) ==
  /\ Waited(c) /\ epoch < MaxStarts
  /\ LET s == epoch + 1
     IN  /\ epoch' = s /\ tx' = s /\ doneRx' = s
         /\ srv' = [srv EXCEPT ![s] = "spawned"]
         /\ waits' = [waits EXCEPT ![c] = s]
  /\ listen' = 0
  /\ pc' = [pc EXCEPT ![c] = "listen"]
  /\ UNCHANGED <<error, answer, foreign, overlap>>

\* start, second lock: what `shutdown` holds by now is not looked at again.
StartSpawns(c) ==
  /\ Waited(c) /\ epoch < MaxStarts
  /\ LET s == epoch + 1
     IN  /\ epoch' = s /\ tx' = s /\ doneRx' = s
         /\ srv' = [srv EXCEPT ![s] = "spawned"]
         /\ waits' = [waits EXCEPT ![c] = s]
  /\ listen' = 0 /\ error' = "none"
  /\ pc' = [pc EXCEPT ![c] = "listen"]
  /\ UNCHANGED <<answer, foreign, overlap>>

\* The listen channel answers or is closed, and start returns.
StartReturns(c) ==
  /\ pc[c] = "listen" /\ answer[waits[c]] # "none"
  /\ pc' = [pc EXCEPT ![c] = "idle"]
  /\ waits' = [waits EXCEPT ![c] = 0]
  /\ UNCHANGED <<inner, servers, foreign, overlap>>

Stop ==
  /\ pc[Button] = "idle"
  /\ tx' = 0 /\ listen' = 0 /\ error' = "none"
  /\ UNCHANGED <<epoch, doneRx, servers, callers, foreign, overlap>>

-----------------------------------------------------------------------------
ServerMoves(s, here, there) ==
  /\ srv[s] = here
  /\ srv' = [srv EXCEPT ![s] = there]
  /\ UNCHANGED <<tx, error, epoch, doneRx, callers, foreign, overlap>>

\* The shutdown signal is not looked at before the accept loop.
Bind(s) ==
  /\ ServerMoves(s, "spawned", IF PortFree THEN "bound" ELSE "failed")
  /\ UNCHANGED <<listen, answer>>

\* on_listen stores the address whatever the epoch is.
OnListen(s) ==
  /\ ServerMoves(s, "bound", "serving")
  /\ listen' = s
  /\ answer' = [answer EXCEPT ![s] = "ok"]

\* Three failed accepts in a row close the listener; it is bound again as soon
\* as the port can be had.
AcceptBroken(s) ==
  /\ ServerMoves(s, "serving", "rebinding")
  /\ UNCHANGED <<listen, answer>>

Rebound(s) ==
  /\ PortFree
  /\ ServerMoves(s, "rebinding", "serving")
  /\ UNCHANGED <<listen, answer>>

\* Mutant: the rebind loop does not look at the shutdown signal.
ShutdownUnseen(s) ==
  /\ tx # s
  /\ ServerMoves(s, "serving", "closing")
  /\ UNCHANGED <<listen, answer>>

\* The shutdown signal ends the accept loop, the rebind loop too.
ShutdownSeen(s) ==
  /\ tx # s
  /\ ServerMoves(s, "serving", "closing") \/ ServerMoves(s, "rebinding", "returned")
  /\ UNCHANGED <<listen, answer>>

\* Clients and background tasks are shut down; returning drops the listener.
Closed(s) ==
  /\ ServerMoves(s, "closing", "returned")
  /\ UNCHANGED <<listen, answer>>

\* Mutant: the end of an old server wipes the state of the new one.
EndedForAll(s) ==
  /\ srv[s] \in {"returned", "failed"}
  /\ srv' = [srv EXCEPT ![s] = "done"]
  /\ tx' = 0 /\ listen' = 0
  /\ error' = IF srv[s] = "failed" THEN "busy" ELSE "stopped"
  /\ answer' = [answer EXCEPT ![s] = IF @ = "none" THEN "err" ELSE @]
  /\ UNCHANGED <<epoch, doneRx, callers, foreign, overlap>>

\* Mutant: a server that ends by itself leaves `shutdown` in place.
EndedUnnoticed(s) ==
  /\ srv[s] \in {"returned", "failed"}
  /\ srv' = [srv EXCEPT ![s] = "done"]
  /\ answer' = [answer EXCEPT ![s] = IF @ = "none" THEN "err" ELSE @]
  /\ UNCHANGED <<inner, callers, foreign, overlap>>

\* Mutant: only the current server closes its listen channel.
EndedUnanswered(s) ==
  /\ srv[s] \in {"returned", "failed"}
  /\ srv' = [srv EXCEPT ![s] = "done"]
  /\ IF epoch = s
     THEN /\ tx' = 0 /\ listen' = 0
          /\ error' = IF srv[s] = "failed" THEN "busy" ELSE "stopped"
          /\ answer' = [answer EXCEPT ![s] = IF @ = "none" THEN "err" ELSE @]
     ELSE UNCHANGED <<tx, listen, error, answer>>
  /\ UNCHANGED <<epoch, doneRx, callers, foreign, overlap>>

\* The task's end: only the current epoch clears the state and names the error,
\* and any caller still waiting is woken, if only by the dropped sender.
Ended(s) ==
  /\ srv[s] \in {"returned", "failed"}
  /\ srv' = [srv EXCEPT ![s] = "done"]
  /\ IF epoch = s
     THEN /\ tx' = 0 /\ listen' = 0
          /\ error' = IF srv[s] = "failed" THEN "busy" ELSE "stopped"
     ELSE UNCHANGED <<tx, listen, error>>
  /\ answer' = [answer EXCEPT ![s] = IF @ # "none" THEN @
                                     ELSE IF epoch = s THEN "err" ELSE "dropped"]
  /\ UNCHANGED <<epoch, doneRx, callers, foreign, overlap>>

ServerStep(s) ==
  Bind(s) \/ OnListen(s) \/ ShutdownSeen(s) \/ Closed(s) \/ Ended(s)

\* Another program takes or leaves the port.
ForeignMoves ==
  /\ foreign \/ PortFree
  /\ foreign' = ~foreign
  /\ UNCHANGED <<inner, servers, callers, overlap>>

StartStep(c) == StartRejected(c) \/ StartSpawns(c) \/ StartReturns(c)

Next ==
  \/ \E c \in Caller : StartAsked(c) \/ StartStep(c)
  \/ Stop
  \/ \E s \in Server : ServerStep(s) \/ AcceptBroken(s) \/ Rebound(s)
  \/ ForeignMoves

Spec == Init /\ [][Next]_vars

\* Spawned tasks and pending calls go on.
Fairness ==
  /\ \A s \in Server : WF_vars(ServerStep(s))
  /\ \A c \in Caller : WF_vars(StartStep(c))

FairSpec == Spec /\ Fairness
-----------------------------------------------------------------------------
\* Every variable ranges over what the code can store; the handle and the done
\* channel are the last start's, and an error is one of a bridge that is down.
TypeOK ==
  /\ epoch \in 0..MaxStarts /\ listen \in 0..epoch
  /\ tx \in {0, epoch} /\ doneRx \in {0, epoch}
  /\ error \in {"none", "stopped", "busy"} /\ (error # "none" => tx = 0)
  /\ srv \in [Server -> {"none", "spawned", "bound", "serving", "rebinding",
                         "closing", "returned", "failed", "done"}]
  /\ answer \in [Server -> {"none", "ok", "err", "dropped"}]
  /\ pc \in [Caller -> {"idle", "wait", "listen"}]
  /\ waits \in [Caller -> Server \cup {0}]
  /\ foreign \in BOOLEAN /\ overlap \in BOOLEAN

\* "Running" never lies for good: while status says so, the task it speaks of has
\* not ended, whatever stops, starts and bind failures cross (telegram.rs:140).
RunningIsAlive == tx # 0 => srv[tx] \notin {"none", "done"}

\* Once every call has returned and every server was heard out, the link status
\* shows is the running server's, and a stopped bridge shows none, although
\* on_listen may store the link of a server after its stop (telegram.rs:129); as
\* long as no two starts were ever under way together.
Settled ==
  /\ Pending = {}
  /\ \A s \in Server : srv[s] \in {"none", "serving", "rebinding", "done"}
  /\ \A s \in Server : srv[s] \in {"serving", "rebinding"} => tx = s

SettledStatus == (Settled /\ ~overlap) => listen = tx

\* The end of an old server never takes the shutdown handle of a newer one: the
\* handle goes by a stop, which moves no server, or with its own server
\* (telegram.rs:139).
OldSparesNew ==
  [][(tx # 0 /\ tx' = 0 /\ srv' # srv) => srv'[tx] = "done"]_vars

\* A quick stop and start finds the port free of the program's own servers, as
\* long as no two starts were ever under way together (telegram.rs:67).
FastRestart ==
  [][(epoch' # epoch /\ ~overlap) => \A s \in Server : ~Holds(s)]_vars

\* A server that was told to stop ends, wherever it was (server.rs:476).
DisownedEnds ==
  \A s \in Server : (srv[s] # "none" /\ tx # s) ~> srv[s] = "done"

\* Every start returns: its server answers, fails, or drops the channel.
StartAnswered == \A c \in Caller : pc[c] # "idle" ~> pc[c] = "idle"

\* A start never takes a running bridge down: it is answered "already running"
\* (telegram.rs:71).
StartSparesRunning ==
  [][\A s \in Server : (srv[s] = "serving" /\ tx = s) => tx' \in {s, 0}]_vars
=============================================================================
