----------------------------- MODULE BridgeServer -----------------------------
(* One run of the bridge's server (server.rs run_with_listen): the accept loop   *)
(* with its permits, errors and rebinding, the task of every client (proxy.rs    *)
(* handle_client_with_runtime, the bridges and join_bridge), and the shutdown.   *)
(* The two directions of a bridge are separate tasks: the download lives in the  *)
(* client's own, the upload in one it has spawned and holds by a handle.         *)
EXTENDS Naturals, FiniteSets

CONSTANTS Conn,      \* client connections there can be at once
          MaxConn    \* max_connections, whether given or computed

ASSUME BridgeServerAssumption == MaxConn \in Nat \ {0} /\ IsFiniteSet(Conn)

VARIABLES
  srv,      \* the accept loop: see ServerStates
  permits,  \* free permits of the semaphore
  errors,   \* consecutive_accept_errors
  stop,     \* the shutdown future is ready
  at,       \* the task of a client: see ClientStates
  upload,   \* its upload task: "none", "read", "send", "close", "done"
  download, \* "none", "read", "write", "done"
  gone,     \* the client has vanished or hung up
  cut       \* its task was aborted by the shutdown

clientVars == <<at, upload, download, gone, cut>>
serverVars == <<srv, permits, errors, stop, at, upload, download, gone, cut>>

ServerStates == {"off", "permit", "accept", "pause", "unbound", "ending", "ended"}
ClientStates == {"off", "handshake", "drain", "route", "upstream", "dial", "bridge"}
MaxErrors == 3

\* The loop holds a permit from its top until a client takes it along.
LoopHolds == srv \in {"accept", "pause", "unbound"}

Transferring(c) == upload[c] \in {"read", "send", "close"}

\* A client's socket is open in its task or in an upload that has outlived it.
Open(c) == at[c] # "off" \/ Transferring(c)

----------------------------------------------------------------------------
(* The accept loop.                                                           *)

\* The cooldowns are reset and the socket bound, or run_with_listen fails.
ServerStarts ==
  /\ srv = "off" /\ srv' \in {"permit", "ended"}
  /\ UNCHANGED <<permits, errors, stop, clientVars>>

ShutdownAsked ==
  /\ srv \notin {"off", "ended"} /\ ~stop /\ stop' = TRUE
  /\ UNCHANGED <<srv, permits, errors, clientVars>>

TakesPermit ==
  /\ srv = "permit" /\ permits > 0
  /\ srv' = "accept" /\ permits' = permits - 1
  /\ UNCHANGED <<errors, stop, clientVars>>

Accepts(c) ==
  /\ srv = "accept" /\ ~Open(c)
  /\ srv' = "permit" /\ errors' = 0
  /\ at' = [at EXCEPT ![c] = "handshake"]
  /\ gone' = [gone EXCEPT ![c] = FALSE]
  /\ UNCHANGED <<permits, stop, upload, download, cut>>

\* Out of descriptors: half a second's pause, not counted as an error.
AcceptStarved ==
  /\ srv = "accept" /\ srv' = "pause"
  /\ UNCHANGED <<permits, errors, stop, clientVars>>

\* Another error: a short pause; after the third the listener is dropped.
AcceptFails ==
  /\ srv = "accept"
  /\ errors' = errors + 1
  /\ srv' = IF errors + 1 >= MaxErrors THEN "unbound" ELSE "pause"
  /\ UNCHANGED <<permits, stop, clientVars>>

\* The pause is not interrupted by a shutdown, the wait for a rebind is.
PauseOver ==
  /\ srv = "pause" /\ srv' = "permit" /\ permits' = permits + 1
  /\ UNCHANGED <<errors, stop, clientVars>>

\* Mutant: a restored listener starts with the errors of the old one.
RebindsCounting ==
  /\ srv = "unbound" /\ srv' = "permit" /\ permits' = permits + 1
  /\ UNCHANGED <<errors, stop, clientVars>>

\* The bind, tried every second, has succeeded.
Rebinds ==
  /\ srv = "unbound" /\ srv' = "permit" /\ permits' = permits + 1
  /\ errors' = 0
  /\ UNCHANGED <<stop, clientVars>>

\* Mutant: a listener that is waiting to be rebound is not interrupted.
BreaksUnlessUnbound ==
  /\ stop /\ srv \in {"permit", "accept"}
  /\ srv' = "ending"
  /\ permits' = IF LoopHolds THEN permits + 1 ELSE permits
  /\ UNCHANGED <<errors, stop, clientVars>>

Breaks ==
  /\ stop /\ srv \in {"permit", "accept", "unbound"}
  /\ srv' = "ending"
  /\ permits' = IF LoopHolds THEN permits + 1 ELSE permits
  /\ UNCHANGED <<errors, stop, clientVars>>

\* The task of a client is over and its permit free.
Leaves(c, up) ==
  /\ at' = [at EXCEPT ![c] = "off"]
  /\ upload' = [upload EXCEPT ![c] = up]
  /\ download' = [download EXCEPT ![c] = "none"]
  /\ permits' = permits + 1
  /\ UNCHANGED <<srv, errors, stop, gone>>

\* clients.shutdown aborts every task; the upload of an aborted bridge is
\* detached and goes on.
ShutsDown(c) ==
  /\ srv = "ending" /\ at[c] # "off"
  /\ Leaves(c, upload[c])
  /\ cut' = [cut EXCEPT ![c] = TRUE]

\* Then background.shutdown, whose tasks can all be aborted where they wait.
ServerEnds ==
  /\ srv = "ending" /\ \A c \in Conn : at[c] = "off"
  /\ srv' = "ended"
  /\ UNCHANGED <<permits, errors, stop, clientVars>>

----------------------------------------------------------------------------
(* A client's task.                                                           *)

Goes(c, from, to) ==
  /\ at[c] = from /\ at' = [at EXCEPT ![c] = to]
  /\ UNCHANGED <<srv, permits, errors, stop, upload, download, gone, cut>>

\* PROXY header, FakeTLS and the 64 bytes, inside their timeouts.  A wrong secret
\* is drained in silence.
HandshakeRead(c) == ~gone[c] /\ (Goes(c, "handshake", "route") \/ Goes(c, "handshake", "drain"))

\* The client hangs up, sends what is refused or relayed to the masking site and
\* is done there, or the timeout runs out.
HandshakeOver(c) == at[c] = "handshake" /\ Leaves(c, "none") /\ UNCHANGED cut

DrainOver(c) == at[c] = "drain" /\ Leaves(c, "none") /\ UNCHANGED cut

\* Both directions start.  A WebSocket's upload begins with sending relay_init.
BridgeBegins(c, from, first) ==
  /\ at[c] = from
  /\ at' = [at EXCEPT ![c] = "bridge"]
  /\ upload' = [upload EXCEPT ![c] = first]
  /\ download' = [download EXCEPT ![c] = "read"]
  /\ UNCHANGED <<srv, permits, errors, stop, gone, cut>>

\* select_upstream ends in a WebSocket, in the raw TCP of the last resort, which is
\* yet to be dialled, or in nothing; or it has connected to an upstream proxy.
Routed(c) ==
  \/ BridgeBegins(c, "route", "send")
  \/ Goes(c, "route", "upstream")
  \/ Goes(c, "route", "dial")
  \/ at[c] = "route" /\ Leaves(c, "none") /\ UNCHANGED cut

\* connect_mtproto_upstream: its handshake is through, or a write or the answer has
\* failed and the ladder goes on.  Only its connect has a timeout, not what follows.
UpstreamDone(c) == BridgeBegins(c, "upstream", "read") \/ Goes(c, "upstream", "route")

Dialled(c) ==
  \/ BridgeBegins(c, "dial", "read")
  \/ at[c] = "dial" /\ Leaves(c, "none") /\ UNCHANGED cut

UploadGoes(c, from, to) ==
  /\ upload[c] = from /\ upload' = [upload EXCEPT ![c] = to]
  /\ UNCHANGED <<srv, permits, errors, stop, at, download, gone, cut>>

\* A chunk of the client; its end or IDLE_TIMEOUT.
UploadReads(c) == ~gone[c] /\ UploadGoes(c, "read", "send")
UploadOver(c)  == UploadGoes(c, "read", "close")

\* The remote takes it, or the connection to it is broken (for a WebSocket also:
\* the splitter refuses the stream).  There is no timeout on a send.
UploadSends(c) == UploadGoes(c, "send", "read") \/ UploadGoes(c, "send", "done")

\* The rest is flushed and the sink closed.
UploadCloses(c) == UploadGoes(c, "close", "done")

DownloadGoes(c, from, to) ==
  /\ download[c] = from /\ download' = [download EXCEPT ![c] = to]
  /\ UNCHANGED <<srv, permits, errors, stop, at, upload, gone, cut>>

DownloadReads(c) == DownloadGoes(c, "read", "write")

\* Mutant: the download waits for the remote without a timeout.
DownloadOverByClose(c) == upload[c] = "done" /\ DownloadGoes(c, "read", "done")

\* The remote closes, or IDLE_TIMEOUT.
DownloadOver(c) == DownloadGoes(c, "read", "done")

DownloadWrites(c) == ~gone[c] /\ DownloadGoes(c, "write", "read")

\* The client is not there any more.
DownloadFails(c) == DownloadGoes(c, "write", "done")

\* join_bridge: the upload is done, the download dropped with the task.
JoinsUpload(c) ==
  /\ at[c] = "bridge" /\ upload[c] = "done"
  /\ Leaves(c, "none") /\ UNCHANGED cut

\* Mutant: the handle of the upload is dropped and not aborted.
JoinsDownloadDetached(c) ==
  /\ at[c] = "bridge" /\ download[c] = "done"
  /\ Leaves(c, upload[c]) /\ UNCHANGED cut

\* The download is done; the upload is aborted and awaited.
JoinsDownload(c) ==
  /\ at[c] = "bridge" /\ download[c] = "done"
  /\ Leaves(c, "none") /\ UNCHANGED cut

ClientGoes(c) ==
  /\ Open(c) /\ ~gone[c] /\ gone' = [gone EXCEPT ![c] = TRUE]
  /\ UNCHANGED <<srv, permits, errors, stop, at, upload, download, cut>>

----------------------------------------------------------------------------

BridgeServerInit ==
  /\ srv = "off" /\ permits = MaxConn /\ errors = 0 /\ stop = FALSE
  /\ at = [c \in Conn |-> "off"]
  /\ upload = [c \in Conn |-> "none"] /\ download = [c \in Conn |-> "none"]
  /\ gone = [c \in Conn |-> FALSE] /\ cut = [c \in Conn |-> FALSE]

LoopStep ==
  ServerStarts \/ TakesPermit \/ (\E c \in Conn : Accepts(c)) \/ AcceptStarved
  \/ AcceptFails \/ PauseOver \/ Rebinds \/ Breaks \/ ServerEnds

UploadStep(c) == UploadReads(c) \/ UploadOver(c) \/ UploadSends(c) \/ UploadCloses(c)

DownloadStep(c) ==
  DownloadReads(c) \/ DownloadOver(c) \/ DownloadWrites(c) \/ DownloadFails(c)

ClientStep(c) ==
  HandshakeRead(c) \/ HandshakeOver(c) \/ DrainOver(c) \/ Routed(c) \/ UpstreamDone(c)
  \/ Dialled(c) \/ UploadStep(c) \/ DownloadStep(c) \/ JoinsUpload(c) \/ JoinsDownload(c)

BridgeServerNext ==
  \/ LoopStep \/ ShutdownAsked
  \/ \E c \in Conn : ClientStep(c) \/ ShutsDown(c) \/ ClientGoes(c)

\* What ends by a timeout ends.  A send to the remote and the talk with an upstream
\* proxy have none and may hang.
ClientFairness(c) ==
  /\ WF_serverVars(HandshakeOver(c)) /\ WF_serverVars(DrainOver(c))
  /\ WF_serverVars(Routed(c)) /\ WF_serverVars(Dialled(c))
  /\ WF_serverVars(DownloadOver(c)) /\ WF_serverVars(DownloadFails(c))
  /\ WF_serverVars(JoinsUpload(c)) /\ WF_serverVars(JoinsDownload(c))

\* The loop's own timers run out, and select! does not pass over a shutdown that
\* is ready for ever.
ServerFairness ==
  /\ WF_serverVars(PauseOver) /\ SF_serverVars(Breaks)
  /\ \A c \in Conn : WF_serverVars(ShutsDown(c))
  /\ WF_serverVars(ServerEnds)

BridgeFairness == ServerFairness /\ \A c \in Conn : ClientFairness(c)

BridgeServerSpec == BridgeServerInit /\ [][BridgeServerNext]_serverVars /\ BridgeFairness

----------------------------------------------------------------------------

BridgeServerTypeOK ==
  /\ srv \in ServerStates /\ permits \in 0..MaxConn
  /\ errors \in 0..MaxErrors /\ stop \in BOOLEAN
  /\ at \in [Conn -> ClientStates]
  /\ upload \in [Conn -> {"none", "read", "send", "close", "done"}]
  /\ download \in [Conn -> {"none", "read", "write", "done"}]
  /\ gone \in [Conn -> BOOLEAN] /\ cut \in [Conn -> BOOLEAN]

\* No permit is lost or given twice, through errors, rebinds, timeouts and aborted
\* tasks, and the sockets of clients that are open, an upload left alone
\* included, are never more than max_connections (run_with_listen, join_bridge).
SlotBudget ==
  /\ permits + Cardinality({c \in Conn : at[c] # "off"})
       + (IF LoopHolds THEN 1 ELSE 0) = MaxConn
  /\ Cardinality({c \in Conn : Open(c)}) <= MaxConn

\* A shutdown ends the server, however many clients hang at their remotes and
\* whatever has become of the listener (run_with_listen).
ServerStops == stop ~> srv = "ended"

\* The slot of a client that has vanished comes back, even when its remote takes
\* nothing any more (IDLE_TIMEOUT, the timeouts of the handshake and the dials); only
\* an upstream proxy that is silent in its own handshake can keep it.
SlotsReturn == \A c \in Conn : gone[c] ~> (at[c] \in {"off", "upstream"} \/ ~gone[c])
=============================================================================
