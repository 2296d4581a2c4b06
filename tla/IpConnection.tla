---------------------------- MODULE IpConnection ----------------------------
(***************************************************************************)
(* The connection of one IP pairing (aiohomekit/controller/ip/connection.py *)
(* and the part of ip/pairing.py that drives it): a HomeKitConnection, its  *)
(* connector task, the asyncio transports it opens, the accessory's         *)
(* pair-verify answers, and the callers of ensure_connection, close and     *)
(* reconnect_soon.                                                          *)
(*                                                                          *)
(* Everything runs on one event loop, so an action is one callback, or one  *)
(* task step from an await to the next.  "connector" is the await at which  *)
(* the task _reconnect stands:                                              *)
(*   new          created, not started yet                                  *)
(*   connecting   start_connection / create_connection                      *)
(*   m1, m3       the first and second pair-verify request                  *)
(*   subscribing  put_json in owner.connection_made(True)                   *)
(*   selfwait     ensure_connection called by the connector itself          *)
(*   backoff      the sleep between two attempts                            *)
(*   woken        the same sleep, _reconnect_future already resolved        *)
(*   done         the task has ended, with "outcome"                        *)
(*                                                                          *)
(* A transport's identity may be used again once its connection_lost has    *)
(* been delivered: nothing in the program refers to it any more.            *)
(***************************************************************************)
EXTENDS Naturals, FiniteSets

CONSTANTS
  Hosts,        \* addresses the accessory may advertise
  RightHosts,   \* those at which the paired accessory itself answers
  Transports,   \* identities of transports: at most this many exist at once
  Callers,      \* tasks that call IpPairing._ensure_connected
  Advertised,   \* the sets of addresses zeroconf may report; {} for none
  Misbehaviours,\* the ways an accessory's answer may be wrong
  SlowFlush,    \* a closed transport may have unsent data to flush first
  NoTransport, NoHost

WrongAnswers == {"error", "wrongid", "refused", "auth", "malformed", "badrow"}

ASSUME HostsAssumption == RightHosts \subseteq Hosts /\ IsFiniteSet(Hosts)
ASSUME AdvertisedAssumption == Advertised \subseteq SUBSET Hosts
ASSUME MisbehavioursAssumption == Misbehaviours \subseteq WrongAnswers
ASSUME SlowFlushAssumption == SlowFlush \in BOOLEAN
ASSUME NoneAssumption == NoTransport \notin Transports /\ NoHost \notin Hosts

VARIABLES
  closing, closed,             \* HomeKitConnection.closing, .closed
  transport, protocol, secure, \* .transport, .protocol (its kind), .is_secure
  peer,                        \* .connected_host
  hosts, failed,               \* .hosts, ._pair_verify_failed_hosts
  failedCount,                 \* failed_host_count, local to _reconnect (0
                               \* where it is not live)
  connector, outcome,          \* ._connector: where it stands, how it ended
  cancelling,                  \* cancel() was called, not yet delivered
  inflight, answer,            \* the request the connector awaits, its result
  sock,                        \* state of every transport
  described, shutdown,         \* pairing.description.addresses, ._shutdown
  subscriptions, supportsSubscribe,  \* pairing.subscriptions, .supports_subscribe
  caller, closer,              \* tasks inside ensure_connection and close
  \* history
  closeResult,  \* how the last close() ended
  wanted,       \* somebody asked for the connection since the last close()
  burst,        \* attempts since the last sleep of this connector
  verified,     \* transports on which pair-verify has succeeded
  crashed       \* connection_made(True) has raised on a live session

linkVars == <<transport, protocol, secure, peer, sock, verified>>
hostVars == <<hosts, failed, failedCount, burst>>
taskVars == <<connector, outcome, cancelling, inflight, answer, caller, closer>>
pairVars == <<described, shutdown, subscriptions, supportsSubscribe>>
histVars == <<closeResult, wanted, crashed>>
vars == <<closing, closed, linkVars, hostVars, taskVars, pairVars, histVars>>

Requesting == {"m1", "m3", "subscribing"}
Places == {"none", "new", "connecting", "m1", "m3", "subscribing", "selfwait",
           "backoff", "woken", "done"}
Answers == {"none", "good", "wrongid", "lost", "timeout",
            "error", "refused", "auth", "malformed", "badrow"}
Outcomes == {"none", "ok", "auth", "cancelled"}

SockStates == {"free", "open", "closing"}

LinkType ==
  /\ transport \in Transports \cup {NoTransport}
  /\ protocol \in {"none", "insecure", "secure"}
  /\ secure \in BOOLEAN
  /\ peer \in Hosts \cup {NoHost}
  /\ sock \in [Transports -> SockStates]
  /\ verified \in SUBSET Transports
HostType ==
  /\ hosts \in SUBSET Hosts /\ failed \in SUBSET Hosts
  /\ failedCount \in Nat /\ burst \in Nat
TaskType ==
  /\ connector \in Places /\ outcome \in Outcomes /\ cancelling \in BOOLEAN
  /\ inflight \in Transports \cup {NoTransport} /\ answer \in Answers
  /\ caller \in [Callers -> {"idle", "waiting", "ok", "auth", "cancelled"}]
  /\ closer \in {"idle", "stopping", "ready", "failed"}
PairType ==
  /\ described \in SUBSET Hosts /\ shutdown \in BOOLEAN
  /\ subscriptions \in BOOLEAN /\ supportsSubscribe \in BOOLEAN
HistType ==
  /\ closeResult \in {"none", "done", "raised"}
  /\ wanted \in BOOLEAN /\ crashed \in BOOLEAN

TypeOK ==
  /\ closing \in BOOLEAN /\ closed \in BOOLEAN
  /\ LinkType /\ HostType /\ TaskType /\ PairType /\ HistType

(* A pairing just loaded: the addresses come from the pairing data, and no   *)
(* description has been seen.                                                *)
Init ==
  /\ closing = FALSE /\ closed = FALSE
  /\ transport = NoTransport /\ protocol = "none" /\ secure = FALSE
  /\ peer = NoHost
  /\ hosts \in Advertised \ {{}} /\ failed = {} /\ failedCount = 0
  /\ connector = "none" /\ outcome = "none" /\ cancelling = FALSE
  /\ inflight = NoTransport /\ answer = "none"
  /\ sock = [t \in Transports |-> "free"]
  /\ described = {} /\ shutdown = FALSE
  /\ subscriptions = FALSE /\ supportsSubscribe = TRUE
  /\ caller = [c \in Callers |-> "idle"] /\ closer = "idle"
  /\ closeResult = "none" /\ wanted = FALSE /\ burst = 0
  /\ verified = {} /\ crashed = FALSE

-----------------------------------------------------------------------------
(* Helpers.                                                                  *)

IsConnected == transport # NoTransport /\ protocol # "none" /\ ~closed /\ secure

ConnectorRunning == connector \notin {"none", "done"}

(* The transports after transport.close() on t: it stops reading at once,    *)
(* and its connection_lost is still to come.                                 *)
Closing(s, t) ==
  IF t # NoTransport /\ s[t] = "open" THEN [s EXCEPT ![t] = "closing"] ELSE s

DropForgetsClose(s) ==  \* mutant
  /\ sock' = s
  /\ transport' = NoTransport
  /\ protocol' = "none"

DropUnlessClosing(s) ==  \* mutant
  IF closing
  THEN sock' = s /\ UNCHANGED <<transport, protocol>>
  ELSE /\ sock' = Closing(s, transport)
       /\ transport' = NoTransport
       /\ protocol' = "none"

(* _drop_transport, on the transports s.                                     *)
DropTransport(s) ==
  /\ sock' = Closing(s, transport)
  /\ transport' = NoTransport
  /\ protocol' = "none"

(* The task ends: whoever awaits it is woken with its outcome.               *)
Finish(result) ==
  /\ connector' = "done" /\ outcome' = result
  /\ cancelling' = FALSE /\ inflight' = NoTransport /\ answer' = "none"
  /\ caller' = [c \in Callers |->
                  IF caller[c] = "waiting" THEN result ELSE caller[c]]
  /\ closer' = IF closer # "stopping" THEN closer
               ELSE IF result = "auth" THEN "failed" ELSE "ready"

(* The task goes on to its next await; t carries the request it awaits.      *)
AwaitAt(place, t) ==
  /\ connector' = place
  /\ cancelling' = FALSE /\ inflight' = t /\ answer' = "none"
  /\ UNCHANGED <<outcome, caller, closer>>

StartConnectorOnce ==  \* mutant: an ended connector counts as running
  IF connector # "none"
  THEN UNCHANGED <<connector, outcome, burst>>
  ELSE connector' = "new" /\ outcome' = "none" /\ burst' = 0

(* _start_connector.  At both of its call sites the connection has just been *)
(* found, or made, not connected.                                            *)
StartConnector ==
  IF ConnectorRunning
  THEN UNCHANGED <<connector, outcome, burst>>
  ELSE connector' = "new" /\ outcome' = "none" /\ burst' = 0

(* The tail of the loop of _reconnect after a failed attempt.                *)
Backoff ==
  /\ AwaitAt("backoff", NoTransport)
  /\ burst' = 0 /\ failedCount' = 0
  /\ UNCHANGED <<hosts, failed>>

(* is_secure, at the head of _connect_once.                                  *)
SecureKept == UNCHANGED secure  \* mutant
ResetSecure == secure' = FALSE

(* The head of the loop, and _connect_once up to its first await, when f are *)
(* the hosts marked as failed.                                               *)
LoopHead(f) ==
  IF closing
  THEN /\ Finish("ok")
       /\ failed' = f /\ failedCount' = 0
       /\ UNCHANGED <<secure, hosts, burst>>
  ELSE /\ AwaitAt("connecting", NoTransport)
       /\ failedCount' = Cardinality(f)
       /\ burst' = burst + 1
       /\ ResetSecure
       /\ hosts' = IF described = {} THEN hosts ELSE described
       /\ LET kept == IF hosts' = hosts THEN f ELSE {}
          IN failed' = IF hosts' \subseteq kept THEN {} ELSE kept

-----------------------------------------------------------------------------
(* The connector task.                                                       *)

(* The task's first step.                                                    *)
ConnectorStarts ==
  /\ connector = "new" /\ ~cancelling
  /\ LoopHead(failed)
  /\ UNCHANGED <<closing, closed, transport, protocol, peer, sock, verified,
                 pairVars, histVars>>

(* The sleep ends by itself, or reconnect_soon has interrupted it.           *)
ConnectorWakes ==
  /\ connector \in {"backoff", "woken"} /\ ~cancelling
  /\ LoopHead(failed)
  /\ UNCHANGED <<closing, closed, transport, protocol, peer, sock, verified,
                 pairVars, histVars>>

(* The interruption and a cancellation meet: async_interrupt may turn the    *)
(* CancelledError into ConnectionReady, and the task goes on.                *)
WakeSwallowsCancel ==
  /\ connector = "woken" /\ cancelling
  /\ LoopHead(failed)
  /\ UNCHANGED <<closing, closed, transport, protocol, peer, sock, verified,
                 pairVars, histVars>>

(* Every address refused, or timed out.                                      *)
TcpFails ==
  /\ connector = "connecting" /\ ~cancelling
  /\ Backoff
  /\ UNCHANGED <<closing, closed, linkVars, pairVars, histVars>>

(* connected_host, from the peer name of the socket.                         *)
PeerNotRecorded(h) == UNCHANGED peer  \* mutant
RecordPeer(h) == peer' = h

(* The address h wins the race and transport t is created; the first         *)
(* pair-verify request goes out in the same step.  A transport still held by *)
(* the connection is overwritten, not closed.  A close() that has been woken *)
(* runs before this I/O can complete, and so does the connection_lost of a   *)
(* closed transport, unless it has unsent data.                              *)
TcpConnects(h, t) ==
  /\ connector = "connecting" /\ ~cancelling /\ closer \in {"idle", "stopping"}
  /\ SlowFlush \/ \A u \in Transports : sock[u] # "closing"
  /\ h \in hosts \ failed
  /\ sock[t] = "free"
  /\ transport' = t /\ protocol' = "insecure" /\ RecordPeer(h)
  /\ sock' = [sock EXCEPT ![t] = "open"]
  /\ AwaitAt("m1", t)
  /\ UNCHANGED <<closing, closed, secure, verified, hostVars, pairVars, histVars>>

(* The step after the answer to M1 when it is in order: M3 is sent, unless   *)
(* the transport has gone meanwhile.                                         *)
VerifyGoesOn ==
  /\ connector = "m1" /\ answer = "good" /\ ~cancelling
  /\ IF protocol # "none" /\ sock[transport] = "open"
     THEN AwaitAt("m3", transport) /\ UNCHANGED hostVars
     ELSE Backoff
  /\ UNCHANGED <<closing, closed, linkVars, pairVars, histVars>>

(* The failed hosts once the connected one is marked, and whether the next   *)
(* attempt then follows without a sleep.                                     *)
HostForgotten == failed  \* mutant
MarkFailed == failed \cup {peer}

RetryWhateverIsLeft(f) == Cardinality(f) > failedCount  \* mutant
RetryAtOnce(f) == Cardinality(f) > failedCount /\ ~(hosts \subseteq f)

(* IncorrectPairingIdError: the address belongs to another accessory.  The   *)
(* next address is tried at once only if this one was not known to be wrong. *)
VerifyWrongAccessory ==
  /\ connector = "m1" /\ answer = "wrongid" /\ ~cancelling
  /\ DropTransport(sock)
  /\ LET f == MarkFailed
     IN IF RetryAtOnce(f)
        THEN LoopHead(f)
        ELSE /\ AwaitAt("backoff", NoTransport)
             /\ failed' = f /\ burst' = 0 /\ failedCount' = 0
             /\ UNCHANGED <<secure, hosts>>
  /\ UNCHANGED <<closing, closed, peer, verified, pairVars, histVars>>

(* Any other failure of a pair-verify request: a timeout closes the          *)
(* transport of the request, a 4xx status that of the connection, the others *)
(* leave it open; then the loop backs off.                                   *)
VerifyFails ==
  /\ connector \in {"m1", "m3"} /\ ~cancelling
  /\ answer \in {"error", "refused", "lost", "timeout"}
  /\ sock' = IF answer = "timeout" THEN Closing(sock, inflight)
             ELSE IF answer = "refused" THEN Closing(sock, transport) ELSE sock
  /\ Backoff
  /\ UNCHANGED <<closing, closed, transport, protocol, secure, peer, verified,
                 pairVars, histVars>>

(* AuthenticationError leaves the loop; the transport stays as it is.        *)
VerifyUnauthorised ==
  /\ connector = "m3" /\ answer = "auth" /\ ~cancelling
  /\ Finish("auth")
  /\ UNCHANGED <<closing, closed, linkVars, hostVars, pairVars, histVars>>

(* owner.connection_made(True) up to its first await, on the transports s:   *)
(* the subscriptions are renewed, through _ensure_connected.                 *)
NotifyOwner(s) ==
  /\ \/ /\ ~(subscriptions /\ supportsSubscribe)
        /\ Finish("ok")
        /\ UNCHANGED <<closing, supportsSubscribe>>
     \/ /\ subscriptions /\ supportsSubscribe
        /\ shutdown \/ ~closed
        /\ IF s[transport] = "open"
           THEN /\ AwaitAt("subscribing", transport)
                /\ UNCHANGED supportsSubscribe
           ELSE /\ Finish("ok")
                /\ supportsSubscribe' = FALSE
        /\ UNCHANGED closing
     \/ /\ subscriptions /\ supportsSubscribe
        /\ ~shutdown /\ closed
        /\ AwaitAt("selfwait", NoTransport)
        /\ closing' = FALSE
        /\ UNCHANGED supportsSubscribe
  /\ UNCHANGED hostVars

(* get_session_keys returns: the secure protocol is installed, and the owner *)
(* told.  If the transport was dropped meanwhile, set_protocol raises.  A    *)
(* 4xx status with an empty body is taken for an M4 without error, after the *)
(* transport has been closed.                                                *)
VerifySucceeds ==
  /\ connector = "m3" /\ answer \in {"good", "refused"} /\ ~cancelling
  /\ answer = "refused" => transport # NoTransport
  /\ LET s == IF answer = "refused" THEN Closing(sock, transport) ELSE sock
     IN /\ sock' = s
        /\ protocol' = "secure"
        /\ IF transport = NoTransport
           THEN /\ Backoff
                /\ UNCHANGED <<closing, secure, verified, supportsSubscribe>>
           ELSE /\ secure' = TRUE
                /\ verified' = verified \cup {transport}
                /\ NotifyOwner(s)
  /\ UNCHANGED <<closed, transport, peer, described, shutdown, subscriptions,
                 histVars>>

(* The renewed subscriptions are answered, or given up: a lost connection,   *)
(* an error status or a malformed body ends push support, not the task.      *)
SubscribeEnds ==
  /\ connector = "subscribing" /\ ~cancelling
  /\ answer \in {"good", "refused", "malformed", "lost", "timeout"}
  /\ answer = "malformed" => transport # NoTransport
  /\ supportsSubscribe' = (supportsSubscribe /\ answer = "good")
  /\ sock' = IF answer = "timeout" THEN Closing(sock, inflight)
             ELSE IF answer = "malformed" THEN Closing(sock, transport) ELSE sock
  /\ Finish("ok")
  /\ UNCHANGED <<closing, closed, transport, protocol, secure, peer, verified,
                 hostVars, described, shutdown, subscriptions, histVars>>

(* Another exception leaves connection_made: a row without a status          *)
(* (KeyError), or a malformed body once the transport is gone                *)
(* (AttributeError).  The loop takes it for a failed attempt.                *)
SubscribeCrashes ==
  /\ connector = "subscribing" /\ ~cancelling
  /\ \/ answer = "badrow"
     \/ answer = "malformed" /\ transport = NoTransport
  /\ crashed' = TRUE
  /\ Backoff
  /\ UNCHANGED <<closing, closed, linkVars, pairVars, closeResult, wanted>>

(* The ten seconds of _ensure_connected, awaited by the connector itself.    *)
SelfWaitTimesOut ==
  /\ connector = "selfwait" /\ ~cancelling
  /\ Finish("ok")
  /\ UNCHANGED <<closing, closed, linkVars, hostVars, pairVars, histVars>>

(* The CancelledError of close() is raised at the await; a request it        *)
(* interrupts closes its own transport.                                      *)
ConnectorCancelled ==
  /\ cancelling
  /\ sock' = Closing(sock, inflight)
  /\ Finish("cancelled")
  /\ UNCHANGED <<closing, closed, transport, protocol, secure, peer, verified,
                 hostVars, pairVars, histVars>>

Connector ==
  \/ ConnectorStarts \/ ConnectorWakes \/ WakeSwallowsCancel
  \/ VerifyGoesOn \/ VerifyWrongAccessory \/ VerifyFails
  \/ VerifyUnauthorised \/ VerifySucceeds
  \/ SubscribeEnds \/ SubscribeCrashes \/ SelfWaitTimesOut
  \/ ConnectorCancelled

-----------------------------------------------------------------------------
(* The accessory and the network.                                            *)

Awaited == connector \in Requesting /\ answer = "none"

(* The answer of a well-behaved accessory: its own identity.                 *)
PeerAnswers ==
  /\ Awaited /\ sock[inflight] = "open"
  /\ answer' = IF connector = "m1" /\ peer \notin RightHosts
               THEN "wrongid" ELSE "good"
  /\ UNCHANGED <<closing, closed, linkVars, hostVars, pairVars, histVars,
                 connector, outcome, cancelling, inflight, caller, closer>>

(* An answer that is wrong, at the requests where it can be.  An address may *)
(* have passed to another accessory; the expected-type list of M2 hides an   *)
(* authentication error there.                                               *)
PeerMisbehaves(kind) ==
  /\ Awaited /\ sock[inflight] = "open"
  /\ \/ kind = "refused"
     \/ kind = "wrongid" /\ connector = "m1"
     \/ kind = "error" /\ connector \in {"m1", "m3"}
     \/ kind = "auth" /\ connector = "m3"
     \/ kind \in {"malformed", "badrow"} /\ connector = "subscribing"
  /\ answer' = kind
  /\ UNCHANGED <<closing, closed, linkVars, hostVars, pairVars, histVars,
                 connector, outcome, cancelling, inflight, caller, closer>>

(* _handle_timeout: no answer for thirty seconds.                            *)
RequestTimesOut ==
  /\ Awaited
  /\ answer' = "timeout"
  /\ UNCHANGED <<closing, closed, linkVars, hostVars, pairVars, histVars,
                 connector, outcome, cancelling, inflight, caller, closer>>

(* t is closed, by the peer or by a caller's own request that times out or   *)
(* is cancelled: eof_received cancels the pending request at once, the other *)
(* ways leave that to connection_lost.                                       *)
TransportCloses(t) ==
  /\ sock[t] = "open"
  /\ sock' = [sock EXCEPT ![t] = "closing"]
  /\ \/ UNCHANGED answer
     \/ Awaited /\ inflight = t /\ answer' = "lost"
  /\ UNCHANGED <<closing, closed, transport, protocol, secure, peer, verified,
                 hostVars, pairVars, histVars,
                 connector, outcome, cancelling, inflight, caller, closer>>

(* The end of _connection_lost, once the transport is dropped.               *)
AlwaysRestart == StartConnector /\ UNCHANGED closed  \* mutant
AfterLoss ==
  IF closing
  THEN closed' = TRUE /\ UNCHANGED <<connector, outcome, burst>>
  ELSE StartConnector /\ UNCHANGED closed

(* protocol.connection_lost of t, the connection's transport or an older     *)
(* one: _connection_lost drops whatever the connection holds now, then the   *)
(* requests pending on t are cancelled.                                      *)
ConnectionLost(t) ==
  /\ sock[t] = "closing"
  /\ DropTransport([sock EXCEPT ![t] = "free"])
  /\ verified' = verified \ {t}
  /\ AfterLoss
  /\ answer' = IF Awaited /\ inflight = t THEN "lost" ELSE answer
  /\ UNCHANGED <<closing, secure, peer, hosts, failed, failedCount, pairVars,
                 histVars, cancelling, inflight, caller, closer>>

-----------------------------------------------------------------------------
(* The callers.                                                              *)

(* _start_reconnecting, when not connected.                                  *)
StartReconnecting ==
  /\ closing' = FALSE
  /\ StartConnector
  /\ wanted' = TRUE

(* _ensure_connected by a task c, when it does not return at once; sub when  *)
(* c is in subscribe, which first records the subscription.                  *)
EnsureConnected(c, sub) ==
  /\ caller[c] = "idle"
  /\ ~shutdown /\ ~IsConnected
  /\ sub => supportsSubscribe
  /\ subscriptions' = (subscriptions \/ sub)
  /\ StartReconnecting
  /\ caller' = [caller EXCEPT ![c] = "waiting"]
  /\ UNCHANGED <<closed, linkVars, hosts, failed, failedCount, cancelling,
                 inflight, answer, closer, described, shutdown,
                 supportsSubscribe, closeResult, crashed>>

(* subscribe without a connection to wait for: the request may lose the      *)
(* connection, which ends push support.                                      *)
SubscribeNow ==
  /\ IsConnected \/ shutdown \/ ~supportsSubscribe
  /\ subscriptions' = TRUE
  /\ supportsSubscribe' \in {supportsSubscribe, FALSE}
  /\ UNCHANGED <<closing, closed, linkVars, hostVars, taskVars, described,
                 shutdown, histVars>>

(* The connector's end, or the ten seconds, reach the waiting task.          *)
CallerReturns(c) ==
  /\ caller[c] # "idle"
  /\ caller' = [caller EXCEPT ![c] = "idle"]
  /\ UNCHANGED <<closing, closed, linkVars, hostVars, pairVars, histVars,
                 connector, outcome, cancelling, inflight, answer, closer>>

(* A pairing that has been shut down ignores zeroconf.                       *)
HeedsAlways == TRUE  \* mutant
HeedsZeroconf == ~shutdown

(* _async_description_update: zeroconf has seen the accessory at addrs, or   *)
(* has lost it ({}); then reconnect_soon.                                    *)
Advertise(addrs) ==
  /\ HeedsZeroconf
  /\ described' = addrs
  /\ \/ /\ connector = "backoff"
        /\ connector' = "woken"
        /\ UNCHANGED <<closing, outcome, wanted, burst>>
     \/ /\ connector # "backoff" /\ ~IsConnected
        /\ StartReconnecting
     \/ /\ connector # "backoff" /\ IsConnected
        /\ UNCHANGED <<closing, connector, outcome, wanted, burst>>
  /\ UNCHANGED <<closed, linkVars, hosts, failed, failedCount, cancelling,
                 inflight, answer, caller, closer, shutdown, subscriptions,
                 supportsSubscribe, closeResult, crashed>>

(* HomeKitConnection.close up to its first await.  A connector that has      *)
(* ended is awaited without suspending: if it ended in AuthenticationError   *)
(* that is raised here, before _drop_transport.                              *)
CloseConnection ==
  /\ closer = "idle"
  /\ closing' = TRUE /\ wanted' = FALSE
  /\ \/ /\ ConnectorRunning
        /\ cancelling' = TRUE /\ closer' = "stopping" /\ closeResult' = "none"
        /\ UNCHANGED <<transport, protocol, secure, sock>>
     \/ /\ connector = "done" /\ outcome = "auth"
        /\ closeResult' = "raised"
        /\ UNCHANGED <<transport, protocol, secure, sock, cancelling, closer>>
     \/ /\ ~ConnectorRunning /\ outcome # "auth"
        /\ DropTransport(sock) /\ secure' = FALSE
        /\ closeResult' = "done"
        /\ UNCHANGED <<cancelling, closer>>
  /\ UNCHANGED <<closed, peer, verified, hostVars, connector, outcome, inflight,
                 answer, caller, described, subscriptions, supportsSubscribe,
                 crashed>>

Close == ~shutdown /\ CloseConnection /\ UNCHANGED shutdown

(* shutdown: _shutdown is set, then close.                                   *)
Shutdown == CloseConnection /\ shutdown' = TRUE

(* The rest of close, once the connector it awaited has ended.               *)
CloseResumes ==
  /\ closer' = "idle"
  /\ \/ /\ closer = "ready"
        /\ DropTransport(sock) /\ secure' = FALSE
        /\ closeResult' = "done"
     \/ /\ closer = "failed"
        /\ closeResult' = "raised"
        /\ UNCHANGED <<transport, protocol, secure, sock>>
  /\ UNCHANGED <<closing, closed, peer, verified, hostVars, connector, outcome,
                 cancelling, inflight, answer, caller, pairVars, wanted, crashed>>

-----------------------------------------------------------------------------
Network ==
  \/ TcpFails
  \/ \E h \in Hosts, t \in Transports : TcpConnects(h, t)
  \/ PeerAnswers
  \/ \E kind \in Misbehaviours : PeerMisbehaves(kind)
  \/ RequestTimesOut
  \/ \E t \in Transports : TransportCloses(t) \/ ConnectionLost(t)

User ==
  \/ \E c \in Callers :
       \/ \E sub \in BOOLEAN : EnsureConnected(c, sub)
       \/ CallerReturns(c)
  \/ SubscribeNow
  \/ \E addrs \in Advertised : Advertise(addrs)
  \/ Close \/ Shutdown \/ CloseResumes

Next == Connector \/ Network \/ User

Spec == Init /\ [][Next]_vars

(* The event loop runs what is ready; the operating system completes or      *)
(* fails what is pending; a well-behaved accessory answers.  Nothing is      *)
(* assumed of timeouts, errors and the callers' requests.                    *)
Fairness ==
  /\ WF_vars(Connector)
  /\ WF_vars(\E h \in Hosts, t \in Transports : TcpConnects(h, t))
  /\ WF_vars(PeerAnswers)
  /\ \A t \in Transports : WF_vars(ConnectionLost(t))
  /\ WF_vars(CloseResumes)
  /\ \A c \in Callers : WF_vars(caller[c] # "waiting" /\ CallerReturns(c))

FairSpec == Spec /\ Fairness

-----------------------------------------------------------------------------
(* Safety.                                                                   *)

(* The connection never refers to a transport whose connection_lost has been *)
(* delivered, whatever the order of attempts, losses and closes.             *)
NoDeadTransport == transport # NoTransport => sock[transport] # "free"

(* is_connected never vouches for a transport on which pair-verify has not   *)
(* succeeded: is_secure outlives a lost session and is only reset by the     *)
(* next attempt, so it must not be seen together with that attempt's         *)
(* unauthenticated transport.                                                *)
ConnectedIsVerified ==
  IsConnected => transport \in verified /\ protocol = "secure"

(* close() lasts: once it has ended, and until somebody asks for the         *)
(* connection again, nothing is held and no connector runs, whatever late    *)
(* connection_lost is delivered.                                             *)
ClosedStaysDown ==
  closer = "idle" /\ closeResult = "done" /\ ~wanted
    => transport = NoTransport /\ ~ConnectorRunning

(* shutdown is irreversible (abstract.py 329): neither zeroconf updates nor  *)
(* callers bring the connection back.                                        *)
ShutdownIsFinal ==
  closer = "idle" /\ closeResult = "done" /\ shutdown
    => transport = NoTransport /\ ~ConnectorRunning

(* A transport with a secure session is not forgotten while open, which      *)
(* would leave the accessory with a session nobody reads: only after the     *)
(* closed flag has stuck, or connection_made(True) has raised.               *)
NoSessionLeak ==
  \A t \in verified :
    sock[t] = "open" => t = transport \/ closed \/ crashed

(* The immediate retry after a wrong accessory cannot become a tight loop    *)
(* (connection.py 686-687), even when zeroconf changes the addresses         *)
(* between attempts: there are never more attempts than addresses without a  *)
(* sleep.                                                                    *)
NoTightRetry == burst <= Cardinality(Hosts)

(* What the docstring of _start_connector promises (connection.py 308-309):  *)
(* no reconnect task is started while a session is up.  The closed flag,     *)
(* never reset, breaks it.                                                   *)
NotStartedWhenUp ==
  connector = "new" =>
    ~(transport \in verified /\ sock[transport] = "open" /\ secure)

(* What the docstring of close promises (connection.py 562): it closes the   *)
(* transport, also when the connector had ended in an error.                 *)
CloseDropsTransport ==
  closer = "idle" /\ closeResult # "none" /\ ~wanted => transport = NoTransport

-----------------------------------------------------------------------------
(* Liveness.                                                                 *)

(* What the environment may do to keep the connector busy.                   *)
Trouble ==
  \/ TcpFails
  \/ \E kind \in Misbehaviours : PeerMisbehaves(kind)
  \/ RequestTimesOut
  \/ \E t \in Transports : TransportCloses(t)
  \/ \E addrs \in Advertised \ {hosts} : Advertise(addrs)
  \/ Close \/ Shutdown

(* Trouble ends, the accessory is at an advertised address, and the bound on *)
(* transports is not what stops the connector.                               *)
CalmEnvironment ==
  /\ <>[][~Trouble]_vars
  /\ <>[](hosts \cap RightHosts # {})
  /\ []<>(\E t \in Transports : sock[t] = "free")

(* Then the connector comes to rest, with a live connection or because it    *)
(* has been stopped or has given up, and no close() is left waiting.         *)
Converges ==
  CalmEnvironment =>
    <>[](closer = "idle" /\ (~ConnectorRunning \/ closed))

(* Then every caller of ensure_connection gets an answer even without its    *)
(* timeout.                                                                  *)
CallersAnswered ==
  CalmEnvironment => \A c \in Callers : caller[c] = "waiting" ~> caller[c] = "idle"
=============================================================================
