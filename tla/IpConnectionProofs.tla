-------------------------- MODULE IpConnectionProofs --------------------------
(***************************************************************************)
(* Proofs of the safety properties of IpConnection, for any sets of hosts,  *)
(* transports, callers and inputs.                                          *)
(*                                                                          *)
(* IInv conjoins TypeOK with one strengthening per property; they depend on *)
(* each other only in the order in which they are written.                  *)
(***************************************************************************)
EXTENDS IpConnection, FiniteSetTheorems, TLAPS

(* From the head of _connect_once to the end of pair-verify.                 *)
Attempting == {"connecting", "m1", "m3"}

(* While M1 is awaited the connected host is known.                          *)
PeerKnown == connector = "m1" => peer \in Hosts

(* is_secure is down during an attempt, and otherwise speaks of the          *)
(* connection's transport.                                                   *)
SecureIsVerified ==
  /\ connector \in Attempting => ~secure
  /\ secure /\ transport # NoTransport /\ protocol # "none"
       => transport \in verified /\ protocol = "secure"

(* What close() relies on while it waits, and what it leaves behind.         *)
CloseInv ==
  /\ closer = "stopping" => ConnectorRunning
  /\ closer = "stopping" /\ ~wanted => closing /\ cancelling
  /\ closer \in {"ready", "failed"} /\ ~wanted => closing /\ ~ConnectorRunning
  /\ closer = "idle" /\ closeResult = "done" /\ ~wanted
       => closing /\ transport = NoTransport /\ ~ConnectorRunning

(* After shutdown nobody's wish counts.                                      *)
ShutdownInv == shutdown => ~wanted

(* A verified transport that is still open is connected, or about to be      *)
(* leaked by one of the two excuses.                                         *)
LeakInv ==
  /\ \A t \in verified : sock[t] # "free"
  /\ \A t \in verified : sock[t] = "open" =>
       \/ closed \/ crashed
       \/ /\ t = transport /\ secure /\ protocol = "secure"
          /\ connector \in {"subscribing", "selfwait", "done"}

(* The number of attempts is bounded by the number of failed hosts, which    *)
(* grows with every immediate retry.                                         *)
RetryInv ==
  /\ hosts # {}
  /\ connector \in {"new", "backoff", "woken"} => burst = 0
  /\ connector \in {"connecting", "m1"} => burst <= failedCount + 1
  /\ burst <= Cardinality(Hosts)

IInv == /\ TypeOK /\ NoDeadTransport /\ PeerKnown /\ SecureIsVerified
        /\ CloseInv /\ ShutdownInv /\ LeakInv /\ RetryInv
-----------------------------------------------------------------------------
(* Type correctness.                                                         *)

LEMMA CardinalityOfHosts ==
  ASSUME NEW f \in SUBSET Hosts
  PROVE  /\ IsFiniteSet(f) /\ Cardinality(f) \in Nat
         /\ Cardinality(f) <= Cardinality(Hosts)
         /\ Cardinality(Hosts) \in Nat
         /\ f # Hosts => Cardinality(f) < Cardinality(Hosts)
  BY HostsAssumption, FS_Subset, FS_CardinalityType

(* What the helpers leave behind.                                            *)
LEMMA ClosingType ==
  ASSUME NEW s \in [Transports -> SockStates], NEW t \in Transports \cup {NoTransport}
  PROVE  Closing(s, t) \in [Transports -> SockStates]
  BY DEF Closing, SockStates

LEMMA DropType ==
  ASSUME TypeOK, NEW s \in [Transports -> SockStates], DropTransport(s)
  PROVE  /\ sock' \in [Transports -> SockStates]
         /\ transport' = NoTransport /\ protocol' = "none"
  BY ClosingType DEF DropTransport, TypeOK, LinkType

LEMMA FinishType ==
  ASSUME TypeOK, NEW r \in {"ok", "auth", "cancelled"}, Finish(r)
  PROVE  TaskType'
<1> USE DEF TypeOK, TaskType, Finish
<1>1. connector' \in Places /\ outcome' \in Outcomes /\ cancelling' \in BOOLEAN
  BY DEF Places, Outcomes
<1>2. inflight' \in Transports \cup {NoTransport} /\ answer' \in Answers
  BY DEF Answers
<1>3. caller' \in [Callers -> {"idle", "waiting", "ok", "auth", "cancelled"}]
  OBVIOUS
<1>4. closer' \in {"idle", "stopping", "ready", "failed"}
  OBVIOUS
<1> QED
  BY <1>1, <1>2, <1>3, <1>4

LEMMA AwaitType ==
  ASSUME TypeOK, NEW p \in Places, NEW t \in Transports \cup {NoTransport},
         AwaitAt(p, t)
  PROVE  TaskType'
  BY DEF TypeOK, TaskType, AwaitAt, Answers

LEMMA BackoffType ==
  ASSUME TypeOK, Backoff
  PROVE  TaskType' /\ HostType'
<1>1. TaskType'
  BY AwaitType DEF Backoff, Places
<1>2. HostType'
  BY DEF TypeOK, HostType, Backoff
<1> QED
  BY <1>1, <1>2

LEMMA LoopHeadType ==
  ASSUME TypeOK, NEW f \in SUBSET Hosts, LoopHead(f)
  PROVE  TaskType' /\ HostType' /\ secure' \in BOOLEAN
<1>1. CASE closing
  <2>1. TaskType'
    BY <1>1, FinishType DEF LoopHead
  <2>2. HostType' /\ secure' \in BOOLEAN
    BY <1>1 DEF TypeOK, HostType, LinkType, LoopHead
  <2> QED
    BY <2>1, <2>2
<1>2. CASE ~closing
  <2>1. TaskType'
    BY <1>2, AwaitType DEF LoopHead, Places
  <2>2. Cardinality(f) \in Nat
    BY CardinalityOfHosts
  <2>3. HostType'
    BY <1>2, <2>2 DEF TypeOK, HostType, PairType, LoopHead
  <2>4. secure' \in BOOLEAN
    BY <1>2 DEF LoopHead, ResetSecure
  <2> QED
    BY <2>1, <2>3, <2>4
<1> QED
  BY <1>1, <1>2

LEMMA StartConnectorType ==
  ASSUME TypeOK, StartConnector
  PROVE  connector' \in Places /\ outcome' \in Outcomes /\ burst' \in Nat
  BY DEF TypeOK, TaskType, HostType, StartConnector, Places, Outcomes


(* A step that leaves a group of variables alone leaves its type alone.      *)
LEMMA Untouched ==
  ASSUME TypeOK
  PROVE  /\ UNCHANGED linkVars => LinkType'
         /\ UNCHANGED hostVars => HostType'
         /\ UNCHANGED taskVars => TaskType'
         /\ UNCHANGED pairVars => PairType'
         /\ UNCHANGED histVars => HistType'
  BY DEF TypeOK, LinkType, HostType, TaskType, PairType, HistType, linkVars,
         hostVars, taskVars, pairVars, histVars

LEMMA AnswerType ==
  ASSUME TypeOK, answer' \in Answers,
         UNCHANGED <<connector, outcome, cancelling, inflight, caller, closer>>
  PROVE  TaskType'
  BY DEF TypeOK, TaskType

LEMMA LoopHeadStepType ==
  ASSUME TypeOK, NEW f \in SUBSET Hosts, LoopHead(f),
         UNCHANGED <<closing, closed, transport, protocol, peer, sock, verified,
                     pairVars, histVars>>
  PROVE  TypeOK'
<1>1. TaskType' /\ HostType' /\ secure' \in BOOLEAN
  BY LoopHeadType
<1>2. PairType' /\ HistType'
  BY Untouched
<1> QED
  BY <1>1, <1>2 DEF TypeOK, LinkType

LEMMA ConnectorType ==
  ASSUME TypeOK, PeerKnown, Connector
  PROVE  TypeOK'
<1>0. failed \in SUBSET Hosts
  BY DEF TypeOK, HostType
<1>1. CASE ConnectorStarts
  BY <1>0, <1>1, LoopHeadStepType DEF ConnectorStarts
<1>2. CASE ConnectorWakes
  BY <1>0, <1>2, LoopHeadStepType DEF ConnectorWakes
<1>3. CASE WakeSwallowsCancel
  BY <1>0, <1>3, LoopHeadStepType DEF WakeSwallowsCancel
<1>4. CASE VerifyGoesOn
  <2>1. TaskType'
    BY <1>4, AwaitType, BackoffType DEF VerifyGoesOn, TypeOK, LinkType, Places
  <2>2. HostType'
    BY <1>4, BackoffType, Untouched DEF VerifyGoesOn
  <2>3. LinkType' /\ PairType' /\ HistType'
    BY <1>4, Untouched DEF VerifyGoesOn
  <2> QED
    BY <1>4, <2>1, <2>2, <2>3 DEF TypeOK, VerifyGoesOn
<1>5. CASE VerifyWrongAccessory
  <2> DEFINE f == MarkFailed
  <2>1. f \in SUBSET Hosts
    BY <1>0, <1>5 DEF MarkFailed, VerifyWrongAccessory, PeerKnown
  <2>2. /\ sock' \in [Transports -> SockStates]
        /\ transport' = NoTransport /\ protocol' = "none"
    BY <1>5, DropType DEF VerifyWrongAccessory, TypeOK, LinkType
  <2>3. TaskType' /\ HostType' /\ secure' \in BOOLEAN
    <3>1. CASE RetryAtOnce(f)
      BY <1>5, <2>1, <3>1, LoopHeadType DEF VerifyWrongAccessory
    <3>2. CASE ~RetryAtOnce(f)
      <4>1. TaskType'
        BY <1>5, <3>2, AwaitType DEF VerifyWrongAccessory, Places
      <4>2. HostType' /\ secure' \in BOOLEAN
        BY <1>5, <2>1, <3>2 DEF VerifyWrongAccessory, TypeOK, HostType, LinkType
      <4> QED
        BY <4>1, <4>2
    <3> QED
      BY <3>1, <3>2
  <2>4. PairType' /\ HistType'
    BY <1>5, Untouched DEF VerifyWrongAccessory
  <2> QED
    BY <1>5, <2>2, <2>3, <2>4 DEF VerifyWrongAccessory, TypeOK, LinkType
<1>6. CASE VerifyFails
  <2>1. TaskType' /\ HostType'
    BY <1>6, BackoffType DEF VerifyFails
  <2>2. sock' \in [Transports -> SockStates]
    BY <1>6, ClosingType DEF VerifyFails, TypeOK, LinkType, TaskType
  <2>3. PairType' /\ HistType'
    BY <1>6, Untouched DEF VerifyFails
  <2> QED
    BY <1>6, <2>1, <2>2, <2>3 DEF VerifyFails, TypeOK, LinkType
<1>7. CASE VerifyUnauthorised
  <2>1. TaskType'
    BY <1>7, FinishType DEF VerifyUnauthorised
  <2> QED
    BY <1>7, <2>1, Untouched DEF VerifyUnauthorised, TypeOK
<1>8. CASE VerifySucceeds
  <2> DEFINE s == IF answer = "refused" THEN Closing(sock, transport) ELSE sock
  <2>1. s \in [Transports -> SockStates]
    BY ClosingType DEF TypeOK, LinkType
  <2>2. LinkType'
    <3> HIDE DEF s
    <3>1. sock' = s
      BY <1>8 DEF VerifySucceeds, s
    <3>2. secure' \in BOOLEAN /\ verified' \in SUBSET Transports
      BY <1>8 DEF VerifySucceeds, TypeOK, LinkType
    <3> QED
      BY <1>8, <2>1, <3>1, <3>2 DEF VerifySucceeds, TypeOK, LinkType
  <2>3. CASE transport = NoTransport
    <3>1. TaskType' /\ HostType'
      BY <1>8, <2>3, BackoffType DEF VerifySucceeds
    <3>2. HistType'
      BY <1>8, Untouched DEF VerifySucceeds
    <3> QED
      BY <1>8, <2>2, <2>3, <3>1, <3>2 DEF VerifySucceeds, TypeOK, PairType
  <2>4. CASE transport # NoTransport
    <3>1. NotifyOwner(s)
      BY <1>8, <2>4 DEF VerifySucceeds
    <3>2. HostType' /\ HistType'
      BY <1>8, <3>1, Untouched DEF VerifySucceeds, NotifyOwner
    <3>3. TaskType'
      BY <3>1, FinishType, AwaitType DEF NotifyOwner, Places, TypeOK, LinkType
    <3>4. closing' \in BOOLEAN /\ supportsSubscribe' \in BOOLEAN
      BY <3>1 DEF NotifyOwner, TypeOK, PairType
    <3> QED
      BY <1>8, <2>2, <3>2, <3>3, <3>4 DEF VerifySucceeds, TypeOK, PairType
  <2> QED
    BY <2>3, <2>4
<1>9. CASE SubscribeEnds
  <2>1. TaskType'
    BY <1>9, FinishType DEF SubscribeEnds
  <2>2. sock' \in [Transports -> SockStates]
    BY <1>9, ClosingType DEF SubscribeEnds, TypeOK, LinkType, TaskType
  <2>3. HostType' /\ HistType'
    BY <1>9, Untouched DEF SubscribeEnds
  <2>4. supportsSubscribe' \in BOOLEAN
    BY <1>9 DEF SubscribeEnds
  <2> QED
    BY <1>9, <2>1, <2>2, <2>3, <2>4 DEF SubscribeEnds, TypeOK, LinkType, PairType
<1>10. CASE SubscribeCrashes
  <2>1. TaskType' /\ HostType'
    BY <1>10, BackoffType DEF SubscribeCrashes
  <2> QED
    BY <1>10, <2>1, Untouched DEF SubscribeCrashes, TypeOK, HistType
<1>11. CASE SelfWaitTimesOut
  <2>1. TaskType'
    BY <1>11, FinishType DEF SelfWaitTimesOut
  <2> QED
    BY <1>11, <2>1, Untouched DEF SelfWaitTimesOut, TypeOK
<1>12. CASE ConnectorCancelled
  <2>1. TaskType'
    BY <1>12, FinishType DEF ConnectorCancelled
  <2>2. sock' \in [Transports -> SockStates]
    BY <1>12, ClosingType DEF ConnectorCancelled, TypeOK, LinkType, TaskType
  <2>3. HostType' /\ PairType' /\ HistType'
    BY <1>12, Untouched DEF ConnectorCancelled
  <2> QED
    BY <1>12, <2>1, <2>2, <2>3 DEF ConnectorCancelled, TypeOK, LinkType
<1> QED
  BY <1>1, <1>2, <1>3, <1>4, <1>5, <1>6, <1>7, <1>8, <1>9, <1>10, <1>11, <1>12
     DEF Connector

LEMMA NetworkType ==
  ASSUME TypeOK, Network
  PROVE  TypeOK'
<1>1. CASE TcpFails
  <2>1. TaskType' /\ HostType'
    BY <1>1, BackoffType DEF TcpFails
  <2> QED
    BY <1>1, <2>1, Untouched DEF TcpFails, TypeOK
<1>2. ASSUME NEW h \in Hosts, NEW t \in Transports, TcpConnects(h, t)
      PROVE  TypeOK'
  <2>1. TaskType'
    BY <1>2, AwaitType DEF TcpConnects, Places
  <2>2. LinkType'
    BY <1>2 DEF TcpConnects, RecordPeer, TypeOK, LinkType, SockStates
  <2>3. HostType' /\ PairType' /\ HistType'
    BY <1>2, Untouched DEF TcpConnects
  <2> QED
    BY <1>2, <2>1, <2>2, <2>3 DEF TcpConnects, TypeOK
<1>3. CASE PeerAnswers
  <2>1. TaskType'
    BY <1>3, AnswerType DEF PeerAnswers, Answers
  <2> QED
    BY <1>3, <2>1, Untouched DEF PeerAnswers, TypeOK
<1>4. ASSUME NEW kind \in Misbehaviours, PeerMisbehaves(kind)
      PROVE  TypeOK'
  <2>1. TaskType'
    BY <1>4, AnswerType DEF PeerMisbehaves, Answers
  <2> QED
    BY <1>4, <2>1, Untouched DEF PeerMisbehaves, TypeOK
<1>5. CASE RequestTimesOut
  <2>1. TaskType'
    BY <1>5, AnswerType DEF RequestTimesOut, Answers
  <2> QED
    BY <1>5, <2>1, Untouched DEF RequestTimesOut, TypeOK
<1>6. ASSUME NEW t \in Transports, TransportCloses(t)
      PROVE  TypeOK'
  <2>1. TaskType'
    BY <1>6, AnswerType DEF TransportCloses, TypeOK, TaskType, Answers
  <2>2. LinkType'
    BY <1>6 DEF TransportCloses, TypeOK, LinkType, SockStates
  <2>3. HostType' /\ PairType' /\ HistType'
    BY <1>6, Untouched DEF TransportCloses
  <2> QED
    BY <1>6, <2>1, <2>2, <2>3 DEF TransportCloses, TypeOK
<1>7. ASSUME NEW t \in Transports, ConnectionLost(t)
      PROVE  TypeOK'
  <2>1. [sock EXCEPT ![t] = "free"] \in [Transports -> SockStates]
    BY DEF TypeOK, LinkType, SockStates
  <2>2. LinkType'
    BY <1>7, <2>1, DropType DEF ConnectionLost, TypeOK, LinkType
  <2>3. /\ closed' \in BOOLEAN
        /\ connector' \in Places /\ outcome' \in Outcomes /\ burst' \in Nat
    BY <1>7, StartConnectorType
       DEF ConnectionLost, AfterLoss, TypeOK, TaskType, HostType
  <2>4. answer' \in Answers
    BY <1>7 DEF ConnectionLost, TypeOK, TaskType, Answers
  <2>5. TaskType' /\ HostType'
    BY <1>7, <2>3, <2>4 DEF ConnectionLost, TypeOK, TaskType, HostType
  <2>6. PairType' /\ HistType'
    BY <1>7, Untouched DEF ConnectionLost
  <2> QED
    BY <1>7, <2>2, <2>3, <2>5, <2>6 DEF ConnectionLost, TypeOK
<1> QED
  BY <1>1, <1>2, <1>3, <1>4, <1>5, <1>6, <1>7 DEF Network

LEMMA StartReconnectingType ==
  ASSUME TypeOK, StartReconnecting
  PROVE  /\ closing' \in BOOLEAN /\ wanted' \in BOOLEAN
         /\ connector' \in Places /\ outcome' \in Outcomes /\ burst' \in Nat
  BY StartConnectorType DEF StartReconnecting

LEMMA CloseType ==
  ASSUME TypeOK, CloseConnection, shutdown' \in BOOLEAN
  PROVE  TypeOK'
<1>1. LinkType'
  BY DropType DEF CloseConnection, TypeOK, LinkType
<1>2. HostType'
  BY Untouched DEF CloseConnection
<1>3. TaskType'
  BY DEF CloseConnection, TypeOK, TaskType
<1>4. PairType' /\ HistType'
  BY DEF CloseConnection, TypeOK, PairType, HistType
<1> QED
  BY <1>1, <1>2, <1>3, <1>4 DEF CloseConnection, TypeOK

LEMMA UserType ==
  ASSUME TypeOK, User
  PROVE  TypeOK'
<1>1. ASSUME NEW c \in Callers, NEW sub \in BOOLEAN, EnsureConnected(c, sub)
      PROVE  TypeOK'
  <2>1. /\ closing' \in BOOLEAN /\ wanted' \in BOOLEAN
        /\ connector' \in Places /\ outcome' \in Outcomes /\ burst' \in Nat
    BY <1>1, StartReconnectingType DEF EnsureConnected
  <2>2. TaskType'
    BY <1>1, <2>1 DEF EnsureConnected, TypeOK, TaskType
  <2>3. HostType' /\ PairType' /\ HistType'
    BY <1>1, <2>1 DEF EnsureConnected, TypeOK, HostType, PairType, HistType
  <2> QED
    BY <1>1, <2>1, <2>2, <2>3, Untouched DEF EnsureConnected, TypeOK
<1>2. ASSUME NEW c \in Callers, CallerReturns(c)
      PROVE  TypeOK'
  <2>1. TaskType'
    BY <1>2 DEF CallerReturns, TypeOK, TaskType
  <2> QED
    BY <1>2, <2>1, Untouched DEF CallerReturns, TypeOK
<1>3. CASE SubscribeNow
  <2>1. PairType'
    BY <1>3 DEF SubscribeNow, TypeOK, PairType
  <2> QED
    BY <1>3, <2>1, Untouched DEF SubscribeNow, TypeOK
<1>4. ASSUME NEW addrs \in Advertised, Advertise(addrs)
      PROVE  TypeOK'
  <2>1. /\ closing' \in BOOLEAN /\ wanted' \in BOOLEAN
        /\ connector' \in Places /\ outcome' \in Outcomes /\ burst' \in Nat
    BY <1>4, StartReconnectingType
       DEF Advertise, TypeOK, TaskType, HostType, HistType, Places
  <2>2. TaskType'
    BY <1>4, <2>1 DEF Advertise, TypeOK, TaskType
  <2>3. HostType' /\ HistType'
    BY <1>4, <2>1 DEF Advertise, TypeOK, HostType, HistType
  <2>4. PairType'
    BY <1>4, AdvertisedAssumption DEF Advertise, TypeOK, PairType
  <2> QED
    BY <1>4, <2>1, <2>2, <2>3, <2>4, Untouched DEF Advertise, TypeOK
<1>5. CASE Close
  BY <1>5, CloseType DEF Close, TypeOK, PairType
<1>6. CASE Shutdown
  BY <1>6, CloseType DEF Shutdown
<1>7. CASE CloseResumes
  <2>1. LinkType'
    BY <1>7, DropType DEF CloseResumes, TypeOK, LinkType
  <2>2. TaskType'
    BY <1>7 DEF CloseResumes, TypeOK, TaskType
  <2>3. HistType'
    BY <1>7 DEF CloseResumes, TypeOK, HistType
  <2> QED
    BY <1>7, <2>1, <2>2, <2>3, Untouched DEF CloseResumes, TypeOK
<1> QED
  BY <1>1, <1>2, <1>3, <1>4, <1>5, <1>6, <1>7 DEF User

LEMMA TypeStep ==
  ASSUME TypeOK, PeerKnown, [Next]_vars
  PROVE  TypeOK'
<1>1. CASE UNCHANGED vars
  BY <1>1, Untouched DEF vars, TypeOK
<1> QED
  BY <1>1, ConnectorType, NetworkType, UserType DEF Next

-----------------------------------------------------------------------------
(* Transports and sessions.                                                  *)

(* close() on a transport: at most t changes, and only from open to closing. *)
LEMMA ClosingKeeps ==
  ASSUME NEW s \in [Transports -> SockStates], NEW t \in Transports \cup {NoTransport},
         NEW u \in Transports
  PROVE  /\ Closing(s, t)[u] = "free" <=> s[u] = "free"
         /\ Closing(s, t)[u] = "open" <=> s[u] = "open" /\ u # t
  BY NoneAssumption DEF Closing, SockStates

LEMMA NoDeadTransportStep ==
  ASSUME TypeOK, NoDeadTransport, [Next]_vars
  PROVE  NoDeadTransport'
<1> USE DEF NoDeadTransport
<1>0. /\ sock \in [Transports -> SockStates]
      /\ transport \in Transports \cup {NoTransport}
      /\ inflight \in Transports \cup {NoTransport}
  BY DEF TypeOK, LinkType, TaskType
<1>1. CASE ConnectorStarts
  BY <1>1 DEF ConnectorStarts
<1>2. CASE ConnectorWakes
  BY <1>2 DEF ConnectorWakes
<1>3. CASE WakeSwallowsCancel
  BY <1>3 DEF WakeSwallowsCancel
<1>4. CASE VerifyGoesOn
  BY <1>4 DEF VerifyGoesOn, linkVars
<1>5. CASE VerifyWrongAccessory
  BY <1>5 DEF VerifyWrongAccessory, DropTransport
<1>6. CASE VerifyFails
  BY <1>0, <1>6, ClosingKeeps DEF VerifyFails
<1>7. CASE VerifyUnauthorised
  BY <1>7 DEF VerifyUnauthorised, linkVars
<1>8. CASE VerifySucceeds
  BY <1>0, <1>8, ClosingKeeps DEF VerifySucceeds
<1>9. CASE SubscribeEnds
  BY <1>0, <1>9, ClosingKeeps DEF SubscribeEnds
<1>10. CASE SubscribeCrashes
  BY <1>10 DEF SubscribeCrashes, linkVars
<1>11. CASE SelfWaitTimesOut
  BY <1>11 DEF SelfWaitTimesOut, linkVars
<1>12. CASE ConnectorCancelled
  BY <1>0, <1>12, ClosingKeeps DEF ConnectorCancelled
<1>13. CASE TcpFails
  BY <1>13 DEF TcpFails, linkVars
<1>14. ASSUME NEW h \in Hosts, NEW t \in Transports, TcpConnects(h, t)
       PROVE  NoDeadTransport'
  BY <1>0, <1>14 DEF TcpConnects
<1>15. CASE PeerAnswers
  BY <1>15 DEF PeerAnswers, linkVars
<1>16. ASSUME NEW kind \in Misbehaviours, PeerMisbehaves(kind)
       PROVE  NoDeadTransport'
  BY <1>16 DEF PeerMisbehaves, linkVars
<1>17. CASE RequestTimesOut
  BY <1>17 DEF RequestTimesOut, linkVars
<1>18. ASSUME NEW t \in Transports, TransportCloses(t)
       PROVE  NoDeadTransport'
  BY <1>0, <1>18 DEF TransportCloses
<1>19. ASSUME NEW t \in Transports, ConnectionLost(t)
       PROVE  NoDeadTransport'
  BY <1>19 DEF ConnectionLost, DropTransport
<1>20. ASSUME NEW c \in Callers, NEW sub \in BOOLEAN, EnsureConnected(c, sub)
       PROVE  NoDeadTransport'
  BY <1>20 DEF EnsureConnected, linkVars
<1>21. ASSUME NEW c \in Callers, CallerReturns(c)
       PROVE  NoDeadTransport'
  BY <1>21 DEF CallerReturns, linkVars
<1>22. CASE SubscribeNow
  BY <1>22 DEF SubscribeNow, linkVars
<1>23. ASSUME NEW addrs \in Advertised, Advertise(addrs)
       PROVE  NoDeadTransport'
  BY <1>23 DEF Advertise, linkVars
<1>24. CASE Close \/ Shutdown
  BY <1>24 DEF Close, Shutdown, CloseConnection, DropTransport
<1>25. CASE CloseResumes
  BY <1>25 DEF CloseResumes, DropTransport
<1>26. CASE UNCHANGED vars
  BY <1>26 DEF vars, linkVars
<1> QED
  BY <1>1, <1>2, <1>3, <1>4, <1>5, <1>6, <1>7, <1>8, <1>9, <1>10, <1>11, <1>12,
     <1>13, <1>14, <1>15, <1>16, <1>17, <1>18, <1>19, <1>20, <1>21, <1>22, <1>23,
     <1>24, <1>25, <1>26
     DEF Next, Connector, Network, User

(* The connected host is recorded in the step in which M1 goes out.          *)
LEMMA PeerKnownStep ==
  ASSUME TypeOK, PeerKnown, [Next]_vars
  PROVE  PeerKnown'
<1> USE DEF PeerKnown
<1>1. CASE ConnectorStarts
  BY <1>1 DEF ConnectorStarts, AwaitAt, Finish, LoopHead
<1>2. CASE ConnectorWakes
  BY <1>2 DEF ConnectorWakes, AwaitAt, Finish, LoopHead
<1>3. CASE WakeSwallowsCancel
  BY <1>3 DEF WakeSwallowsCancel, AwaitAt, Finish, LoopHead
<1>4. CASE VerifyGoesOn
  BY <1>4 DEF VerifyGoesOn, AwaitAt, Backoff, linkVars
<1>5. CASE VerifyWrongAccessory
  BY <1>5 DEF VerifyWrongAccessory, AwaitAt, Finish, LoopHead
<1>6. CASE VerifyFails
  BY <1>6 DEF VerifyFails, AwaitAt, Backoff
<1>7. CASE VerifyUnauthorised
  BY <1>7 DEF VerifyUnauthorised, Finish, linkVars
<1>8. CASE VerifySucceeds
  BY <1>8 DEF VerifySucceeds, AwaitAt, Backoff, Finish, NotifyOwner
<1>9. CASE SubscribeEnds
  BY <1>9 DEF SubscribeEnds, Finish
<1>10. CASE SubscribeCrashes
  BY <1>10 DEF SubscribeCrashes, AwaitAt, Backoff, linkVars
<1>11. CASE SelfWaitTimesOut
  BY <1>11 DEF SelfWaitTimesOut, Finish, linkVars
<1>12. CASE ConnectorCancelled
  BY <1>12 DEF ConnectorCancelled, Finish
<1>13. CASE TcpFails
  BY <1>13 DEF TcpFails, AwaitAt, Backoff, linkVars
<1>14. ASSUME NEW h \in Hosts, NEW t \in Transports, TcpConnects(h, t)
       PROVE  PeerKnown'
  BY <1>14 DEF TcpConnects, AwaitAt, RecordPeer
<1>15. CASE PeerAnswers
  BY <1>15 DEF PeerAnswers, Awaited, linkVars
<1>16. ASSUME NEW kind \in Misbehaviours, PeerMisbehaves(kind)
       PROVE  PeerKnown'
  BY <1>16 DEF PeerMisbehaves, Awaited, linkVars
<1>17. CASE RequestTimesOut
  BY <1>17 DEF RequestTimesOut, Awaited, linkVars
<1>18. ASSUME NEW t \in Transports, TransportCloses(t)
       PROVE  PeerKnown'
  BY <1>18 DEF TransportCloses, Awaited
<1>19. ASSUME NEW t \in Transports, ConnectionLost(t)
       PROVE  PeerKnown'
  BY <1>19
     DEF ConnectionLost, AfterLoss, Awaited, ConnectorRunning, StartConnector
<1>20. ASSUME NEW c \in Callers, NEW sub \in BOOLEAN, EnsureConnected(c, sub)
       PROVE  PeerKnown'
  BY <1>20
     DEF EnsureConnected, ConnectorRunning, StartConnector, StartReconnecting,
       linkVars
<1>21. ASSUME NEW c \in Callers, CallerReturns(c)
       PROVE  PeerKnown'
  BY <1>21 DEF CallerReturns, linkVars
<1>22. CASE SubscribeNow
  BY <1>22 DEF SubscribeNow, linkVars, taskVars
<1>23. ASSUME NEW addrs \in Advertised, Advertise(addrs)
       PROVE  PeerKnown'
  BY <1>23
     DEF Advertise, ConnectorRunning, StartConnector, StartReconnecting,
       linkVars
<1>24. CASE Close
  BY <1>24 DEF Close, CloseConnection, ConnectorRunning
<1>25. CASE Shutdown
  BY <1>25 DEF Shutdown, CloseConnection, ConnectorRunning
<1>26. CASE CloseResumes
  BY <1>26 DEF CloseResumes
<1>27. CASE UNCHANGED vars
  BY <1>27 DEF vars, linkVars, taskVars
<1> QED
  BY <1>1, <1>2, <1>3, <1>4, <1>5, <1>6, <1>7, <1>8, <1>9, <1>10, <1>11,
    <1>12, <1>13, <1>14, <1>15, <1>16, <1>17, <1>18, <1>19, <1>20, <1>21,
    <1>22, <1>23, <1>24, <1>25, <1>26, <1>27
     DEF Next, Connector, Network, User

(* secure falls at the head of every attempt, before the attempt's transport *)
(* exists, and a verified transport is forgotten only when it is dropped.     *)
LEMMA SecureStep ==
  ASSUME TypeOK, NoDeadTransport, SecureIsVerified, [Next]_vars
  PROVE  SecureIsVerified'
<1> USE DEF SecureIsVerified, Attempting
<1>1. CASE ConnectorStarts
  BY <1>1 DEF ConnectorStarts, AwaitAt, Finish, LoopHead, ResetSecure
<1>2. CASE ConnectorWakes
  BY <1>2 DEF ConnectorWakes, AwaitAt, Finish, LoopHead, ResetSecure
<1>3. CASE WakeSwallowsCancel
  BY <1>3 DEF WakeSwallowsCancel, AwaitAt, Finish, LoopHead, ResetSecure
<1>4. CASE VerifyGoesOn
  BY <1>4 DEF VerifyGoesOn, AwaitAt, Backoff, linkVars
<1>5. CASE VerifyWrongAccessory
  BY <1>5
     DEF VerifyWrongAccessory, AwaitAt, DropTransport, Finish, LoopHead,
       ResetSecure
<1>6. CASE VerifyFails
  BY <1>6 DEF VerifyFails, AwaitAt, Backoff
<1>7. CASE VerifyUnauthorised
  BY <1>7 DEF VerifyUnauthorised, Finish, linkVars
<1>8. CASE VerifySucceeds
  BY <1>8 DEF VerifySucceeds, AwaitAt, Backoff, Finish, NotifyOwner
<1>9. CASE SubscribeEnds
  BY <1>9 DEF SubscribeEnds, Finish
<1>10. CASE SubscribeCrashes
  BY <1>10 DEF SubscribeCrashes, AwaitAt, Backoff, linkVars
<1>11. CASE SelfWaitTimesOut
  BY <1>11 DEF SelfWaitTimesOut, Finish, linkVars
<1>12. CASE ConnectorCancelled
  BY <1>12 DEF ConnectorCancelled, Finish
<1>13. CASE TcpFails
  BY <1>13 DEF TcpFails, AwaitAt, Backoff, linkVars
<1>14. ASSUME NEW h \in Hosts, NEW t \in Transports, TcpConnects(h, t)
       PROVE  SecureIsVerified'
  BY <1>14 DEF TcpConnects, AwaitAt
<1>15. CASE PeerAnswers
  BY <1>15 DEF PeerAnswers, linkVars
<1>16. ASSUME NEW kind \in Misbehaviours, PeerMisbehaves(kind)
       PROVE  SecureIsVerified'
  BY <1>16 DEF PeerMisbehaves, linkVars
<1>17. CASE RequestTimesOut
  BY <1>17 DEF RequestTimesOut, linkVars
<1>18. ASSUME NEW t \in Transports, TransportCloses(t)
       PROVE  SecureIsVerified'
  BY <1>18 DEF TransportCloses
<1>19. ASSUME NEW t \in Transports, ConnectionLost(t)
       PROVE  SecureIsVerified'
  BY <1>19
     DEF ConnectionLost, AfterLoss, ConnectorRunning, DropTransport,
       StartConnector
<1>20. ASSUME NEW c \in Callers, NEW sub \in BOOLEAN, EnsureConnected(c, sub)
       PROVE  SecureIsVerified'
  BY <1>20
     DEF EnsureConnected, ConnectorRunning, StartConnector, StartReconnecting,
       linkVars
<1>21. ASSUME NEW c \in Callers, CallerReturns(c)
       PROVE  SecureIsVerified'
  BY <1>21 DEF CallerReturns, linkVars
<1>22. CASE SubscribeNow
  BY <1>22 DEF SubscribeNow, linkVars, taskVars
<1>23. ASSUME NEW addrs \in Advertised, Advertise(addrs)
       PROVE  SecureIsVerified'
  BY <1>23
     DEF Advertise, ConnectorRunning, StartConnector, StartReconnecting,
       linkVars
<1>24. CASE Close
  BY <1>24 DEF Close, CloseConnection, ConnectorRunning, DropTransport
<1>25. CASE Shutdown
  BY <1>25 DEF Shutdown, CloseConnection, ConnectorRunning, DropTransport
<1>26. CASE CloseResumes
  BY <1>26 DEF CloseResumes, DropTransport
<1>27. CASE UNCHANGED vars
  BY <1>27 DEF vars, linkVars, taskVars
<1> QED
  BY <1>1, <1>2, <1>3, <1>4, <1>5, <1>6, <1>7, <1>8, <1>9, <1>10, <1>11,
    <1>12, <1>13, <1>14, <1>15, <1>16, <1>17, <1>18, <1>19, <1>20, <1>21,
    <1>22, <1>23, <1>24, <1>25, <1>26, <1>27
     DEF Next, Connector, Network, User

-----------------------------------------------------------------------------
(* Closing and shutting down.                                                *)

(* A wish for the connection is the only thing that ends a close early: the  *)
(* connector cannot clear closing by itself while it is being cancelled.     *)
LEMMA CloseStep ==
  ASSUME TypeOK, CloseInv, [Next]_vars
  PROVE  CloseInv'
<1> USE DEF CloseInv, ConnectorRunning
<1>1. CASE ConnectorStarts
  BY <1>1 DEF ConnectorStarts, AwaitAt, Finish, LoopHead, histVars
<1>2. CASE ConnectorWakes
  BY <1>2 DEF ConnectorWakes, AwaitAt, Finish, LoopHead, histVars
<1>3. CASE WakeSwallowsCancel
  BY <1>3 DEF WakeSwallowsCancel, AwaitAt, Finish, LoopHead, histVars
<1>4. CASE VerifyGoesOn
  BY <1>4 DEF VerifyGoesOn, AwaitAt, Backoff, histVars, linkVars
<1>5. CASE VerifyWrongAccessory
  BY <1>5
     DEF VerifyWrongAccessory, AwaitAt, DropTransport, Finish, LoopHead,
       histVars
<1>6. CASE VerifyFails
  BY <1>6 DEF VerifyFails, AwaitAt, Backoff, histVars
<1>7. CASE VerifyUnauthorised
  BY <1>7 DEF VerifyUnauthorised, Finish, histVars, linkVars
<1>8. CASE VerifySucceeds
  BY <1>8
     DEF VerifySucceeds, AwaitAt, Backoff, Finish, NotifyOwner, histVars
<1>9. CASE SubscribeEnds
  BY <1>9 DEF SubscribeEnds, Finish, histVars
<1>10. CASE SubscribeCrashes
  BY <1>10 DEF SubscribeCrashes, AwaitAt, Backoff, linkVars
<1>11. CASE SelfWaitTimesOut
  BY <1>11 DEF SelfWaitTimesOut, Finish, histVars, linkVars
<1>12. CASE ConnectorCancelled
  BY <1>12 DEF ConnectorCancelled, Finish, histVars
<1>13. CASE TcpFails
  BY <1>13 DEF TcpFails, AwaitAt, Backoff, histVars, linkVars
<1>14. ASSUME NEW h \in Hosts, NEW t \in Transports, TcpConnects(h, t)
       PROVE  CloseInv'
  BY <1>14 DEF TcpConnects, AwaitAt, histVars
<1>15. CASE PeerAnswers
  BY <1>15 DEF PeerAnswers, histVars, linkVars
<1>16. ASSUME NEW kind \in Misbehaviours, PeerMisbehaves(kind)
       PROVE  CloseInv'
  BY <1>16 DEF PeerMisbehaves, histVars, linkVars
<1>17. CASE RequestTimesOut
  BY <1>17 DEF RequestTimesOut, histVars, linkVars
<1>18. ASSUME NEW t \in Transports, TransportCloses(t)
       PROVE  CloseInv'
  BY <1>18 DEF TransportCloses, histVars
<1>19. ASSUME NEW t \in Transports, ConnectionLost(t)
       PROVE  CloseInv'
  BY <1>19
     DEF ConnectionLost, AfterLoss, DropTransport, StartConnector, histVars
<1>20. ASSUME NEW c \in Callers, NEW sub \in BOOLEAN, EnsureConnected(c, sub)
       PROVE  CloseInv'
  BY <1>20 DEF EnsureConnected, StartConnector, StartReconnecting, linkVars
<1>21. ASSUME NEW c \in Callers, CallerReturns(c)
       PROVE  CloseInv'
  BY <1>21 DEF CallerReturns, histVars, linkVars
<1>22. CASE SubscribeNow
  BY <1>22 DEF SubscribeNow, histVars, linkVars, taskVars
<1>23. ASSUME NEW addrs \in Advertised, Advertise(addrs)
       PROVE  CloseInv'
  BY <1>23 DEF Advertise, StartConnector, StartReconnecting, linkVars
<1>24. CASE Close
  BY <1>24 DEF Close, CloseConnection, DropTransport
<1>25. CASE Shutdown
  BY <1>25 DEF Shutdown, CloseConnection, DropTransport
<1>26. CASE CloseResumes
  BY <1>26 DEF CloseResumes, DropTransport
<1>27. CASE UNCHANGED vars
  BY <1>27 DEF vars, linkVars, taskVars, histVars
<1> QED
  BY <1>1, <1>2, <1>3, <1>4, <1>5, <1>6, <1>7, <1>8, <1>9, <1>10, <1>11,
    <1>12, <1>13, <1>14, <1>15, <1>16, <1>17, <1>18, <1>19, <1>20, <1>21,
    <1>22, <1>23, <1>24, <1>25, <1>26, <1>27
     DEF Next, Connector, Network, User

(* Callers and zeroconf are turned away once shutdown is set.                *)
LEMMA ShutdownStep ==
  ASSUME TypeOK, ShutdownInv, [Next]_vars
  PROVE  ShutdownInv'
<1> USE DEF ShutdownInv
<1>1. CASE ConnectorStarts
  BY <1>1 DEF ConnectorStarts, histVars, pairVars
<1>2. CASE ConnectorWakes
  BY <1>2 DEF ConnectorWakes, histVars, pairVars
<1>3. CASE WakeSwallowsCancel
  BY <1>3 DEF WakeSwallowsCancel, histVars, pairVars
<1>4. CASE VerifyGoesOn
  BY <1>4 DEF VerifyGoesOn, histVars, pairVars
<1>5. CASE VerifyWrongAccessory
  BY <1>5 DEF VerifyWrongAccessory, histVars, pairVars
<1>6. CASE VerifyFails
  BY <1>6 DEF VerifyFails, histVars, pairVars
<1>7. CASE VerifyUnauthorised
  BY <1>7 DEF VerifyUnauthorised, histVars, pairVars
<1>8. CASE VerifySucceeds
  BY <1>8 DEF VerifySucceeds, NotifyOwner, histVars
<1>9. CASE SubscribeEnds
  BY <1>9 DEF SubscribeEnds, histVars
<1>10. CASE SubscribeCrashes
  BY <1>10 DEF SubscribeCrashes, pairVars
<1>11. CASE SelfWaitTimesOut
  BY <1>11 DEF SelfWaitTimesOut, histVars, pairVars
<1>12. CASE ConnectorCancelled
  BY <1>12 DEF ConnectorCancelled, histVars, pairVars
<1>13. CASE TcpFails
  BY <1>13 DEF TcpFails, histVars, pairVars
<1>14. ASSUME NEW h \in Hosts, NEW t \in Transports, TcpConnects(h, t)
       PROVE  ShutdownInv'
  BY <1>14 DEF TcpConnects, histVars, pairVars
<1>15. CASE PeerAnswers
  BY <1>15 DEF PeerAnswers, histVars, pairVars
<1>16. ASSUME NEW kind \in Misbehaviours, PeerMisbehaves(kind)
       PROVE  ShutdownInv'
  BY <1>16 DEF PeerMisbehaves, histVars, pairVars
<1>17. CASE RequestTimesOut
  BY <1>17 DEF RequestTimesOut, histVars, pairVars
<1>18. ASSUME NEW t \in Transports, TransportCloses(t)
       PROVE  ShutdownInv'
  BY <1>18 DEF TransportCloses, histVars, pairVars
<1>19. ASSUME NEW t \in Transports, ConnectionLost(t)
       PROVE  ShutdownInv'
  BY <1>19 DEF ConnectionLost, histVars, pairVars
<1>20. ASSUME NEW c \in Callers, NEW sub \in BOOLEAN, EnsureConnected(c, sub)
       PROVE  ShutdownInv'
  BY <1>20 DEF EnsureConnected, StartReconnecting
<1>21. ASSUME NEW c \in Callers, CallerReturns(c)
       PROVE  ShutdownInv'
  BY <1>21 DEF CallerReturns, histVars, pairVars
<1>22. CASE SubscribeNow
  BY <1>22 DEF SubscribeNow, histVars
<1>23. ASSUME NEW addrs \in Advertised, Advertise(addrs)
       PROVE  ShutdownInv'
  BY <1>23 DEF Advertise, StartReconnecting, HeedsZeroconf
<1>24. CASE Close
  BY <1>24 DEF Close, CloseConnection
<1>25. CASE Shutdown
  BY <1>25 DEF Shutdown, CloseConnection
<1>26. CASE CloseResumes
  BY <1>26 DEF CloseResumes, pairVars
<1>27. CASE UNCHANGED vars
  BY <1>27 DEF vars, pairVars, histVars
<1> QED
  BY <1>1, <1>2, <1>3, <1>4, <1>5, <1>6, <1>7, <1>8, <1>9, <1>10, <1>11,
    <1>12, <1>13, <1>14, <1>15, <1>16, <1>17, <1>18, <1>19, <1>20, <1>21,
    <1>22, <1>23, <1>24, <1>25, <1>26, <1>27
     DEF Next, Connector, Network, User

-----------------------------------------------------------------------------
(* No session is forgotten while open.                                       *)

(* The connection refers to a verified transport until it closes it, and a   *)
(* new attempt begins only when there is no session, or with the closed flag *)
(* stuck, or after connection_made(True) has raised.                         *)
LEMMA LeakStep ==
  ASSUME TypeOK, NoDeadTransport, LeakInv, [Next]_vars
  PROVE  LeakInv'
<1> USE DEF LeakInv
<1>0. /\ sock \in [Transports -> SockStates] /\ verified \in SUBSET Transports
      /\ transport \in Transports \cup {NoTransport}
      /\ inflight \in Transports \cup {NoTransport}
  BY DEF TypeOK, LinkType, TaskType
<1>1. CASE ConnectorStarts
  BY <1>1
     DEF ConnectorStarts, AwaitAt, Finish, LoopHead, ResetSecure, histVars
<1>2. CASE ConnectorWakes
  BY <1>2
     DEF ConnectorWakes, AwaitAt, Finish, LoopHead, ResetSecure, histVars
<1>3. CASE WakeSwallowsCancel
  BY <1>3
     DEF WakeSwallowsCancel, AwaitAt, Finish, LoopHead, ResetSecure, histVars
<1>4. CASE VerifyGoesOn
  BY <1>4 DEF VerifyGoesOn, AwaitAt, Backoff, histVars, linkVars
<1>5. CASE VerifyWrongAccessory
  BY <1>0, <1>5, ClosingKeeps
     DEF VerifyWrongAccessory, AwaitAt, DropTransport, Finish, LoopHead,
       ResetSecure, histVars
<1>6. CASE VerifyFails
  BY <1>0, <1>6, ClosingKeeps DEF VerifyFails, AwaitAt, Backoff, histVars
<1>7. CASE VerifyUnauthorised
  BY <1>7 DEF VerifyUnauthorised, Finish, histVars, linkVars
<1>8. CASE VerifySucceeds
  <2> DEFINE s == IF answer = "refused" THEN Closing(sock, transport) ELSE sock
  <2>1. /\ sock' = s
        /\ \A t \in verified : s[t] # "free"
        /\ \A t \in Transports : s[t] = "open" => sock[t] = "open"
        /\ transport # NoTransport => s[transport] # "free"
    BY <1>0, <1>8, ClosingKeeps DEF VerifySucceeds, NoDeadTransport
  <2>2. \A t \in verified : s[t] = "open" => closed \/ crashed
    BY <1>0, <1>8, <2>1 DEF VerifySucceeds
  <2> HIDE DEF s
  <2>3. CASE transport = NoTransport
    BY <1>8, <2>1, <2>2, <2>3 DEF VerifySucceeds, histVars
  <2>4. CASE transport # NoTransport
    <3>1. /\ connector' \in {"subscribing", "selfwait", "done"}
          /\ secure' /\ protocol' = "secure"
          /\ verified' = verified \cup {transport}
          /\ UNCHANGED <<transport, closed, crashed>>
      BY <1>8, <2>4 DEF VerifySucceeds, NotifyOwner, AwaitAt, Finish, histVars
    <3> QED
      BY <2>1, <2>2, <2>4, <3>1
  <2> QED
    BY <2>3, <2>4
<1>9. CASE SubscribeEnds
  BY <1>0, <1>9, ClosingKeeps DEF SubscribeEnds, Finish, histVars
<1>10. CASE SubscribeCrashes
  BY <1>10 DEF SubscribeCrashes, AwaitAt, Backoff, linkVars
<1>11. CASE SelfWaitTimesOut
  BY <1>11 DEF SelfWaitTimesOut, Finish, histVars, linkVars
<1>12. CASE ConnectorCancelled
  BY <1>0, <1>12, ClosingKeeps DEF ConnectorCancelled, Finish, histVars
<1>13. CASE TcpFails
  BY <1>13 DEF TcpFails, AwaitAt, Backoff, histVars, linkVars
<1>14. ASSUME NEW h \in Hosts, NEW t \in Transports, TcpConnects(h, t)
       PROVE  LeakInv'
  BY <1>14 DEF TcpConnects, AwaitAt, histVars
<1>15. CASE PeerAnswers
  BY <1>15 DEF PeerAnswers, Awaited, histVars, linkVars
<1>16. ASSUME NEW kind \in Misbehaviours, PeerMisbehaves(kind)
       PROVE  LeakInv'
  BY <1>16 DEF PeerMisbehaves, Awaited, histVars, linkVars
<1>17. CASE RequestTimesOut
  BY <1>17 DEF RequestTimesOut, Awaited, histVars, linkVars
<1>18. ASSUME NEW t \in Transports, TransportCloses(t)
       PROVE  LeakInv'
  BY <1>18 DEF TransportCloses, Awaited, histVars
<1>19. ASSUME NEW t \in Transports, ConnectionLost(t)
       PROVE  LeakInv'
  <2> DEFINE s == [sock EXCEPT ![t] = "free"]
  <2>1. /\ s \in [Transports -> SockStates]
        /\ \A u \in Transports : s[u] = IF u = t THEN "free" ELSE sock[u]
    BY <1>0 DEF SockStates
  <2> HIDE DEF s
  <2>2. sock' = Closing(s, transport) /\ verified' = verified \ {t}
    BY <1>19 DEF ConnectionLost, DropTransport, s
  <2>3. \A u \in verified' : sock'[u] # "free"
    BY <1>0, <2>1, <2>2, ClosingKeeps
  <2>4. \A u \in verified' : sock'[u] = "open" => closed \/ crashed
    BY <1>0, <2>1, <2>2, ClosingKeeps
  <2>5. (closed => closed') /\ crashed' = crashed
    BY <1>19 DEF ConnectionLost, AfterLoss, histVars
  <2> QED
    BY <2>3, <2>4, <2>5
<1>20. ASSUME NEW c \in Callers, NEW sub \in BOOLEAN, EnsureConnected(c, sub)
       PROVE  LeakInv'
  BY <1>0, <1>20, NoneAssumption
     DEF EnsureConnected, ConnectorRunning, IsConnected, StartConnector,
       StartReconnecting, linkVars
<1>21. ASSUME NEW c \in Callers, CallerReturns(c)
       PROVE  LeakInv'
  BY <1>21 DEF CallerReturns, histVars, linkVars
<1>22. CASE SubscribeNow
  BY <1>22 DEF SubscribeNow, IsConnected, histVars, linkVars, taskVars
<1>23. ASSUME NEW addrs \in Advertised, Advertise(addrs)
       PROVE  LeakInv'
  BY <1>0, <1>23, NoneAssumption
     DEF Advertise, ConnectorRunning, IsConnected, StartConnector,
       StartReconnecting, linkVars
<1>24. CASE Close
  BY <1>0, <1>24, ClosingKeeps
     DEF Close, CloseConnection, ConnectorRunning, DropTransport
<1>25. CASE Shutdown
  BY <1>0, <1>25, ClosingKeeps
     DEF Shutdown, CloseConnection, ConnectorRunning, DropTransport
<1>26. CASE CloseResumes
  BY <1>0, <1>26, ClosingKeeps DEF CloseResumes, DropTransport
<1>27. CASE UNCHANGED vars
  BY <1>27 DEF vars, linkVars, taskVars, histVars
<1> QED
  BY <1>1, <1>2, <1>3, <1>4, <1>5, <1>6, <1>7, <1>8, <1>9, <1>10, <1>11,
    <1>12, <1>13, <1>14, <1>15, <1>16, <1>17, <1>18, <1>19, <1>20, <1>21,
    <1>22, <1>23, <1>24, <1>25, <1>26, <1>27
     DEF Next, Connector, Network, User

-----------------------------------------------------------------------------
(* The bound on immediate retries.                                           *)

LEMMA RetryLoopHead ==
  ASSUME TypeOK, hosts # {}, NEW f \in SUBSET Hosts, LoopHead(f),
         burst <= Cardinality(f), burst < Cardinality(Hosts)
  PROVE  RetryInv'
<1>1. burst \in Nat /\ Cardinality(f) \in Nat /\ Cardinality(Hosts) \in Nat
  BY CardinalityOfHosts DEF TypeOK, HostType
<1>2. CASE closing
  BY <1>1, <1>2 DEF RetryInv, LoopHead, Finish
<1>3. CASE ~closing
  BY <1>1, <1>3 DEF RetryInv, LoopHead, AwaitAt
<1> QED
  BY <1>2, <1>3

(* A retry without a sleep needs one more failed host than the attempt before *)
(* had found, and is refused when no host is left to try.                     *)
LEMMA RetryStep ==
  ASSUME TypeOK, PeerKnown, RetryInv, [Next]_vars
  PROVE  RetryInv'
<1> USE DEF RetryInv
<1>0. /\ burst \in Nat /\ failedCount \in Nat /\ hosts \in SUBSET Hosts
      /\ failed \in SUBSET Hosts /\ Cardinality(Hosts) \in Nat
  BY CardinalityOfHosts DEF TypeOK, HostType
<1>00. 0 < Cardinality(Hosts)
  <2>1. Hosts # {}
    BY <1>0
  <2> QED
    BY <2>1, <1>0, HostsAssumption, FS_EmptySet
<1>1. CASE ConnectorStarts
  <2>1. burst = 0 /\ LoopHead(failed)
    BY <1>1 DEF ConnectorStarts
  <2>2. Cardinality(failed) \in Nat
    BY <1>0, CardinalityOfHosts
  <2> QED
    BY <1>0, <1>00, <2>1, <2>2, RetryLoopHead
<1>2. CASE ConnectorWakes
  <2>1. burst = 0 /\ LoopHead(failed)
    BY <1>2 DEF ConnectorWakes
  <2>2. Cardinality(failed) \in Nat
    BY <1>0, CardinalityOfHosts
  <2> QED
    BY <1>0, <1>00, <2>1, <2>2, RetryLoopHead
<1>3. CASE WakeSwallowsCancel
  <2>1. burst = 0 /\ LoopHead(failed)
    BY <1>3 DEF WakeSwallowsCancel
  <2>2. Cardinality(failed) \in Nat
    BY <1>0, CardinalityOfHosts
  <2> QED
    BY <1>0, <1>00, <2>1, <2>2, RetryLoopHead
<1>4. CASE VerifyGoesOn
  BY <1>0, <1>4 DEF VerifyGoesOn, AwaitAt, Backoff, hostVars
<1>5. CASE VerifyWrongAccessory
  <2> DEFINE f == MarkFailed
  <2>1. f \in SUBSET Hosts
    BY <1>0, <1>5 DEF MarkFailed, VerifyWrongAccessory, PeerKnown
  <2>2. burst <= failedCount + 1
    BY <1>5 DEF VerifyWrongAccessory
  <2>3. CASE RetryAtOnce(f)
    <3>1. Cardinality(f) > failedCount /\ f # Hosts
      BY <1>0, <2>3 DEF RetryAtOnce
    <3>2. Cardinality(f) \in Nat /\ Cardinality(f) < Cardinality(Hosts)
      BY <2>1, <3>1, CardinalityOfHosts
    <3>3. burst <= Cardinality(f) /\ burst < Cardinality(Hosts)
      BY <1>0, <2>2, <3>1, <3>2
    <3>4. LoopHead(f)
      BY <1>5, <2>3 DEF VerifyWrongAccessory
    <3> QED
      BY <2>1, <3>3, <3>4, RetryLoopHead
  <2>4. CASE ~RetryAtOnce(f)
    BY <1>5, <1>0, <2>4 DEF VerifyWrongAccessory, AwaitAt
  <2> QED
    BY <2>3, <2>4
<1>6. CASE VerifyFails
  BY <1>0, <1>6 DEF VerifyFails, AwaitAt, Backoff
<1>7. CASE VerifyUnauthorised
  BY <1>7 DEF VerifyUnauthorised, Finish, hostVars
<1>8. CASE VerifySucceeds
  BY <1>0, <1>8
     DEF VerifySucceeds, AwaitAt, Backoff, Finish, NotifyOwner, hostVars
<1>9. CASE SubscribeEnds
  BY <1>9 DEF SubscribeEnds, Finish, hostVars
<1>10. CASE SubscribeCrashes
  BY <1>0, <1>10 DEF SubscribeCrashes, AwaitAt, Backoff
<1>11. CASE SelfWaitTimesOut
  BY <1>11 DEF SelfWaitTimesOut, Finish, hostVars
<1>12. CASE ConnectorCancelled
  BY <1>12 DEF ConnectorCancelled, Finish, hostVars
<1>13. CASE TcpFails
  BY <1>0, <1>13 DEF TcpFails, AwaitAt, Backoff
<1>14. ASSUME NEW h \in Hosts, NEW t \in Transports, TcpConnects(h, t)
       PROVE  RetryInv'
  BY <1>0, <1>14 DEF TcpConnects, AwaitAt, hostVars
<1>15. CASE PeerAnswers
  BY <1>15 DEF PeerAnswers, hostVars
<1>16. ASSUME NEW kind \in Misbehaviours, PeerMisbehaves(kind)
       PROVE  RetryInv'
  BY <1>16 DEF PeerMisbehaves, hostVars
<1>17. CASE RequestTimesOut
  BY <1>17 DEF RequestTimesOut, hostVars
<1>18. ASSUME NEW t \in Transports, TransportCloses(t)
       PROVE  RetryInv'
  BY <1>18 DEF TransportCloses, hostVars
<1>19. ASSUME NEW t \in Transports, ConnectionLost(t)
       PROVE  RetryInv'
  BY <1>0, <1>19
     DEF ConnectionLost, AfterLoss, ConnectorRunning, StartConnector
<1>20. ASSUME NEW c \in Callers, NEW sub \in BOOLEAN, EnsureConnected(c, sub)
       PROVE  RetryInv'
  BY <1>0, <1>20
     DEF EnsureConnected, ConnectorRunning, StartConnector, StartReconnecting
<1>21. ASSUME NEW c \in Callers, CallerReturns(c)
       PROVE  RetryInv'
  BY <1>21 DEF CallerReturns, hostVars
<1>22. CASE SubscribeNow
  BY <1>22 DEF SubscribeNow, hostVars, taskVars
<1>23. ASSUME NEW addrs \in Advertised, Advertise(addrs)
       PROVE  RetryInv'
  BY <1>0, <1>23
     DEF Advertise, ConnectorRunning, StartConnector, StartReconnecting
<1>24. CASE Close
  BY <1>24 DEF Close, CloseConnection, ConnectorRunning, hostVars
<1>25. CASE Shutdown
  BY <1>25 DEF Shutdown, CloseConnection, ConnectorRunning, hostVars
<1>26. CASE CloseResumes
  BY <1>26 DEF CloseResumes, hostVars
<1>27. CASE UNCHANGED vars
  BY <1>27 DEF vars, hostVars, taskVars
<1> QED
  BY <1>1, <1>2, <1>3, <1>4, <1>5, <1>6, <1>7, <1>8, <1>9, <1>10, <1>11,
    <1>12, <1>13, <1>14, <1>15, <1>16, <1>17, <1>18, <1>19, <1>20, <1>21,
    <1>22, <1>23, <1>24, <1>25, <1>26, <1>27
     DEF Next, Connector, Network, User

-----------------------------------------------------------------------------
(* The theorems.                                                             *)

LEMMA InitInv == Init => IInv
<1> SUFFICES ASSUME Init PROVE IInv
  OBVIOUS
<1>1. LinkType /\ HostType
  BY AdvertisedAssumption DEF Init, LinkType, HostType, SockStates
<1>2. TaskType
  BY DEF Init, TaskType, Places, Answers, Outcomes
<1>3. TypeOK
  BY <1>1, <1>2 DEF Init, TypeOK, PairType, HistType
<1>4. NoDeadTransport /\ PeerKnown /\ SecureIsVerified /\ CloseInv
  BY DEF Init, NoDeadTransport, PeerKnown, SecureIsVerified, Attempting, CloseInv,
         ConnectorRunning
<1>5. ShutdownInv /\ LeakInv
  BY DEF Init, ShutdownInv, LeakInv
<1>6. RetryInv
  <2>1. 0 <= Cardinality(Hosts)
    BY CardinalityOfHosts
  <2> QED
    BY <2>1 DEF Init, RetryInv
<1> QED
  BY <1>3, <1>4, <1>5, <1>6 DEF IInv

LEMMA StepInv == IInv /\ [Next]_vars => IInv'
<1> SUFFICES ASSUME IInv, [Next]_vars PROVE IInv'
  OBVIOUS
<1>1. TypeOK' /\ NoDeadTransport' /\ PeerKnown'
  BY TypeStep, NoDeadTransportStep, PeerKnownStep DEF IInv
<1>2. SecureIsVerified' /\ CloseInv'
  BY SecureStep, CloseStep DEF IInv
<1>3. ShutdownInv' /\ LeakInv' /\ RetryInv'
  BY ShutdownStep, LeakStep, RetryStep DEF IInv
<1> QED
  BY <1>1, <1>2, <1>3 DEF IInv

LEMMA Inductive == Spec => []IInv
  BY InitInv, StepInv, PTL DEF Spec

(* Every variable keeps its type, whatever the accessory answers and in      *)
(* whatever order callbacks, tasks and callers interleave.                   *)
THEOREM TypeCorrect == Spec => []TypeOK
<1>1. IInv => TypeOK
  BY DEF IInv
<1> QED
  BY <1>1, Inductive, PTL

(* The connection never holds a transport after its connection_lost, for any *)
(* number of transports alive at once and losses in any order.               *)
THEOREM NeverHoldsDeadTransport == Spec => []NoDeadTransport
<1>1. IInv => NoDeadTransport
  BY DEF IInv
<1> QED
  BY <1>1, Inductive, PTL

(* is_connected is only ever true of a transport on which pair-verify has    *)
(* succeeded: a caller that finds it true has found a verified session.      *)
THEOREM ConnectedMeansVerified == Spec => []ConnectedIsVerified
<1>1. IInv => ConnectedIsVerified
  BY DEF IInv, SecureIsVerified, ConnectedIsVerified, IsConnected
<1> QED
  BY <1>1, Inductive, PTL

(* A close() that has ended lasts until somebody asks for the connection,    *)
(* whatever connection_lost is still to be delivered.                        *)
THEOREM CloseLasts == Spec => []ClosedStaysDown
<1>1. IInv => ClosedStaysDown
  BY DEF IInv, CloseInv, ClosedStaysDown
<1> QED
  BY <1>1, Inductive, PTL

(* After shutdown nobody can ask: the connection stays down for good.        *)
THEOREM ShutdownLasts == Spec => []ShutdownIsFinal
<1>1. IInv => ShutdownIsFinal
  BY DEF IInv, CloseInv, ShutdownInv, ShutdownIsFinal
<1> QED
  BY <1>1, Inductive, PTL

(* No secure session is left open and forgotten, save for the two ways in    *)
(* which the code does so.                                                   *)
THEOREM SessionsAreKept == Spec => []NoSessionLeak
<1>1. IInv => NoSessionLeak
  BY DEF IInv, LeakInv, NoSessionLeak
<1> QED
  BY <1>1, Inductive, PTL

(* However often zeroconf changes the addresses, the connector sleeps after  *)
(* at most as many attempts as there are addresses.                          *)
THEOREM RetriesAreBounded == Spec => []NoTightRetry
<1>1. IInv => NoTightRetry
  BY DEF IInv, RetryInv, NoTightRetry
<1> QED
  BY <1>1, Inductive, PTL
=============================================================================
